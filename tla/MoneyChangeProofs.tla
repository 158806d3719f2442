------------------------- MODULE MoneyChangeProofs -------------------------
(***************************************************************************)
(* Proofs about MoneyChange.tla for any hooks that hide their inner call   *)
(* and any depth of the stack: what the one flag says of all the calls on  *)
(* the stack, and that a movement of money is announced once.              *)
(*                                                                         *)
(* The heart of it is Innermost: a change in its origin that nobody has    *)
(* moved money from inside of is on top of the stack, or has only its own  *)
(* unpublished Trans above it, and the flag is FALSE for it.               *)
(***************************************************************************)
EXTENDS MoneyChange, TLAPS

-----------------------------------------------------------------------------
(* The inductive invariant.                                                *)

\* What a frame is, and what it has told.
FrameOK(frame) ==
    /\ frame.inner => frame.op = Trans
    /\ frame.step = "through" => frame.op = Trans
    /\ frame.step = "reporting" => frame.result
    /\ frame.step = "listening" => frame.told = 0
    /\ frame.step \in {"origin", "reporting"} /\ ~frame.reentered => frame.told = 1

\* An inner Trans sits on the change that made it.
Seated(i) == stack[i].inner => i > 1 /\ InOrigin(stack[i - 1]) /\ stack[i - 1].moved

Undisturbed(frame) == InOrigin(frame) /\ ~frame.reentered

Innermost(i) ==
    Undisturbed(stack[i]) =>
        /\ ~isRealTrans
        /\ \/ i = Len(stack)
           \/ i = Len(stack) - 1 /\ stack[i + 1].inner /\ stack[i + 1].step = "through"

IInv ==
    /\ stack \in Seq(Frame)
    /\ isRealTrans \in BOOLEAN
    /\ threw \in BOOLEAN
    /\ \A i \in 1..Len(stack) : FrameOK(stack[i]) /\ Seated(i) /\ Innermost(i)
    /\ (\A i \in 1..Len(stack) : ~InOrigin(stack[i])) /\ ~threw => isRealTrans

-----------------------------------------------------------------------------
(* Reading the stack.                                                      *)

\* The first calls of a stack.
LEMMA FirstCalls ==
    ASSUME NEW S, NEW s \in Seq(S), NEW k \in 0..Len(s)
    PROVE  /\ SubSeq(s, 1, k) \in Seq(S)
           /\ Len(SubSeq(s, 1, k)) = k
           /\ \A i \in 1..k : SubSeq(s, 1, k)[i] = s[i]
  OBVIOUS

\* A running call.
LEMMA TopCall ==
    ASSUME IInv, NEW steps, Running(steps)
    PROVE  /\ Len(stack) \in Nat /\ Len(stack) > 0
           /\ Top = stack[Len(stack)] /\ Top \in Frame /\ Top.step \in steps
           /\ FrameOK(Top) /\ Seated(Len(stack))
  BY DEF IInv, Running, Top

\* IInv' from what holds of each call on the new stack.
LEMMA Settle ==
    ASSUME stack' \in Seq(Frame), isRealTrans' \in BOOLEAN, threw' \in BOOLEAN,
           \A i \in 1..Len(stack') : FrameOK(stack'[i]) /\ Seated(i)' /\ Innermost(i)',
           (\A i \in 1..Len(stack') : ~InOrigin(stack'[i])) /\ ~threw' => isRealTrans'
    PROVE  IInv'
  BY DEF IInv, FrameOK, InOrigin

-----------------------------------------------------------------------------
(* Each step keeps the invariant.                                          *)

LEMMA CallKeeps ==
    ASSUME IInv, NEW op \in Changes \union {Trans}, Call(op)
    PROVE  IInv'
  <1> DEFINE n == Len(stack)
             new == Entered(op, FALSE)
             frames == [i \in DOMAIN stack |->
                          [stack[i] EXCEPT !.reentered = @ \/ InOrigin(stack[i])]]
  <1>1. /\ stack \in Seq(Frame) /\ n = Len(stack) /\ n \in Nat /\ DOMAIN stack = 1..n
        /\ stack' = Append(frames, new) /\ isRealTrans' = isRealTrans /\ threw' = threw
    BY DEF Call, Push, IInv
  <1>2. ASSUME NEW i \in 1..n
        PROVE  /\ frames[i] \in Frame /\ FrameOK(frames[i]) /\ ~Undisturbed(frames[i])
               /\ InOrigin(frames[i]) <=> InOrigin(stack[i])
               /\ frames[i].inner = stack[i].inner /\ frames[i].moved = stack[i].moved
    <2> DEFINE was == stack[i]
               disturbed == was.reentered \/ InOrigin(was)
    <2>1. was \in Frame /\ FrameOK(was)
      BY <1>1 DEF IInv
    <2>2. disturbed \in BOOLEAN
      OBVIOUS
    <2>3. frames[i] = [was EXCEPT !.reentered = disturbed]
      BY <1>1
    <2>4. ~disturbed => ~was.reentered /\ ~InOrigin(was)
      OBVIOUS
    <2> HIDE DEF was, disturbed, frames
    <2>5. /\ frames[i] \in Frame /\ frames[i].op = was.op /\ frames[i].step = was.step
          /\ frames[i].inner = was.inner /\ frames[i].moved = was.moved
          /\ frames[i].told = was.told /\ frames[i].result = was.result
          /\ frames[i].reentered = disturbed
      BY <2>1, <2>3, <2>2 DEF Frame
    <2>6. FrameOK(frames[i])
      BY <2>1, <2>4, <2>5 DEF FrameOK
    <2>7. InOrigin(frames[i]) <=> InOrigin(was)
      BY <2>5 DEF InOrigin
    <2>8. ~Undisturbed(frames[i])
      BY <2>4, <2>5, <2>7 DEF Undisturbed
    <2> QED  BY <2>5, <2>6, <2>7, <2>8 DEF was
  <1>3. new \in Frame /\ FrameOK(new) /\ ~new.inner /\ ~InOrigin(new)
    BY DEF Entered, Frame, Steps, FrameOK, InOrigin
  <1>4. frames \in Seq(Frame) /\ Len(frames) = n
    BY <1>1, <1>2
  <1> HIDE DEF frames, new, n
  <1>5. /\ stack' \in Seq(Frame) /\ Len(stack') = n + 1 /\ stack'[n + 1] = new
        /\ \A i \in 1..n : stack'[i] = frames[i]
    BY <1>1, <1>3, <1>4
  <1>6. ASSUME NEW i \in 1..n + 1
        PROVE  FrameOK(stack'[i]) /\ Seated(i)' /\ Innermost(i)'
    <2>1. CASE i = n + 1
      BY <1>3, <1>5, <2>1 DEF Seated, Innermost, Undisturbed
    <2>2. CASE i \in 1..n
      <3>1. Seated(i)'
        <4>1. Seated(i)
          BY <1>1, <2>2 DEF IInv
        <4>2. ASSUME stack'[i].inner
              PROVE  i > 1 /\ InOrigin(stack'[i - 1]) /\ stack'[i - 1].moved
          BY <1>1, <1>2, <1>5, <2>2, <4>1, <4>2 DEF Seated
        <4> QED  BY <4>2 DEF Seated, InOrigin
      <3>2. ~Undisturbed(stack'[i])
        BY <1>2, <1>5, <2>2
      <3>3. Innermost(i)'
        BY <3>2 DEF Innermost, Undisturbed, InOrigin
      <3> QED  BY <1>2, <1>5, <2>2, <3>1, <3>3
    <2>3. i = n + 1 \/ i \in 1..n
      BY <1>1
    <2> QED  BY <2>1, <2>2, <2>3
  <1>7. (\A i \in 1..n + 1 : ~InOrigin(stack'[i])) /\ ~threw' => isRealTrans'
    BY <1>1, <1>2, <1>5 DEF IInv
  <1> QED  BY <1>1, <1>5, <1>6, <1>7, Settle DEF IInv

LEMMA InnerTransKeeps ==
    ASSUME IInv, InnerTrans
    PROVE  IInv'
  <1> DEFINE n == Len(stack)
             new == Entered(Trans, TRUE)
             maker == [stack[n] EXCEPT !.moved = TRUE]
             frames == [stack EXCEPT ![n].moved = TRUE]
  <1>1. /\ stack \in Seq(Frame) /\ n = Len(stack) /\ n \in Nat /\ n > 0 /\ stack[n] \in Frame /\ FrameOK(stack[n])
        /\ stack[n].op \in Changes /\ stack[n].step = "origin"
        /\ stack' = Append(frames, new) /\ isRealTrans' = isRealTrans /\ threw' = threw
    BY TopCall DEF InnerTrans, Push, IInv, Top, Running
  <1>2. /\ maker \in Frame /\ FrameOK(maker) /\ InOrigin(maker) /\ InOrigin(stack[n])
        /\ maker.moved
        /\ Undisturbed(maker) <=> Undisturbed(stack[n])
        /\ maker.inner = stack[n].inner
    BY <1>1 DEF Frame, FrameOK, InOrigin, Undisturbed
  <1>3. /\ new \in Frame /\ FrameOK(new) /\ new.inner /\ ~InOrigin(new)
        /\ ~isRealTrans => new.step = "through"
    BY DEF Entered, Frame, Steps, FrameOK, InOrigin
  <1>4. /\ frames \in Seq(Frame) /\ Len(frames) = n /\ frames[n] = maker
        /\ \A i \in 1..n : i # n => frames[i] = stack[i]
    <2>1. frames = [stack EXCEPT ![n] = maker]
      BY <1>1
    <2> HIDE DEF frames, maker
    <2> QED  BY <1>1, <1>2, <2>1
  <1> HIDE DEF frames, new, maker, n
  <1>5. /\ stack' \in Seq(Frame) /\ Len(stack') = n + 1 /\ stack'[n + 1] = new
        /\ stack'[n] = maker /\ \A i \in 1..n : i # n => stack'[i] = stack[i]
    BY <1>1, <1>3, <1>4
  <1>6. ASSUME NEW i \in 1..n + 1
        PROVE  FrameOK(stack'[i]) /\ Seated(i)' /\ Innermost(i)'
    <2>1. CASE i = n + 1
      <3>1. ~Undisturbed(stack'[i])
        BY <1>3, <1>5, <2>1 DEF Undisturbed
      <3>2. Innermost(i)'
        BY <3>1 DEF Innermost, Undisturbed, InOrigin
      <3>3. i - 1 = n /\ i > 1
        BY <1>1, <2>1
      <3>4. InOrigin(stack'[i - 1]) /\ stack'[i - 1].moved /\ i > 1
        <4>1. stack'[i - 1] = maker
          BY <1>5, <3>3
        <4> QED  BY <1>2, <3>3, <4>1
      <3>5. Seated(i)'
        BY <3>4 DEF Seated, InOrigin
      <3> QED  BY <1>3, <1>5, <2>1, <3>2, <3>5
    <2>2. CASE i = n
      <3>1. Seated(n) /\ Innermost(n)
        BY <1>1 DEF IInv
      <3>2. Seated(i)'
        <4>1. ASSUME stack'[n].inner
              PROVE  n > 1 /\ InOrigin(stack'[n - 1]) /\ stack'[n - 1].moved
          BY <1>1, <1>2, <1>5, <3>1, <4>1 DEF Seated
        <4> QED  BY <2>2, <4>1 DEF Seated, InOrigin
      <3>3. ASSUME Undisturbed(stack'[n])
            PROVE  ~isRealTrans /\ new.step = "through"
        <4>1. Undisturbed(stack[n])
          BY <1>1, <1>2, <1>5, <3>3
        <4>2. ~isRealTrans
          BY <3>1, <4>1 DEF Innermost
        <4> QED  BY <1>3, <4>2
      <3>4. Innermost(i)'
        BY <1>1, <1>3, <1>5, <2>2, <3>3 DEF Innermost, Undisturbed, InOrigin
      <3> QED  BY <1>2, <1>5, <2>2, <3>2, <3>4
    <2>3. CASE i \in 1..n - 1
      <3>1. FrameOK(stack[i]) /\ Seated(i) /\ Innermost(i)
        BY <1>1, <2>3 DEF IInv
      <3>2. stack'[i] = stack[i]
        BY <1>1, <1>5, <2>3
      <3>3. i > 1 => stack'[i - 1] = stack[i - 1]
        BY <1>1, <1>5, <2>3
      <3>4. Seated(i)'
        BY <3>1, <3>2, <3>3 DEF Seated, InOrigin
      <3>5. ~stack[n].inner
        BY <1>1, MoneyAssumption DEF FrameOK
      <3>6. ~Undisturbed(stack[i])
        BY <1>1, <2>3, <3>1, <3>5 DEF Innermost
      <3>7. Innermost(i)'
        BY <3>2, <3>6 DEF Innermost, Undisturbed, InOrigin
      <3> QED  BY <3>1, <3>2, <3>4, <3>7
    <2>4. i = n + 1 \/ i = n \/ i \in 1..n - 1
      BY <1>1
    <2> QED  BY <2>1, <2>2, <2>3, <2>4
  <1>7. (\A i \in 1..n + 1 : ~InOrigin(stack'[i])) /\ ~threw' => isRealTrans'
    BY <1>1, <1>2, <1>5
  <1> QED  BY <1>1, <1>5, <1>6, <1>7, Settle DEF IInv

\* A change above which a call runs that is not its own unpublished Trans has
\* been disturbed.
LEMMA BelowIsDisturbed ==
    ASSUME IInv, NEW i \in 1..Len(stack) - 1,
           ~stack[Len(stack)].inner \/ stack[Len(stack)].step # "through"
    PROVE  ~Undisturbed(stack[i])
  <1> DEFINE n == Len(stack)
  <1>1. n \in Nat /\ n = Len(stack)
    BY DEF IInv
  <1>2. Innermost(i)
    BY <1>1 DEF IInv
  <1> HIDE DEF n
  <1>3. ASSUME Undisturbed(stack[i])
        PROVE  stack[n].inner /\ stack[n].step = "through"
    <2>1. \/ i = n
          \/ i = n - 1 /\ stack[i + 1].inner /\ stack[i + 1].step = "through"
      BY <1>1, <1>2, <1>3 DEF Innermost
    <2>2. i = n - 1 /\ i + 1 = n
      BY <1>1, <2>1
    <2> QED  BY <1>1, <2>1, <2>2
  <1> QED  BY <1>1, <1>3

\* A step of the running call that leaves it on the stack.
LEMMA TopStep ==
    ASSUME IInv, NEW steps, Running(steps), NEW new \in Frame, FrameOK(new),
           new.inner = Top.inner,
           stack' \in Seq(Frame), Len(stack') = Len(stack), stack'[Len(stack)] = new,
           \A i \in 1..Len(stack) - 1 :
               \/ stack'[i] = stack[i]
               \/ /\ FrameOK(stack'[i])
                  /\ ~Undisturbed(stack'[i])
                  /\ InOrigin(stack'[i]) <=> InOrigin(stack[i])
                  /\ stack'[i].inner = stack[i].inner
                  /\ stack'[i].moved = stack[i].moved,
           \/ ~Top.inner
           \/ Top.step # "through"
           \/ new.inner /\ new.step = "through" /\ isRealTrans' = isRealTrans,
           Undisturbed(new) => ~isRealTrans',
           isRealTrans' \in BOOLEAN, threw' \in BOOLEAN,
           (\A i \in 1..Len(stack) : ~InOrigin(stack'[i])) /\ ~threw' => isRealTrans'
    PROVE  IInv'
  <1> DEFINE n == Len(stack)
  <1>1. n \in Nat /\ n > 0 /\ n = Len(stack) /\ Top = stack[n]
    BY TopCall
  <1> HIDE DEF n
  <1>2. ASSUME NEW i \in 1..n
        PROVE  FrameOK(stack'[i]) /\ Seated(i)' /\ Innermost(i)'
    <2>1. FrameOK(stack[i]) /\ Seated(i) /\ Innermost(i)
      BY <1>1 DEF IInv
    <2>2. Seated(i)'
      <3>1. stack'[i].inner = stack[i].inner
        BY <1>1
      <3>2. i > 1 => /\ InOrigin(stack'[i - 1]) <=> InOrigin(stack[i - 1])
                     /\ stack'[i - 1].moved = stack[i - 1].moved
        <4> SUFFICES ASSUME i > 1
                     PROVE  /\ InOrigin(stack'[i - 1]) <=> InOrigin(stack[i - 1])
                            /\ stack'[i - 1].moved = stack[i - 1].moved
          OBVIOUS
        <4> DEFINE j == i - 1
        <4>1. j \in 1..n - 1
          BY <1>1
        <4> HIDE DEF j
        <4>2. /\ InOrigin(stack'[j]) <=> InOrigin(stack[j])
              /\ stack'[j].moved = stack[j].moved
          BY <1>1, <4>1
        <4> QED  BY <4>2 DEF j
      <3>3. stack'[i].inner => i > 1 /\ InOrigin(stack'[i - 1]) /\ stack'[i - 1].moved
        BY <2>1, <3>1, <3>2 DEF Seated
      <3> QED  BY <3>3 DEF Seated, InOrigin
    <2>3. CASE i = n
      <3>1. Innermost(i)'
        BY <1>1, <2>3 DEF Innermost, Undisturbed, InOrigin
      <3> QED  BY <1>1, <2>2, <2>3, <3>1
    <2>4. CASE i \in 1..n - 1
      <3>1. FrameOK(stack'[i])
        BY <1>1, <2>1, <2>4
      <3>2. ASSUME Undisturbed(stack'[i])
            PROVE  ~isRealTrans' /\ i = n - 1 /\ new.inner /\ new.step = "through"
        <4>1. Undisturbed(stack[i])
          BY <1>1, <2>4, <3>2
        <4>2. ~(~Top.inner \/ Top.step # "through")
          BY <1>1, <2>4, <4>1, BelowIsDisturbed
        <4>3. ~isRealTrans /\ i = n - 1
          BY <1>1, <2>1, <2>4, <4>1 DEF Innermost
        <4> QED  BY <4>2, <4>3
      <3>3. ASSUME Undisturbed(stack'[i])
            PROVE  ~isRealTrans' /\ i = n - 1 /\ stack'[i + 1].inner /\ stack'[i + 1].step = "through"
        <4>1. i + 1 = n
          BY <1>1, <3>2, <3>3
        <4>2. stack'[i + 1] = new
          BY <1>1, <4>1
        <4> QED  BY <3>2, <3>3, <4>2
      <3>4. Innermost(i)'
        BY <1>1, <3>3 DEF Innermost, Undisturbed, InOrigin
      <3> QED  BY <2>2, <3>1, <3>4
    <2>5. i = n \/ i \in 1..n - 1
      BY <1>1
    <2> QED  BY <2>3, <2>4, <2>5
  <1> QED  BY <1>1, <1>2, Settle

\* The running call ends, and a change it was the inner Trans of may hear what
\* it has answered.
LEMMA PopStep ==
    ASSUME IInv, NEW steps, Running(steps), ~InOrigin(Top),
           NEW result \in BOOLEAN,
           stack' = Pop \/ stack' = Answer(Pop, Top.inner, result),
           UNCHANGED <<isRealTrans, threw>>
    PROVE  IInv'
  <1> DEFINE n == Len(stack)
  <1>1. /\ n \in Nat /\ n > 0 /\ n = Len(stack) /\ Top = stack[n] /\ stack \in Seq(Frame)
        /\ Seated(n)
    BY TopCall DEF IInv
  <1>2. Top.inner => n > 1 /\ InOrigin(stack[n - 1])
    BY <1>1 DEF Seated
  <1> HIDE DEF n
  <1>3. /\ Pop \in Seq(Frame) /\ Len(Pop) = n - 1
        /\ \A i \in 1..n - 1 : Pop[i] = stack[i]
    <2>1. n - 1 \in 0..Len(stack)
      BY <1>1
    <2> QED  BY <1>1, <2>1, FirstCalls DEF Pop
  <1>4. /\ stack' \in Seq(Frame) /\ Len(stack') = n - 1
        /\ \A i \in 1..n - 1 :
             \/ stack'[i] = stack[i]
             \/ /\ i = n - 1 /\ InOrigin(stack[i])
                /\ stack'[i] = [stack[i] EXCEPT !.result = result]
    <2>1. CASE stack' = Pop
      BY <1>3, <2>1
    <2>2. CASE stack' = Answer(Pop, Top.inner, result) /\ stack' # Pop
      <3>1. Top.inner /\ stack' = [Pop EXCEPT ![n - 1].result = result]
        BY <1>3, <2>2 DEF Answer
      <3>2. n > 1 /\ InOrigin(stack[n - 1]) /\ n - 1 \in 1..n - 1
        BY <1>1, <1>2, <3>1
      <3> DEFINE told == [Pop[n - 1] EXCEPT !.result = result]
      <3>3. told \in Frame /\ Pop[n - 1] = stack[n - 1]
        <4> DEFINE maker == Pop[n - 1]
        <4>1. maker \in Frame /\ maker = stack[n - 1]
          BY <1>3, <3>2
        <4> HIDE DEF maker
        <4>2. [maker EXCEPT !.result = result] \in Frame
          BY <4>1 DEF Frame
        <4> QED  BY <4>1, <4>2 DEF maker
      <3>4. stack' = [Pop EXCEPT ![n - 1] = told]
        BY <3>1
      <3>5. told = [stack[n - 1] EXCEPT !.result = result]
        BY <3>3
      <3> HIDE DEF told
      <3>6. /\ stack' \in Seq(Frame) /\ Len(stack') = n - 1 /\ stack'[n - 1] = told
            /\ \A i \in 1..n - 1 : i # n - 1 => stack'[i] = Pop[i]
        BY <1>3, <3>2, <3>3, <3>4
      <3> QED  BY <1>3, <3>2, <3>5, <3>6
    <2> QED  BY <2>1, <2>2
  <1>5. ASSUME NEW i \in 1..n - 1
        PROVE  /\ FrameOK(stack'[i]) /\ stack'[i].inner = stack[i].inner
               /\ stack'[i].moved = stack[i].moved
               /\ InOrigin(stack'[i]) <=> InOrigin(stack[i])
               /\ Undisturbed(stack'[i]) <=> Undisturbed(stack[i])
    <2>1. FrameOK(stack[i]) /\ stack[i] \in Frame
      BY <1>1 DEF IInv
    <2>2. CASE stack'[i] = stack[i]
      BY <2>1, <2>2
    <2>3. CASE InOrigin(stack[i]) /\ stack'[i] = [stack[i] EXCEPT !.result = result]
      BY <2>1, <2>3 DEF FrameOK, InOrigin, Undisturbed, Frame
    <2> QED  BY <1>4, <2>2, <2>3
  <1>6. ASSUME NEW i \in 1..n - 1
        PROVE  FrameOK(stack'[i]) /\ Seated(i)' /\ Innermost(i)'
    <2>1. Seated(i) /\ Innermost(i)
      BY <1>1 DEF IInv
    <2>2. Seated(i)'
      <3>1. i > 1 => /\ InOrigin(stack'[i - 1]) <=> InOrigin(stack[i - 1])
                     /\ stack'[i - 1].moved = stack[i - 1].moved
        <4> SUFFICES ASSUME i > 1
                     PROVE  /\ InOrigin(stack'[i - 1]) <=> InOrigin(stack[i - 1])
                            /\ stack'[i - 1].moved = stack[i - 1].moved
          OBVIOUS
        <4> DEFINE j == i - 1
        <4>1. j \in 1..n - 1
          BY <1>1
        <4> HIDE DEF j
        <4>2. /\ InOrigin(stack'[j]) <=> InOrigin(stack[j])
              /\ stack'[j].moved = stack[j].moved
          BY <1>5, <4>1
        <4> QED  BY <4>2 DEF j
      <3>2. stack'[i].inner => i > 1 /\ InOrigin(stack'[i - 1]) /\ stack'[i - 1].moved
        BY <1>5, <2>1, <3>1 DEF Seated
      <3> QED  BY <3>2 DEF Seated, InOrigin
    <2>3. ASSUME Undisturbed(stack'[i])
          PROVE  ~isRealTrans' /\ i = n - 1
      <3>1. Undisturbed(stack[i])
        BY <1>5, <2>3
      <3> QED  BY <1>1, <2>1, <3>1 DEF Innermost
    <2>4. Innermost(i)'
      BY <1>4, <2>3 DEF Innermost, Undisturbed, InOrigin
    <2> QED  BY <1>5, <2>2, <2>4
  <1>7. (\A i \in 1..n - 1 : ~InOrigin(stack'[i])) /\ ~threw' => isRealTrans'
    <2> SUFFICES ASSUME \A i \in 1..n - 1 : ~InOrigin(stack'[i]), ~threw
                 PROVE  isRealTrans
      OBVIOUS
    <2>1. \A i \in 1..n : ~InOrigin(stack[i])
      BY <1>1, <1>5
    <2> QED  BY <1>1, <2>1 DEF IInv
  <1> QED  BY <1>4, <1>6, <1>7, Settle DEF IInv

LEMMA VetoKeeps ==
    ASSUME IInv, Veto
    PROVE  IInv'
  <1>1. Running({"listening"}) /\ stack' = Pop /\ UNCHANGED <<isRealTrans, threw>>
    BY DEF Veto
  <1>2. ~InOrigin(Top)
    BY <1>1, TopCall DEF InOrigin
  <1> QED  BY <1>1, <1>2, PopStep

\* Proceeding tells of the running call, and of the change it belongs to if it
\* is an inner Trans that is published: that change has been disturbed.
LEMMA ProceedKeeps ==
    ASSUME IInv, Proceed
    PROVE  IInv'
  <1> DEFINE n == Len(stack)
             new == [Top EXCEPT !.told = @ + 1, !.step = "origin"]
  <1>1. /\ Running({"listening"}) /\ n \in Nat /\ n > 0 /\ n = Len(stack) /\ Top = stack[n]
        /\ Top \in Frame /\ FrameOK(Top) /\ Top.step = "listening" /\ stack \in Seq(Frame)
        /\ Seated(n)
    BY TopCall DEF Proceed, IInv
  <1>2. /\ isRealTrans' = (isRealTrans /\ Top.op = Trans) /\ threw' = threw
        /\ stack' = [Told(stack) EXCEPT ![n].step = "origin"]
    BY DEF Proceed
  <1>3. /\ new \in Frame /\ FrameOK(new) /\ new.inner = Top.inner /\ new.op = Top.op
        /\ new.step = "origin"
    <2> DEFINE was == Top
    <2>1. /\ was \in Frame /\ was.told = 0 /\ was.step = "listening" /\ FrameOK(was)
          /\ new = [was EXCEPT !.told = 1, !.step = "origin"]
      <3>1. Top.told = 0
        BY <1>1 DEF FrameOK
      <3>2. new = [Top EXCEPT !.told = Top.told + 1, !.step = "origin"]
        BY <1>1 DEF Frame
      <3> QED  BY <1>1, <3>1, <3>2
    <2> HIDE DEF was, new
    <2>2. /\ new \in Frame /\ new.told = 1 /\ new.inner = was.inner /\ new.op = was.op
          /\ new.step = "origin"
      BY <2>1 DEF Frame, Steps
    <2>3. FrameOK(new)
      BY <2>1, <2>2 DEF FrameOK
    <2> QED  BY <2>2, <2>3 DEF was
  <1> DEFINE frames == Told(stack)
  <1>4. ASSUME NEW i \in 1..n
        PROVE  frames[i] = IF i = n \/ (i = n - 1 /\ stack[n].inner)
                             THEN [stack[i] EXCEPT !.told = @ + 1] ELSE stack[i]
    BY <1>1 DEF Told
  <1>5. Len(frames) = n /\ DOMAIN frames = 1..n /\ frames \in Seq(Frame)
    <2>1. frames = [i \in 1..n |-> frames[i]]
      BY <1>1 DEF Told
    <2>2. ASSUME NEW i \in 1..n
          PROVE  frames[i] \in Frame
      <3> DEFINE was == stack[i]
      <3>1. was \in Frame
        BY <1>1
      <3>2. frames[i] = was \/ frames[i] = [was EXCEPT !.told = @ + 1]
        BY <1>4
      <3> HIDE DEF was, frames
      <3>3. [was EXCEPT !.told = @ + 1] \in Frame
        BY <3>1 DEF Frame
      <3> QED  BY <3>1, <3>2, <3>3
    <2> HIDE DEF frames, n
    <2> QED  BY <1>1, <2>1, <2>2
  <1> HIDE DEF frames
  <1>6. stack' = [frames EXCEPT ![n] = new]
    <2>1. frames[n] = [Top EXCEPT !.told = @ + 1]
      BY <1>1, <1>4
    <2>2. stack' = [frames EXCEPT ![n] = [frames[n] EXCEPT !.step = "origin"]]
      BY <1>2 DEF frames
    <2>3. [frames[n] EXCEPT !.step = "origin"] = new
      BY <1>1, <2>1 DEF Frame
    <2> QED  BY <2>2, <2>3
  <1> HIDE DEF new, n
  <1>7. /\ stack' \in Seq(Frame) /\ Len(stack') = n /\ stack'[n] = new
        /\ \A i \in 1..n - 1 : stack'[i] = frames[i]
    BY <1>1, <1>3, <1>5, <1>6
  <1>8. \A i \in 1..n - 1 : ~Undisturbed(stack[i])
    BY <1>1, BelowIsDisturbed
  <1>9. ASSUME NEW i \in 1..n - 1
        PROVE  \/ stack'[i] = stack[i]
               \/ /\ FrameOK(stack'[i])
                  /\ ~Undisturbed(stack'[i])
                  /\ InOrigin(stack'[i]) <=> InOrigin(stack[i])
                  /\ stack'[i].inner = stack[i].inner
                  /\ stack'[i].moved = stack[i].moved
    <2> DEFINE was == stack[i]
    <2>1. was \in Frame /\ FrameOK(was) /\ ~Undisturbed(was)
      BY <1>1, <1>8 DEF IInv
    <2>2. CASE i = n - 1 /\ stack[n].inner
      <3>1. stack'[i] = [was EXCEPT !.told = @ + 1]
        BY <1>1, <1>4, <1>7, <2>2
      <3>2. InOrigin(was)
        BY <1>1, <2>2 DEF Seated
      <3> HIDE DEF was
      <3> QED  BY <2>1, <3>1, <3>2 DEF FrameOK, Undisturbed, InOrigin, Frame, was
    <2>3. CASE ~(i = n - 1 /\ stack[n].inner)
      <3>1. i \in 1..n /\ i # n
        BY <1>1
      <3>2. frames[i] = stack[i]
        BY <1>4, <2>3, <3>1
      <3> QED  BY <1>7, <3>2
    <2> QED  BY <2>2, <2>3
  <1>10. Undisturbed(new) => ~isRealTrans'
    BY <1>2, <1>3, MoneyAssumption DEF Undisturbed, InOrigin
  <1>11. (\A i \in 1..n : ~InOrigin(stack'[i])) /\ ~threw' => isRealTrans'
    <2> SUFFICES ASSUME \A i \in 1..n : ~InOrigin(stack'[i]), ~threw
                 PROVE  isRealTrans'
      BY <1>2
    <2>1. ~InOrigin(new)
      BY <1>1, <1>7
    <2>2. Top.op = Trans
      BY <1>1, <1>3, <2>1 DEF InOrigin, Frame
    <2>3. ~InOrigin(Top)
      BY <1>1 DEF InOrigin
    <2>4. \A i \in 1..n - 1 : ~InOrigin(stack[i])
      BY <1>1, <1>9
    <2>5. \A i \in 1..n : ~InOrigin(stack[i])
      BY <1>1, <2>3, <2>4
    <2>6. isRealTrans
      BY <1>1, <2>5 DEF IInv
    <2> QED  BY <1>2, <2>2, <2>6
  <1>12. isRealTrans' \in BOOLEAN /\ threw' \in BOOLEAN
    BY <1>2 DEF IInv
  <1>13. Top.step # "through"
    BY <1>1
  <1> QED  BY <1>1, <1>3, <1>7, <1>9, <1>10, <1>11, <1>12, <1>13, TopStep

\* A step that only sets the top of the stack, to a call that is not in the
\* origin of a change.
LEMMA SetTopKeeps ==
    ASSUME IInv, NEW steps, Running(steps), NEW new \in Frame, FrameOK(new),
           new.inner = Top.inner, SetTop(new), ~InOrigin(new),
           \/ Top.op # Trans
           \/ Top.step # "through"
           \/ new.step = "through" /\ isRealTrans' = isRealTrans,
           isRealTrans' \in BOOLEAN, threw' \in BOOLEAN,
           \/ isRealTrans'
           \/ ~InOrigin(Top) /\ UNCHANGED <<isRealTrans, threw>>
    PROVE  IInv'
  <1> DEFINE n == Len(stack)
  <1>1. /\ n \in Nat /\ n > 0 /\ n = Len(stack) /\ Top = stack[n] /\ FrameOK(Top)
        /\ stack \in Seq(Frame)
    BY TopCall DEF IInv
  <1> HIDE DEF n
  <1>2. /\ stack' \in Seq(Frame) /\ Len(stack') = n /\ stack'[n] = new
        /\ \A i \in 1..n - 1 : stack'[i] = stack[i]
    BY <1>1 DEF SetTop
  <1>3. ~Undisturbed(new)
    BY DEF Undisturbed
  <1>4. \/ ~Top.inner
        \/ Top.step # "through"
        \/ new.inner /\ new.step = "through" /\ isRealTrans' = isRealTrans
    BY <1>1 DEF FrameOK
  <1>5. (\A i \in 1..n : ~InOrigin(stack'[i])) /\ ~threw' => isRealTrans'
    <2>1. CASE isRealTrans'
      BY <2>1
    <2>2. CASE ~InOrigin(Top) /\ UNCHANGED <<isRealTrans, threw>>
      <3> SUFFICES ASSUME \A i \in 1..n : ~InOrigin(stack'[i]), ~threw
                   PROVE  isRealTrans
        BY <2>2
      <3>1. \A i \in 1..n : ~InOrigin(stack[i])
        BY <1>1, <1>2, <2>2
      <3> QED  BY <1>1, <3>1 DEF IInv
    <2> QED  BY <2>1, <2>2
  <1> QED  BY <1>1, <1>2, <1>3, <1>4, <1>5, TopStep

LEMMA MoveKeeps ==
    ASSUME IInv, Move
    PROVE  IInv'
  <1> DEFINE new == [Top EXCEPT !.result = TRUE]
  <1>1. /\ Running({"origin", "through"}) /\ Top.op = Trans /\ SetTop(new)
        /\ UNCHANGED <<isRealTrans, threw>> /\ Top \in Frame /\ FrameOK(Top)
    BY TopCall DEF Move
  <1>2. /\ new \in Frame /\ FrameOK(new) /\ new.inner = Top.inner /\ new.step = Top.step
        /\ new.op = Top.op
    BY <1>1 DEF Frame, FrameOK
  <1>3. ~InOrigin(new) /\ ~InOrigin(Top)
    BY <1>1, <1>2, MoneyAssumption DEF InOrigin
  <1>4. isRealTrans' \in BOOLEAN /\ threw' \in BOOLEAN
    BY <1>1 DEF IInv
  <1> HIDE DEF new
  <1> QED  BY <1>1, <1>2, <1>3, <1>4, SetTopKeeps

\* From the origin of a call on to its report.
LEMMA ReportOK ==
    ASSUME NEW frame \in Frame, FrameOK(frame), frame.step = "origin", frame.result,
           NEW new, new = [frame EXCEPT !.step = "reporting"]
    PROVE  /\ new \in Frame /\ FrameOK(new) /\ new.inner = frame.inner
           /\ new.step = "reporting" /\ ~InOrigin(new)
  BY DEF Frame, FrameOK, Steps, InOrigin

\* The flag is set again: no change below is undisturbed, as the one that ends
\* is no inner Trans.
LEMMA ReturnChangeKeeps ==
    ASSUME IInv, ReturnChange
    PROVE  IInv'
  <1> DEFINE n == Len(stack)
             new == [Top EXCEPT !.step = "reporting"]
  <1>1. /\ Running({"origin"}) /\ Top.op \in Changes /\ isRealTrans' = TRUE /\ threw' = FALSE
        /\ Top \in Frame /\ FrameOK(Top) /\ Top.step = "origin"
        /\ n \in Nat /\ n > 0 /\ n = Len(stack) /\ Top = stack[n] /\ stack \in Seq(Frame)
    BY TopCall DEF ReturnChange, IInv
  <1>2. CASE Top.result
    <2>1. SetTop(new)
      BY <1>2 DEF ReturnChange
    <2>2. /\ new \in Frame /\ FrameOK(new) /\ new.inner = Top.inner
          /\ new.step = "reporting" /\ ~InOrigin(new)
      BY <1>1, <1>2, ReportOK
    <2> HIDE DEF new
    <2> QED  BY <1>1, <2>1, <2>2, SetTopKeeps
  <1>3. CASE ~Top.result
    <2>1. stack' = Pop
      BY <1>3 DEF ReturnChange
    <2>2. ~stack[n].inner
      BY <1>1, MoneyAssumption DEF FrameOK
    <2> HIDE DEF n
    <2>3. \A i \in 1..n - 1 : ~Undisturbed(stack[i])
      BY <1>1, <2>2, BelowIsDisturbed
    <2>4. /\ stack' \in Seq(Frame) /\ Len(stack') = n - 1
          /\ \A i \in 1..n - 1 : stack'[i] = stack[i]
      <3>1. n - 1 \in 0..Len(stack)
        BY <1>1
      <3> QED  BY <1>1, <2>1, <3>1, FirstCalls DEF Pop
    <2>5. ASSUME NEW i \in 1..n - 1
          PROVE  FrameOK(stack'[i]) /\ Seated(i)' /\ Innermost(i)'
      <3>1. FrameOK(stack[i]) /\ Seated(i) /\ stack'[i] = stack[i] /\ ~Undisturbed(stack[i])
        BY <1>1, <2>3, <2>4 DEF IInv
      <3>2. i > 1 => stack'[i - 1] = stack[i - 1]
        BY <1>1, <2>4
      <3>3. Seated(i)'
        BY <3>1, <3>2 DEF Seated, InOrigin
      <3>4. Innermost(i)'
        BY <3>1 DEF Innermost, Undisturbed, InOrigin
      <3> QED  BY <3>1, <3>3, <3>4
    <2> QED  BY <1>1, <2>4, <2>5, Settle
  <1> QED  BY <1>2, <1>3

LEMMA ReturnTransKeeps ==
    ASSUME IInv, ReturnTrans
    PROVE  IInv'
  <1> DEFINE new == [Top EXCEPT !.step = "reporting"]
  <1>1. /\ Running({"origin", "through"}) /\ Top.op = Trans /\ UNCHANGED <<isRealTrans, threw>>
        /\ Top \in Frame /\ FrameOK(Top)
    BY TopCall DEF ReturnTrans
  <1>2. ~InOrigin(Top) /\ Top.result \in BOOLEAN
    BY <1>1, MoneyAssumption DEF InOrigin, Frame
  <1>3. isRealTrans' \in BOOLEAN /\ threw' \in BOOLEAN
    BY <1>1 DEF IInv
  <1>4. CASE Top.result /\ Top.step = "origin"
    <2>1. SetTop(new)
      BY <1>4 DEF ReturnTrans
    <2>2. /\ new \in Frame /\ FrameOK(new) /\ new.inner = Top.inner
          /\ new.step = "reporting" /\ ~InOrigin(new)
      BY <1>1, <1>4, ReportOK
    <2> HIDE DEF new
    <2> QED  BY <1>1, <1>2, <1>3, <1>4, <2>1, <2>2, SetTopKeeps
  <1>5. CASE ~(Top.result /\ Top.step = "origin")
    <2>1. stack' = Answer(Pop, Top.inner, Top.result)
      BY <1>5 DEF ReturnTrans
    <2> QED  BY <1>1, <1>2, <2>1, PopStep
  <1> QED  BY <1>4, <1>5

LEMMA ReportedKeeps ==
    ASSUME IInv, Reported
    PROVE  IInv'
  <1>1. /\ Running({"reporting"}) /\ stack' = Answer(Pop, Top.inner, TRUE)
        /\ UNCHANGED <<isRealTrans, threw>>
    BY DEF Reported
  <1>2. ~InOrigin(Top)
    BY <1>1, TopCall DEF InOrigin
  <1> QED  BY <1>1, <1>2, PopStep

\* What is left ends in a call that listens, and so has no undisturbed change.
LEMMA ThrowKeeps ==
    ASSUME IInv, Throw
    PROVE  IInv'
  <1> DEFINE n == Len(stack)
  <1>1. stack \in Seq(Frame) /\ n \in Nat /\ n = Len(stack)
    BY DEF IInv
  <1> HIDE DEF n
  <1>2. PICK k \in 0..n - 1 : (k > 0 => Listening(k)) /\ stack' = SubSeq(stack, 1, k)
    BY <1>1 DEF Throw
  <1>3. threw' = (threw \/ ~isRealTrans) /\ isRealTrans' = isRealTrans
    BY DEF Throw
  <1>4. stack' \in Seq(Frame) /\ Len(stack') = k /\ \A i \in 1..k : stack'[i] = stack[i]
    <2>1. k \in 0..Len(stack)
      BY <1>1, <1>2
    <2> QED  BY <1>1, <1>2, <2>1, FirstCalls
  <1>5. ASSUME NEW i \in 1..k
        PROVE  FrameOK(stack'[i]) /\ Seated(i)' /\ Innermost(i)'
    <2>1. FrameOK(stack[i]) /\ Seated(i) /\ Innermost(i) /\ stack'[i] = stack[i]
      BY <1>1, <1>2, <1>4 DEF IInv
    <2>2. i > 1 => stack'[i - 1] = stack[i - 1]
      BY <1>1, <1>2, <1>4
    <2>3. Seated(i)'
      BY <2>1, <2>2 DEF Seated, InOrigin
    <2>4. ~Undisturbed(stack[i])
      <3>1. i < k => ~Undisturbed(stack[i])
        BY <1>1, <1>2, <2>1 DEF Innermost
      <3>2. i = k => ~Undisturbed(stack[i])
        BY <1>2 DEF Listening, Undisturbed, InOrigin
      <3> QED  BY <1>1, <1>2, <3>1, <3>2
    <2>5. Innermost(i)'
      BY <2>1, <2>4 DEF Innermost, Undisturbed, InOrigin
    <2> QED  BY <2>1, <2>3, <2>5
  <1>6. ~threw' => isRealTrans'
    BY <1>3
  <1>7. isRealTrans' \in BOOLEAN /\ threw' \in BOOLEAN
    BY <1>3 DEF IInv
  <1> QED  BY <1>4, <1>5, <1>6, <1>7, Settle

-----------------------------------------------------------------------------
(* The theorems.                                                           *)

LEMMA InitIInv == Init => IInv
  <1> SUFFICES ASSUME Init PROVE IInv
    OBVIOUS
  <1>1. stack \in Seq(Frame) /\ Len(stack) = 0 /\ isRealTrans = TRUE /\ threw = FALSE
    BY DEF Init
  <1>2. \A i \in 1..Len(stack) : FrameOK(stack[i]) /\ Seated(i) /\ Innermost(i)
    BY <1>1
  <1>3. isRealTrans \in BOOLEAN /\ threw \in BOOLEAN /\ (~threw => isRealTrans)
    BY <1>1
  <1> QED  BY <1>1, <1>2, <1>3 DEF IInv

LEMMA NextKeeps == IInv /\ [Next]_vars => IInv'
  <1> SUFFICES ASSUME IInv, [Next]_vars
               PROVE  IInv'
    OBVIOUS
  <1>1. ASSUME NEW op \in Changes \union {Trans}, Call(op)
        PROVE  IInv'
    BY <1>1, CallKeeps
  <1>2. CASE InnerTrans \/ Veto \/ Proceed \/ Move
    BY <1>2, InnerTransKeeps, VetoKeeps, ProceedKeeps, MoveKeeps
  <1>3. CASE ReturnChange \/ ReturnTrans \/ Reported \/ Throw
    BY <1>3, ReturnChangeKeeps, ReturnTransKeeps, ReportedKeeps, ThrowKeeps
  <1>4. CASE UNCHANGED vars
    BY <1>4 DEF vars, IInv, FrameOK, Seated, Innermost, Undisturbed, InOrigin
  <1> QED  BY <1>1, <1>2, <1>3, <1>4 DEF Next

LEMMA Inductive == Spec => []IInv
  BY InitIInv, NextKeeps, PTL DEF Spec

\* However deep calls nest, an inner Trans sits on the change that made it, and
\* a call reports only what it did.
THEOREM TypeCorrect == Spec => []TypeOK
  <1>1. IInv => TypeOK
    BY DEF IInv, TypeOK, FrameOK, Seated
  <1> QED  BY <1>1, Inductive, PTL

\* The one static flag says of any stack of calls whether a change is being
\* carried out, unless money was moved from inside each of the origins under
\* way, or an exception has left it FALSE.
THEOREM FlagIsRight == Spec => []FlagMirrorsCalls
  <1>1. IInv => FlagMirrorsCalls
    BY DEF IInv, FlagMirrorsCalls, Innermost, Undisturbed
  <1> QED  BY <1>1, Inductive, PTL

\* A movement of money that is reported was announced once, on any stack.
THEOREM AnnouncesOnce == Spec => []AnnouncedOnce
  <1>1. IInv => AnnouncedOnce
    BY DEF IInv, AnnouncedOnce, FrameOK
  <1> QED  BY <1>1, Inductive, PTL

=============================================================================
