-------------------------- MODULE ExplosionProofs --------------------------
(***************************************************************************)
(* Proofs about Explosion.tla for any number of explosions, nested to any  *)
(* depth: lists of blocks, answers and the one slot of the two hooks.      *)
(*                                                                         *)
(* The invariant says, besides what a sound explosion finds in the slot at *)
(* each stage (SoundStage), where everybody is: who is on the stack, that  *)
(* an undisturbed explosion that is not decided yet is the innermost one   *)
(* (PendingOnTop), and that an explosion that has the slot has been        *)
(* overtaken by nobody the hooks have seen (SlotOrder).  Lent follows the  *)
(* lists of those that were disturbed.                                     *)
(***************************************************************************)
EXTENDS Explosion, SequenceTheorems, TLAPS

Depth == 1..Len(stack)
Top == stack[Len(stack)]

Types ==
    /\ stack \in Seq(Explosions)
    /\ progress \in [Explosions -> Progress]
    /\ slotOf \in Explosions \union {None}
    /\ slotCancelled \in BOOLEAN
    /\ affected \in [Explosions -> Lists]
    /\ message \in [Explosions -> Lists]
    /\ seen \subseteq Explosions
    /\ disturbed \subseteq Explosions
    /\ mixed \subseteq Explosions
    /\ vetoed \subseteq Explosions
    /\ hooked \in BOOLEAN
    /\ crashed \in BOOLEAN

\* No list is lost and none is in two places.
NoneLost ==
    \A list \in Lists : \E x \in Explosions : affected[x] = list \/ message[x] = list

\* The stack has those who have begun and not ended, once.
Stacked ==
    /\ \A i, j \in Depth : stack[i] = stack[j] => i = j
    /\ \A i \in Depth : progress[stack[i]] \notin {"unlit", "over"}
    /\ \A x \in Explosions :
           progress[x] \notin {"unlit", "over"} => \E i \in Depth : stack[i] = x

\* Nobody has touched what has not begun.
Untouched ==
    \A x \in Explosions : progress[x] = "unlit" =>
        /\ affected[x] = Own(x) /\ message[x] = Sent(x)
        /\ x \notin seen /\ x \notin vetoed /\ x \notin mixed /\ x # slotOf

\* Whoever is inside the explosion that has the slot was not seen by the hooks,
\* and if it publishes it has been taken for that explosion.
SlotOrder ==
    \A j, k \in Depth : j < k /\ stack[j] = slotOf =>
        /\ stack[k] \notin seen
        /\ progress[stack[k]] = "publishing" => slotOf \in disturbed

\* Whoever publishes has found an event in the slot.
SlotFilled == \A x \in Explosions : progress[x] = "publishing" => slotOf # None

\* Without a disturbance, only the innermost explosion is undecided.
PendingOnTop ==
    \A x \in Explosions \ disturbed :
        progress[x] \in Pending => stack # <<>> /\ x = Top

\* What a sound explosion finds, from its entry to its decision.
Stage(x) ==
    /\ progress[x] = "exploding" =>
           /\ slotOf = x /\ ~slotCancelled /\ x \notin vetoed
           /\ affected[x] = Own(x) /\ message[x] = Sent(x)
    /\ progress[x] = "publishing" =>
           /\ slotOf = x /\ (slotCancelled <=> x \in vetoed)
           /\ affected[x] = Sent(x) /\ message[x] = Own(x)
    /\ progress[x] \in {"started", "refused"} =>
           /\ affected[x] = Own(x) /\ message[x] = Sent(x)
           /\ progress[x] = "refused" <=> x \in vetoed

SoundStage == \A x \in Sound : Stage(x)

\* It is not a sound explosion that crashes.
CrashedUnsound == crashed => stack # <<>> /\ Top \notin Sound

IInv ==
    /\ Types /\ NoneLost /\ Stacked /\ Untouched
    /\ SlotOrder /\ SlotFilled /\ PendingOnTop /\ SoundStage /\ CrashedUnsound

-----------------------------------------------------------------------------
(* The stack.                                                              *)

LEMMA Pushed ==
    ASSUME NEW s \in Seq(Explosions), NEW x \in Explosions
    PROVE  /\ Append(s, x) \in Seq(Explosions)
           /\ Len(s) \in Nat /\ Len(Append(s, x)) = Len(s) + 1
           /\ \A i \in 1..Len(s) : Append(s, x)[i] = s[i]
           /\ Append(s, x)[Len(s) + 1] = x
  BY AppendProperties, LenProperties

LEMMA Popped ==
    ASSUME NEW s \in Seq(Explosions), s # <<>>
    PROVE  /\ SubSeq(s, 1, Len(s) - 1) \in Seq(Explosions)
           /\ Len(s) \in Nat \ {0} /\ Len(SubSeq(s, 1, Len(s) - 1)) = Len(s) - 1
           /\ \A i \in 1..Len(s) - 1 : SubSeq(s, 1, Len(s) - 1)[i] = s[i]
  <1>1. Len(s) \in Nat \ {0}
    BY EmptySeq
  <1> DEFINE n == Len(s) - 1
  <1>2. n \in Nat
    BY <1>1
  <1>3. \A i \in 1..n : s[i] \in Explosions
    BY <1>1, ElementOfSeq
  <1>4. /\ SubSeq(s, 1, n) \in Seq(Explosions)
        /\ Len(SubSeq(s, 1, n)) = n
        /\ \A i \in 1..n : SubSeq(s, 1, n)[i] = s[i]
    <2> HIDE DEF n
    <2>1. /\ SubSeq(s, 1, n) \in Seq(Explosions)
          /\ Len(SubSeq(s, 1, n)) = IF 1 <= n THEN n - 1 + 1 ELSE 0
          /\ \A i \in 1..n - 1 + 1 : SubSeq(s, 1, n)[i] = s[1 + i - 1]
      <3>1. n \in Int /\ 1 \in Int
        BY <1>2
      <3> QED  BY <1>3, <3>1, SubSeqProperties
    <2> QED  BY <1>2, <2>1
  <1> QED  BY <1>1, <1>4

\* Whoever runs is the innermost.
LEMMA RunningOnTop ==
    ASSUME Types, NEW x \in Explosions, NEW steps, Running(x, steps)
    PROVE  /\ stack # <<>> /\ Len(stack) \in Depth /\ Len(stack) \in Nat \ {0}
           /\ x = Top /\ x = stack[Len(stack)]
           /\ ~crashed /\ progress[x] \in steps
  BY EmptySeq DEF Types, Running, Depth, Top

-----------------------------------------------------------------------------
(* The lists.                                                              *)

\* A swap moves two lists and loses none.
LEMMA SwapKeepsLists ==
    ASSUME Types, NoneLost, NEW x \in Explosions, NEW owner \in Explosions, Swap(x, owner)
    PROVE  /\ affected' \in [Explosions -> Lists] /\ message' \in [Explosions -> Lists]
           /\ NoneLost'
  <1>1. affected' \in [Explosions -> Lists] /\ message' \in [Explosions -> Lists]
    BY DEF Types, Swap
  <1>2. ASSUME NEW list \in Lists
        PROVE  \E y \in Explosions : affected'[y] = list \/ message'[y] = list
    <2>1. PICK y \in Explosions : affected[y] = list \/ message[y] = list
      BY DEF NoneLost
    <2>2. CASE affected[y] = list /\ y = owner
      <3>1. message'[x] = list
        BY <2>2 DEF Types, Swap
      <3> QED  BY <3>1
    <2>3. CASE message[y] = list /\ y = x
      <3>1. affected'[owner] = list
        BY <2>3 DEF Types, Swap
      <3> QED  BY <3>1
    <2>4. CASE affected[y] = list /\ y # owner
      <3>1. affected'[y] = list
        BY <2>4 DEF Types, Swap
      <3> QED  BY <3>1
    <2>5. CASE message[y] = list /\ y # x
      <3>1. message'[y] = list
        BY <2>5 DEF Types, Swap
      <3> QED  BY <3>1
    <2> QED  BY <2>1, <2>2, <2>3, <2>4, <2>5
  <1> QED  BY <1>1, <1>2 DEF NoneLost, Lists

\* The slot is that of somebody who has begun: on the stack, or gone.
LEMMA SlotPlaced ==
    ASSUME IInv, slotOf # None
    PROVE  /\ slotOf \in Explosions /\ progress[slotOf] # "unlit"
           /\ progress[slotOf] # "over" => \E j \in Depth : stack[j] = slotOf
  BY DEF IInv, Types, Untouched, Stacked

-----------------------------------------------------------------------------
(* The invariant holds at the beginning and is kept by the emitter.        *)

LEMMA InitIInv == Init => IInv
  <1> SUFFICES ASSUME Init  PROVE IInv
    OBVIOUS
  <1>1. Len(stack) = 0 /\ Depth = {}
    BY DEF Init, Depth
  <1>2. Types
    BY EmptySeq DEF Init, Types, Progress, Lists, Own, Sent
  <1>3. NoneLost
    <2>1. ASSUME NEW list \in Lists
          PROVE  \E x \in Explosions : list = Own(x) \/ list = Sent(x)
      BY DEF Lists, Own, Sent
    <2> QED  BY <2>1 DEF Init, NoneLost
  <1>4. Stacked /\ SlotOrder
    BY <1>1 DEF Init, Stacked, SlotOrder
  <1>5. Untouched
    BY ExplosionAssumption DEF Init, Untouched
  <1>6. SlotFilled /\ PendingOnTop /\ SoundStage /\ CrashedUnsound
    BY DEF Init, SlotFilled, PendingOnTop, Pending, SoundStage, Sound, CrashedUnsound
  <1> QED  BY <1>2, <1>3, <1>4, <1>5, <1>6 DEF IInv

\* What the parts of the invariant are about; `hooked` is in none but Types.
others == <<stack, progress, slotOf, slotCancelled, affected, message, seen,
            disturbed, mixed, vetoed, crashed>>

LEMMA OthersKeep ==
    ASSUME IInv, UNCHANGED others, hooked' \in BOOLEAN
    PROVE  IInv'
  <1> USE DEF others
  <1>1. Types'  BY DEF IInv, Types
  <1>2. NoneLost' /\ Untouched'  BY DEF IInv, NoneLost, Untouched
  <1>3. Stacked' /\ SlotOrder' /\ SlotFilled' /\ PendingOnTop'
    BY DEF IInv, Stacked, SlotOrder, SlotFilled, PendingOnTop, Depth, Top
  <1>4. SoundStage' /\ CrashedUnsound'
    BY DEF IInv, SoundStage, CrashedUnsound, Sound, Stage, Top
  <1> QED  BY <1>1, <1>2, <1>3, <1>4 DEF IInv

LEMMA EmitterKeeps ==
    ASSUME IInv, Install \/ Remove
    PROVE  IInv'
  BY OthersKeep DEF Install, Remove, others

-----------------------------------------------------------------------------
(* Hook1.                                                                  *)

\* Who explodes disturbs everybody who is not decided yet.
LEMMA ExplodeKeeps ==
    ASSUME IInv, NEW x \in Explosions, Explode(x)
    PROVE  IInv'
  <1> USE DEF IInv
  <1>1. /\ stack' \in Seq(Explosions) /\ Len(stack) \in Nat /\ Len(stack') = Len(stack) + 1
        /\ \A i \in 1..Len(stack) : stack'[i] = stack[i]
        /\ stack'[Len(stack) + 1] = x
    BY Pushed DEF Types, Explode
  <1>2. progress' = [progress EXCEPT ![x] = "exploding"] /\ progress \in [Explosions -> Progress]
    BY DEF Explode, Types
  <1>3. /\ mixed' \subseteq Explosions
         /\ \A y \in Explosions : y # x /\ progress[y] = "unlit" => y \notin mixed'
         /\ x \notin mixed'
    <2>1. Lending # {} => slotOf \in Explosions /\ slotOf # x /\ progress[slotOf] # "unlit"
      <3>1. Lending # {} => slotOf # None
        BY DEF Lending, SlotFilled
      <3> QED  BY <3>1 DEF Types, Untouched, Explode
    <2>2. mixed' \subseteq mixed \union (IF Lending = {} THEN {} ELSE Lending \union {slotOf})
      BY DEF Explode
    <2>3. \A y \in Explosions : progress[y] = "unlit" => y \notin mixed /\ y \notin Lending
      BY DEF Untouched, Lending
    <2>4. mixed \subseteq Explosions /\ Lending \subseteq Explosions /\ progress[x] = "unlit"
      BY DEF Types, Lending, Explode
    <2> QED  BY <2>1, <2>2, <2>3, <2>4
  <1>4. Types'
    BY <1>1, <1>3 DEF Explode, Types, Progress
  <1>5. NoneLost'
    BY DEF Explode, NoneLost
  <1>6. /\ progress[x] = "unlit" /\ x # slotOf
        /\ x \notin seen /\ x \notin vetoed /\ x \notin mixed
    BY DEF Explode, Untouched
  <1>7. \A i \in 1..Len(stack) : stack[i] # x /\ stack[i] \in Explosions
    BY <1>6, ElementOfSeq DEF Stacked, Depth, Types
  <1>8. Stacked'
    <2>1. \A i \in 1..Len(stack) : stack'[i] # x
      BY <1>1, <1>7
    <2>2. ASSUME NEW i \in 1..Len(stack'), NEW j \in 1..Len(stack'), stack'[i] = stack'[j]
          PROVE  i = j
      BY <1>1, <2>1, <2>2 DEF Stacked, Depth
    <2>3. ASSUME NEW i \in 1..Len(stack')
          PROVE  progress'[stack'[i]] \notin {"unlit", "over"}
      BY <1>1, <1>2, <1>7, <2>3 DEF Stacked, Depth
    <2>4. ASSUME NEW y \in Explosions, progress'[y] \notin {"unlit", "over"}
          PROVE  \E i \in 1..Len(stack') : stack'[i] = y
      <3>1. CASE y = x
        <4>1. Len(stack) + 1 \in 1..Len(stack')
          BY <1>1
        <4> QED  BY <1>1, <3>1, <4>1
      <3>2. CASE y # x
        <4>1. PICK i \in Depth : stack[i] = y
          BY <1>2, <2>4, <3>2 DEF Stacked
        <4>2. i \in 1..Len(stack')
          BY <1>1, <4>1 DEF Depth
        <4> QED  BY <1>1, <4>1, <4>2 DEF Depth
      <3> QED  BY <3>1, <3>2
    <2> QED  BY <2>2, <2>3, <2>4 DEF Stacked, Depth
  <1>9. Untouched'
    BY <1>2, <1>6, <1>3 DEF Explode, Untouched
  <1>10. SlotOrder'
    <2> SUFFICES ASSUME NEW j \in 1..Len(stack'), NEW k \in 1..Len(stack'), j < k,
                        stack'[j] = slotOf'
                 PROVE  stack'[k] \notin seen'
                        /\ (progress'[stack'[k]] = "publishing" => slotOf' \in disturbed')
      BY DEF SlotOrder, Depth
    <2>1. j \in 1..Len(stack) /\ stack'[j] = stack[j] /\ stack[j] # x
      BY <1>1, <1>7
    <2>2. ~hooked /\ slotOf' = slotOf /\ seen' = seen
      BY <2>1 DEF Explode
    <2>3. CASE k = Len(stack) + 1
      BY <1>1, <1>2, <1>6, <2>2, <2>3
    <2>4. CASE k # Len(stack) + 1
      <3>1. k \in 1..Len(stack) /\ stack'[k] = stack[k] /\ stack[k] # x
        BY <1>1, <1>7, <2>4
      <3>2. progress'[stack[k]] = progress[stack[k]]
        BY <1>2, <1>7, <3>1
      <3> QED  BY <2>1, <2>2, <3>1, <3>2 DEF SlotOrder, Depth, Explode
    <2> QED  BY <2>3, <2>4
  <1>11. \A y \in Explosions \ disturbed' : y # x => progress[y] \notin Pending
    BY DEF Explode
  <1>12. PendingOnTop'
    <2>1. stack' # <<>> /\ Top' = x
      BY <1>1, EmptySeq DEF Top
    <2> QED  BY <1>2, <1>11, <2>1 DEF PendingOnTop
  <1>13. SoundStage'
    <2> SUFFICES ASSUME NEW y \in Sound'  PROVE Stage(y)'
      BY DEF SoundStage
    <2>1. y \in seen' /\ y \notin disturbed' /\ y \in Explosions
      BY <1>4 DEF Sound, Types
    <2>2. CASE y = x
      <3>1. hooked /\ slotOf' = x /\ slotCancelled' = FALSE
        BY <1>6, <2>1, <2>2 DEF Explode
      <3>2. progress'[x] = "exploding" /\ x \notin vetoed'
        BY <1>2, <1>6 DEF Explode
      <3>3. affected'[x] = Own(x) /\ message'[x] = Sent(x)
        BY <1>6 DEF Explode, Untouched
      <3> QED  BY <2>2, <3>1, <3>2, <3>3 DEF Stage
    <2>3. CASE y # x
      <3>1. y \in Sound
        BY <2>1, <2>3 DEF Explode, Sound
      <3>2. progress'[y] = progress[y] /\ progress[y] \notin Pending
        BY <1>2, <1>11, <2>1, <2>3
      <3> QED  BY <3>1, <3>2 DEF SoundStage, Stage, Explode, Pending
    <2> QED  BY <2>2, <2>3
  <1>14. CrashedUnsound'
    BY DEF CrashedUnsound, Explode
  <1>15. SlotFilled'
    BY <1>2, ExplosionAssumption DEF SlotFilled, Explode
  <1> QED  BY <1>4, <1>5, <1>8, <1>9, <1>10, <1>12, <1>13, <1>14, <1>15

\* Who ends leaves the stack, and cannot be waited for.
LEMMA FinishKeeps ==
    ASSUME IInv, NEW x \in Explosions, Finish(x)
    PROVE  IInv'
  <1> USE DEF IInv
  <1>1. /\ stack # <<>> /\ Len(stack) \in Depth /\ Len(stack) \in Nat \ {0}
        /\ x = stack[Len(stack)] /\ x = Top /\ ~crashed
    BY RunningOnTop DEF Finish
  <1>2. /\ stack' \in Seq(Explosions) /\ Len(stack') = Len(stack) - 1
        /\ \A i \in 1..Len(stack) - 1 : stack'[i] = stack[i]
    BY <1>1, Popped DEF Types, Finish
  <1>3. progress' = [progress EXCEPT ![x] = "over"] /\ progress \in [Explosions -> Progress]
    BY DEF Finish, Types
  <1>4. Types'
    BY <1>2 DEF Finish, Types, Progress
  <1>5. NoneLost'
    BY DEF Finish, NoneLost
  <1>6. \A i \in 1..Len(stack') : /\ i \in Depth /\ i < Len(stack) /\ stack'[i] = stack[i]
                                  /\ stack[i] # x /\ stack[i] \in Explosions
                                  /\ progress'[stack[i]] = progress[stack[i]]
    <2> SUFFICES ASSUME NEW i \in 1..Len(stack')
                 PROVE  /\ i \in Depth /\ i < Len(stack) /\ stack'[i] = stack[i]
                        /\ stack[i] # x /\ stack[i] \in Explosions
                        /\ progress'[stack[i]] = progress[stack[i]]
      OBVIOUS
    <2>1. i \in Depth /\ i < Len(stack) /\ stack'[i] = stack[i]
      BY <1>1, <1>2 DEF Depth
    <2>2. stack[i] # x
      <3>1. i # Len(stack)
        BY <1>1, <2>1
      <3> QED  BY <1>1, <2>1, <3>1 DEF Stacked
    <2>3. stack[i] \in Explosions
      BY <2>1, ElementOfSeq DEF Depth, Types
    <2> QED  BY <1>3, <2>1, <2>2, <2>3
  <1>7. Stacked'
    <2>1. \A i, j \in 1..Len(stack') : stack'[i] = stack'[j] => i = j
      BY <1>6 DEF Stacked
    <2>2. \A i \in 1..Len(stack') : progress'[stack'[i]] \notin {"unlit", "over"}
      BY <1>6 DEF Stacked
    <2>3. ASSUME NEW y \in Explosions, progress'[y] \notin {"unlit", "over"}
          PROVE  \E i \in 1..Len(stack') : stack'[i] = y
      <3>1. y # x /\ progress[y] \notin {"unlit", "over"}
        BY <1>3, <2>3
      <3>2. PICK i \in Depth : stack[i] = y
        BY <3>1 DEF Stacked
      <3>3. i # Len(stack)
        BY <1>1, <3>1, <3>2
      <3>4. i \in 1..Len(stack')
        BY <1>1, <1>2, <3>2, <3>3 DEF Depth
      <3> QED  BY <1>6, <3>2, <3>4
    <2> QED  BY <2>1, <2>2, <2>3 DEF Stacked, Depth
  <1>8. Untouched'
    BY <1>3 DEF Finish, Untouched
  <1>9. SlotOrder'
    <2> SUFFICES ASSUME NEW j \in 1..Len(stack'), NEW k \in 1..Len(stack'), j < k,
                        stack'[j] = slotOf'
                 PROVE  stack'[k] \notin seen'
                        /\ (progress'[stack'[k]] = "publishing" => slotOf' \in disturbed')
      BY DEF SlotOrder, Depth
    <2> QED  BY <1>6 DEF SlotOrder, Finish
  <1>10. PendingOnTop'
    BY <1>1, <1>3 DEF PendingOnTop, Finish, Pending
  <1>11. SoundStage'
    BY <1>3 DEF SoundStage, Stage, Sound, Finish, Types
  <1>12. CrashedUnsound'
    BY <1>1 DEF CrashedUnsound, Finish
  <1>13. SlotFilled'
    BY <1>3 DEF SlotFilled, Finish
  <1> QED  BY <1>13, <1>4, <1>5, <1>7, <1>8, <1>9, <1>10, <1>11, <1>12

-----------------------------------------------------------------------------
(* Hook2.                                                                  *)

\* Where everybody is does not change while the innermost explosion goes from
\* one of its stages to a later one.
LEMMA StepInPlace ==
    ASSUME IInv, NEW x \in Explosions, NEW stage \in {"publishing", "started", "refused"},
           NEW steps \in SUBSET {"exploding", "publishing"},
           Running(x, steps), progress' = [progress EXCEPT ![x] = stage],
           UNCHANGED <<stack, slotOf, seen, vetoed>>, disturbed \subseteq disturbed'
    PROVE  /\ Stacked'
           /\ PendingOnTop'
           /\ progress' \in [Explosions -> Progress]
           /\ stage # "publishing" => SlotOrder'
           /\ \A y \in Explosions : y # x => progress'[y] = progress[y]
           /\ \A y \in Explosions \ disturbed :
                  y # x => progress[y] \notin {"exploding", "publishing"}
  <1> USE DEF IInv
  <1>1. /\ stack # <<>> /\ Len(stack) \in Depth /\ x = Top /\ x = stack[Len(stack)]
        /\ progress[x] \in {"exploding", "publishing"}
    BY RunningOnTop
  <1>2. progress \in [Explosions -> Progress]
    BY DEF Types
  <1>3. \A i \in Depth : stack[i] \in Explosions
    BY ElementOfSeq DEF Types, Depth
  <1>4. \A y \in Explosions : progress'[y] = IF y = x THEN stage ELSE progress[y]
    BY <1>2
  <1>5. Stacked'
    BY <1>1, <1>3, <1>4 DEF Stacked, Depth
  <1>6. PendingOnTop'
    BY <1>1, <1>4 DEF PendingOnTop, Top, Pending
  <1>7. stage # "publishing" => SlotOrder'
    BY <1>3, <1>4 DEF SlotOrder, Depth
  <1>8. \A y \in Explosions \ disturbed :
            y # x => progress[y] \notin {"exploding", "publishing"}
    BY <1>1 DEF PendingOnTop, Pending
  <1> QED  BY <1>2, <1>4, <1>5, <1>6, <1>7, <1>8 DEF Progress

\* Nobody hooks the message.
LEMMA SendUnhookedKeeps ==
    ASSUME IInv, NEW x \in Explosions, SendUnhooked(x)
    PROVE  IInv'
  <1> USE DEF IInv
  <1>1. /\ ~crashed /\ progress[x] = "exploding"
        /\ progress' = [progress EXCEPT ![x] = "started"] /\ progress \in [Explosions -> Progress]
    BY RunningOnTop DEF SendUnhooked, Types
  <1>2. /\ Stacked' /\ PendingOnTop' /\ SlotOrder' /\ progress' \in [Explosions -> Progress]
        /\ \A y \in Explosions : y # x => progress'[y] = progress[y]
    BY <1>1, StepInPlace DEF SendUnhooked
  <1>3. Types'
    BY <1>2 DEF SendUnhooked, Types
  <1>4. NoneLost' /\ Untouched' /\ SlotFilled'
    BY <1>1, <1>2 DEF SendUnhooked, NoneLost, Untouched, SlotFilled
  <1>5. SoundStage'
    <2> SUFFICES ASSUME NEW y \in Sound'  PROVE Stage(y)'
      BY DEF SoundStage
    <2>1. y \in Sound /\ y \in Explosions
      BY DEF SendUnhooked, Sound, Types
    <2>2. Stage(y)
      BY <2>1 DEF SoundStage
    <2>3. CASE y = x
      BY <1>1, <2>2, <2>3 DEF Stage, SendUnhooked
    <2>4. CASE y # x
      BY <1>2, <2>1, <2>2, <2>4 DEF Stage, SendUnhooked
    <2> QED  BY <2>3, <2>4
  <1>6. CrashedUnsound'
    BY <1>1 DEF SendUnhooked, CrashedUnsound
  <1> QED  BY <1>2, <1>3, <1>4, <1>5, <1>6

\* A sound explosion is not among those that find the slot empty.
LEMMA SendNoEventKeeps ==
    ASSUME IInv, NEW x \in Explosions, SendNoEvent(x)
    PROVE  IInv'
  <1> USE DEF IInv
  <1>1. stack # <<>> /\ x = Top /\ progress[x] = "exploding"
    BY RunningOnTop DEF SendNoEvent
  <1>2. x \notin Sound
    <2>1. slotOf # x
      BY ExplosionAssumption DEF SendNoEvent
    <2> QED  BY <1>1, <2>1 DEF SoundStage, Stage
  <1>3. Types' /\ NoneLost' /\ Untouched' /\ SlotFilled'
    BY DEF SendNoEvent, Types, NoneLost, Untouched, SlotFilled
  <1>4. Stacked' /\ SlotOrder' /\ PendingOnTop'
    BY DEF SendNoEvent, Stacked, SlotOrder, PendingOnTop, Depth, Top
  <1>5. SoundStage'
    BY DEF SendNoEvent, SoundStage, Sound, Stage
  <1>6. CrashedUnsound'
    BY <1>1, <1>2 DEF SendNoEvent, CrashedUnsound, Sound, Top
  <1> QED  BY <1>3, <1>4, <1>5, <1>6

\* A hook swaps the list with the explosion in the slot, or with some other one
\* that nothing sound depends on.
LEMMA SlotUsed ==
    ASSUME IInv, NEW x \in Explosions, Running(x, {"exploding", "publishing"}),
           slotOf # None, UseSlot(x) \/ UseStaleSlot(x)
    PROVE  /\ crashed' \in BOOLEAN
           /\ crashed' => stack # <<>> /\ x = Top /\ x \notin Sound
           /\ mixed' \subseteq Explosions
           /\ \A y \in Explosions : progress[y] = "unlit" => y \notin mixed'
           /\ \E owner \in Explosions :
                  /\ Swap(x, owner)
                  /\ progress[owner] # "unlit"
                  /\ owner = slotOf \/ owner \notin seen \/ progress[owner] = "over"
                  /\ x \in Sound => owner = slotOf
  <1>1. stack # <<>> /\ x = Top /\ ~crashed /\ progress[x] \in {"exploding", "publishing"}
    BY RunningOnTop DEF IInv
  <1>2. x \in Sound => slotOf = x
    BY <1>1 DEF IInv, SoundStage, Stage
  <1>3. /\ slotOf \in Explosions /\ progress[slotOf] # "unlit"
        /\ mixed \subseteq Explosions
        /\ \A y \in Explosions : progress[y] = "unlit" => y \notin mixed
    BY SlotPlaced DEF IInv, Types, Untouched
  <1>4. CASE UseSlot(x)
    <2>1. Swap(x, slotOf) /\ mixed' = mixed /\ crashed' = FALSE
      BY <1>1, <1>4 DEF UseSlot, IInv, Types
    <2> QED  BY <1>3, <2>1
  <1>5. CASE UseStaleSlot(x)
    <2>1. x \notin Sound
      BY <1>1, <1>2, <1>5 DEF UseStaleSlot
    <2>2. PICK owner \in Explosions :
             /\ progress[owner] = "over" \/ (progress[owner] # "unlit" /\ owner \notin seen)
             /\ Swap(x, owner)
             /\ mixed' = mixed \union {x, owner}
      BY <1>5 DEF UseStaleSlot
    <2>. QED  BY <1>1, <1>3, <1>5, <2>1, <2>2 DEF UseStaleSlot
  <1> QED  BY <1>4, <1>5

\* The list of blocks is lent to the explosion in the slot.
LEMMA SendKeeps ==
    ASSUME IInv, NEW x \in Explosions, Send(x)
    PROVE  IInv'
  <1> USE DEF IInv
  <1>1. /\ stack # <<>> /\ Len(stack) \in Depth /\ Len(stack) \in Nat
        /\ x = Top /\ x = stack[Len(stack)]
        /\ ~crashed /\ progress[x] = "exploding"
    BY RunningOnTop DEF Send
  <1>2. progress' = [progress EXCEPT ![x] = "publishing"] /\ progress \in [Explosions -> Progress]
    BY DEF Send, Types
  <1>3. /\ Stacked' /\ PendingOnTop' /\ progress' \in [Explosions -> Progress]
        /\ \A y \in Explosions : y # x => progress'[y] = progress[y]
        /\ \A y \in Explosions \ disturbed :
               y # x => progress[y] \notin {"exploding", "publishing"}
    BY <1>2, StepInPlace DEF Send
  <1>4. /\ slotOf \in Explosions /\ progress[slotOf] # "unlit"
        /\ progress[slotOf] # "over" => \E j \in Depth : stack[j] = slotOf
    BY SlotPlaced DEF Send
  <1>5. /\ crashed' \in BOOLEAN
        /\ crashed' => stack # <<>> /\ x = Top /\ x \notin Sound
        /\ mixed' \subseteq Explosions
        /\ \A y \in Explosions : progress[y] = "unlit" => y \notin mixed'
        /\ \E owner \in Explosions :
               /\ Swap(x, owner)
               /\ progress[owner] # "unlit"
               /\ owner = slotOf \/ owner \notin seen \/ progress[owner] = "over"
               /\ x \in Sound => owner = slotOf
    <2>1. Running(x, {"exploding", "publishing"})
      BY DEF Send, Running
    <2> QED  BY <2>1, SlotUsed DEF Send
  <1>6. PICK owner \in Explosions :
           /\ Swap(x, owner)
           /\ progress[owner] # "unlit"
           /\ owner = slotOf \/ owner \notin seen \/ progress[owner] = "over"
           /\ x \in Sound => owner = slotOf
    BY <1>5
  <1>7. /\ affected' \in [Explosions -> Lists] /\ message' \in [Explosions -> Lists]
         /\ NoneLost'
    BY <1>6, SwapKeepsLists
  <1>8. Types'
    BY <1>3, <1>4, <1>5, <1>7 DEF Send, Types
  <1>9. /\ \A y \in Explosions : y # owner => affected'[y] = affected[y]
        /\ \A y \in Explosions : y # x => message'[y] = message[y]
        /\ affected'[owner] = message[x] /\ message'[x] = affected[owner]
    BY <1>6 DEF Swap, Types
  <1>10. Untouched'
    BY <1>1, <1>3, <1>5, <1>6, <1>9 DEF Send, Untouched
  <1>11. disturbed \subseteq disturbed' /\ (x \notin seen => slotOf \in disturbed')
    BY DEF Send
  <1>12. SlotOrder'
    <2> SUFFICES ASSUME NEW j \in Depth, NEW k \in Depth, j < k, stack[j] = slotOf
                 PROVE  stack[k] \notin seen
                        /\ (progress'[stack[k]] = "publishing" => slotOf \in disturbed')
      BY DEF SlotOrder, Depth, Send
    <2>1. stack[k] \notin seen
      BY DEF SlotOrder
    <2>2. stack[k] \in Explosions
      BY ElementOfSeq DEF Types, Depth
    <2>3. CASE stack[k] = x
      BY <1>11, <2>1, <2>3
    <2>4. CASE stack[k] # x
      BY <1>3, <1>11, <2>1, <2>2, <2>4 DEF SlotOrder
    <2> QED  BY <2>1, <2>3, <2>4
  <1>13. SoundStage'
    <2> SUFFICES ASSUME NEW y \in Sound'  PROVE Stage(y)'
      BY DEF SoundStage
    <2>1. y \in Sound /\ y \in Explosions /\ y \notin disturbed /\ y \notin disturbed' /\ y \in seen
      BY <1>11 DEF Send, Sound, Types
    <2>2. Stage(y)
      BY <2>1 DEF SoundStage
    <2>3. CASE y = x
      <3>1. slotOf = x /\ ~slotCancelled /\ x \notin vetoed
            /\ affected[x] = Own(x) /\ message[x] = Sent(x)
        BY <1>1, <2>2, <2>3 DEF Stage
      <3>2. affected'[x] = Sent(x) /\ message'[x] = Own(x)
        BY <1>6, <1>9, <2>1, <2>3, <3>1
      <3> QED  BY <1>2, <2>3, <3>1, <3>2 DEF Stage, Send
    <2>4. CASE y # x
      <3>1. progress'[y] = progress[y] /\ progress[y] \notin {"exploding", "publishing"}
        BY <1>3, <2>1, <2>4
      <3>2. CASE progress[y] \in {"started", "refused"}
        <4>1. y # owner
          <5> SUFFICES ASSUME y = owner  PROVE FALSE
            OBVIOUS
          <5>1. slotOf = y
            BY <1>6, <2>1, <3>2
          <5>2. PICK j \in Depth : stack[j] = slotOf
            BY <1>4, <3>2, <5>1
          <5>3. j < Len(stack)
            BY <1>1, <2>4, <5>2, <5>1 DEF Depth
          <5>4. x \notin seen
            BY <1>1, <5>2, <5>3 DEF SlotOrder
          <5> QED  BY <1>11, <2>1, <5>4, <5>1
        <4> QED  BY <1>9, <2>1, <2>2, <2>4, <3>1, <4>1 DEF Stage, Send
      <3>3. CASE progress[y] \notin {"started", "refused"}
        BY <3>1, <3>3 DEF Stage
      <3> QED  BY <3>2, <3>3
    <2> QED  BY <2>3, <2>4
  <1>14. CrashedUnsound'
    BY <1>5, <1>11 DEF CrashedUnsound, Sound, Send, Top
  <1>15. SlotFilled'
    BY DEF SlotFilled, Send
  <1> QED  BY <1>15, <1>3, <1>7, <1>8, <1>10, <1>12, <1>13, <1>14

\* An answer goes into the slot, if the event is still there.
LEMMA CancelKeeps ==
    ASSUME IInv, NEW x \in Explosions, NEW flag \in BOOLEAN, Cancel(x, flag)
    PROVE  IInv'
  <1> USE DEF IInv
  <1>1. stack # <<>> /\ x = Top /\ ~crashed /\ progress[x] = "publishing"
    BY RunningOnTop DEF Cancel
  <1>2. Types'
    BY DEF Cancel, Types
  <1>3. NoneLost' /\ Untouched' /\ SlotFilled'
    BY <1>1 DEF Cancel, NoneLost, Untouched, SlotFilled
  <1>4. Stacked' /\ SlotOrder' /\ PendingOnTop'
    BY DEF Cancel, Stacked, SlotOrder, PendingOnTop, Depth, Top
  <1>5. SoundStage'
    <2> SUFFICES ASSUME NEW y \in Sound'  PROVE Stage(y)'
      BY DEF SoundStage
    <2>1. y \in Sound /\ y \in Explosions /\ y \notin disturbed
      BY DEF Cancel, Sound, Types
    <2>2. Stage(y)
      BY <2>1 DEF SoundStage
    <2>3. CASE y = x
      <3>1. slotCancelled' = flag /\ (flag <=> x \in vetoed')
        BY <2>1, <2>3 DEF Cancel
      <3> QED  BY <1>1, <2>2, <2>3, <3>1 DEF Stage, Cancel
    <2>4. CASE y # x
      <3>1. progress[y] \notin Pending
        BY <1>1, <2>1, <2>4 DEF PendingOnTop
      <3> QED  BY <2>2, <2>4, <3>1 DEF Stage, Cancel, Pending
    <2> QED  BY <2>3, <2>4
  <1>6. CrashedUnsound'
    BY <1>1 DEF Cancel, CrashedUnsound
  <1> QED  BY <1>2, <1>3, <1>4, <1>5, <1>6

\* The list is taken back from the explosion in the slot, and the answer read.
LEMMA AnswerKeeps ==
    ASSUME IInv, NEW x \in Explosions, Answer(x)
    PROVE  IInv'
  <1> USE DEF IInv
  <1> DEFINE stage == IF slotCancelled THEN "refused" ELSE "started"
  <1>1. /\ stack # <<>> /\ Len(stack) \in Depth /\ Len(stack) \in Nat
        /\ x = Top /\ x = stack[Len(stack)]
        /\ ~crashed /\ progress[x] = "publishing" /\ slotOf # None
    BY RunningOnTop DEF Answer, SlotFilled
  <1>2. progress' = [progress EXCEPT ![x] = stage] /\ progress \in [Explosions -> Progress]
    BY DEF Answer, Types
  <1>3. /\ Stacked' /\ PendingOnTop' /\ SlotOrder' /\ progress' \in [Explosions -> Progress]
        /\ \A y \in Explosions : y # x => progress'[y] = progress[y]
        /\ \A y \in Explosions \ disturbed :
               y # x => progress[y] \notin {"exploding", "publishing"}
    BY <1>2, StepInPlace DEF Answer
  <1>4. /\ slotOf \in Explosions /\ progress[slotOf] # "unlit"
        /\ progress[slotOf] # "over" => \E j \in Depth : stack[j] = slotOf
    BY <1>1, SlotPlaced
  <1>5. /\ crashed' \in BOOLEAN
        /\ crashed' => stack # <<>> /\ x = Top /\ x \notin Sound
        /\ mixed' \subseteq Explosions
        /\ \A y \in Explosions : progress[y] = "unlit" => y \notin mixed'
        /\ \E owner \in Explosions :
               /\ Swap(x, owner)
               /\ progress[owner] # "unlit"
               /\ owner = slotOf \/ owner \notin seen \/ progress[owner] = "over"
               /\ x \in Sound => owner = slotOf
    <2>1. Running(x, {"exploding", "publishing"})
      BY DEF Answer, Running
    <2> QED  BY <1>1, <2>1, SlotUsed DEF Answer
  <1>6. PICK owner \in Explosions :
           /\ Swap(x, owner)
           /\ progress[owner] # "unlit"
           /\ owner = slotOf \/ owner \notin seen \/ progress[owner] = "over"
           /\ x \in Sound => owner = slotOf
    BY <1>5
  <1>7. /\ affected' \in [Explosions -> Lists] /\ message' \in [Explosions -> Lists]
         /\ NoneLost'
    BY <1>6, SwapKeepsLists
  <1>8. Types'
    BY <1>3, <1>5, <1>7 DEF Answer, Types
  <1>9. /\ \A y \in Explosions : y # owner => affected'[y] = affected[y]
        /\ \A y \in Explosions : y # x => message'[y] = message[y]
        /\ affected'[owner] = message[x] /\ message'[x] = affected[owner]
    BY <1>6 DEF Swap, Types
  <1>10. Untouched'
    BY <1>1, <1>2, <1>3, <1>5, <1>6, <1>9 DEF Answer, Untouched
  <1>11. SoundStage'
    <2> SUFFICES ASSUME NEW y \in Sound'  PROVE Stage(y)'
      BY DEF SoundStage
    <2>1. y \in Sound /\ y \in Explosions /\ y \notin disturbed /\ y \in seen
      BY DEF Answer, Sound, Types
    <2>2. Stage(y)
      BY <2>1 DEF SoundStage
    <2>3. CASE y = x
      <3>1. slotOf = x /\ (slotCancelled <=> x \in vetoed)
            /\ affected[x] = Sent(x) /\ message[x] = Own(x)
        BY <1>1, <2>2, <2>3 DEF Stage
      <3>2. affected'[x] = Own(x) /\ message'[x] = Sent(x)
        BY <1>6, <1>9, <2>1, <2>3, <3>1
      <3>3. progress'[x] = stage /\ vetoed' = vetoed
        BY <1>2 DEF Answer
      <3> QED  BY <2>3, <3>1, <3>2, <3>3 DEF Stage
    <2>4. CASE y # x
      <3>1. progress'[y] = progress[y] /\ progress[y] \notin {"exploding", "publishing"}
        BY <1>3, <2>1, <2>4
      <3>2. CASE progress[y] \in {"started", "refused"}
        <4>1. y # owner
          <5> SUFFICES ASSUME y = owner  PROVE FALSE
            OBVIOUS
          <5>1. slotOf = y
            BY <1>6, <2>1, <3>2
          <5>2. PICK j \in Depth : stack[j] = slotOf
            BY <1>4, <3>2, <5>1
          <5>3. j < Len(stack)
            BY <1>1, <2>4, <5>2, <5>1 DEF Depth
          <5>4. slotOf \in disturbed
            BY <1>1, <5>2, <5>3 DEF SlotOrder
          <5> QED  BY <2>1, <5>4, <5>1
        <4> QED  BY <1>9, <2>1, <2>2, <2>4, <3>1, <4>1 DEF Stage, Answer
      <3>3. CASE progress[y] \notin {"started", "refused"}
        BY <3>1, <3>3 DEF Stage
      <3> QED  BY <3>2, <3>3
    <2> QED  BY <2>3, <2>4
  <1>12. CrashedUnsound'
    BY <1>5 DEF CrashedUnsound, Sound, Answer, Top
  <1>13. SlotFilled'
    BY DEF SlotFilled, Answer
  <1> QED  BY <1>13, <1>3, <1>7, <1>8, <1>10, <1>11, <1>12

-----------------------------------------------------------------------------
(* What is lent.  The lists of the explosion in the slot and of those that *)
(* publish with it move along one chain: the first has the list of the     *)
(* explosion, each later one that of the one before it, and the explosion  *)
(* has the list of the last.                                               *)

Lends(i) == stack[i] \in Lending
Keeps(x) == x \notin mixed /\ progress[x] # "over"

\* Nobody lends between the places i and j of the stack.
NobodyBetween(i, j) == \A k \in Depth : i < k /\ k < j => ~ Lends(k)

Links ==
    \A i, j \in Depth : i < j /\ Lends(i) /\ Lends(j) /\ NobodyBetween(i, j) =>
        message[stack[j]] = Sent(stack[i])

FirstLink ==
    \A j \in Depth : Lends(j) /\ NobodyBetween(0, j) /\ Keeps(slotOf) =>
        message[stack[j]] = Own(slotOf)

LastLink ==
    \A i \in Depth : Lends(i) /\ NobodyBetween(i, Len(stack) + 1) =>
        affected[slotOf] = Sent(stack[i])

NoLink ==
    slotOf # None /\ NobodyBetween(0, Len(stack) + 1) /\ Keeps(slotOf) =>
        affected[slotOf] = Own(slotOf)

\* Everybody else has their own.
AtHome ==
    /\ \A x \in Explosions : x # slotOf /\ Keeps(x) => affected[x] = Own(x)
    /\ \A x \in Explosions \ mixed : progress[x] # "publishing" => message[x] = Sent(x)

\* Who lends is inside the explosion in the slot; nobody mixed up is.
Inside ==
    /\ \A j \in Depth : Lends(j) => \E i \in Depth : i <= j /\ stack[i] = slotOf
    /\ \A i, j \in Depth : i <= j /\ stack[i] = slotOf => stack[j] \notin mixed

Lent == Links /\ FirstLink /\ LastLink /\ NoLink /\ AtHome /\ Inside

LEMMA InitLent == Init => Lent
  <1> SUFFICES ASSUME Init  PROVE Lent
    OBVIOUS
  <1>1. Depth = {}
    BY DEF Init, Depth
  <1> QED  BY <1>1 DEF Init, Lent, Links, FirstLink, LastLink, NoLink, AtHome, Inside

\* A step that leaves stack, slot and lists alone.
LEMMA StillLent ==
    ASSUME IInv, Lent, UNCHANGED <<stack, slotOf, affected, message, mixed>>,
           \A y \in Explosions : /\ progress'[y] = "publishing" <=> progress[y] = "publishing"
                                 /\ progress'[y] = "over" <=> progress[y] = "over"
    PROVE  Lent'
  <1>1. Lending' = Lending /\ Depth' = Depth
    BY DEF Lending, Depth
  <1>2. \A i \in Depth : Lends(i)' <=> Lends(i)
    BY <1>1 DEF Lends
  <1>3. \A y \in Explosions : Keeps(y)' <=> Keeps(y)
    BY DEF Keeps
  <1>4. \A j \in Depth : Lends(j) => slotOf \in Explosions
    BY DEF IInv, Types, SlotFilled, Lends, Lending
  <1>5. \A i, j : NobodyBetween(i, j)' <=> NobodyBetween(i, j)
    BY <1>1, <1>2 DEF NobodyBetween
  <1>6. Links'
    BY <1>1, <1>2, <1>5 DEF Lent, Links
  <1>7. FirstLink'
    BY <1>1, <1>2, <1>3, <1>4, <1>5 DEF Lent, FirstLink
  <1>8. LastLink' /\ NoLink'
    BY <1>1, <1>2, <1>3, <1>5 DEF Lent, LastLink, NoLink, IInv, Types
  <1>9. AtHome' /\ Inside'
    BY <1>1, <1>2, <1>3 DEF Lent, AtHome, Inside
  <1> QED  BY <1>6, <1>7, <1>8, <1>9 DEF Lent

LEMMA AsideLends ==
    ASSUME IInv, Lent, NEW x \in Explosions,
           \/ Install \/ Remove \/ SendUnhooked(x) \/ SendNoEvent(x)
           \/ \E flag \in BOOLEAN : Cancel(x, flag)
    PROVE  Lent'
  <1>1. UNCHANGED <<stack, slotOf, affected, message, mixed>>
    BY DEF Install, Remove, SendUnhooked, SendNoEvent, Cancel
  <1>2. \/ UNCHANGED progress
        \/ progress' = [progress EXCEPT ![x] = "started"] /\ progress[x] = "exploding"
    BY RunningOnTop DEF Install, Remove, SendUnhooked, SendNoEvent, Cancel, IInv
  <1>3. progress \in [Explosions -> Progress]
    BY DEF IInv, Types
  <1> QED  BY <1>1, <1>2, <1>3, StillLent

\* An explosion without the hooks lends nothing; one with them is the new slot,
\* and whoever was lending then is mixed up.
LEMMA ExplodeLends ==
    ASSUME IInv, Lent, NEW x \in Explosions, Explode(x)
    PROVE  Lent'
  <1>1. PICK n \in Nat : /\ Len(stack) = n /\ Len(stack') = n + 1
                         /\ \A i \in 1..n : stack'[i] = stack[i]
                         /\ stack'[n + 1] = x
    BY Pushed DEF IInv, Types, Explode
  <1>2. /\ progress' = [progress EXCEPT ![x] = "exploding"] /\ progress \in [Explosions -> Progress]
        /\ affected' = affected /\ message' = message
    BY DEF Explode, IInv, Types
  <1>3. /\ progress[x] = "unlit" /\ x \notin mixed /\ x # slotOf
        /\ affected[x] = Own(x) /\ message[x] = Sent(x)
    BY DEF Explode, IInv, Untouched
  <1>4. \A i \in 1..n : stack[i] # x /\ stack[i] \in Explosions
    BY <1>1, <1>3, ElementOfSeq DEF IInv, Stacked, Depth, Types
  <1>5. Depth = 1..n /\ Depth' = 1..(n + 1)
    BY <1>1 DEF Depth
  <1>6. CASE ~hooked
    <2>1. slotOf' = slotOf /\ mixed' = mixed
      BY <1>6 DEF Explode
    <2>2. /\ \A i \in 1..n : Lends(i)' <=> Lends(i)
          /\ ~ Lends(n + 1)'
      BY <1>1, <1>2, <1>3, <1>4, <2>1 DEF Lends, Lending
    <2>3. \A y \in Explosions : Keeps(y)' <=> Keeps(y)
      BY <1>2, <1>3, <2>1 DEF Keeps
    <2>4. /\ \A i \in 0..n, j \in 1..n : NobodyBetween(i, j)' <=> NobodyBetween(i, j)
          /\ \A i \in 0..n : NobodyBetween(i, n + 2)' <=> NobodyBetween(i, n + 1)
      BY <1>5, <2>2 DEF NobodyBetween
    <2>5. \A j \in 1..n : Lends(j) => slotOf \in Explosions
      BY DEF IInv, Types, SlotFilled, Lends, Lending
    <2>6. Links'
      <3> SUFFICES ASSUME NEW i \in 1..n, NEW j \in 1..n, i < j, Lends(i), Lends(j),
                          NobodyBetween(i, j)
                   PROVE  message[stack[j]] = Sent(stack[i])
        BY <1>1, <1>2, <1>5, <2>2, <2>4 DEF Links
      <3> QED  BY <1>5 DEF Lent, Links
    <2>7. FirstLink'
      <3> SUFFICES ASSUME NEW j \in 1..n, Lends(j), NobodyBetween(0, j), Keeps(slotOf)
                   PROVE  message[stack[j]] = Own(slotOf)
        BY <1>1, <1>2, <1>5, <2>1, <2>2, <2>3, <2>4, <2>5 DEF FirstLink
      <3> QED  BY <1>5 DEF Lent, FirstLink
    <2>8. LastLink'
      <3> SUFFICES ASSUME NEW i \in 1..n, Lends(i), NobodyBetween(i, n + 1)
                   PROVE  affected[slotOf] = Sent(stack[i])
        BY <1>1, <1>2, <1>5, <2>1, <2>2, <2>4 DEF LastLink
      <3> QED  BY <1>1, <1>5 DEF Lent, LastLink
    <2>9. NoLink'
      <3> SUFFICES ASSUME slotOf # None, NobodyBetween(0, n + 1), Keeps(slotOf)
                   PROVE  affected[slotOf] = Own(slotOf)
        BY <1>1, <1>2, <2>1, <2>3, <2>4 DEF NoLink, IInv, Types
      <3> QED  BY <1>1 DEF Lent, NoLink
    <2>10. AtHome'
      BY <1>2, <1>3, <2>1, <2>3 DEF Lent, AtHome
    <2>11. Inside'
      <3>1. ASSUME NEW j \in 1..n, Lends(j)
            PROVE  \E i \in 1..n : i <= j /\ stack[i] = slotOf
        BY <1>5, <3>1 DEF Lent, Inside
      <3>2. \A j \in 1..(n + 1) : Lends(j)' => \E i \in 1..(n + 1) : i <= j /\ stack'[i] = slotOf
        BY <1>1, <2>2, <3>1
      <3>3. ASSUME NEW i \in 1..(n + 1), NEW j \in 1..(n + 1), i <= j, stack'[i] = slotOf
            PROVE  stack'[j] \notin mixed
        BY <1>1, <1>3, <1>4, <1>5, <3>3 DEF Lent, Inside
      <3> QED  BY <1>5, <2>1, <3>2, <3>3 DEF Inside
    <2> QED  BY <2>6, <2>7, <2>8, <2>9, <2>10, <2>11 DEF Lent
  <1>7. CASE hooked
    <2>1. /\ slotOf' = x
          /\ mixed' = IF Lending = {} THEN mixed ELSE mixed \union Lending \union {slotOf}
      BY <1>7 DEF Explode
    <2>2. x \notin mixed' /\ mixed \subseteq mixed' /\ Lending \subseteq mixed'
      BY <1>3, <2>1 DEF Lending
    <2>3. Lending' = {}
      BY <1>2, <2>2 DEF Lending
    <2>4. Links' /\ FirstLink' /\ LastLink'
      BY <2>3 DEF Links, FirstLink, LastLink, Lends
    <2>5. NoLink'
      BY <1>2, <1>3, <2>1 DEF NoLink
    <2>6. ASSUME NEW y \in Explosions, y # x, Keeps(y)'
          PROVE  affected[y] = Own(y)
      <3>1. Keeps(y)
        BY <1>2, <2>2, <2>6 DEF Keeps
      <3>2. CASE y # slotOf
        BY <3>1, <3>2 DEF Lent, AtHome
      <3>3. CASE y = slotOf
        <4>1. Lending = {}
          BY <2>1, <2>6, <3>3 DEF Keeps
        <4>2. slotOf # None /\ NobodyBetween(0, Len(stack) + 1)
          BY <3>3, <4>1, ExplosionAssumption DEF NobodyBetween, Lends
        <4> QED  BY <3>1, <3>3, <4>2 DEF Lent, NoLink
      <3> QED  BY <3>2, <3>3
    <2>7. \A y \in Explosions \ mixed' : progress'[y] # "publishing" => message[y] = Sent(y)
      BY <1>2, <1>3, <2>2 DEF Lent, AtHome
    <2>8. AtHome'
      BY <1>2, <2>1, <2>6, <2>7 DEF AtHome
    <2>9. Inside'
      BY <1>1, <1>4, <1>5, <2>1, <2>2, <2>3 DEF Inside, Lends
    <2> QED  BY <2>4, <2>5, <2>8, <2>9 DEF Lent
  <1> QED  BY <1>6, <1>7

\* Who ends was not lending.
LEMMA FinishLends ==
    ASSUME IInv, Lent, NEW x \in Explosions, Finish(x)
    PROVE  Lent'
  <1>1. /\ stack # <<>> /\ Len(stack) \in Nat \ {0}
        /\ x = stack[Len(stack)] /\ progress[x] \in {"exploding", "started", "refused"}
    BY RunningOnTop DEF Finish, IInv
  <1>2. PICK n \in Nat : /\ Len(stack) = n + 1 /\ Len(stack') = n
                         /\ \A i \in 1..n : stack'[i] = stack[i]
                         /\ stack[n + 1] = x
    <2>1. /\ Len(stack') = Len(stack) - 1
          /\ \A i \in 1..Len(stack) - 1 : stack'[i] = stack[i]
      BY <1>1, Popped DEF Finish, IInv, Types
    <2> QED  BY <1>1, <2>1
  <1>3. /\ progress' = [progress EXCEPT ![x] = "over"] /\ progress \in [Explosions -> Progress]
        /\ UNCHANGED <<affected, message, slotOf, mixed>>
    BY DEF Finish, IInv, Types
  <1>4. Depth = 1..(n + 1) /\ Depth' = 1..n
    BY <1>2 DEF Depth
  <1>5. Lending' = Lending
    BY <1>1, <1>3 DEF Lending
  <1>6. /\ \A i \in 1..n : Lends(i)' <=> Lends(i)
        /\ ~ Lends(n + 1)
    BY <1>1, <1>2, <1>5 DEF Lends, Lending
  <1>7. \A y \in Explosions : Keeps(y)' => Keeps(y)
    BY <1>3 DEF Keeps
  <1>8. /\ \A i \in 0..n, j \in 1..n : NobodyBetween(i, j)' <=> NobodyBetween(i, j)
        /\ \A i \in 0..n : NobodyBetween(i, n + 1)' <=> NobodyBetween(i, n + 2)
    BY <1>4, <1>6 DEF NobodyBetween
  <1>9. \A j \in 1..n : Lends(j) => slotOf \in Explosions
    BY DEF IInv, Types, SlotFilled, Lends, Lending
  <1>10. Links'
    <2> SUFFICES ASSUME NEW i \in 1..n, NEW j \in 1..n, i < j, Lends(i), Lends(j),
                        NobodyBetween(i, j)
                 PROVE  message[stack[j]] = Sent(stack[i])
      BY <1>2, <1>3, <1>4, <1>6, <1>8 DEF Links
    <2> QED  BY <1>4 DEF Lent, Links
  <1>11. FirstLink'
    <2> SUFFICES ASSUME NEW j \in 1..n, Lends(j), NobodyBetween(0, j), Keeps(slotOf)
                 PROVE  message[stack[j]] = Own(slotOf)
      BY <1>2, <1>3, <1>4, <1>6, <1>7, <1>8, <1>9 DEF FirstLink
    <2> QED  BY <1>4 DEF Lent, FirstLink
  <1>12. LastLink'
    <2> SUFFICES ASSUME NEW i \in 1..n, Lends(i), NobodyBetween(i, n + 2)
                 PROVE  affected[slotOf] = Sent(stack[i])
      BY <1>2, <1>3, <1>4, <1>6, <1>8 DEF LastLink
    <2> QED  BY <1>2, <1>4 DEF Lent, LastLink
  <1>13. NoLink'
    <2> SUFFICES ASSUME slotOf # None, NobodyBetween(0, n + 2), Keeps(slotOf)
                 PROVE  affected[slotOf] = Own(slotOf)
      BY <1>2, <1>3, <1>7, <1>8 DEF NoLink, IInv, Types
    <2> QED  BY <1>2 DEF Lent, NoLink
  <1>14. AtHome'
    BY <1>1, <1>3, <1>7 DEF Lent, AtHome
  <1>15. Inside'
    <2>1. ASSUME NEW j \in 1..n, Lends(j)
          PROVE  \E i \in 1..n : i <= j /\ stack[i] = slotOf
      BY <1>4, <2>1 DEF Lent, Inside
    <2>2. ASSUME NEW i \in 1..n, NEW j \in 1..n, i <= j, stack[i] = slotOf
          PROVE  stack[j] \notin mixed
      BY <1>4, <2>2 DEF Lent, Inside
    <2> QED  BY <1>2, <1>3, <1>4, <1>6, <2>1, <2>2 DEF Inside
  <1> QED  BY <1>10, <1>11, <1>12, <1>13, <1>14, <1>15 DEF Lent

\* A slot that is gone: nobody was lending, and who uses it is mixed up.
LEMMA StaleLends ==
    ASSUME IInv, Lent, NEW x \in Explosions, NEW stage \in {"publishing", "started", "refused"},
           Running(x, {"exploding", "publishing"}), UseStaleSlot(x),
           progress' = [progress EXCEPT ![x] = stage], UNCHANGED <<stack, slotOf>>
    PROVE  Lent'
  <1>1. progress[slotOf] = "over" /\ progress[x] \in {"exploding", "publishing"}
    BY RunningOnTop DEF UseStaleSlot, IInv
  <1>2. PICK owner \in Explosions : Swap(x, owner) /\ mixed' = mixed \union {x, owner}
    BY DEF UseStaleSlot
  <1>3. \A i \in Depth : stack[i] # slotOf
    BY <1>1 DEF IInv, Stacked
  <1>4. Lending = {}
    <2> SUFFICES ASSUME NEW y \in Lending  PROVE FALSE
      OBVIOUS
    <2>1. PICK j \in Depth : stack[j] = y
      BY DEF Lending, IInv, Stacked
    <2> QED  BY <1>3, <2>1 DEF Lent, Inside, Lends
  <1>5. progress \in [Explosions -> Progress] /\ x # slotOf
    BY <1>1 DEF IInv, Types
  <1>6. Lending' = {}
    BY <1>2, <1>4, <1>5 DEF Lending
  <1>7. /\ \A y \in Explosions : y # owner => affected'[y] = affected[y]
        /\ \A y \in Explosions : y # x => message'[y] = message[y]
    BY <1>2 DEF Swap, IInv, Types
  <1>8. Links' /\ FirstLink' /\ LastLink'
    BY <1>6 DEF Links, FirstLink, LastLink, Lends
  <1>9. ~ Keeps(slotOf)'
    BY <1>1, <1>5 DEF Keeps, IInv, Types
  <1>10. NoLink'
    BY <1>9 DEF NoLink
  <1>11. AtHome'
    <2>1. \A y \in Explosions : y # slotOf /\ Keeps(y)' => Keeps(y) /\ y # owner
      BY <1>2, <1>5 DEF Keeps
    <2>2. \A y \in Explosions \ mixed' : y # x /\ y \notin mixed /\ progress'[y] = progress[y]
      BY <1>2, <1>5
    <2> QED  BY <1>7, <2>1, <2>2 DEF Lent, AtHome
  <1>12. Inside'
    BY <1>3, <1>6 DEF Inside, Lends, Depth
  <1> QED  BY <1>8, <1>10, <1>11, <1>12 DEF Lent

\* Who uses a slot that is there is not mixed up, and is the last of the stack.
LEMMA SlotHere ==
    ASSUME IInv, Lent, NEW x \in Explosions, NEW stage \in {"publishing", "started", "refused"},
           Running(x, {"exploding", "publishing"}), UseSlot(x), slotOf # None,
           progress' = [progress EXCEPT ![x] = stage], UNCHANGED <<stack, slotOf>>
    PROVE  /\ slotOf \in Explosions /\ x \notin mixed /\ mixed' = mixed
           /\ Lending' = (IF stage = "publishing" THEN Lending \union {x} ELSE Lending \ {x})
           /\ \A y \in Explosions : Keeps(y)' <=> Keeps(y)
           /\ \A y \in Explosions : y # slotOf => affected'[y] = affected[y]
           /\ \A y \in Explosions : y # x => message'[y] = message[y]
           /\ affected'[slotOf] = message[x] /\ message'[x] = affected[slotOf]
           /\ \E n \in Nat : /\ Len(stack) = n + 1 /\ Depth = 1..(n + 1) /\ Depth' = Depth
                             /\ stack[n + 1] = x
                             /\ \A i \in 1..n : stack[i] # x /\ stack[i] \in Explosions
  <1>1. /\ stack # <<>> /\ Len(stack) \in Nat \ {0} /\ Len(stack) \in Depth
        /\ x = stack[Len(stack)] /\ progress[x] \in {"exploding", "publishing"}
    BY RunningOnTop DEF IInv
  <1>2. slotOf \in Explosions /\ progress[slotOf] \notin {"unlit", "over"}
    BY SlotPlaced DEF UseSlot
  <1>3. PICK i \in Depth : stack[i] = slotOf
    BY <1>2 DEF IInv, Stacked
  <1>4. x \notin mixed
    BY <1>1, <1>3 DEF Lent, Inside, Depth
  <1>5. progress \in [Explosions -> Progress] /\ mixed' = mixed
    BY DEF IInv, Types, UseSlot
  <1>6. Lending' = (IF stage = "publishing" THEN Lending \union {x} ELSE Lending \ {x})
    BY <1>4, <1>5 DEF Lending
  <1>7. \A y \in Explosions : Keeps(y)' <=> Keeps(y)
    BY <1>1, <1>5 DEF Keeps
  <1>8. /\ \A y \in Explosions : y # slotOf => affected'[y] = affected[y]
        /\ \A y \in Explosions : y # x => message'[y] = message[y]
        /\ affected'[slotOf] = message[x] /\ message'[x] = affected[slotOf]
    BY <1>2 DEF UseSlot, Swap, IInv, Types
  <1>9. PICK n \in Nat : Len(stack) = n + 1
    BY <1>1
  <1>10. Depth = 1..(n + 1) /\ Depth' = Depth /\ stack[n + 1] = x
    BY <1>1, <1>9 DEF Depth
  <1>11. \A j \in 1..n : stack[j] # x /\ stack[j] \in Explosions
    BY <1>9, <1>10, ElementOfSeq DEF IInv, Stacked, Types
  <1> QED  BY <1>2, <1>4, <1>5, <1>6, <1>7, <1>8, <1>9, <1>10, <1>11

\* The list of the explosion that sends becomes the last link of the chain.
LEMMA SendLends ==
    ASSUME IInv, Lent, NEW x \in Explosions, Send(x)
    PROVE  Lent'
  <1>1. Running(x, {"exploding", "publishing"}) /\ progress[x] = "exploding"
    BY DEF Send, Running
  <1>2. CASE UseStaleSlot(x)
    BY <1>1, <1>2, StaleLends DEF Send
  <1>3. CASE UseSlot(x)
    <2>1. /\ slotOf \in Explosions /\ x \notin mixed /\ mixed' = mixed /\ slotOf' = slotOf
          /\ stack' = stack /\ progress' = [progress EXCEPT ![x] = "publishing"]
          /\ Lending' = Lending \union {x}
          /\ \A y \in Explosions : Keeps(y)' <=> Keeps(y)
          /\ \A y \in Explosions : y # slotOf => affected'[y] = affected[y]
          /\ \A y \in Explosions : y # x => message'[y] = message[y]
          /\ affected'[slotOf] = message[x] /\ message'[x] = affected[slotOf]
      BY <1>1, <1>3, SlotHere DEF Send
    <2>2. PICK n \in Nat : /\ Len(stack) = n + 1 /\ Depth = 1..(n + 1) /\ Depth' = Depth
                           /\ stack[n + 1] = x
                           /\ \A i \in 1..n : stack[i] # x /\ stack[i] \in Explosions
      BY <1>1, <1>3, SlotHere DEF Send
    <2>3. message[x] = Sent(x)
      BY <1>1, <2>1 DEF Lent, AtHome
    <2>4. /\ \A i \in 1..n : Lends(i)' <=> Lends(i)
          /\ Lends(n + 1)' /\ ~ Lends(n + 1)
      BY <1>1, <2>1, <2>2 DEF Lends, Lending
    <2>5. /\ \A i \in 0..n, j \in 1..(n + 1) : NobodyBetween(i, j)' <=> NobodyBetween(i, j)
          /\ \A i \in 0..n : NobodyBetween(i, n + 1) <=> NobodyBetween(i, n + 2)
          /\ \A i \in 0..n : ~ NobodyBetween(i, n + 2)'
      BY <2>2, <2>4 DEF NobodyBetween
    <2>6. Links'
      <3> SUFFICES ASSUME NEW i \in 1..(n + 1), NEW j \in 1..(n + 1), i < j, Lends(i)', Lends(j)',
                          NobodyBetween(i, j)'
                   PROVE  message'[stack[j]] = Sent(stack[i])
        BY <2>1, <2>2 DEF Links
      <3>1. i \in 1..n /\ Lends(i) /\ NobodyBetween(i, j)
        BY <2>4, <2>5
      <3>2. CASE j = n + 1
        BY <2>1, <2>2, <2>5, <3>1, <3>2 DEF Lent, LastLink
      <3>3. CASE j # n + 1
        BY <2>1, <2>2, <2>4, <3>1, <3>3 DEF Lent, Links
      <3> QED  BY <3>2, <3>3
    <2>7. FirstLink'
      <3> SUFFICES ASSUME NEW j \in 1..(n + 1), Lends(j)', NobodyBetween(0, j)', Keeps(slotOf)
                   PROVE  message'[stack[j]] = Own(slotOf)
        BY <2>1, <2>2 DEF FirstLink
      <3>1. NobodyBetween(0, j)
        BY <2>5
      <3>2. CASE j = n + 1
        BY <2>1, <2>2, <2>5, <3>1, <3>2, ExplosionAssumption DEF Lent, NoLink
      <3>3. CASE j # n + 1
        BY <2>1, <2>2, <2>4, <3>1, <3>3 DEF Lent, FirstLink
      <3> QED  BY <3>2, <3>3
    <2>8. LastLink'
      <3> SUFFICES ASSUME NEW i \in 1..(n + 1), NobodyBetween(i, n + 2)'
                   PROVE  affected'[slotOf] = Sent(stack[i])
        BY <2>1, <2>2 DEF LastLink
      <3>1. i = n + 1
        BY <2>5
      <3> QED  BY <2>1, <2>2, <2>3, <3>1
    <2>9. NoLink'
      BY <2>1, <2>2, <2>5 DEF NoLink
    <2>10. AtHome'
      BY <2>1, <1>1 DEF Lent, AtHome, IInv, Types
    <2>11. Inside'
      <3>1. PICK i \in 1..(n + 1) : stack[i] = slotOf
        BY <1>3, <2>1, <2>2 DEF UseSlot, IInv, Stacked, Untouched
      <3> QED  BY <2>1, <2>2, <2>4, <3>1 DEF Lent, Inside
    <2> QED  BY <2>6, <2>7, <2>8, <2>9, <2>10, <2>11 DEF Lent
  <1> QED  BY <1>2, <1>3 DEF Send

\* The last link is taken out of the chain.
LEMMA AnswerLends ==
    ASSUME IInv, Lent, NEW x \in Explosions, Answer(x)
    PROVE  Lent'
  <1>1. /\ Running(x, {"exploding", "publishing"}) /\ progress[x] = "publishing"
        /\ slotOf # None
    BY DEF Answer, Running, IInv, SlotFilled
  <1>2. PICK stage \in {"started", "refused"} : progress' = [progress EXCEPT ![x] = stage]
    BY DEF Answer
  <1>3. CASE UseStaleSlot(x)
    BY <1>1, <1>2, <1>3, StaleLends DEF Answer
  <1>4. CASE UseSlot(x)
    <2>1. /\ slotOf \in Explosions /\ x \notin mixed /\ mixed' = mixed /\ slotOf' = slotOf
          /\ stack' = stack /\ Lending' = Lending \ {x}
          /\ \A y \in Explosions : Keeps(y)' <=> Keeps(y)
          /\ \A y \in Explosions : y # slotOf => affected'[y] = affected[y]
          /\ \A y \in Explosions : y # x => message'[y] = message[y]
          /\ affected'[slotOf] = message[x] /\ message'[x] = affected[slotOf]
      BY <1>1, <1>2, <1>4, SlotHere DEF Answer
    <2>2. PICK n \in Nat : /\ Len(stack) = n + 1 /\ Depth = 1..(n + 1) /\ Depth' = Depth
                           /\ stack[n + 1] = x
                           /\ \A i \in 1..n : stack[i] # x /\ stack[i] \in Explosions
      BY <1>1, <1>2, <1>4, SlotHere DEF Answer
    <2>3. /\ \A i \in 1..n : Lends(i)' <=> Lends(i)
          /\ Lends(n + 1) /\ ~ Lends(n + 1)'
      BY <1>1, <2>1, <2>2 DEF Lends, Lending
    <2>4. /\ \A i \in 0..n, j \in 1..(n + 1) : NobodyBetween(i, j)' <=> NobodyBetween(i, j)
          /\ \A i \in 0..n : NobodyBetween(i, n + 2)' <=> NobodyBetween(i, n + 1)
      BY <2>2, <2>3 DEF NobodyBetween
    <2>5. affected[slotOf] = Sent(x)
      <3>1. NobodyBetween(n + 1, n + 2)
        BY <2>2 DEF NobodyBetween
      <3> QED  BY <2>2, <2>3, <3>1 DEF Lent, LastLink
    <2>6. Links'
      <3> SUFFICES ASSUME NEW i \in 1..(n + 1), NEW j \in 1..(n + 1), i < j, Lends(i)', Lends(j)',
                          NobodyBetween(i, j)'
                   PROVE  message'[stack[j]] = Sent(stack[i])
        BY <2>1, <2>2 DEF Links
      <3>1. i \in 1..n /\ j \in 1..n /\ Lends(i) /\ Lends(j) /\ NobodyBetween(i, j)
        BY <2>3, <2>4
      <3> QED  BY <2>1, <2>2, <3>1 DEF Lent, Links
    <2>7. FirstLink'
      <3> SUFFICES ASSUME NEW j \in 1..(n + 1), Lends(j)', NobodyBetween(0, j)', Keeps(slotOf)
                   PROVE  message'[stack[j]] = Own(slotOf)
        BY <2>1, <2>2 DEF FirstLink
      <3>1. j \in 1..n /\ Lends(j) /\ NobodyBetween(0, j)
        BY <2>3, <2>4
      <3> QED  BY <2>1, <2>2, <3>1 DEF Lent, FirstLink
    <2>8. LastLink'
      <3> SUFFICES ASSUME NEW i \in 1..(n + 1), Lends(i)', NobodyBetween(i, n + 2)'
                   PROVE  affected'[slotOf] = Sent(stack[i])
        BY <2>1, <2>2 DEF LastLink
      <3>1. i \in 1..n /\ Lends(i) /\ NobodyBetween(i, n + 1)
        BY <2>3, <2>4
      <3> QED  BY <2>1, <2>2, <2>3, <3>1 DEF Lent, Links
    <2>9. NoLink'
      <3> SUFFICES ASSUME NobodyBetween(0, n + 2)', Keeps(slotOf)
                   PROVE  affected'[slotOf] = Own(slotOf)
        BY <2>1, <2>2 DEF NoLink
      <3>1. NobodyBetween(0, n + 1)
        BY <2>4
      <3> QED  BY <2>1, <2>2, <2>3, <3>1 DEF Lent, FirstLink
    <2>10. AtHome'
      BY <1>2, <2>1, <2>5 DEF Lent, AtHome, IInv, Types
    <2>11. Inside'
      BY <2>1, <2>2, <2>3 DEF Lent, Inside
    <2> QED  BY <2>6, <2>7, <2>8, <2>9, <2>10, <2>11 DEF Lent
  <1> QED  BY <1>3, <1>4 DEF Answer

-----------------------------------------------------------------------------
(* The theorems.                                                           *)

LEMMA NextKeeps == IInv /\ [Next]_vars => IInv'
  <1> SUFFICES ASSUME IInv, [Next]_vars  PROVE IInv'
    OBVIOUS
  <1>1. CASE Next
    BY <1>1, EmitterKeeps, ExplodeKeeps, FinishKeeps, SendUnhookedKeeps, SendNoEventKeeps,
       SendKeeps, CancelKeeps, AnswerKeeps
       DEF Next
  <1>2. CASE UNCHANGED vars
    <2>1. UNCHANGED others /\ hooked' \in BOOLEAN
      BY <1>2 DEF vars, others, IInv, Types
    <2> QED  BY <2>1, OthersKeep
  <1> QED  BY <1>1, <1>2

LEMMA Inductive == Spec => []IInv
  BY InitIInv, NextKeeps, PTL DEF Spec

LEMMA NextLends == IInv /\ Lent /\ [Next]_vars => Lent'
  <1> SUFFICES ASSUME IInv, Lent, [Next]_vars  PROVE Lent'
    OBVIOUS
  <1>1. CASE Next
    <2>1. CASE Install \/ Remove
      <3>1. CASE Explosions = {}
        BY <2>1, <3>1, StillLent DEF Install, Remove
      <3>2. CASE Explosions # {}
        BY <2>1, <3>2, AsideLends
      <3> QED  BY <3>1, <3>2
    <2> QED  BY <1>1, <2>1, AsideLends, ExplodeLends, FinishLends, SendLends, AnswerLends DEF Next
  <1>2. CASE UNCHANGED vars
    BY <1>2, StillLent DEF vars
  <1> QED  BY <1>1, <1>2

LEMMA LentInductive == Spec => []Lent
  BY InitIInv, NextKeeps, InitLent, NextLends, PTL DEF Spec

\* The variables keep their types, and no list of blocks is lost or in two
\* places, whatever overtakes what.
THEOREM TypeCorrect == Spec => []TypeOK
  <1>1. ASSUME IInv  PROVE TypeOK
    <2>1. Lists = {affected[x] : x \in Explosions} \union {message[x] : x \in Explosions}
      BY <1>1 DEF IInv, Types, NoneLost
    <2> QED  BY <1>1, <2>1 DEF IInv, Types, TypeOK
  <1> QED  BY <1>1, Inductive, PTL

\* Listeners are asked about the explosion that is starting, with its blocks
\* (ExplosionEvent.cpp: Hook2), among any number of nested explosions.
THEOREM AsksAboutItself == Spec => []AskedAboutItself
  <1>1. IInv => AskedAboutItself
    BY DEF IInv, SoundStage, Stage, AskedAboutItself
  <1> QED  BY <1>1, Inductive, PTL

\* The message goes on with its own list, and so does the explosion; also one
\* that was overtaken, or asked about out of turn, unless the event in the slot
\* was replaced while its list was lent, or was about an explosion that is gone.
THEOREM GivesBack == Spec => []ListsReturned
  <1>1. ASSUME IInv, Lent, NEW x \in Explosions, progress[x] \in {"started", "refused"},
               x \notin mixed, slotOf = x => Lending = {}
        PROVE  affected[x] = Own(x) /\ message[x] = Sent(x)
    <2>1. Keeps(x) /\ message[x] = Sent(x)
      BY <1>1 DEF Keeps, Lent, AtHome
    <2>2. CASE slotOf = x
      <3>1. NobodyBetween(0, Len(stack) + 1)
        BY <1>1, <2>2 DEF NobodyBetween, Lends
      <3> QED  BY <1>1, <2>1, <2>2, <3>1, ExplosionAssumption DEF Lent, NoLink
    <2>3. CASE slotOf # x
      BY <1>1, <2>1, <2>3 DEF Lent, AtHome
    <2> QED  BY <2>2, <2>3
  <1>2. IInv => \A x \in Sound : progress[x] \in {"started", "refused"} =>
                    affected[x] = Own(x) /\ message[x] = Sent(x)
    BY DEF IInv, SoundStage, Stage
  <1>3. IInv /\ Lent => ListsReturned
    BY <1>1, <1>2 DEF ListsReturned
  <1> QED  BY <1>3, Inductive, LentInductive, PTL

\* No answer is lost, and none serves for another explosion.
THEOREM OwnVeto == Spec => []VetoIsItsOwn
  <1>1. IInv => VetoIsItsOwn
    BY DEF IInv, SoundStage, Stage, VetoIsItsOwn
  <1> QED  BY <1>1, Inductive, PTL

\* An explosion nobody has disturbed finds its own event in the slot, alive.
THEOREM CrashesDisturbed == Spec => []CrashNeedsDisturbance
  <1>1. IInv => CrashNeedsDisturbance
    BY DEF IInv, CrashedUnsound, CrashNeedsDisturbance, Top
  <1> QED  BY <1>1, Inductive, PTL

=============================================================================
