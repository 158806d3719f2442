---------------------------- MODULE MoneyChange ----------------------------
(***************************************************************************)
(* The four hooks on LegacyMoney and the flag they share.  LLMoney_Add,    *)
(* _Reduce and _Set move money by a call of LLMoney_Trans, which is hooked *)
(* too; isRealTrans is FALSE around their origin so that this inner call   *)
(* is not published as a change of its own.  The flag is one static for    *)
(* all calls, and calls nest: a listener of the event may move money, and  *)
(* so may a callback that LegacyMoney runs inside origin.                  *)
(*                                                                         *)
(* LegacyMoney is external: what its functions do is taken from what the   *)
(* hooks expect of them.                                                   *)
(***************************************************************************)
EXTENDS Integers, Sequences

CONSTANTS
    Changes,    (* Add, Reduce, Set: the hooks that hide their inner Trans *)
    MaxDepth    (* bound: calls on the stack at once                       *)

Trans == "Trans"

ASSUME MoneyAssumption == MaxDepth \in Nat /\ Trans \notin Changes

VARIABLES
    stack,          (* the calls under way, the running one last           *)
    isRealTrans,    (* the static flag                                     *)
    threw           (* an exception has left the flag FALSE                *)

vars == <<stack, isRealTrans, threw>>

\* A call is listening (in publish of Before), in origin, reporting (in publish
\* of After), or a Trans that went through unpublished.
Steps == {"listening", "origin", "reporting", "through"}

Frame == [ op: Changes \union {Trans},
           inner: BOOLEAN,      \* made by LegacyMoney to carry out a change
           step: Steps,
           moved: BOOLEAN,      \* it has made its inner Trans
           result: BOOLEAN,     \* what origin will return
           told: Nat,           \* Before events about this movement of money
           reentered: BOOLEAN ] \* money was moved from inside its origin

Init == stack = <<>> /\ isRealTrans = TRUE /\ threw = FALSE

Top == stack[Len(stack)]
Running(steps) == stack # <<>> /\ Top.step \in steps
SetTop(frame) == stack' = [stack EXCEPT ![Len(stack)] = frame]
Pop == SubSeq(stack, 1, Len(stack) - 1)
Push(frames, frame) == stack' = Append(frames, frame)

InOrigin(frame) == frame.op \in Changes /\ frame.step = "origin"

\* The hook of Trans tests the flag; the others publish.
Entered(op, inner) ==
    [ op |-> op, inner |-> inner,
      step |-> IF op = Trans /\ ~isRealTrans THEN "through" ELSE "listening",
      moved |-> FALSE, result |-> FALSE, told |-> 0, reentered |-> FALSE ]

-----------------------------------------------------------------------------
(* Who calls.                                                              *)

\* A mod calls: from nowhere, from a listener, or from inside an origin.
Call(op) ==
    /\ Len(stack) < MaxDepth
    /\ Push([i \in DOMAIN stack |->
               [stack[i] EXCEPT !.reentered = @ \/ InOrigin(stack[i])]],
            Entered(op, FALSE))
    /\ UNCHANGED <<isRealTrans, threw>>

\* LegacyMoney carries out a change by its one call of Trans.
InnerTrans ==
    /\ Running({"origin"})
    /\ Top.op \in Changes
    /\ ~Top.moved
    /\ Len(stack) < MaxDepth
    /\ Push([stack EXCEPT ![Len(stack)].moved = TRUE], Entered(Trans, TRUE))
    /\ UNCHANGED <<isRealTrans, threw>>

-----------------------------------------------------------------------------
(* The hooks.                                                              *)

\* A published inner Trans is news about the change it belongs to.
Told(frames) ==
    [i \in DOMAIN frames |->
        IF i = Len(frames) \/ (i = Len(frames) - 1 /\ frames[Len(frames)].inner)
          THEN [frames[i] EXCEPT !.told = @ + 1]
          ELSE frames[i]]

\* publish(beforeEvent) returns: cancelled, the call answers FALSE.
Veto ==
    /\ Running({"listening"})
    /\ stack' = Pop
    /\ UNCHANGED <<isRealTrans, threw>>

\* Mutant: the flag is not cleared.
ProceedFlagKept ==
    /\ Running({"listening"})
    /\ stack' = [Told(stack) EXCEPT ![Len(stack)].step = "origin"]
    /\ UNCHANGED <<isRealTrans, threw>>

\* Not cancelled: origin is called, with the flag cleared by all but Trans.
Proceed ==
    /\ Running({"listening"})
    /\ stack' = [Told(stack) EXCEPT ![Len(stack)].step = "origin"]
    /\ isRealTrans' = (isRealTrans /\ Top.op = Trans)
    /\ UNCHANGED threw

\* Trans moves the money, or refuses (LegacyMoney, external); a change that
\* called it answers what it answered.
Move ==
    /\ Running({"origin", "through"})
    /\ Top.op = Trans
    /\ SetTop([Top EXCEPT !.result = TRUE])
    /\ ~Top.result
    /\ UNCHANGED <<isRealTrans, threw>>

Answer(frames, inner, result) ==
    IF inner THEN [frames EXCEPT ![Len(frames)].result = result] ELSE frames

\* Mutant: the flag is set again only if the change was made.
ReturnChangeIfDone ==
    /\ Running({"origin"})
    /\ Top.op \in Changes
    /\ IF Top.result
         THEN SetTop([Top EXCEPT !.step = "reporting"]) /\ isRealTrans' = TRUE /\ threw' = FALSE
         ELSE stack' = Pop /\ UNCHANGED <<isRealTrans, threw>>

\* Mutant: After is published whatever origin has answered.
ReturnChangeUntested ==
    /\ Running({"origin"})
    /\ Top.op \in Changes
    /\ isRealTrans' = TRUE
    /\ threw' = FALSE
    /\ SetTop([Top EXCEPT !.step = "reporting"])

\* origin of Add, Reduce or Set returns, before or after its inner Trans.
ReturnChange ==
    /\ Running({"origin"})
    /\ Top.op \in Changes
    /\ isRealTrans' = TRUE
    /\ threw' = FALSE
    /\ IF Top.result THEN SetTop([Top EXCEPT !.step = "reporting"]) ELSE stack' = Pop

\* origin of Trans returns.
ReturnTrans ==
    /\ Running({"origin", "through"})
    /\ Top.op = Trans
    /\ IF Top.result /\ Top.step = "origin"
         THEN SetTop([Top EXCEPT !.step = "reporting"])
         ELSE stack' = Answer(Pop, Top.inner, Top.result)
    /\ UNCHANGED <<isRealTrans, threw>>

\* publish of After returns, and the hook with it.
Reported ==
    /\ Running({"reporting"})
    /\ stack' = Answer(Pop, Top.inner, TRUE)
    /\ UNCHANGED <<isRealTrans, threw>>

\* origin throws: the calls are unwound up to a publish, which swallows it,
\* or all of them.  No hook sets the flag on the way.
Listening(i) == stack[i].step \in {"listening", "reporting"}

Throw ==
    /\ Running({"origin", "through"})
    /\ \E i \in 0..Len(stack) - 1 :
           /\ i > 0 => Listening(i)
           /\ \A j \in i + 1..Len(stack) : ~Listening(j)
           /\ stack' = SubSeq(stack, 1, i)
    /\ threw' = (threw \/ ~isRealTrans)
    /\ UNCHANGED isRealTrans

Next ==
    \/ \E op \in Changes \union {Trans} : Call(op)
    \/ InnerTrans \/ Veto \/ Proceed \/ Move
    \/ ReturnChange \/ ReturnTrans \/ Reported
    \/ Throw

Spec == Init /\ [][Next]_vars

-----------------------------------------------------------------------------

\* Also: an inner Trans sits on the change that made it, and a call reports
\* only what it did.
TypeOK ==
    /\ stack \in Seq(Frame)
    /\ isRealTrans \in BOOLEAN
    /\ threw \in BOOLEAN
    /\ \A i \in DOMAIN stack :
           /\ stack[i].inner => i > 1 /\ InOrigin(stack[i - 1]) /\ stack[i - 1].moved
           /\ stack[i].step = "reporting" => stack[i].result

\* The one flag says of the whole stack of calls whether a change is being
\* carried out, so that a Trans a mod makes from nowhere or from a listener is
\* published, and an inner one is not, however calls nest.  What breaks it is
\* money moved from inside an origin, and an exception out of one.
FlagMirrorsCalls ==
    LET changing == {i \in DOMAIN stack : InOrigin(stack[i])} IN
    /\ changing # {} /\ (\A i \in changing : ~stack[i].reentered) => ~isRealTrans
    /\ changing = {} /\ ~threw => isRealTrans

\* A movement of money that is reported was announced by one Before event, not
\* by one for the change and one for its inner Trans.
AnnouncedOnce ==
    \A i \in DOMAIN stack :
        stack[i].step = "reporting" /\ ~stack[i].reentered => stack[i].told = 1

=============================================================================
