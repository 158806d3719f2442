----------------------------- MODULE Explosion -----------------------------
(***************************************************************************)
(* The explosion event is made by two hooks and one global slot.  explode  *)
(* (Hook1) puts a new ExplosionBeforeEvent in the slot and calls origin;   *)
(* inside it the engine sends ExplosionStartedEvent, and Hook2 lends the   *)
(* block list of that message to the explosion in the slot, publishes what *)
(* the slot holds, takes the list back and reads the answer from the slot. *)
(* The slot is never emptied.                                              *)
(*                                                                         *)
(* Explosions nest: one sets off another from inside origin, or a listener *)
(* does from inside publish; and the hooks come and go with the listeners  *)
(* of the event, also while an explosion is under way.                     *)
(***************************************************************************)
EXTENDS Integers, Sequences

CONSTANTS
    Explosions,     (* Explosion objects, each exploding once              *)
    None            (* the empty slot                                      *)

ASSUME ExplosionAssumption == None \notin Explosions

VARIABLES
    stack,          (* explosions inside explode, the innermost last       *)
    progress,       (* explosion -> how far it is                          *)
    slotOf,         (* the explosion that mBeforeEvent is about, or None   *)
    slotCancelled,  (* and its flag                                        *)
    affected,       (* explosion -> whose block list its mAffectedBlocks is*)
    message,        (* explosion -> whose block list its start message has *)
    seen,           (* explosions whose explode was hooked                 *)
    disturbed,      (* explosions overtaken, or asked about, out of turn   *)
    mixed,          (* explosions whose lists may be mixed up              *)
    vetoed,         (* explosions a listener has cancelled, finally        *)
    hooked,         (* the emitter's two hooks are installed               *)
    crashed         (* Hook2 has dereferenced an empty or a stale slot     *)

vars == <<stack, progress, slotOf, slotCancelled, affected, message, seen,
          disturbed, mixed, vetoed, hooked, crashed>>

Progress == {"unlit", "exploding", "publishing", "started", "refused", "over"}
Pending == {"exploding", "publishing"}

\* The two lists of an explosion: what it has computed, what it will destroy.
Own(x) == <<"affected", x>>
Sent(x) == <<"message", x>>
Lists == {"affected", "message"} \X Explosions

Init ==
    /\ stack = <<>>
    /\ progress = [x \in Explosions |-> "unlit"]
    /\ slotOf = None
    /\ slotCancelled = FALSE
    /\ affected = [x \in Explosions |-> Own(x)]
    /\ message = [x \in Explosions |-> Sent(x)]
    /\ seen = {}
    /\ disturbed = {}
    /\ mixed = {}
    /\ vetoed = {}
    /\ hooked = FALSE
    /\ crashed = FALSE

Running(x, steps) ==
    /\ ~crashed
    /\ stack # <<>>
    /\ x = stack[Len(stack)]
    /\ progress[x] \in steps

\* Mutant: the list is copied to the explosion.
Copy(x, owner) ==
    /\ affected' = [affected EXCEPT ![owner] = message[x]]
    /\ UNCHANGED message

\* swap(mBeforeEvent->explosion().mAffectedBlocks, ev.value().mBlocks)
Swap(x, owner) ==
    /\ affected' = [affected EXCEPT ![owner] = message[x]]
    /\ message' = [message EXCEPT ![x] = affected[owner]]

\* The explosion in the slot is there: it lends its list or takes it back.
UseSlot(x) ==
    /\ progress[slotOf] # "over"
    /\ Swap(x, slotOf)
    /\ UNCHANGED <<mixed, crashed>>

\* It is gone.  The swap is with what gone explosions have left in its memory,
\* or with one that lies there now, which the hooks have not seen (the slot
\* would be about it).  Or the server ends.
UseStaleSlot(x) ==
    /\ progress[slotOf] = "over"
    /\ \E owner \in Explosions :
           /\ progress[owner] = "over" \/ (progress[owner] # "unlit" /\ owner \notin seen)
           /\ Swap(x, owner)
           /\ mixed' = mixed \union {x, owner}
    /\ crashed' \in BOOLEAN

\* Explosions that publish: what their message has is not its own, and they
\* will give it back.
Lending == {y \in Explosions \ mixed : progress[y] = "publishing"}

-----------------------------------------------------------------------------
(* The emitter: its listeners come and go from any callback.               *)

Install ==
    /\ ~crashed /\ ~hooked
    /\ hooked' = TRUE
    /\ UNCHANGED <<stack, progress, slotOf, slotCancelled, affected, message,
                   seen, disturbed, mixed, vetoed, crashed>>

Remove ==
    /\ ~crashed /\ hooked
    /\ hooked' = FALSE
    /\ UNCHANGED <<stack, progress, slotOf, slotCancelled, affected, message,
                   seen, disturbed, mixed, vetoed, crashed>>

-----------------------------------------------------------------------------
(* Hook1: Explosion::explode.                                              *)

\* Mutant: an event that is in the slot is used again.
ExplodeReuse(x) ==
    /\ ~crashed
    /\ progress[x] = "unlit"
    /\ disturbed' = disturbed \union {y \in Explosions : progress[y] \in Pending}
    /\ stack' = Append(stack, x)
    /\ progress' = [progress EXCEPT ![x] = "exploding"]
    /\ slotOf' = IF hooked /\ slotOf = None THEN x ELSE slotOf
    /\ seen' = IF hooked THEN seen \union {x} ELSE seen
    /\ UNCHANGED <<slotCancelled, affected, message, mixed, vetoed, hooked, crashed>>

Explode(x) ==
    /\ ~crashed
    /\ progress[x] = "unlit"
    /\ disturbed' = disturbed \union {y \in Explosions : progress[y] \in Pending}
    /\ stack' = Append(stack, x)
    /\ progress' = [progress EXCEPT ![x] = "exploding"]
    /\ IF hooked
         THEN /\ slotOf' = x /\ slotCancelled' = FALSE /\ seen' = seen \union {x}
              /\ mixed' = IF Lending = {} THEN mixed ELSE mixed \union Lending \union {slotOf}
         ELSE UNCHANGED <<slotOf, slotCancelled, seen, mixed>>
    /\ UNCHANGED <<affected, message, vetoed, hooked, crashed>>

\* origin returns; After is published if it says so, about this explosion.
Finish(x) ==
    /\ Running(x, {"exploding", "started", "refused"})
    /\ stack' = SubSeq(stack, 1, Len(stack) - 1)
    /\ progress' = [progress EXCEPT ![x] = "over"]
    /\ UNCHANGED <<slotOf, slotCancelled, affected, message, seen, disturbed,
                   mixed, vetoed, hooked, crashed>>

-----------------------------------------------------------------------------
(* Hook2: BlockEventCoordinator::sendEvent of ExplosionStartedEvent.       *)

\* Nobody hooks the message, and the engine goes on.
SendUnhooked(x) ==
    /\ Running(x, {"exploding"})
    /\ ~hooked
    /\ progress' = [progress EXCEPT ![x] = "started"]
    /\ UNCHANGED <<stack, slotOf, slotCancelled, affected, message, seen,
                   disturbed, mixed, vetoed, hooked, crashed>>

\* The hooks were installed after explode was entered, for the first time.
SendNoEvent(x) ==
    /\ Running(x, {"exploding"})
    /\ hooked /\ slotOf = None
    /\ crashed' = TRUE
    /\ UNCHANGED <<stack, progress, slotOf, slotCancelled, affected, message,
                   seen, disturbed, mixed, vetoed, hooked>>

\* An explosion explode was not hooked for finds the event of another one.
Send(x) ==
    /\ Running(x, {"exploding"})
    /\ hooked /\ slotOf # None
    /\ UseSlot(x) \/ UseStaleSlot(x)
    /\ progress' = [progress EXCEPT ![x] = "publishing"]
    /\ disturbed' = IF x \in seen THEN disturbed ELSE disturbed \union {x, slotOf}
    /\ UNCHANGED <<stack, slotOf, slotCancelled, seen, vetoed, hooked>>

\* A listener puts the flag of the event it was given up or down: the one in
\* the slot, unless that has been replaced and destroyed since.
Cancel(x, flag) ==
    /\ Running(x, {"publishing"})
    /\ vetoed' = IF flag THEN vetoed \union {x} ELSE vetoed \ {x}
    /\ slotCancelled' \in IF x \in disturbed THEN {slotCancelled, flag} ELSE {flag}
    /\ UNCHANGED <<stack, progress, slotOf, affected, message, seen, disturbed,
                   mixed, hooked, crashed>>

\* Mutant: the list is not taken back.
AnswerKeepsList(x) ==
    /\ Running(x, {"publishing"})
    /\ progress' = [progress EXCEPT ![x] = IF slotCancelled THEN "refused" ELSE "started"]
    /\ UNCHANGED <<stack, slotOf, slotCancelled, affected, message, seen,
                   disturbed, mixed, vetoed, hooked, crashed>>

\* Mutant: the answer of the listeners is not asked for.
AnswerUnread(x) ==
    /\ Running(x, {"publishing"})
    /\ UseSlot(x) \/ UseStaleSlot(x)
    /\ progress' = [progress EXCEPT ![x] = "started"]
    /\ UNCHANGED <<stack, slotOf, slotCancelled, seen, disturbed, vetoed, hooked>>

\* publish returns: the list goes back, and Cancel is answered or origin is.
Answer(x) ==
    /\ Running(x, {"publishing"})
    /\ UseSlot(x) \/ UseStaleSlot(x)
    /\ progress' = [progress EXCEPT ![x] = IF slotCancelled THEN "refused" ELSE "started"]
    /\ UNCHANGED <<stack, slotOf, slotCancelled, seen, disturbed, vetoed, hooked>>

-----------------------------------------------------------------------------

Next ==
    \/ Install \/ Remove
    \/ \E x \in Explosions :
           \/ Explode(x) \/ Finish(x)
           \/ SendUnhooked(x) \/ SendNoEvent(x) \/ Send(x)
           \/ \E flag \in BOOLEAN : Cancel(x, flag)
           \/ Answer(x)

Spec == Init /\ [][Next]_vars

-----------------------------------------------------------------------------

\* Also: the hooks exchange lists and never drop or copy one, whatever overtakes
\* what.
TypeOK ==
    /\ stack \in Seq(Explosions)
    /\ progress \in [Explosions -> Progress]
    /\ slotOf \in Explosions \union {None}
    /\ slotCancelled \in BOOLEAN
    /\ affected \in [Explosions -> Lists]
    /\ message \in [Explosions -> Lists]
    /\ Lists = {affected[x] : x \in Explosions} \union {message[x] : x \in Explosions}
    /\ seen \subseteq Explosions
    /\ disturbed \subseteq Explosions
    /\ mixed \subseteq Explosions
    /\ vetoed \subseteq Explosions
    /\ hooked \in BOOLEAN
    /\ crashed \in BOOLEAN

\* The explosions the two hooks have seen from the start, and that no other
\* explosion overtook before the listeners' answer was read, or was taken for.
Sound == seen \ disturbed

\* The one slot serves explosions one after the other and inside each other:
\* listeners are asked about the explosion that is starting, and find in it
\* the list of blocks of its message.
AskedAboutItself ==
    \A x \in Sound :
        progress[x] = "publishing" => slotOf = x /\ affected[x] = Sent(x)

\* The message goes on with the list it came with, and no explosion is left
\* holding the list of another one; also of explosions that were overtaken, or
\* asked about out of turn, unless the event was replaced in between, or the
\* list is still lent.
ListsReturned ==
    \A x \in Explosions :
        /\ progress[x] \in {"started", "refused"}
        /\ x \in Sound \/ (x \notin mixed /\ (slotOf = x => Lending = {}))
        => affected[x] = Own(x) /\ message[x] = Sent(x)

\* An explosion is refused exactly if a listener has cancelled it: no answer
\* is lost, and none is left in the slot for a later explosion.
VetoIsItsOwn ==
    \A x \in Sound :
        /\ progress[x] = "refused" => x \in vetoed
        /\ progress[x] = "started" => x \notin vetoed

\* Only an explosion that was overtaken, or that the hooks met half way, finds
\* the slot empty or about an explosion that is gone.
CrashNeedsDisturbance == crashed => stack[Len(stack)] \notin Sound

=============================================================================
