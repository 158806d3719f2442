------------------------------ MODULE Emitters ------------------------------
(***************************************************************************)
(* How the listeners of the event bus keep engine functions hooked.        *)
(*                                                                         *)
(* Every event id has an emitter, built by the bus when the id gets its    *)
(* first listener and destroyed when the last one leaves.  An emitter owns *)
(* a HookRegistrar over the hooks the event is made from; the Before and   *)
(* the After event of a file, and all packet events of a file, share their *)
(* hooks, so a hook is counted and really installed or removed only on the *)
(* 0 <-> 1 edge of that count.                                             *)
(*                                                                         *)
(* Two styles of emitter exist.  Event_Hook_Factory (Gloabl.h) keeps the   *)
(* registrar as a member, one count per hook.  The packet and structure    *)
(* emitters construct a temporary registrar, call hook() or unhook() on it *)
(* and let it die at the end of the statement: three walks over the hooks. *)
(* The bus runs one factory or destructor at a time; what the game thread  *)
(* can see is the state between any two counter steps.                     *)
(***************************************************************************)
EXTENDS Integers, FiniteSets

CONSTANTS
    Events,         (* event ids with an emitter factory                   *)
    Hooks,          (* LL_*_HOOK classes                                   *)
    Listeners,      (* listener objects of the mods                        *)
    HooksOf,        (* event id -> hooks named by its HookRegistrar        *)
    MemberEvents    (* ids whose emitter keeps the registrar as a member   *)

ASSUME EmittersAssumption ==
    /\ IsFiniteSet(Events)
    /\ HooksOf \in [Events -> SUBSET Hooks]
    /\ \A e \in Events : HooksOf[e] # {}
    /\ MemberEvents \subseteq Events

VARIABLES
    listeners,      (* event id -> its listeners on the bus                *)
    emitter,        (* event id -> where its emitter's life has got to     *)
    registered,     (* event id -> hooks its emitter itself holds counted  *)
    temporary,      (* event id -> hooks its temporary registrar holds     *)
    hookCount,      (* hook -> the count HookRegistrar keeps for the class *)
    hooked          (* hook -> is the engine function detoured             *)

vars == <<listeners, emitter, registered, temporary, hookCount, hooked>>

CtorStages == {"ctorTemporary", "ctorHook", "ctorEnd", "built"}
DtorStages == {"dtorTemporary", "dtorUnhook", "dtorEnd"}
Stages == {"none", "live"} \union CtorStages \union DtorStages

\* The bus is between two calls: no factory and no destructor is running.
BusFree == \A e \in Events : emitter[e] \in {"none", "live"}

Init ==
    /\ listeners = [e \in Events |-> {}]
    /\ emitter = [e \in Events |-> "none"]
    /\ registered = [e \in Events |-> {}]
    /\ temporary = [e \in Events |-> {}]
    /\ hookCount = [h \in Hooks |-> 0]
    /\ hooked = [h \in Hooks |-> FALSE]

-----------------------------------------------------------------------------
(* HookRegistrar: the count decides when the detour is touched.            *)

\* Mutant: the second registrar of a hook is not counted.
HookOnce(h) ==
    /\ hookCount' = [hookCount EXCEPT ![h] = 1]
    /\ hooked' = [hooked EXCEPT ![h] = TRUE]

Hook(h) ==
    /\ hookCount' = [hookCount EXCEPT ![h] = @ + 1]
    /\ hooked' = [hooked EXCEPT ![h] = @ \/ hookCount[h] = 0]

\* Mutant: every registrar that lets go takes the detour out.
UnhookUncounted(h) ==
    /\ hookCount' = [hookCount EXCEPT ![h] = @ - 1]
    /\ hooked' = [hooked EXCEPT ![h] = FALSE]

Unhook(h) ==
    /\ hookCount' = [hookCount EXCEPT ![h] = @ - 1]
    /\ hooked' = [hooked EXCEPT ![h] = @ /\ hookCount[h] # 1]

-----------------------------------------------------------------------------
(* The bus: a listener comes or goes; the first one builds the emitter and *)
(* the last one destroys it.                                               *)

FirstCtorStage(e) == IF e \in MemberEvents THEN "ctorHook" ELSE "ctorTemporary"
FirstDtorStage(e) == IF e \in MemberEvents THEN "dtorUnhook" ELSE "dtorTemporary"

AddListener(e, l) ==
    /\ BusFree
    /\ l \notin listeners[e]
    /\ listeners' = [listeners EXCEPT ![e] = @ \union {l}]
    /\ emitter' = [emitter EXCEPT ![e] =
                     IF listeners[e] = {} THEN FirstCtorStage(e) ELSE @]
    /\ UNCHANGED <<registered, temporary, hookCount, hooked>>

RemoveListener(e, l) ==
    /\ BusFree
    /\ l \in listeners[e]
    /\ listeners' = [listeners EXCEPT ![e] = @ \ {l}]
    /\ emitter' = [emitter EXCEPT ![e] =
                     IF listeners[e] = {l} THEN FirstDtorStage(e) ELSE @]
    /\ UNCHANGED <<registered, temporary, hookCount, hooked>>

\* The factory returns and the bus keeps the emitter.
KeepEmitter(e) ==
    /\ emitter[e] = "built"
    /\ emitter' = [emitter EXCEPT ![e] = "live"]
    /\ UNCHANGED <<listeners, registered, temporary, hookCount, hooked>>

-----------------------------------------------------------------------------
(* Emitter constructors: (temporary registrar,) hook(), (its destructor).  *)

\* A stage walks over the hooks of the event; it ends with its last hook.
Advance(e, done, from, to) ==
    /\ emitter[e] = from
    /\ emitter' = [emitter EXCEPT ![e] = IF done THEN to ELSE @]

CtorTemporary(e, h) ==
    /\ h \in HooksOf[e] \ temporary[e]
    /\ Hook(h)
    /\ temporary' = [temporary EXCEPT ![e] = @ \union {h}]
    /\ Advance(e, HooksOf[e] \subseteq temporary[e] \union {h}, "ctorTemporary", "ctorHook")
    /\ UNCHANGED <<listeners, registered>>

CtorHook(e, h) ==
    /\ h \in HooksOf[e] \ registered[e]
    /\ Hook(h)
    /\ registered' = [registered EXCEPT ![e] = @ \union {h}]
    /\ Advance(e, HooksOf[e] \subseteq registered[e] \union {h}, "ctorHook",
               IF e \in MemberEvents THEN "built" ELSE "ctorEnd")
    /\ UNCHANGED <<listeners, temporary>>

\* Mutant: the temporary of the constructor gives back one hook and stays.
CtorEndStuck(e, h) ==
    /\ temporary[e] = HooksOf[e]
    /\ emitter[e] = "ctorEnd"
    /\ h \in temporary[e]
    /\ Unhook(h)
    /\ temporary' = [temporary EXCEPT ![e] = @ \ {h}]
    /\ UNCHANGED <<listeners, emitter, registered>>

CtorEnd(e, h) ==
    /\ h \in temporary[e]
    /\ Unhook(h)
    /\ temporary' = [temporary EXCEPT ![e] = @ \ {h}]
    /\ Advance(e, temporary[e] = {h}, "ctorEnd", "built")
    /\ UNCHANGED <<listeners, registered>>

(* Emitter destructors: (temporary registrar,) unhook(), (its destructor). *)

\* Mutant: the emitter's destructor forgets its call of unhook().
DtorUnhookForgotten(e, h) ==
    /\ h \in registered[e]
    /\ registered' = [registered EXCEPT ![e] = @ \ {h}]
    /\ Advance(e, registered[e] = {h}, "dtorUnhook",
               IF e \in MemberEvents THEN "none" ELSE "dtorEnd")
    /\ UNCHANGED <<listeners, temporary, hookCount, hooked>>

\* Mutant: the destructor releases through a temporary that holds nothing.
DtorTemporaryEmpty(e, h) ==
    /\ h \in HooksOf[e] \ temporary[e]
    /\ temporary' = [temporary EXCEPT ![e] = @ \union {h}]
    /\ Advance(e, HooksOf[e] \subseteq temporary[e] \union {h}, "dtorTemporary", "dtorUnhook")
    /\ UNCHANGED <<listeners, registered, hookCount, hooked>>

DtorTemporary(e, h) ==
    /\ h \in HooksOf[e] \ temporary[e]
    /\ Hook(h)
    /\ temporary' = [temporary EXCEPT ![e] = @ \union {h}]
    /\ Advance(e, HooksOf[e] \subseteq temporary[e] \union {h}, "dtorTemporary", "dtorUnhook")
    /\ UNCHANGED <<listeners, registered>>

DtorUnhook(e, h) ==
    /\ h \in registered[e]
    /\ Unhook(h)
    /\ registered' = [registered EXCEPT ![e] = @ \ {h}]
    /\ Advance(e, registered[e] = {h}, "dtorUnhook",
               IF e \in MemberEvents THEN "none" ELSE "dtorEnd")
    /\ UNCHANGED <<listeners, temporary>>

DtorEnd(e, h) ==
    /\ h \in temporary[e]
    /\ Unhook(h)
    /\ temporary' = [temporary EXCEPT ![e] = @ \ {h}]
    /\ Advance(e, temporary[e] = {h}, "dtorEnd", "none")
    /\ UNCHANGED <<listeners, registered>>

-----------------------------------------------------------------------------

RegistrarStep(e, h) ==
    \/ CtorTemporary(e, h)
    \/ CtorHook(e, h)
    \/ CtorEnd(e, h)
    \/ DtorTemporary(e, h)
    \/ DtorUnhook(e, h)
    \/ DtorEnd(e, h)

\* What the bus does by itself once a listener has started it.
BusStep(e) == KeepEmitter(e) \/ \E h \in Hooks : RegistrarStep(e, h)

Next ==
    \/ \E e \in Events, l \in Listeners : AddListener(e, l) \/ RemoveListener(e, l)
    \/ \E e \in Events : BusStep(e)

Spec == Init /\ [][Next]_vars

\* A factory or a destructor that has begun runs on without waiting for anyone.
FairSpec == Spec /\ \A e \in Events : WF_vars(BusStep(e))

-----------------------------------------------------------------------------

TypeOK ==
    /\ listeners \in [Events -> SUBSET Listeners]
    /\ emitter \in [Events -> Stages]
    /\ registered \in [Events -> SUBSET Hooks]
    /\ temporary \in [Events -> SUBSET Hooks]
    /\ hookCount \in [Hooks -> Nat]
    /\ hooked \in [Hooks -> BOOLEAN]

Holders(held, h) == {e \in Events : h \in held[e]}

\* The count of a hook is the number of registrars that hold it, whatever
\* constructor or destructor is half way, and the engine function is detoured
\* exactly while that number is not zero (HookRegistrar::hook/unhook).
CountExact ==
    \A h \in Hooks :
        /\ hookCount[h] = Cardinality(Holders(registered, h))
                        + Cardinality(Holders(temporary, h))
        /\ hooked[h] <=> hookCount[h] > 0

\* Once the emitter of an event is built, every engine function the event is
\* made from stays detoured as long as the event has a listener, also while
\* emitters that share the hook are being built or destroyed.
ListenersHeard ==
    \A e \in Events :
        listeners[e] # {} /\ emitter[e] \notin CtorStages
            => \A h \in HooksOf[e] : hooked[h]

\* When nobody listens to any event made from a hook and the bus is at rest,
\* the engine runs its own code again: no count was left by a temporary.
NothingLeftHooked ==
    \A h \in Hooks :
        BusFree /\ (\A e \in Events : h \in HooksOf[e] => listeners[e] = {})
            => ~hooked[h] /\ hookCount[h] = 0

\* Adding a listener takes effect: its emitter is built unless it leaves.
SubscriptionTakesEffect ==
    \A e \in Events : listeners[e] # {} ~> (emitter[e] = "live" \/ listeners[e] = {})

-----------------------------------------------------------------------------
(* Refinement: the counters implement the promise of Interception.         *)

Served == {e \in Events : emitter[e] = "live"}
Detoured == {h \in Hooks : hooked[h]}

Promise == INSTANCE Interception WITH served <- Served, detoured <- Detoured

\* The counters of the registrars never detour or release an engine function
\* in a way the uncounted specification of the emitters does not allow.
ImplementsInterception == Promise!Spec

=============================================================================
