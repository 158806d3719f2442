---------------------------- MODULE TypedEvents ----------------------------
(***************************************************************************)
(* Events that are published twice: under the id of the event, and under   *)
(* an id that also names the type of the packet or of the structure it is  *)
(* about, <class TextPacket> or <class village>.  One event object goes    *)
(* through both publications, so the listeners of both share its flag.     *)
(*                                                                         *)
(* The ids of packets get their emitter factory when the library is        *)
(* loaded.  Those of structures get theirs in the hook, when a structure   *)
(* of the type first comes up, on whatever thread generates the chunk.     *)
(* A received packet goes through a copy of the engine's own receiving     *)
(* code, after the engine's handler has been asked.                        *)
(***************************************************************************)
EXTENDS Integers, Sequences

CONSTANTS
    Threads,    (* for each family of events, the threads its hooks run on *)
    Types,      (* and the types it tells apart                            *)
    Unnamed     (* packet types the enumeration of ids has no name for     *)

Families == {"structure", "send", "receive"}

\* "any" is the second half of the ids that name no type.
ASSUME TypedEventsAssumption == \A f \in Families : "any" \notin Types[f]

\* What a hook does, step by step.
StructureFlow == <<"any", "register", "typed", "veto", "handle", "return">>
SendFlow == <<"any", "typed", "veto", "handle", "anyAfter", "typedAfter", "return">>
ReceiveFlow ==
    <<"engine", "header", "packet", "connection", "read",
      "any", "typed", "veto", "handle", "anyAfter", "typedAfter", "return">>

Flow == [structure |-> StructureFlow, send |-> SendFlow, receive |-> ReceiveFlow]

VARIABLES
    family,     (* the family this is about: one for a whole behaviour     *)
    factories,  (* for each id, how often its factory has been set         *)
    listening,  (* ids with a listener                                     *)
    early,      (* those that had no factory when the listener came        *)
    emitters,   (* ids with an emitter: while there is one, the hook is in *)
    calls       (* for each thread, the call it is in or was in last       *)

vars == <<family, factories, listening, early, emitters, calls>>

Phases == {"before", "after"}
AnyId(phase) == <<phase, "any">>

\* A packet without a name is "Packet", and so is the id of all packets.
TypedId(phase, type) == <<phase, IF type \in Unnamed THEN "any" ELSE type>>

Ids ==
    LET phases == IF family = "structure" THEN {"before"} ELSE Phases IN
    {AnyId(p) : p \in phases} \union {TypedId(p, type) : p \in phases, type \in Types[family]}

Outcomes == {"none", "unhooked", "handled", "vetoed", "refused", "passedOn", "threw"}

Idle ==
    [ step |-> 0, type |-> "none", cancelled |-> FALSE, handled |-> 0, outcome |-> "none",
      present |-> {}, heard |-> [id \in Ids |-> 0] ]

Init ==
    /\ family \in Families
    /\ factories =
         [id \in Ids |-> IF family = "structure" /\ id # AnyId("before") THEN 0 ELSE 1]
    /\ listening = {}
    /\ early = {}
    /\ emitters = {}
    /\ calls = [t \in Threads[family] |-> Idle]

-----------------------------------------------------------------------------
(* The bus.                                                                *)

AddListener(id) ==
    /\ id \notin listening
    /\ listening' = listening \union {id}
    /\ IF factories[id] > 0
         THEN emitters' = emitters \union {id} /\ UNCHANGED early
         ELSE early' = early \union {id} /\ UNCHANGED emitters
    /\ UNCHANGED <<family, factories, calls>>

RemoveListener(id) ==
    /\ id \in listening
    /\ listening' = listening \ {id}
    /\ early' = early \ {id}
    /\ emitters' = emitters \ {id}
    /\ calls' = [t \in DOMAIN calls |-> [calls[t] EXCEPT !.present = @ \ {id}]]
    /\ UNCHANGED <<family, factories>>

-----------------------------------------------------------------------------
(* The hooks.                                                              *)

At(t, step) ==
    /\ calls[t].step > 0
    /\ Flow[family][calls[t].step] = step

Set(t, call) == calls' = [calls EXCEPT ![t] = call]
Advance(call) == [call EXCEPT !.step = @ + 1]
Done(call, outcome) == [call EXCEPT !.step = 0, !.outcome = outcome]
bus == <<family, factories, listening, early, emitters>>

\* The engine calls the function; without an emitter it is not detoured.
Call(t) ==
    /\ calls[t].step = 0
    /\ \E type \in Types[family] :
           LET call == [Idle EXCEPT !.type = type, !.present = listening] IN
           Set(t, IF emitters = {} THEN Done(call, "unhooked") ELSE Advance(call))
    /\ UNCHANGED bus

\* A publication: who listens hears it, and may set the flag of a Before event.
Hear(call, id) ==
    [call EXCEPT !.heard[id] = @ + (IF id \in listening THEN 1 ELSE 0)]

Ask(t, id) ==
    /\ \E cancelled \in (IF id \in listening THEN BOOLEAN ELSE {calls[t].cancelled}) :
           Set(t, Advance([Hear(calls[t], id) EXCEPT !.cancelled = cancelled]))
    /\ UNCHANGED bus

AskAny(t) == At(t, "any") /\ Ask(t, AnyId("before"))

\* Mutant: a call that is cancelled already is not published again.
AskTypedUnlessVetoed(t) ==
    /\ At(t, "typed")
    /\ IF calls[t].cancelled
         THEN Set(t, Advance(calls[t])) /\ UNCHANGED bus
         ELSE Ask(t, TypedId("before", calls[t].type))

AskTyped(t) == At(t, "typed") /\ Ask(t, TypedId("before", calls[t].type))

\* Mutant: the set of registered ids is not looked at.
RegisterAlways(t) ==
    /\ At(t, "register")
    /\ LET id == TypedId("before", calls[t].type) IN
       /\ factories' = [factories EXCEPT ![id] = IF @ < 2 THEN @ + 1 ELSE @]
       /\ \E build \in BOOLEAN :
              emitters' = emitters \union {i \in {id} \intersect listening : build}
    /\ Set(t, Advance(calls[t]))
    /\ UNCHANGED <<family, listening, early>>

\* registerIdentifier, under its mutex: the first to come sets the factory.
\* Whether the bus then builds the emitter for a listener it has, is its affair.
Register(t) ==
    /\ At(t, "register")
    /\ LET id == TypedId("before", calls[t].type) IN
       IF factories[id] = 0
         THEN /\ factories' = [factories EXCEPT ![id] = 1]
              /\ \E build \in BOOLEAN :
                     emitters' = emitters \union {i \in {id} \intersect listening : build}
         ELSE UNCHANGED <<factories, emitters>>
    /\ Set(t, Advance(calls[t]))
    /\ UNCHANGED <<family, listening, early>>

Veto(t) ==
    /\ At(t, "veto")
    /\ Set(t, IF calls[t].cancelled THEN Done(calls[t], "vetoed") ELSE Advance(calls[t]))
    /\ UNCHANGED bus

\* origin, or the packet's own handler.
Handle(t) ==
    /\ At(t, "handle")
    /\ Set(t, Advance([calls[t] EXCEPT !.handled = @ + 1]))
    /\ UNCHANGED bus

Tell(t, id) == Set(t, Advance(Hear(calls[t], id))) /\ UNCHANGED bus

TellAny(t) == At(t, "anyAfter") /\ Tell(t, AnyId("after"))
TellTyped(t) == At(t, "typedAfter") /\ Tell(t, TypedId("after", calls[t].type))

\* Mutant: the engine is let go on with the packet.
ReturnContinue(t) ==
    /\ At(t, "return")
    /\ Set(t, Done([calls[t] EXCEPT !.handled = @ + (IF family = "receive" THEN 1 ELSE 0)],
                   "handled"))
    /\ UNCHANGED bus

\* A received packet is not left to the engine: the hook has handled it.
Return(t) ==
    /\ At(t, "return")
    /\ Set(t, Done(calls[t], "handled"))
    /\ UNCHANGED bus

-----------------------------------------------------------------------------
(* Receiving a packet.                                                     *)

\* What the engine does with a call that is passed on: handle the packet.
PassOn(call) == Done([call EXCEPT !.handled = @ + 1], "passedOn")

\* origin comes first.  If it says that the packet is done with, or that its
\* listeners are to be bypassed, that is the answer.
AskEngine(t) ==
    /\ At(t, "engine")
    /\ \E call \in { Advance(calls[t]), Done(calls[t], "refused"), PassOn(calls[t]) } : Set(t, call)
    /\ UNCHANGED bus

\* A header that cannot be read is logged, and then its value is asked for.
ReadHeader(t) ==
    /\ At(t, "header")
    /\ \E call \in { Advance(calls[t]), Done(calls[t], "threw") } : Set(t, call)
    /\ UNCHANGED bus

\* No such packet; later, one that is too large, cannot be read or that nobody
\* handles: refused.
MakePacket(t) ==
    /\ At(t, "packet")
    /\ \E call \in { Advance(calls[t]), Done(calls[t], "refused") } : Set(t, call)
    /\ UNCHANGED bus

\* Without a connection, or with one that is closing, the engine goes on.
FindConnection(t) ==
    /\ At(t, "connection")
    /\ \E call \in { Advance(calls[t]), PassOn(calls[t]) } : Set(t, call)
    /\ UNCHANGED bus

ReadPacket(t) ==
    /\ At(t, "read")
    /\ \E call \in { Advance(calls[t]), Done(calls[t], "refused") } : Set(t, call)
    /\ UNCHANGED bus

Receive(t) ==
    AskEngine(t) \/ ReadHeader(t) \/ MakePacket(t) \/ FindConnection(t) \/ ReadPacket(t)

Next ==
    \/ \E id \in Ids : AddListener(id) \/ RemoveListener(id)
    \/ \E t \in Threads[family] :
           \/ Call(t)
           \/ AskAny(t) \/ Register(t) \/ AskTyped(t) \/ Veto(t)
           \/ Handle(t) \/ TellAny(t) \/ TellTyped(t) \/ Return(t)
           \/ Receive(t)

Spec == Init /\ [][Next]_vars

-----------------------------------------------------------------------------
(* Properties.                                                             *)

Ended(t) == calls[t].step = 0 /\ calls[t].outcome # "none"

\* Also: the factory of an id is set once, whichever threads come upon its
\* type; an emitter serves a listener.
TypeOK ==
    /\ family \in Families
    /\ factories \in [Ids -> 0..1]
    /\ early \subseteq listening /\ emitters \subseteq listening
    /\ listening \subseteq Ids
    /\ listening \ early \subseteq emitters
    /\ \A t \in Threads[family] :
           /\ calls[t].step \in 0..Len(Flow[family])
           /\ calls[t].type \in Types[family] \union {"none"}
           /\ calls[t].present \subseteq listening
           /\ calls[t].handled \in Nat
           /\ calls[t].cancelled \in BOOLEAN
           /\ calls[t].outcome \in Outcomes
           /\ calls[t].heard \in [Ids -> Nat]

\* A listener that is there for the whole of a call, and whose id had a factory
\* when it came, hears of the call once before it is handled and once after, if
\* it is about its type, and not at all otherwise.  A call it has not heard of
\* is one the engine or the hook refused, or that went past the event.
Concerns(call, id) == id[2] \in {"any", call.type}

HeardOnce ==
    \A t \in Threads[family] : Ended(t) =>
        \A id \in calls[t].present \ early :
            LET call == calls[t]
                heard == call.heard[id] IN
            /\ ~Concerns(call, id) => heard = 0
            /\ call.type \notin Unnamed => heard <= 1
            /\ Concerns(call, id) => call.outcome # "unhooked"
            /\ Concerns(call, id) /\ call.outcome = "handled" => heard >= 1
            /\ Concerns(call, id) /\ call.outcome = "vetoed" => (heard >= 1 <=> id[1] = "before")

\* A call is handled once, by the hook or by the engine it is passed on to, and
\* not at all if the last listener asked, of either id, has vetoed it.
HandledOnce ==
    \A t \in Threads[family] : Ended(t) =>
        /\ calls[t].outcome \in {"handled", "passedOn"} => calls[t].handled = 1
        /\ calls[t].outcome \in {"vetoed", "refused", "threw"} => calls[t].handled = 0
        /\ calls[t].outcome = "handled" => ~calls[t].cancelled
        /\ calls[t].outcome = "vetoed" => calls[t].cancelled

=============================================================================
