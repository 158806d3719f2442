-------------------------- MODULE TypedEventsProofs --------------------------
(***************************************************************************)
(* Proofs about TypedEvents.tla for any threads, any types and any set of  *)
(* packets without a name: who hears of a call that is published twice,    *)
(* and how often the call is handled.                                      *)
(*                                                                         *)
(* Every hook is a straight line of steps.  The invariant says of a call   *)
(* what the steps behind it have done (Followed), whether it is under way  *)
(* or has ended early (Reached), while listeners come and go.              *)
(***************************************************************************)
EXTENDS TypedEvents, TLAPS

-----------------------------------------------------------------------------
(* The steps of the three hooks by number.                                 *)

AskAnyAt == [structure |-> 1, send |-> 1, receive |-> 6]
AskTypedAt == [structure |-> 3, send |-> 2, receive |-> 7]
VetoAt == [structure |-> 4, send |-> 3, receive |-> 8]
HandleAt == [structure |-> 5, send |-> 4, receive |-> 9]
TellAnyAt == [structure |-> 6, send |-> 5, receive |-> 10]
TellTypedAt == [structure |-> 6, send |-> 6, receive |-> 11]
ReturnAt == [structure |-> 6, send |-> 7, receive |-> 12]

\* What the invariant needs to know of the order of the steps of a family.
LEMMA StepOrder ==
    ASSUME NEW f \in Families
    PROVE  /\ AskAnyAt[f] \in Nat /\ AskTypedAt[f] \in Nat /\ VetoAt[f] \in Nat
           /\ HandleAt[f] \in Nat /\ TellAnyAt[f] \in Nat /\ TellTypedAt[f] \in Nat
           /\ ReturnAt[f] \in Nat
           /\ 0 < AskAnyAt[f] /\ AskAnyAt[f] < AskTypedAt[f]
           /\ VetoAt[f] = AskTypedAt[f] + 1 /\ HandleAt[f] = VetoAt[f] + 1
           /\ TellAnyAt[f] = HandleAt[f] + 1
           /\ Len(Flow[f]) = ReturnAt[f] /\ ReturnAt[f] \in 1..12
           /\ f # "structure" => TellTypedAt[f] = TellAnyAt[f] + 1 /\ ReturnAt[f] = TellTypedAt[f] + 1
           /\ f = "structure" => TellTypedAt[f] = TellAnyAt[f] /\ ReturnAt[f] = TellTypedAt[f]
  <1> USE DEF Flow, AskAnyAt, AskTypedAt, VetoAt, HandleAt, TellAnyAt, TellTypedAt, ReturnAt
  <1>1. CASE f = "structure"
    <2>1. Len(StructureFlow) = 6  BY DEF StructureFlow
    <2> QED  BY <1>1, <2>1
  <1>2. CASE f = "send"
    <2>1. Len(SendFlow) = 7  BY DEF SendFlow
    <2> QED  BY <1>2, <2>1
  <1>3. CASE f = "receive"
    <2>1. Len(ReceiveFlow) = 12  BY DEF ReceiveFlow
    <2> QED  BY <1>3, <2>1
  <1> QED  BY <1>1, <1>2, <1>3 DEF Families

\* The same of the family at hand, as the proofs use it.
Ordered(f) ==
    /\ AskAnyAt[f] \in Nat /\ AskTypedAt[f] \in Nat /\ VetoAt[f] \in Nat
    /\ HandleAt[f] \in Nat /\ TellAnyAt[f] \in Nat /\ TellTypedAt[f] \in Nat
    /\ ReturnAt[f] \in Nat
    /\ 0 < AskAnyAt[f] /\ AskAnyAt[f] < AskTypedAt[f] /\ AskTypedAt[f] < VetoAt[f]
    /\ HandleAt[f] = VetoAt[f] + 1 /\ TellAnyAt[f] = HandleAt[f] + 1
    /\ TellAnyAt[f] <= TellTypedAt[f] /\ TellTypedAt[f] <= ReturnAt[f]

LEMMA InOrder ==
    ASSUME NEW f \in Families
    PROVE  Ordered(f) /\ Len(Flow[f]) = ReturnAt[f]
  <1>1. /\ AskAnyAt[f] \in Nat /\ AskTypedAt[f] \in Nat /\ VetoAt[f] \in Nat
        /\ HandleAt[f] \in Nat /\ TellAnyAt[f] \in Nat /\ TellTypedAt[f] \in Nat
        /\ ReturnAt[f] \in Nat
    BY StepOrder
  <1>2. 0 < AskAnyAt[f] /\ AskAnyAt[f] < AskTypedAt[f] /\ VetoAt[f] = AskTypedAt[f] + 1
    BY StepOrder
  <1>3. /\ HandleAt[f] = VetoAt[f] + 1 /\ TellAnyAt[f] = HandleAt[f] + 1
        /\ Len(Flow[f]) = ReturnAt[f]
    BY StepOrder
  <1>4. TellAnyAt[f] <= TellTypedAt[f] /\ TellTypedAt[f] <= ReturnAt[f]
    <2>1. CASE f = "structure"
      BY <1>1, <2>1, StepOrder
    <2>2. CASE f # "structure"
      <3>1. TellTypedAt[f] = TellAnyAt[f] + 1 /\ ReturnAt[f] = TellTypedAt[f] + 1
        BY <2>2, StepOrder
      <3> QED  BY <1>1, <3>1
    <2> QED  BY <2>1, <2>2
  <1>5. AskTypedAt[f] < VetoAt[f]
    BY <1>1, <1>2
  <1> QED  BY <1>1, <1>2, <1>3, <1>4, <1>5 DEF Ordered

\* Which step is where.
Numbered(f, i) ==
    /\ Flow[f][i] = "any" => i = AskAnyAt[f]
    /\ Flow[f][i] = "register" => AskAnyAt[f] < i /\ i < AskTypedAt[f]
    /\ Flow[f][i] = "typed" => i = AskTypedAt[f]
    /\ Flow[f][i] = "veto" => i = VetoAt[f]
    /\ Flow[f][i] = "handle" => i = HandleAt[f]
    /\ Flow[f][i] = "anyAfter" => i = TellAnyAt[f] /\ f # "structure"
    /\ Flow[f][i] = "typedAfter" => i = TellTypedAt[f] /\ f # "structure"
    /\ Flow[f][i] = "return" => i = ReturnAt[f]
    /\ Flow[f][i] \in {"engine", "header", "packet", "connection", "read"} => i < AskAnyAt[f]

LEMMA StepNumbers ==
    ASSUME NEW f \in Families, NEW i \in 1..Len(Flow[f])
    PROVE  Numbered(f, i)
  <1> USE DEF Numbered, Flow, AskAnyAt, AskTypedAt, VetoAt, HandleAt, TellAnyAt, TellTypedAt,
              ReturnAt
  <1>1. CASE f = "structure"
    <2>1. i \in 1..6  BY <1>1 DEF StructureFlow
    <2>2. CASE i = 1  BY <1>1, <2>2 DEF StructureFlow
    <2>3. CASE i = 2  BY <1>1, <2>3 DEF StructureFlow
    <2>4. CASE i = 3  BY <1>1, <2>4 DEF StructureFlow
    <2>5. CASE i = 4  BY <1>1, <2>5 DEF StructureFlow
    <2>6. CASE i = 5  BY <1>1, <2>6 DEF StructureFlow
    <2>7. CASE i = 6  BY <1>1, <2>7 DEF StructureFlow
    <2> HIDE DEF Numbered
    <2> QED  BY <2>1, <2>2, <2>3, <2>4, <2>5, <2>6, <2>7
  <1>2. CASE f = "send"
    <2>1. i \in 1..7  BY <1>2 DEF SendFlow
    <2>2. CASE i = 1  BY <1>2, <2>2 DEF SendFlow
    <2>3. CASE i = 2  BY <1>2, <2>3 DEF SendFlow
    <2>4. CASE i = 3  BY <1>2, <2>4 DEF SendFlow
    <2>5. CASE i = 4  BY <1>2, <2>5 DEF SendFlow
    <2>6. CASE i = 5  BY <1>2, <2>6 DEF SendFlow
    <2>7. CASE i = 6  BY <1>2, <2>7 DEF SendFlow
    <2>8. CASE i = 7  BY <1>2, <2>8 DEF SendFlow
    <2> HIDE DEF Numbered
    <2> QED  BY <2>1, <2>2, <2>3, <2>4, <2>5, <2>6, <2>7, <2>8
  <1>3. CASE f = "receive"
    <2>1. i \in 1..12  BY <1>3 DEF ReceiveFlow
    <2>2. CASE i \in 1..3  BY <1>3, <2>2 DEF ReceiveFlow
    <2>3. CASE i \in 4..5  BY <1>3, <2>3 DEF ReceiveFlow
    <2>4. CASE i = 6  BY <1>3, <2>4 DEF ReceiveFlow
    <2>5. CASE i = 7  BY <1>3, <2>5 DEF ReceiveFlow
    <2>6. CASE i = 8  BY <1>3, <2>6 DEF ReceiveFlow
    <2>7. CASE i = 9  BY <1>3, <2>7 DEF ReceiveFlow
    <2>8. CASE i = 10  BY <1>3, <2>8 DEF ReceiveFlow
    <2>9. CASE i = 11  BY <1>3, <2>9 DEF ReceiveFlow
    <2>10. CASE i = 12  BY <1>3, <2>10 DEF ReceiveFlow
    <2> HIDE DEF Numbered
    <2> QED  BY <2>1, <2>2, <2>3, <2>4, <2>5, <2>6, <2>7, <2>8, <2>9, <2>10
  <1> HIDE DEF Numbered
  <1> QED  BY <1>1, <1>2, <1>3 DEF Families

-----------------------------------------------------------------------------
(* The inductive invariant.                                                *)

\* How far a call has come: to the step it is in, or the one that ended it.
Reached(call) ==
    IF call.step > 0 THEN call.step
    ELSE IF call.outcome = "handled" THEN ReturnAt[family]
    ELSE IF call.outcome = "vetoed" THEN VetoAt[family]
    ELSE 1

\* The publications that are behind a call.
Behind(call, id) ==
    \/ id = AnyId("before") /\ Reached(call) > AskAnyAt[family]
    \/ id = <<"before", call.type>> /\ Reached(call) > AskTypedAt[family]
    \/ id = AnyId("after") /\ Reached(call) > TellAnyAt[family]
    \/ id = <<"after", call.type>> /\ Reached(call) > TellTypedAt[family]

\* A type with a name is published once under each id, one without a name at
\* least once under the id of all packets, and under no other.
HeardSoFar(call, id) ==
    /\ call.type \notin Unnamed => call.heard[id] = IF Behind(call, id) THEN 1 ELSE 0
    /\ call.type \in Unnamed => (call.heard[id] > 0 <=> Behind(call, id))

\* What the steps behind a call have done.
Followed(call) ==
    /\ \A id \in call.present \ early : HeardSoFar(call, id)
    /\ Reached(call) > VetoAt[family] => ~call.cancelled
    /\ call.outcome = "vetoed" => call.cancelled
    /\ call.outcome # "passedOn" => call.handled = IF Reached(call) > HandleAt[family] THEN 1 ELSE 0
    /\ call.outcome = "passedOn" => call.handled = 1

CallOK(call) ==
    /\ call.step > 0 => call.outcome = "none"
    /\ call.step > 0 \/ call.outcome # "none" => call.type \in Types[family] /\ Followed(call)
    /\ call.outcome = "unhooked" => call.present \subseteq early

CallType ==
    [ step : Nat, type : Types[family] \union {"none"}, cancelled : BOOLEAN,
      handled : Nat, outcome : Outcomes, present : SUBSET Ids, heard : [Ids -> Nat] ]

\* The bus, and that an id has an emitter if it has a listener that came when
\* its factory was there.
BusOK ==
    /\ family \in Families
    /\ factories \in [Ids -> 0..1]
    /\ early \subseteq listening /\ emitters \subseteq listening
    /\ listening \subseteq Ids
    /\ listening \ early \subseteq emitters

IInv ==
    /\ BusOK
    /\ calls \in [Threads[family] -> CallType]
    /\ \A t \in Threads[family] :
           /\ calls[t].step \in 0..ReturnAt[family]
           /\ calls[t].present \subseteq listening
           /\ CallOK(calls[t])

-----------------------------------------------------------------------------
(* One call takes a step.                                                  *)

\* If what a thread does to its call keeps the call right, it keeps all.
LEMMA Settle ==
    ASSUME IInv, NEW t \in Threads[family], NEW call \in CallType,
           call.step \in 0..ReturnAt[family], call.present \subseteq listening, CallOK(call),
           Set(t, call), UNCHANGED <<family, listening, early>>,
           factories' \in [Ids -> 0..1], emitters' \subseteq listening, emitters \subseteq emitters'
    PROVE  IInv'
  <1>1. Ids' = Ids /\ CallType' = CallType
    BY DEF Ids, CallType
  <1>2. BusOK'
    BY <1>1 DEF IInv, BusOK
  <1>3. calls' \in [Threads[family] -> CallType]
    BY DEF IInv, Set
  <1>4. ASSUME NEW s \in Threads[family]
        PROVE  /\ calls'[s].step \in 0..ReturnAt[family]
               /\ calls'[s].present \subseteq listening
               /\ CallOK(calls'[s])
    BY DEF IInv, Set
  <1>5. \A c : CallOK(c)' <=> CallOK(c)
    BY DEF CallOK, Followed, HeardSoFar, Behind, Reached
  <1> QED  BY <1>1, <1>2, <1>3, <1>4, <1>5 DEF IInv

\* A call under way, and the step it is in.
LEMMA Underway ==
    ASSUME IInv, NEW t \in Threads[family], NEW step, At(t, step)
    PROVE  /\ calls[t] \in CallType /\ calls[t].step \in 1..ReturnAt[family]
           /\ calls[t].outcome = "none" /\ calls[t].type \in Types[family]
           /\ calls[t].present \subseteq listening
           /\ Followed(calls[t]) /\ Reached(calls[t]) = calls[t].step
           /\ Flow[family][calls[t].step] = step /\ Numbered(family, calls[t].step)
  <1>1. /\ calls[t] \in CallType /\ calls[t].step \in 1..ReturnAt[family]
        /\ Flow[family][calls[t].step] = step
    BY StepOrder DEF IInv, BusOK, At
  <1>2. Numbered(family, calls[t].step)
    BY <1>1, StepNumbers, InOrder DEF IInv, BusOK
  <1>3. /\ calls[t].outcome = "none" /\ calls[t].type \in Types[family]
        /\ calls[t].present \subseteq listening
        /\ Followed(calls[t])
    BY DEF IInv, CallOK, At
  <1>4. Reached(calls[t]) = calls[t].step
    BY DEF Reached, At
  <1> QED  BY <1>1, <1>2, <1>3, <1>4

\* A step that publishes nothing, asks nobody and handles nothing.
LEMMA QuietStep ==
    ASSUME IInv, NEW t \in Threads[family], NEW step, At(t, step),
           calls[t].step \in 1..ReturnAt[family] - 1,
           calls[t].step # AskAnyAt[family], calls[t].step # AskTypedAt[family],
           calls[t].step # TellAnyAt[family], calls[t].step # TellTypedAt[family],
           calls[t].step # HandleAt[family],
           calls[t].step = VetoAt[family] => ~calls[t].cancelled
    PROVE  /\ Advance(calls[t]) \in CallType
           /\ Advance(calls[t]).step \in 0..ReturnAt[family]
           /\ Advance(calls[t]).present \subseteq listening
           /\ CallOK(Advance(calls[t]))
  <1> DEFINE old == calls[t]
             new == Advance(calls[t])
  <1>1. /\ old \in CallType /\ old.outcome = "none" /\ old.type \in Types[family]
        /\ old.present \subseteq listening /\ Followed(old) /\ Reached(old) = old.step
    BY Underway
  <1>2. /\ AskAnyAt[family] \in Nat /\ AskTypedAt[family] \in Nat /\ VetoAt[family] \in Nat
        /\ HandleAt[family] \in Nat /\ TellAnyAt[family] \in Nat /\ TellTypedAt[family] \in Nat
        /\ ReturnAt[family] \in Nat
    BY StepOrder DEF IInv, BusOK
  <1>3. /\ new \in CallType /\ new.step = old.step + 1 /\ new.outcome = "none"
        /\ new.type = old.type /\ new.present = old.present /\ new.heard = old.heard
        /\ new.cancelled = old.cancelled /\ new.handled = old.handled
    BY <1>1 DEF Advance, CallType
  <1>4. Reached(new) = old.step + 1
    BY <1>3 DEF Reached
  <1> HIDE DEF old, new
  <1>5. \A id : Behind(new, id) <=> Behind(old, id)
    BY <1>1, <1>2, <1>3, <1>4 DEF Behind, old
  <1>6. Followed(new)
    BY <1>1, <1>2, <1>3, <1>4, <1>5 DEF Followed, HeardSoFar, old
  <1>7. CallOK(new)
    BY <1>1, <1>3, <1>6 DEF CallOK
  <1> QED  BY <1>1, <1>2, <1>3, <1>7 DEF old, new

\* The ids of a type: two if it has a name, one if it has none.
LEMMA IdsOfType ==
    ASSUME IInv, NEW type \in Types[family], NEW phase \in Phases,
           family = "structure" => phase = "before"
    PROVE  /\ type # "any"
           /\ AnyId(phase) \in Ids /\ TypedId(phase, type) \in Ids
           /\ type \notin Unnamed => TypedId(phase, type) = <<phase, type>>
           /\ type \in Unnamed => TypedId(phase, type) = AnyId(phase)
           /\ type \in Unnamed => \A p : <<p, type>> \notin Ids
  <1>1. type # "any"
    BY TypedEventsAssumption DEF IInv, BusOK
  <1>2. AnyId(phase) \in Ids /\ TypedId(phase, type) \in Ids
    BY DEF Ids, Phases
  <1>3. type \in Unnamed => \A p : <<p, type>> \notin Ids
    BY <1>1 DEF Ids, AnyId, TypedId
  <1> QED  BY <1>1, <1>2, <1>3 DEF TypedId, AnyId

\* A publication adds to one entry of what has been heard.
LEMMA HearOnce ==
    ASSUME NEW call \in CallType, NEW id \in Ids
    PROVE  /\ Hear(call, id) \in CallType
           /\ Hear(call, id).heard =
                [call.heard EXCEPT ![id] = @ + (IF id \in listening THEN 1 ELSE 0)]
           /\ Hear(call, id).step = call.step /\ Hear(call, id).type = call.type
           /\ Hear(call, id).outcome = call.outcome /\ Hear(call, id).present = call.present
           /\ Hear(call, id).handled = call.handled /\ Hear(call, id).cancelled = call.cancelled
  <1> DEFINE more == [call.heard EXCEPT ![id] = @ + (IF id \in listening THEN 1 ELSE 0)]
  <1>1. Hear(call, id) = [call EXCEPT !.heard = more]
    BY DEF Hear, CallType
  <1>2. call.heard \in [Ids -> Nat]
    BY DEF CallType
  <1>3. more \in [Ids -> Nat]
    BY <1>2
  <1> HIDE DEF more
  <1>4. /\ [call EXCEPT !.heard = more] \in CallType
        /\ [call EXCEPT !.heard = more].heard = more
    BY <1>3 DEF CallType
  <1>5. /\ [call EXCEPT !.heard = more].step = call.step
        /\ [call EXCEPT !.heard = more].type = call.type
        /\ [call EXCEPT !.heard = more].outcome = call.outcome
        /\ [call EXCEPT !.heard = more].present = call.present
        /\ [call EXCEPT !.heard = more].handled = call.handled
        /\ [call EXCEPT !.heard = more].cancelled = call.cancelled
    BY DEF CallType
  <1> QED  BY <1>1, <1>4, <1>5 DEF more

\* A step that publishes under an id, if the publication is the first under it
\* for a type with a name, and the only one this step leaves behind.
LEMMA PublishingStep ==
    ASSUME IInv, NEW t \in Threads[family], NEW step, At(t, step),
           NEW id \in Ids, NEW new, NEW flag \in BOOLEAN,
           new = Advance([Hear(calls[t], id) EXCEPT !.cancelled = flag]),
           calls[t].step < ReturnAt[family],
           calls[t].step # HandleAt[family], calls[t].step # VetoAt[family],
           calls[t].step < VetoAt[family] \/ flag = calls[t].cancelled,
           \A other \in Ids : other # id => (Behind(new, other) <=> Behind(calls[t], other)),
           Behind(new, id),
           calls[t].type \notin Unnamed => ~Behind(calls[t], id)
    PROVE  /\ new \in CallType
           /\ new.step \in 0..ReturnAt[family]
           /\ new.present \subseteq listening
           /\ CallOK(new)
  <1> DEFINE old == calls[t]
  <1>1. /\ old \in CallType /\ old.outcome = "none" /\ old.type \in Types[family]
        /\ old.present \subseteq listening /\ Followed(old) /\ Reached(old) = old.step
        /\ old.step \in 1..ReturnAt[family]
    BY Underway
  <1>2. VetoAt[family] \in Nat /\ HandleAt[family] \in Nat /\ ReturnAt[family] \in Nat
    BY StepOrder DEF IInv, BusOK
  <1>3. Hear(old, id) \in CallType
    BY <1>1, HearOnce
  <1>4. /\ new \in CallType /\ new.step = old.step + 1 /\ new.outcome = "none"
        /\ new.type = old.type /\ new.present = old.present
        /\ new.cancelled = flag /\ new.handled = old.handled
        /\ new.heard = [old.heard EXCEPT ![id] = @ + (IF id \in listening THEN 1 ELSE 0)]
    <2> DEFINE h == Hear(old, id)
               g == [h EXCEPT !.cancelled = flag]
    <2>1. /\ h \in CallType
          /\ h.heard = [old.heard EXCEPT ![id] = @ + (IF id \in listening THEN 1 ELSE 0)]
          /\ h.step = old.step /\ h.type = old.type /\ h.outcome = old.outcome
          /\ h.present = old.present /\ h.handled = old.handled
      BY <1>1, HearOnce
    <2> HIDE DEF h
    <2>2. /\ g \in CallType /\ g.heard = h.heard /\ g.step = h.step /\ g.type = h.type
          /\ g.outcome = h.outcome /\ g.present = h.present /\ g.handled = h.handled
          /\ g.cancelled = flag
      BY <2>1 DEF CallType
    <2>3. new = [g EXCEPT !.step = @ + 1]
      BY DEF Advance, h
    <2> HIDE DEF g
    <2>4. /\ new \in CallType /\ new.step = g.step + 1 /\ new.outcome = g.outcome
          /\ new.type = g.type /\ new.present = g.present /\ new.heard = g.heard
          /\ new.cancelled = g.cancelled /\ new.handled = g.handled
      BY <2>2, <2>3 DEF CallType
    <2> HIDE DEF old
    <2> QED  BY <1>1, <2>1, <2>2, <2>4
  <1>5. Reached(new) = old.step + 1
    BY <1>1, <1>4 DEF Reached
  <1>6. old.heard \in [Ids -> Nat] /\ old.present \subseteq Ids
    BY <1>1 DEF CallType
  <1>7. ASSUME NEW i \in new.present \ early
        PROVE  HeardSoFar(new, i)
    <2>1. i \in Ids /\ i \in listening /\ HeardSoFar(old, i)
      BY <1>1, <1>4, <1>6 DEF Followed
    <2>2. CASE i = id
      BY <1>4, <1>6, <2>1, <2>2 DEF HeardSoFar
    <2>3. CASE i # id
      BY <1>4, <1>6, <2>1, <2>3 DEF HeardSoFar
    <2> QED  BY <2>2, <2>3
  <1>8. Followed(new)
    BY <1>1, <1>2, <1>4, <1>5, <1>7 DEF Followed
  <1>9. CallOK(new)
    BY <1>1, <1>4, <1>8 DEF CallOK
  <1> QED  BY <1>1, <1>2, <1>4, <1>9

\* What is behind a call depends on its type and its step only.
LEMMA BehindAdvanced ==
    ASSUME IInv, NEW t \in Threads[family], NEW step, At(t, step), NEW id \in Ids,
           NEW flag \in BOOLEAN, NEW other
    PROVE  Behind(Advance([Hear(calls[t], id) EXCEPT !.cancelled = flag]), other) <=>
             \/ other = AnyId("before") /\ calls[t].step + 1 > AskAnyAt[family]
             \/ other = <<"before", calls[t].type>> /\ calls[t].step + 1 > AskTypedAt[family]
             \/ other = AnyId("after") /\ calls[t].step + 1 > TellAnyAt[family]
             \/ other = <<"after", calls[t].type>> /\ calls[t].step + 1 > TellTypedAt[family]
  <1> DEFINE new == Advance([Hear(calls[t], id) EXCEPT !.cancelled = flag])
  <1>1. calls[t] \in CallType /\ calls[t].step \in 1..ReturnAt[family]
    BY Underway
  <1>2. Hear(calls[t], id) \in CallType
    BY <1>1, HearOnce
  <1>3. new.step = calls[t].step + 1 /\ new.type = calls[t].type
    BY <1>1, <1>2, HearOnce DEF Advance, CallType
  <1>4. Reached(new) = calls[t].step + 1
    BY <1>1, <1>3, StepOrder DEF Reached, IInv, BusOK
  <1> HIDE DEF new
  <1> QED  BY <1>3, <1>4 DEF Behind, new

-----------------------------------------------------------------------------
(* The steps of the hooks.                                                 *)

LEMMA AskAnyKeeps ==
    ASSUME IInv, NEW t \in Threads[family], AskAny(t)
    PROVE  IInv'
  <1> DEFINE id == AnyId("before")
  <1>1. /\ At(t, "any") /\ calls[t].step = AskAnyAt[family] /\ calls[t] \in CallType
        /\ calls[t].type \in Types[family] /\ Reached(calls[t]) = calls[t].step
    BY Underway DEF AskAny, Numbered
  <1>2. id \in Ids /\ calls[t].type # "any"
    BY <1>1, IdsOfType DEF Phases
  <1>3. PICK flag \in BOOLEAN : Set(t, Advance([Hear(calls[t], id) EXCEPT !.cancelled = flag]))
    BY <1>1 DEF AskAny, Ask, CallType
  <1> DEFINE new == Advance([Hear(calls[t], id) EXCEPT !.cancelled = flag])
  <1>4. Ordered(family)
    BY InOrder DEF IInv, BusOK
  <1>5. /\ calls[t].step + 1 > AskAnyAt[family] /\ ~(calls[t].step + 1 > AskTypedAt[family])
        /\ ~(calls[t].step + 1 > TellAnyAt[family]) /\ ~(calls[t].step + 1 > TellTypedAt[family])
        /\ ~(calls[t].step > AskAnyAt[family]) /\ ~(calls[t].step > AskTypedAt[family])
        /\ ~(calls[t].step > TellAnyAt[family]) /\ ~(calls[t].step > TellTypedAt[family])
    BY <1>1, <1>4 DEF Ordered
  <1>6. \A other : Behind(new, other) <=> other = id
    BY <1>1, <1>2, <1>5, BehindAdvanced
  <1>7. \A other : ~Behind(calls[t], other)
    BY <1>1, <1>5 DEF Behind
  <1>8. /\ \A other \in Ids : other # id => (Behind(new, other) <=> Behind(calls[t], other))
        /\ Behind(new, id)
        /\ ~Behind(calls[t], id)
    BY <1>2, <1>6, <1>7
  <1>9. /\ calls[t].step < ReturnAt[family]
         /\ calls[t].step # HandleAt[family] /\ calls[t].step # VetoAt[family]
         /\ calls[t].step < VetoAt[family]
    BY <1>1, <1>4 DEF Ordered
  <1>10. /\ new \in CallType /\ new.step \in 0..ReturnAt[family]
        /\ new.present \subseteq listening /\ CallOK(new)
    <2> HIDE DEF new
    <2> QED  BY <1>1, <1>2, <1>8, <1>9, PublishingStep DEF new
  <1> QED  BY <1>3, <1>10, Settle DEF AskAny, Ask, bus, IInv, BusOK

LEMMA AskTypedKeeps ==
    ASSUME IInv, NEW t \in Threads[family], AskTyped(t)
    PROVE  IInv'
  <1> DEFINE id == TypedId("before", calls[t].type)
  <1>1. /\ At(t, "typed") /\ calls[t].step = AskTypedAt[family] /\ calls[t] \in CallType
        /\ calls[t].type \in Types[family] /\ Reached(calls[t]) = calls[t].step
    BY Underway DEF AskTyped, Numbered
  <1>2. /\ id \in Ids /\ calls[t].type # "any"
        /\ calls[t].type \notin Unnamed => id = <<"before", calls[t].type>>
        /\ calls[t].type \in Unnamed => id = AnyId("before")
        /\ calls[t].type \in Unnamed => \A p : <<p, calls[t].type>> \notin Ids
    BY <1>1, IdsOfType DEF Phases
  <1>3. PICK flag \in BOOLEAN : Set(t, Advance([Hear(calls[t], id) EXCEPT !.cancelled = flag]))
    BY <1>1 DEF AskTyped, Ask, CallType
  <1> DEFINE new == Advance([Hear(calls[t], id) EXCEPT !.cancelled = flag])
  <1>4. Ordered(family)
    BY InOrder DEF IInv, BusOK
  <1> HIDE DEF id
  <1>5. /\ calls[t].step + 1 > AskAnyAt[family] /\ calls[t].step + 1 > AskTypedAt[family]
        /\ ~(calls[t].step + 1 > TellAnyAt[family]) /\ ~(calls[t].step + 1 > TellTypedAt[family])
        /\ calls[t].step > AskAnyAt[family] /\ ~(calls[t].step > AskTypedAt[family])
        /\ ~(calls[t].step > TellAnyAt[family]) /\ ~(calls[t].step > TellTypedAt[family])
    BY <1>1, <1>4 DEF Ordered
  <1>6. \A other : Behind(new, other) <=>
             \/ other = AnyId("before")
             \/ other = <<"before", calls[t].type>>
    BY <1>1, <1>2, <1>5, BehindAdvanced
  <1>7. \A other : Behind(calls[t], other) <=> other = AnyId("before")
    BY <1>1, <1>2, <1>5 DEF Behind
  <1>8. /\ \A other \in Ids : other # id => (Behind(new, other) <=> Behind(calls[t], other))
        /\ Behind(new, id)
        /\ calls[t].type \notin Unnamed => ~Behind(calls[t], id)
    BY <1>2, <1>6, <1>7 DEF AnyId
  <1>9. /\ calls[t].step < ReturnAt[family]
         /\ calls[t].step # HandleAt[family] /\ calls[t].step # VetoAt[family]
         /\ calls[t].step < VetoAt[family]
    BY <1>1, <1>4 DEF Ordered
  <1>10. /\ new \in CallType /\ new.step \in 0..ReturnAt[family]
        /\ new.present \subseteq listening /\ CallOK(new)
    <2> HIDE DEF new
    <2> QED  BY <1>1, <1>2, <1>8, <1>9, PublishingStep DEF new
  <1> QED  BY <1>3, <1>10, Settle DEF AskTyped, Ask, bus, IInv, BusOK, id

\* Telling is a publication that leaves the flag as it is.
LEMMA TellIsPublishing ==
    ASSUME NEW call \in CallType, NEW id \in Ids
    PROVE  Hear(call, id) = [Hear(call, id) EXCEPT !.cancelled = call.cancelled]
  <1> DEFINE h == Hear(call, id)
  <1>1. h \in CallType /\ h.cancelled = call.cancelled
    BY HearOnce
  <1> HIDE DEF h
  <1>2. h = [h EXCEPT !.cancelled = h.cancelled]
    BY <1>1 DEF CallType
  <1> QED  BY <1>1, <1>2 DEF h

LEMMA TellAnyKeeps ==
    ASSUME IInv, NEW t \in Threads[family], TellAny(t)
    PROVE  IInv'
  <1> DEFINE id == AnyId("after")
             flag == calls[t].cancelled
             new == Advance([Hear(calls[t], id) EXCEPT !.cancelled = flag])
  <1>1. /\ At(t, "anyAfter") /\ calls[t].step = TellAnyAt[family] /\ calls[t] \in CallType
        /\ family # "structure"
        /\ calls[t].type \in Types[family] /\ Reached(calls[t]) = calls[t].step
    BY Underway DEF TellAny, Numbered
  <1>2. id \in Ids /\ calls[t].type # "any" /\ flag \in BOOLEAN
    BY <1>1, IdsOfType DEF Phases, CallType
  <1>3. Set(t, new)
    BY <1>1, <1>2, TellIsPublishing DEF TellAny, Tell
  <1>4. Ordered(family)
    BY InOrder DEF IInv, BusOK
  <1>5. TellTypedAt[family] = TellAnyAt[family] + 1 /\ ReturnAt[family] = TellTypedAt[family] + 1
    BY <1>1, StepOrder DEF IInv, BusOK
  <1> HIDE DEF flag
  <1>6. /\ calls[t].step + 1 > AskAnyAt[family] /\ calls[t].step + 1 > AskTypedAt[family]
        /\ calls[t].step + 1 > TellAnyAt[family] /\ ~(calls[t].step + 1 > TellTypedAt[family])
        /\ calls[t].step > AskAnyAt[family] /\ calls[t].step > AskTypedAt[family]
        /\ ~(calls[t].step > TellAnyAt[family]) /\ ~(calls[t].step > TellTypedAt[family])
    BY <1>1, <1>4, <1>5 DEF Ordered
  <1>7. \A other : Behind(new, other) <=>
             \/ other \in {AnyId("before"), <<"before", calls[t].type>>}
             \/ other = id
    BY <1>1, <1>2, <1>6, BehindAdvanced DEF flag
  <1>8. \A other : Behind(calls[t], other) <=> other \in {AnyId("before"), <<"before", calls[t].type>>}
    BY <1>1, <1>2, <1>6 DEF Behind
  <1>9. /\ \A other \in Ids : other # id => (Behind(new, other) <=> Behind(calls[t], other))
        /\ Behind(new, id)
        /\ ~Behind(calls[t], id)
    BY <1>2, <1>7, <1>8 DEF AnyId
  <1>10. /\ calls[t].step < ReturnAt[family]
         /\ calls[t].step # HandleAt[family] /\ calls[t].step # VetoAt[family]
    BY <1>1, <1>4, <1>5 DEF Ordered
  <1>11. /\ new \in CallType /\ new.step \in 0..ReturnAt[family]
        /\ new.present \subseteq listening /\ CallOK(new)
    <2> HIDE DEF new
    <2> QED  BY <1>1, <1>2, <1>9, <1>10, PublishingStep DEF new, flag
  <1> QED  BY <1>3, <1>11, Settle DEF TellAny, Tell, bus, IInv, BusOK

LEMMA TellTypedKeeps ==
    ASSUME IInv, NEW t \in Threads[family], TellTyped(t)
    PROVE  IInv'
  <1> DEFINE id == TypedId("after", calls[t].type)
             flag == calls[t].cancelled
             new == Advance([Hear(calls[t], id) EXCEPT !.cancelled = flag])
  <1>1. /\ At(t, "typedAfter") /\ calls[t].step = TellTypedAt[family] /\ calls[t] \in CallType
        /\ family # "structure"
        /\ calls[t].type \in Types[family] /\ Reached(calls[t]) = calls[t].step
    BY Underway DEF TellTyped, Numbered
  <1>2. /\ id \in Ids /\ calls[t].type # "any" /\ flag \in BOOLEAN
        /\ calls[t].type \notin Unnamed => id = <<"after", calls[t].type>>
        /\ calls[t].type \in Unnamed => id = AnyId("after")
        /\ calls[t].type \in Unnamed => \A p : <<p, calls[t].type>> \notin Ids
    BY <1>1, IdsOfType DEF Phases, CallType
  <1> HIDE DEF id
  <1>3. Set(t, new)
    BY <1>1, <1>2, TellIsPublishing DEF TellTyped, Tell, id
  <1>4. Ordered(family)
    BY InOrder DEF IInv, BusOK
  <1>5. TellTypedAt[family] = TellAnyAt[family] + 1 /\ ReturnAt[family] = TellTypedAt[family] + 1
    BY <1>1, StepOrder DEF IInv, BusOK
  <1> HIDE DEF flag
  <1>6. /\ calls[t].step + 1 > AskAnyAt[family] /\ calls[t].step + 1 > AskTypedAt[family]
        /\ calls[t].step + 1 > TellAnyAt[family] /\ calls[t].step + 1 > TellTypedAt[family]
        /\ calls[t].step > AskAnyAt[family] /\ calls[t].step > AskTypedAt[family]
        /\ calls[t].step > TellAnyAt[family] /\ ~(calls[t].step > TellTypedAt[family])
    BY <1>1, <1>4, <1>5 DEF Ordered
  <1>7. \A other : Behind(new, other) <=>
             other \in { AnyId("before"), <<"before", calls[t].type>>,
                         AnyId("after"), <<"after", calls[t].type>> }
    BY <1>1, <1>2, <1>6, BehindAdvanced DEF flag
  <1>8. \A other : Behind(calls[t], other) <=>
             other \in {AnyId("before"), <<"before", calls[t].type>>, AnyId("after")}
    BY <1>1, <1>2, <1>6 DEF Behind
  <1>9. /\ \A other \in Ids : other # id => (Behind(new, other) <=> Behind(calls[t], other))
        /\ Behind(new, id)
        /\ calls[t].type \notin Unnamed => ~Behind(calls[t], id)
    BY <1>2, <1>7, <1>8 DEF AnyId
  <1>10. /\ calls[t].step < ReturnAt[family]
         /\ calls[t].step # HandleAt[family] /\ calls[t].step # VetoAt[family]
    BY <1>1, <1>4, <1>5 DEF Ordered
  <1>11. /\ new \in CallType /\ new.step \in 0..ReturnAt[family]
        /\ new.present \subseteq listening /\ CallOK(new)
    <2> HIDE DEF new
    <2> QED  BY <1>1, <1>2, <1>9, <1>10, PublishingStep DEF new, flag
  <1> QED  BY <1>3, <1>11, Settle DEF TellTyped, Tell, bus, IInv, BusOK, id

LEMMA RegisterKeeps ==
    ASSUME IInv, NEW t \in Threads[family], Register(t)
    PROVE  IInv'
  <1>1. /\ At(t, "register") /\ calls[t].step \in Nat
        /\ AskAnyAt[family] < calls[t].step /\ calls[t].step < AskTypedAt[family]
    BY Underway DEF Register, Numbered
  <1>2. Ordered(family)
    BY InOrder DEF IInv, BusOK
  <1>3. /\ Advance(calls[t]) \in CallType /\ Advance(calls[t]).step \in 0..ReturnAt[family]
        /\ Advance(calls[t]).present \subseteq listening /\ CallOK(Advance(calls[t]))
    BY <1>1, <1>2, QuietStep DEF Ordered
  <1>4. /\ Set(t, Advance(calls[t])) /\ UNCHANGED <<family, listening, early>>
        /\ factories' \in [Ids -> 0..1] /\ emitters' \subseteq listening /\ emitters \subseteq emitters'
    BY DEF Register, IInv, BusOK
  <1> QED  BY <1>3, <1>4, Settle

\* A call that ends early.
LEMMA Ending ==
    ASSUME IInv, NEW t \in Threads[family], NEW step, At(t, step),
           NEW outcome \in {"handled", "vetoed", "refused", "threw"},
           \/ Reached(Done(calls[t], outcome)) = calls[t].step
           \/ outcome \in {"refused", "threw"} /\ calls[t].step < AskAnyAt[family],
           outcome = "vetoed" => calls[t].cancelled
    PROVE  /\ Done(calls[t], outcome) \in CallType
           /\ Done(calls[t], outcome).step \in 0..ReturnAt[family]
           /\ Done(calls[t], outcome).present \subseteq listening
           /\ CallOK(Done(calls[t], outcome))
  <1> DEFINE old == calls[t]
             new == Done(calls[t], outcome)
  <1>1. /\ old \in CallType /\ old.outcome = "none" /\ old.type \in Types[family]
        /\ old.present \subseteq listening /\ Followed(old) /\ Reached(old) = old.step
        /\ old.step \in 1..ReturnAt[family]
    BY Underway
  <1>2. Ordered(family)
    BY InOrder DEF IInv, BusOK
  <1>3. /\ new \in CallType /\ new.step = 0 /\ new.outcome = outcome
        /\ new.type = old.type /\ new.present = old.present /\ new.heard = old.heard
        /\ new.cancelled = old.cancelled /\ new.handled = old.handled
    BY <1>1 DEF Done, CallType, Outcomes
  <1>4. \/ Reached(new) = old.step
        \/ old.step < AskAnyAt[family] /\ Reached(new) = 1
    BY <1>3 DEF Reached
  <1> HIDE DEF old, new
  <1>5. \A n \in {AskAnyAt[family], AskTypedAt[family], TellAnyAt[family], TellTypedAt[family]} :
             Reached(new) > n <=> old.step > n
    BY <1>1, <1>2, <1>4 DEF old, Ordered
  <1>6. \A id : Behind(new, id) <=> Behind(old, id)
    BY <1>1, <1>3, <1>5 DEF Behind
  <1>7. /\ Reached(new) > VetoAt[family] <=> Reached(old) > VetoAt[family]
        /\ Reached(new) > HandleAt[family] <=> Reached(old) > HandleAt[family]
    BY <1>1, <1>2, <1>4 DEF Ordered
  <1>8. outcome = "vetoed" => old.cancelled
    BY DEF old
  <1>9. Followed(new)
    BY <1>1, <1>3, <1>6, <1>7, <1>8 DEF Followed, HeardSoFar
  <1>10. CallOK(new)
    BY <1>1, <1>3, <1>9 DEF CallOK
  <1> QED  BY <1>1, <1>2, <1>3, <1>10 DEF old, new, Ordered

LEMMA VetoKeeps ==
    ASSUME IInv, NEW t \in Threads[family], Veto(t)
    PROVE  IInv'
  <1>1. /\ At(t, "veto") /\ calls[t] \in CallType /\ calls[t].step = VetoAt[family]
        /\ UNCHANGED bus
    BY Underway DEF Veto, Numbered
  <1>2. Ordered(family)
    BY InOrder DEF IInv, BusOK
  <1>3. CASE calls[t].cancelled
    <2>1. Reached(Done(calls[t], "vetoed")) = calls[t].step
      BY <1>1 DEF Reached, Done, CallType
    <2>2. /\ Done(calls[t], "vetoed") \in CallType
          /\ Done(calls[t], "vetoed").step \in 0..ReturnAt[family]
          /\ Done(calls[t], "vetoed").present \subseteq listening
          /\ CallOK(Done(calls[t], "vetoed"))
      BY <1>1, <1>3, <2>1, Ending
    <2>3. Set(t, Done(calls[t], "vetoed"))
      BY <1>3 DEF Veto
    <2> QED  BY <1>1, <2>2, <2>3, Settle DEF bus, IInv, BusOK
  <1>4. CASE ~calls[t].cancelled
    <2>1. /\ Advance(calls[t]) \in CallType /\ Advance(calls[t]).step \in 0..ReturnAt[family]
          /\ Advance(calls[t]).present \subseteq listening /\ CallOK(Advance(calls[t]))
      BY <1>1, <1>2, <1>4, QuietStep DEF Ordered
    <2>2. Set(t, Advance(calls[t]))
      BY <1>4 DEF Veto
    <2> QED  BY <1>1, <2>1, <2>2, Settle DEF bus, IInv, BusOK
  <1> QED  BY <1>3, <1>4

LEMMA HandleKeeps ==
    ASSUME IInv, NEW t \in Threads[family], Handle(t)
    PROVE  IInv'
  <1> DEFINE old == calls[t]
             new == Advance([old EXCEPT !.handled = @ + 1])
  <1>1. /\ At(t, "handle") /\ old \in CallType /\ old.step = HandleAt[family]
        /\ old.outcome = "none" /\ old.type \in Types[family] /\ old.present \subseteq listening
        /\ Followed(old) /\ Reached(old) = old.step
        /\ Set(t, new) /\ UNCHANGED bus
    BY Underway DEF Handle, Numbered
  <1>2. Ordered(family)
    BY InOrder DEF IInv, BusOK
  <1>3. old.handled + 1 \in Nat /\ old.step + 1 \in Nat
    BY <1>1 DEF CallType
  <1>4. new = [old EXCEPT !.handled = old.handled + 1, !.step = old.step + 1]
    BY <1>1 DEF Advance, CallType
  <1>5. /\ new \in CallType /\ new.step = old.step + 1 /\ new.outcome = "none"
        /\ new.type = old.type /\ new.present = old.present /\ new.heard = old.heard
        /\ new.cancelled = old.cancelled /\ new.handled = old.handled + 1
    BY <1>1, <1>3, <1>4 DEF CallType
  <1>6. Reached(new) = old.step + 1
    BY <1>1, <1>2, <1>5 DEF Reached, Ordered
  <1> HIDE DEF old, new
  <1>7. \A id : Behind(new, id) <=> Behind(old, id)
    BY <1>1, <1>2, <1>5, <1>6 DEF Behind, Ordered
  <1>8. old.handled = 0 /\ ~old.cancelled
    BY <1>1, <1>2 DEF Followed, Ordered
  <1>9. Followed(new)
    BY <1>1, <1>2, <1>5, <1>6, <1>7, <1>8 DEF Followed, HeardSoFar, Ordered
  <1>10. CallOK(new)
    BY <1>1, <1>5, <1>9 DEF CallOK
  <1>11. new.step \in 0..ReturnAt[family] /\ new.present \subseteq listening
    BY <1>1, <1>2, <1>5 DEF Ordered
  <1> QED  BY <1>1, <1>5, <1>10, <1>11, Settle DEF bus, IInv, BusOK

LEMMA ReturnKeeps ==
    ASSUME IInv, NEW t \in Threads[family], Return(t)
    PROVE  IInv'
  <1>1. /\ At(t, "return") /\ calls[t] \in CallType /\ calls[t].step = ReturnAt[family]
        /\ Set(t, Done(calls[t], "handled")) /\ UNCHANGED bus
    BY Underway DEF Return, Numbered
  <1>2. Reached(Done(calls[t], "handled")) = calls[t].step
    BY <1>1 DEF Reached, Done, CallType
  <1>3. /\ Done(calls[t], "handled") \in CallType
        /\ Done(calls[t], "handled").step \in 0..ReturnAt[family]
        /\ Done(calls[t], "handled").present \subseteq listening
        /\ CallOK(Done(calls[t], "handled"))
    BY <1>1, <1>2, Ending
  <1> QED  BY <1>1, <1>3, Settle DEF bus, IInv, BusOK

\* Before anybody is asked a call goes on, is refused, or is left to the engine.
LEMMA EarlySteps ==
    ASSUME IInv, NEW t \in Threads[family], NEW step, At(t, step),
           calls[t].step < AskAnyAt[family], UNCHANGED bus,
           NEW call, Set(t, call),
           \/ call \in {Advance(calls[t]), PassOn(calls[t])}
           \/ \E outcome \in {"refused", "threw"} : call = Done(calls[t], outcome)
    PROVE  IInv'
  <1> DEFINE old == calls[t]
  <1>1. /\ old \in CallType /\ old.step \in 1..ReturnAt[family] /\ old.present \subseteq listening
        /\ Followed(old) /\ Reached(old) = old.step /\ old.type \in Types[family]
    BY Underway
  <1>2. Ordered(family)
    BY InOrder DEF IInv, BusOK
  <1>3. /\ call \in CallType /\ call.step \in 0..ReturnAt[family]
        /\ call.present \subseteq listening /\ CallOK(call)
    <2>1. CASE call = Advance(calls[t])
      <3>1. /\ old.step \in 1..ReturnAt[family] - 1 /\ old.step # AskAnyAt[family]
            /\ old.step # AskTypedAt[family] /\ old.step # VetoAt[family]
            /\ old.step # HandleAt[family] /\ old.step # TellAnyAt[family]
            /\ old.step # TellTypedAt[family]
        BY <1>1, <1>2 DEF Ordered
      <3> QED  BY <2>1, <3>1, QuietStep
    <2>2. CASE call = PassOn(calls[t])
      <3>1. /\ call.step = 0 /\ call.outcome = "passedOn" /\ call.type = old.type
            /\ call.present = old.present /\ call.heard = old.heard
            /\ call.cancelled = old.cancelled /\ call.handled = old.handled + 1
        BY <1>1, <2>2 DEF PassOn, Done, CallType
      <3>2. call \in CallType
        <4>1. [old EXCEPT !.handled = @ + 1] \in CallType
          BY <1>1 DEF CallType
        <4> QED  BY <2>2, <4>1 DEF PassOn, Done, CallType, Outcomes
      <3>3. Reached(call) = 1
        BY <3>1 DEF Reached
      <3>4. \A n \in { AskAnyAt[family], AskTypedAt[family], VetoAt[family], HandleAt[family],
                       TellAnyAt[family], TellTypedAt[family] } : ~(1 > n) /\ ~(old.step > n)
        BY <1>1, <1>2 DEF Ordered
      <3>5. \A id : ~Behind(call, id) /\ ~Behind(old, id)
        BY <1>1, <3>3, <3>4 DEF Behind
      <3>6. old.handled = 0
        BY <1>1, <3>4, Underway DEF Followed
      <3> HIDE DEF old
      <3>7. Followed(call)
        BY <1>1, <3>1, <3>3, <3>4, <3>5, <3>6 DEF Followed, HeardSoFar
      <3>8. CallOK(call)
        BY <1>1, <3>1, <3>7 DEF CallOK
      <3>9. call.step \in 0..ReturnAt[family]
        BY <1>2, <3>1 DEF Ordered
      <3> QED  BY <1>1, <3>1, <3>2, <3>8, <3>9
    <2>3. ASSUME NEW outcome \in {"refused", "threw"}, call = Done(calls[t], outcome)
          PROVE  /\ call \in CallType /\ call.step \in 0..ReturnAt[family]
                 /\ call.present \subseteq listening /\ CallOK(call)
      BY <2>3, Ending
    <2> QED  BY <2>1, <2>2, <2>3
  <1> QED  BY <1>3, Settle DEF bus, IInv, BusOK

LEMMA ReceiveKeeps ==
    ASSUME IInv, NEW t \in Threads[family], Receive(t)
    PROVE  IInv'
  <1>1. CASE AskEngine(t)
    <2>1. At(t, "engine") /\ calls[t].step < AskAnyAt[family] /\ UNCHANGED bus
      BY <1>1, Underway DEF AskEngine, Numbered
    <2>2. PICK call : /\ Set(t, call)
                      /\ call \in {Advance(calls[t]), Done(calls[t], "refused"), PassOn(calls[t])}
      BY <1>1 DEF AskEngine
    <2> QED  BY <2>1, <2>2, EarlySteps
  <1>2. CASE ReadHeader(t)
    <2>1. At(t, "header") /\ calls[t].step < AskAnyAt[family] /\ UNCHANGED bus
      BY <1>2, Underway DEF ReadHeader, Numbered
    <2>2. PICK call : Set(t, call) /\ call \in {Advance(calls[t]), Done(calls[t], "threw")}
      BY <1>2 DEF ReadHeader
    <2> QED  BY <2>1, <2>2, EarlySteps
  <1>3. CASE MakePacket(t)
    <2>1. At(t, "packet") /\ calls[t].step < AskAnyAt[family] /\ UNCHANGED bus
      BY <1>3, Underway DEF MakePacket, Numbered
    <2>2. PICK call : Set(t, call) /\ call \in {Advance(calls[t]), Done(calls[t], "refused")}
      BY <1>3 DEF MakePacket
    <2> QED  BY <2>1, <2>2, EarlySteps
  <1>4. CASE FindConnection(t)
    <2>1. At(t, "connection") /\ calls[t].step < AskAnyAt[family] /\ UNCHANGED bus
      BY <1>4, Underway DEF FindConnection, Numbered
    <2>2. PICK call : Set(t, call) /\ call \in {Advance(calls[t]), PassOn(calls[t])}
      BY <1>4 DEF FindConnection
    <2> QED  BY <2>1, <2>2, EarlySteps
  <1>5. CASE ReadPacket(t)
    <2>1. At(t, "read") /\ calls[t].step < AskAnyAt[family] /\ UNCHANGED bus
      BY <1>5, Underway DEF ReadPacket, Numbered
    <2>2. PICK call : Set(t, call) /\ call \in {Advance(calls[t]), Done(calls[t], "refused")}
      BY <1>5 DEF ReadPacket
    <2> QED  BY <2>1, <2>2, EarlySteps
  <1> QED  BY <1>1, <1>2, <1>3, <1>4, <1>5 DEF Receive

-----------------------------------------------------------------------------
(* A call begins, and the bus changes.                                     *)

LEMMA CallKeeps ==
    ASSUME IInv, NEW t \in Threads[family], Call(t)
    PROVE  IInv'
  <1>1. PICK type \in Types[family] :
          LET call == [Idle EXCEPT !.type = type, !.present = listening] IN
          Set(t, IF emitters = {} THEN Done(call, "unhooked") ELSE Advance(call))
    BY DEF Call
  <1> DEFINE call == [Idle EXCEPT !.type = type, !.present = listening]
             new == IF emitters = {} THEN Done(call, "unhooked") ELSE Advance(call)
  <1>2. /\ Set(t, new) /\ UNCHANGED bus
    BY <1>1 DEF Call
  <1>3. Ordered(family) /\ listening \subseteq Ids /\ listening \ early \subseteq emitters
    BY InOrder DEF IInv, BusOK
  <1> DEFINE silence == [id \in Ids |-> 0]
  <1>4. silence \in [Ids -> Nat]
    OBVIOUS
  <1>5. Idle = [ step |-> 0, type |-> "none", cancelled |-> FALSE, handled |-> 0,
                 outcome |-> "none", present |-> {}, heard |-> silence ]
    BY DEF Idle
  <1> HIDE DEF silence
  <1> DEFINE base == [ step |-> 0, type |-> "none", cancelled |-> FALSE, handled |-> 0,
                       outcome |-> "none", present |-> {}, heard |-> silence ]
  <1>6. call = [base EXCEPT !.type = type, !.present = listening]
    BY <1>5
  <1> HIDE DEF call
  <1>7. call = [ step |-> 0, type |-> type, cancelled |-> FALSE, handled |-> 0,
                  outcome |-> "none", present |-> listening, heard |-> silence ]
    BY <1>6
  <1>8. call \in CallType
    BY <1>3, <1>4, <1>7 DEF CallType, Outcomes
  <1>9. /\ new.step = IF emitters = {} THEN 0 ELSE 1
        /\ new.outcome = IF emitters = {} THEN "unhooked" ELSE "none"
        /\ new.type = type /\ new.present = listening /\ new.heard = silence
        /\ new.handled = 0 /\ ~new.cancelled /\ new \in CallType
    <2>1. /\ call.step = 0 /\ call.outcome = "none" /\ call.type = type /\ ~call.cancelled
          /\ call.present = listening /\ call.heard = silence /\ call.handled = 0
      BY <1>7
    <2>2. CASE emitters = {}
      <3>1. new = Done(call, "unhooked")
        BY <2>2
      <3> HIDE DEF new
      <3> QED  BY <1>8, <2>1, <2>2, <3>1 DEF Done, CallType, Outcomes
    <2>3. CASE emitters # {}
      <3>1. new = Advance(call)
        BY <2>3
      <3> HIDE DEF new
      <3> QED  BY <1>8, <2>1, <2>3, <3>1 DEF Advance, CallType
    <2> QED  BY <2>2, <2>3
  <1> HIDE DEF new
  <1>10. Reached(new) = 1
    BY <1>9 DEF Reached
  <1>11. \A n \in { AskAnyAt[family], AskTypedAt[family], VetoAt[family], HandleAt[family],
                    TellAnyAt[family], TellTypedAt[family] } : ~(1 > n)
    BY <1>3 DEF Ordered
  <1>12. \A id : ~Behind(new, id)
    BY <1>10, <1>11 DEF Behind
  <1>13. \A id \in new.present \ early : HeardSoFar(new, id)
    BY <1>3, <1>9, <1>12 DEF HeardSoFar, silence
  <1>14. Followed(new)
    BY <1>9, <1>10, <1>11, <1>13 DEF Followed
  <1>15. CallOK(new)
    BY <1>3, <1>9, <1>14 DEF CallOK
  <1>16. new.step \in 0..ReturnAt[family]
    BY <1>3, <1>9 DEF Ordered
  <1> QED  BY <1>2, <1>9, <1>15, <1>16, Settle DEF bus, IInv, BusOK

LEMMA AddListenerKeeps ==
    ASSUME IInv, NEW id \in Ids, AddListener(id)
    PROVE  IInv'
  <1>1. Ids' = Ids /\ CallType' = CallType
    BY DEF Ids, CallType, AddListener
  <1>2. /\ listening' = listening \union {id} /\ early \subseteq early'
        /\ \A i \in listening : i \in early' => i \in early
        /\ UNCHANGED <<family, factories, calls>>
    BY DEF AddListener, IInv, BusOK
  <1>3. BusOK'
    BY <1>1 DEF IInv, BusOK, AddListener
  <1>4. ASSUME NEW t \in Threads[family]
        PROVE  CallOK(calls[t])'
    <2>1. calls[t].present \subseteq listening /\ CallOK(calls[t])
      BY DEF IInv
    <2>2. Followed(calls[t]) => Followed(calls[t])'
      BY <1>2, <2>1 DEF Followed, HeardSoFar, Behind, Reached
    <2> QED  BY <1>2, <2>1, <2>2 DEF CallOK
  <1> QED  BY <1>1, <1>2, <1>3, <1>4 DEF IInv

LEMMA RemoveListenerKeeps ==
    ASSUME IInv, NEW id \in Ids, RemoveListener(id)
    PROVE  IInv'
  <1>1. Ids' = Ids /\ CallType' = CallType
    BY DEF Ids, CallType, RemoveListener
  <1>2. /\ listening' = listening \ {id} /\ early' = early \ {id}
        /\ UNCHANGED <<family, factories>>
        /\ calls' = [t \in Threads[family] |-> [calls[t] EXCEPT !.present = @ \ {id}]]
    BY DEF RemoveListener, IInv
  <1>3. BusOK'
    BY <1>1 DEF IInv, BusOK, RemoveListener
  <1>4. ASSUME NEW t \in Threads[family]
        PROVE  /\ calls'[t] \in CallType /\ calls'[t].step \in 0..ReturnAt[family]
               /\ calls'[t].present \subseteq listening'
               /\ CallOK(calls[t])'
    <2> DEFINE old == calls[t]
               new == calls'[t]
    <2>1. old \in CallType /\ old.step \in 0..ReturnAt[family]
          /\ old.present \subseteq listening /\ CallOK(old)
      BY DEF IInv
    <2>2. new = [old EXCEPT !.present = @ \ {id}]
      BY <1>2
    <2> HIDE DEF old, new
    <2>3. /\ new \in CallType /\ new.step = old.step /\ new.outcome = old.outcome
          /\ new.type = old.type /\ new.present = old.present \ {id} /\ new.heard = old.heard
          /\ new.cancelled = old.cancelled /\ new.handled = old.handled
      BY <2>1, <2>2 DEF CallType
    <2>4. Reached(new) = Reached(old) /\ \A i : Behind(new, i) <=> Behind(old, i)
      BY <2>3 DEF Reached, Behind
    <2>5. \A i : HeardSoFar(new, i) <=> HeardSoFar(old, i)
      BY <2>3, <2>4 DEF HeardSoFar
    <2>6. Followed(calls[t])' <=>
            /\ \A i \in new.present \ early' : HeardSoFar(new, i)
            /\ Reached(new) > VetoAt[family] => ~new.cancelled
            /\ new.outcome = "vetoed" => new.cancelled
            /\ new.outcome # "passedOn" =>
                 new.handled = IF Reached(new) > HandleAt[family] THEN 1 ELSE 0
            /\ new.outcome = "passedOn" => new.handled = 1
      BY <1>2 DEF Followed, HeardSoFar, Behind, Reached, new
    <2>7. Followed(old) => Followed(calls[t])'
      BY <1>2, <2>3, <2>4, <2>5, <2>6 DEF Followed
    <2>8. CallOK(calls[t])' <=>
            /\ new.step > 0 => new.outcome = "none"
            /\ new.step > 0 \/ new.outcome # "none" => new.type \in Types[family] /\ Followed(calls[t])'
            /\ new.outcome = "unhooked" => new.present \subseteq early'
      BY <1>2 DEF CallOK, new
    <2>9. CallOK(calls[t])'
      BY <1>2, <2>1, <2>3, <2>7, <2>8 DEF CallOK
    <2> QED  BY <1>2, <2>1, <2>3, <2>9 DEF new
  <1> QED  BY <1>1, <1>2, <1>3, <1>4 DEF IInv

-----------------------------------------------------------------------------
(* The theorems.                                                           *)

LEMMA InitIInv == Init => IInv
  <1> SUFFICES ASSUME Init PROVE IInv
    OBVIOUS
  <1> DEFINE silence == [id \in Ids |-> 0]
  <1>1. BusOK
    BY DEF Init, BusOK
  <1>2. Idle = [ step |-> 0, type |-> "none", cancelled |-> FALSE, handled |-> 0,
                 outcome |-> "none", present |-> {}, heard |-> silence ]
    BY DEF Idle
  <1>3. silence \in [Ids -> Nat]
    OBVIOUS
  <1> HIDE DEF silence
  <1>4. Idle \in CallType
    BY <1>2, <1>3 DEF CallType, Outcomes
  <1>5. CallOK(Idle) /\ Idle.present \subseteq listening
    BY <1>2 DEF CallOK
  <1>6. Idle.step \in 0..ReturnAt[family]
    BY <1>1, <1>2, InOrder DEF BusOK, Ordered
  <1>7. \A t \in Threads[family] : calls[t] = Idle
    BY DEF Init
  <1>8. calls \in [Threads[family] -> CallType]
    BY <1>4 DEF Init
  <1> QED  BY <1>1, <1>5, <1>6, <1>7, <1>8 DEF IInv

LEMMA NextKeeps == IInv /\ [Next]_vars => IInv'
  <1> SUFFICES ASSUME IInv, [Next]_vars
               PROVE  IInv'
    OBVIOUS
  <1>1. ASSUME NEW id \in Ids, AddListener(id) \/ RemoveListener(id)
        PROVE  IInv'
    BY <1>1, AddListenerKeeps, RemoveListenerKeeps
  <1>2. ASSUME NEW t \in Threads[family], Call(t)
        PROVE  IInv'
    BY <1>2, CallKeeps
  <1>3. ASSUME NEW t \in Threads[family], AskAny(t) \/ AskTyped(t)
        PROVE  IInv'
    BY <1>3, AskAnyKeeps, AskTypedKeeps
  <1>4. ASSUME NEW t \in Threads[family], Register(t) \/ Veto(t)
        PROVE  IInv'
    BY <1>4, RegisterKeeps, VetoKeeps
  <1>5. ASSUME NEW t \in Threads[family], Handle(t) \/ Return(t)
        PROVE  IInv'
    BY <1>5, HandleKeeps, ReturnKeeps
  <1>6. ASSUME NEW t \in Threads[family], TellAny(t) \/ TellTyped(t)
        PROVE  IInv'
    BY <1>6, TellAnyKeeps, TellTypedKeeps
  <1>7. ASSUME NEW t \in Threads[family], Receive(t)
        PROVE  IInv'
    BY <1>7, ReceiveKeeps
  <1>8. CASE UNCHANGED vars
    <2>1. UNCHANGED <<family, factories, listening, early, emitters, calls>>
      BY <1>8 DEF vars
    <2>2. Ids' = Ids /\ CallType' = CallType
      BY <2>1 DEF Ids, CallType
    <2>3. BusOK'
      BY <2>1, <2>2 DEF IInv, BusOK
    <2>4. \A t \in Threads[family] : CallOK(calls[t])'
      BY <2>1 DEF IInv, CallOK, Followed, HeardSoFar, Behind, Reached
    <2> QED  BY <2>1, <2>2, <2>3, <2>4 DEF IInv
  <1> QED  BY <1>1, <1>2, <1>3, <1>4, <1>5, <1>6, <1>7, <1>8 DEF Next

LEMMA Inductive == Spec => []IInv
  BY InitIInv, NextKeeps, PTL DEF Spec

\* Whatever the threads, the types and the listeners that come and go: the
\* factory of an id is set once, an emitter serves a listener, and a listener
\* that found a factory has an emitter.
THEOREM TypeCorrect == Spec => []TypeOK
  <1>1. IInv => TypeOK
    <2> SUFFICES ASSUME IInv
                 PROVE  TypeOK
      OBVIOUS
    <2>1. BusOK /\ Len(Flow[family]) = ReturnAt[family]
      BY InOrder DEF IInv, BusOK
    <2>2. ASSUME NEW t \in Threads[family]
          PROVE  /\ calls[t].step \in 0..Len(Flow[family])
                 /\ calls[t].type \in Types[family] \union {"none"}
                 /\ calls[t].present \subseteq listening
                 /\ calls[t].handled \in Nat
                 /\ calls[t].cancelled \in BOOLEAN
                 /\ calls[t].outcome \in Outcomes
                 /\ calls[t].heard \in [Ids -> Nat]
      <3>1. calls[t] \in CallType /\ calls[t].step \in 0..ReturnAt[family]
            /\ calls[t].present \subseteq listening
        BY DEF IInv
      <3> QED  BY <2>1, <3>1 DEF CallType
    <2> QED  BY <2>1, <2>2 DEF BusOK, TypeOK
  <1> QED  BY <1>1, Inductive, PTL

\* A listener that is there for the whole of a call and has an emitter hears of
\* it once before it is handled and once after, if the call is about its type,
\* and not at all otherwise, whoever else listens, comes or goes meanwhile.
THEOREM HearsOnce == Spec => []HeardOnce
  <1>1. IInv => HeardOnce
    <2> SUFFICES ASSUME IInv, NEW t \in Threads[family], Ended(t),
                        NEW id \in calls[t].present \ early
                 PROVE  LET call == calls[t]
                            heard == call.heard[id] IN
                        /\ ~Concerns(call, id) => heard = 0
                        /\ call.type \notin Unnamed => heard <= 1
                        /\ Concerns(call, id) => call.outcome # "unhooked"
                        /\ Concerns(call, id) /\ call.outcome = "handled" => heard >= 1
                        /\ Concerns(call, id) /\ call.outcome = "vetoed" =>
                             (heard >= 1 <=> id[1] = "before")
      BY DEF HeardOnce
    <2> DEFINE call == calls[t]
               heard == call.heard[id]
    <2>1. /\ call \in CallType /\ call.step = 0 /\ call.outcome # "none"
          /\ call.type \in Types[family] /\ Followed(call) /\ call.present \subseteq Ids
          /\ call.outcome = "unhooked" => call.present \subseteq early
      BY DEF IInv, BusOK, CallOK, Ended
    <2>2. id \in Ids /\ heard \in Nat /\ HeardSoFar(call, id)
      BY <2>1 DEF CallType, Followed
    <2>3. Ordered(family)
      BY InOrder DEF IInv, BusOK
    <2>4. /\ call.outcome = "handled" => Reached(call) = ReturnAt[family]
          /\ call.outcome = "vetoed" => Reached(call) = VetoAt[family]
          /\ call.outcome \notin {"handled", "vetoed"} => Reached(call) = 1
      BY <2>1 DEF Reached
    <2>5. Behind(call, id) => Concerns(call, id)
      BY DEF Behind, Concerns, AnyId
    <2>6. PICK p \in Phases :
            (\E x : id = <<p, x>>) /\ (family = "structure" => p = "before")
      <3>1. PICK p \in IF family = "structure" THEN {"before"} ELSE Phases :
              id = AnyId(p) \/ \E type \in Types[family] : id = TypedId(p, type)
        BY <2>2 DEF Ids
      <3>2. p \in Phases /\ (family = "structure" => p = "before")
        BY DEF Phases
      <3>3. \E x : id = <<p, x>>
        BY <3>1 DEF AnyId, TypedId
      <3> QED  BY <3>2, <3>3
    <2>7. PICK x : id = <<p, x>> /\ (Concerns(call, id) => x \in {"any", call.type})
      BY <2>6 DEF Concerns
    <2>8. call.outcome = "handled" /\ Concerns(call, id) => Behind(call, id)
      <3> SUFFICES ASSUME call.outcome = "handled", Concerns(call, id)
                   PROVE  Behind(call, id)
        OBVIOUS
      <3>1. Reached(call) > AskAnyAt[family] /\ Reached(call) > AskTypedAt[family]
        BY <2>3, <2>4 DEF Ordered
      <3>2. family # "structure" =>
              Reached(call) > TellAnyAt[family] /\ Reached(call) > TellTypedAt[family]
        BY <2>3, <2>4, StepOrder DEF Ordered, IInv, BusOK
      <3> QED  BY <2>6, <2>7, <3>1, <3>2 DEF Behind, AnyId, Phases
    <2>9. call.outcome = "vetoed" /\ Concerns(call, id) => (Behind(call, id) <=> id[1] = "before")
      <3> SUFFICES ASSUME call.outcome = "vetoed", Concerns(call, id)
                   PROVE  Behind(call, id) <=> p = "before"
        BY <2>6
      <3>1. /\ Reached(call) > AskAnyAt[family] /\ Reached(call) > AskTypedAt[family]
            /\ ~(Reached(call) > TellAnyAt[family]) /\ ~(Reached(call) > TellTypedAt[family])
        BY <2>3, <2>4 DEF Ordered
      <3> QED  BY <2>6, <2>7, <3>1 DEF Behind, AnyId, Phases
    <2> HIDE DEF heard
    <2>10. /\ call.type \notin Unnamed => heard = IF Behind(call, id) THEN 1 ELSE 0
           /\ call.type \in Unnamed => (heard > 0 <=> Behind(call, id))
      BY <2>2 DEF HeardSoFar, heard
    <2> QED  BY <2>1, <2>2, <2>5, <2>8, <2>9, <2>10 DEF heard
  <1> QED  BY <1>1, Inductive, PTL

\* However many hooks run at once and whoever vetoes on the second publication:
\* a call is handled once, or not at all if the last one asked has vetoed it.
THEOREM HandlesOnce == Spec => []HandledOnce
  <1>1. IInv => HandledOnce
    <2> SUFFICES ASSUME IInv, NEW t \in Threads[family], Ended(t)
                 PROVE  /\ calls[t].outcome \in {"handled", "passedOn"} => calls[t].handled = 1
                        /\ calls[t].outcome \in {"vetoed", "refused", "threw"} => calls[t].handled = 0
                        /\ calls[t].outcome = "handled" => ~calls[t].cancelled
                        /\ calls[t].outcome = "vetoed" => calls[t].cancelled
      BY DEF HandledOnce
    <2>1. /\ calls[t].step = 0 /\ calls[t].outcome # "none" /\ Followed(calls[t])
      BY DEF IInv, CallOK, Ended
    <2>2. Ordered(family)
      BY InOrder DEF IInv, BusOK
    <2>3. /\ calls[t].outcome = "handled" => Reached(calls[t]) = ReturnAt[family]
          /\ calls[t].outcome = "vetoed" => Reached(calls[t]) = VetoAt[family]
          /\ calls[t].outcome \notin {"handled", "vetoed"} => Reached(calls[t]) = 1
      BY <2>1 DEF Reached
    <2>4. /\ ReturnAt[family] > VetoAt[family] /\ ReturnAt[family] > HandleAt[family]
          /\ ~(VetoAt[family] > HandleAt[family]) /\ ~(1 > HandleAt[family])
      BY <2>2 DEF Ordered
    <2> QED  BY <2>1, <2>3, <2>4 DEF Followed
  <1> QED  BY <1>1, Inductive, PTL

=============================================================================
