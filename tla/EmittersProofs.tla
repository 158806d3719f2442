--------------------------- MODULE EmittersProofs ---------------------------
(***************************************************************************)
(* Proofs about Emitters.tla for any events, hooks and listeners: the      *)
(* counts are exact, an event with an emitter is heard, and the counters   *)
(* implement the promise of Interception.tla.                              *)
(*                                                                         *)
(* The inductive invariant adds to type correctness where the walk of      *)
(* every emitter over its hooks stands (Walks), and that an emitter exists *)
(* or is being built exactly while its event has listeners (Kept).         *)
(***************************************************************************)
EXTENDS Emitters, FiniteSetTheorems, TLAPS

Walk(e) ==
    /\ registered[e] \subseteq HooksOf[e]
    /\ temporary[e] \subseteq HooksOf[e]
    /\ emitter[e] = "none" => registered[e] = {} /\ temporary[e] = {}
    /\ emitter[e] \in {"live", "built"} => registered[e] = HooksOf[e] /\ temporary[e] = {}
    /\ emitter[e] = "ctorTemporary" => registered[e] = {} /\ temporary[e] # HooksOf[e]
    /\ emitter[e] = "ctorEnd" => registered[e] = HooksOf[e] /\ temporary[e] # {}
    /\ emitter[e] = "dtorTemporary" => registered[e] = HooksOf[e] /\ temporary[e] # HooksOf[e]
    /\ emitter[e] = "dtorEnd" => registered[e] = {} /\ temporary[e] # {}
    /\ emitter[e] = "ctorHook" => registered[e] # HooksOf[e]
    /\ emitter[e] = "dtorUnhook" => registered[e] # {}
    /\ emitter[e] \in {"ctorHook", "dtorUnhook"} =>
           temporary[e] = IF e \in MemberEvents THEN {} ELSE HooksOf[e]
    /\ emitter[e] \in {"ctorTemporary", "ctorEnd", "dtorTemporary", "dtorEnd"} =>
           e \notin MemberEvents

Walks == \A e \in Events : Walk(e)

Kept == \A e \in Events : listeners[e] = {} <=> emitter[e] \in {"none"} \union DtorStages

IInv == TypeOK /\ Walks /\ Kept /\ CountExact

-----------------------------------------------------------------------------
(* Counting holders.                                                       *)

\* The events are finitely many, so a hook has a number of holders.
LEMMA HoldersFinite ==
    ASSUME NEW held, NEW h
    PROVE  IsFiniteSet(Holders(held, h)) /\ Cardinality(Holders(held, h)) \in Nat
  <1>1. IsFiniteSet(Holders(held, h))
    BY EmittersAssumption, FS_Subset DEF Holders
  <1> QED  BY <1>1, FS_CardinalityType

\* One emitter taking one more hook adds one holder to that hook only.
LEMMA OneMore ==
    ASSUME NEW held \in [Events -> SUBSET Hooks],
           NEW e \in Events, NEW h \in Hooks, h \notin held[e],
           NEW k \in Hooks
    PROVE  Cardinality(Holders([held EXCEPT ![e] = @ \union {h}], k))
             = Cardinality(Holders(held, k)) + (IF k = h THEN 1 ELSE 0)
  <1> DEFINE more == [held EXCEPT ![e] = @ \union {h}]
  <1>1. CASE k = h
    <2>1. Holders(more, k) = Holders(held, k) \union {e}  BY <1>1 DEF Holders
    <2>2. e \notin Holders(held, k)  BY <1>1 DEF Holders
    <2> QED  BY <1>1, <2>1, <2>2, HoldersFinite, FS_AddElement
  <1>2. CASE k # h
    <2>1. Holders(more, k) = Holders(held, k)  BY <1>2 DEF Holders
    <2> QED  BY <1>2, <2>1, HoldersFinite
  <1> QED  BY <1>1, <1>2

\* One emitter letting go of one hook takes one holder from that hook only.
LEMMA OneLess ==
    ASSUME NEW held \in [Events -> SUBSET Hooks],
           NEW e \in Events, NEW h \in Hooks, h \in held[e],
           NEW k \in Hooks
    PROVE  Cardinality(Holders([held EXCEPT ![e] = @ \ {h}], k))
             = Cardinality(Holders(held, k)) - (IF k = h THEN 1 ELSE 0)
  <1> DEFINE less == [held EXCEPT ![e] = @ \ {h}]
  <1>1. CASE k = h
    <2>1. Holders(less, k) = Holders(held, k) \ {e}  BY <1>1 DEF Holders
    <2>2. e \in Holders(held, k)  BY <1>1 DEF Holders
    <2>3. Cardinality(Holders(held, k) \ {e}) = Cardinality(Holders(held, k)) - 1
      <3>1. IsFiniteSet(Holders(held, k))  BY HoldersFinite
      <3> QED  BY <3>1, <2>2, FS_RemoveElement
    <2> QED  BY <1>1, <2>1, <2>3
  <1>2. CASE k # h
    <2>1. Holders(less, k) = Holders(held, k)  BY <1>2 DEF Holders
    <2> QED  BY <1>2, <2>1, HoldersFinite
  <1> QED  BY <1>1, <1>2

\* Nobody holds nothing.
LEMMA NoHolders ==
    ASSUME NEW h
    PROVE  Cardinality(Holders([e \in Events |-> {}], h)) = 0
  <1>1. Holders([e \in Events |-> {}], h) = {}  BY DEF Holders
  <1> QED  BY <1>1, FS_EmptySet

-----------------------------------------------------------------------------
(* The counters.                                                           *)

\* What one registrar step does to the counts, seen from the sum of holders.
Held(h) == Cardinality(Holders(registered, h)) + Cardinality(Holders(temporary, h))

\* The number of registrars that hold a hook is a number.
LEMMA HeldType ==
    ASSUME NEW h
    PROVE  Held(h) \in Nat
  BY HoldersFinite DEF Held

\* A counted hook() keeps the counts exact.
LEMMA HookExact ==
    ASSUME TypeOK, CountExact, NEW h \in Hooks, Hook(h),
           \A k \in Hooks : Held(k)' = Held(k) + (IF k = h THEN 1 ELSE 0)
    PROVE  /\ CountExact'
           /\ hookCount' \in [Hooks -> Nat] /\ hooked' \in [Hooks -> BOOLEAN]
           /\ hooked' = [hooked EXCEPT ![h] = TRUE]
  <1>1. hookCount' = [hookCount EXCEPT ![h] = @ + 1]
        /\ hooked' = [hooked EXCEPT ![h] = @ \/ hookCount[h] = 0]
    BY DEF Hook
  <1>2. \A k \in Hooks : hookCount[k] = Held(k) /\ (hooked[k] <=> hookCount[k] > 0)
    BY DEF CountExact, Held
  <1>3. hookCount \in [Hooks -> Nat] /\ hooked \in [Hooks -> BOOLEAN]
    BY DEF TypeOK
  <1>4. hooked' = [hooked EXCEPT ![h] = TRUE]
    <2>1. hookCount[h] = 0 \/ hookCount[h] > 0
      BY <1>3
    <2>2. (hooked[h] \/ hookCount[h] = 0) = TRUE
      BY <2>1, <1>2, <1>3
    <2> QED  BY <2>2, <1>1
  <1>5. hookCount' \in [Hooks -> Nat] /\ hooked' \in [Hooks -> BOOLEAN]
    BY <1>1, <1>3, <1>4
  <1>6. ASSUME NEW k \in Hooks
        PROVE  hookCount'[k] = Held(k)' /\ (hooked'[k] <=> hookCount'[k] > 0)
    <2>1. hookCount'[k] = Held(k)'
      BY <1>1, <1>2, <1>3, HeldType
    <2>2. CASE k = h  BY <2>1, <2>2, <1>1, <1>3, <1>4
    <2>3. CASE k # h  BY <2>1, <2>3, <1>1, <1>2, <1>3, <1>4
    <2> QED  BY <2>1, <2>2, <2>3
  <1>7. CountExact'
    BY <1>6 DEF CountExact, Held
  <1> QED  BY <1>3, <1>4, <1>5, <1>7

\* A counted unhook() of a hook that is held keeps the counts exact, and only
\* the last holder takes the detour out.
LEMMA UnhookExact ==
    ASSUME TypeOK, CountExact, NEW h \in Hooks, Unhook(h), Held(h) > 0,
           \A k \in Hooks : Held(k)' = Held(k) - (IF k = h THEN 1 ELSE 0)
    PROVE  /\ CountExact'
           /\ hookCount' \in [Hooks -> Nat] /\ hooked' \in [Hooks -> BOOLEAN]
           /\ hooked' = [hooked EXCEPT ![h] = Held(h) # 1]
  <1>1. hookCount' = [hookCount EXCEPT ![h] = @ - 1]
        /\ hooked' = [hooked EXCEPT ![h] = @ /\ hookCount[h] # 1]
    BY DEF Unhook
  <1>2. \A k \in Hooks : hookCount[k] = Held(k) /\ (hooked[k] <=> hookCount[k] > 0)
    BY DEF CountExact, Held
  <1>3. hookCount \in [Hooks -> Nat] /\ hooked \in [Hooks -> BOOLEAN]
    BY DEF TypeOK
  <1>4. hooked' = [hooked EXCEPT ![h] = Held(h) # 1]
    BY <1>1, <1>2, <1>3
  <1>5. hookCount' \in [Hooks -> Nat] /\ hooked' \in [Hooks -> BOOLEAN]
    BY <1>1, <1>2, <1>3, <1>4
  <1>6. ASSUME NEW k \in Hooks
        PROVE  hookCount'[k] = Held(k)' /\ (hooked'[k] <=> hookCount'[k] > 0)
    <2>1. hookCount'[k] = Held(k)'
      BY <1>1, <1>2, <1>3, HeldType
    <2>2. CASE k = h
      <3>1. hookCount'[h] > 0 <=> Held(h) # 1
        BY <1>1, <1>2, <1>3, HeldType
      <3>2. hooked'[h] <=> Held(h) # 1
        BY <1>3, <1>4
      <3> QED  BY <2>1, <2>2, <3>1, <3>2
    <2>3. CASE k # h  BY <2>1, <2>3, <1>1, <1>2, <1>3, <1>4
    <2> QED  BY <2>1, <2>2, <2>3
  <1>7. CountExact'
    BY <1>6 DEF CountExact, Held
  <1> QED  BY <1>4, <1>5, <1>7

-----------------------------------------------------------------------------
(* The number of registrars that hold a hook, after each kind of walk.     *)

\* Whoever holds a hook is counted.
LEMMA HolderCounts ==
    ASSUME NEW held, NEW e \in Events, NEW h, h \in held[e]
    PROVE  Cardinality(Holders(held, h)) >= 1
  <1>1. e \in Holders(held, h)  BY DEF Holders
  <1>2. Cardinality(Holders(held, h)) # 0  BY <1>1, HoldersFinite, FS_EmptySet
  <1> QED  BY <1>2, HoldersFinite

\* The same sum, written with the next state's holders.
LEMMA HeldNext ==
    ASSUME NEW k
    PROVE  Held(k)' = Cardinality(Holders(registered', k)) + Cardinality(Holders(temporary', k))
  BY DEF Held, Holders

\* The emitter's own registrar takes a hook.
LEMMA RegisteredTakes ==
    ASSUME TypeOK, NEW e \in Events, NEW h \in Hooks, h \notin registered[e],
           registered' = [registered EXCEPT ![e] = @ \union {h}], temporary' = temporary
    PROVE  \A k \in Hooks : Held(k)' = Held(k) + (IF k = h THEN 1 ELSE 0)
  <1> SUFFICES ASSUME NEW k \in Hooks
               PROVE  Held(k)' = Held(k) + (IF k = h THEN 1 ELSE 0)
    OBVIOUS
  <1>1. Cardinality(Holders(registered', k))
          = Cardinality(Holders(registered, k)) + (IF k = h THEN 1 ELSE 0)
    <2>1. registered \in [Events -> SUBSET Hooks]  BY DEF TypeOK
    <2>2. Cardinality(Holders([registered EXCEPT ![e] = @ \union {h}], k))
            = Cardinality(Holders(registered, k)) + (IF k = h THEN 1 ELSE 0)
      BY <2>1, OneMore
    <2> QED  BY <2>2
  <1> QED  BY <1>1, HoldersFinite, HeldNext DEF Held

\* The emitter's own registrar lets go of a hook.
LEMMA RegisteredDrops ==
    ASSUME TypeOK, NEW e \in Events, NEW h \in Hooks, h \in registered[e],
           registered' = [registered EXCEPT ![e] = @ \ {h}], temporary' = temporary
    PROVE  /\ \A k \in Hooks : Held(k)' = Held(k) - (IF k = h THEN 1 ELSE 0)
           /\ Held(h) > 0
  <1>1. ASSUME NEW k \in Hooks
        PROVE  Held(k)' = Held(k) - (IF k = h THEN 1 ELSE 0)
    <2>1. Cardinality(Holders(registered', k))
            = Cardinality(Holders(registered, k)) - (IF k = h THEN 1 ELSE 0)
      <3>1. registered \in [Events -> SUBSET Hooks]  BY DEF TypeOK
      <3>2. Cardinality(Holders([registered EXCEPT ![e] = @ \ {h}], k))
              = Cardinality(Holders(registered, k)) - (IF k = h THEN 1 ELSE 0)
        BY <3>1, OneLess
      <3> QED  BY <3>2
    <2> QED  BY <2>1, HoldersFinite, HeldNext DEF Held
  <1>2. Held(h) > 0
    BY HolderCounts, HoldersFinite DEF Held
  <1> QED  BY <1>1, <1>2

\* A temporary registrar takes a hook.
LEMMA TemporaryTakes ==
    ASSUME TypeOK, NEW e \in Events, NEW h \in Hooks, h \notin temporary[e],
           temporary' = [temporary EXCEPT ![e] = @ \union {h}], registered' = registered
    PROVE  \A k \in Hooks : Held(k)' = Held(k) + (IF k = h THEN 1 ELSE 0)
  <1> SUFFICES ASSUME NEW k \in Hooks
               PROVE  Held(k)' = Held(k) + (IF k = h THEN 1 ELSE 0)
    OBVIOUS
  <1>1. Cardinality(Holders(temporary', k))
          = Cardinality(Holders(temporary, k)) + (IF k = h THEN 1 ELSE 0)
    <2>1. temporary \in [Events -> SUBSET Hooks]  BY DEF TypeOK
    <2>2. Cardinality(Holders([temporary EXCEPT ![e] = @ \union {h}], k))
            = Cardinality(Holders(temporary, k)) + (IF k = h THEN 1 ELSE 0)
      BY <2>1, OneMore
    <2> QED  BY <2>2
  <1> QED  BY <1>1, HoldersFinite, HeldNext DEF Held

\* A temporary registrar lets go of a hook.
LEMMA TemporaryDrops ==
    ASSUME TypeOK, NEW e \in Events, NEW h \in Hooks, h \in temporary[e],
           temporary' = [temporary EXCEPT ![e] = @ \ {h}], registered' = registered
    PROVE  /\ \A k \in Hooks : Held(k)' = Held(k) - (IF k = h THEN 1 ELSE 0)
           /\ Held(h) > 0
  <1>1. ASSUME NEW k \in Hooks
        PROVE  Held(k)' = Held(k) - (IF k = h THEN 1 ELSE 0)
    <2>1. Cardinality(Holders(temporary', k))
            = Cardinality(Holders(temporary, k)) - (IF k = h THEN 1 ELSE 0)
      <3>1. temporary \in [Events -> SUBSET Hooks]  BY DEF TypeOK
      <3>2. Cardinality(Holders([temporary EXCEPT ![e] = @ \ {h}], k))
              = Cardinality(Holders(temporary, k)) - (IF k = h THEN 1 ELSE 0)
        BY <3>1, OneLess
      <3> QED  BY <3>2
    <2> QED  BY <2>1, HoldersFinite, HeldNext DEF Held
  <1>2. Held(h) > 0
    BY HolderCounts, HoldersFinite DEF Held
  <1> QED  BY <1>1, <1>2

-----------------------------------------------------------------------------
(* Every action keeps the invariant.                                       *)

\* The temporary of a constructor takes a hook.
LEMMA CtorTemporaryKeeps ==
    ASSUME IInv, NEW e \in Events, NEW h \in Hooks, CtorTemporary(e, h)
    PROVE  IInv'
  <1> USE DEF IInv
  <1>1. temporary' = [temporary EXCEPT ![e] = @ \union {h}] /\ UNCHANGED <<listeners, registered>>
    BY DEF CtorTemporary
  <1>2. CountExact' /\ hookCount' \in [Hooks -> Nat] /\ hooked' \in [Hooks -> BOOLEAN]
    BY <1>1, TemporaryTakes, HookExact DEF CtorTemporary
  <1>3. emitter' \in [Events -> Stages]
    BY DEF CtorTemporary, Advance, TypeOK, Stages, CtorStages, DtorStages
  <1>4. TypeOK'
    BY <1>1, <1>2, <1>3 DEF TypeOK
  <1>5. ASSUME NEW d \in Events
        PROVE  Walk(d)'
    <2>1. CASE d = e
      BY <1>1, <2>1, EmittersAssumption DEF CtorTemporary, Advance, Walks, Walk, TypeOK
    <2>2. CASE d # e
      BY <1>1, <2>2 DEF CtorTemporary, Advance, Walks, Walk, TypeOK
    <2> QED  BY <2>1, <2>2
  <1>6. Kept'
    BY <1>1 DEF CtorTemporary, Advance, Kept, DtorStages, TypeOK
  <1> QED  BY <1>2, <1>4, <1>5, <1>6 DEF Walks

\* hook() takes a hook for the emitter.
LEMMA CtorHookKeeps ==
    ASSUME IInv, NEW e \in Events, NEW h \in Hooks, CtorHook(e, h)
    PROVE  IInv'
  <1> USE DEF IInv
  <1>1. registered' = [registered EXCEPT ![e] = @ \union {h}] /\ UNCHANGED <<listeners, temporary>>
    BY DEF CtorHook
  <1>2. CountExact' /\ hookCount' \in [Hooks -> Nat] /\ hooked' \in [Hooks -> BOOLEAN]
    BY <1>1, RegisteredTakes, HookExact DEF CtorHook
  <1>3. emitter' \in [Events -> Stages]
    BY DEF CtorHook, Advance, TypeOK, Stages, CtorStages, DtorStages
  <1>4. TypeOK'
    BY <1>1, <1>2, <1>3 DEF TypeOK
  <1>5. ASSUME NEW d \in Events
        PROVE  Walk(d)'
    <2>1. CASE d = e
      BY <1>1, <2>1, EmittersAssumption DEF CtorHook, Advance, Walks, Walk, TypeOK
    <2>2. CASE d # e
      BY <1>1, <2>2 DEF CtorHook, Advance, Walks, Walk, TypeOK
    <2> QED  BY <2>1, <2>2
  <1>6. Kept'
    BY <1>1 DEF CtorHook, Advance, Kept, DtorStages, TypeOK
  <1> QED  BY <1>2, <1>4, <1>5, <1>6 DEF Walks

\* The temporary of a constructor lets go of a hook.
LEMMA CtorEndKeeps ==
    ASSUME IInv, NEW e \in Events, NEW h \in Hooks, CtorEnd(e, h)
    PROVE  IInv'
  <1> USE DEF IInv
  <1>1. temporary' = [temporary EXCEPT ![e] = @ \ {h}] /\ UNCHANGED <<listeners, registered>>
    BY DEF CtorEnd
  <1>2. CountExact' /\ hookCount' \in [Hooks -> Nat] /\ hooked' \in [Hooks -> BOOLEAN]
    BY <1>1, TemporaryDrops, UnhookExact DEF CtorEnd
  <1>3. emitter' \in [Events -> Stages]
    BY DEF CtorEnd, Advance, TypeOK, Stages, CtorStages, DtorStages
  <1>4. TypeOK'
    BY <1>1, <1>2, <1>3 DEF TypeOK
  <1>5. ASSUME NEW d \in Events
        PROVE  Walk(d)'
    <2>1. CASE d = e
      BY <1>1, <2>1, EmittersAssumption DEF CtorEnd, Advance, Walks, Walk, TypeOK
    <2>2. CASE d # e
      BY <1>1, <2>2 DEF CtorEnd, Advance, Walks, Walk, TypeOK
    <2> QED  BY <2>1, <2>2
  <1>6. Kept'
    BY <1>1 DEF CtorEnd, Advance, Kept, DtorStages, TypeOK
  <1> QED  BY <1>2, <1>4, <1>5, <1>6 DEF Walks

\* The temporary of a destructor takes a hook.
LEMMA DtorTemporaryKeeps ==
    ASSUME IInv, NEW e \in Events, NEW h \in Hooks, DtorTemporary(e, h)
    PROVE  IInv'
  <1> USE DEF IInv
  <1>1. temporary' = [temporary EXCEPT ![e] = @ \union {h}] /\ UNCHANGED <<listeners, registered>>
    BY DEF DtorTemporary
  <1>2. CountExact' /\ hookCount' \in [Hooks -> Nat] /\ hooked' \in [Hooks -> BOOLEAN]
    BY <1>1, TemporaryTakes, HookExact DEF DtorTemporary
  <1>3. emitter' \in [Events -> Stages]
    BY DEF DtorTemporary, Advance, TypeOK, Stages, CtorStages, DtorStages
  <1>4. TypeOK'
    BY <1>1, <1>2, <1>3 DEF TypeOK
  <1>5. ASSUME NEW d \in Events
        PROVE  Walk(d)'
    <2>1. CASE d = e
      BY <1>1, <2>1, EmittersAssumption DEF DtorTemporary, Advance, Walks, Walk, TypeOK
    <2>2. CASE d # e
      BY <1>1, <2>2 DEF DtorTemporary, Advance, Walks, Walk, TypeOK
    <2> QED  BY <2>1, <2>2
  <1>6. Kept'
    BY <1>1 DEF DtorTemporary, Advance, Kept, DtorStages, TypeOK
  <1> QED  BY <1>2, <1>4, <1>5, <1>6 DEF Walks

\* unhook(), or a member's destructor, lets go of a hook.
LEMMA DtorUnhookKeeps ==
    ASSUME IInv, NEW e \in Events, NEW h \in Hooks, DtorUnhook(e, h)
    PROVE  IInv'
  <1> USE DEF IInv
  <1>1. registered' = [registered EXCEPT ![e] = @ \ {h}] /\ UNCHANGED <<listeners, temporary>>
    BY DEF DtorUnhook
  <1>2. CountExact' /\ hookCount' \in [Hooks -> Nat] /\ hooked' \in [Hooks -> BOOLEAN]
    BY <1>1, RegisteredDrops, UnhookExact DEF DtorUnhook
  <1>3. emitter' \in [Events -> Stages]
    BY DEF DtorUnhook, Advance, TypeOK, Stages, CtorStages, DtorStages
  <1>4. TypeOK'
    BY <1>1, <1>2, <1>3 DEF TypeOK
  <1>5. ASSUME NEW d \in Events
        PROVE  Walk(d)'
    <2>1. CASE d = e
      BY <1>1, <2>1, EmittersAssumption DEF DtorUnhook, Advance, Walks, Walk, TypeOK
    <2>2. CASE d # e
      BY <1>1, <2>2 DEF DtorUnhook, Advance, Walks, Walk, TypeOK
    <2> QED  BY <2>1, <2>2
  <1>6. Kept'
    BY <1>1 DEF DtorUnhook, Advance, Kept, DtorStages, TypeOK
  <1> QED  BY <1>2, <1>4, <1>5, <1>6 DEF Walks

\* The temporary of a destructor lets go of a hook.
LEMMA DtorEndKeeps ==
    ASSUME IInv, NEW e \in Events, NEW h \in Hooks, DtorEnd(e, h)
    PROVE  IInv'
  <1> USE DEF IInv
  <1>1. temporary' = [temporary EXCEPT ![e] = @ \ {h}] /\ UNCHANGED <<listeners, registered>>
    BY DEF DtorEnd
  <1>2. CountExact' /\ hookCount' \in [Hooks -> Nat] /\ hooked' \in [Hooks -> BOOLEAN]
    BY <1>1, TemporaryDrops, UnhookExact DEF DtorEnd
  <1>3. emitter' \in [Events -> Stages]
    BY DEF DtorEnd, Advance, TypeOK, Stages, CtorStages, DtorStages
  <1>4. TypeOK'
    BY <1>1, <1>2, <1>3 DEF TypeOK
  <1>5. ASSUME NEW d \in Events
        PROVE  Walk(d)'
    <2>1. CASE d = e
      BY <1>1, <2>1, EmittersAssumption DEF DtorEnd, Advance, Walks, Walk, TypeOK
    <2>2. CASE d # e
      BY <1>1, <2>2 DEF DtorEnd, Advance, Walks, Walk, TypeOK
    <2> QED  BY <2>1, <2>2
  <1>6. Kept'
    BY <1>1 DEF DtorEnd, Advance, Kept, DtorStages, TypeOK
  <1> QED  BY <1>2, <1>4, <1>5, <1>6 DEF Walks

\* A listener comes: the emitter of an event that had none starts its walk.
LEMMA AddListenerKeeps ==
    ASSUME IInv, NEW e \in Events, NEW l \in Listeners, AddListener(e, l)
    PROVE  IInv'
  <1> USE DEF IInv
  <1>1. UNCHANGED <<registered, temporary, hookCount, hooked>>
    BY DEF AddListener
  <1>2. TypeOK'
    BY <1>1 DEF AddListener, TypeOK, Stages, CtorStages, DtorStages, FirstCtorStage
  <1>3. CountExact'
    BY <1>1 DEF CountExact, Holders
  <1>4. ASSUME NEW d \in Events
        PROVE  Walk(d)'
    <2>1. CASE d = e /\ listeners[e] = {}
      BY <1>1, <2>1, EmittersAssumption
      DEF AddListener, BusFree, FirstCtorStage, Kept, DtorStages, Walks, Walk, TypeOK
    <2>2. CASE ~(d = e /\ listeners[e] = {})
      BY <1>1, <2>2 DEF AddListener, Walks, Walk, TypeOK
    <2> QED  BY <2>1, <2>2
  <1>5. Kept'
    BY DEF AddListener, BusFree, FirstCtorStage, Kept, DtorStages, TypeOK
  <1> QED  BY <1>2, <1>3, <1>4, <1>5 DEF Walks

\* A listener leaves: the emitter of an event left with none is walked down.
LEMMA RemoveListenerKeeps ==
    ASSUME IInv, NEW e \in Events, NEW l \in Listeners, RemoveListener(e, l)
    PROVE  IInv'
  <1> USE DEF IInv
  <1>1. UNCHANGED <<registered, temporary, hookCount, hooked>>
    BY DEF RemoveListener
  <1>2. TypeOK'
    BY <1>1 DEF RemoveListener, TypeOK, Stages, CtorStages, DtorStages, FirstDtorStage
  <1>3. CountExact'
    BY <1>1 DEF CountExact, Holders
  <1>4. emitter[e] = "live"
    BY DEF RemoveListener, BusFree, Kept, DtorStages
  <1>5. ASSUME NEW d \in Events
        PROVE  Walk(d)'
    <2>1. CASE d = e /\ listeners[e] = {l}
      BY <1>1, <1>4, <2>1, EmittersAssumption
      DEF RemoveListener, FirstDtorStage, Walks, Walk, TypeOK
    <2>2. CASE ~(d = e /\ listeners[e] = {l})
      BY <1>1, <2>2 DEF RemoveListener, Walks, Walk, TypeOK
    <2> QED  BY <2>1, <2>2
  <1>6. Kept'
    BY <1>4 DEF RemoveListener, FirstDtorStage, Kept, DtorStages, TypeOK
  <1> QED  BY <1>2, <1>3, <1>5, <1>6 DEF Walks

\* The factory returns.
LEMMA KeepEmitterKeeps ==
    ASSUME IInv, NEW e \in Events, KeepEmitter(e)
    PROVE  IInv'
  <1> USE DEF IInv
  <1>1. UNCHANGED <<listeners, registered, temporary, hookCount, hooked>>
    BY DEF KeepEmitter
  <1>2. TypeOK'
    BY <1>1 DEF KeepEmitter, TypeOK, Stages
  <1>3. CountExact'
    BY <1>1 DEF CountExact, Holders
  <1>4. Walks'
    BY <1>1 DEF KeepEmitter, Walks, Walk, TypeOK
  <1>5. Kept'
    BY <1>1 DEF KeepEmitter, Kept, DtorStages, TypeOK
  <1> QED  BY <1>2, <1>3, <1>4, <1>5

\* The registrars' steps together.
LEMMA RegistrarStepKeeps ==
    ASSUME IInv, NEW e \in Events, NEW h \in Hooks, RegistrarStep(e, h)
    PROVE  IInv'
  BY CtorTemporaryKeeps, CtorHookKeeps, CtorEndKeeps, DtorTemporaryKeeps,
     DtorUnhookKeeps, DtorEndKeeps DEF RegistrarStep

-----------------------------------------------------------------------------
(* The inductive invariant and what follows from it.                       *)

\* Nothing is hooked, held or listened to at first.
LEMMA InitIInv == Init => IInv
  <1> SUFFICES ASSUME Init PROVE IInv
    OBVIOUS
  <1>1. TypeOK
    BY DEF Init, TypeOK, Stages
  <1>2. Walks
    BY EmittersAssumption DEF Init, Walks, Walk
  <1>3. Kept
    BY DEF Init, Kept
  <1>4. CountExact
    <2>1. ASSUME NEW h \in Hooks
          PROVE  Cardinality(Holders(registered, h)) = 0 /\ Cardinality(Holders(temporary, h)) = 0
      BY NoHolders DEF Init
    <2>2. ASSUME NEW h \in Hooks
          PROVE  hookCount[h] = 0 /\ ~hooked[h]
      BY DEF Init
    <2> QED  BY <2>1, <2>2 DEF CountExact
  <1> QED  BY <1>1, <1>2, <1>3, <1>4 DEF IInv

\* Every step, and stuttering, keeps the invariant.
LEMMA NextIInv == IInv /\ [Next]_vars => IInv'
  <1> SUFFICES ASSUME IInv, [Next]_vars PROVE IInv'
    OBVIOUS
  <1>1. CASE \E e \in Events, l \in Listeners : AddListener(e, l) \/ RemoveListener(e, l)
    BY <1>1, AddListenerKeeps, RemoveListenerKeeps
  <1>2. CASE \E e \in Events : KeepEmitter(e)
    BY <1>2, KeepEmitterKeeps
  <1>3. CASE \E e \in Events, h \in Hooks : RegistrarStep(e, h)
    BY <1>3, RegistrarStepKeeps
  <1>4. CASE UNCHANGED vars
    <2>1. UNCHANGED <<listeners, emitter, registered, temporary, hookCount, hooked>>
      BY <1>4 DEF vars
    <2>2. TypeOK'  BY <2>1 DEF IInv, TypeOK
    <2>3. Walks'  BY <2>1 DEF IInv, Walks, Walk
    <2>4. Kept'  BY <2>1 DEF IInv, Kept
    <2>5. CountExact'  BY <2>1 DEF IInv, CountExact, Holders
    <2> QED  BY <2>2, <2>3, <2>4, <2>5 DEF IInv
  <1> QED  BY <1>1, <1>2, <1>3, <1>4 DEF Next, BusStep

\* The inductive invariant holds in every reachable state.
LEMMA Invariance == Spec => []IInv
  <1> QED  BY InitIInv, NextIInv, PTL DEF Spec

\* Every reachable state is well typed (Emitters.tla: the registrars, the bus).
THEOREM TypeCorrect == Spec => []TypeOK
  <1>1. IInv => TypeOK  BY DEF IInv
  <1> QED  BY <1>1, Invariance, PTL

\* The count of a hook is always the number of registrars that hold it, for
\* any number of events, hooks and listeners (HookRegistrar).
THEOREM CountsExact == Spec => []CountExact
  <1>1. IInv => CountExact  BY DEF IInv
  <1> QED  BY <1>1, Invariance, PTL

\* An event that has a listener and a finished emitter is detoured in full.
LEMMA HeldIsHooked ==
    ASSUME IInv, NEW e \in Events, NEW h \in registered[e] \union temporary[e]
    PROVE  hooked[h]
  <1>1. h \in Hooks
    BY DEF IInv, TypeOK
  <1>2. Held(h) > 0
    BY HolderCounts, HoldersFinite DEF Held
  <1> QED  BY <1>1, <1>2 DEF IInv, CountExact, Held

\* No listener of a finished emitter is deaf, whatever the emitters that share
\* its hooks are doing.
THEOREM Heard == Spec => []ListenersHeard
  <1>1. ASSUME IInv
        PROVE  ListenersHeard
    <2> SUFFICES ASSUME NEW e \in Events, listeners[e] # {}, emitter[e] \notin CtorStages,
                        NEW h \in HooksOf[e]
                 PROVE  hooked[h]
      BY DEF ListenersHeard
    <2>1. emitter[e] = "live"
      BY <1>1 DEF IInv, TypeOK, Kept, Stages
    <2>2. h \in registered[e]
      BY <1>1, <2>1 DEF IInv, Walks, Walk
    <2> QED  BY <1>1, <2>2, HeldIsHooked
  <1> QED  BY <1>1, Invariance, PTL

\* When nobody listens and the bus is at rest, the engine runs its own code.
THEOREM LeftClean == Spec => []NothingLeftHooked
  <1>1. ASSUME IInv
        PROVE  NothingLeftHooked
    <2> SUFFICES ASSUME NEW h \in Hooks, BusFree,
                        \A e \in Events : h \in HooksOf[e] => listeners[e] = {}
                 PROVE  ~hooked[h] /\ hookCount[h] = 0
      BY DEF NothingLeftHooked
    <2>1. ASSUME NEW e \in Events
          PROVE  h \notin registered[e] /\ h \notin temporary[e]
      <3>1. CASE h \in HooksOf[e]
        <4>1. emitter[e] = "none"
          BY <1>1, <3>1 DEF IInv, Kept, BusFree, DtorStages
        <4> QED  BY <1>1, <4>1 DEF IInv, Walks, Walk
      <3>2. CASE h \notin HooksOf[e]
        BY <1>1, <3>2 DEF IInv, Walks, Walk
      <3> QED  BY <3>1, <3>2
    <2>2. Holders(registered, h) = {} /\ Holders(temporary, h) = {}
      BY <2>1 DEF Holders
    <2>3. hookCount[h] = 0
      BY <1>1, <2>2, FS_EmptySet DEF IInv, CountExact
    <2> QED  BY <1>1, <2>3 DEF IInv, CountExact
  <1> QED  BY <1>1, Invariance, PTL

-----------------------------------------------------------------------------
(* Refinement.  Each action of Emitters, seen through Served and Detoured, *)
(* is an action of Interception or changes nothing it can see.             *)

\* Only registrars of the events named by HooksOf hold a hook.
LEMMA UserHolds ==
    ASSUME IInv, NEW e \in Events, NEW h \in HooksOf[e], emitter[e] = "live"
    PROVE  h \in registered[e]
  BY DEF IInv, Walks, Walk

\* A step that adds h to a registrar detours h, and serves nobody more or less.
LEMMA HookRefines ==
    ASSUME IInv, NEW e \in Events, NEW h \in Hooks,
           hooked' = [hooked EXCEPT ![h] = TRUE],
           Served' = Served
    PROVE  [Promise!Next]_(Promise!vars)
  <1>1. hooked \in [Hooks -> BOOLEAN]
    BY DEF IInv, TypeOK
  <1>2. Detoured' = Detoured \union {h}
    BY <1>1 DEF Detoured
  <1>3. CASE h \in Detoured
    BY <1>2, <1>3 DEF Promise!vars
  <1>4. CASE h \notin Detoured
    <2>1. ASSUME NEW d \in Promise!Users(h)
          PROVE  d \in Events \ Served
      <3>1. d \in Events /\ h \in HooksOf[d]
        BY DEF Promise!Users
      <3>2. emitter[d] # "live"
        BY <1>4, <3>1, UserHolds, HeldIsHooked DEF Detoured
      <3> QED  BY <3>1, <3>2 DEF Served
    <2>2. Promise!Install(h)
      BY <1>2, <2>1 DEF Promise!Install
    <2> QED  BY <2>2 DEF Promise!Next
  <1> QED  BY <1>3, <1>4

\* A hook that a live event uses is held by that event as well as by the
\* registrar that lets go, which belongs to an event that is not live.
LEMMA LastHolder ==
    ASSUME IInv, NEW e \in Events, emitter[e] # "live",
           NEW h \in registered[e] \union temporary[e], Held(h) = 1,
           NEW d \in Events, h \in HooksOf[d]
    PROVE  emitter[d] # "live"
  <1> SUFFICES ASSUME emitter[d] = "live" PROVE FALSE
    OBVIOUS
  <1>1. d \in Holders(registered, h)
    BY UserHolds DEF Holders
  <1>2. CASE h \in registered[e]
    <2>1. e \in Holders(registered, h) /\ e # d
      BY <1>2 DEF Holders
    <2>2. Cardinality(Holders(registered, h) \ {e}) = Cardinality(Holders(registered, h)) - 1
      <3>1. IsFiniteSet(Holders(registered, h))  BY HoldersFinite
      <3> QED  BY <2>1, <3>1, FS_RemoveElement
    <2>3. Cardinality(Holders(registered, h) \ {e}) # 0
      <3>1. IsFiniteSet(Holders(registered, h) \ {e})  BY HoldersFinite, FS_RemoveElement
      <3>2. Holders(registered, h) \ {e} # {}  BY <1>1, <2>1
      <3> QED  BY <3>1, <3>2, FS_EmptySet
    <2> QED  BY <2>2, <2>3, HoldersFinite, HolderCounts, <1>2 DEF Held
  <1>3. CASE h \in temporary[e]
    <2>1. Cardinality(Holders(registered, h)) >= 1
      BY UserHolds, HolderCounts
    <2>2. Cardinality(Holders(temporary, h)) >= 1
      BY <1>3, HolderCounts
    <2> QED  BY <2>1, <2>2, HoldersFinite DEF Held
  <1> QED  BY <1>2, <1>3

\* A step that takes h from a registrar releases h only if no served event
\* is made from it.
LEMMA UnhookRefines ==
    ASSUME IInv, NEW e \in Events, emitter[e] # "live",
           NEW h \in Hooks, h \in registered[e] \union temporary[e],
           hooked' = [hooked EXCEPT ![h] = Held(h) # 1],
           Served' = Served
    PROVE  [Promise!Next]_(Promise!vars)
  <1>1. hooked \in [Hooks -> BOOLEAN]
    BY DEF IInv, TypeOK
  <1>2. CASE Held(h) = 1
    <2>1. Detoured' = Detoured \ {h}
      BY <1>1, <1>2 DEF Detoured
    <2>2. Promise!Users(h) \intersect Served = {}
      BY <1>2, LastHolder DEF Promise!Users, Served
    <2>3. Promise!Uninstall(h)
      BY <2>1, <2>2 DEF Promise!Uninstall
    <2> QED  BY <2>3 DEF Promise!Next
  <1>3. CASE Held(h) # 1
    <2>1. hooked[h]
      BY HeldIsHooked
    <2>2. Detoured' = Detoured
      BY <1>1, <1>3, <2>1 DEF Detoured
    <2> QED  BY <2>2 DEF Promise!vars
  <1> QED  BY <1>2, <1>3

\* A registrar's step is an Install, an Uninstall or invisible.
LEMMA RegistrarRefines ==
    ASSUME IInv, NEW e \in Events, NEW h \in Hooks, RegistrarStep(e, h)
    PROVE  [Promise!Next]_(Promise!vars)
  <1>1. Served' = Served
    BY DEF RegistrarStep, CtorTemporary, CtorHook, CtorEnd, DtorTemporary, DtorUnhook,
           DtorEnd, Advance, Served, IInv, TypeOK
  <1>2. emitter[e] # "live"
    BY DEF RegistrarStep, CtorTemporary, CtorHook, CtorEnd, DtorTemporary, DtorUnhook,
           DtorEnd, Advance
  <1>3. TypeOK /\ CountExact
    BY DEF IInv
  <1>4. CASE CtorTemporary(e, h) \/ DtorTemporary(e, h)
    BY <1>1, <1>3, <1>4, TemporaryTakes, HookExact, HookRefines DEF CtorTemporary, DtorTemporary
  <1>5. CASE CtorHook(e, h)
    BY <1>1, <1>3, <1>5, RegisteredTakes, HookExact, HookRefines DEF CtorHook
  <1>6. CASE CtorEnd(e, h) \/ DtorEnd(e, h)
    BY <1>1, <1>2, <1>3, <1>6, TemporaryDrops, UnhookExact, UnhookRefines DEF CtorEnd, DtorEnd
  <1>7. CASE DtorUnhook(e, h)
    BY <1>1, <1>2, <1>3, <1>7, RegisteredDrops, UnhookExact, UnhookRefines DEF DtorUnhook
  <1> QED  BY <1>4, <1>5, <1>6, <1>7 DEF RegistrarStep

\* A listener that comes changes nothing the promise sees.
LEMMA AddListenerRefines ==
    ASSUME IInv, NEW e \in Events, NEW l \in Listeners, AddListener(e, l)
    PROVE  [Promise!Next]_(Promise!vars)
  <1>1. Detoured' = Detoured
    BY DEF AddListener, Detoured
  <1>2. listeners[e] = {} => emitter[e] # "live"
    BY DEF IInv, Kept, DtorStages
  <1>3. Served' = Served
    BY <1>2 DEF AddListener, FirstCtorStage, Served, IInv, TypeOK
  <1> QED  BY <1>1, <1>3 DEF Promise!vars

\* The last listener that leaves retires its event.
LEMMA RemoveListenerRefines ==
    ASSUME IInv, NEW e \in Events, NEW l \in Listeners, RemoveListener(e, l)
    PROVE  [Promise!Next]_(Promise!vars)
  <1>1. Detoured' = Detoured
    BY DEF RemoveListener, Detoured
  <1>2. CASE listeners[e] = {l}
    <2>1. Served' = Served \ {e}
      BY <1>2 DEF RemoveListener, FirstDtorStage, Served, IInv, TypeOK
    <2>2. Promise!Retire(e)
      BY <1>1, <2>1 DEF Promise!Retire
    <2> QED  BY <2>2 DEF Promise!Next
  <1>3. CASE listeners[e] # {l}
    <2>1. Served' = Served
      BY <1>3 DEF RemoveListener, Served, IInv, TypeOK
    <2> QED  BY <1>1, <2>1 DEF Promise!vars
  <1> QED  BY <1>2, <1>3

\* A factory that returns serves its event, all of whose hooks are detoured.
LEMMA KeepEmitterRefines ==
    ASSUME IInv, NEW e \in Events, KeepEmitter(e)
    PROVE  [Promise!Next]_(Promise!vars)
  <1>1. Detoured' = Detoured
    BY DEF KeepEmitter, Detoured
  <1>2. Served' = Served \union {e}
    BY DEF KeepEmitter, Served, IInv, TypeOK
  <1>3. HooksOf[e] \subseteq Detoured
    <2>1. registered[e] = HooksOf[e] /\ registered[e] \subseteq Hooks
      BY DEF KeepEmitter, IInv, Walks, Walk, TypeOK
    <2> QED  BY <2>1, HeldIsHooked DEF Detoured
  <1>4. Promise!Serve(e)
    BY <1>1, <1>2, <1>3 DEF Promise!Serve
  <1> QED  BY <1>4 DEF Promise!Next

\* The counters implement the promise: an event is served only while all of its
\* engine functions are detoured, and none is released under a served event.
THEOREM Refinement == Spec => ImplementsInterception
  <1>1. Init => Promise!Init
    BY DEF Init, Promise!Init, Served, Detoured
  <1>2. IInv /\ [Next]_vars => [Promise!Next]_(Promise!vars)
    <2> SUFFICES ASSUME IInv, [Next]_vars PROVE [Promise!Next]_(Promise!vars)
      OBVIOUS
    <2>1. CASE \E e \in Events, l \in Listeners : AddListener(e, l) \/ RemoveListener(e, l)
      BY <2>1, AddListenerRefines, RemoveListenerRefines
    <2>2. CASE \E e \in Events : KeepEmitter(e)
      BY <2>2, KeepEmitterRefines
    <2>3. CASE \E e \in Events, h \in Hooks : RegistrarStep(e, h)
      BY <2>3, RegistrarRefines
    <2>4. CASE UNCHANGED vars
      BY <2>4 DEF vars, Promise!vars, Served, Detoured
    <2> QED  BY <2>1, <2>2, <2>3, <2>4 DEF Next, BusStep
  <1> QED  BY <1>1, <1>2, Invariance, PTL DEF Spec, ImplementsInterception, Promise!Spec

=============================================================================
