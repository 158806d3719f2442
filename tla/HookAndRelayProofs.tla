------------------------- MODULE HookAndRelayProofs -------------------------
(***************************************************************************)
(* Proofs about CloseContainerRelay.tla for any subscribers and any number *)
(* of emitters: where the relay is, and how often one close packet is      *)
(* heard of, also when a lambda has used a destroyed emitter.              *)
(*                                                                         *)
(* And about HookFlow.tla, for all of its hooks.  What the proofs need to  *)
(* know of a hook's sequence of steps is FlowOK: it is proved of each of   *)
(* them (FlowsOK), and the rest is about any that has it.                  *)
(***************************************************************************)
EXTENDS CloseContainerRelay, HookFlow, TLAPS

-----------------------------------------------------------------------------
(* The relay: the inductive invariant.                                     *)

\* There is an emitter while somebody listens, and it is the last one built.
Emitter ==
    /\ subscribers = {} <=> emitter = NoEmitter
    /\ emitter # NoEmitter => emitter = built

\* Until its relay is there, the lambda of the live emitter is waiting.
Waiting ==
    emitter # NoEmitter /\ emitter \notin mListeners =>
        \E i \in 1..Len(ticks) : ticks[i] = emitter

\* Who has to hear of the packet has heard, or the relay that will tell them is
\* still to come.
Promised ==
    due # {} =>
        /\ emitter \in relays
        /\ emitter \in publishing \/ \A s \in due : heard[s] >= 1

\* The live emitter knows of every relay there is, and it is its own.
Connected ==
    /\ relays = mListeners
    /\ relays \subseteq {emitter}
    /\ emitter = NoEmitter => relays = {}

\* A packet is with its one relay, of which nobody has heard, or through.
Delivery ==
    /\ publishing # {} =>
         /\ \E r \in Names : publishing = {r}
         /\ \A s \in Subscribers : heard[s] = 0
    /\ \A s \in Subscribers : heard[s] <= 1

RelayInv ==
    /\ TypeOK
    /\ Emitter
    /\ Waiting
    /\ Promised
    /\ ~dangled => Connected /\ Delivery

-----------------------------------------------------------------------------
(* Each step keeps it.                                                     *)

LEMMA SubscribeKeeps ==
    ASSUME RelayInv, NEW s \in Subscribers, Subscribe(s)
    PROVE  RelayInv'
<1>1. /\ s \notin subscribers /\ subscribers' = subscribers \union {s}
      /\ UNCHANGED <<mListeners, relays, publishing, heard, due, dangled, crashed>>
  BY DEF Subscribe, packetVars
<1>2. CASE subscribers = {}
  <2>1. /\ emitter = NoEmitter /\ built < MaxEmitters /\ due = {}
        /\ built' = built + 1 /\ emitter' = built + 1 /\ ticks' = Append(ticks, built + 1)
        /\ built \in Nat /\ ticks \in Seq(Names)
    BY <1>2, RelayAssumption DEF Subscribe, RelayInv, Emitter, TypeOK
  <2>2. built + 1 \in Names /\ built' \in 0..MaxEmitters
    BY <2>1, RelayAssumption DEF Names
  <2>3. ticks' \in Seq(Names) /\ Len(ticks') = Len(ticks) + 1 /\ ticks'[Len(ticks) + 1] = emitter'
    BY <2>1, <2>2
  <2>4. TypeOK'
    BY <1>1, <2>1, <2>2, <2>3 DEF RelayInv, TypeOK
  <2>5. Emitter' /\ Promised'
    BY <1>1, <2>1 DEF Emitter, Promised, NoEmitter
  <2>6. Waiting'
    <3>1. Len(ticks) + 1 \in 1..Len(ticks')
      BY <2>1, <2>3
    <3>. QED  BY <2>3, <3>1 DEF Waiting
  <2>7. ~dangled' => Connected' /\ Delivery'
    BY <1>1, <2>1 DEF RelayInv, Connected, Delivery
  <2>. QED  BY <2>4, <2>5, <2>6, <2>7 DEF RelayInv
<1>3. CASE subscribers # {}
  <2>1. UNCHANGED <<built, emitter, ticks>>
    BY <1>3 DEF Subscribe
  <2>2. TypeOK'
    BY <1>1, <2>1 DEF RelayInv, TypeOK
  <2>3. Emitter' /\ Waiting' /\ Promised'
    BY <1>1, <1>3, <2>1 DEF RelayInv, Emitter, Waiting, Promised
  <2>4. ~dangled' => Connected' /\ Delivery'
    BY <1>1, <2>1 DEF RelayInv, Connected, Delivery
  <2>. QED  BY <2>2, <2>3, <2>4 DEF RelayInv
<1>. QED  BY <1>2, <1>3

\* With the last subscriber nobody has to hear any more.
LEMMA UnsubscribeKeeps ==
    ASSUME RelayInv, NEW s \in Subscribers, Unsubscribe(s)
    PROVE  RelayInv'
<1>1. /\ s \in subscribers /\ subscribers' = subscribers \ {s} /\ due' = due \ {s}
      /\ UNCHANGED <<built, ticks, publishing, heard, dangled, crashed>>
      /\ due \subseteq subscribers
  BY DEF Unsubscribe, RelayInv, TypeOK
<1>2. CASE subscribers = {s}
  <2>1. /\ emitter' = NoEmitter /\ mListeners' = {} /\ relays' = relays \ mListeners
        /\ subscribers' = {} /\ due' = {}
    BY <1>1, <1>2 DEF Unsubscribe
  <2>2. TypeOK'
    BY <1>1, <2>1 DEF RelayInv, TypeOK
  <2>3. Emitter' /\ Waiting' /\ Promised'
    BY <2>1 DEF Emitter, Waiting, Promised
  <2>4. ~dangled' => Connected' /\ Delivery'
    BY <1>1, <2>1 DEF RelayInv, Connected, Delivery
  <2>. QED  BY <2>2, <2>3, <2>4 DEF RelayInv
<1>3. CASE subscribers # {s}
  <2>1. UNCHANGED <<emitter, mListeners, relays>> /\ subscribers' # {}
    BY <1>1, <1>3 DEF Unsubscribe
  <2>2. TypeOK'
    BY <1>1, <2>1 DEF RelayInv, TypeOK
  <2>3. Emitter' /\ Waiting' /\ Promised'
    BY <1>1, <2>1 DEF RelayInv, Emitter, Waiting, Promised
  <2>4. ~dangled' => Connected' /\ Delivery'
    BY <1>1, <2>1 DEF RelayInv, Connected, Delivery
  <2>. QED  BY <2>2, <2>3, <2>4 DEF RelayInv
<1>. QED  BY <1>2, <1>3

\* The lambda of the live emitter puts its relay in place.  One whose emitter
\* is gone adds a relay too many, and leaves the others and the queue behind it.
LEMMA TickKeeps ==
    ASSUME RelayInv, Tick
    PROVE  RelayInv'
<1>1. /\ ticks \in Seq(Names) /\ ticks # <<>>
      /\ ticks' = Tail(ticks) /\ relays' = relays \union {Head(ticks)}
      /\ UNCHANGED <<subscribers, emitter, built, publishing, heard, due>>
      /\ TickAlive \/ TickDangling
  BY DEF Tick, packetVars, RelayInv, TypeOK
<1>2. Head(ticks) \in Names /\ ticks' \in Seq(Names)
  BY <1>1
<1>3. /\ mListeners' = mListeners \/ mListeners' = mListeners \union {Head(ticks)}
      /\ dangled' \in BOOLEAN /\ crashed' \in BOOLEAN
  BY <1>1 DEF TickAlive, TickDangling, RelayInv, TypeOK
<1>4. TypeOK'
  BY <1>1, <1>2, <1>3 DEF RelayInv, TypeOK
<1>5. Emitter' /\ Promised'
  BY <1>1 DEF RelayInv, Emitter, Promised
<1>6. CASE TickAlive
  <2>1. /\ Head(ticks) = emitter /\ mListeners' = mListeners \union {emitter}
        /\ dangled' = dangled /\ relays' = relays \union {emitter} /\ emitter # NoEmitter
    BY <1>1, <1>2, <1>6 DEF TickAlive, Names, NoEmitter
  <2>2. Waiting'
    BY <1>1, <2>1 DEF Waiting
  <2>3. ~dangled' => Connected' /\ Delivery'
    BY <1>1, <2>1 DEF RelayInv, Connected, Delivery
  <2>. QED  BY <1>4, <1>5, <2>2, <2>3 DEF RelayInv
<1>7. CASE TickDangling
  <2>1. Head(ticks) # emitter /\ dangled' = TRUE
    BY <1>7 DEF TickDangling
  <2>2. Waiting'
    <3>. SUFFICES ASSUME emitter # NoEmitter, emitter \notin mListeners
                  PROVE  \E i \in 1..Len(ticks') : ticks'[i] = emitter
      BY <1>1, <1>3 DEF Waiting
    <3>1. PICK i \in 1..Len(ticks) : ticks[i] = emitter
      BY DEF RelayInv, Waiting
    <3>2. i # 1
      BY <1>1, <2>1, <3>1
    <3>3. i - 1 \in 1..Len(ticks') /\ ticks'[i - 1] = ticks[i]
      BY <1>1, <3>1, <3>2
    <3>. QED  BY <3>1, <3>3
  <2>. QED  BY <1>4, <1>5, <2>1, <2>2 DEF RelayInv
<1>. QED  BY <1>1, <1>6, <1>7

LEMMA SendCloseKeeps ==
    ASSUME RelayInv, NEW toPlayer \in BOOLEAN, SendClose(toPlayer)
    PROVE  RelayInv'
<1>1. /\ relays # {} /\ heard' = [s \in Subscribers |-> 0]
      /\ UNCHANGED <<subscribers, emitter, built, mListeners, ticks, relays, dangled, crashed>>
      /\ relays \subseteq Names
  BY DEF SendClose, emitterVars, RelayInv, TypeOK
<1>2. Emitter' /\ Waiting' /\ (~dangled' => Connected')
  BY <1>1 DEF RelayInv, Emitter, Waiting, Connected
<1>3. CASE toPlayer
  <2>1. publishing' = relays /\ due' = IF emitter \in relays THEN subscribers ELSE {}
    BY <1>3 DEF SendClose
  <2>2. TypeOK' /\ Promised'
    BY <1>1, <2>1 DEF RelayInv, TypeOK, Promised
  <2>3. ~dangled' => Delivery'
    <3>. SUFFICES ASSUME ~dangled
                  PROVE  Delivery'
      BY <1>1
    <3>1. relays = {emitter} /\ emitter \in Names
      BY <1>1 DEF RelayInv, Connected
    <3>. QED  BY <1>1, <2>1, <3>1 DEF Delivery
  <2>. QED  BY <1>2, <2>2, <2>3 DEF RelayInv
<1>4. CASE ~toPlayer
  <2>1. publishing' = {} /\ due' = {}
    BY <1>4 DEF SendClose
  <2>2. TypeOK' /\ Promised'
    BY <1>1, <2>1 DEF RelayInv, TypeOK, Promised
  <2>3. Delivery'
    BY <1>1, <2>1 DEF Delivery
  <2>. QED  BY <1>2, <2>2, <2>3 DEF RelayInv
<1>. QED  BY <1>3, <1>4

LEMMA RelayKeeps ==
    ASSUME RelayInv, NEW r \in Names, Relay(r)
    PROVE  RelayInv'
<1>1. /\ r \in publishing /\ publishing' = publishing \ {r}
      /\ heard' = [s \in Subscribers |-> heard[s] + (IF s \in subscribers THEN 1 ELSE 0)]
      /\ UNCHANGED <<subscribers, emitter, built, mListeners, ticks, relays, due, dangled, crashed>>
      /\ heard \in [Subscribers -> Nat] /\ due \subseteq subscribers
      /\ subscribers \subseteq Subscribers
  BY DEF Relay, emitterVars, RelayInv, TypeOK
<1>2. heard' \in [Subscribers -> Nat]
  BY <1>1
<1>3. TypeOK'
  BY <1>1, <1>2 DEF RelayInv, TypeOK
<1>4. Promised'
  <2>1. \A s \in due : heard'[s] >= 1
    BY <1>1
  <2>. QED  BY <1>1, <2>1 DEF RelayInv, Promised
<1>5. ~dangled' => Delivery'
  <2>. SUFFICES ASSUME ~dangled
                PROVE  Delivery'
    BY <1>1
  <2>1. publishing' = {}
    BY <1>1 DEF RelayInv, Delivery
  <2>2. \A s \in Subscribers : heard'[s] <= 1
    BY <1>1 DEF RelayInv, Delivery
  <2>. QED  BY <2>1, <2>2 DEF Delivery
<1>. QED  BY <1>1, <1>3, <1>4, <1>5 DEF RelayInv, Emitter, Waiting, Connected

\* The relay that is passed over has gone: it is not that of an emitter with
\* anyone who has to hear.
LEMMA SkipRemovedKeeps ==
    ASSUME RelayInv, NEW r \in Names, SkipRemoved(r)
    PROVE  RelayInv'
<1>1. /\ r \in publishing /\ r \notin relays /\ publishing' = publishing \ {r}
      /\ UNCHANGED << subscribers, emitter, built, mListeners, ticks, relays, heard, due,
                      dangled, crashed >>
  BY DEF SkipRemoved, emitterVars
<1>2. TypeOK' /\ Promised'
  BY <1>1 DEF RelayInv, TypeOK, Promised
<1>3. ~dangled' => Delivery'
  BY <1>1 DEF RelayInv, Delivery
<1>. QED  BY <1>1, <1>2, <1>3 DEF RelayInv, Emitter, Waiting, Connected

-----------------------------------------------------------------------------
(* The theorems about the relay.                                           *)

LEMMA InitRelayInv == Init => RelayInv
<1>. SUFFICES ASSUME Init
              PROVE  RelayInv
  OBVIOUS
<1>1. TypeOK
  <2>1. [s \in Subscribers |-> 0] \in [Subscribers -> Nat]
    OBVIOUS
  <2>2. <<>> \in Seq(Names) /\ 0 \in 0..MaxEmitters
    BY RelayAssumption
  <2>. QED  BY <2>1, <2>2 DEF Init, TypeOK
<1>2. Emitter /\ Waiting /\ Promised
  BY DEF Init, Emitter, Waiting, Promised
<1>3. Connected /\ Delivery
  BY DEF Init, Connected, Delivery
<1>. QED  BY <1>1, <1>2, <1>3 DEF RelayInv

LEMMA NextRelayInv == RelayInv /\ [Next]_vars => RelayInv'
<1>. SUFFICES ASSUME RelayInv, [Next]_vars
              PROVE  RelayInv'
  OBVIOUS
<1>1. ASSUME NEW s \in Subscribers, Subscribe(s) \/ Unsubscribe(s)
      PROVE  RelayInv'
  BY <1>1, SubscribeKeeps, UnsubscribeKeeps
<1>2. CASE Tick
  BY <1>2, TickKeeps
<1>3. ASSUME NEW toPlayer \in BOOLEAN, SendClose(toPlayer)
      PROVE  RelayInv'
  BY <1>3, SendCloseKeeps
<1>4. ASSUME NEW r \in Names, Relay(r) \/ SkipRemoved(r)
      PROVE  RelayInv'
  BY <1>4, RelayKeeps, SkipRemovedKeeps
<1>5. CASE UNCHANGED vars
  BY <1>5 DEF vars, emitterVars, packetVars, RelayInv, TypeOK, Emitter, Waiting, Promised,
              Connected, Delivery
<1>. QED  BY <1>1, <1>2, <1>3, <1>4, <1>5 DEF Next

LEMMA RelayInductive == Spec => []RelayInv
BY InitRelayInv, NextRelayInv, PTL DEF Spec

\* Whatever a lambda does to an emitter that is gone, an emitter has only relays
\* in its list that are on the packet event.
THEOREM TypeCorrect == Spec => []TypeOK
<1>1. RelayInv => TypeOK
  BY DEF RelayInv
<1>. QED  BY <1>1, RelayInductive, PTL

\* For any subscribers and however many emitters have come and gone: once no
\* lambda waits, those who listen have their emitter's relay, also after a
\* lambda has met a destroyed one; if none has, there is no other.
THEOREM Settles == Spec => []Settled
<1>1. RelayInv => Settled
  <2>. SUFFICES ASSUME RelayInv, ticks = <<>>
                PROVE  /\ subscribers # {} => emitter \in mListeners
                       /\ ~dangled => relays = IF subscribers = {} THEN {} ELSE {emitter}
    BY DEF Settled
  <2>1. Len(ticks) = 0
    OBVIOUS
  <2>2. subscribers # {} => emitter \in mListeners
    BY <2>1 DEF RelayInv, Emitter, Waiting
  <2>3. ~dangled => relays = IF subscribers = {} THEN {} ELSE {emitter}
    BY <2>2 DEF RelayInv, Emitter, Connected
  <2>. QED  BY <2>2, <2>3
<1>. QED  BY <1>1, RelayInductive, PTL

\* A close packet is heard of by each subscriber that had a relay and stayed,
\* though relays and subscribers come and go while it is published, and, as long
\* as no lambda has met a destroyed emitter, by nobody twice.
THEOREM HearsOnce == Spec => []HeardOnce
<1>1. RelayInv => HeardOnce
  BY DEF RelayInv, TypeOK, HeardOnce, Promised, Delivery
<1>. QED  BY <1>1, RelayInductive, PTL

-----------------------------------------------------------------------------
(* The table of hooks.                                                     *)

Asks == {"before", "front", "back"}
Publishes == {"before", "notice", "front", "back"}
Reports == {"after", "afterFront", "afterBack"}
Steps == Publishes \union Reports \union
    { "applies", "found", "possible", "fits", "veto", "override", "origin", "happened",
      "undo", "remains", "leave" }

\* The steps ahead of step p have one of S among them; those between i and p
\* are calls of the engine.
Passed(f, p, S) == \E i \in 1..(p - 1) : f[i] \in S
OnlyOrigin(f, i, p) == \A k \in (i + 1)..(p - 1) : f[k] = "origin"

\* A hook publishes at most twice before and twice after, and a side of a sign
\* after only where it does so before.
Formed(f) ==
    /\ f \in Seq(Steps) /\ f # <<>>
    /\ \A i, j, k \in DOMAIN f : i < j /\ j < k =>
         /\ ~ {f[i], f[j], f[k]} \subseteq Publishes
         /\ ~ {f[i], f[j], f[k]} \subseteq Reports
    /\ \A side \in Sides : \A i, j \in DOMAIN f :
         f[i] = side /\ f[j] = AfterOf[side] => i < j

\* An answer is heeded ahead of everything but the engine; where the engine
\* comes first, by taking back what it has done.
Heeds(f) ==
    \A i \in DOMAIN f : f[i] \in Asks =>
        /\ i < Len(f)
        /\ \A k \in (i + 1)..Len(f) : OnlyOrigin(f, i, k) =>
             \/ f[k] = "origin" /\ k < Len(f)
             \/ f[k] \in {"undo", "override"}
             \/ f[k] \in {"veto", "leave"} /\ ~ Passed(f, k, {"origin"})

\* After comes when the engine has been asked, and the answer tested.
Concludes(f) ==
    /\ \A i \in DOMAIN f : f[i] \in Reports =>
         /\ Passed(f, i, {"origin"})
         /\ Passed(f, Len(f) + 1, {"happened"}) => Passed(f, i, {"happened"})
    /\ \A i, j \in DOMAIN f : f[i] = "happened" /\ f[j] = "origin" => j < i

\* Once the engine has acted, the hook is only left by what has been undone, and
\* goes on to each side it has announced.
Announces(f) ==
    /\ ~ Passed(f, Len(f) + 1, {"fits"})
    /\ \A i \in DOMAIN f : f[i] \in {"leave", "veto", "found"} => ~ Passed(f, i, {"origin"})
    /\ \A side \in Sides :
         Passed(f, Len(f) + 1, {side}) => Passed(f, Len(f) + 1, {AfterOf[side]})

\* The engine is asked, unless a listener stops it.
Reaches(f) ==
    /\ Passed(f, Len(f) + 1, {"origin"})
    /\ \A i \in DOMAIN f : f[i] \in {"leave", "happened", "found"} => Passed(f, i, {"origin"})

\* Hooks that do not announce what the engine does, and those that stop a call
\* by themselves.
Quiet == {"FireworkRocketDealDamage", "RakNetPong", "NetherNetPong"}
Shut == {"ClientLogin", "InventoryDrop"}

\* A hook keeps what it is not exempt from.
FlowOK(h, f) ==
    /\ Formed(f)
    /\ h \notin Unread => Heeds(f)
    /\ h \notin Early => Concludes(f)
    /\ h \notin Quiet => Announces(f)
    /\ h \notin Shut => Reaches(f)

Sound(f) == Formed(f) /\ Heeds(f) /\ Concludes(f) /\ Announces(f) /\ Reaches(f)

LEMMA SoundIsOK == ASSUME NEW h, NEW f, Sound(f) PROVE FlowOK(h, f)
BY DEF Sound, FlowOK

\* The order in which most hooks do their work.
LEMMA AskedFirst ==
    /\ Sound(<<"before", "veto", "origin", "after">>)
    /\ Sound(<<"applies", "before", "veto", "origin", "after">>)
    /\ Sound(<<"before", "veto", "origin", "happened", "after">>)
    /\ Sound(<<"applies", "before", "veto", "origin", "happened", "after">>)
    /\ Sound(<<"applies", "possible", "before", "veto", "origin", "happened", "after">>)
    /\ Sound(<<"possible", "before", "veto", "origin", "after">>)
    /\ Sound(<<"before", "veto", "origin">>)
    /\ Sound(<<"notice", "origin", "after">>)
    /\ Sound(<<"applies", "before", "override", "origin">>)
BY DEF Sound, Formed, Heeds, Concludes, Announces, Reaches, Passed, OnlyOrigin,
       Steps, Asks, Publishes, Reports, Sides, AfterOf

\* The engine first.
LEMMA AskedLater ==
    /\ Sound(<<"origin", "after">>)
    /\ Sound(<<"origin", "happened", "after">>)
    /\ Sound(<<"origin", "happened", "before", "undo", "remains", "after">>)
    /\ Sound(<<"origin", "happened", "before", "undo", "after">>)
    /\ Sound(<<"origin", "happened", "before", "undo">>)
    /\ Sound(<<"applies", "before", "origin", "undo", "happened", "after">>)
    /\ Sound(<<"applies", "origin", "happened", "before", "undo", "after">>)
BY DEF Sound, Formed, Heeds, Concludes, Announces, Reaches, Passed, OnlyOrigin,
       Steps, Asks, Publishes, Reports, Sides, AfterOf

LEMMA AskedTwice ==
    Sound(<<"applies", "front", "veto", "back", "veto", "origin", "afterFront", "afterBack">>)
BY DEF Sound, Formed, Heeds, Concludes, Announces, Reaches, Passed, OnlyOrigin,
       Steps, Asks, Publishes, Reports, Sides, AfterOf

LEMMA OddFlows ==
    /\ FlowOK("ActorPickupItem", ActorPickupItem)
    /\ FlowOK("MobHurtEffect", MobHurtEffect)
    /\ FlowOK("FireworkRocketDealDamage", FireworkRocketDealDamage)
    /\ FlowOK("ClientLogin", ClientLogin)
    /\ FlowOK("RakNetPong", RakNetPong)
    /\ FlowOK("NetherNetPong", NetherNetPong)
BY DEF FlowOK, Formed, Heeds, Concludes, Announces, Reaches, Passed, OnlyOrigin,
       Steps, Asks, Publishes, Reports, Sides, AfterOf, Quiet, Shut, Unread, Early,
       ActorPickupItem, MobHurtEffect, FireworkRocketDealDamage,
       ClientLogin, RakNetPong, NetherNetPong

LEMMA DropFlow == FlowOK("InventoryDrop", InventoryDrop)
BY DEF FlowOK, Formed, Heeds, Concludes, Announces, Reaches, Passed, OnlyOrigin,
       Steps, Asks, Publishes, Reports, Sides, AfterOf, Quiet, Shut, InventoryDrop

LEMMA SoundFlows ==
    /\ Sound(ActorGetEffect) /\ Sound(ActorTick)
    /\ Sound(PlayerAttackBlock) /\ Sound(LevelTick)
    /\ Sound(WeatherUpdate) /\ Sound(BlockTick)
    /\ Sound(FarmDecay) /\ Sound(BlockActorTick)
    /\ Sound(WitherDestroy) /\ Sound(RequestItemTransfer)
    /\ Sound(RequestItemRemoval) /\ Sound(RequestItemCraft)
    /\ Sound(PlayerStartSleep) /\ Sound(SculkBlockGrowth)
    /\ Sound(SculkCatalystAbsorbExperience) /\ Sound(ItemFrameUse)
    /\ Sound(ItemFrameBreak) /\ Sound(PlayerAte)
    /\ Sound(ObserverPulse) /\ Sound(ActorTriggerPressurePlate)
    /\ Sound(MobHealthChange) /\ Sound(PlayerDrop)
    /\ Sound(PlayerInteractEntity) /\ Sound(SpawnItemActor)
    /\ Sound(FireTryBurnBlock) /\ Sound(PistonPush)
    /\ Sound(MossGrowth) /\ Sound(ChestPairWith)
    /\ Sound(ActorRide) /\ Sound(DragonRespawn)
    /\ Sound(PlayerChangeGameType)
    /\ Sound(PlayerOpenContainer) /\ Sound(ItemFrameTake)
    /\ Sound(LiquidFlow) /\ Sound(BlockFall)
    /\ Sound(DragonEggBlockTeleport) /\ Sound(PlayerChangeSlot)
    /\ Sound(IsVillageChunk) /\ Sound(PlayerChangeDimension)
    /\ Sound(PlayerStopSleep) /\ Sound(RegisterCmd)
    /\ Sound(VillageFeatureConstruction)
    /\ Sound(ActorDimensionChanged) /\ Sound(ProjectileCreate)
    /\ Sound(SculkSpread) /\ Sound(DeathMessage)
    /\ Sound(CanChangeDimension) /\ Sound(ArmorStandSwapItem)
    /\ Sound(PlayerEditSign) /\ Sound(ActorDestroyBlock)
    /\ Sound(HttpJoinInfo)
BY AskedFirst, AskedLater, AskedTwice DEF ActorGetEffect, ActorTick,
       PlayerAttackBlock, LevelTick, WeatherUpdate,
       BlockTick, FarmDecay, BlockActorTick, WitherDestroy,
       RequestItemTransfer, RequestItemRemoval, RequestItemCraft,
       PlayerStartSleep, SculkBlockGrowth,
       SculkCatalystAbsorbExperience, ItemFrameUse,
       ItemFrameBreak, PlayerAte, ObserverPulse,
       ActorTriggerPressurePlate, MobHealthChange, PlayerDrop,
       PlayerInteractEntity, SpawnItemActor, FireTryBurnBlock,
       PistonPush, MossGrowth, ChestPairWith, ActorRide,
       DragonRespawn, PlayerChangeGameType,
       PlayerOpenContainer, ItemFrameTake, LiquidFlow,
       BlockFall, DragonEggBlockTeleport, PlayerChangeSlot,
       IsVillageChunk, PlayerChangeDimension, PlayerStopSleep,
       RegisterCmd, VillageFeatureConstruction,
       ActorDimensionChanged, ProjectileCreate, SculkSpread,
       DeathMessage, CanChangeDimension, ArmorStandSwapItem,
       PlayerEditSign, ActorDestroyBlock, HttpJoinInfo

LEMMA FlowsOK == \A h \in Hooks : FlowOK(h, Flow[h])
BY SoundIsOK, SoundFlows, OddFlows, DropFlow DEF Hooks, Flow

-----------------------------------------------------------------------------
(* One call of one hook.                                                   *)

F == Flow[hook]

\* The sides of a sign: announced before behind their steps, and after too.
SignRunning(p) ==
    /\ edited \subseteq Sides /\ followed \subseteq edited
    /\ \A side \in edited :
         /\ Passed(F, p, {side})
         /\ Passed(F, p, {AfterOf[side]}) => side \in followed

\* What is so when the steps ahead of p have been made, and none has returned.
Running(p) ==
    /\ outside = FALSE /\ threw = FALSE /\ cancelled \in BOOLEAN
    /\ effect \in Outcomes \union {"none"}
    /\ effect = "none" <=> ~ Passed(F, p, {"origin"})
    /\ hook \notin Early /\ Passed(F, p, {"happened"}) => effect = "done"
    /\ hook \notin Unread /\ cancelled =>
         \E i \in 1..(p - 1) : F[i] \in Asks /\ OnlyOrigin(F, i, p)
    /\ told \in 0..2 /\ reported \in 0..2
    /\ told >= 1 => Passed(F, p, Publishes)
    /\ told >= 2 => \E i, j \in 1..(p - 1) : i < j /\ {F[i], F[j]} \subseteq Publishes
    /\ Passed(F, p, {"before", "notice"}) => told >= 1
    /\ reported >= 1 => Passed(F, p, Reports)
    /\ reported >= 2 => \E i, j \in 1..(p - 1) : i < j /\ {F[i], F[j]} \subseteq Reports
    /\ Passed(F, p, {"after"}) => reported >= 1
    /\ SignRunning(p)

\* What is so when it has returned.
Over ==
    /\ cancelled /\ ~threw /\ hook \notin Unread => effect \notin Outcomes
    /\ effect = "done" /\ ~outside /\ ~threw /\ hook \notin Quiet =>
         /\ Passed(F, Len(F) + 1, {"before", "notice"}) => told >= 1
         /\ Passed(F, Len(F) + 1, {"after"}) => reported >= 1
         /\ followed = edited
    /\ effect = "none" /\ ~outside /\ hook \notin Shut => cancelled

HookInv ==
    /\ HookTypeOK
    /\ pc # Returned => Running(pc)
    /\ pc = Returned => Over

LEMMA FlowFacts ==
    ASSUME hook \in Hooks
    PROVE  /\ FlowOK(hook, F) /\ Formed(F)
           /\ F \in Seq(Steps) /\ Len(F) \in Nat /\ Len(F) >= 1 /\ DOMAIN F = 1..Len(F)
<1>1. FlowOK(hook, F) /\ Formed(F)
  BY FlowsOK DEF F, FlowOK
<1>. QED  BY <1>1 DEF Formed

LEMMA PassedNext ==
    ASSUME NEW f, NEW p \in Nat, NEW S, p >= 1
    PROVE  Passed(f, p + 1, S) <=> Passed(f, p, S) \/ f[p] \in S
BY DEF Passed

LEMMA NextStep ==
    ASSUME NEW n \in Nat, NEW p \in 1..n
    PROVE  (p + 1) % (n + 1) = IF p = n THEN 0 ELSE p + 1
OBVIOUS

\* A call that is cancelled is about to be heeded.
LEMMA Heeded ==
    ASSUME NEW p \in 1..Len(F), hook \in Hooks, Running(p),
           hook \notin Unread, cancelled
    PROVE  \/ F[p] = "origin" /\ p < Len(F)
           \/ F[p] \in {"undo", "override"}
           \/ F[p] \in {"veto", "leave"} /\ effect = "none"
<1>1. Heeds(F) /\ Len(F) \in Nat /\ DOMAIN F = 1..Len(F)
  BY FlowFacts DEF FlowOK
<1>2. PICK i \in 1..(p - 1) : F[i] \in Asks /\ OnlyOrigin(F, i, p)
  BY DEF Running
<1>3. i \in DOMAIN F /\ p \in (i + 1)..Len(F)
  BY <1>1
<1>. QED  BY <1>1, <1>2, <1>3 DEF Heeds, Running

LEMMA ReturnKeeps ==
    ASSUME HookInv, pc # Returned, Return, hook' = hook,
           cancelled' = cancelled, told' = told, reported' = reported,
           effect' \in Effects, outside' \in BOOLEAN, threw' \in BOOLEAN, Over',
           UNCHANGED signVars
    PROVE  HookInv'
<1>1. hook \in Hooks /\ F' = F /\ Len(F) \in Nat /\ pc' = 0 /\ 0 \in 0..Len(F)
  BY FlowFacts DEF HookInv, HookTypeOK, F, Return, Returned
<1>2. HookTypeOK'
  BY <1>1 DEF HookInv, HookTypeOK, F, signVars
<1>. QED  BY <1>1, <1>2 DEF HookInv, Returned

\* A call that has made its last step is over.
LEMMA RanOut ==
    ASSUME hook \in Hooks, hook' = hook, Running(Len(F) + 1)'
    PROVE  Over'
<1>. DEFINE n == Len(F)
<1>1. F' = F /\ FlowOK(hook, F) /\ n \in Nat /\ n >= 1 /\ DOMAIN F = 1..n
  BY FlowFacts DEF F
<1>2. ASSUME hook \notin Unread, cancelled'
      PROVE  FALSE
  <2>1. PICK i \in 1..n : F[i] \in Asks /\ OnlyOrigin(F, i, n + 1)
    BY <1>1, <1>2 DEF Running
  <2>2. Heeds(F)
    BY <1>1, <1>2 DEF FlowOK
  <2>3. i < n /\ n \in (i + 1)..Len(F)
    BY <1>1, <2>1, <2>2 DEF Heeds
  <2>4. OnlyOrigin(F, i, n) /\ F[n] = "origin"
    BY <1>1, <2>1, <2>3 DEF OnlyOrigin
  <2>. QED  BY <1>1, <2>1, <2>2, <2>3, <2>4 DEF Heeds
<1>3. hook \notin Shut => effect' # "none"
  BY <1>1 DEF FlowOK, Reaches, Running
<1>4. hook \notin Quiet => followed' = edited'
  <2>. SUFFICES ASSUME hook \notin Quiet, NEW side \in edited'
                PROVE  side \in followed'
    BY DEF Running, SignRunning
  <2>1. side \in Sides /\ Passed(F, n + 1, {side})
    BY <1>1 DEF Running, SignRunning
  <2>2. Passed(F, n + 1, {AfterOf[side]})
    BY <1>1, <2>1 DEF FlowOK, Announces
  <2>. QED  BY <1>1, <2>2 DEF Running, SignRunning
<1>. QED  BY <1>1, <1>2, <1>3, <1>4 DEF Over, Running

LEMMA ContinueKeeps ==
    ASSUME HookInv, NEW p \in 1..Len(F), pc = p, Continue, hook' = hook,
           Running(p + 1)'
    PROVE  HookInv'
<1>1. /\ hook \in Hooks /\ F' = F /\ Len(F) \in Nat
      /\ pc' = IF p = Len(F) THEN 0 ELSE p + 1
  BY FlowFacts, NextStep DEF HookInv, HookTypeOK, F, Continue
<1>2. HookTypeOK'
  <2>1. pc' \in 0..Len(F')
    BY <1>1
  <2>. QED  BY <1>1, <2>1 DEF HookTypeOK, F, Running, SignRunning, Effects
<1>3. CASE p = Len(F)
  BY <1>1, <1>2, <1>3, RanOut DEF HookInv, Returned
<1>4. CASE p # Len(F)
  BY <1>1, <1>2, <1>4 DEF HookInv, Returned
<1>. QED  BY <1>3, <1>4

\* The state ahead of a step, and what passing it adds.
LEMMA Ahead ==
    ASSUME HookInv, NEW step, At(step)
    PROVE  /\ pc \in 1..Len(F) /\ pc # Returned /\ F[pc] = step
           /\ Running(pc) /\ hook \in Hooks
           /\ \A S : Passed(F, pc + 1, S) <=> Passed(F, pc, S) \/ step \in S
<1>1. /\ pc \in 0..Len(F) /\ pc # 0 /\ F[pc] = step /\ hook \in Hooks
      /\ Running(pc) /\ Len(F) \in Nat
  BY FlowFacts DEF HookInv, HookTypeOK, At, Returned, F
<1>. QED  BY <1>1, PassedNext DEF Returned

\* A step that leaves the flag, and of which nothing else is said here, is
\* passed by a call that has not been cancelled.
LEMMA NotCancelled ==
    ASSUME HookInv, NEW step, At(step), hook \notin Unread,
           step \notin {"origin", "undo", "override", "veto", "leave"}
    PROVE  cancelled = FALSE
BY Ahead, Heeded DEF Running

\* The steps of a sign are told from the others by their names.
LEMMA SignSteps ==
    ASSUME NEW side \in Sides
    PROVE  /\ side \in Publishes \intersect Asks /\ AfterOf[side] \in Reports \ {"after"}
           /\ AfterOf[side] \notin Publishes
           /\ \A other \in Sides : AfterOf[other] = AfterOf[side] => other = side
BY DEF Sides, AfterOf, Publishes, Asks, Reports

\* A step that is none of a sign, or is of a side that was not edited, is no
\* matter to the sides.
LEMMA SignKept ==
    ASSUME HookInv, NEW p, p = pc, NEW step, At(step), hook' = hook, UNCHANGED signVars,
           step \in {"afterFront", "afterBack"} => \A side \in edited : step # AfterOf[side]
    PROVE  SignRunning(p + 1)'
<1>1. /\ SignRunning(p) /\ F' = F
      /\ \A S : Passed(F, p + 1, S) <=> Passed(F, p, S) \/ step \in S
  BY Ahead DEF Running, F
<1>2. edited' = edited /\ followed' = followed
  BY DEF signVars
<1>3. \A side \in edited : step # AfterOf[side]
  BY <1>1 DEF SignRunning, Sides, AfterOf
<1>. QED  BY <1>1, <1>2, <1>3 DEF SignRunning

-----------------------------------------------------------------------------
(* Each step keeps the invariant.                                          *)

\* Steps that let the call pass and change nothing.
LEMMA PassesOn ==
    ASSUME HookInv, NEW step, At(step), cancelled = FALSE \/ hook \in Unread,
           step \notin {"origin", "before", "notice", "after"},
           step = "happened" => effect = "done",
           step \in {"afterFront", "afterBack"} => \A side \in edited : step # AfterOf[side],
           Continue,
           UNCHANGED <<hook, cancelled, effect, told, reported, outside, threw, signVars>>
    PROVE  HookInv'
<1>1. PICK p \in 1..Len(F) : p = pc
  BY Ahead
<1>2. /\ Running(p) /\ F' = F /\ F[p] = step /\ pc # Returned
      /\ \A S : Passed(F, p + 1, S) <=> Passed(F, p, S) \/ step \in S
  BY <1>1, Ahead DEF F
<1>3. told >= 2 => \E i, j \in 1..((p + 1) - 1) : i < j /\ {F[i], F[j]} \subseteq Publishes
  BY <1>2 DEF Running
<1>4. reported >= 2 => \E i, j \in 1..((p + 1) - 1) : i < j /\ {F[i], F[j]} \subseteq Reports
  BY <1>2 DEF Running
<1>5. SignRunning(p + 1)'
  BY <1>1, SignKept DEF signVars
<1>6. Running(p + 1)'
  BY <1>2, <1>3, <1>4, <1>5 DEF Running
<1>. QED  BY <1>1, <1>6, ContinueKeeps

LEMMA CallKeeps == ASSUME HookInv, Call PROVE HookInv'
<1>1. /\ pc' = 1 /\ hook' \in Hooks /\ cancelled' = FALSE /\ effect' = "none"
      /\ told' = 0 /\ reported' = 0 /\ outside' = FALSE /\ threw' = FALSE
      /\ edited' = {} /\ followed' = {}
  BY DEF Call
<1>2. FlowOK(hook', F') /\ F' \in Seq(Steps) /\ F' # <<>>
  BY <1>1, FlowsOK DEF F, FlowOK, Formed
<1>3. cancelled' \in BOOLEAN /\ outside' \in BOOLEAN /\ threw' \in BOOLEAN
  BY <1>1
<1>4. told' \in 0..2 /\ reported' \in 0..2 /\ effect' \in Effects
  BY <1>1 DEF Effects
<1>5. Running(1)'
  <2>1. \A S : ~ Passed(F', 1, S)
    BY DEF Passed
  <2>. QED  BY <1>1, <1>3, <1>4, <2>1 DEF Running, SignRunning
<1>6. HookTypeOK'
  <2>1. pc' \in 0..Len(F')
    BY <1>1, <1>2
  <2>. QED  BY <1>1, <1>3, <1>4, <2>1 DEF HookTypeOK, F
<1>. QED  BY <1>1, <1>5, <1>6 DEF HookInv, Returned

LEMMA AppliesKeeps == ASSUME HookInv, Applies PROVE HookInv'
<1>1. cancelled = FALSE \/ hook \in Unread
  BY NotCancelled DEF Applies
<1>2. CASE Continue /\ UNCHANGED <<effect, outside>>
  BY <1>1, <1>2, PassesOn DEF Applies, signVars
<1>3. CASE Return /\ effect' \in Outcomes /\ outside' = TRUE
  <2>1. Over'
    BY <1>1, <1>3 DEF Over, Applies, Outcomes
  <2>. QED  BY <1>3, <2>1, ReturnKeeps, Ahead DEF Applies, Running, Effects
<1>. QED  BY <1>2, <1>3 DEF Applies

LEMMA PossibleKeeps == ASSUME HookInv, Possible PROVE HookInv'
<1>1. cancelled = FALSE \/ hook \in Unread
  BY NotCancelled DEF Possible
<1>2. CASE Continue /\ UNCHANGED outside
  BY <1>1, <1>2, PassesOn DEF Possible, signVars
<1>3. CASE Return /\ outside' = TRUE
  <2>1. Over'
    BY <1>1, <1>3 DEF Over, Possible
  <2>. QED  BY <1>3, <2>1, ReturnKeeps, Ahead DEF Possible, HookInv, HookTypeOK
<1>. QED  BY <1>2, <1>3 DEF Possible

\* One more publication ahead of the engine.
LEMMA PublishKeeps ==
    ASSUME HookInv, NEW step \in Publishes, At(step), told' = told + 1,
           cancelled' \in BOOLEAN, step = "notice" => cancelled' = cancelled,
           Continue, NEW q, q = pc, SignRunning(q + 1)',
           UNCHANGED <<hook, effect, reported, outside, threw>>
    PROVE  HookInv'
<1>1. PICK p \in 1..Len(F) : p = pc /\ SignRunning(p + 1)'
  BY Ahead
<1>2. /\ Running(p) /\ F' = F /\ F[p] = step /\ pc # Returned /\ hook \in Hooks
      /\ \A S : Passed(F, p + 1, S) <=> Passed(F, p, S) \/ step \in S
  BY <1>1, Ahead DEF F
<1>3. Formed(F) /\ DOMAIN F = 1..Len(F) /\ Len(F) \in Nat
  BY <1>2, FlowFacts
<1>4. told <= 1
  BY <1>2, <1>3 DEF Running, Formed
<1>5. told' >= 2 => \E i, j \in 1..((p + 1) - 1) : i < j /\ {F[i], F[j]} \subseteq Publishes
  BY <1>2, <1>3, <1>4 DEF Running, Passed
<1>6. hook \notin Unread /\ cancelled' =>
        \E i \in 1..((p + 1) - 1) : F[i] \in Asks /\ OnlyOrigin(F, i, p + 1)
  <2>1. CASE step = "notice"
    BY <1>1, <1>2, <2>1, NotCancelled
  <2>2. CASE step # "notice"
    <3>1. F[p] \in Asks /\ OnlyOrigin(F, p, p + 1) /\ p \in 1..((p + 1) - 1)
      BY <1>2, <2>2 DEF Publishes, Asks, OnlyOrigin
    <3>. QED  BY <3>1
  <2>. QED  BY <2>1, <2>2
<1>7. reported >= 2 => \E i, j \in 1..((p + 1) - 1) : i < j /\ {F[i], F[j]} \subseteq Reports
  BY <1>2 DEF Running
<1>8. step \notin Reports /\ step \notin {"origin", "happened"}
  BY DEF Publishes, Reports
<1>9. Running(p + 1)'
  BY <1>1, <1>2, <1>4, <1>5, <1>6, <1>7, <1>8 DEF Running, Reports
<1>. QED  BY <1>1, <1>9, ContinueKeeps

LEMMA BeforeKeeps == ASSUME HookInv, Before PROVE HookInv'
<1>1. PICK p \in 1..Len(F) : p = pc
  BY Ahead DEF Before
<1>2. SignRunning(p + 1)'
  BY <1>1, SignKept DEF Before
<1>3. "before" \in Publishes
  BY DEF Publishes
<1>. QED  BY <1>1, <1>2, <1>3, PublishKeeps DEF Before

LEMMA NoticeKeeps == ASSUME HookInv, Notice PROVE HookInv'
<1>1. PICK p \in 1..Len(F) : p = pc
  BY Ahead DEF Notice
<1>2. SignRunning(p + 1)'
  BY <1>1, SignKept DEF Notice
<1>3. "notice" \in Publishes
  BY DEF Publishes
<1>. QED  BY <1>1, <1>2, <1>3, PublishKeeps DEF Notice, HookInv, HookTypeOK

LEMMA SideKeeps == ASSUME HookInv, NEW side \in Sides, Side(side) PROVE HookInv'
<1>1. PICK p \in 1..Len(F) : p = pc
  BY Ahead DEF Side
<1>2. /\ Running(p) /\ F[p] = side /\ Formed(F) /\ F' = F
      /\ DOMAIN F = 1..Len(F) /\ Len(F) \in Nat
      /\ \A S : Passed(F, p + 1, S) <=> Passed(F, p, S) \/ side \in S
  BY <1>1, Ahead, FlowFacts DEF Side, F
<1>3. CASE cancelled' \in BOOLEAN /\ told' = told + 1 /\ edited' = edited \union {side}
  <2>1. ~ Passed(F, p + 1, {AfterOf[side]})
    <3>1. ~ Passed(F, p, {AfterOf[side]})
      BY <1>1, <1>2 DEF Passed, Formed
    <3>. QED  BY <1>2, <3>1, SignSteps
  <2>2. \A other \in Sides : side # AfterOf[other]
    BY SignSteps
  <2>3. followed' = followed
    BY DEF Side
  <2>4. \A S : Passed(F', p + 1, S) <=> Passed(F, p, S) \/ side \in S
    BY <1>2
  <2>5. ~ Passed(F', p + 1, {AfterOf[side]})
    BY <1>2, <2>1
  <2>6. SignRunning(p + 1)'
    <3>1. edited' \subseteq Sides /\ followed' \subseteq edited'
      BY <1>2, <1>3, <2>3 DEF Running, SignRunning
    <3>2. ASSUME NEW other \in edited', other # side
          PROVE  /\ Passed(F', p + 1, {other})
                 /\ Passed(F', p + 1, {AfterOf[other]}) => other \in followed'
      BY <1>2, <1>3, <2>2, <2>3, <2>4, <3>1, <3>2 DEF Running, SignRunning
    <3>3. Passed(F', p + 1, {side})
      BY <2>4
    <3>. QED  BY <2>5, <3>1, <3>2, <3>3 DEF SignRunning
  <2>7. side \in Publishes /\ side # "notice"
    BY DEF Sides, Publishes
  <2>. QED  BY <1>1, <1>3, <2>6, <2>7, PublishKeeps DEF Side
<1>4. CASE UNCHANGED <<cancelled, told, edited>>
  <2>1. side \notin {"origin", "before", "notice", "after", "undo", "override", "veto",
                     "leave", "happened", "afterFront", "afterBack"}
    BY DEF Sides
  <2>2. cancelled = FALSE \/ hook \in Unread
    BY <2>1, NotCancelled DEF Side
  <2>. QED  BY <1>4, <2>1, <2>2, PassesOn DEF Side, signVars
<1>. QED  BY <1>3, <1>4 DEF Side

LEMMA FoundKeeps == ASSUME HookInv, Found PROVE HookInv'
<1>1. cancelled = FALSE \/ hook \in Unread
  BY NotCancelled DEF Found
<1>2. CASE Continue
  BY <1>1, <1>2, PassesOn DEF Found, signVars
<1>3. CASE Return
  <2>1. hook \in Hooks /\ pc \in 1..Len(F) /\ F[pc] = "found" /\ Running(pc)
    BY Ahead DEF Found
  <2>2. hook \notin Quiet => effect = "none"
    BY <2>1, FlowFacts DEF FlowOK, Announces, Running
  <2>3. hook \notin Shut => effect # "none"
    BY <2>1, FlowFacts DEF FlowOK, Reaches, Running
  <2>4. Over'
    BY <1>1, <2>2, <2>3 DEF Over, Found, Outcomes
  <2>. QED  BY <1>3, <2>4, ReturnKeeps, Ahead DEF Found, HookInv, HookTypeOK
<1>. QED  BY <1>2, <1>3 DEF Found

LEMMA VetoKeeps == ASSUME HookInv, Veto PROVE HookInv'
<1>1. CASE cancelled = FALSE
  BY <1>1, PassesOn DEF Veto, signVars
<1>2. CASE cancelled
  <2>1. hook \notin Unread => effect = "none"
    BY <1>2, Ahead, Heeded DEF Veto
  <2>2. hook \notin Quiet => effect = "none"
    <3>1. hook \in Hooks /\ pc \in 1..Len(F) /\ F[pc] = "veto" /\ Running(pc)
      BY Ahead DEF Veto
    <3>. QED  BY <3>1, FlowFacts DEF FlowOK, Announces, Running
  <2>3. Over'
    BY <1>2, <2>1, <2>2 DEF Over, Veto, Outcomes
  <2>. QED  BY <1>2, <2>3, ReturnKeeps, Ahead DEF Veto, HookInv, HookTypeOK
<1>. QED  BY <1>1, <1>2, Ahead DEF Veto, Running

LEMMA OverrideKeeps == ASSUME HookInv, Override PROVE HookInv'
<1>1. CASE cancelled = FALSE
  BY <1>1, PassesOn DEF Override, signVars
<1>2. CASE cancelled
  <2>1. Over'
    BY <1>2 DEF Over, Override, Outcomes
  <2>. QED  BY <1>2, <2>1, ReturnKeeps, Ahead DEF Override, HookInv, HookTypeOK, Effects
<1>. QED  BY <1>1, <1>2, Ahead DEF Override, Running

LEMMA UndoKeeps == ASSUME HookInv, Undo PROVE HookInv'
<1>1. CASE cancelled = FALSE
  BY <1>1, PassesOn DEF Undo, signVars
<1>2. CASE cancelled
  <2>1. Over'
    BY <1>2 DEF Over, Undo, Outcomes
  <2>. QED  BY <1>2, <2>1, ReturnKeeps, Ahead DEF Undo, HookInv, HookTypeOK, Effects
<1>. QED  BY <1>1, <1>2, Ahead DEF Undo, Running

LEMMA RemainsKeeps == ASSUME HookInv, Remains PROVE HookInv'
<1>1. cancelled = FALSE \/ hook \in Unread
  BY NotCancelled DEF Remains
<1>2. CASE Continue /\ UNCHANGED effect
  BY <1>1, <1>2, PassesOn DEF Remains, signVars
<1>3. CASE Return /\ effect' = "undone"
  <2>1. Over'
    BY <1>3 DEF Over, Remains, Outcomes
  <2>. QED  BY <1>3, <2>1, ReturnKeeps, Ahead DEF Remains, HookInv, HookTypeOK, Effects
<1>. QED  BY <1>2, <1>3 DEF Remains

LEMMA FitsKeeps == ASSUME HookInv, Fits PROVE HookInv'
<1>1. cancelled = FALSE \/ hook \in Unread
  BY NotCancelled DEF Fits
<1>2. CASE Continue /\ UNCHANGED effect
  BY <1>1, <1>2, PassesOn DEF Fits, signVars
<1>3. CASE Return /\ effect' \in Outcomes
  <2>1. hook \in Quiet
    <3>1. hook \in Hooks /\ pc \in 1..Len(F) /\ F[pc] = "fits" /\ Len(F) \in Nat
      BY Ahead, FlowFacts DEF Fits
    <3>2. Passed(F, Len(F) + 1, {"fits"})
      BY <3>1 DEF Passed
    <3>. QED  BY <3>1, <3>2, FlowFacts DEF FlowOK, Announces
  <2>2. Over'
    BY <1>1, <1>3, <2>1 DEF Over, Fits, Outcomes
  <2>. QED  BY <1>3, <2>2, ReturnKeeps, Ahead DEF Fits, HookInv, HookTypeOK, Effects
<1>. QED  BY <1>2, <1>3 DEF Fits

LEMMA OriginKeeps == ASSUME HookInv, Origin PROVE HookInv'
<1>1. PICK p \in 1..Len(F) : p = pc
  BY Ahead DEF Origin
<1>2. /\ Running(p) /\ F' = F /\ F[p] = "origin" /\ pc # Returned /\ hook \in Hooks
      /\ \A S : Passed(F, p + 1, S) <=> Passed(F, p, S) \/ "origin" \in S
  BY <1>1, Ahead DEF F, Origin
<1>3. told >= 2 => \E i, j \in 1..((p + 1) - 1) : i < j /\ {F[i], F[j]} \subseteq Publishes
  BY <1>2 DEF Running
<1>4. hook \notin Unread /\ cancelled =>
        \E i \in 1..((p + 1) - 1) : F[i] \in Asks /\ OnlyOrigin(F, i, p + 1)
  BY <1>2 DEF Running, OnlyOrigin
<1>5. hook \notin Early => ~ Passed(F, p + 1, {"happened"})
  <2>1. DOMAIN F = 1..Len(F) /\ Len(F) \in Nat
    BY <1>2, FlowFacts
  <2>. QED  BY <1>2, <2>1, FlowFacts DEF FlowOK, Concludes, Passed
<1>6. reported >= 2 => \E i, j \in 1..((p + 1) - 1) : i < j /\ {F[i], F[j]} \subseteq Reports
  BY <1>2 DEF Running
<1>7. SignRunning(p + 1)'
  BY <1>1, SignKept DEF Origin, signVars
<1>8. "origin" \notin Publishes \union Reports
  BY DEF Publishes, Reports
<1>9. Running(p + 1)'
  BY <1>2, <1>3, <1>4, <1>5, <1>6, <1>7, <1>8 DEF Running, Origin, Outcomes
<1>. QED  BY <1>1, <1>9, ContinueKeeps DEF Origin

LEMMA RescueKeeps == ASSUME HookInv, Rescue PROVE HookInv'
<1>1. Over'
  BY DEF Over, Rescue, Outcomes
<1>2. pc # Returned
  BY DEF Rescue, At
<1>. QED  BY <1>1, <1>2, ReturnKeeps DEF Rescue, HookInv, HookTypeOK, Effects

LEMMA HappenedKeeps == ASSUME HookInv, Happened PROVE HookInv'
<1>1. cancelled = FALSE \/ hook \in Unread
  BY NotCancelled DEF Happened
<1>2. CASE effect = "done"
  BY <1>1, <1>2, PassesOn DEF Happened, signVars
<1>3. CASE effect # "done"
  <2>1. hook \notin Shut => effect # "none"
    <3>1. hook \in Hooks /\ pc \in 1..Len(F) /\ F[pc] = "happened" /\ Running(pc)
      BY Ahead DEF Happened
    <3>. QED  BY <3>1, FlowFacts DEF FlowOK, Reaches, Running
  <2>2. Over'
    BY <1>1, <1>3, <2>1 DEF Over, Happened
  <2>. QED  BY <1>3, <2>2, ReturnKeeps, Ahead DEF Happened, HookInv, HookTypeOK
<1>. QED  BY <1>2, <1>3

\* One more publication after the engine.
LEMMA ReportKeeps ==
    ASSUME HookInv, NEW step \in Reports, At(step), reported' = reported + 1,
           NEW q, q = pc, SignRunning(q + 1)',
           Continue, UNCHANGED <<hook, cancelled, effect, told, outside, threw>>
    PROVE  HookInv'
<1>1. PICK p \in 1..Len(F) : p = pc /\ SignRunning(p + 1)'
  BY Ahead
<1>2. /\ Running(p) /\ F' = F /\ F[p] = step /\ pc # Returned /\ hook \in Hooks
      /\ \A S : Passed(F, p + 1, S) <=> Passed(F, p, S) \/ step \in S
  BY <1>1, Ahead DEF F
<1>3. Formed(F) /\ DOMAIN F = 1..Len(F) /\ Len(F) \in Nat
  BY <1>2, FlowFacts
<1>4. reported <= 1
  BY <1>2, <1>3 DEF Running, Formed
<1>5. reported' >= 2 => \E i, j \in 1..((p + 1) - 1) : i < j /\ {F[i], F[j]} \subseteq Reports
  BY <1>2, <1>3, <1>4 DEF Running, Passed
<1>6. told >= 2 => \E i, j \in 1..((p + 1) - 1) : i < j /\ {F[i], F[j]} \subseteq Publishes
  BY <1>2 DEF Running
<1>7. hook \notin Unread /\ cancelled => FALSE
  BY <1>2, NotCancelled DEF Reports
<1>8. step \notin Publishes /\ step \notin {"origin", "happened"}
  BY DEF Publishes, Reports
<1>9. Running(p + 1)'
  BY <1>1, <1>2, <1>4, <1>5, <1>6, <1>7, <1>8 DEF Running, Publishes
<1>. QED  BY <1>1, <1>9, ContinueKeeps

LEMMA AfterKeeps == ASSUME HookInv, After PROVE HookInv'
<1>1. PICK p \in 1..Len(F) : p = pc
  BY Ahead DEF After
<1>2. SignRunning(p + 1)'
  BY <1>1, SignKept DEF After
<1>3. "after" \in Reports
  BY DEF Reports
<1>. QED  BY <1>1, <1>2, <1>3, ReportKeeps DEF After

LEMMA AfterSideKeeps == ASSUME HookInv, NEW side \in Sides, AfterSide(side) PROVE HookInv'
<1>1. PICK p \in 1..Len(F) : p = pc
  BY Ahead DEF AfterSide
<1>2. /\ Running(p) /\ F[p] = AfterOf[side] /\ F' = F /\ edited' = edited
      /\ \A S : Passed(F, p + 1, S) <=> Passed(F, p, S) \/ AfterOf[side] \in S
  BY <1>1, Ahead DEF AfterSide, F
<1>3. CASE side \in edited
  <2>1. reported' = reported + 1 /\ followed' = followed \union {side}
    BY <1>3 DEF AfterSide
  <2>2. \A S : Passed(F', p + 1, S) <=> Passed(F, p, S) \/ AfterOf[side] \in S
    BY <1>2
  <2>3. SignRunning(p + 1)'
    <3>1. edited' \subseteq Sides /\ followed' \subseteq edited'
      BY <1>2, <1>3, <2>1 DEF Running, SignRunning
    <3>2. ASSUME NEW other \in edited'
          PROVE  /\ Passed(F', p + 1, {other})
                 /\ Passed(F', p + 1, {AfterOf[other]}) => other \in followed'
      BY <1>2, <2>1, <2>2, <3>1, SignSteps DEF Running, SignRunning
    <3>. QED  BY <3>1, <3>2 DEF SignRunning
  <2>4. AfterOf[side] \in Reports
    BY SignSteps
  <2>. QED  BY <1>1, <2>1, <2>3, <2>4, ReportKeeps DEF AfterSide
<1>4. CASE side \notin edited
  <2>1. AfterOf[side] \in {"afterFront", "afterBack"}
    BY DEF Sides, AfterOf
  <2>2. \A other \in edited : AfterOf[side] # AfterOf[other]
    BY <1>2, <1>4, SignSteps DEF Running, SignRunning
  <2>3. cancelled = FALSE \/ hook \in Unread
    BY <2>1, NotCancelled DEF AfterSide
  <2>. QED  BY <1>4, <2>1, <2>2, <2>3, PassesOn DEF AfterSide, signVars
<1>. QED  BY <1>3, <1>4

LEMMA LeaveKeeps == ASSUME HookInv, Leave PROVE HookInv'
<1>1. /\ hook \in Hooks /\ pc \in 1..Len(F) /\ F[pc] = "leave" /\ Running(pc)
      /\ pc # Returned
  BY Ahead DEF Leave
<1>2. hook \notin Unread /\ cancelled => effect = "none"
  BY <1>1, Heeded
<1>3. hook \notin Quiet => effect = "none"
  BY <1>1, FlowFacts DEF FlowOK, Announces, Running
<1>4. hook \notin Shut => effect # "none"
  BY <1>1, FlowFacts DEF FlowOK, Reaches, Running
<1>5. Over'
  BY <1>2, <1>3, <1>4 DEF Over, Leave, Outcomes
<1>. QED  BY <1>1, <1>5, ReturnKeeps DEF Leave, HookInv, HookTypeOK

-----------------------------------------------------------------------------
(* The theorems about the hooks.                                           *)

LEMMA InitHookInv == HookInit => HookInv
<1>. SUFFICES ASSUME HookInit PROVE HookInv
  OBVIOUS
<1>1. /\ pc = 1 /\ hook \in Hooks /\ cancelled = FALSE /\ effect = "none"
      /\ told = 0 /\ reported = 0 /\ outside = FALSE /\ threw = FALSE
      /\ edited = {} /\ followed = {}
  BY DEF HookInit
<1>2. FlowOK(hook, F) /\ F \in Seq(Steps) /\ F # <<>>
  BY <1>1, FlowsOK DEF F, FlowOK, Formed
<1>3. cancelled \in BOOLEAN /\ outside \in BOOLEAN /\ threw \in BOOLEAN
  BY <1>1
<1>4. told \in 0..2 /\ reported \in 0..2 /\ effect \in Effects
  BY <1>1 DEF Effects
<1>5. Running(1)
  <2>1. \A S : ~ Passed(F, 1, S)
    BY DEF Passed
  <2>. QED  BY <1>1, <1>3, <1>4, <2>1 DEF Running, SignRunning
<1>6. HookTypeOK
  <2>1. pc \in 0..Len(F)
    BY <1>1, <1>2
  <2>. QED  BY <1>1, <1>3, <1>4, <2>1 DEF HookTypeOK, F
<1>. QED  BY <1>1, <1>5, <1>6 DEF HookInv, Returned

LEMMA NextHookInv == HookInv /\ [HookNext]_hookVars => HookInv'
<1>. SUFFICES ASSUME HookInv, [HookNext]_hookVars PROVE HookInv'
  OBVIOUS
<1>1. CASE HookNext
  BY <1>1, CallKeeps, AppliesKeeps, PossibleKeeps, BeforeKeeps, NoticeKeeps,
     SideKeeps, AfterSideKeeps, FoundKeeps, VetoKeeps, OverrideKeeps, UndoKeeps, RemainsKeeps, FitsKeeps, OriginKeeps,
     RescueKeeps, HappenedKeeps, AfterKeeps, LeaveKeeps DEF HookNext
<1>2. CASE UNCHANGED hookVars
  <2>1. \A p : Running(p) <=> Running(p)'
    BY <1>2 DEF hookVars, signVars, Running, SignRunning, F, Passed, OnlyOrigin
  <2>2. Over <=> Over'
    BY <1>2 DEF hookVars, signVars, Over, F, Passed
  <2>3. HookTypeOK'
    BY <1>2 DEF hookVars, signVars, HookInv, HookTypeOK
  <2>4. pc' = pc
    BY <1>2 DEF hookVars
  <2>. QED  BY <2>1, <2>2, <2>3, <2>4 DEF HookInv
<1>. QED  BY <1>1, <1>2

LEMMA HookInductive == HookSpec => []HookInv
BY InitHookInv, NextHookInv, PTL DEF HookSpec

\* No hook publishes more than twice, or steps out of its sequence.
THEOREM HookTypeCorrect == HookSpec => []HookTypeOK
<1>1. HookInv => HookTypeOK
  BY DEF HookInv
<1>. QED  BY <1>1, HookInductive, PTL

\* A call that a listener has cancelled leaves nothing done when any of the 58
\* hooks returns, whether the hook asks ahead of the engine or takes back what
\* it did; lost is only the veto of an exception and an answer nobody reads.
THEOREM VetoesDeny == HookSpec => []VetoDenies
<1>1. HookInv => VetoDenies
  BY DEF HookInv, Over, VetoDenies
<1>. QED  BY <1>1, HookInductive, PTL

\* After is only published of a call that was not cancelled, that the engine has
\* been let do and that, where the hook tests it, has happened.
THEOREM AfterIsEarned == HookSpec => AfterFollowsEffect
<1>1. HookInv /\ [HookNext]_hookVars
        => [reported' > reported /\ hook \notin Early
              => /\ ~cancelled
                 /\ effect \in Outcomes
                 /\ Has(hook, "happened") => effect = "done"]_hookVars
  <2>. SUFFICES ASSUME HookInv, HookNext, reported' > reported, hook \notin Early
                PROVE  /\ ~cancelled
                       /\ effect \in Outcomes
                       /\ Has(hook, "happened") => effect = "done"
    OBVIOUS
  <2>1. reported \in 0..2
    BY DEF HookInv, HookTypeOK
  <2>2. PICK step \in Reports : At(step)
    BY <2>1 DEF Reports, HookNext, Call, Applies, Possible, Before,
        Found, Notice, Sides, AfterOf, Side, AfterSide, Veto, Override, Undo, Remains, Fits,
        Origin, Rescue, Happened, After, Leave
  <2>3. pc \in 1..Len(F) /\ F[pc] = step /\ Running(pc) /\ hook \in Hooks
    BY <2>2, Ahead
  <2>4. Concludes(F) /\ DOMAIN F = 1..Len(F) /\ Len(F) \in Nat
    BY <2>3, FlowFacts DEF FlowOK
  <2>5. cancelled = FALSE
    BY <2>2, NotCancelled DEF Reports, Unread, Early
  <2>6. effect \in Outcomes
    BY <2>3, <2>4 DEF Concludes, Running
  <2>7. Has(hook, "happened") => effect = "done"
    <3>1. Has(hook, "happened") => Passed(F, Len(F) + 1, {"happened"})
      BY <2>4 DEF Has, Passed, F
    <3>. QED  BY <2>3, <2>4, <3>1 DEF Concludes, Running
  <2>. QED  BY <2>5, <2>6, <2>7
<1>. QED  BY <1>1, HookInductive, PTL DEF HookSpec, AfterFollowsEffect

\* Where the three hooks of Quiet are exempt, nothing the engine has done in the
\* end has gone unannounced, before or after, nor on a sign's other side.
THEOREM EffectsAnnounced ==
    ASSUME Quiet \subseteq Silent
    PROVE  HookSpec => []EffectAnnounced
<1>1. HookInv => EffectAnnounced
  <2>. SUFFICES ASSUME HookInv, pc = Returned, effect = "done", ~outside, ~threw,
                       hook \notin Silent
                PROVE  /\ Has(hook, "before") \/ Has(hook, "notice") => told > 0
                       /\ Has(hook, "after") => reported > 0
                       /\ followed = edited
    BY DEF EffectAnnounced
  <2>1. /\ Passed(F, Len(F) + 1, {"before", "notice"}) => told > 0
        /\ Passed(F, Len(F) + 1, {"after"}) => reported > 0
        /\ followed = edited
    BY DEF HookInv, Over, HookTypeOK
  <2>2. Len(F) \in Nat
    BY FlowFacts DEF HookInv, HookTypeOK
  <2>. QED  BY <2>1, <2>2 DEF Has, Passed, F
<1>. QED  BY <1>1, HookInductive, PTL

\* Where ClientLogin and InventoryDrop are exempt, a call the event is about that has not reached
\* the engine has been stopped by a listener.
THEOREM OnlyVetoesStop ==
    ASSUME Shut \subseteq Closed
    PROVE  HookSpec => []OnlyVetoStops
<1>1. HookInv => OnlyVetoStops
  BY DEF HookInv, Over, OnlyVetoStops
<1>. QED  BY <1>1, HookInductive, PTL

=============================================================================
