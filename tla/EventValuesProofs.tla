------------------------- MODULE EventValuesProofs -------------------------
(***************************************************************************)
(* Proofs about EventValues.tla for any number of edits: what becomes of   *)
(* the values and the flag that natives and scripts write, and what is     *)
(* shown of them.                                                          *)
(*                                                                         *)
(* What the proofs need to know of the table is RowOK: it is proved of     *)
(* each row once (TableOK), and the rest is about any row that has it.     *)
(***************************************************************************)
EXTENDS EventValues, FiniteSetTheorems, TLAPS

-----------------------------------------------------------------------------
(* The table.                                                              *)

Flags == {"both", "unread", "unwritten", "neither", "none"}

KeysOf(row) == ToSet(row.reads) \union row.carried

\* A listener's answer can get through, and the call is the hook's own.
Talks(row) == row.flag \in {"both", "unwritten", "none"} /\ ~row.relayed

\* What is written is read back as it is.
Mirrors(row) == row.fails = {} /\ row.grows = {} /\ row.flag # "unwritten"

\* A key is sent in its own place, from a reference the engine sees.
Sends(row, key) ==
    /\ key \notin row.local
    /\ key \in DOMAIN row.sent => row.sent[key] = key

\* A key shows what the engine passes, and what it gets.
Shows(row, key) ==
    /\ key \notin row.skewed /\ key \notin row.kept
    /\ key \in row.after => key \notin row.answers /\ key \notin row.lent /\ Sends(row, key)

\* What is written under a key is what the engine gets.
Takes(row, key) ==
    /\ Sends(row, key)
    /\ key \notin row.grows /\ key \notin row.shared
    /\ \A i, j \in DOMAIN row.reads :
           i <= j /\ row.reads[j] = key => row.reads[i] \notin row.fails

\* References to one variable hold the same value.
Alike(row) == row.shared # {} => row.kept = {} /\ row.answers = {}

\* A row makes sense.
Formed(row) ==
    /\ row.reads \in Seq(ToSet(row.reads)) /\ row.flag \in Flags /\ row.relayed \in BOOLEAN
    /\ row.after \subseteq KeysOf(row) /\ "constant" \notin KeysOf(row)
    /\ \A key \in KeysOf(row) \intersect DOMAIN row.sent :
           row.sent[key] \in KeysOf(row) \union {"constant"}
    /\ row.flag = "unwritten" => ToSet(row.reads) = {}

\* It keeps what its event is not exempt from.
RowOK(e, row) ==
    /\ Formed(row) /\ Alike(row)
    /\ e \notin Deaf => Talks(row)
    /\ e \notin OneWay => Mirrors(row)
    /\ \A key \in KeysOf(row) :
         /\ <<e, key>> \notin Misshown => Shows(row, key)
         /\ <<e, key>> \notin Lost => Takes(row, key)

\* Most rows: nothing about them is out of the ordinary.
Plain(row) ==
    /\ row.reads \in Seq(ToSet(row.reads)) /\ row.flag \in {"both", "none"}
    /\ row.relayed = FALSE
    /\ row.skewed = {} /\ row.kept = {} /\ row.local = {} /\ row.answers = {}
    /\ row.fails = {} /\ row.grows = {} /\ row.shared = {} /\ row.lent = {}
    /\ DOMAIN row.sent = {} /\ "constant" \notin ToSet(row.reads)
    /\ row.after \subseteq ToSet(row.reads) /\ row.carried = {}

LEMMA PlainIsOK == ASSUME NEW e, NEW row, Plain(row) PROVE RowOK(e, row)
BY DEF Plain, RowOK, Formed, Alike, KeysOf, Mirrors, Talks, Sends, Shows, Takes, Flags

LEMMA Bare == Plain(Asks(<<>>))
BY DEF Asks, ToSet, Plain

\* Events that show nothing, or nothing to write.
LEMMA BareRows ==
    /\ Plain(ReceivePacket) /\ Plain(FireTryBurnBlock) /\ Plain(ActorTick)
    /\ Plain(ActorRide) /\ Plain(ActorDestroyBlock)
    /\ Plain(ActorTriggerPressurePlate) /\ Plain(ProjectileCreate)
    /\ Plain(DragonRespawn) /\ Plain(PlayerAte) /\ Plain(PlayerChangeSlot)
    /\ Plain(PlayerDropItem) /\ Plain(PlayerOperatedItemFrame)
    /\ Plain(LevelTick) /\ Plain(BlockActorTick)
    /\ Plain(SculkCatalystAbsorbExperience) /\ Plain(CheckVillageChunk)
    /\ Plain(StructureFeatureChunk)
BY Bare DEF ReceivePacket, FireTryBurnBlock, ActorTick, ActorRide,
       ActorDestroyBlock, ActorTriggerPressurePlate, ProjectileCreate,
       DragonRespawn, PlayerAte, PlayerChangeSlot, PlayerDropItem,
       PlayerOperatedItemFrame, LevelTick, BlockActorTick,
       SculkCatalystAbsorbExperience, CheckVillageChunk,
       StructureFeatureChunk

LEMMA PlainRows ==
    /\ Plain(MoneyTrans) /\ Plain(RegisterCmd)
    /\ Plain(SculkBlockGrowth) /\ Plain(SpawnItemActor)
    /\ Plain(WitherDestroy) /\ Plain(ActorGetEffect) /\ Plain(MobHurtEffect)
    /\ Plain(MobPlaceBlock) /\ Plain(MobTakeBlock)
    /\ Plain(PlayerAttackBlock) /\ Plain(PlayerChangeDimension)
    /\ Plain(PlayerChangeGameType) /\ Plain(PlayerCloseContainer)
    /\ Plain(PlayerEditSign) /\ Plain(PlayerInteractEntity)
    /\ Plain(PlayerOpenContainer) /\ Plain(PlayerRequestItemResult)
    /\ Plain(PlayerStartSleep) /\ Plain(PlayerStartSleepResult)
    /\ Plain(PlayerStopSleep) /\ Plain(WeatherUpdate) /\ Plain(BlockFall)
    /\ Plain(BlockTick) /\ Plain(DragonEggBlockTeleport) /\ Plain(FarmDecay)
    /\ Plain(LiquidFlow) /\ Plain(MossGrowth) /\ Plain(ChestPairWith)
BY DEF Asks, Tells, ToSet, Plain,
       MoneyTrans, RegisterCmd, SculkBlockGrowth, SpawnItemActor,
       WitherDestroy, ActorGetEffect, MobHurtEffect, MobPlaceBlock,
       MobTakeBlock, PlayerAttackBlock, PlayerChangeDimension,
       PlayerChangeGameType, PlayerCloseContainer, PlayerEditSign,
       PlayerInteractEntity, PlayerOpenContainer, PlayerRequestItemResult,
       PlayerStartSleep, PlayerStartSleepResult, PlayerStopSleep,
       WeatherUpdate, BlockFall, BlockTick, DragonEggBlockTeleport,
       FarmDecay, LiquidFlow, MossGrowth, ChestPairWith

\* The rows that are out of the ordinary: what they do not keep is exempt.
LEMMA OddRows ==
    /\ RowOK("MoneyChange", MoneyChange)
    /\ RowOK("SendPacket", SendPacket)
    /\ RowOK("SendMultiplePacket", SendMultiplePacket)
    /\ RowOK("PistonPush", PistonPush)
    /\ RowOK("RedstoneUpdate", RedstoneUpdate)
    /\ RowOK("RedstoneSecondary", RedstoneSecondary)
    /\ RowOK("ObserverPulse", ObserverPulse)
    /\ RowOK("ActorChangeDimension", ActorChangeDimension)
    /\ RowOK("ArmorStandSwapItem", ArmorStandSwapItem)
    /\ RowOK("DeathMessage", DeathMessage)
    /\ RowOK("MobHealthChange", MobHealthChange)
    /\ RowOK("FireworkRocketDealDamage", FireworkRocketDealDamage)
    /\ RowOK("PlayerRequestItemAction", PlayerRequestItemAction)
    /\ RowOK("MossGrowthResult", MossGrowthResult)
    /\ RowOK("SculkSpread", SculkSpread)
    /\ RowOK("VillageFeatureConstruction", VillageFeatureConstruction)
    /\ RowOK("PlayerCheat", PlayerCheat)
    /\ RowOK("PlayerBanWave", PlayerBanWave)
    /\ RowOK("SusClient", SusClient)
BY DEF Asks, Tells, Relayed, ToSet, RowOK, Formed, Alike, KeysOf, Mirrors,
       Talks, Sends, Shows, Takes, Flags, Deaf, OneWay, Misshown, Lost,
       PongOwn, MoneyChange, SendPacket, SendMultiplePacket, PistonPush,
       RedstoneUpdate, RedstoneSecondary, ObserverPulse, ActorChangeDimension,
       ArmorStandSwapItem, DeathMessage, MobHealthChange,
       FireworkRocketDealDamage, PlayerRequestItemAction, MossGrowthResult,
       SculkSpread, VillageFeatureConstruction, PlayerCheat, PlayerBanWave,
       SusClient

\* All of an explosion's event is ordinary but the list it is lent.
LEMMA ExplosionOK == RowOK("Explosion", Explosion)
<1> DEFINE row == Explosion
<1>1. /\ row.reads \in Seq(ToSet(row.reads)) /\ row.flag = "both" /\ row.relayed = FALSE
      /\ row.after = ToSet(row.reads) /\ row.carried = {} /\ "constant" \notin ToSet(row.reads)
  BY DEF Explosion, Asks, ToSet
<1>2. /\ row.skewed = {} /\ row.kept = {} /\ row.local = {} /\ row.answers = {}
      /\ row.fails = {} /\ row.grows = {} /\ row.shared = {} /\ DOMAIN row.sent = {}
      /\ row.lent = {"affectedBlocks"}
  BY DEF Explosion, Asks
<1>3. <<"Explosion", "affectedBlocks">> \in Misshown
  BY DEF Misshown
<1>. QED  BY <1>1, <1>2, <1>3 DEF RowOK, Formed, Alike, KeysOf, Mirrors, Talks, Sends, Shows,
                                  Takes, Flags

\* A pong is written with each value in its own place, but for the constants.
LEMMA SentAs ==
    ASSUME NEW parsed, NEW written, NEW key \in ToSet(parsed),
           \A i \in DOMAIN parsed : parsed[i] = key => written[i] = key
    PROVE  Sent(parsed, written)[key] = key
BY DEF Sent, ToSet

LEMMA SentFrom ==
    ASSUME NEW parsed, NEW written, DOMAIN parsed \subseteq DOMAIN written
    PROVE  /\ DOMAIN Sent(parsed, written) = ToSet(parsed)
           /\ \A key \in ToSet(parsed) : Sent(parsed, written)[key] \in ToSet(written)
BY DEF Sent, ToSet

LEMMA RakNetOK == RowOK("RakNetPong", RakNetPong)
<1> DEFINE row == RakNetPong
<1>1. /\ row.reads \in Seq(ToSet(row.reads)) /\ row.flag = "both" /\ row.relayed = FALSE
      /\ row.after = ToSet(row.reads) /\ "constant" \notin KeysOf(row)
      /\ ToSet(RakNetWritten) \subseteq KeysOf(row) \union {"constant"}
      /\ DOMAIN RakNetParsed \subseteq DOMAIN RakNetWritten
  BY DEF RakNetPong, Pong, Asks, ToSet, KeysOf, RakNetParsed, RakNetWritten
<1>2. /\ row.skewed = {} /\ row.kept = {} /\ row.local = {} /\ row.answers = {}
      /\ row.fails = {} /\ row.grows = {} /\ row.shared = {} /\ row.lent = {}
      /\ row.sent = Sent(RakNetParsed, RakNetWritten)
  BY DEF RakNetPong, Pong, Asks
<1>3. ASSUME NEW key \in KeysOf(row),
             key \in row.after \/ <<"RakNetPong", key>> \notin Lost,
             NEW i \in DOMAIN RakNetParsed, RakNetParsed[i] = key
      PROVE  RakNetWritten[i] = key
  BY <1>3 DEF RakNetPong, Pong, Asks, ToSet, RakNetParsed, RakNetWritten, Lost
<1>4. ASSUME NEW key \in KeysOf(row),
             key \in row.after \/ <<"RakNetPong", key>> \notin Lost,
             key \in DOMAIN row.sent
      PROVE  row.sent[key] = key
  BY <1>1, <1>2, <1>3, <1>4, SentAs, SentFrom
<1>5. \A key \in DOMAIN row.sent : row.sent[key] \in KeysOf(row) \union {"constant"}
  BY <1>1, <1>2, SentFrom
<1>6. Formed(row)
  BY <1>1, <1>5 DEF Formed, Flags, KeysOf
<1>7. Alike(row) /\ Talks(row) /\ Mirrors(row)
  BY <1>1, <1>2 DEF Alike, Talks, Mirrors
<1>. QED  BY <1>2, <1>4, <1>6, <1>7 DEF RowOK, Sends, Shows, Takes

LEMMA NetherNetOK == RowOK("NetherNetPong", NetherNetPong)
<1> DEFINE row == NetherNetPong
<1>1. /\ row.reads \in Seq(ToSet(row.reads)) /\ row.flag = "both" /\ row.relayed = FALSE
      /\ row.after = ToSet(row.reads) /\ "constant" \notin KeysOf(row)
      /\ NetherNetRead = NetherNetWritten
  BY DEF NetherNetPong, Pong, Asks, ToSet, KeysOf, NetherNetRead, NetherNetWritten
<1>2. /\ row.skewed = {} /\ row.kept = {} /\ row.local = PongOwn /\ row.answers = {}
      /\ row.fails = {} /\ row.grows = {} /\ row.shared = {} /\ row.lent = {}
      /\ row.sent = Sent(NetherNetRead, NetherNetWritten)
  BY DEF NetherNetPong, Pong, Asks, PongOwn
<1>3. ASSUME NEW key, key \in DOMAIN row.sent
      PROVE  row.sent[key] = key
  BY <1>1, <1>2, <1>3, SentAs, SentFrom
<1>4. ASSUME NEW key, key \in PongOwn
      PROVE  <<"NetherNetPong", key>> \in Misshown /\ <<"NetherNetPong", key>> \in Lost
  BY <1>4 DEF Misshown, Lost
<1>5. Formed(row) /\ Alike(row) /\ Talks(row) /\ Mirrors(row)
  BY <1>1, <1>2, <1>3 DEF Formed, Alike, Talks, Mirrors, Flags, KeysOf
<1>. QED  BY <1>2, <1>3, <1>4, <1>5 DEF RowOK, Sends, Shows, Takes

LEMMA HttpOK == RowOK("HttpJoinInfo", HttpJoinInfo)
<1> DEFINE row == HttpJoinInfo
<1>1. /\ row.reads \in Seq(ToSet(row.reads)) /\ row.flag = "both" /\ row.relayed = FALSE
      /\ row.after = ToSet(row.reads) /\ "constant" \notin KeysOf(row)
      /\ HttpParsed = HttpWritten
  BY DEF HttpJoinInfo, Pong, Asks, ToSet, KeysOf, HttpParsed, HttpWritten
<1>2. /\ row.skewed = {} /\ row.kept = {} /\ row.local = PongOwn /\ row.answers = {}
      /\ row.fails = {} /\ row.grows = {} /\ row.shared = {} /\ row.lent = {}
      /\ row.sent = Sent(HttpParsed, HttpWritten)
  BY DEF HttpJoinInfo, Pong, Asks, PongOwn
<1>3. ASSUME NEW key, key \in DOMAIN row.sent
      PROVE  row.sent[key] = key
  BY <1>1, <1>2, <1>3, SentAs, SentFrom
<1>4. ASSUME NEW key, key \in PongOwn
      PROVE  <<"HttpJoinInfo", key>> \in Misshown /\ <<"HttpJoinInfo", key>> \in Lost
  BY <1>4 DEF Misshown, Lost
<1>5. Formed(row) /\ Alike(row) /\ Talks(row) /\ Mirrors(row)
  BY <1>1, <1>2, <1>3 DEF Formed, Alike, Talks, Mirrors, Flags, KeysOf
<1>. QED  BY <1>2, <1>3, <1>4, <1>5 DEF RowOK, Sends, Shows, Takes

LEMMA TableOK == \A e \in DOMAIN Rows : RowOK(e, Rows[e])
BY PlainIsOK, BareRows, PlainRows, OddRows, ExplosionOK, RakNetOK, NetherNetOK, HttpOK DEF Rows

-----------------------------------------------------------------------------
(* The inductive invariant.                                                *)

\* The tag a script has is a record; what it cannot be read from has been
\* spoiled, or the flag was not written to it.
TagOK ==
    /\ tag = [flag |-> tag.flag, values |-> tag.values]
    /\ pc = "script" =>
         /\ tag.values \in [ToSet(Row.reads) -> Values \union {Nonsense, Unreadable}]
         /\ \A key \in ToSet(Row.reads) :
              /\ tag.values[key] <= edits
              /\ tag.values[key] \in {Nonsense, Unreadable} => key \in spoiled
         /\ FlagRead /\ tag.flag = "unreadable" =>
              "cancelled" \in spoiled \/ Row.flag = "unwritten"

\* References to one variable hold one value.
OneValue == \A key, other \in Row.shared \intersect Keys : cells[key] = cells[other]

\* What was written last is in the event, or in the tag it is read from.
Latest ==
    \A key \in Keys : <<event, key>> \notin Lost /\ Sound(key) =>
        /\ pc = "publishing" => cells[key] = wish[key]
        /\ pc = "script" =>
             wish[key] = IF key \in ToSet(Row.reads) THEN tag.values[key] ELSE cells[key]

\* And so is the last word on the flag.
Remembered ==
    event \notin Deaf /\ "cancelled" \notin spoiled =>
        /\ pc = "publishing" => isCancelled = veto
        /\ pc = "script" =>
             IF FlagRead /\ tag.flag # "unreadable"
               THEN veto <=> tag.flag = "cancelled"
               ELSE isCancelled = veto

\* What the engine has got is still there for the After event.
StillThere ==
    pc = "passed" =>
        \A key \in Keys \intersect Row.after :
            <<event, key>> \notin Misshown => got[key] = cells[key]

IInv ==
    /\ TypeOK /\ TagOK
    /\ OneValue /\ Latest /\ WishGranted
    /\ Remembered /\ VetoHeard
    /\ StillThere

-----------------------------------------------------------------------------
(* Where deserialize stops, and what it has read by then.                  *)

LEMMA HasMin ==
    ASSUME NEW I, I \subseteq Nat \ {0}, I # {}
    PROVE  Min(I) \in I /\ \A i \in I : Min(I) <= i
<1> DEFINE T == {1..i : i \in I}
<1>1. T \subseteq FiniteSubsetsOf(Nat) /\ T # {}
  <2>1. ASSUME NEW i \in I  PROVE 1..i \in FiniteSubsetsOf(Nat)
    BY FS_Interval DEF FiniteSubsetsOf
  <2>. QED  BY <2>1
<1>2. PICK X \in T : \A Y \in T : <<Y, X>> \notin StrictSubsetOrdering(Nat)
  <2>. HIDE DEF T
  <2>. QED  BY <1>1, FS_StrictSubsetOrderingWellFounded, WFMin
<1>3. PICK least \in I : X = 1..least
  BY DEF T
<1>4. ASSUME NEW i \in I, i < least  PROVE FALSE
  <2>1. 1..i \in SUBSET Nat /\ 1..least \in SUBSET Nat /\ 1..i \subseteq 1..least
    BY <1>4
  <2>2. least \in 1..least /\ least \notin 1..i
    BY <1>4
  <2>3. 1..i \in T
    BY DEF T
  <2>. QED  BY <1>2, <1>3, <2>1, <2>2, <2>3 DEF StrictSubsetOrdering
<1>5. \A i \in I : least <= i
  BY <1>4
<1>. QED  BY <1>5 DEF Min

LEMMA HasMax ==
    ASSUME NEW n \in Nat, NEW I, I \subseteq 1..n, I # {}
    PROVE  Max(I) \in I
<1> DEFINE J == {n + 1 - i : i \in I}
<1>1. J \subseteq Nat \ {0} /\ J # {}
  <2>1. \A i \in I : n + 1 - i \in Nat \ {0}
    OBVIOUS
  <2>. QED  BY <2>1
<1>2. Min(J) \in J /\ \A j \in J : Min(J) <= j
  <2>. HIDE DEF J
  <2>. QED  BY <1>1, HasMin
<1>3. PICK most \in I : Min(J) = n + 1 - most
  BY <1>2
<1>4. \A i \in I : most >= i
  <2>1. ASSUME NEW i \in I  PROVE n + 1 - most <= n + 1 - i
    BY <1>2, <1>3
  <2>. QED  BY <2>1
<1>. QED  BY <1>4 DEF Max

\* The first key that cannot be read, or the flag, or the end.
LEMMA WhereItStops ==
    ASSUME Formed(Row)
    PROVE  /\ Len(Row.reads) \in Nat /\ DOMAIN Row.reads = 1..Len(Row.reads)
           /\ FirstUnread \in 0..(Len(Row.reads) + 1)
           /\ FirstUnread = 0 <=> FlagRead /\ tag.flag = "unreadable"
           /\ \A i \in DOMAIN Row.reads : i < FirstUnread => Readable(Row.reads[i])
           /\ FirstUnread \in DOMAIN Row.reads => ~Readable(Row.reads[FirstUnread])
<1> DEFINE unread == {i \in DOMAIN Row.reads : ~Readable(Row.reads[i])}
                       \union {Len(Row.reads) + 1}
<1>1. Len(Row.reads) \in Nat /\ DOMAIN Row.reads = 1..Len(Row.reads)
  BY DEF Formed
<1>2. unread \subseteq Nat \ {0} /\ unread # {}
  BY <1>1
<1>3. FirstUnread = IF FlagRead /\ tag.flag = "unreadable" THEN 0 ELSE Min(unread)
  BY DEF FirstUnread
<1>4. Min(unread) \in unread /\ \A i \in unread : Min(unread) <= i
  <2>. HIDE DEF unread
  <2>. QED  BY <1>2, HasMin
<1>5. \A i \in unread : i \in 1..(Len(Row.reads) + 1)
  BY <1>1
<1>6. CASE FlagRead /\ tag.flag = "unreadable"
  BY <1>1, <1>3, <1>6
<1>7. CASE ~(FlagRead /\ tag.flag = "unreadable")
  <2>1. FirstUnread = Min(unread) /\ FirstUnread \in 1..(Len(Row.reads) + 1)
    BY <1>3, <1>4, <1>5, <1>7
  <2>2. ASSUME NEW i \in DOMAIN Row.reads, i < FirstUnread  PROVE Readable(Row.reads[i])
    <3>1. i \notin unread
      <4>. HIDE DEF unread
      <4>. QED  BY <1>1, <1>4, <2>1, <2>2
    <3>. QED  BY <3>1
  <2>3. FirstUnread \in DOMAIN Row.reads => ~Readable(Row.reads[FirstUnread])
    BY <1>1, <1>4, <2>1
  <2>. QED  BY <1>1, <1>7, <2>1, <2>2, <2>3
<1>. QED  BY <1>6, <1>7

\* A place is as it was, or what a key that writes to it was read as.
LEMMA WhatIsRead ==
    ASSUME Formed(Row), NEW k \in DOMAIN cells
    PROVE  \/ /\ Deserialized[k] = cells[k]
              /\ \A i \in 1..(FirstUnread - 1) : ~Writes(i, k)
           \/ \E i \in 1..(FirstUnread - 1) :
                /\ i \in DOMAIN Row.reads /\ Readable(Row.reads[i])
                /\ Writes(i, k) /\ Deserialized[k] = ReadBack(Row.reads[i])
<1> DEFINE writers == {i \in 1..(FirstUnread - 1) : Writes(i, k)}
<1>1. Deserialized[k] = IF writers = {} THEN cells[k] ELSE ReadBack(Row.reads[Max(writers)])
  BY DEF Deserialized
<1>2. CASE writers = {}
  BY <1>1, <1>2
<1>3. CASE writers # {}
  <2>1. Len(Row.reads) \in Nat /\ writers \subseteq 1..Len(Row.reads)
    BY WhereItStops
  <2>2. Max(writers) \in writers
    <3>. HIDE DEF writers
    <3>. QED  BY <1>3, <2>1, HasMax
  <2>3. Max(writers) \in DOMAIN Row.reads /\ Readable(Row.reads[Max(writers)])
    BY <2>2, WhereItStops
  <2>. QED  BY <1>1, <1>3, <2>2, <2>3
<1>. QED  BY <1>2, <1>3

-----------------------------------------------------------------------------
(* The steps.                                                              *)

\* What the table says of the event at hand.
LEMMA RowIsOK ==
    ASSUME event \in DOMAIN Rows
    PROVE  /\ RowOK(event, Row) /\ Formed(Row)
           /\ Keys = KeysOf(Row) /\ ToSet(Row.reads) \subseteq Keys /\ Row.after \subseteq Keys
           /\ "constant" \notin Keys
           /\ event' = event => Row' = Row /\ Keys' = Keys
BY TableOK DEF Row, RowOK, Formed, Keys, KeysOf

\* The marks of the edits, and what is none.
LEMMA ValueFacts ==
    /\ Own \in Values /\ Other \in Values /\ Own <= 0 /\ Other <= 0
    /\ Nonsense \notin Values /\ Unreadable \notin Values /\ Nonsense # Unreadable
    /\ Nonsense <= 0 /\ Unreadable <= 0
    /\ \A v \in Values : v \in Int
    /\ \A n \in 1..MaxEdits : n \in Values
    /\ Nonsense \in Int /\ Unreadable \in Int
BY EventValuesAssumption DEF Values, Own, Other, Nonsense, Unreadable

LEMMA WrittenType ==
    ASSUME NEW values \in [Keys -> Values], NEW key, NEW v \in Values,
           NEW n \in Int, v <= n, \A k \in Keys : values[k] <= n
    PROVE  /\ Written(values, key, v) \in [Keys -> Values]
           /\ \A k \in Keys : Written(values, key, v)[k] <= n
           /\ \A k \in Keys : k # key /\ k \notin Row.shared => Written(values, key, v)[k] = values[k]
           /\ key \in Keys => Written(values, key, v)[key] = v
           /\ (\A k, l \in Row.shared \intersect Keys : values[k] = values[l]) =>
                \A k, l \in Row.shared \intersect Keys :
                    Written(values, key, v)[k] = Written(values, key, v)[l]
BY DEF Written

\* One more edit leaves everything in bounds.
LEMMA StillInBounds ==
    ASSUME TypeOK, edits' = edits + 1
    PROVE  \A k \in Keys : cells[k] <= edits' /\ got[k] <= edits'
<1>1. \A k \in Keys : cells[k] \in Int /\ got[k] \in Int
  BY ValueFacts DEF TypeOK
<1>2. edits \in Int /\ \A k \in Keys : cells[k] <= edits /\ got[k] <= edits
  BY EventValuesAssumption DEF TypeOK
<1>. QED  BY <1>1, <1>2

LEMMA TagStillInBounds ==
    ASSUME TypeOK, TagOK, pc = "script", edits' = edits + 1
    PROVE  \A k \in ToSet(Row.reads) : tag.values[k] <= edits'
<1>1. \A k \in ToSet(Row.reads) : tag.values[k] \in Int /\ tag.values[k] <= edits
  BY ValueFacts DEF TagOK
<1>2. edits \in Int
  BY EventValuesAssumption DEF TypeOK
<1>. QED  BY <1>1, <1>2

LEMMA InitIInv == Init => IInv
<1> SUFFICES ASSUME Init PROVE IInv
  OBVIOUS
<1>1. Own \in Values /\ Own = 0
  BY DEF Values, Own
<1>2. TypeOK
  <2>1. event \in DOMAIN Rows /\ pc \in Stages
    BY DEF Init, Stages
  <2>2. cells \in [Keys -> Values] /\ wish \in [Keys -> Values] /\ got \in [Keys -> Values]
    BY <1>1 DEF Init, Owned
  <2>3. told \in [Row.after -> Values]
    BY <1>1 DEF Init, Owned
  <2>4. tag.flag \in FlagWords /\ tag = NoTag
    BY DEF Init, NoTag, FlagWords
  <2>5. edits \in 0..MaxEdits
    BY EventValuesAssumption DEF Init
  <2>6. \A key \in Keys : cells[key] <= edits /\ got[key] <= edits
    BY <1>1 DEF Init, Owned
  <2>. QED  BY <2>1, <2>2, <2>3, <2>4, <2>5, <2>6 DEF Init, TypeOK
<1>. QED  BY <1>2 DEF Init, IInv, TagOK, NoTag, OneValue, Owned, Latest, WishGranted,
                  Remembered, VetoHeard, StillThere

LEMMA CallKept == IInv /\ Call => IInv'
<1> SUFFICES ASSUME IInv, Call PROVE IInv'
  OBVIOUS
<1>1. RowOK(event, Row) /\ Row' = Row /\ Keys' = Keys /\ event' = event
  BY RowIsOK DEF IInv, TypeOK, Call
<1>2. event' \notin Deaf => veto' = FALSE
  BY <1>1 DEF Call, RowOK, Talks
<1>3. veto' \in BOOLEAN
  BY DEF Call
<1>4. /\ cells' \in [Keys -> Values] /\ \A key \in Keys : cells'[key] <= 0
      /\ Owned(Keys) \in [Keys -> Values] /\ \A key \in Keys : Owned(Keys)[key] <= 0
      /\ Owned(Row.after) \in [Row.after -> Values]
  BY ValueFacts DEF Call, Made, Owned
<1>5. TypeOK'
  <2>1. event' \in DOMAIN Rows /\ pc' \in Stages
    BY DEF IInv, TypeOK, Call, Stages
  <2>2. edits' = 0 /\ edits' \in 0..MaxEdits
    BY EventValuesAssumption DEF Call
  <2>3. \A key \in Keys : cells'[key] <= edits' /\ got'[key] <= edits'
    BY <1>4, <2>2 DEF Call
  <2>4. wish' = cells' /\ got' = Owned(Keys) /\ told' = Owned(Row.after) /\ tag' = tag
        /\ spoiled' = {} /\ threw' = FALSE /\ isCancelled' = FALSE /\ pc' # "script"
    BY DEF Call
  <2>5. tag' = NoTag /\ tag'.flag \in FlagWords
    BY <2>4 DEF IInv, TypeOK, Call
  <2>. QED  BY <1>1, <1>3, <1>4, <2>1, <2>2, <2>3, <2>4, <2>5 DEF TypeOK
<1>6. OneValue'
  BY <1>1 DEF Call, OneValue, Made, RowOK, Alike
<1>7. TagOK' /\ Latest' /\ WishGranted' /\ StillThere' /\ Remembered' /\ VetoHeard'
  BY <1>1, <1>2 DEF IInv, TagOK, Call, Latest, WishGranted, StillThere, Remembered, VetoHeard
<1>. QED  BY <1>5, <1>6, <1>7 DEF IInv

LEMMA NativeEditKeeps ==
    ASSUME IInv, NEW key \in ToSet(Row.reads), NativeEdit(key)
    PROVE  IInv'
<1>1. /\ RowOK(event, Row) /\ Formed(Row) /\ Row' = Row /\ Keys' = Keys /\ event' = event
      /\ Keys = KeysOf(Row) /\ ToSet(Row.reads) \subseteq Keys /\ "constant" \notin Keys
  BY RowIsOK DEF IInv, TypeOK, listened, NativeEdit
<1>2. /\ edits' = edits + 1 /\ edits \in 0..MaxEdits /\ edits' \in 1..MaxEdits
      /\ edits' \in Values /\ edits' <= edits' /\ edits <= edits'
      /\ pc = "publishing" /\ pc' = pc /\ spoiled' = spoiled
  BY ValueFacts, EventValuesAssumption DEF IInv, TypeOK, NativeEdit, listened
<1>3. /\ cells' \in [Keys -> Values] /\ \A k \in Keys : cells'[k] <= edits'
      /\ \A k \in Keys : k # key /\ k \notin Row.shared => cells'[k] = cells[k]
      /\ cells'[key] = edits'
      /\ OneValue'
  <2>1. \A k \in Keys : cells[k] <= edits'
    BY <1>2, StillInBounds DEF IInv
  <2>. QED  BY <1>1, <1>2, <2>1, WrittenType DEF IInv, TypeOK, NativeEdit, OneValue
<1>4. TypeOK'
  <2>1. \A k \in Keys : got'[k] <= edits'
    BY <1>2, StillInBounds DEF IInv, NativeEdit, listened
  <2>. QED  BY <1>1, <1>2, <1>3, <2>1 DEF IInv, TypeOK, NativeEdit, listened
<1>5. Latest'
  BY <1>1, <1>2, <1>3 DEF IInv, TypeOK, Latest, NativeEdit, RowOK, Takes, Sound, FlagRead
<1>6. TagOK' /\ WishGranted' /\ Remembered' /\ VetoHeard' /\ StillThere'
  BY <1>1, <1>2 DEF IInv, TagOK, NativeEdit, listened, WishGranted, StillThere,
                    Remembered, VetoHeard
<1>. QED  BY <1>3, <1>4, <1>5, <1>6 DEF IInv

LEMMA ScriptEditKeeps ==
    ASSUME IInv, NEW key \in ToSet(Row.reads), ScriptEdit(key)
    PROVE  IInv'
<1>1. /\ RowOK(event, Row) /\ Formed(Row) /\ Row' = Row /\ Keys' = Keys /\ event' = event
      /\ Keys = KeysOf(Row) /\ ToSet(Row.reads) \subseteq Keys /\ "constant" \notin Keys
  BY RowIsOK DEF IInv, TypeOK, listened, ScriptEdit
<1>2. /\ edits' = edits + 1 /\ edits \in 0..MaxEdits /\ edits' \in 1..MaxEdits
      /\ edits' \in Values /\ edits <= edits'
      /\ pc = "script" /\ pc' = pc /\ spoiled' = spoiled
  BY ValueFacts, EventValuesAssumption DEF IInv, TypeOK, ScriptEdit, listened
<1>3. tag' = [flag |-> tag.flag, values |-> [tag.values EXCEPT ![key] = edits']]
  BY DEF IInv, TagOK, ScriptEdit
<1>4. TypeOK'
  <2>1. \A k \in Keys : cells'[k] <= edits' /\ got'[k] <= edits'
    BY <1>2, StillInBounds DEF IInv, ScriptEdit, listened
  <2>. QED  BY <1>1, <1>2, <1>3, <2>1 DEF IInv, TypeOK, ScriptEdit, listened
<1>5. TagOK'
  <2>1. \A k \in ToSet(Row.reads) : tag.values[k] <= edits'
    BY <1>2, TagStillInBounds DEF IInv
  <2>. QED  BY <1>1, <1>2, <1>3, <2>1, ValueFacts DEF IInv, TagOK, FlagRead
<1>6. Latest'
  BY <1>1, <1>2, <1>3 DEF IInv, TypeOK, TagOK, Latest, ScriptEdit, Sound, FlagRead
<1>7. OneValue' /\ WishGranted' /\ Remembered' /\ VetoHeard' /\ StillThere'
  BY <1>1, <1>2, <1>3 DEF IInv, ScriptEdit, listened, OneValue, WishGranted, StillThere,
                          Remembered, VetoHeard, FlagRead
<1>. QED  BY <1>4, <1>5, <1>6, <1>7 DEF IInv

LEMMA ScriptRemoveKeeps ==
    ASSUME IInv, NEW key \in ToSet(Row.reads), ScriptRemove(key)
    PROVE  IInv'
<1>1. /\ RowOK(event, Row) /\ Formed(Row) /\ Row' = Row /\ Keys' = Keys /\ event' = event
      /\ Keys = KeysOf(Row) /\ ToSet(Row.reads) \subseteq Keys /\ "constant" \notin Keys
  BY RowIsOK DEF IInv, TypeOK, listened, ScriptRemove
<1>2. /\ edits' = edits + 1 /\ edits \in 0..MaxEdits /\ edits' \in 1..MaxEdits
      /\ Other \in Values /\ Other <= edits' /\ edits <= edits'
      /\ pc = "script" /\ pc' = pc /\ spoiled' = spoiled
  BY ValueFacts, EventValuesAssumption DEF IInv, TypeOK, ScriptRemove, listened
<1>3. tag' = [flag |-> tag.flag, values |-> [tag.values EXCEPT ![key] = Other]]
  BY DEF IInv, TagOK, ScriptRemove
<1>4. TypeOK'
  <2>1. \A k \in Keys : cells'[k] <= edits' /\ got'[k] <= edits'
    BY <1>2, StillInBounds DEF IInv, ScriptRemove, listened
  <2>. QED  BY <1>1, <1>2, <1>3, <2>1 DEF IInv, TypeOK, ScriptRemove, listened
<1>5. TagOK'
  <2>1. \A k \in ToSet(Row.reads) : tag.values[k] <= edits'
    BY <1>2, TagStillInBounds DEF IInv
  <2>. QED  BY <1>1, <1>2, <1>3, <2>1, ValueFacts DEF IInv, TagOK, FlagRead
<1>6. Latest'
  BY <1>1, <1>2, <1>3 DEF IInv, TypeOK, TagOK, Latest, ScriptRemove, Sound, FlagRead
<1>7. OneValue' /\ WishGranted' /\ Remembered' /\ VetoHeard' /\ StillThere'
  BY <1>1, <1>2, <1>3 DEF IInv, ScriptRemove, listened, OneValue, WishGranted, StillThere,
                          Remembered, VetoHeard, FlagRead
<1>. QED  BY <1>4, <1>5, <1>6, <1>7 DEF IInv

LEMMA ScriptSpoilKeeps ==
    ASSUME IInv, NEW key \in ToSet(Row.reads), ScriptSpoil(key)
    PROVE  IInv'
<1>1. /\ RowOK(event, Row) /\ Formed(Row) /\ Row' = Row /\ Keys' = Keys /\ event' = event
      /\ Keys = KeysOf(Row) /\ ToSet(Row.reads) \subseteq Keys /\ "constant" \notin Keys
  BY RowIsOK DEF IInv, TypeOK, listened, ScriptSpoil
<1>2. /\ edits' = edits + 1 /\ edits \in 0..MaxEdits /\ edits' \in 1..MaxEdits
      /\ edits <= edits'
      /\ pc = "script" /\ pc' = pc /\ spoiled' = spoiled \union {key}
  BY ValueFacts, EventValuesAssumption DEF IInv, TypeOK, ScriptSpoil, listened
<1>3. PICK what \in {Nonsense, Unreadable} :
          tag' = [flag |-> tag.flag, values |-> [tag.values EXCEPT ![key] = what]]
  BY DEF IInv, TagOK, ScriptSpoil
<1>4. TypeOK'
  <2>1. \A k \in Keys : cells'[k] <= edits' /\ got'[k] <= edits'
    BY <1>2, StillInBounds DEF IInv, ScriptSpoil, listened
  <2>. QED  BY <1>1, <1>2, <1>3, <2>1 DEF IInv, TypeOK, ScriptSpoil, listened
<1>5. TagOK'
  <2>1. \A k \in ToSet(Row.reads) : tag.values[k] <= edits'
    BY <1>2, TagStillInBounds DEF IInv
  <2>2. what <= edits'
    BY <1>2, ValueFacts
  <2>. QED  BY <1>1, <1>2, <1>3, <2>1, <2>2, ValueFacts DEF IInv, TagOK, FlagRead
<1>6. Latest'
  <2>. SUFFICES ASSUME NEW k \in Keys, <<event, k>> \notin Lost, Sound(k)'
                PROVE  wish[k] = IF k \in ToSet(Row.reads) THEN tag'.values[k] ELSE cells[k]
    BY <1>1, <1>2 DEF Latest, ScriptSpoil
  <2>1. Sound(k) /\ k # key
    BY <1>1, <1>2 DEF Sound, FlagRead, ToSet, Formed
  <2>. QED  BY <1>2, <1>3, <2>1 DEF IInv, TagOK, Latest
<1>7. OneValue' /\ WishGranted' /\ Remembered' /\ VetoHeard' /\ StillThere'
  BY <1>1, <1>2, <1>3 DEF IInv, ScriptSpoil, listened, OneValue, WishGranted, StillThere,
                          Remembered, VetoHeard, FlagRead
<1>. QED  BY <1>4, <1>5, <1>6, <1>7 DEF IInv

LEMMA NativeCancelKeeps ==
    ASSUME IInv, NEW cancel \in BOOLEAN, NativeCancel(cancel)
    PROVE  IInv'
<1>1. /\ RowOK(event, Row) /\ Formed(Row) /\ Row' = Row /\ Keys' = Keys /\ event' = event
      /\ Keys = KeysOf(Row) /\ ToSet(Row.reads) \subseteq Keys /\ "constant" \notin Keys
  BY RowIsOK DEF IInv, TypeOK, listened, NativeCancel
<1>. QED
  BY <1>1 DEF IInv, TypeOK, TagOK, NativeCancel, listened, OneValue, Latest, Sound, WishGranted,
              StillThere, Remembered, VetoHeard, FlagRead

LEMMA ScriptCancelKeeps ==
    ASSUME IInv, NEW cancel \in BOOLEAN, ScriptCancel(cancel)
    PROVE  IInv'
<1>1. /\ RowOK(event, Row) /\ Formed(Row) /\ Row' = Row /\ Keys' = Keys /\ event' = event
      /\ Keys = KeysOf(Row) /\ ToSet(Row.reads) \subseteq Keys /\ "constant" \notin Keys
  BY RowIsOK DEF IInv, TypeOK, listened, ScriptCancel
<1>2. /\ tag' = [flag |-> IF cancel THEN "cancelled" ELSE "allowed", values |-> tag.values]
      /\ pc = "script"
  BY DEF IInv, TagOK, ScriptCancel
<1>3. Remembered'
  BY <1>1, <1>2 DEF IInv, Remembered, ScriptCancel, Cancellable, FlagRead, RowOK, Talks, listened
<1>. QED
  BY <1>1, <1>2, <1>3 DEF IInv, TypeOK, FlagWords, TagOK, ScriptCancel, listened, OneValue,
                          Latest, Sound, WishGranted, StillThere, VetoHeard, FlagRead

LEMMA ScriptOpenKeeps ==
    ASSUME IInv, ScriptOpen
    PROVE  IInv'
<1>1. /\ RowOK(event, Row) /\ Formed(Row) /\ Row' = Row /\ Keys' = Keys /\ event' = event
      /\ Keys = KeysOf(Row) /\ ToSet(Row.reads) \subseteq Keys /\ "constant" \notin Keys
  BY RowIsOK DEF IInv, TypeOK, listened, ScriptOpen
<1>2. /\ tag' = Serialized /\ pc = "publishing" /\ pc' = "script"
      /\ UNCHANGED <<cells, isCancelled, edits, wish, veto, spoiled, threw, got, told>>
  BY DEF ScriptOpen
<1>3. tag'.flag = FlagShown /\ tag'.values = [key \in ToSet(Row.reads) |-> cells[key]]
      /\ FlagShown \in FlagWords
  BY <1>2 DEF Serialized, FlagShown, FlagWords
<1>4. TypeOK'
  BY <1>1, <1>2, <1>3 DEF IInv, TypeOK, Stages
<1>5. TagOK'
  <2>1. tag' = [flag |-> tag'.flag, values |-> tag'.values]
    BY <1>2 DEF Serialized
  <2>2. FlagRead /\ FlagShown = "unreadable" => Row.flag = "unwritten"
    BY DEF FlagRead, FlagShown
  <2>. QED  BY <1>1, <1>2, <1>3, <2>1, <2>2, ValueFacts DEF IInv, TypeOK, TagOK, FlagRead
<1>6. Latest'
  BY <1>1, <1>2, <1>3 DEF IInv, Latest, Sound, FlagRead
<1>7. Remembered'
  BY <1>1, <1>2, <1>3 DEF IInv, Remembered, FlagRead, FlagShown
<1>8. OneValue' /\ WishGranted' /\ VetoHeard' /\ StillThere'
  BY <1>1, <1>2 DEF IInv, OneValue, WishGranted, VetoHeard, StillThere
<1>. QED  BY <1>4, <1>5, <1>6, <1>7, <1>8 DEF IInv

LEMMA ScriptSpoilFlagKeeps ==
    ASSUME IInv, ScriptSpoilFlag
    PROVE  IInv'
<1>1. /\ RowOK(event, Row) /\ Formed(Row) /\ Row' = Row /\ Keys' = Keys /\ event' = event
      /\ Keys = KeysOf(Row) /\ ToSet(Row.reads) \subseteq Keys /\ "constant" \notin Keys
  BY RowIsOK DEF IInv, TypeOK, listened, ScriptSpoilFlag
<1>2. /\ edits' = edits + 1 /\ edits \in 0..MaxEdits /\ edits' \in 1..MaxEdits
      /\ edits <= edits'
      /\ pc = "script" /\ pc' = pc /\ spoiled' = spoiled \union {"cancelled"}
      /\ tag' = [flag |-> "unreadable", values |-> tag.values] /\ Row.flag = "both"
  BY ValueFacts, EventValuesAssumption DEF IInv, TypeOK, TagOK, ScriptSpoilFlag, listened
<1>3. TypeOK'
  <2>1. \A k \in Keys : cells'[k] <= edits' /\ got'[k] <= edits'
    BY <1>2, StillInBounds DEF IInv, ScriptSpoilFlag, listened
  <2>. QED  BY <1>1, <1>2, <2>1 DEF IInv, TypeOK, FlagWords, ScriptSpoilFlag, listened
<1>4. TagOK'
  <2>1. \A k \in ToSet(Row.reads) : tag.values[k] <= edits'
    BY <1>2, TagStillInBounds DEF IInv
  <2>. QED  BY <1>1, <1>2, <2>1 DEF IInv, TagOK, FlagRead
<1>5. Latest'
  BY <1>1, <1>2 DEF IInv, Latest, ScriptSpoilFlag, Sound, FlagRead
<1>6. OneValue' /\ WishGranted' /\ Remembered' /\ VetoHeard' /\ StillThere'
  BY <1>1, <1>2 DEF IInv, ScriptSpoilFlag, listened, OneValue, WishGranted, StillThere,
                    Remembered, VetoHeard, FlagRead
<1>. QED  BY <1>3, <1>4, <1>5, <1>6 DEF IInv

LEMMA ScriptCloseKeeps ==
    ASSUME IInv, ScriptClose
    PROVE  IInv'
<1>1. /\ RowOK(event, Row) /\ Formed(Row) /\ Row' = Row /\ Keys' = Keys /\ event' = event
      /\ Keys = KeysOf(Row) /\ ToSet(Row.reads) \subseteq Keys /\ "constant" \notin Keys
  BY RowIsOK DEF IInv, TypeOK, listened, ScriptClose
<1>2. /\ pc = "script" /\ pc' = "publishing" /\ tag' = NoTag
      /\ cells' \in Halved(Deserialized)
      /\ UNCHANGED <<event, edits, wish, veto, spoiled, got, told>>
  BY DEF ScriptClose
<1>3. Deserialized \in [Keys -> Values] /\ \A k \in Keys : Deserialized[k] <= edits
  <2>1. ASSUME NEW k \in Keys
        PROVE  Deserialized[k] \in Values /\ Deserialized[k] <= edits
    <3>1. CASE Deserialized[k] = cells[k]
      BY <3>1 DEF IInv, TypeOK
    <3>2. ASSUME NEW i \in DOMAIN Row.reads, Readable(Row.reads[i]), Writes(i, k),
                 Deserialized[k] = ReadBack(Row.reads[i])
          PROVE  Deserialized[k] \in Values /\ Deserialized[k] <= edits
      <4>1. Row.reads[i] \in ToSet(Row.reads)
        BY DEF ToSet
      <4>2. 0 <= edits /\ edits \in Int
        BY EventValuesAssumption DEF IInv, TypeOK
      <4>. QED  BY <1>2, <3>2, <4>1, <4>2, ValueFacts DEF IInv, TagOK, Readable, Writes, ReadBack
    <3>. QED  BY <1>1, <3>1, <3>2, WhatIsRead DEF IInv, TypeOK
  <2>2. Deserialized = [k \in Keys |-> Deserialized[k]]
    BY DEF IInv, TypeOK, Deserialized
  <2>. QED  BY <2>1, <2>2
<1>4. \A k, l \in Row.shared \intersect Keys : Deserialized[k] = Deserialized[l]
  <2> SUFFICES ASSUME NEW k \in Row.shared \intersect Keys, NEW l \in Row.shared \intersect Keys
               PROVE  Deserialized[k] = Deserialized[l]
    OBVIOUS
  <2>1. \A i : Writes(i, k) <=> Writes(i, l)
    BY DEF Writes
  <2>. QED  BY <2>1 DEF IInv, TypeOK, OneValue, Deserialized
<1>5. /\ cells' \in [Keys -> Values] /\ \A k \in Keys : cells'[k] <= edits
      /\ OneValue'
      /\ \/ cells' = Deserialized
         \/ /\ FirstUnread \in DOMAIN Row.reads
            /\ \A k \in Keys : k # Row.reads[FirstUnread] /\ k \notin Row.shared =>
                   cells'[k] = Deserialized[k]
  <2>1. CASE cells' = Deserialized
    BY <1>1, <1>3, <1>4, <2>1 DEF OneValue
  <2>2. CASE /\ FirstUnread \in DOMAIN Row.reads
             /\ cells' = Written(Deserialized, Row.reads[FirstUnread], Other)
    <3>1. edits \in Int /\ Other <= edits
      BY ValueFacts, EventValuesAssumption DEF IInv, TypeOK
    <3>. QED  BY <1>1, <1>3, <1>4, <2>2, <3>1, WrittenType, ValueFacts DEF OneValue
  <2>. QED  BY <1>2, <2>1, <2>2 DEF Halved
<1>6. TypeOK'
  <2>1. threw' \in BOOLEAN /\ isCancelled' \in BOOLEAN
    BY DEF IInv, TypeOK, ScriptClose
  <2>2. tag'.flag \in FlagWords
    BY <1>2 DEF NoTag, FlagWords
  <2>. QED  BY <1>1, <1>2, <1>5, <2>1, <2>2 DEF IInv, TypeOK, Stages
<1>7. Latest'
  <2> SUFFICES ASSUME NEW key \in Keys, <<event, key>> \notin Lost, Sound(key)
               PROVE  cells'[key] = wish[key]
    BY <1>1, <1>2 DEF Latest, Sound, FlagRead
  <2>1. Takes(Row, key) /\ key \notin Row.shared /\ key \notin Row.grows
    BY <1>1 DEF RowOK, Takes
  <2>2. ASSUME key \notin ToSet(Row.reads)
        PROVE  cells'[key] = wish[key]
    <3>1. \A i \in DOMAIN Row.reads : ~Writes(i, key)
      BY <2>1, <2>2 DEF Writes, ToSet
    <3>2. Deserialized[key] = cells[key]
      BY <1>1, <3>1, WhatIsRead DEF IInv, TypeOK
    <3>3. cells'[key] = cells[key]
      BY <1>5, <2>1, <2>2, <3>2 DEF ToSet
    <3>. QED  BY <1>2, <2>2, <3>3 DEF IInv, Latest
  <2>3. ASSUME NEW j \in DOMAIN Row.reads, Row.reads[j] = key
        PROVE  cells'[key] = wish[key]
    <3>1. ASSUME NEW i \in DOMAIN Row.reads, i <= j
          PROVE  Readable(Row.reads[i]) /\ Row.reads[i] \notin spoiled
      <4>1. Row.reads[i] \notin spoiled
        BY <1>1, <2>3, <3>1, WhereItStops DEF Sound
      <4>2. Row.reads[i] \notin Row.fails
        BY <2>1, <2>3, <3>1 DEF Takes
      <4>3. Row.reads[i] \in ToSet(Row.reads)
        BY DEF ToSet
      <4>. QED  BY <1>2, <4>1, <4>2, <4>3 DEF IInv, TagOK, Readable
    <3>2. key \in ToSet(Row.reads) /\ tag.values[key] = wish[key] /\ key \notin spoiled
      BY <1>2, <1>1, <2>3, <3>1, WhereItStops DEF ToSet, IInv, Latest
    <3>3. ~(FlagRead /\ tag.flag = "unreadable")
      BY <1>1, <1>2, <3>2 DEF IInv, TagOK, Sound, Formed
    <3>4. FirstUnread > j
      <4>1. FirstUnread # 0 /\ FirstUnread \in 0..(Len(Row.reads) + 1)
        BY <1>1, <3>3, WhereItStops
      <4>2. ASSUME FirstUnread <= j  PROVE FALSE
        BY <1>1, <3>1, <4>1, <4>2, WhereItStops
      <4>. QED  BY <1>1, <4>1, <4>2, WhereItStops
    <3>5. tag.values[key] # Nonsense
      BY <1>2, <3>2 DEF IInv, TagOK
    <3>6. Writes(j, key) /\ j \in 1..(FirstUnread - 1)
      BY <1>1, <2>3, <3>4, <3>5, WhereItStops DEF Writes
    <3>7. Deserialized[key] = tag.values[key]
      <4>1. PICK i \in 1..(FirstUnread - 1) :
                Writes(i, key) /\ Deserialized[key] = ReadBack(Row.reads[i])
        BY <1>1, <3>6, WhatIsRead DEF IInv, TypeOK
      <4>. QED  BY <2>1, <4>1 DEF Writes, ReadBack
    <3>8. FirstUnread \in DOMAIN Row.reads => Row.reads[FirstUnread] # key
      BY <1>1, <2>3, <3>1, WhereItStops
    <3>. QED  BY <1>5, <2>1, <3>2, <3>7, <3>8
  <2>. QED  BY <2>2, <2>3 DEF ToSet
<1>8. Remembered'
  BY <1>1, <1>2, WhereItStops DEF IInv, TypeOK, ScriptClose, Remembered, FlagRead
<1>9. TagOK' /\ WishGranted' /\ VetoHeard' /\ StillThere'
  BY <1>1, <1>2 DEF IInv, TagOK, NoTag, WishGranted, VetoHeard, StillThere
<1>. QED  BY <1>5, <1>6, <1>7, <1>8, <1>9 DEF IInv

LEMMA RefuseKeeps ==
    ASSUME IInv, Refuse
    PROVE  IInv'
<1>1. /\ RowOK(event, Row) /\ Formed(Row) /\ Row' = Row /\ Keys' = Keys /\ event' = event
      /\ Keys = KeysOf(Row) /\ ToSet(Row.reads) \subseteq Keys /\ "constant" \notin Keys
  BY RowIsOK DEF IInv, TypeOK, listened, Refuse
<1>2. VetoHeard'
  BY <1>1 DEF IInv, Refuse, Remembered, VetoHeard
<1>. QED
  BY <1>1, <1>2 DEF IInv, TypeOK, Stages, TagOK, Refuse, OneValue, Latest, WishGranted,
                    StillThere, Remembered

LEMMA PassKeeps ==
    ASSUME IInv, Pass
    PROVE  IInv'
<1>1. /\ RowOK(event, Row) /\ Formed(Row) /\ Row' = Row /\ Keys' = Keys /\ event' = event
      /\ Keys = KeysOf(Row) /\ ToSet(Row.reads) \subseteq Keys /\ "constant" \notin Keys
  BY RowIsOK DEF IInv, TypeOK, listened, Pass
<1>2. /\ pc = "publishing" /\ pc' = "passed"
      /\ got' = [key \in Keys |-> Given(key)]
      /\ cells' = [key \in Keys |-> IF key \in Row.answers THEN Other ELSE cells[key]]
      /\ UNCHANGED <<isCancelled, tag, edits, wish, veto, spoiled, threw, told>>
  BY DEF Pass
<1>3. ASSUME NEW key \in Keys
      PROVE  /\ Given(key) \in Values /\ Given(key) <= edits
             /\ cells'[key] \in Values /\ cells'[key] <= edits
  <2>1. edits \in Int /\ 0 <= edits
    BY EventValuesAssumption DEF IInv, TypeOK
  <2>2. \A k \in Keys : cells[k] \in Values /\ cells[k] \in Int /\ cells[k] <= edits
    BY ValueFacts DEF IInv, TypeOK
  <2>3. key \in DOMAIN Row.sent => Row.sent[key] \in Keys \union {"constant"}
    BY <1>1 DEF Formed
  <2>4. Own <= edits /\ Other <= edits
    BY <2>1, ValueFacts
  <2>. QED  BY <1>2, <2>2, <2>3, <2>4, ValueFacts DEF Given
<1>4. ASSUME NEW key \in Keys, Sends(Row, key)
      PROVE  Given(key) = cells[key]
  BY <1>1, <1>4 DEF Given, Sends
<1>5. TypeOK'
  <2>1. cells' \in [Keys -> Values] /\ got' \in [Keys -> Values]
        /\ \A key \in Keys : cells'[key] <= edits /\ got'[key] <= edits
    BY <1>2, <1>3
  <2>. QED  BY <1>1, <1>2, <2>1 DEF IInv, TypeOK, Stages
<1>6. OneValue'
  BY <1>1, <1>2 DEF IInv, OneValue, RowOK, Alike
<1>7. WishGranted'
  <2> SUFFICES ASSUME NEW key \in Keys, <<event, key>> \notin Lost, Sound(key)
               PROVE  got'[key] = wish[key]
    BY <1>1, <1>2 DEF WishGranted, Sound, FlagRead
  <2>1. Sends(Row, key)
    BY <1>1 DEF RowOK, Takes
  <2>. QED  BY <1>2, <1>4, <2>1 DEF IInv, Latest
<1>8. StillThere'
  <2> SUFFICES ASSUME NEW key \in Keys \intersect Row.after, <<event, key>> \notin Misshown
               PROVE  got'[key] = cells'[key]
    BY <1>1, <1>2 DEF StillThere
  <2>1. Sends(Row, key) /\ key \notin Row.answers
    BY <1>1 DEF RowOK, Shows
  <2>. QED  BY <1>2, <1>4, <2>1
<1>9. TagOK' /\ Latest' /\ Remembered' /\ VetoHeard'
  BY <1>1, <1>2 DEF IInv, Pass, TagOK, Latest, Remembered, VetoHeard
<1>. QED  BY <1>5, <1>6, <1>7, <1>8, <1>9 DEF IInv

LEMMA FallBackKeeps ==
    ASSUME IInv, FallBack
    PROVE  IInv'
<1>1. /\ RowOK(event, Row) /\ Formed(Row) /\ Row' = Row /\ Keys' = Keys /\ event' = event
      /\ Keys = KeysOf(Row) /\ ToSet(Row.reads) \subseteq Keys /\ "constant" \notin Keys
  BY RowIsOK DEF IInv, TypeOK, listened, FallBack
<1>. QED
  BY <1>1 DEF IInv, TypeOK, Stages, TagOK, FallBack, OneValue, Latest, WishGranted, StillThere,
              Remembered, VetoHeard, FlagRead

LEMMA AfterKeeps ==
    ASSUME IInv, After
    PROVE  IInv'
<1>1. /\ RowOK(event, Row) /\ Formed(Row) /\ Row' = Row /\ Keys' = Keys /\ event' = event
      /\ Keys = KeysOf(Row) /\ ToSet(Row.reads) \subseteq Keys /\ "constant" \notin Keys
  BY RowIsOK DEF IInv, TypeOK, listened, After
<1>2. told' \in [Row.after -> Values]
  BY <1>1, RowIsOK, ValueFacts DEF IInv, TypeOK, After
<1>. QED
  BY <1>1, <1>2 DEF IInv, TypeOK, Stages, TagOK, After, OneValue, Latest, Sound, WishGranted,
                    StillThere, Remembered, VetoHeard, FlagRead

LEMMA NextIInv == IInv /\ [Next]_vars => IInv'
<1> SUFFICES ASSUME IInv, [Next]_vars PROVE IInv'
  OBVIOUS
<1>1. CASE UNCHANGED vars
  BY <1>1 DEF vars, IInv, TypeOK, TagOK, OneValue, Latest, Sound, WishGranted, StillThere,
              Remembered, VetoHeard, FlagRead, Row, Keys
<1>2. CASE Next
  BY <1>2, CallKept, NativeEditKeeps, ScriptEditKeeps, ScriptRemoveKeeps, ScriptSpoilKeeps,
     NativeCancelKeeps, ScriptCancelKeeps, ScriptOpenKeeps, ScriptSpoilFlagKeeps, ScriptCloseKeeps, RefuseKeeps,
     PassKeeps, FallBackKeeps, AfterKeeps DEF Next
<1>. QED  BY <1>1, <1>2

THEOREM Invariant == Spec => []IInv
BY InitIInv, NextIInv, PTL DEF Spec

-----------------------------------------------------------------------------
(* The theorems.                                                           *)

\* Every variable keeps its type, there is a tag only while a script runs, and
\* nothing carries the mark of an edit that has not been made (TypeOK).
THEOREM TypeCorrect == Spec => []TypeOK
BY Invariant, PTL DEF IInv

\* The engine is called with what was written last, whoever wrote it and
\* whatever other keys were broken, but for the keys in Lost (WishGranted).
THEOREM WishesGranted == Spec => []WishGranted
BY Invariant, PTL DEF IInv

\* A call is refused if and only if the last word on its flag was a veto, in
\* whichever order listeners and scripts have spoken (VetoHeard).
THEOREM VetoesHeard == Spec => []VetoHeard
BY Invariant, PTL DEF IInv

\* A script that only looks leaves everything as it was (RoundTrip).
THEOREM LooksAreHarmless == Spec => RoundTrip
<1> DEFINE Harmless ==
        pc = "script" /\ pc' = "publishing" /\ tag = Serialized /\ event \notin OneWay
            => UNCHANGED <<cells, isCancelled, threw>>
<1>1. IInv /\ [Next]_vars => [Harmless]_vars
  <2> SUFFICES ASSUME IInv, Next, pc = "script", pc' = "publishing", tag = Serialized,
                      event \notin OneWay
               PROVE  UNCHANGED <<cells, isCancelled, threw>>
    OBVIOUS
  <2>1. ScriptClose
    BY DEF Next, Call, NativeEdit, ScriptEdit, ScriptRemove, ScriptSpoil, NativeCancel,
           ScriptCancel, ScriptOpen, ScriptSpoilFlag, Refuse, Pass, FallBack, After, listened
  <2>2. RowOK(event, Row) /\ Formed(Row) /\ ToSet(Row.reads) \subseteq Keys /\ Mirrors(Row)
    BY RowIsOK DEF IInv, TypeOK, RowOK
  <2>3. tag.flag = FlagShown /\ \A key \in ToSet(Row.reads) : tag.values[key] = cells[key]
    BY DEF Serialized
  <2>4. \A i \in DOMAIN Row.reads : Readable(Row.reads[i])
    BY <2>2, <2>3, ValueFacts DEF IInv, TypeOK, Mirrors, Readable, ToSet
  <2>5. ~(FlagRead /\ tag.flag = "unreadable")
    BY <2>2, <2>3 DEF Mirrors, FlagRead, FlagShown
  <2>6. FirstUnread = Len(Row.reads) + 1 /\ FirstUnread \notin DOMAIN Row.reads
    BY <2>2, <2>4, <2>5, WhereItStops
  <2>7. ASSUME NEW k \in Keys  PROVE Deserialized[k] = cells[k]
    <3>1. ASSUME NEW i \in DOMAIN Row.reads, Writes(i, k)
          PROVE  ReadBack(Row.reads[i]) = cells[k]
      <4>1. Row.reads[i] \in ToSet(Row.reads) /\ Row.reads[i] \notin Row.grows
        BY <2>2 DEF ToSet, Mirrors
      <4>. QED  BY <2>2, <2>3, <3>1, <4>1 DEF Writes, ReadBack, IInv, OneValue
    <3>. QED  BY <2>2, <3>1, WhatIsRead DEF IInv, TypeOK
  <2>8. Deserialized = cells
    BY <2>7 DEF IInv, TypeOK, Deserialized
  <2>9. cells' = cells
    BY <2>1, <2>6, <2>8 DEF ScriptClose, Halved
  <2>10. isCancelled' = isCancelled
    BY <2>1, <2>2, <2>3, <2>5, WhereItStops DEF ScriptClose, FlagRead, FlagShown, IInv, TypeOK
  <2>11. threw' = threw
    BY <2>1, <2>2, <2>6, WhereItStops DEF ScriptClose, IInv, TypeOK
  <2>. QED  BY <2>9, <2>10, <2>11
<1>. QED  BY <1>1, Invariant, PTL DEF Spec, RoundTrip

\* Before shows what the function was called with, unless another call has left
\* something in a variable the hook refers to, and After what the engine has got.
\* It is so for every key but those in Misshown, of which the table shows that
\* it is not (TruthTold).
THEOREM TellsTheTruth == Spec => TruthTold
<1> DEFINE Honest ==
        \A key \in Keys : <<event, key>> \notin Misshown =>
          /\ pc' = "publishing" /\ pc \notin {"publishing", "script"} => Shown(cells', key) = Own
          /\ pc' = "told" /\ key \in Row.after => told'[key] = got[key]
<1>1. IInv /\ [Next]_vars => [Honest]_vars
  <2> SUFFICES ASSUME IInv, Next,
                      NEW key \in Keys, <<event, key>> \notin Misshown
               PROVE  /\ pc' = "publishing" /\ pc \notin {"publishing", "script"} => Shown(cells', key) = Own
                      /\ pc' = "told" /\ key \in Row.after => told'[key] = got[key]
    OBVIOUS
  <2>1. Shows(Row, key)
    BY RowIsOK DEF IInv, TypeOK, RowOK
  <2>2. ASSUME pc' = "publishing", pc \notin {"publishing", "script"}
        PROVE  Shown(cells', key) = Own
    <3>1. cells' = Made
      BY <2>2 DEF Next, Call, NativeEdit, ScriptEdit, ScriptRemove, ScriptSpoil, NativeCancel,
                  ScriptCancel, ScriptOpen, ScriptSpoilFlag, ScriptClose, Refuse, Pass, FallBack, After
    <3>. QED  BY <2>1, <3>1 DEF Made, Shown, Shows
  <2>3. ASSUME pc' = "told", key \in Row.after
        PROVE  told'[key] = got[key]
    <3>1. After
      BY <2>3 DEF Next, Call, NativeEdit, ScriptEdit, ScriptRemove, ScriptSpoil, NativeCancel,
                  ScriptCancel, ScriptOpen, ScriptSpoilFlag, ScriptClose, Refuse, Pass, FallBack, listened
    <3>. QED  BY <2>1, <2>3, <3>1 DEF After, Shows, IInv, StillThere
  <2>. QED  BY <2>2, <2>3
<1>. QED  BY <1>1, Invariant, PTL DEF Spec, TruthTold

=============================================================================
