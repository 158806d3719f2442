---------------------------- MODULE EventValues ----------------------------
(***************************************************************************)
(* What listeners write in a Before event, and what becomes of it.         *)
(*                                                                         *)
(* An event holds references to the arguments of the hooked call.  A       *)
(* native listener writes through them; a script gets the event as a tag   *)
(* (serialize), edits the tag, and has it read back (deserialize), which   *)
(* throws at the first key it cannot read and leaves the rest as it was.   *)
(* Then the hook refuses the call, or makes it with the values the event   *)
(* has now, and tells the After event.                                     *)
(*                                                                         *)
(* The events differ in which keys are read back and how; each is written  *)
(* down here as a row of a table, and one machine runs any of them.  The   *)
(* order of the steps of a hook is the subject of HookFlow.                *)
(***************************************************************************)
EXTENDS Integers, SequencesExt

CONSTANT
    MaxEdits    (* bound: values written or broken during one call         *)

ASSUME EventValuesAssumption == MaxEdits \in Nat

-----------------------------------------------------------------------------
(* The rows.                                                               *)
(*                                                                         *)
(*   flag     both: "cancelled" is written to the tag and read back;       *)
(*            unread: it is not read back; unwritten: it is read and not   *)
(*            written; neither; none: the event cannot be cancelled        *)
(*   reads    the keys deserialize reads, in order                         *)
(*   enums    keys whose names, if unknown, leave the value as it is       *)
(*   fails    keys that cannot be read                                     *)
(*   grows    lists that are added to and not replaced                     *)
(*   shared   keys that are one and the same reference                     *)
(*   local    keys whose reference is to something the engine never sees   *)
(*   kept     keys whose reference is to something that outlives the call, *)
(*            as the code shows                                            *)
(*   lent     keys that After reads from where the hook has taken what     *)
(*            listeners wrote out again                                    *)
(*   optional keys that may be missing: the value is then reset            *)
(*   skewed   keys that show something other than what was passed          *)
(*   answers  keys the engine answers through                              *)
(*   after    the keys of the After event                                  *)
(*   carried  keys of the argument that the event does not show            *)
(*   sent     the key from which each key of a rewritten argument is sent  *)
(*   bounded  the hook may fall back on the original argument              *)
(*   relayed  the event is relayed from another mod's event                *)

Asks(reads) ==
    [ flag |-> "both", reads |-> reads, enums |-> {}, fails |-> {}, grows |-> {},
      shared |-> {}, local |-> {}, kept |-> {}, skewed |-> {}, answers |-> {},
      lent |-> {}, optional |-> {}, after |-> ToSet(reads), carried |-> {},
      sent |-> <<>>, bounded |-> FALSE, relayed |-> FALSE ]

Tells(reads) == [Asks(reads) EXCEPT !.flag = "none"]

Relayed == [Asks(<<>>) EXCEPT !.flag = "unwritten", !.relayed = TRUE]

\* Money.  The sender of Add, Reduce and Set is a static string of the hook.
MoneyChange ==
    [Asks(<<"from", "to", "value">>) EXCEPT !.local = {"from"}, !.kept = {"from"}]
MoneyTrans == Asks(<<"from", "to", "value">>)

\* Server.
RegisterCmd ==
    [Tells(<<"description", "requirement", "flag1", "flag2">>) EXCEPT
        !.enums = {"requirement", "flag1", "flag2"}]
SendPacket ==
    [Asks(<<"senderSubId">>) EXCEPT !.flag = "neither", !.enums = {"senderSubId"}]
SendMultiplePacket == [Asks(<<>>) EXCEPT !.flag = "unwritten"]
ReceivePacket == Asks(<<>>)

\* A pong is taken to pieces and put together again.  What RakNet's says of
\* the edition, the number of the game mode and its last field is a constant.
Pong ==
    [Asks(<<"motd", "protocolVersion", "networkVersion", "playerCount",
            "maxPlayerCount", "guid", "levelName", "gameMode", "localPort",
            "localPortV6", "others">>) EXCEPT !.enums = {"gameMode"}]

Sent(parsed, written) ==
    [key \in ToSet(parsed) |->
        written[CHOOSE i \in DOMAIN parsed : parsed[i] = key]]

RakNetParsed ==
    <<"edition", "motd", "protocolVersion", "networkVersion", "playerCount",
      "maxPlayerCount", "guid", "levelName", "gameMode", "gameModeId",
      "localPort", "localPortV6", "reserved", "others">>
RakNetWritten ==
    <<"constant", "motd", "protocolVersion", "networkVersion", "playerCount",
      "maxPlayerCount", "guid", "levelName", "gameMode", "constant",
      "localPort", "localPortV6", "constant", "others">>
RakNetPong ==
    [Pong EXCEPT
        !.carried = {"edition", "gameModeId", "reserved"},
        !.sent = Sent(RakNetParsed, RakNetWritten)]

NetherNetRead ==
    <<"version", "motd", "protocolVersion", "networkVersion", "levelName",
      "playerCount", "maxPlayerCount", "gameMode", "editorWorld", "hardcore",
      "onlineAuth", "selfSignedAuth", "nonce", "connectionType">>
\* Mutant: two fields of one type are written in the other order.
NetherNetWrittenSwapped ==
    <<"version", "motd", "protocolVersion", "levelName", "networkVersion",
      "playerCount", "maxPlayerCount", "gameMode", "editorWorld", "hardcore",
      "onlineAuth", "selfSignedAuth", "nonce", "connectionType">>
NetherNetWritten ==
    <<"version", "motd", "protocolVersion", "networkVersion", "levelName",
      "playerCount", "maxPlayerCount", "gameMode", "editorWorld", "hardcore",
      "onlineAuth", "selfSignedAuth", "nonce", "connectionType">>
\* guid, ports and the rest are the hook's own: they are not in the argument.
NetherNetPong ==
    [Pong EXCEPT
        !.carried = ToSet(NetherNetRead) \ ToSet(Pong.reads),
        !.sent = Sent(NetherNetRead, NetherNetWritten),
        !.local = {"guid", "localPort", "localPortV6", "others"},
        !.bounded = TRUE]

HttpParsed ==
    <<"motd", "protocolVersion", "networkVersion", "levelName", "playerCount",
      "maxPlayerCount", "gameMode">>
HttpWritten ==
    <<"motd", "protocolVersion", "networkVersion", "levelName", "playerCount",
      "maxPlayerCount", "gameMode">>
HttpJoinInfo ==
    [Pong EXCEPT
        !.sent = Sent(HttpParsed, HttpWritten),
        !.local = {"guid", "localPort", "localPortV6", "others"}]

\* World.
Explosion ==
    [Asks(<<"pos", "radius", "affectedBlocks", "fire", "breaking",
            "allowUnderwater", "canToggleBlocks", "damageScaling",
            "ignoreBlockExplosionResistance", "particleType",
            "soundExplosionType", "sourceId", "maxResistance",
            "inWaterOverride", "totalDamageOverride", "knockbackScaling">>) EXCEPT
        !.enums = {"particleType", "soundExplosionType"},
        !.lent = {"affectedBlocks"},
        !.optional = {"inWaterOverride", "totalDamageOverride"}]
PistonPush ==
    [Asks(<<"pushPos", "branchFacing", "pistonMoveFacing">>) EXCEPT
        !.fails = {"pushPos"}]
\* The position is that of the circuit's list, the flag that of the component.
RedstoneUpdate ==
    [Asks(<<"pos", "strength", "isFirstTime">>) EXCEPT
        !.local = {"strength"}, !.answers = {"isFirstTime"},
        !.kept = {"pos", "isFirstTime"}]
\* The second loop has a list of its own.
RedstoneSecondary == [RedstoneUpdate EXCEPT !.kept = {"isFirstTime"}]
ObserverPulse ==
    [Asks(<<"pos", "strength", "isFirstTime">>) EXCEPT
        !.local = {"strength", "isFirstTime"}]
SculkBlockGrowth == Asks(<<"pos">>)
SpawnItemActor == Asks(<<"pos", "throwTime">>)
WitherDestroy == Asks(<<"box", "radius">>)
FireTryBurnBlock == Asks(<<>>)

\* Actors.
ActorChangeDimension ==
    [Asks(<<"toDimensionId">>) EXCEPT !.local = {"toDimensionId"}, !.after = {}]
ActorGetEffect == Asks(<<"effect">>)
ArmorStandSwapItem ==
    [Asks(<<"slot">>) EXCEPT !.enums = {"slot"}, !.local = {"slot"}]
DeathMessage ==
    [Asks(<<"key", "cause", "params">>) EXCEPT
        !.enums = {"cause"}, !.grows = {"params"}]
MobHealthChange ==
    [Asks(<<"oldValue", "newValue", "amount", "type", "scale", "amplification",
            "id", "operand">>) EXCEPT
        !.enums = {"type"}, !.answers = {"newValue"}]
MobHurtEffect == [Asks(<<"value", "cause">>) EXCEPT !.enums = {"cause"}]
MobPlaceBlock == Asks(<<"pos">>)
MobTakeBlock == Asks(<<"pos">>)
ActorTick == Asks(<<>>)
ActorRide == Asks(<<>>)
ActorDestroyBlock == Asks(<<>>)
ActorTriggerPressurePlate == Asks(<<>>)
ProjectileCreate == Asks(<<>>)
DragonRespawn == Asks(<<>>)
FireworkRocketDealDamage == [Asks(<<>>) EXCEPT !.flag = "unwritten"]

\* Players.
PlayerAttackBlock == [Asks(<<"pos", "face">>) EXCEPT !.enums = {"face"}]
PlayerAte == Asks(<<>>)
PlayerChangeDimension == Tells(<<>>)
PlayerChangeGameType ==
    [Asks(<<"newGameType">>) EXCEPT !.enums = {"newGameType"}]
PlayerChangeSlot == Asks(<<>>)
PlayerCloseContainer ==
    [Tells(<<"containerId", "containerType", "serverInitiatedClose">>) EXCEPT
        !.enums = {"containerType"}]
PlayerDropItem == Asks(<<>>)
PlayerEditSign == Asks(<<"pos", "text">>)
PlayerInteractEntity == Asks(<<"pos">>)
PlayerOpenContainer ==
    [Asks(<<"containerBlockPos", "containerType", "containerActorId">>) EXCEPT
        !.enums = {"containerType"}]
PlayerOperatedItemFrame == Asks(<<>>)
\* isDstSerialized is given the field of isAmountSerialized.
PlayerRequestItemAction ==
    [Asks(<<"actionType", "isDstSerialized", "isAmountSerialized", "amount",
            "srcName", "srcDynamicId", "srcSlot",
            "dstName", "dstDynamicId", "dstSlot">>) EXCEPT
        !.flag = "unread",
        !.enums = {"actionType", "srcName", "dstName"},
        !.optional = {"srcDynamicId", "dstDynamicId"},
        !.shared = {"isDstSerialized", "isAmountSerialized"},
        !.local = {"isDstSerialized"},
        !.skewed = {"isDstSerialized"}]
PlayerRequestItemResult ==
    [Tells(<<"result">>) EXCEPT !.enums = {"result"}, !.after = {}]
PlayerStartSleep == Asks(<<"pos">>)
PlayerStartSleepResult ==
    [Tells(<<"result">>) EXCEPT !.enums = {"result"}, !.after = {}]
PlayerStopSleep == Tells(<<"forcefulWakeUp", "updateLevelList">>)

\* Levels and blocks.
LevelTick == Asks(<<>>)
\* Mutant: an argument is copied into a variable of the hook.
WeatherUpdateCopies ==
    [Asks(<<"rainLevel", "rainTime", "lightningLevel", "lightningTime">>) EXCEPT
        !.local = {"rainTime"}]
WeatherUpdate ==
    Asks(<<"rainLevel", "rainTime", "lightningLevel", "lightningTime">>)
BlockFall == [Asks(<<"creative">>) EXCEPT !.after = {}]
BlockTick == Asks(<<"pos">>)
BlockActorTick == Asks(<<>>)
DragonEggBlockTeleport == Asks(<<"targetPos">>)
\* Mutant: a key is misspelt where it is read.
FarmDecayMisspelt ==
    [Asks(<<"pos", "fallDistance">>) EXCEPT !.fails = {"fallDistance"}]
FarmDecay == Asks(<<"pos", "fallDistance">>)
LiquidFlow == Asks(<<"pos", "depth">>)
MossGrowth == Asks(<<"pos">>)
MossGrowthResult ==
    [Tells(<<"targetPoss">>) EXCEPT !.fails = {"targetPoss"}, !.after = {}]
SculkCatalystAbsorbExperience == Asks(<<>>)
SculkSpread ==
    [Asks(<<"selfPos", "selfFace", "targetPos", "targetFace", "facing">>) EXCEPT
        !.local = {"selfFace", "facing"}]
ChestPairWith == Asks(<<"position">>)
VillageFeatureConstruction ==
    [Tells(<<"allowedBiomes", "seed", "townSpacing", "minTownSeparation">>)
        EXCEPT !.local = {"seed"}, !.after = {}]
CheckVillageChunk == Asks(<<>>)
StructureFeatureChunk == Asks(<<>>)

\* Relayed from LeviAntiCheat, whose enumeration of cheats is another one.
PlayerCheat ==
    [Relayed EXCEPT !.carried = {"cheatType"}, !.skewed = {"cheatType"}]
PlayerBanWave == Relayed
SusClient == Relayed

\* By name.
Rows == [
    MoneyChange |-> MoneyChange,
    MoneyTrans |-> MoneyTrans,
    RegisterCmd |-> RegisterCmd,
    SendPacket |-> SendPacket,
    SendMultiplePacket |-> SendMultiplePacket,
    ReceivePacket |-> ReceivePacket,
    RakNetPong |-> RakNetPong,
    NetherNetPong |-> NetherNetPong,
    HttpJoinInfo |-> HttpJoinInfo,
    Explosion |-> Explosion,
    PistonPush |-> PistonPush,
    RedstoneUpdate |-> RedstoneUpdate,
    RedstoneSecondary |-> RedstoneSecondary,
    ObserverPulse |-> ObserverPulse,
    SculkBlockGrowth |-> SculkBlockGrowth,
    SpawnItemActor |-> SpawnItemActor,
    WitherDestroy |-> WitherDestroy,
    FireTryBurnBlock |-> FireTryBurnBlock,
    ActorChangeDimension |-> ActorChangeDimension,
    ActorGetEffect |-> ActorGetEffect,
    ArmorStandSwapItem |-> ArmorStandSwapItem,
    DeathMessage |-> DeathMessage,
    MobHealthChange |-> MobHealthChange,
    MobHurtEffect |-> MobHurtEffect,
    MobPlaceBlock |-> MobPlaceBlock,
    MobTakeBlock |-> MobTakeBlock,
    ActorTick |-> ActorTick,
    ActorRide |-> ActorRide,
    ActorDestroyBlock |-> ActorDestroyBlock,
    ActorTriggerPressurePlate |-> ActorTriggerPressurePlate,
    ProjectileCreate |-> ProjectileCreate,
    DragonRespawn |-> DragonRespawn,
    FireworkRocketDealDamage |-> FireworkRocketDealDamage,
    PlayerAttackBlock |-> PlayerAttackBlock,
    PlayerAte |-> PlayerAte,
    PlayerChangeDimension |-> PlayerChangeDimension,
    PlayerChangeGameType |-> PlayerChangeGameType,
    PlayerChangeSlot |-> PlayerChangeSlot,
    PlayerCloseContainer |-> PlayerCloseContainer,
    PlayerDropItem |-> PlayerDropItem,
    PlayerEditSign |-> PlayerEditSign,
    PlayerInteractEntity |-> PlayerInteractEntity,
    PlayerOpenContainer |-> PlayerOpenContainer,
    PlayerOperatedItemFrame |-> PlayerOperatedItemFrame,
    PlayerRequestItemAction |-> PlayerRequestItemAction,
    PlayerRequestItemResult |-> PlayerRequestItemResult,
    PlayerStartSleep |-> PlayerStartSleep,
    PlayerStartSleepResult |-> PlayerStartSleepResult,
    PlayerStopSleep |-> PlayerStopSleep,
    LevelTick |-> LevelTick,
    WeatherUpdate |-> WeatherUpdate,
    BlockFall |-> BlockFall,
    BlockTick |-> BlockTick,
    BlockActorTick |-> BlockActorTick,
    DragonEggBlockTeleport |-> DragonEggBlockTeleport,
    FarmDecay |-> FarmDecay,
    LiquidFlow |-> LiquidFlow,
    MossGrowth |-> MossGrowth,
    MossGrowthResult |-> MossGrowthResult,
    SculkCatalystAbsorbExperience |-> SculkCatalystAbsorbExperience,
    SculkSpread |-> SculkSpread,
    ChestPairWith |-> ChestPairWith,
    VillageFeatureConstruction |-> VillageFeatureConstruction,
    CheckVillageChunk |-> CheckVillageChunk,
    StructureFeatureChunk |-> StructureFeatureChunk,
    PlayerCheat |-> PlayerCheat,
    PlayerBanWave |-> PlayerBanWave,
    SusClient |-> SusClient ]

-----------------------------------------------------------------------------
(* The machine.                                                            *)

\* A value is the engine's own, that of the nth edit, or something else.
Own == 0
Other == -1
Values == {Own, Other} \union 1..MaxEdits

\* What a tag may hold besides: a name that does not exist, or no value of the
\* right type, or none.
Nonsense == -2
Unreadable == -3

FlagWords == {"cancelled", "allowed", "unreadable"}

VARIABLES
    event,      (* the event this is about: one for a whole behaviour      *)
    pc,         (* how far the call has got                                *)
    cells,      (* what the references of the event refer to               *)
    isCancelled,(* its flag                                                *)
    tag,        (* what a script has of it                                 *)
    edits,      (* edits made during this call                             *)
    wish,       (* for each key, what was written last                     *)
    veto,       (* the last word on the flag                               *)
    spoiled,    (* keys a script has left with nothing that can be read    *)
    threw,      (* a deserialize has thrown                                *)
    got, told   (* what the engine and the After event got                 *)

vars == <<event, pc, cells, isCancelled, tag, edits, wish, veto, spoiled, threw, got, told>>
listened == <<event, pc, got, told>>

Row == Rows[event]
Keys == ToSet(Row.reads) \union Row.carried
Stages == {"idle", "publishing", "script", "refused", "passed", "fellBack", "told"}

NoTag == [flag |-> "unreadable", values |-> <<>>]
Owned(keys) == [key \in keys |-> Own]

Init ==
    /\ event \in DOMAIN Rows
    /\ pc = "idle"
    /\ cells = Owned(Keys)
    /\ isCancelled = FALSE
    /\ tag = NoTag
    /\ edits = 0
    /\ wish = Owned(Keys)
    /\ veto = FALSE
    /\ spoiled = {}
    /\ threw = FALSE
    /\ got = Owned(Keys)
    /\ told = Owned(Row.after)

\* The engine calls the hooked function, which makes the event: references to
\* the arguments, and a flag that is down (that of the event it is relayed from
\* may be up).  A reference that outlives the call has kept what was written.
Made == [key \in Keys |-> IF key \in Row.kept /\ cells[key] # Own THEN Other ELSE Own]

\* Mutant: all references are to variables that outlive the call.
CallKeeps ==
    /\ pc \notin {"publishing", "script"}
    /\ pc' = "publishing"
    /\ UNCHANGED cells
    /\ isCancelled' = FALSE
    /\ veto' \in (IF Row.relayed THEN BOOLEAN ELSE {FALSE})
    /\ wish' = cells'
    /\ edits' = 0
    /\ spoiled' = {}
    /\ threw' = FALSE
    /\ got' = Owned(Keys)
    /\ told' = Owned(Row.after)
    /\ UNCHANGED <<event, tag>>

Call ==
    /\ pc \notin {"publishing", "script"}
    /\ pc' = "publishing"
    /\ cells' = Made
    /\ isCancelled' = FALSE
    /\ veto' \in (IF Row.relayed THEN BOOLEAN ELSE {FALSE})
    /\ wish' = cells'
    /\ edits' = 0
    /\ spoiled' = {}
    /\ threw' = FALSE
    /\ got' = Owned(Keys)
    /\ told' = Owned(Row.after)
    /\ UNCHANGED <<event, tag>>

\* One write: through a reference, so to every key that shares it.
Written(values, key, value) ==
    [k \in DOMAIN values |->
        IF k = key \/ {k, key} \subseteq Row.shared THEN value ELSE values[k]]

Cancellable == Row.flag # "none"

-----------------------------------------------------------------------------
(* Listeners.                                                              *)

NativeEdit(key) ==
    /\ pc = "publishing"
    /\ edits < MaxEdits
    /\ edits' = edits + 1
    /\ cells' = Written(cells, key, edits')
    /\ wish' = [wish EXCEPT ![key] = edits']
    /\ UNCHANGED <<listened, isCancelled, tag, veto, spoiled, threw>>

NativeCancel(cancel) ==
    /\ pc = "publishing"
    /\ Cancellable
    /\ isCancelled' = cancel
    /\ veto' = cancel
    /\ UNCHANGED <<listened, cells, tag, edits, wish, spoiled, threw>>

\* The script's side of the bus serializes the event, calls the script ...
FlagShown ==
    CASE Row.flag \in {"unwritten", "neither", "none"} -> "unreadable"
      [] isCancelled -> "cancelled"
      [] OTHER -> "allowed"

Serialized == [flag |-> FlagShown, values |-> [key \in ToSet(Row.reads) |-> cells[key]]]

ScriptOpen ==
    /\ pc = "publishing"
    /\ pc' = "script"
    /\ tag' = Serialized
    /\ UNCHANGED <<event, cells, isCancelled, edits, wish, veto, spoiled, threw, got, told>>

ScriptEdit(key) ==
    /\ pc = "script"
    /\ edits < MaxEdits
    /\ edits' = edits + 1
    /\ tag' = [tag EXCEPT !.values[key] = edits']
    /\ wish' = [wish EXCEPT ![key] = edits']
    /\ UNCHANGED <<listened, cells, isCancelled, veto, spoiled, threw>>

\* ... which may take away a key that may be missing, put in a name that does
\* not exist, or leave nothing that can be read ...
ScriptRemove(key) ==
    /\ pc = "script"
    /\ edits < MaxEdits
    /\ key \in Row.optional
    /\ edits' = edits + 1
    /\ tag' = [tag EXCEPT !.values[key] = Other]
    /\ wish' = [wish EXCEPT ![key] = Other]
    /\ UNCHANGED <<listened, cells, isCancelled, veto, spoiled, threw>>

ScriptSpoil(key) ==
    /\ pc = "script"
    /\ edits < MaxEdits
    /\ edits' = edits + 1
    /\ \E what \in {Unreadable} \union (IF key \in Row.enums THEN {Nonsense} ELSE {}) :
           tag' = [tag EXCEPT !.values[key] = what]
    /\ spoiled' = spoiled \union {key}
    /\ UNCHANGED <<listened, cells, isCancelled, wish, veto, threw>>

ScriptCancel(cancel) ==
    /\ pc = "script"
    /\ Cancellable
    /\ tag' = [tag EXCEPT !.flag = IF cancel THEN "cancelled" ELSE "allowed"]
    /\ veto' = cancel
    /\ UNCHANGED <<listened, cells, isCancelled, edits, wish, spoiled, threw>>

ScriptSpoilFlag ==
    /\ pc = "script"
    /\ edits < MaxEdits
    /\ Row.flag = "both"
    /\ edits' = edits + 1
    /\ tag' = [tag EXCEPT !.flag = "unreadable"]
    /\ spoiled' = spoiled \union {"cancelled"}
    /\ UNCHANGED <<listened, cells, isCancelled, wish, veto, threw>>

\* ... and deserializes the tag: first the flag, then the keys in their order.
FlagRead == Row.flag \in {"both", "unwritten"}

Readable(key) == key \notin Row.fails /\ tag.values[key] # Unreadable

FirstUnread ==
    IF FlagRead /\ tag.flag = "unreadable"
      THEN 0
      ELSE Min({i \in DOMAIN Row.reads : ~Readable(Row.reads[i])}
                 \union {Len(Row.reads) + 1})

\* Reading the ith key writes to k.
Writes(i, k) ==
    /\ Row.reads[i] = k \/ {Row.reads[i], k} \subseteq Row.shared
    /\ Row.reads[i] \in Row.grows \/ tag.values[Row.reads[i]] # Nonsense

ReadBack(key) == IF key \in Row.grows THEN Other ELSE tag.values[key]

\* A position or a list is read piece by piece: it may have been begun.
Piecewise == {"pos", "selfPos", "targetPos", "position", "containerBlockPos", "box",
              "affectedBlocks", "allowedBiomes", "others", "params"}

Halved(values) ==
    IF FirstUnread \in DOMAIN Row.reads /\ Row.reads[FirstUnread] \in Piecewise
      THEN {values, Written(values, Row.reads[FirstUnread], Other)}
      ELSE {values}

\* Where several keys write to one place, the one that is read last stays.
Deserialized ==
    [k \in DOMAIN cells |->
        LET writers == {i \in 1..(FirstUnread - 1) : Writes(i, k)} IN
        IF writers = {} THEN cells[k] ELSE ReadBack(Row.reads[Max(writers)])]

\* Mutant: the flag is read after the keys, and not at all if one has failed.
ScriptCloseFlagLast ==
    /\ pc = "script"
    /\ pc' = "publishing"
    /\ threw' = (threw \/ FirstUnread <= Len(Row.reads))
    /\ cells' \in Halved(Deserialized)
    /\ isCancelled' = IF FlagRead /\ FirstUnread > Len(Row.reads)
                        THEN tag.flag = "cancelled" ELSE isCancelled
    /\ tag' = NoTag
    /\ UNCHANGED <<event, edits, wish, veto, spoiled, got, told>>

ScriptClose ==
    /\ pc = "script"
    /\ pc' = "publishing"
    /\ threw' = (threw \/ FirstUnread <= Len(Row.reads))
    /\ cells' \in Halved(Deserialized)
    /\ isCancelled' = IF FlagRead /\ FirstUnread > 0
                        THEN tag.flag = "cancelled" ELSE isCancelled
    /\ tag' = NoTag
    /\ UNCHANGED <<event, edits, wish, veto, spoiled, got, told>>

-----------------------------------------------------------------------------
(* The hook.                                                               *)

Refuse ==
    /\ pc = "publishing"
    /\ isCancelled
    /\ pc' = "refused"
    /\ UNCHANGED <<event, cells, isCancelled, tag, edits, wish, veto, spoiled, threw, got, told>>

\* What of the event's values makes up the argument for the engine.
Given(key) ==
    LET from == IF key \in DOMAIN Row.sent THEN Row.sent[key] ELSE key IN
    CASE key \in Row.local -> Own
      [] from = "constant" -> Other
      [] OTHER -> cells[from]

Pass ==
    /\ pc = "publishing"
    /\ ~isCancelled
    /\ pc' = "passed"
    /\ got' = [key \in Keys |-> Given(key)]
    /\ cells' = [key \in Keys |-> IF key \in Row.answers THEN Other ELSE cells[key]]
    /\ UNCHANGED <<event, isCancelled, tag, edits, wish, veto, spoiled, threw, told>>

\* What was put together does not fit: the engine gets the original argument.
FallBack ==
    /\ pc = "publishing"
    /\ ~isCancelled
    /\ Row.bounded
    /\ pc' = "fellBack"
    /\ UNCHANGED <<event, cells, isCancelled, tag, edits, wish, veto, spoiled, threw, got, told>>

\* Mutant: the After event is made of the arguments as they came.
AfterStale ==
    /\ pc = "passed"
    /\ pc' = "told"
    /\ told' = Owned(Row.after)
    /\ UNCHANGED <<event, cells, isCancelled, tag, edits, wish, veto, spoiled, threw, got>>

\* The engine has done it, and the After event is made of the same references.
\* What was lent to the listeners is there if the engine has put it back.
After ==
    /\ pc = "passed"
    /\ pc' = "told"
    /\ \E back \in BOOLEAN :
           told' = [key \in Row.after |->
                       IF key \in Row.lent /\ ~back THEN Other ELSE cells[key]]
    /\ UNCHANGED <<event, cells, isCancelled, tag, edits, wish, veto, spoiled, threw, got>>

Next ==
    \/ Call
    \/ \E key \in ToSet(Row.reads) :
           NativeEdit(key) \/ ScriptEdit(key) \/ ScriptRemove(key) \/ ScriptSpoil(key)
    \/ \E cancel \in BOOLEAN : NativeCancel(cancel) \/ ScriptCancel(cancel)
    \/ ScriptOpen \/ ScriptSpoilFlag \/ ScriptClose
    \/ Refuse \/ Pass \/ FallBack \/ After

Spec == Init /\ [][Next]_vars

-----------------------------------------------------------------------------
(* Where the code does not keep a property; the README explains each.      *)

\* Keys of a pong that are not in the argument.
PongOwn == {"guid", "localPort", "localPortV6", "others"}

\* <<event, key>>: exempt from WishGranted.
Lost ==
    (* deserialize throws before it gets there                             *)
    ({"PistonPush"} \X {"pushPos", "branchFacing", "pistonMoveFacing"})
    \union {<<"MossGrowthResult", "targetPoss">>}
    (* added to, not replaced                                              *)
    \union {<<"DeathMessage", "params">>}
    (* two names for one field                                             *)
    \union ({"PlayerRequestItemAction"} \X {"isDstSerialized", "isAmountSerialized"})
    (* a variable of the hook                                              *)
    \union ({"NetherNetPong", "HttpJoinInfo"} \X PongOwn)
    \union ({"SculkSpread"} \X {"selfFace", "facing"})
    \union ({"ObserverPulse"} \X {"strength", "isFirstTime"})
    \union { <<"MoneyChange", "from">>, <<"RedstoneUpdate", "strength">>,
             <<"RedstoneSecondary", "strength">>,
             <<"ActorChangeDimension", "toDimensionId">>, <<"ArmorStandSwapItem", "slot">>,
             <<"VillageFeatureConstruction", "seed">> }
    (* overwritten by a constant                                           *)
    \union ({"RakNetPong"} \X {"edition", "gameModeId", "reserved"})

\* <<event, key>>: exempt from TruthTold.
Misshown ==
    (* After is made of a variable the engine never saw                    *)
    ({"NetherNetPong", "HttpJoinInfo"} \X PongOwn)
    \union ({"SculkSpread"} \X {"selfFace", "facing"})
    \union ({"ObserverPulse"} \X {"strength", "isFirstTime"})
    \union { <<"RedstoneUpdate", "strength">>, <<"RedstoneSecondary", "strength">>,
             <<"ArmorStandSwapItem", "slot">>, <<"MoneyChange", "from">> }
    (* the next Before shows what was written into the circuit             *)
    \union { <<"RedstoneUpdate", "pos">> }
    (* After shows what the engine has made of it                          *)
    \union { <<"RedstoneUpdate", "isFirstTime">>, <<"RedstoneSecondary", "isFirstTime">>,
             <<"MobHealthChange", "newValue">> }
    (* After looks where the list was before listeners had it              *)
    \union { <<"Explosion", "affectedBlocks">> }
    (* another field, another enumeration                                  *)
    \union { <<"PlayerRequestItemAction", "isDstSerialized">>,
             <<"PlayerCheat", "cheatType">> }

\* Events exempt from VetoHeard, and from RoundTrip.
Deaf == {"PlayerRequestItemAction", "PlayerCheat", "PlayerBanWave", "SusClient",
         "SendPacket"}

OneWay == {"PistonPush", "MossGrowthResult", "DeathMessage", "SendMultiplePacket",
             "FireworkRocketDealDamage", "PlayerCheat", "PlayerBanWave", "SusClient"}

-----------------------------------------------------------------------------
(* Properties.                                                             *)

\* Also: there is a tag only while a script runs, and nothing carries the mark
\* of an edit that has not been made.
TypeOK ==
    /\ event \in DOMAIN Rows
    /\ pc \in Stages
    /\ cells \in [Keys -> Values] /\ wish \in [Keys -> Values] /\ got \in [Keys -> Values]
    /\ told \in [Row.after -> Values]
    /\ isCancelled \in BOOLEAN /\ veto \in BOOLEAN /\ threw \in BOOLEAN
    /\ tag.flag \in FlagWords
    /\ pc # "script" => tag = NoTag
    /\ edits \in 0..MaxEdits
    /\ spoiled \subseteq ToSet(Row.reads) \union {"cancelled"}
    /\ \A key \in Keys : cells[key] <= edits /\ got[key] <= edits

\* The engine is called with what was written last, whoever wrote it: a script
\* that runs after a native listener puts back what that one wrote.  A key that
\* cannot be read costs itself and what is read after it, nothing before it.
Sound(key) ==
    /\ FlagRead => "cancelled" \notin spoiled
    /\ \A i \in DOMAIN Row.reads :
           Row.reads[i] \in spoiled => \A j \in i..Len(Row.reads) : Row.reads[j] # key

WishGranted ==
    pc \in {"passed", "told"} =>
        \A key \in Keys : <<event, key>> \notin Lost /\ Sound(key) => got[key] = wish[key]

\* A call is refused if and only if the last word on its flag was a veto, also
\* that of a script whose tag cannot be read to the end.
VetoHeard ==
    event \notin Deaf /\ "cancelled" \notin spoiled =>
        /\ pc = "refused" => veto
        /\ pc \in {"passed", "fellBack", "told"} => ~veto

\* A script that looks at an event and changes nothing changes nothing: what
\* serialize writes, deserialize reads back, without an exception.
RoundTrip ==
    [][ pc = "script" /\ pc' = "publishing" /\ tag = Serialized /\ event \notin OneWay
        => UNCHANGED <<cells, isCancelled, threw>> ]_vars

\* The Before event shows the arguments the function was called with, not what
\* another call has left in a variable the hook refers to; the After event those
\* the engine got.
Shown(values, key) == IF key \in Row.skewed THEN Other ELSE values[key]

TruthTold ==
    [][ \A key \in Keys : <<event, key>> \notin Misshown =>
          /\ pc' = "publishing" /\ pc \notin {"publishing", "script"} => Shown(cells', key) = Own
          /\ pc' = "told" /\ key \in Row.after => told'[key] = got[key] ]_vars

=============================================================================
