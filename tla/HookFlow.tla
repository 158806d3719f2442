------------------------------ MODULE HookFlow ------------------------------
(***************************************************************************)
(* What a hook does with one engine call.  The hooks of the library differ *)
(* in the order of a few steps; each is written down here as its sequence  *)
(* of steps, and one machine runs any of them against listeners that       *)
(* cancel and an engine that refuses or throws.                            *)
(*                                                                         *)
(*   applies   the call is one the event is about; if not, origin and done *)
(*   found     a look-up of the hook's own; if it fails the hook throws    *)
(*   possible  the hook's own test of the engine; if it fails, nothing     *)
(*   before    publish the Before event, which a listener may cancel       *)
(*   notice    publish a Before event that cannot be cancelled             *)
(*   front     publish one for this side of the sign, if it was edited     *)
(*   back      and for this one                                            *)
(*   veto      cancelled: return a refusal                                 *)
(*   override  cancelled: call origin, and return a refusal                *)
(*   fits      the hook's own reckoning with lengths comes out; if not,    *)
(*             origin with the arguments as they came, and done            *)
(*   origin    the engine function (or the hook's copy of it)              *)
(*   happened  return unless the engine has done it                        *)
(*   undo      cancelled: take back what was done, or the answer to it     *)
(*   remains   return if a listener has taken it back itself               *)
(*   after     publish the After event                                     *)
(*   afterFront, afterBack  publish one for this side, if it was edited    *)
(*   leave     return, whatever comes next                                 *)
(***************************************************************************)
EXTENDS Integers, Sequences

CONSTANTS
    Silent,     (* hooks exempt from EffectAnnounced (see the README)      *)
    Closed      (* hooks exempt from OnlyVetoStops                         *)

-----------------------------------------------------------------------------
(* The hooks.                                                              *)

\* The plain hook: ask, stop if cancelled, let the engine act, tell.
ActorGetEffect == <<"before", "veto", "origin", "after">>
ActorTick == <<"before", "veto", "origin", "after">>
PlayerAttackBlock == <<"before", "veto", "origin", "after">>
LevelTick == <<"before", "veto", "origin", "after">>
WeatherUpdate == <<"before", "veto", "origin", "after">>
BlockTick == <<"before", "veto", "origin", "after">>
FarmDecay == <<"before", "veto", "origin", "after">>
BlockActorTick == <<"before", "veto", "origin", "after">>
WitherDestroy == <<"before", "veto", "origin", "after">>
RequestItemTransfer == <<"before", "veto", "origin", "after">>
RequestItemRemoval == <<"before", "veto", "origin", "after">>
RequestItemCraft == <<"before", "veto", "origin", "after">>
\* Mutant: the condition of the veto is always true.
PlayerStartSleepClosed == <<"before", "leave", "origin", "after">>
PlayerStartSleep == <<"before", "veto", "origin", "after">>

\* The same, for the calls the event is about; the others go to the engine.
SculkBlockGrowth == <<"applies", "before", "veto", "origin", "after">>
SculkCatalystAbsorbExperience == <<"applies", "before", "veto", "origin", "after">>
ItemFrameUse == <<"applies", "before", "veto", "origin", "after">>
ItemFrameBreak == <<"applies", "before", "veto", "origin", "after">>
PlayerAte == <<"applies", "before", "veto", "origin", "after">>
ObserverPulse == <<"applies", "before", "veto", "origin", "after">>

\* The engine may refuse: After is for what has happened.
ActorTriggerPressurePlate == <<"before", "veto", "origin", "happened", "after">>
MobHealthChange == <<"before", "veto", "origin", "happened", "after">>
PlayerDrop == <<"before", "veto", "origin", "happened", "after">>
PlayerInteractEntity == <<"before", "veto", "origin", "happened", "after">>
SpawnItemActor == <<"before", "veto", "origin", "happened", "after">>
FireTryBurnBlock == <<"before", "veto", "origin", "happened", "after">>
PistonPush == <<"before", "veto", "origin", "happened", "after">>
MossGrowth == <<"before", "veto", "origin", "happened", "after">>
ChestPairWith == <<"before", "veto", "origin", "happened", "after">>
\* Mutant: the engine is asked first and the listeners after it.
ActorRideLate == <<"applies", "origin", "before", "veto", "happened", "after">>
ActorRide == <<"applies", "before", "veto", "origin", "happened", "after">>
DragonRespawn == <<"applies", "before", "veto", "origin", "happened", "after">>
PlayerChangeGameType == <<"applies", "before", "veto", "origin", "happened", "after">>
InventoryDrop ==
    <<"applies", "found", "applies", "before", "veto", "origin", "happened", "after">>
PlayerOpenContainer == <<"applies", "before", "veto", "origin", "happened", "after">>
ItemFrameTake == <<"applies", "before", "veto", "origin", "happened", "after">>
LiquidFlow == <<"applies", "possible", "before", "veto", "origin", "happened", "after">>

\* No engine call: the hook does the engine's work itself.
BlockFall == <<"before", "veto", "origin", "happened", "after">>
DragonEggBlockTeleport == <<"possible", "before", "veto", "origin", "after">>

\* No Before, no After, or a Before that cannot be cancelled.
PlayerChangeSlot == <<"before", "veto", "origin">>
IsVillageChunk == <<"before", "veto", "origin">>
PlayerChangeDimension == <<"notice", "origin", "after">>
PlayerStopSleep == <<"notice", "origin", "after">>
RegisterCmd == <<"notice", "origin", "after">>
VillageFeatureConstruction == <<"origin", "after">>
ActorDimensionChanged == <<"origin", "happened", "after">>

\* The engine first: a cancelled event takes back what it did or answered.
ProjectileCreate == <<"origin", "happened", "before", "undo", "remains", "after">>
SculkSpread == <<"origin", "happened", "before", "undo", "after">>
\* Mutant: After is published ahead of the test of the flag.
DeathMessageEarly == <<"origin", "happened", "before", "after", "undo">>
DeathMessage == <<"origin", "happened", "before", "undo", "after">>
CanChangeDimension == <<"origin", "happened", "before", "undo">>
ArmorStandSwapItem == <<"applies", "before", "origin", "undo", "happened", "after">>

\* Hooks with a shape of their own.
PlayerEditSign ==
    <<"applies", "front", "veto", "back", "veto", "origin", "afterFront", "afterBack">>
ActorDestroyBlock == <<"applies", "before", "override", "origin">>
\* Mutant: a publication too many.
ActorPickupItemThrice ==
    <<"applies", "before", "override", "before", "after", "before", "origin">>
ActorPickupItem == <<"applies", "before", "override", "after", "before", "origin">>
MobHurtEffect == <<"applies", "before", "veto", "after", "origin">>
FireworkRocketDealDamage == <<"applies", "before", "veto", "origin", "leave", "after">>
ClientLogin == <<"before", "leave", "origin", "happened", "after">>

\* A pong, on each of the three transports.  RakNet's has its length put
\* together from signed bytes, NetherNet's may not be longer than a limit.
RakNetPong == <<"applies", "fits", "applies", "before", "veto", "origin", "after">>
NetherNetPong == <<"applies", "before", "veto", "fits", "origin", "after">>
HttpJoinInfo == <<"applies", "origin", "happened", "before", "undo", "after">>

\* By name.
Flow == [
    ActorGetEffect |-> ActorGetEffect,
    ActorTick |-> ActorTick,
    PlayerAttackBlock |-> PlayerAttackBlock,
    LevelTick |-> LevelTick,
    WeatherUpdate |-> WeatherUpdate,
    BlockTick |-> BlockTick,
    FarmDecay |-> FarmDecay,
    BlockActorTick |-> BlockActorTick,
    WitherDestroy |-> WitherDestroy,
    RequestItemTransfer |-> RequestItemTransfer,
    RequestItemRemoval |-> RequestItemRemoval,
    RequestItemCraft |-> RequestItemCraft,
    PlayerStartSleep |-> PlayerStartSleep,
    SculkBlockGrowth |-> SculkBlockGrowth,
    SculkCatalystAbsorbExperience |-> SculkCatalystAbsorbExperience,
    ItemFrameUse |-> ItemFrameUse,
    ItemFrameBreak |-> ItemFrameBreak,
    PlayerAte |-> PlayerAte,
    ObserverPulse |-> ObserverPulse,
    ActorTriggerPressurePlate |-> ActorTriggerPressurePlate,
    MobHealthChange |-> MobHealthChange,
    PlayerDrop |-> PlayerDrop,
    PlayerInteractEntity |-> PlayerInteractEntity,
    SpawnItemActor |-> SpawnItemActor,
    FireTryBurnBlock |-> FireTryBurnBlock,
    PistonPush |-> PistonPush,
    MossGrowth |-> MossGrowth,
    ChestPairWith |-> ChestPairWith,
    ActorRide |-> ActorRide,
    DragonRespawn |-> DragonRespawn,
    PlayerChangeGameType |-> PlayerChangeGameType,
    InventoryDrop |-> InventoryDrop,
    PlayerOpenContainer |-> PlayerOpenContainer,
    ItemFrameTake |-> ItemFrameTake,
    LiquidFlow |-> LiquidFlow,
    BlockFall |-> BlockFall,
    DragonEggBlockTeleport |-> DragonEggBlockTeleport,
    PlayerChangeSlot |-> PlayerChangeSlot,
    IsVillageChunk |-> IsVillageChunk,
    PlayerChangeDimension |-> PlayerChangeDimension,
    PlayerStopSleep |-> PlayerStopSleep,
    RegisterCmd |-> RegisterCmd,
    VillageFeatureConstruction |-> VillageFeatureConstruction,
    ActorDimensionChanged |-> ActorDimensionChanged,
    ProjectileCreate |-> ProjectileCreate,
    SculkSpread |-> SculkSpread,
    DeathMessage |-> DeathMessage,
    CanChangeDimension |-> CanChangeDimension,
    ArmorStandSwapItem |-> ArmorStandSwapItem,
    PlayerEditSign |-> PlayerEditSign,
    ActorDestroyBlock |-> ActorDestroyBlock,
    ActorPickupItem |-> ActorPickupItem,
    MobHurtEffect |-> MobHurtEffect,
    FireworkRocketDealDamage |-> FireworkRocketDealDamage,
    ClientLogin |-> ClientLogin,
    RakNetPong |-> RakNetPong,
    NetherNetPong |-> NetherNetPong,
    HttpJoinInfo |-> HttpJoinInfo ]

-----------------------------------------------------------------------------

Hooks == DOMAIN Flow
Has(h, step) == \E i \in 1..Len(Flow[h]) : Flow[h][i] = step

\* Function-try-blocks: whatever is thrown, the handler calls origin.
Rescued == {"ActorDestroyBlock", "ActorPickupItem", "RakNetPong"}

ASSUME HookFlowAssumption ==
    Silent \subseteq Hooks /\ Closed \subseteq Hooks

VARIABLES
    hook,       (* the hook that has been called                           *)
    pc,         (* its next step; Returned when it is done                 *)
    cancelled,  (* the flag of its Before event                            *)
    effect,     (* what became of the engine's work                        *)
    told,       (* Before events published by this call                    *)
    reported,   (* After events published by this call                     *)
    outside,    (* the call was not one the event is about                 *)
    threw,      (* the engine threw and the call was made again            *)
    edited,     (* frontEdit, backEdit: sides announced before             *)
    followed    (* and those announced after                               *)

signVars == <<edited, followed>>
hookVars == <<hook, pc, cancelled, effect, told, reported, outside, threw, signVars>>

Sides == {"front", "back"}
AfterOf == [front |-> "afterFront", back |-> "afterBack"]

Returned == 0
Outcomes == {"done", "refused"}
Effects == Outcomes \union {"none", "overridden", "undone"}

HookInit ==
    /\ hook \in Hooks
    /\ pc = 1
    /\ cancelled = FALSE
    /\ effect = "none"
    /\ told = 0
    /\ reported = 0
    /\ outside = FALSE
    /\ threw = FALSE
    /\ edited = {} /\ followed = {}

-----------------------------------------------------------------------------
(* Steps.                                                                  *)

At(step) == pc # Returned /\ Flow[hook][pc] = step

Continue == pc' = (pc + 1) % (Len(Flow[hook]) + 1)
Return == pc' = Returned

\* The engine makes its next call of some hook.
Call ==
    /\ pc = Returned
    /\ hook' \in Hooks
    /\ pc' = 1
    /\ cancelled' = FALSE
    /\ effect' = "none"
    /\ told' = 0
    /\ reported' = 0
    /\ outside' = FALSE
    /\ threw' = FALSE
    /\ edited' = {} /\ followed' = {}

Applies ==
    /\ At("applies")
    /\ \/ Continue /\ UNCHANGED <<effect, outside>>
       \/ Return /\ effect' \in Outcomes /\ outside' = TRUE
    /\ UNCHANGED <<hook, cancelled, told, reported, threw, signVars>>

\* The exception leaves the hook: nothing has called the engine.
Found ==
    /\ At("found")
    /\ Continue \/ Return
    /\ UNCHANGED <<hook, cancelled, effect, told, reported, outside, threw, signVars>>

Possible ==
    /\ At("possible")
    /\ \/ Continue /\ UNCHANGED outside
       \/ Return /\ outside' = TRUE
    /\ UNCHANGED <<hook, cancelled, effect, told, reported, threw, signVars>>

\* Listeners set and clear the flag of the event; the last of them decides.
Before ==
    /\ At("before")
    /\ cancelled' \in BOOLEAN
    /\ told' = told + 1
    /\ Continue
    /\ UNCHANGED <<hook, effect, reported, outside, threw, signVars>>

Notice ==
    /\ At("notice")
    /\ told' = told + 1
    /\ Continue
    /\ UNCHANGED <<hook, cancelled, effect, reported, outside, threw, signVars>>

Side(side) ==
    /\ At(side)
    /\ \/ cancelled' \in BOOLEAN /\ told' = told + 1 /\ edited' = edited \union {side}
       \/ UNCHANGED <<cancelled, told, edited>>
    /\ Continue
    /\ UNCHANGED <<hook, effect, reported, outside, threw, followed>>

Veto ==
    /\ At("veto")
    /\ IF cancelled THEN Return ELSE Continue
    /\ UNCHANGED <<hook, cancelled, effect, told, reported, outside, threw, signVars>>

Override ==
    /\ At("override")
    /\ IF cancelled THEN Return /\ effect' = "overridden"
                    ELSE Continue /\ UNCHANGED effect
    /\ UNCHANGED <<hook, cancelled, told, reported, outside, threw, signVars>>

Fits ==
    /\ At("fits")
    /\ \/ Continue /\ UNCHANGED effect
       \/ Return /\ effect' \in Outcomes
    /\ UNCHANGED <<hook, cancelled, told, reported, outside, threw, signVars>>

Origin ==
    /\ At("origin")
    /\ effect' \in Outcomes
    /\ Continue
    /\ UNCHANGED <<hook, cancelled, told, reported, outside, threw, signVars>>

\* The engine throws out of the hook's call, or something does before anything
\* is published.
Rescue ==
    /\ hook \in Rescued
    /\ At("applies") \/ At("origin") \/ (At("override") /\ cancelled)
    /\ effect' \in Outcomes
    /\ threw' = TRUE
    /\ Return
    /\ UNCHANGED <<hook, cancelled, told, reported, outside, signVars>>

Happened ==
    /\ At("happened")
    /\ IF effect = "done" THEN Continue ELSE Return
    /\ UNCHANGED <<hook, cancelled, effect, told, reported, outside, threw, signVars>>

Undo ==
    /\ At("undo")
    /\ IF cancelled THEN Return /\ effect' = "undone"
                    ELSE Continue /\ UNCHANGED effect
    /\ UNCHANGED <<hook, cancelled, told, reported, outside, threw, signVars>>

Remains ==
    /\ At("remains")
    /\ \/ Continue /\ UNCHANGED effect
       \/ Return /\ effect' = "undone"
    /\ UNCHANGED <<hook, cancelled, told, reported, outside, threw, signVars>>

After ==
    /\ At("after")
    /\ reported' = reported + 1
    /\ Continue
    /\ UNCHANGED <<hook, cancelled, effect, told, outside, threw, signVars>>

\* Mutant: both sides are announced if the front was edited.
AfterSideFront(side) ==
    /\ At(AfterOf[side])
    /\ IF "front" \in edited
         THEN reported' = reported + 1 /\ followed' = followed \union {side}
         ELSE UNCHANGED <<reported, followed>>
    /\ Continue
    /\ UNCHANGED <<hook, cancelled, effect, told, outside, threw, edited>>

AfterSide(side) ==
    /\ At(AfterOf[side])
    /\ IF side \in edited
         THEN reported' = reported + 1 /\ followed' = followed \union {side}
         ELSE UNCHANGED <<reported, followed>>
    /\ Continue
    /\ UNCHANGED <<hook, cancelled, effect, told, outside, threw, edited>>

Leave ==
    /\ At("leave")
    /\ Return
    /\ UNCHANGED <<hook, cancelled, effect, told, reported, outside, threw, signVars>>

HookNext ==
    \/ Call \/ Applies \/ Found \/ Possible
    \/ Before \/ Notice
    \/ \E side \in Sides : Side(side) \/ AfterSide(side)
    \/ Veto \/ Override \/ Undo \/ Remains
    \/ Fits \/ Origin \/ Rescue \/ Happened
    \/ After \/ Leave

HookSpec == HookInit /\ [][HookNext]_hookVars

-----------------------------------------------------------------------------

HookTypeOK ==
    /\ hook \in Hooks
    /\ pc \in 0..Len(Flow[hook])
    /\ cancelled \in BOOLEAN
    /\ effect \in Effects
    /\ told \in 0..2
    /\ reported \in 0..2
    /\ outside \in BOOLEAN
    /\ threw \in BOOLEAN
    /\ edited \subseteq Sides /\ followed \subseteq Sides

\* ActorPickupItem publishes its Before event again, and reads no answer.
Unread == {"ActorPickupItem"}

\* ActorPickupItem and MobHurtEffect publish After ahead of the engine call.
Early == {"ActorPickupItem", "MobHurtEffect"}

\* A call that a listener has cancelled leaves nothing done when it returns,
\* also where the engine acts first and the hook has to take it back.  (An
\* exception of the engine loses the veto: the catch block calls origin.)
VetoDenies ==
    pc = Returned /\ cancelled /\ ~threw /\ hook \notin Unread
        => effect \notin Outcomes

\* After is published for what the engine was let do: after the engine call,
\* of a call no listener has cancelled and, where the engine can refuse and
\* the hook tests it, only if it has happened.
AfterFollowsEffect ==
    [][ reported' > reported /\ hook \notin Early
            => /\ ~cancelled
               /\ effect \in Outcomes
               /\ Has(hook, "happened") => effect = "done" ]_hookVars

\* What the engine has done in the end, listeners have heard of before, as far
\* as the event has a Before, and after, as far as it has an After; of a sign,
\* they have heard after of the very sides they had heard of before.
EffectAnnounced ==
    pc = Returned /\ effect = "done" /\ ~outside /\ ~threw /\ hook \notin Silent
        => /\ Has(hook, "before") \/ Has(hook, "notice") => told > 0
           /\ Has(hook, "after") => reported > 0
           /\ followed = edited

\* Only a listener keeps the engine from a call the event is about.
OnlyVetoStops ==
    pc = Returned /\ effect = "none" /\ ~outside /\ hook \notin Closed => cancelled

=============================================================================
