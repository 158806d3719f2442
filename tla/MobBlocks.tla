----------------------------- MODULE MobBlocks -----------------------------
(***************************************************************************)
(* Mobs that place blocks and take blocks of the world: both hooks replace *)
(* the tick of an engine goal by a copy with events in it.  A target is    *)
(* drawn near the mob and tested; then the listeners are asked, and the    *)
(* engine's griefing handlers too, and only then is the world changed, at  *)
(* a target a listener may have moved, from a test and a block that may be *)
(* out of date.                                                            *)
(*                                                                         *)
(* The world is one column of positions: x and z are drawn as y is.        *)
(***************************************************************************)
EXTENDS Integers, FiniteSets

CONSTANTS
    Height,         (* bound: the column is 0..Height                      *)
    Kinds,          (* blocks other than air                               *)
    Solid,          (* those with mIsSolid                                 *)
    Air,
    Randomly,       (* mRandomlyPlaceableBlocks of the goals that have any *)
    RangeMin,       (* mYRange of the goals                                *)
    RangeMax

ASSUME MobBlocksAssumption ==
    /\ Height \in Nat
    /\ Air \notin Kinds
    /\ Solid \subseteq Kinds
    /\ Randomly \subseteq Kinds
    /\ RangeMin \in Int /\ RangeMax \in Int

VARIABLES
    world,          (* position -> block                                   *)
    carried,        (* the block in the hand of the mob, or Air            *)
    position,       (* where the mob stands                                *)
    pc,             (* the callback the hook waits for                     *)
    targetPos,      (* what the event refers to                            *)
    block,          (* what is to be placed, or was found to be taken      *)
    drawn,          (* the block to be placed is not the one in the hand   *)
    disturbed       (* the callbacks have changed what the hook tested     *)

tickVars == <<pc, targetPos, block, drawn, disturbed>>
vars == <<world, carried, position, tickVars>>

Column == 0..Height
Contents == Kinds \union {Air}

Init ==
    /\ world \in [Column -> Contents]
    /\ carried = Air
    /\ position \in Column
    /\ pc = "idle"
    /\ targetPos = 0
    /\ block = Air
    /\ drawn = FALSE
    /\ disturbed = FALSE

-----------------------------------------------------------------------------
(* Other actors, between the ticks and inside the callbacks of one.        *)

\* What the hook has tested and will not test again.
Tested == IF pc = "placing" THEN {targetPos, targetPos - 1} ELSE {targetPos}

Change(p, b) ==
    /\ b # world[p]
    /\ world' = [world EXCEPT ![p] = b]
    /\ disturbed' = (disturbed \/ (pc # "idle" /\ p \in Tested))
    /\ UNCHANGED <<carried, position, pc, targetPos, block, drawn>>

Equip(b) ==
    /\ b # carried
    /\ carried' = b
    /\ disturbed' = (disturbed \/ pc # "idle")
    /\ UNCHANGED <<world, position, pc, targetPos, block, drawn>>

Walk(p) ==
    /\ p # position
    /\ position' = p
    /\ UNCHANGED <<world, carried, tickVars>>

\* A listener of a Before event moves its position; the hook's own moves.
Move(target) ==
    /\ pc \in {"placing", "taking"}
    /\ target # targetPos
    /\ targetPos' = target
    /\ disturbed' = TRUE
    /\ UNCHANGED <<world, carried, position, pc, block, drawn>>

-----------------------------------------------------------------------------
(* The two hooks.                                                          *)

\* value += min < max && nextInt(...) adds the truth value of what follows.
RandomPos(value) ==
    {value + offset : offset \in (IF RangeMin < RangeMax THEN {0, 1} ELSE {0})}

Ask(callback, target, b, random) ==
    /\ pc' = callback
    /\ targetPos' = target
    /\ block' = b
    /\ drawn' = random
    /\ disturbed' = FALSE
    /\ UNCHANGED <<world, carried, position>>

Return ==
    /\ pc' = "idle"
    /\ targetPos' = 0
    /\ block' = Air
    /\ drawn' = FALSE
    /\ disturbed' = FALSE

\* Mutant: the block below is not looked at.
PlaceTickAnywhere(target, b, random) ==
    /\ pc = "idle"
    /\ target \in RandomPos(position) \intersect Column
    /\ world[target] = Air
    /\ IF random THEN b \in Randomly ELSE b = carried /\ b # Air
    /\ Ask("placing", target, b, random)

\* PlaceBlockGoal: air over something solid, and a block to place there.
PlaceTick(target, b, random) ==
    /\ pc = "idle"
    /\ target \in RandomPos(position) \intersect Column
    /\ world[target] = Air
    /\ target - 1 \in Column /\ world[target - 1] \in Solid
    /\ IF random THEN b \in Randomly ELSE b = carried /\ b # Air
    /\ Ask("placing", target, b, random)

\* Mutant: the hand is not emptied.
PlaceKept == world' = [world EXCEPT ![targetPos] = block] /\ UNCHANGED carried

Place ==
    /\ world' = [world EXCEPT ![targetPos] = block]
    /\ carried' = IF drawn THEN carried ELSE Air

PlaceAnswer(cancelled) ==
    /\ pc = "placing"
    /\ IF cancelled THEN UNCHANGED <<world, carried>> ELSE Place
    /\ Return
    /\ UNCHANGED position

\* TakeBlockGoal: the engine starts it with empty hands; air is not taken.
TakeTick(target) ==
    /\ pc = "idle"
    /\ carried = Air
    /\ target \in RandomPos(position) \intersect Column
    /\ world[target] # Air
    /\ Ask("taking", target, world[target], FALSE)

\* Mutant: a veto ends the tick without a return.
TakeAnswerStuck(cancelled) ==
    /\ pc = "taking"
    /\ pc' = IF cancelled THEN "idle" ELSE "griefing"
    /\ UNCHANGED <<world, carried, position, targetPos, block, drawn, disturbed>>

TakeAnswer(cancelled) ==
    /\ pc = "taking"
    /\ IF cancelled THEN Return
                    ELSE pc' = "griefing" /\ UNCHANGED <<targetPos, block, drawn, disturbed>>
    /\ UNCHANGED <<world, carried, position>>

\* Mutant: what is picked up is looked up where the mob stands by now.
TakeNearby ==
    /\ carried' = world[position]
    /\ world' = [world EXCEPT ![targetPos] = Air]

Take ==
    /\ carried' = block
    /\ world' = [world EXCEPT ![targetPos] = Air]

\* The griefing handlers have answered: Continue, or anything else.
GriefAnswer(continue) ==
    /\ pc = "griefing"
    /\ IF continue THEN Take ELSE UNCHANGED <<world, carried>>
    /\ Return
    /\ UNCHANGED position

-----------------------------------------------------------------------------

Next ==
    \/ \E p \in Column, b \in Contents : Change(p, b)
    \/ \E b \in Contents : Equip(b)
    \/ \E p \in Column : Walk(p)
    \/ \E target \in Column : Move(target)
    \/ \E target \in Column, b \in Kinds, random \in BOOLEAN : PlaceTick(target, b, random)
    \/ \E target \in Column : TakeTick(target)
    \/ \E cancelled \in BOOLEAN : PlaceAnswer(cancelled) \/ TakeAnswer(cancelled)
    \/ \E continue \in BOOLEAN : GriefAnswer(continue)

Spec == Init /\ [][Next]_vars

-----------------------------------------------------------------------------
(* Properties.                                                             *)

\* The variables have their types, and a hook that is not in a callback
\* has nothing left of its last tick.
TypeOK ==
    /\ world \in [Column -> Contents]
    /\ carried \in Contents
    /\ position \in Column
    /\ pc \in {"idle", "placing", "taking", "griefing"}
    /\ targetPos \in Column
    /\ block \in Contents
    /\ drawn \in BOOLEAN /\ disturbed \in BOOLEAN
    /\ pc = "idle" => block = Air /\ ~disturbed
    /\ pc # "idle" => block \in Kinds

Blocks(there, hand) ==
    Cardinality({p \in Column : there[p] # Air}) + (IF hand = Air THEN 0 ELSE 1)

\* The hook goes on after its last callback, and what it had tested before
\* the callbacks is still so.
Concludes == pc \in {"placing", "griefing"} /\ pc' = "idle" /\ ~disturbed

\* A tick moves a block between the hand and the world and neither makes
\* nor loses one; only a block drawn at random is new.  This is about the
\* setCarriedItem, setBlock and removeBlock the copies of the two goals
\* make: MobPlaceBlockEvent.cpp:124-134, MobTakeBlockEvent.cpp:89-94.
BlocksConserved ==
    [][Concludes /\ ~(drawn /\ world' # world) =>
           Blocks(world', carried') = Blocks(world, carried)]_vars

\* What a mob places stands on something solid and replaces only air,
\* although the test is as old as the publication of the Before event.
PlacesOnGround ==
    [][Concludes /\ pc = "placing" /\ world' # world =>
           /\ world[targetPos] = Air
           /\ world[targetPos - 1] \in Solid]_vars

\* What comes into the hand is what goes out of the world, although mob
\* and world may have moved on in two rounds of callbacks.
TakesWhatWasThere ==
    [][Concludes /\ pc = "griefing" /\ carried' # carried =>
           /\ carried' = world[targetPos]
           /\ world'[targetPos] = Air]_vars

\* A mob places its block within the range of its goal, as in the engine's
\* own tick (src-fakes/PlaceBlockGoal__tick.cpp:37-41).  False of the hook,
\* which adds 0 or 1 whatever the range is.
OffsetInRange ==
    [][pc = "idle" /\ pc' = "placing" =>
           targetPos' - position \in RangeMin..RangeMax]_vars
=============================================================================
