-------------------------- MODULE MobBlocksProofs --------------------------
(***************************************************************************)
(* Proofs about MobBlocks.tla for any column, kinds of blocks and ranges:  *)
(* a tick that nobody disturbs neither makes nor loses a block, places     *)
(* only over air on something solid, and carries away what it removes.     *)
(*                                                                         *)
(* None of the three follows from the types: each needs that what the hook *)
(* tested before it asked is still so when it is answered (StillTested).   *)
(***************************************************************************)
EXTENDS MobBlocks, FiniteSetTheorems, TLAPS

\* The test of the tick under way, as long as no callback has spoilt it.
PlaceTestHolds ==
    /\ world[targetPos] = Air
    /\ targetPos - 1 \in Column /\ world[targetPos - 1] \in Solid
    /\ drawn \/ carried = block

TakeTestHolds ==
    /\ world[targetPos] = block
    /\ carried = Air

StillTested ==
    ~disturbed =>
        /\ pc = "placing" => PlaceTestHolds
        /\ pc \in {"taking", "griefing"} => TakeTestHolds

IInv == TypeOK /\ StillTested

-----------------------------------------------------------------------------
(* Counting the blocks of the column.                                      *)

Filled(there) == {p \in Column : there[p] # Air}

LEMMA FilledFinite ==
    ASSUME NEW there
    PROVE  IsFiniteSet(Filled(there)) /\ Cardinality(Filled(there)) \in Nat
  <1>1. IsFiniteSet(Column)
    BY MobBlocksAssumption, FS_Interval DEF Column
  <1>2. IsFiniteSet(Filled(there))
    BY <1>1, FS_Subset DEF Filled
  <1> QED  BY <1>2, FS_CardinalityType

\* A block put where there was none is one block more ...
LEMMA FillOne ==
    ASSUME NEW there \in [Column -> Contents], NEW p \in Column, NEW b \in Kinds,
           there[p] = Air
    PROVE  Cardinality(Filled([there EXCEPT ![p] = b])) = Cardinality(Filled(there)) + 1
  <1>1. Filled([there EXCEPT ![p] = b]) = Filled(there) \union {p}
    BY MobBlocksAssumption DEF Filled, Contents
  <1>2. p \notin Filled(there)
    BY DEF Filled
  <1> QED  BY <1>1, <1>2, FilledFinite, FS_AddElement

\* ... and one taken from where it was is one block less.
LEMMA EmptyOne ==
    ASSUME NEW there \in [Column -> Contents], NEW p \in Column, there[p] # Air
    PROVE  Cardinality(Filled([there EXCEPT ![p] = Air])) = Cardinality(Filled(there)) - 1
  <1>1. Filled([there EXCEPT ![p] = Air]) = Filled(there) \ {p}
    BY DEF Filled, Contents
  <1>2. p \in Filled(there)
    BY DEF Filled
  <1> QED  BY <1>1, <1>2, FilledFinite, FS_RemoveElement

LEMMA BlocksAreFilled ==
    ASSUME NEW there, NEW hand
    PROVE  Blocks(there, hand) = Cardinality(Filled(there)) + (IF hand = Air THEN 0 ELSE 1)
  BY DEF Blocks, Filled

-----------------------------------------------------------------------------
(* The inductive invariant.                                                *)

LEMMA InitIInv == Init => IInv
  <1> SUFFICES ASSUME Init  PROVE IInv
    OBVIOUS
  <1>1. targetPos \in Column
    BY MobBlocksAssumption DEF Init, Column
  <1> QED  BY <1>1 DEF Init, IInv, TypeOK, StillTested, Contents

\* Another actor changes the world: if it is not what was tested, nothing
\* of the test is touched.
LEMMA ChangeKeeps ==
    ASSUME IInv, NEW p \in Column, NEW b \in Contents, Change(p, b)
    PROVE  IInv'
  <1>1. TypeOK'
    BY DEF IInv, TypeOK, Change
  <1>2. ASSUME ~disturbed'  PROVE StillTested'
    <2>1. ~disturbed /\ (pc = "idle" \/ p \notin Tested)
      BY <1>2 DEF Change, IInv, TypeOK
    <2>2. CASE pc = "placing"
      <3>1. p # targetPos /\ p # targetPos - 1
        BY <2>1, <2>2 DEF Tested
      <3>2. PlaceTestHolds'
        BY <2>1, <2>2, <3>1 DEF IInv, TypeOK, StillTested, PlaceTestHolds, Change
      <3> QED  BY <2>2, <3>2 DEF StillTested, Change
    <2>3. CASE pc \in {"taking", "griefing"}
      <3>1. p # targetPos
        BY <2>1, <2>3 DEF Tested
      <3>2. TakeTestHolds'
        BY <2>1, <2>3, <3>1 DEF IInv, TypeOK, StillTested, TakeTestHolds, Change
      <3> QED  BY <2>3, <3>2 DEF StillTested, Change
    <2>4. CASE pc = "idle"
      BY <2>4 DEF StillTested, Change
    <2> QED  BY <2>2, <2>3, <2>4 DEF IInv, TypeOK
  <1> QED  BY <1>1, <1>2 DEF IInv, StillTested

LEMMA EquipKeeps ==
    ASSUME IInv, NEW b \in Contents, Equip(b)
    PROVE  IInv'
  BY DEF IInv, TypeOK, StillTested, Equip

LEMMA WalkKeeps ==
    ASSUME IInv, NEW p \in Column, Walk(p)
    PROVE  IInv'
  BY DEF IInv, TypeOK, StillTested, PlaceTestHolds, TakeTestHolds, Walk, tickVars

LEMMA MoveKeeps ==
    ASSUME IInv, NEW target \in Column, Move(target)
    PROVE  IInv'
  BY DEF IInv, TypeOK, StillTested, Move

\* A tick asks about a target it has just tested.
LEMMA PlaceTickKeeps ==
    ASSUME IInv, NEW target \in Column, NEW b \in Kinds, NEW random \in BOOLEAN,
           PlaceTick(target, b, random)
    PROVE  IInv'
  <1>1. TypeOK'
    BY DEF IInv, TypeOK, PlaceTick, Ask, Contents
  <1>2. PlaceTestHolds'
    BY DEF PlaceTestHolds, PlaceTick, Ask
  <1> QED  BY <1>1, <1>2 DEF IInv, StillTested, PlaceTick, Ask

LEMMA TakeTickKeeps ==
    ASSUME IInv, NEW target \in Column, TakeTick(target)
    PROVE  IInv'
  <1>1. TypeOK'
    BY DEF IInv, TypeOK, TakeTick, Ask, Contents
  <1>2. TakeTestHolds'
    BY DEF TakeTestHolds, TakeTick, Ask
  <1> QED  BY <1>1, <1>2 DEF IInv, StillTested, TakeTick, Ask

\* An answered tick leaves nothing of itself.
LEMMA ReturnClean ==
    ASSUME IInv, Return
    PROVE  /\ pc' = "idle" /\ block' = Air /\ ~disturbed' /\ StillTested'
           /\ targetPos' \in Column /\ block' \in Contents
           /\ drawn' \in BOOLEAN /\ disturbed' \in BOOLEAN
  <1>1. targetPos' \in Column
    BY MobBlocksAssumption DEF Return, Column
  <1> QED  BY <1>1 DEF Return, StillTested, Contents

LEMMA PlaceAnswerKeeps ==
    ASSUME IInv, NEW cancelled \in BOOLEAN, PlaceAnswer(cancelled)
    PROVE  IInv'
  <1>1. world' \in [Column -> Contents] /\ carried' \in Contents /\ position' \in Column
    BY DEF IInv, TypeOK, PlaceAnswer, Place, Contents
  <1> QED  BY <1>1, ReturnClean DEF IInv, TypeOK, PlaceAnswer

LEMMA TakeAnswerKeeps ==
    ASSUME IInv, NEW cancelled \in BOOLEAN, TakeAnswer(cancelled)
    PROVE  IInv'
  <1>1. CASE cancelled
    BY <1>1, ReturnClean DEF IInv, TypeOK, TakeAnswer
  <1>2. CASE ~cancelled
    BY <1>2 DEF IInv, TypeOK, StillTested, TakeTestHolds, TakeAnswer
  <1> QED  BY <1>1, <1>2

LEMMA GriefAnswerKeeps ==
    ASSUME IInv, NEW continue \in BOOLEAN, GriefAnswer(continue)
    PROVE  IInv'
  <1>1. world' \in [Column -> Contents] /\ carried' \in Contents /\ position' \in Column
    BY DEF IInv, TypeOK, GriefAnswer, Take, Contents
  <1> QED  BY <1>1, ReturnClean DEF IInv, TypeOK, GriefAnswer

LEMMA NextKeeps == IInv /\ [Next]_vars => IInv'
  <1> SUFFICES ASSUME IInv, [Next]_vars  PROVE IInv'
    OBVIOUS
  <1>1. CASE Next
    BY <1>1, ChangeKeeps, EquipKeeps, WalkKeeps, MoveKeeps, PlaceTickKeeps, TakeTickKeeps,
       PlaceAnswerKeeps, TakeAnswerKeeps, GriefAnswerKeeps
       DEF Next
  <1>2. CASE UNCHANGED vars
    BY <1>2 DEF vars, tickVars, IInv, TypeOK, StillTested, PlaceTestHolds, TakeTestHolds
  <1> QED  BY <1>1, <1>2

LEMMA Inductive == Spec => []IInv
  BY InitIInv, NextKeeps, PTL DEF Spec

\* Every variable keeps its type, and a hook that is not in a callback has
\* nothing left of its last tick, whatever the column and its blocks.
THEOREM TypeCorrect == Spec => []TypeOK
  <1>1. IInv => TypeOK
    BY DEF IInv
  <1> QED  BY <1>1, Inductive, PTL

-----------------------------------------------------------------------------
(* What a step that concludes a tick does.                                 *)

\* The next state is not "idle" but by one of the two last answers.
LEMMA ConcludingStep ==
    ASSUME IInv, Next, Concludes
    PROVE  (\E cancelled \in BOOLEAN : PlaceAnswer(cancelled))
           \/ (\E continue \in BOOLEAN : GriefAnswer(continue))
  BY DEF Concludes, Next, Change, Equip, Walk, tickVars, Move, PlaceTick, TakeTick, TakeAnswer

\* An undisturbed mob places over air on something solid
\* (MobPlaceBlockEvent.cpp:99-134).
LEMMA PlacesTested ==
    ASSUME IInv, Concludes, NEW cancelled \in BOOLEAN, PlaceAnswer(cancelled)
    PROVE  /\ PlaceTestHolds
           /\ cancelled => UNCHANGED <<world, carried>>
           /\ ~cancelled => Place
  BY DEF IInv, Concludes, PlaceAnswer, StillTested

\* An undisturbed mob takes what it has found (MobTakeBlockEvent.cpp:60-94).
LEMMA TakesTested ==
    ASSUME IInv, Concludes, NEW continue \in BOOLEAN, GriefAnswer(continue)
    PROVE  /\ TakeTestHolds
           /\ continue => Take
           /\ ~continue => UNCHANGED <<world, carried>>
  BY DEF IInv, Concludes, GriefAnswer, StillTested

\* One placed block leaves the hand, unless it was drawn at random.
LEMMA PlaceConserves ==
    ASSUME IInv, PlaceTestHolds, pc = "placing", Place, ~(drawn /\ world' # world)
    PROVE  Blocks(world', carried') = Blocks(world, carried)
  <1>1. world' = [world EXCEPT ![targetPos] = block] /\ block \in Kinds /\ block # Air
    BY MobBlocksAssumption DEF IInv, TypeOK, Place
  <1>2. world' # world
    BY <1>1 DEF IInv, TypeOK, PlaceTestHolds
  <1>3. carried' = Air /\ carried # Air
    BY <1>1, <1>2 DEF PlaceTestHolds, Place, IInv, TypeOK
  <1>4. Cardinality(Filled(world')) = Cardinality(Filled(world)) + 1
    <2>1. world \in [Column -> Contents] /\ targetPos \in Column /\ world[targetPos] = Air
      BY DEF IInv, TypeOK, PlaceTestHolds
    <2> QED  BY <1>1, <2>1, FillOne
  <1> QED  BY <1>3, <1>4, FilledFinite, BlocksAreFilled

\* One taken block comes into the hand, which was empty.
LEMMA TakeConserves ==
    ASSUME IInv, TakeTestHolds, pc = "griefing", Take
    PROVE  Blocks(world', carried') = Blocks(world, carried)
  <1>1. carried = Air /\ carried' # Air
    BY MobBlocksAssumption DEF IInv, TypeOK, TakeTestHolds, Take
  <1>2. Cardinality(Filled(world')) = Cardinality(Filled(world)) - 1
    <2>1. /\ world \in [Column -> Contents] /\ targetPos \in Column
          /\ world[targetPos] # Air /\ world' = [world EXCEPT ![targetPos] = Air]
      BY MobBlocksAssumption DEF IInv, TypeOK, TakeTestHolds, Take
    <2> QED  BY <2>1, EmptyOne
  <1> QED  BY <1>1, <1>2, FilledFinite, BlocksAreFilled

-----------------------------------------------------------------------------
(* The three action properties.                                            *)

\* A tick moves a block between hand and world and makes or loses none, for
\* any height of the column and any kinds of blocks.
THEOREM Conserved == Spec => BlocksConserved
  <1>1. ASSUME IInv, Next, Concludes, ~(drawn /\ world' # world)
        PROVE  Blocks(world', carried') = Blocks(world, carried)
    <2>1. ASSUME NEW cancelled \in BOOLEAN, PlaceAnswer(cancelled)
          PROVE  Blocks(world', carried') = Blocks(world, carried)
      <3>1. CASE cancelled
        BY <1>1, <2>1, <3>1, PlacesTested
      <3>2. CASE ~cancelled
        BY <1>1, <2>1, <3>2, PlacesTested, PlaceConserves DEF PlaceAnswer
      <3> QED  BY <3>1, <3>2
    <2>2. ASSUME NEW continue \in BOOLEAN, GriefAnswer(continue)
          PROVE  Blocks(world', carried') = Blocks(world, carried)
      <3>1. CASE continue
        BY <1>1, <2>2, <3>1, TakesTested, TakeConserves DEF GriefAnswer
      <3>2. CASE ~continue
        BY <1>1, <2>2, <3>2, TakesTested
      <3> QED  BY <3>1, <3>2
    <2> QED  BY <1>1, <2>1, <2>2, ConcludingStep
  <1>2. IInv /\ [Next]_vars
          => [Concludes /\ ~(drawn /\ world' # world) =>
                Blocks(world', carried') = Blocks(world, carried)]_vars
    BY <1>1
  <1> QED  BY <1>2, Inductive, PTL DEF Spec, BlocksConserved

\* What a mob places replaces air and stands on something solid.
THEOREM OnGround == Spec => PlacesOnGround
  <1>1. ASSUME IInv, Next, Concludes, pc = "placing", world' # world
        PROVE  world[targetPos] = Air /\ world[targetPos - 1] \in Solid
    <2>1. PICK cancelled \in BOOLEAN : PlaceAnswer(cancelled)
      BY <1>1, ConcludingStep DEF GriefAnswer
    <2> QED  BY <1>1, <2>1, PlacesTested DEF PlaceTestHolds
  <1>2. IInv /\ [Next]_vars
          => [Concludes /\ pc = "placing" /\ world' # world =>
                /\ world[targetPos] = Air
                /\ world[targetPos - 1] \in Solid]_vars
    BY <1>1
  <1> QED  BY <1>2, Inductive, PTL DEF Spec, PlacesOnGround

\* What comes into the hand is what goes out of the world.
THEOREM TakesIt == Spec => TakesWhatWasThere
  <1>1. ASSUME IInv, Next, Concludes, pc = "griefing", carried' # carried
        PROVE  carried' = world[targetPos] /\ world'[targetPos] = Air
    <2>1. PICK continue \in BOOLEAN : GriefAnswer(continue)
      BY <1>1, ConcludingStep DEF PlaceAnswer
    <2>2. TakeTestHolds /\ Take
      BY <1>1, <2>1, TakesTested
    <2> QED  BY <1>1, <2>2 DEF TakeTestHolds, Take, IInv, TypeOK
  <1>2. IInv /\ [Next]_vars
          => [Concludes /\ pc = "griefing" /\ carried' # carried =>
                /\ carried' = world[targetPos]
                /\ world'[targetPos] = Air]_vars
    BY <1>1
  <1> QED  BY <1>2, Inductive, PTL DEF Spec, TakesWhatWasThere

=============================================================================
