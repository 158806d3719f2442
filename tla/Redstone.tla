------------------------------ MODULE Redstone ------------------------------
(***************************************************************************)
(* The redstone hook replaces CircuitSystem::updateBlocks by a loop of its *)
(* own over the components of a chunk: the marked ones are processed, the  *)
(* secondary powered ones after all the others.  Processing one publishes  *)
(* Before, hands the strength to the block and publishes After, and each   *)
(* of these may run code that changes the circuit under the loop: another  *)
(* strength, another mark, a component removed.                            *)
(***************************************************************************)
EXTENDS Integers, Sequences, FiniteSets

CONSTANTS
    Components,     (* BaseCircuitComponents of the chunk                  *)
    Order,          (* mComponents: all of them in the order of the list   *)
    Secondary,      (* those that are secondary powered                    *)
    IgnoreFirst,    (* those with mIgnoreFirstUpdate                       *)
    Levels          (* strengths the circuit can give                      *)

NoStrength == -1

ASSUME RedstoneAssumption ==
    /\ Order \in Seq(Components)
    /\ \A c \in Components : \E i \in 1..Len(Order) : Order[i] = c
    /\ Secondary \subseteq Components
    /\ IgnoreFirst \subseteq Components
    /\ Levels \subseteq Nat /\ 0 \in Levels

VARIABLES
    strength,       (* component -> getStrength()                          *)
    oldStrength,    (* component -> mOldStrength                           *)
    isFirstTime,    (* component -> mIsFirstTime                           *)
    needsUpdate,    (* components with mNeedsUpdate                        *)
    removed,        (* components with mRemoved                            *)
    vetoed,         (* components whose last update was cancelled          *)
    pc,             (* where the hook is                                   *)
    todo,           (* items of the list the first loop has still to visit *)
    secondaryPoweredList,
    comp,           (* the component being processed                       *)
    asked,          (* doEvent: its Before event was let pass              *)
    reading,        (* processComponent's local strength                   *)
    executor,       (* the update found one: its block listens to redstone *)
    given,          (* what its block was told in this turn                *)
    meddled,        (* and whether the event or the circuit was changed    *)
    due             (* primaries marked when the pass began, yet to come   *)

circuitVars == <<strength, needsUpdate, removed>>
turnVars == <<comp, asked, reading, executor, given, meddled>>
vars == <<circuitVars, oldStrength, isFirstTime, vetoed, pc, todo,
          secondaryPoweredList, turnVars, due>>

Strengths == Levels \union {NoStrength}
Callbacks == {"publishing", "dispatching", "reporting"}

Init ==
    /\ strength \in [Components -> Strengths]
    /\ oldStrength = [c \in Components |-> 0]
    /\ isFirstTime = [c \in Components |-> TRUE]
    /\ needsUpdate = Components
    /\ removed = {}
    /\ vetoed = {}
    /\ pc = "idle"
    /\ todo = <<>>
    /\ secondaryPoweredList = <<>>
    /\ comp \in Components
    /\ asked = FALSE
    /\ reading = NoStrength
    /\ executor = FALSE
    /\ given = NoStrength
    /\ meddled = FALSE
    /\ due = {}

-----------------------------------------------------------------------------
(* The circuit, between two passes and inside the callbacks of one.        *)

CircuitMayChange == pc \in Callbacks \union {"idle"}

\* The circuit marks a component whose strength it changes.
Evaluate(c, s) ==
    /\ CircuitMayChange
    /\ c \notin removed /\ s # strength[c]
    /\ strength' = [strength EXCEPT ![c] = s]
    /\ needsUpdate' = needsUpdate \union {c}
    /\ meddled' = (meddled \/ (pc = "publishing" /\ c = comp))
    /\ UNCHANGED <<oldStrength, isFirstTime, removed, vetoed, pc, todo,
                   secondaryPoweredList, comp, asked, reading, executor, given, due>>

\* The block of a component is broken.
RemoveComponent(c) ==
    /\ CircuitMayChange
    /\ c \notin removed
    /\ removed' = removed \union {c}
    /\ due' = due \ {c}
    /\ UNCHANGED <<strength, needsUpdate, oldStrength, isFirstTime, vetoed, pc,
                   todo, secondaryPoweredList, turnVars>>

-----------------------------------------------------------------------------
(* processComponent.                                                       *)

Skip == UNCHANGED <<oldStrength, isFirstTime, vetoed, turnVars>> /\ pc' = "visiting"

\* Mutant: the arguments strength and oldStrength of the block are swapped.
UpdateSwapped(c, first, told, found) ==
    LET updates == strength[c] # NoStrength
        tells == updates /\ (~first \/ c \notin IgnoreFirst) /\ found IN
    /\ oldStrength' = [oldStrength EXCEPT ![c] = strength[c]]
    /\ executor' = found
    /\ given' = IF tells THEN oldStrength[c] ELSE NoStrength
    /\ isFirstTime' = [isFirstTime EXCEPT ![c] = first /\ (tells \/ ~updates)]
    /\ pc' = CASE tells -> "dispatching" [] ~tells /\ told -> "reporting" [] OTHER -> "visiting"

\* updateIndividualBlock, up to the call of the block; `first` is mIsFirstTime.
\* A block whose type has no executor for redstone is told nothing, and After
\* is published all the same; it may be another block than at the last update.
Update(c, first, told, found) ==
    LET updates == strength[c] # NoStrength
        tells == updates /\ (~first \/ c \notin IgnoreFirst) /\ found IN
    /\ oldStrength' = [oldStrength EXCEPT ![c] = strength[c]]
    /\ executor' = found
    /\ given' = IF tells THEN strength[c] ELSE NoStrength
    /\ isFirstTime' = [isFirstTime EXCEPT ![c] = first /\ (tells \/ ~updates)]
    /\ pc' = CASE tells -> "dispatching" [] ~tells /\ told -> "reporting" [] OTHER -> "visiting"

Ask(c) ==
    /\ pc' = "publishing"
    /\ comp' = c
    /\ asked' = FALSE
    /\ reading' = strength[c]
    /\ executor' = FALSE
    /\ given' = NoStrength
    /\ meddled' = FALSE
    /\ UNCHANGED <<oldStrength, isFirstTime, vetoed>>

UpdateUnasked(c) ==
    /\ comp' = c
    /\ asked' = FALSE
    /\ reading' = strength[c]
    /\ meddled' = FALSE
    /\ vetoed' = vetoed \ {c}
    /\ \E found \in BOOLEAN : Update(c, isFirstTime[c], FALSE, found)

\* Mutant: a component without a strength is asked about.
ProcessAny(c) ==
    IF ~isFirstTime[c] \/ c \notin IgnoreFirst THEN Ask(c) ELSE UpdateUnasked(c)

\* Mutant: || has become &&.
ProcessAnd(c) ==
    CASE strength[c] = NoStrength -> Skip
      [] strength[c] # NoStrength /\ ~isFirstTime[c] /\ c \notin IgnoreFirst -> Ask(c)
      [] OTHER -> UpdateUnasked(c)

Process(c) ==
    CASE strength[c] = NoStrength -> Skip
      [] strength[c] # NoStrength /\ (~isFirstTime[c] \/ c \notin IgnoreFirst) -> Ask(c)
      [] OTHER -> UpdateUnasked(c)

\* publish(beforeEvent) returns.  A listener may have written the strength,
\* which is a local of the hook, and isFirstTime, which is the component's.
Answer(cancelled, s, first, found) ==
    /\ pc = "publishing"
    /\ reading' = s
    /\ meddled' = (meddled \/ s # reading \/ first # isFirstTime[comp])
    /\ IF cancelled
         THEN /\ vetoed' = vetoed \union {comp}
              /\ isFirstTime' = [isFirstTime EXCEPT ![comp] = first]
              /\ pc' = "visiting"
              /\ UNCHANGED <<oldStrength, asked, executor, given>>
         ELSE /\ vetoed' = vetoed \ {comp}
              /\ asked' = TRUE
              /\ Update(comp, first, TRUE, found)
    /\ UNCHANGED <<circuitVars, todo, secondaryPoweredList, comp, due>>

\* Mutant: the mark is cleared when the block has been updated.
DispatchedClears ==
    /\ pc = "dispatching"
    /\ isFirstTime' = [isFirstTime EXCEPT ![comp] = FALSE]
    /\ needsUpdate' = needsUpdate \ {comp}
    /\ pc' = IF asked THEN "reporting" ELSE "visiting"
    /\ UNCHANGED <<strength, removed, oldStrength, vetoed, todo,
                   secondaryPoweredList, turnVars, due>>

\* The block's event executor returns.
Dispatched ==
    /\ pc = "dispatching"
    /\ isFirstTime' = [isFirstTime EXCEPT ![comp] = FALSE]
    /\ pc' = IF asked THEN "reporting" ELSE "visiting"
    /\ UNCHANGED <<circuitVars, oldStrength, vetoed, todo, secondaryPoweredList,
                   turnVars, due>>

\* publish(afterEvent), with the local strength, returns.
Reported ==
    /\ pc = "reporting"
    /\ pc' = "visiting"
    /\ UNCHANGED <<circuitVars, oldStrength, isFirstTime, vetoed, todo,
                   secondaryPoweredList, turnVars, due>>

-----------------------------------------------------------------------------
(* updateBlocks.                                                           *)

Marked == needsUpdate \ removed

\* The circuit has been evaluated and knows the chunk (else the hook returns).
UpdateBlocks ==
    /\ pc = "idle"
    /\ pc' = "visiting"
    /\ todo' = Order
    /\ secondaryPoweredList' = <<>>
    /\ due' = Marked \ Secondary
    /\ UNCHANGED <<circuitVars, oldStrength, isFirstTime, vetoed, turnVars>>

\* Mutant: a secondary powered component is processed when it is met.
VisitAtOnce ==
    /\ pc = "visiting" /\ todo # <<>>
    /\ todo' = Tail(todo)
    /\ due' = due \ {Head(todo)}
    /\ needsUpdate' = IF Head(todo) \in Marked THEN needsUpdate \ {Head(todo)} ELSE needsUpdate
    /\ IF Head(todo) \in Marked THEN Process(Head(todo)) ELSE Skip
    /\ UNCHANGED <<strength, removed, secondaryPoweredList>>

Visit ==
    /\ pc = "visiting" /\ todo # <<>>
    /\ LET c == Head(todo) IN
       /\ todo' = Tail(todo)
       /\ due' = due \ {c}
       /\ needsUpdate' = IF c \in Marked THEN needsUpdate \ {c} ELSE needsUpdate
       /\ IF c \in Marked \ Secondary THEN Process(c) ELSE Skip
       /\ secondaryPoweredList' = IF c \in Marked \intersect Secondary
                                    THEN Append(secondaryPoweredList, c)
                                    ELSE secondaryPoweredList
    /\ UNCHANGED <<strength, removed>>

\* The second loop asks neither for the mark nor whether it was removed since.
VisitSecondary ==
    /\ pc = "visiting" /\ todo = <<>> /\ secondaryPoweredList # <<>>
    /\ secondaryPoweredList' = Tail(secondaryPoweredList)
    /\ Process(Head(secondaryPoweredList))
    /\ UNCHANGED <<circuitVars, todo, due>>

Return ==
    /\ pc = "visiting" /\ todo = <<>> /\ secondaryPoweredList = <<>>
    /\ pc' = "idle"
    /\ UNCHANGED <<circuitVars, oldStrength, isFirstTime, vetoed, todo,
                   secondaryPoweredList, turnVars, due>>

Next ==
    \/ \E c \in Components, s \in Strengths : Evaluate(c, s)
    \/ \E c \in Components : RemoveComponent(c)
    \/ UpdateBlocks \/ Visit \/ VisitSecondary \/ Return
    \/ \E cancelled, first, found \in BOOLEAN, s \in Levels : Answer(cancelled, s, first, found)
    \/ Dispatched \/ Reported

Spec == Init /\ [][Next]_vars

-----------------------------------------------------------------------------

\* Also: only secondary powered components wait for the second loop, and an
\* event has a strength.
TypeOK ==
    /\ strength \in [Components -> Strengths]
    /\ oldStrength \in [Components -> Strengths]
    /\ isFirstTime \in [Components -> BOOLEAN]
    /\ needsUpdate \subseteq Components
    /\ removed \subseteq Components
    /\ vetoed \subseteq Components
    /\ pc \in Callbacks \union {"idle", "visiting"}
    /\ todo \in Seq(Components)
    /\ secondaryPoweredList \in Seq(Secondary)
    /\ comp \in Components
    /\ asked \in BOOLEAN
    /\ reading \in Strengths
    /\ pc \in {"publishing", "reporting"} => reading \in Levels
    /\ executor \in BOOLEAN
    /\ given \in Strengths
    /\ meddled \in BOOLEAN
    /\ due \subseteq Components \ Secondary

\* No change of the circuit is lost between its marks and the loop that clears
\* them: a component without a mark has been updated to the strength it has,
\* also if it changed while a callback of its own update was running, unless
\* a listener has vetoed it or it has none.
ChangesArrive ==
    \A c \in Components \ removed :
        pc = "idle" /\ c \notin needsUpdate /\ c \notin vetoed /\ strength[c] # NoStrength
            => oldStrength[c] = strength[c]

\* A block is told of a strength only if the listeners have let it pass.
BlocksAskFirst == pc = "dispatching" => asked

\* After tells of an update that has taken place, as it took place: the component
\* is left with the strength After carries and with its first time behind it,
\* and its block was told that strength if it listens to redstone at all.  So
\* unless a listener or the circuit has changed it since Before.
AfterTellsTheUpdate ==
    pc = "reporting" /\ ~meddled =>
        /\ oldStrength[comp] = reading
        /\ ~isFirstTime[comp]
        /\ given = IF executor THEN reading ELSE NoStrength

\* The secondary powered components come last: when one is served, every other
\* component that was marked as the pass began has been, or is gone.
SecondariesLast == pc \in Callbacks /\ comp \in Secondary => due = {}

=============================================================================
