--------------------------- MODULE RedstoneProofs ---------------------------
(***************************************************************************)
(* Proofs about Redstone.tla for any components, in any order, and any     *)
(* strengths: that no change of the circuit is lost, what is asked and     *)
(* told about a block, and that the secondary powered come last.           *)
(***************************************************************************)
EXTENDS Redstone, TLAPS

-----------------------------------------------------------------------------
(* The inductive invariant.                                                *)

In(c, list) == \E i \in 1..Len(list) : list[i] = c

\* Between two passes the hook has nothing left to do.
Rests == pc = "idle" => todo = <<>> /\ secondaryPoweredList = <<>>

\* A component that has lost its mark has been updated, or its listeners are
\* being asked, or it waits for the second loop.
Accounted(c) ==
    c \notin needsUpdate /\ c \notin vetoed /\ strength[c] # NoStrength
        => \/ oldStrength[c] = strength[c]
           \/ pc = "publishing" /\ comp = c
           \/ In(c, secondaryPoweredList)

\* The event is about the strength the component has, unless that has changed
\* since, and only a component that may be updated is asked about.
AsksTruly ==
    pc = "publishing" =>
        /\ ~isFirstTime[comp] \/ comp \notin IgnoreFirst
        /\ ~meddled => reading = strength[comp]

\* A component is updated after its listeners are asked and to what they were
\* told, and its block is told that if it has an executor.
TellsTruly ==
    /\ pc = "dispatching" => asked /\ reading \in Levels
    /\ pc \in {"dispatching", "reporting"} /\ ~meddled =>
           /\ oldStrength[comp] = reading
           /\ given = IF executor THEN reading ELSE NoStrength
    /\ pc = "reporting" /\ ~meddled => ~isFirstTime[comp]

\* Who is due is ahead in the first loop.
DueAhead == \A c \in due : In(c, todo)

IInv ==
    /\ TypeOK
    /\ Rests
    /\ \A c \in Components \ removed : Accounted(c)
    /\ AsksTruly
    /\ TellsTruly
    /\ DueAhead
    /\ SecondariesLast

-----------------------------------------------------------------------------
(* Lists and turns.                                                        *)

\* What is in a list is at its head or in its tail.
LEMMA Pops ==
    ASSUME NEW S, NEW list \in Seq(S), list # <<>>
    PROVE  /\ Head(list) \in S /\ Tail(list) \in Seq(S)
           /\ \A c : In(c, list) => c = Head(list) \/ In(c, Tail(list))
  <1>1. Head(list) \in S /\ Tail(list) \in Seq(S)
    OBVIOUS
  <1>2. ASSUME NEW c, NEW i \in 1..Len(list), list[i] = c, c # Head(list)
        PROVE  In(c, Tail(list))
    <2>1. i # 1 /\ Len(list) \in Nat /\ Len(Tail(list)) = Len(list) - 1
      BY <1>2
    <2>2. i - 1 \in 1..Len(Tail(list)) /\ Tail(list)[i - 1] = list[i]
      BY <2>1
    <2> QED  BY <1>2, <2>2 DEF In
  <1> QED  BY <1>1, <1>2 DEF In

LEMMA Appends ==
    ASSUME NEW S, NEW list \in Seq(S), NEW e \in S
    PROVE  /\ Append(list, e) \in Seq(S)
           /\ \A c : In(c, list) \/ c = e => In(c, Append(list, e))
  <1>1. /\ Append(list, e) \in Seq(S) /\ Len(Append(list, e)) = Len(list) + 1
        /\ Len(list) \in Nat
        /\ Append(list, e)[Len(list) + 1] = e
        /\ \A i \in 1..Len(list) : Append(list, e)[i] = list[i]
    OBVIOUS
  <1>2. In(e, Append(list, e))
    <2>1. Len(list) + 1 \in 1..Len(Append(list, e))
      BY <1>1
    <2> QED  BY <1>1, <2>1 DEF In
  <1>3. ASSUME NEW c, In(c, list)
        PROVE  In(c, Append(list, e))
    <2>1. PICK i \in 1..Len(list) : list[i] = c
      BY <1>3 DEF In
    <2>2. i \in 1..Len(Append(list, e)) /\ Append(list, e)[i] = c
      BY <1>1, <2>1
    <2> QED  BY <2>2 DEF In
  <1> QED  BY <1>1, <1>2, <1>3

\* What is known when the hook comes to a component: the turn begins, the
\* component is let pass unasked, or there is nothing to do.
Turned(c) ==
    /\ oldStrength' \in [Components -> Strengths]
    /\ isFirstTime' \in [Components -> BOOLEAN]
    /\ vetoed' \subseteq Components
    /\ comp' \in Components /\ asked' \in BOOLEAN
    /\ reading' \in Strengths /\ executor' \in BOOLEAN
    /\ given' \in Strengths /\ meddled' \in BOOLEAN
    /\ pc' = "visiting" \/ pc' = "publishing"
    /\ \A d \in Components : d # c =>
           oldStrength'[d] = oldStrength[d] /\ (d \in vetoed' <=> d \in vetoed)
    /\ \/ strength[c] = NoStrength
       \/ oldStrength'[c] = strength[c]
       \/ pc' = "publishing" /\ comp' = c
    /\ pc' = "publishing" =>
           /\ comp' = c /\ reading' = strength[c] /\ strength[c] \in Levels
           /\ ~isFirstTime'[c] \/ c \notin IgnoreFirst

LEMMA ProcessTurns ==
    ASSUME TypeOK, NEW c \in Components, Process(c)
    PROVE  Turned(c)
  <1>1. /\ strength[c] \in Strengths /\ isFirstTime[c] \in BOOLEAN
        /\ oldStrength \in [Components -> Strengths]
        /\ isFirstTime \in [Components -> BOOLEAN]
        /\ vetoed \subseteq Components
        /\ comp \in Components /\ asked \in BOOLEAN
        /\ reading \in Strengths /\ executor \in BOOLEAN
        /\ given \in Strengths /\ meddled \in BOOLEAN
    BY DEF TypeOK
  <1>2. NoStrength \in Strengths
    BY DEF Strengths
  <1>3. CASE strength[c] = NoStrength
    <2>1. Skip
      BY <1>3 DEF Process
    <2> QED  BY <1>1, <1>3, <2>1 DEF Skip, turnVars, Turned
  <1>4. CASE strength[c] # NoStrength /\ (~isFirstTime[c] \/ c \notin IgnoreFirst)
    <2>1. Ask(c)
      BY <1>4 DEF Process
    <2>2. strength[c] \in Levels
      BY <1>1, <1>4 DEF Strengths
    <2>3. /\ pc' = "publishing" /\ comp' = c /\ asked' = FALSE /\ reading' = strength[c]
          /\ executor' = FALSE /\ given' = NoStrength /\ meddled' = FALSE
          /\ UNCHANGED <<oldStrength, isFirstTime, vetoed>>
      BY <2>1 DEF Ask
    <2> QED  BY <1>1, <1>2, <1>4, <2>2, <2>3 DEF Turned
  <1>5. CASE strength[c] # NoStrength /\ isFirstTime[c] /\ c \in IgnoreFirst
    <2>1. UpdateUnasked(c)
      BY <1>5 DEF Process
    <2>2. /\ comp' = c /\ asked' = FALSE /\ reading' = strength[c] /\ meddled' = FALSE
          /\ vetoed' = vetoed \ {c} /\ given' = NoStrength /\ pc' = "visiting"
          /\ oldStrength' = [oldStrength EXCEPT ![c] = strength[c]]
      BY <1>5, <2>1 DEF UpdateUnasked, Update
    <2>3. executor' \in BOOLEAN /\ isFirstTime' \in [Components -> BOOLEAN]
      BY <1>1, <1>5, <2>1 DEF UpdateUnasked, Update
    <2>4. oldStrength'[c] = strength[c]
      BY <1>1, <2>2
    <2> QED  BY <1>1, <1>2, <2>2, <2>3, <2>4 DEF Turned
  <1> QED  BY <1>1, <1>3, <1>4, <1>5

\* What a turn leaves of the others: their account, in a list that is kept.
LEMMA OthersAccounted ==
    ASSUME NEW c \in Components, Turned(c), pc = "visiting", NEW d \in Components, d # c,
           Accounted(d), UNCHANGED <<strength, removed>>,
           d \notin needsUpdate' => d \notin needsUpdate,
           In(d, secondaryPoweredList) => In(d, secondaryPoweredList')
    PROVE  Accounted(d)'
  BY DEF Accounted, Turned, In

\* A component that has had its turn is accounted for.
LEMMA SelfAccounted ==
    ASSUME NEW c \in Components, Turned(c), UNCHANGED <<strength, removed>>
    PROVE  Accounted(c)'
  BY DEF Accounted, Turned, In

-----------------------------------------------------------------------------
(* Each step keeps the invariant.                                          *)

LEMMA EvaluateKeeps ==
    ASSUME IInv, NEW c \in Components, NEW s \in Strengths, Evaluate(c, s)
    PROVE  IInv'
  <1>1. /\ strength' = [strength EXCEPT ![c] = s] /\ needsUpdate' = needsUpdate \union {c}
        /\ UNCHANGED <<oldStrength, isFirstTime, removed, vetoed, pc, todo,
                       secondaryPoweredList, comp, asked, reading, executor, given, due>>
        /\ strength \in [Components -> Strengths] /\ needsUpdate \subseteq Components
    BY DEF Evaluate, IInv, TypeOK
  <1>2. meddled' \in BOOLEAN
    BY DEF Evaluate, IInv, TypeOK
  <1>3. ~meddled' => ~meddled /\ ~(pc = "publishing" /\ c = comp)
    BY DEF Evaluate
  <1>4. strength' \in [Components -> Strengths]
    BY <1>1
  <1>5. TypeOK'
    BY <1>1, <1>2, <1>4 DEF IInv, TypeOK
  <1>6. \A d \in Components \ removed' : Accounted(d)'
    BY <1>1 DEF IInv, Accounted, In
  <1>7. AsksTruly'
    BY <1>1, <1>3 DEF IInv, TypeOK, AsksTruly
  <1>8. TellsTruly' /\ Rests' /\ DueAhead' /\ SecondariesLast'
    BY <1>1, <1>3 DEF IInv, TellsTruly, Rests, DueAhead, SecondariesLast, In
  <1> QED  BY <1>5, <1>6, <1>7, <1>8 DEF IInv

LEMMA RemoveComponentKeeps ==
    ASSUME IInv, NEW c \in Components, RemoveComponent(c)
    PROVE  IInv'
  <1>1. /\ removed' = removed \union {c} /\ due' = due \ {c}
        /\ UNCHANGED <<strength, needsUpdate, oldStrength, isFirstTime, vetoed, pc,
                       todo, secondaryPoweredList, comp, asked, reading, executor, given, meddled>>
    BY DEF RemoveComponent, turnVars
  <1>2. TypeOK'
    BY <1>1 DEF IInv, TypeOK
  <1>3. \A d \in Components \ removed' : Accounted(d)'
    BY <1>1 DEF IInv, Accounted, In
  <1>4. AsksTruly' /\ TellsTruly' /\ Rests' /\ DueAhead' /\ SecondariesLast'
    BY <1>1 DEF IInv, AsksTruly, TellsTruly, Rests, DueAhead, SecondariesLast, In
  <1> QED  BY <1>2, <1>3, <1>4 DEF IInv

\* The listeners have answered: the update is vetoed, or the component gets the
\* strength it has now.
LEMMA AnswerKeeps ==
    ASSUME IInv, NEW cancelled \in BOOLEAN, NEW first \in BOOLEAN, NEW found \in BOOLEAN,
           NEW s \in Levels, Answer(cancelled, s, first, found)
    PROVE  IInv'
  <1>1. /\ pc = "publishing" /\ reading' = s
        /\ meddled' = (meddled \/ s # reading \/ first # isFirstTime[comp])
        /\ UNCHANGED << strength, needsUpdate, removed, todo, secondaryPoweredList, comp, due >>
    BY DEF Answer, circuitVars
  <1>2. /\ strength[comp] \in Strengths /\ comp \in Components
        /\ isFirstTime \in [Components -> BOOLEAN] /\ oldStrength \in [Components -> Strengths]
        /\ vetoed \subseteq Components /\ asked \in BOOLEAN /\ given \in Strengths
        /\ s \in Strengths /\ NoStrength \in Strengths /\ NoStrength \notin Levels
    BY RedstoneAssumption DEF IInv, TypeOK, Strengths, NoStrength
  <1>3. meddled' \in BOOLEAN
    BY <1>1
  <1>4. ~meddled' => ~meddled /\ s = reading /\ first = isFirstTime[comp]
    BY <1>1
  <1>5. CASE cancelled
    <2>1. /\ vetoed' = vetoed \union {comp} /\ pc' = "visiting"
          /\ isFirstTime' = [isFirstTime EXCEPT ![comp] = first]
          /\ UNCHANGED <<oldStrength, asked, executor, given>>
      BY <1>5 DEF Answer
    <2>2. isFirstTime' \in [Components -> BOOLEAN]
      BY <1>2, <2>1
    <2>3. TypeOK'
      BY <1>1, <1>2, <1>3, <2>1, <2>2 DEF IInv, TypeOK
    <2>4. \A d \in Components \ removed' : Accounted(d)'
      BY <1>1, <2>1 DEF IInv, Accounted, In
    <2>5. AsksTruly' /\ TellsTruly' /\ Rests' /\ DueAhead' /\ SecondariesLast'
      BY <1>1, <2>1 DEF IInv, AsksTruly, TellsTruly, Rests, DueAhead, SecondariesLast, In, Callbacks
    <2> QED  BY <2>3, <2>4, <2>5 DEF IInv
  <1>6. CASE ~cancelled
    <2>1. vetoed' = vetoed \ {comp} /\ asked' = TRUE /\ Update(comp, first, TRUE, found)
      BY <1>6 DEF Answer
    <2>2. /\ oldStrength' = [oldStrength EXCEPT ![comp] = strength[comp]] /\ executor' = found
          /\ pc' = "dispatching" \/ pc' = "reporting"
          /\ pc' = "dispatching" => given' = strength[comp]
          /\ pc' = "reporting" => given' = NoStrength
      BY <2>1 DEF Update
    <2>3. isFirstTime' \in [Components -> BOOLEAN]
      BY <1>2, <2>1 DEF Update
    <2>4. given' \in Strengths /\ oldStrength' \in [Components -> Strengths]
      BY <1>2, <2>2
    <2>5. TypeOK'
      BY <1>1, <1>2, <1>3, <2>1, <2>2, <2>3, <2>4 DEF IInv, TypeOK, Callbacks
    <2>6. ASSUME NEW d \in Components \ removed'
          PROVE  Accounted(d)'
      <3>1. CASE d = comp
        BY <1>1, <1>2, <2>2, <3>1 DEF Accounted
      <3>2. CASE d # comp
        BY <1>1, <1>2, <2>1, <2>2, <3>2 DEF IInv, Accounted, In
      <3> QED  BY <3>1, <3>2
    <2>7. ASSUME ~meddled'
          PROVE  /\ oldStrength'[comp] = reading'
                 /\ given' = IF executor' THEN reading' ELSE NoStrength
                 /\ pc' = "reporting" => ~isFirstTime'[comp]
      <3>1. /\ s = reading /\ first = isFirstTime[comp] /\ reading = strength[comp]
            /\ ~first \/ comp \notin IgnoreFirst
        BY <1>1, <1>4, <2>7 DEF IInv, AsksTruly
      <3>2. strength[comp] # NoStrength
        BY <1>2, <3>1
      <3>3. /\ pc' = IF found THEN "dispatching" ELSE "reporting"
            /\ isFirstTime' = [isFirstTime EXCEPT ![comp] = first /\ found]
            /\ given' = IF found THEN strength[comp] ELSE NoStrength
        BY <2>1, <3>1, <3>2 DEF Update
      <3>4. oldStrength'[comp] = reading'
        BY <1>1, <1>2, <2>2, <3>1
      <3>5. given' = IF executor' THEN reading' ELSE NoStrength
        BY <1>1, <2>2, <3>1, <3>3
      <3>6. pc' = "reporting" => ~isFirstTime'[comp]
        BY <1>2, <3>3
      <3> QED  BY <3>4, <3>5, <3>6
    <2>8. TellsTruly'
      BY <1>1, <2>1, <2>7 DEF TellsTruly
    <2>9. AsksTruly' /\ Rests' /\ DueAhead'
      BY <1>1, <2>2 DEF IInv, AsksTruly, Rests, DueAhead, In
    <2>10. SecondariesLast'
      BY <1>1, <2>2 DEF IInv, SecondariesLast, Callbacks
    <2> QED  BY <2>5, <2>6, <2>8, <2>9, <2>10 DEF IInv
  <1> QED  BY <1>5, <1>6

LEMMA DispatchedKeeps ==
    ASSUME IInv, Dispatched
    PROVE  IInv'
  <1>1. /\ pc = "dispatching" /\ isFirstTime' = [isFirstTime EXCEPT ![comp] = FALSE]
        /\ pc' = IF asked THEN "reporting" ELSE "visiting"
        /\ UNCHANGED << strength, needsUpdate, removed, oldStrength, vetoed, todo,
                        secondaryPoweredList, comp, asked, reading, executor, given, meddled, due >>
    BY DEF Dispatched, circuitVars, turnVars
  <1>2. isFirstTime' \in [Components -> BOOLEAN] /\ reading \in Levels /\ pc' = "reporting"
    BY <1>1 DEF IInv, TypeOK, TellsTruly
  <1>3. TypeOK'
    BY <1>1, <1>2 DEF IInv, TypeOK, Callbacks
  <1>4. \A d \in Components \ removed' : Accounted(d)'
    BY <1>1 DEF IInv, Accounted, In
  <1>5. AsksTruly' /\ TellsTruly' /\ Rests' /\ DueAhead' /\ SecondariesLast'
    BY <1>1, <1>2
       DEF IInv, AsksTruly, TellsTruly, Rests, DueAhead, SecondariesLast, In, Callbacks
  <1> QED  BY <1>3, <1>4, <1>5 DEF IInv

LEMMA ReportedKeeps ==
    ASSUME IInv, Reported
    PROVE  IInv'
  <1>1. /\ pc = "reporting" /\ pc' = "visiting"
        /\ UNCHANGED << strength, needsUpdate, removed, oldStrength, isFirstTime, vetoed, todo,
                        secondaryPoweredList, comp, asked, reading, executor, given, meddled, due >>
    BY DEF Reported, circuitVars, turnVars
  <1>2. TypeOK'
    BY <1>1 DEF IInv, TypeOK
  <1>3. \A d \in Components \ removed' : Accounted(d)'
    BY <1>1 DEF IInv, Accounted, In
  <1>4. AsksTruly' /\ TellsTruly' /\ Rests' /\ DueAhead' /\ SecondariesLast'
    BY <1>1 DEF IInv, AsksTruly, TellsTruly, Rests, DueAhead, SecondariesLast, In, Callbacks
  <1> QED  BY <1>2, <1>3, <1>4 DEF IInv

LEMMA UpdateBlocksKeeps ==
    ASSUME IInv, UpdateBlocks
    PROVE  IInv'
  <1>1. /\ pc = "idle" /\ pc' = "visiting" /\ todo' = Order /\ secondaryPoweredList' = <<>>
        /\ due' = Marked \ Secondary
        /\ UNCHANGED << strength, needsUpdate, removed, oldStrength, isFirstTime, vetoed,
                        comp, asked, reading, executor, given, meddled >>
        /\ secondaryPoweredList = <<>>
    BY DEF UpdateBlocks, circuitVars, turnVars, IInv, Rests
  <1>2. Marked \subseteq Components
    BY DEF Marked, IInv, TypeOK
  <1>3. TypeOK'
    BY <1>1, <1>2, RedstoneAssumption DEF IInv, TypeOK
  <1>4. \A d \in Components \ removed' : Accounted(d)'
    BY <1>1 DEF IInv, Accounted, In
  <1>5. DueAhead'
    BY <1>1, <1>2, RedstoneAssumption DEF DueAhead, In
  <1>6. AsksTruly' /\ TellsTruly' /\ Rests' /\ SecondariesLast'
    BY <1>1 DEF AsksTruly, TellsTruly, Rests, SecondariesLast, Callbacks
  <1> QED  BY <1>3, <1>4, <1>5, <1>6 DEF IInv

\* The first loop: a component that loses its mark gets its turn or waits for
\* the second loop.
LEMMA VisitKeeps ==
    ASSUME IInv, Visit
    PROVE  IInv'
  <1> DEFINE c == Head(todo)
  <1>1. /\ pc = "visiting" /\ todo # <<>> /\ todo' = Tail(todo) /\ due' = due \ {c}
        /\ needsUpdate' = IF c \in Marked THEN needsUpdate \ {c} ELSE needsUpdate
        /\ IF c \in Marked \ Secondary THEN Process(c) ELSE Skip
        /\ secondaryPoweredList' = IF c \in Marked \intersect Secondary
                                     THEN Append(secondaryPoweredList, c)
                                     ELSE secondaryPoweredList
        /\ UNCHANGED <<strength, removed>>
    BY DEF Visit
  <1>2. /\ c \in Components /\ todo' \in Seq(Components)
        /\ \A d : In(d, todo) => d = c \/ In(d, todo')
    BY <1>1, Pops DEF IInv, TypeOK
  <1> HIDE DEF c
  <1>3. /\ secondaryPoweredList' \in Seq(Secondary)
        /\ \A d : In(d, secondaryPoweredList) => In(d, secondaryPoweredList')
        /\ c \in Marked \intersect Secondary => In(c, secondaryPoweredList')
    <2>1. CASE c \in Marked \intersect Secondary
      BY <1>1, <2>1, Appends DEF IInv, TypeOK
    <2>2. CASE c \notin Marked \intersect Secondary
      BY <1>1, <2>2 DEF IInv, TypeOK
    <2> QED  BY <2>1, <2>2
  <1>4. DueAhead'
    BY <1>1, <1>2 DEF IInv, DueAhead, In
  <1>5. CASE c \in Marked \ Secondary
    <2>1. Process(c)
      BY <1>1, <1>5
    <2>2. Turned(c)
      BY <1>2, <2>1, ProcessTurns DEF IInv
    <2>3. TypeOK'
      BY <1>1, <1>2, <1>3, <2>2 DEF IInv, TypeOK, Turned, Callbacks
    <2>4. ASSUME NEW d \in Components \ removed'
          PROVE  Accounted(d)'
      <3>1. CASE d = c
        BY <1>1, <1>2, <2>2, <3>1, SelfAccounted
      <3>2. CASE d # c
        <4>1. Accounted(d) /\ (d \notin needsUpdate' => d \notin needsUpdate)
          BY <1>1, <3>2 DEF IInv
        <4> QED  BY <1>1, <1>2, <1>3, <2>2, <3>2, <4>1, OthersAccounted
      <3> QED  BY <3>1, <3>2
    <2>5. AsksTruly'
      BY <1>1, <2>2 DEF AsksTruly, Turned
    <2>6. TellsTruly' /\ Rests'
      BY <2>2 DEF TellsTruly, Rests, Turned
    <2>7. SecondariesLast'
      BY <1>5, <2>2 DEF SecondariesLast, Callbacks, Turned
    <2> QED  BY <1>4, <2>3, <2>4, <2>5, <2>6, <2>7 DEF IInv
  <1>6. CASE c \notin Marked \ Secondary
    <2>1. /\ UNCHANGED << oldStrength, isFirstTime, vetoed, comp, asked, reading, executor, given, meddled >>
          /\ pc' = "visiting"
      BY <1>1, <1>6 DEF Skip, turnVars
    <2>2. TypeOK'
      BY <1>1, <1>2, <1>3, <2>1 DEF IInv, TypeOK
    <2>3. ASSUME NEW d \in Components \ removed'
          PROVE  Accounted(d)'
      <3>1. Accounted(d)
        BY <1>1 DEF IInv
      <3>2. CASE d \in needsUpdate /\ d \notin needsUpdate'
        <4>1. d = c /\ c \in Marked \intersect Secondary
          BY <1>1, <1>6, <3>2
        <4>2. In(d, secondaryPoweredList')
          BY <1>3, <4>1
        <4> QED  BY <4>2 DEF Accounted, In
      <3>3. CASE d \notin needsUpdate' => d \notin needsUpdate
        <4>1. In(d, secondaryPoweredList) => In(d, secondaryPoweredList')
          BY <1>3
        <4> QED  BY <1>1, <2>1, <3>1, <3>3, <4>1 DEF Accounted, In
      <3> QED  BY <3>2, <3>3
    <2>4. AsksTruly' /\ TellsTruly' /\ Rests' /\ SecondariesLast'
      BY <2>1 DEF AsksTruly, TellsTruly, Rests, SecondariesLast, Callbacks
    <2> QED  BY <1>4, <2>2, <2>3, <2>4 DEF IInv
  <1> QED  BY <1>5, <1>6

\* The second loop begins when nobody is due in the first any more.
LEMMA VisitSecondaryKeeps ==
    ASSUME IInv, VisitSecondary
    PROVE  IInv'
  <1> DEFINE c == Head(secondaryPoweredList)
  <1>1. /\ pc = "visiting" /\ todo = <<>> /\ secondaryPoweredList # <<>>
        /\ secondaryPoweredList' = Tail(secondaryPoweredList) /\ Process(c)
        /\ UNCHANGED <<strength, needsUpdate, removed, todo, due>>
    BY DEF VisitSecondary, circuitVars
  <1>2. /\ c \in Secondary /\ secondaryPoweredList' \in Seq(Secondary)
        /\ \A d : In(d, secondaryPoweredList) => d = c \/ In(d, secondaryPoweredList')
    BY <1>1, Pops DEF IInv, TypeOK
  <1>3. c \in Components
    BY <1>2, RedstoneAssumption
  <1> HIDE DEF c
  <1>4. Turned(c)
    BY <1>1, <1>3, ProcessTurns DEF IInv
  <1>5. TypeOK'
    BY <1>1, <1>2, <1>4 DEF IInv, TypeOK, Turned, Callbacks
  <1>6. ASSUME NEW d \in Components \ removed'
        PROVE  Accounted(d)'
    <2>1. CASE d = c
      BY <1>1, <1>3, <1>4, <2>1, SelfAccounted
    <2>2. CASE d # c
      <3>1. /\ Accounted(d) /\ (d \notin needsUpdate' => d \notin needsUpdate)
            /\ In(d, secondaryPoweredList) => In(d, secondaryPoweredList')
        BY <1>1, <1>2, <2>2 DEF IInv
      <3> QED  BY <1>1, <1>3, <1>4, <2>2, <3>1, OthersAccounted
    <2> QED  BY <2>1, <2>2
  <1>7. due = {}
    BY <1>1 DEF IInv, DueAhead, In
  <1>8. DueAhead' /\ SecondariesLast'
    BY <1>1, <1>7 DEF DueAhead, SecondariesLast
  <1>9. AsksTruly'
    BY <1>1, <1>4 DEF AsksTruly, Turned
  <1>10. TellsTruly' /\ Rests'
    BY <1>4 DEF TellsTruly, Rests, Turned
  <1> QED  BY <1>5, <1>6, <1>8, <1>9, <1>10 DEF IInv

LEMMA ReturnKeeps ==
    ASSUME IInv, Return
    PROVE  IInv'
  <1>1. /\ pc = "visiting" /\ todo = <<>> /\ secondaryPoweredList = <<>> /\ pc' = "idle"
        /\ UNCHANGED << strength, needsUpdate, removed, oldStrength, isFirstTime, vetoed, todo,
                        secondaryPoweredList, comp, asked, reading, executor, given, meddled, due >>
    BY DEF Return, circuitVars, turnVars
  <1>2. TypeOK'
    BY <1>1 DEF IInv, TypeOK
  <1>3. \A d \in Components \ removed' : Accounted(d)'
    BY <1>1 DEF IInv, Accounted, In
  <1>4. AsksTruly' /\ TellsTruly' /\ Rests' /\ DueAhead' /\ SecondariesLast'
    BY <1>1 DEF IInv, AsksTruly, TellsTruly, Rests, DueAhead, SecondariesLast, In, Callbacks
  <1> QED  BY <1>2, <1>3, <1>4 DEF IInv

-----------------------------------------------------------------------------
(* The theorems.                                                           *)

LEMMA InitIInv == Init => IInv
  <1> SUFFICES ASSUME Init
               PROVE  IInv
    OBVIOUS
  <1>1. 0 \in Strengths /\ NoStrength \in Strengths
    BY RedstoneAssumption DEF Strengths
  <1>2. TypeOK
    <2>1. oldStrength \in [Components -> Strengths]
      BY <1>1 DEF Init
    <2>2. isFirstTime \in [Components -> BOOLEAN]
      BY DEF Init
    <2>3. todo \in Seq(Components) /\ secondaryPoweredList \in Seq(Secondary)
      BY DEF Init
    <2> QED  BY <1>1, <2>1, <2>2, <2>3 DEF Init, TypeOK
  <1>3. Rests /\ AsksTruly /\ TellsTruly /\ DueAhead /\ SecondariesLast
    BY DEF Init, Rests, AsksTruly, TellsTruly, DueAhead, SecondariesLast, Callbacks
  <1>4. \A c \in Components \ removed : Accounted(c)
    BY DEF Init, Accounted
  <1> QED  BY <1>2, <1>3, <1>4 DEF IInv

LEMMA NextKeeps == IInv /\ [Next]_vars => IInv'
  <1> SUFFICES ASSUME IInv, [Next]_vars
               PROVE  IInv'
    OBVIOUS
  <1>1. ASSUME NEW c \in Components, NEW s \in Strengths, Evaluate(c, s)
        PROVE  IInv'
    BY <1>1, EvaluateKeeps
  <1>2. ASSUME NEW c \in Components, RemoveComponent(c)
        PROVE  IInv'
    BY <1>2, RemoveComponentKeeps
  <1>3. CASE UpdateBlocks \/ Visit \/ VisitSecondary \/ Return
    BY <1>3, UpdateBlocksKeeps, VisitKeeps, VisitSecondaryKeeps, ReturnKeeps
  <1>4. ASSUME NEW cancelled \in BOOLEAN, NEW first \in BOOLEAN, NEW found \in BOOLEAN,
               NEW s \in Levels, Answer(cancelled, s, first, found)
        PROVE  IInv'
    BY <1>4, AnswerKeeps
  <1>5. CASE Dispatched \/ Reported
    BY <1>5, DispatchedKeeps, ReportedKeeps
  <1>6. CASE UNCHANGED vars
    <2>1. UNCHANGED << strength, needsUpdate, removed, oldStrength, isFirstTime, vetoed, pc, todo,
                       secondaryPoweredList, comp, asked, reading, executor, given, meddled, due >>
      BY <1>6 DEF vars, circuitVars, turnVars
    <2>2. TypeOK'
      BY <2>1 DEF IInv, TypeOK
    <2>3. \A d \in Components \ removed' : Accounted(d)'
      BY <2>1 DEF IInv, Accounted, In
    <2>4. AsksTruly' /\ TellsTruly' /\ Rests' /\ DueAhead' /\ SecondariesLast'
      BY <2>1 DEF IInv, AsksTruly, TellsTruly, Rests, DueAhead, SecondariesLast, In
    <2> QED  BY <2>2, <2>3, <2>4 DEF IInv
  <1> QED  BY <1>1, <1>2, <1>3, <1>4, <1>5, <1>6 DEF Next

LEMMA Inductive == Spec => []IInv
  BY InitIInv, NextKeeps, PTL DEF Spec

\* Whatever the circuit does under the loop, only secondary powered components
\* wait for the second loop, and an event has a strength.
THEOREM TypeCorrect == Spec => []TypeOK
  <1>1. IInv => TypeOK
    BY DEF IInv
  <1> QED  BY <1>1, Inductive, PTL

\* No change of the circuit is lost, whichever callback it comes in: when the
\* hook rests, a component without a mark has the strength its block was last
\* updated to, unless that was vetoed or it has none.
THEOREM NoChangeIsLost == Spec => []ChangesArrive
  <1>1. IInv => ChangesArrive
    BY DEF IInv, ChangesArrive, Accounted, Rests, In
  <1> QED  BY <1>1, Inductive, PTL

\* A block is told of a strength only after its listeners, in either loop.
THEOREM AsksFirst == Spec => []BlocksAskFirst
  <1>1. IInv => BlocksAskFirst
    BY DEF IInv, BlocksAskFirst, TellsTruly
  <1> QED  BY <1>1, Inductive, PTL

\* After is published of an update that has taken place: the component is left
\* with the strength After carries and with its first time behind it, and its
\* block has been told that strength if it has an executor for redstone, unless
\* a listener or the circuit has changed it since Before.
THEOREM AfterIsTrue == Spec => []AfterTellsTheUpdate
  <1>1. IInv => AfterTellsTheUpdate
    BY DEF IInv, AfterTellsTheUpdate, TellsTruly
  <1> QED  BY <1>1, Inductive, PTL

\* For any chunk a secondary powered component is served when every other one
\* that was marked as the pass began has been, or is gone.
THEOREM SecondariesComeLast == Spec => []SecondariesLast
  <1>1. IInv => SecondariesLast
    BY DEF IInv
  <1> QED  BY <1>1, Inductive, PTL

=============================================================================
