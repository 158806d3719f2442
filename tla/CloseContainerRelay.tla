------------------------ MODULE CloseContainerRelay ------------------------
(***************************************************************************)
(* PlayerCloseContainer has no hook of its own: its emitter is a relay, a  *)
(* listener on SendPacket<ContainerClosePacket> that publishes the event.  *)
(* The constructor may not add that listener itself, because the bus is    *)
(* building the emitter and is locked ("Prevent deadlock"), so it asks     *)
(* nextTick to do it and captures `this`.  The destructor removes what     *)
(* mListeners holds by then.                                               *)
(*                                                                         *)
(* A last subscriber that leaves before the tick leaves a lambda with a    *)
(* dangling `this`: undefined behaviour, modelled by what it can do.       *)
(***************************************************************************)
EXTENDS Integers, Sequences, FiniteSets

CONSTANTS
    Subscribers,    (* listeners of PlayerCloseContainer{Before,After}     *)
    MaxEmitters     (* bound: emitters built in a run                      *)

ASSUME RelayAssumption ==
    /\ IsFiniteSet(Subscribers)
    /\ MaxEmitters \in Nat

VARIABLES
    subscribers,    (* who listens to the event now                        *)
    emitter,        (* the live emitter, or NoEmitter                      *)
    built,          (* how many emitters were built; the last one's name   *)
    mListeners,     (* relays the live emitter will remove                 *)
    ticks,          (* emitters whose nextTick lambda has not run, in order*)
    relays,         (* relays now on the packet event, by emitter          *)
    publishing,     (* relays the packet being sent has still to call      *)
    heard,          (* how often each subscriber has heard of this packet  *)
    due,            (* subscribers that have to hear of this packet        *)
    dangled,        (* some lambda has used a destroyed emitter            *)
    crashed         (* and that has ended the server                       *)

emitterVars == <<subscribers, emitter, built, mListeners, ticks, relays>>
packetVars == <<publishing, heard, due>>
vars == <<emitterVars, packetVars, dangled, crashed>>

NoEmitter == 0
Names == 1..MaxEmitters

Init ==
    /\ subscribers = {}
    /\ emitter = NoEmitter
    /\ built = 0
    /\ mListeners = {}
    /\ ticks = <<>>
    /\ relays = {}
    /\ publishing = {}
    /\ heard = [s \in Subscribers |-> 0]
    /\ due = {}
    /\ dangled = FALSE
    /\ crashed = FALSE

-----------------------------------------------------------------------------
(* Subscribing and leaving, from any callback of the server thread.        *)

\* Mutant: the constructor of the emitter forgets nextTick.
SubscribeNoTick(s) ==
    /\ ~crashed
    /\ s \notin subscribers
    /\ subscribers' = subscribers \union {s}
    /\ IF subscribers = {}
         THEN /\ built < MaxEmitters
              /\ built' = built + 1
              /\ emitter' = built + 1
         ELSE UNCHANGED <<built, emitter>>
    /\ UNCHANGED <<mListeners, ticks, relays, packetVars, dangled, crashed>>

\* The first subscriber builds the emitter, whose relay waits for the tick.
Subscribe(s) ==
    /\ ~crashed
    /\ s \notin subscribers
    /\ subscribers' = subscribers \union {s}
    /\ IF subscribers = {}
         THEN /\ built < MaxEmitters
              /\ built' = built + 1
              /\ emitter' = built + 1
              /\ ticks' = Append(ticks, built + 1)
         ELSE UNCHANGED <<built, emitter, ticks>>
    /\ UNCHANGED <<mListeners, relays, packetVars, dangled, crashed>>

\* Mutant: the destructor clears mListeners and removes nothing.
UnsubscribeLeavesRelay(s) ==
    /\ ~crashed
    /\ s \in subscribers
    /\ subscribers' = subscribers \ {s}
    /\ due' = due \ {s}
    /\ IF subscribers = {s}
         THEN emitter' = NoEmitter /\ mListeners' = {}
         ELSE UNCHANGED <<emitter, mListeners>>
    /\ UNCHANGED <<built, ticks, relays, publishing, heard, dangled, crashed>>

\* Mutant: the destructor removes the relays and does not clear mListeners.
UnsubscribeKeepsList(s) ==
    /\ ~crashed
    /\ s \in subscribers
    /\ subscribers' = subscribers \ {s}
    /\ due' = due \ {s}
    /\ IF subscribers = {s}
         THEN emitter' = NoEmitter /\ relays' = relays \ mListeners
         ELSE UNCHANGED <<emitter, relays>>
    /\ UNCHANGED <<built, mListeners, ticks, publishing, heard, dangled, crashed>>

\* The last one destroys the emitter, which removes the relays it knows of.
Unsubscribe(s) ==
    /\ ~crashed
    /\ s \in subscribers
    /\ subscribers' = subscribers \ {s}
    /\ due' = due \ {s}
    /\ IF subscribers = {s}
         THEN emitter' = NoEmitter /\ mListeners' = {} /\ relays' = relays \ mListeners
         ELSE UNCHANGED <<emitter, mListeners, relays>>
    /\ UNCHANGED <<built, ticks, publishing, heard, dangled, crashed>>

-----------------------------------------------------------------------------
(* The lambda of the oldest emitter runs: first emplaceListener on the bus,*)
(* then mListeners.emplace_back on whatever `this` points to.              *)

TickAlive ==
    /\ Head(ticks) = emitter
    /\ mListeners' = mListeners \union {Head(ticks)}
    /\ UNCHANGED <<dangled, crashed>>

\* The write goes to freed memory and is lost, corrupts the process, or
\* lands in the emitter that was allocated at the same address.
TickDangling ==
    /\ Head(ticks) # emitter
    /\ dangled' = TRUE
    /\ \/ UNCHANGED <<mListeners, crashed>>
       \/ crashed' = TRUE /\ UNCHANGED mListeners
       \/ /\ emitter # NoEmitter
          /\ mListeners' = mListeners \union {Head(ticks)}
          /\ UNCHANGED crashed

Tick ==
    /\ ~crashed
    /\ ticks # <<>>
    /\ ticks' = Tail(ticks)
    /\ relays' = relays \union {Head(ticks)}
    /\ TickAlive \/ TickDangling
    /\ UNCHANGED <<subscribers, emitter, built, packetVars>>

-----------------------------------------------------------------------------
(* The server sends a ContainerClosePacket.                                *)

\* The packet event calls the relays on the bus; a packet to a client with
\* no player is not relayed.
SendClose(toPlayer) ==
    /\ ~crashed
    /\ publishing = {}
    /\ relays # {}
    /\ publishing' = IF toPlayer THEN relays ELSE {}
    /\ due' = IF toPlayer /\ emitter \in relays THEN subscribers ELSE {}
    /\ heard' = [s \in Subscribers |-> 0]
    /\ UNCHANGED <<emitterVars, dangled, crashed>>

\* A relay publishes PlayerCloseContainer to whoever listens now.
Relay(r) ==
    /\ ~crashed
    /\ r \in publishing
    /\ publishing' = publishing \ {r}
    /\ heard' = [s \in Subscribers |-> heard[s] + (IF s \in subscribers THEN 1 ELSE 0)]
    /\ UNCHANGED <<emitterVars, due, dangled, crashed>>

\* The bus may pass over a relay removed since the packet event began.
SkipRemoved(r) ==
    /\ ~crashed
    /\ r \in publishing \ relays
    /\ publishing' = publishing \ {r}
    /\ UNCHANGED <<emitterVars, heard, due, dangled, crashed>>

-----------------------------------------------------------------------------

Next ==
    \/ \E s \in Subscribers : Subscribe(s) \/ Unsubscribe(s)
    \/ Tick
    \/ \E toPlayer \in BOOLEAN : SendClose(toPlayer)
    \/ \E r \in Names : Relay(r) \/ SkipRemoved(r)

Spec == Init /\ [][Next]_vars

\* The executor of the server thread runs every function handed to it.
FairSpec == Spec /\ WF_vars(Tick)

-----------------------------------------------------------------------------

TypeOK ==
    /\ subscribers \subseteq Subscribers
    /\ emitter \in Names \union {NoEmitter}
    /\ built \in 0..MaxEmitters
    /\ mListeners \subseteq relays
    /\ ticks \in Seq(Names)
    /\ relays \subseteq Names
    /\ publishing \subseteq Names
    /\ heard \in [Subscribers -> Nat]
    /\ due \subseteq subscribers
    /\ dangled \in BOOLEAN
    /\ crashed \in BOOLEAN

\* With no lambda waiting, the emitter of those who listen has its relay on the
\* packet event and knows of it.  With none having met a destroyed emitter, that
\* is the only relay, and without listeners there is none.
Settled ==
    ticks = <<>> =>
        /\ subscribers # {} => emitter \in mListeners
        /\ ~dangled => relays = IF subscribers = {} THEN {} ELSE {emitter}

\* A subscriber that listened before a close packet, with the relay in place,
\* and that stayed, hears of it, whatever a lambda has done to a destroyed
\* emitter; nobody hears of it twice, unless one has.
HeardOnce ==
    \A s \in Subscribers :
        /\ s \in due /\ publishing = {} => heard[s] >= 1
        /\ ~dangled => heard[s] <= 1

\* Nobody who keeps listening stays deaf: the tick puts the relay in place.
RelayComes ==
    subscribers # {} ~> (emitter \in relays \/ subscribers = {} \/ crashed)

=============================================================================
