# iListenAttentively in TLA+

iListenAttentively (ILA) is a library mod for a Minecraft Bedrock server under
LeviLamina. It detours engine functions with hooks and turns their calls into
events on LeviLamina's event bus: a *Before* event that listeners may change or
cancel, and an *After* event for what has happened. This directory models the
parts of it in which order, nesting and lifetime matter, checks them with TLC
and proves with TLAPS, for every size, what the checks show on small instances. Paths are relative to the repository.

## 1. The system

| Part | State it keeps | Operations | Talks to |
|---|---|---|---|
| Emitters (`src/ila/base/Gloabl.h`, end of each event file) | per event id an emitter object; per hook class a count and the detour, in `HookRegistrar` | bus: add / remove listener; factory, constructor, destructor | bus builds and destroys; hooks are shared by the Before and After events of a file, and by all packet ids of a file |
| Hooks of one event (about 60 `LL_*_HOOK` bodies) | the event object, its cancel flag | test, publish Before, veto, origin, test, undo, publish After | engine calls in, listeners are called back |
| PlayerCloseContainer (`.../player/PlayerCloseContainerEvent.cpp`) | `mListeners`; lambdas in the tick queue | deferred subscription, relay, removal | `nextTick`, the bus, SendPacket |
| Explosion (`world/ExplosionEvent.cpp`) | one global `mBeforeEvent`; two lists swapped | two hooks, one inside the other's origin | engine, listeners |
| MoneyChange (`legacyMoney/MoneyChangeEvent.cpp`) | static `isRealTrans` | four hooks that call into each other | LegacyMoney, listeners |
| Packets (`server/{Send,SendMultiple,Receive}Packet*`) | none | publish under two ids, receive pipeline | bus, relays |
| Structure events (`levelgen/StructureFeatureChunkEventHooks.cpp`) | `gRegisteredIdentifiers` under a mutex | publish, register typed id, publish typed | bus, generation threads |
| ServerPong (`server/ServerPongEvent.cpp`) | thread-local socket | parse, publish, rewrite, send, over three transports | RakNet, NetherNet, HTTP |
| Redstone (`world/RedstoneUpdateEvent.cpp`) | circuit components | a copy of the engine's update loop | engine, listeners |
| Mobs place / take blocks (`actor/Mob{Place,Take}BlockEvent.cpp`) | none | a copy of the goal's tick | engine, listeners |
| Biome decoration (`levelgen/BiomeDecorationSystemEvent.cpp`) | none | hooks that no emitter installs | - |
| LeviAntiCheat relays (`leviAntiCheat/`) | `mListeners` | relay and hand back the flag | upstream mod |
| NBT form and values of events | references to the arguments of the hooked call, some to variables of the hook | serialize, deserialize, the call of origin | listeners, script engines, the engine |
| Plugin, logging, build, tests | none | logo, formatter | - |

**What is hard here.** There is one server thread, so the hazards are not data
races first of all but *reentrancy*: a listener runs in the middle of a hook and
may do anything, including what calls the same hook again, subscribes, or
unsubscribes. State that lives longer than a call (`isRealTrans`,
`mBeforeEvent`, the count of a hook, `mListeners`) is read after a callback that
may have changed it. Then *lifetime*: emitters come and go with listeners, also
half way through a call, and a lambda handed to `nextTick` outlives its emitter.
Then *order*: some hooks let the engine act before they ask, and have to take
back what it did. Then *failure*: the engine refuses, or throws.
Then *values*: an event is a bundle of references into the call, and every
listener, native or script, writes them through a path of its own.
`PROJECT.json` lists each hazard at its line, with the properties that cover it;
where the code falls to a hazard and the case is exempt from them, it has none and
its note names the exemption.

**What makes each part correct.** Emitters: a function is detoured whenever an
event made from it has a served listener, and not when none has. Hooks: a vetoed
call leaves nothing done, After follows what was done and nothing else, nothing
is done unannounced, and only a listener stops a call. Relay: one relay while
somebody listens, none after, one publication per packet. Explosion: listeners
are asked about the explosion that starts, and their answer and its block list
go to that one. Money: one movement of money is announced once. Values: the
engine is called with what was written last, and After tells what it was called
with. Typed events: who listens hears a call once, under whichever id.

## 2. Modules

Each `MCx.tla` instantiates `x.tla` for TLC with the `.cfg` of its name.

**Interception.tla** - the abstract promise of the emitters: events `served`,
functions `detoured`, no counting. A detour is removed only when no served event
needs it.

**Emitters.tla** - the counted implementation. `listeners`, `emitter` (how far an
emitter's constructor or destructor has got), `registered` and `temporary` (hooks
held by the emitter and by a temporary registrar), `hookCount` and `hooked` (kept
by `HookRegistrar`). Two styles: the macro `Event_Hook_Factory` keeps the
registrar as a member; the packet and structure emitters write
`HookRegistrar<...>().hook()` and `.unhook()`, a temporary whose own constructor
hooks and whose destructor unhooks. So their constructor counts +1 (temporary),
+1 (`hook()`), -1 (end of temporary), and their destructor +1, -1, -1. One action
is one counter step on one hook; `AddListener` and `RemoveListener` are the bus,
which is locked while a factory or a destructor runs (`BusFree`). The registrar
and the bus belong to LeviLamina and are external: they are modelled from how
the code uses them.

**\*Proofs.tla** - theorems about the module of the same name (HookAndRelayProofs:
about CloseContainerRelay and HookFlow, whose specification is therefore called
`HookSpec`), in section 5.

**CloseContainerRelay.tla** - `Subscribe` builds the emitter, whose constructor
only calls `nextTick`; `Tick` runs the oldest lambda, which adds the relay to the
packet event and records it in `mListeners`; `Unsubscribe` by the last subscriber
runs the destructor of `Event_Listener_Factory`. If the emitter is gone the
lambda writes through a dangling `this`: the write is lost, ends the server, or
lands in an emitter allocated at the same address (`TickDangling`; `dangled`
remembers it). `SendClose` starts a packet, `Relay` lets one relay publish, and
listeners may come and go between relays; that a listener sends a close packet
itself, so that one is published inside another, is left out. Before and After have separate
emitters of this shape; one is modelled.

**HookFlow.tla** - 58 hooks, each written as its sequence of steps, and a machine
that runs one call after the other. A step is one action; the names are explained
at the head of the module. Listeners set the flag to either value at every
publication; the engine does the work or refuses (`Origin`); in a
function-try-block it may throw (`Rescue`); a pong whose length the hook
gets wrong, or which listeners have made too long, is sent as it came (`Fits`); a
look-up of the hook itself may throw out of it (`Found`). The two sides of a sign
are announced on their own, before (`Side`) and after (`AfterSide`); `edited` and
`followed` are the sides announced so far. What a listener can change in an event is the
subject of EventValues; of code that a hook copies from the engine only what it
decides is kept. ArmorStandSwapItem defers its After into the callback
of the interaction; it is run at once here.

**EventValues.tla** - one row per event for what `deserialize` reads, in which
order and how, and what the hook makes of it; the fields of a row are explained
at the head of the module. One machine runs any row. `cells` is what the
references of the event refer to; `NativeEdit` and `NativeCancel` write through
them; `ScriptOpen` serializes the event into `tag`, the script edits it or puts
in what cannot be read (`ScriptEdit`, `ScriptSpoil`, ...), and `ScriptClose`
deserializes it, stopping at the first key that throws. A key that is `optional`
may be missing (`ScriptRemove`): it is then reset, and what follows is read. `Pass` gives the engine
its arguments (`got`), `FallBack` the original ones, `Refuse` nothing; `After`
makes the After event (`told`). `wish` and `veto` remember what was written
last. A value is only told apart by which edit wrote it (`Own`, an edit's
number, or `Other`), and `Own` is what a call came with. Most references are to
what the call passed; of what the engine keeps behind such a reference nothing is
known here. Where the code shows that a reference outlives the call, what was
written is there in the next one (`kept`): a static of the hook, the flag of a
redstone component, and the position in the circuit's list, which the second loop
over it has copied, so that the two loops are two rows. `lent` is a list that
After reads from where the hook has taken it out again. A row has the keys deserialize reads, and those of an
argument put together again that the event does not show (`carried`); keys that
are only shown, and references that only native listeners can write, are left
out, as are the nested keys of a list or a position: they are read piece by
piece, and a throw may leave them half read (`Halved`). For a relay of
LeviAntiCheat the hooked call is the upstream event, whose flag may already be
up. MobHurtEffect tells After ahead of the engine call; the order is that of
HookFlow, the values are the same.

**TypedEvents.tla** - the events published under two ids. A behaviour is about
one of three families: structures, sent packets (one packet to one or to many:
the two hooks have the same steps) and received packets. A call is a record per
thread, and moves along the `Flow` of its family: publish under the generic id
(`AskAny`), `Register` the typed one (structures), publish under it
(`AskTyped`), `Veto`, `Handle`, After twice, `Return`. The five steps of
`Receive` are the way a received packet takes before it becomes an event, each
with its refusals. `factories` counts how often the factory of an id was set,
`early` are listeners that came before it; while any id of the family has an
emitter, the hook is in. `heard` and `handled` are counted per call, `present`
are the ids whose listener was there from its beginning.

**Explosion.tla** - `stack` of explosions under way, `progress` of each, the slot
(`slotOf`, `slotCancelled`), and where the block lists are (`affected`,
`message`). Explosions start from anywhere, also inside origin and inside
publish; `Install` and `Remove` let the hooks come and go at any time.
`disturbed` names the explosions that were overtaken before their answer was
read, or asked about without having been seen by `explode`; for these the code
promises no more than that their lists come back, and not always that: `mixed`
has those whose event was replaced while lists were lent, and those that met a
slot whose explosion is gone. What the swap then finds is what is left in that
memory, or a later explosion that lies there, or the end of the server
(`UseStaleSlot`). A listener puts the flag up and down; in the event of an
overtaken explosion that may or may not reach the slot (`Cancel`).

**MoneyChange.tla** - `stack` of calls of Add, Reduce, Set and Trans with their
step, and `isRealTrans`. `Call` is a mod that calls from nowhere, from a
listener or from inside an origin; `InnerTrans` is LegacyMoney's own transfer.
`reentered` marks a change inside whose origin money was moved by somebody else,
`threw` an exception that left the flag false.

**Redstone.tla** - the circuit (`strength`, `needsUpdate`, `oldStrength`,
`isFirstTime`, `removed`) and the copied `updateBlocks` with its two loops
(`todo`, `secondaryPoweredList`). `Visit` and `VisitSecondary` take the next
component and run `processComponent` up to its first callback. `Update` is the
update of one component: the block at its position may be of a type that has no
executor for redstone (`found`, remembered in `executor`), and is then told
nothing (RedstoneUpdateEvent.cpp:95). `Answer`,
`Dispatched` and `Reported` are the returns of the Before event, of the block's
executor and of the After event. In these callbacks, and between passes,
`Evaluate` gives a component another strength and marks it, and `RemoveComponent`
takes it away. A component without a strength loses its mark and is not served;
one that is removed while it waits in the secondary list is still served
(RedstoneUpdateEvent.cpp:187). The first loop walks the list as it is when the
pass begins; the code walks the live list (:176). A removal only sets `mRemoved`,
which the loop tests; that the engine changes the list itself only between passes
is assumed. `vetoed` remembers the components whose last
update was cancelled, `meddled` that strength or event of the component being
served has been changed meanwhile, `due` which primary components the pass owes.

**MobBlocks.tla** - one column of blocks, the mob's hand and its position. A tick
draws a target, tests it and asks (`PlaceTick`, `TakeTick`); `PlaceAnswer`,
`TakeAnswer` and `GriefAnswer` are the returns of the callbacks and what the hook
then does. In between, `Move` is a listener that writes the event's position,
which is the hook's own `targetPos`, and `Change`, `Equip` and `Walk` are
everybody else. `disturbed` says that what the hook tested is no longer so.
That a mob whose hand is full does not take is the engine's `canUse`, and assumed.
`mValidBlocks`, line of sight and `mayPlace` only keep a tick from happening and
are left out, and so is what follows the change (game event, trigger, After).

## 3. Runs

| Run | Checks | Bounds, and why they are enough |
|---|---|---|
| `emitters` | TypeOK, CountExact, ListenersHeard, NothingLeftHooked, SubscriptionTakesEffect, ImplementsInterception | 5 events over 5 hooks: two members sharing two hooks, two temporaries sharing one, one temporary over two; 2 listeners, so an event can gain and lose a listener without touching its emitter. The proofs cover every other size. |
| `relay` | TypeOK, Settled, HeardOnce, RelayComes | 2 subscribers, `MaxEmitters` = 4: an emitter that dies before its tick, one that meets its lambda, and two that behave. |
| `hookflow` | HookTypeOK, VetoDenies, EffectAnnounced, OnlyVetoStops, AfterFollowsEffect | none: a call has at most eight steps, and the sides of a sign are two. |
| `money` | TypeOK, FlagMirrorsCalls, AnnouncedOnce | `MaxDepth` = 4: a change, its inner Trans, a change made meanwhile and its inner Trans. Add and Set stand for the three hooks with one body. |
| `explosion` | TypeOK, AskedAboutItself, ListsReturned, VetoIsItsOwn, CrashNeedsDisturbance | 3 explosions, each exploding once: before, overtaken, inside; or one that lends its list to two others. |
| `redstone` | TypeOK, ChangesArrive, BlocksAskFirst, AfterTellsTheUpdate, SecondariesLast | two components: a secondary powered one that is met first and has to wait for a primary one, which ignores its first update; two strengths and none, so that either can change while the other is processed. |
| `mobblocks` | TypeOK, BlocksConserved, PlacesOnGround, TakesWhatWasThere | `Height` = 2: a block, one above it, one to move to; a solid kind and one that is not; goals that place what the mob carries and goals that draw a block; range 0 to 1, which the hook gets right. |
| `values` | TypeOK, WishGranted, VetoHeard, RoundTrip, TruthTold | `MaxEdits` = 2: an edit and a later one, of one key or of two, by a native listener and a script or by two scripts; or an edit and a key that is broken. Vetoes, looks and calls are not bounded. |
| `packets` | TypeOK, HeardOnce, HandledOnce | two threads and two structures, so that both come upon the same new one; one thread for packets, which the server sends and receives on one; a packet with a name and one without. |
| `moboffset` | OffsetInRange, violated | as `mobblocks`, with a range of 2 to 3. |
| `firework`, `login` | one property each, violated | as `hookflow`, without the exemption. |

**Emitters.** `CountExact` is the accounting identity, in every intermediate
state of every constructor and destructor. `ListenersHeard` says that an emitter
being built or destroyed never makes a neighbour deaf; `NothingLeftHooked` that
the temporaries leave no count behind; `ImplementsInterception` that, seen
without counts, only allowed detours and releases happen.

**Relay.** `Settled`: at rest whoever listens has a relay, and the emitter knows of
it; also after a lambda has written through a destroyed emitter. Without such a
lambda it is the only relay, and there is none when nobody listens. `HeardOnce`:
a subscriber that was there and stayed hears a packet, dangling lambda or not;
none hears it twice, unless there was one (the relay it has added is known to no
emitter, is never removed, and publishes beside the live one). `RelayComes`:
nobody stays deaf.

**HookFlow.** Hooks the code does not let keep a property are exempt by name, so
that the exemption can be read: `Unread` (ActorPickupItem publishes Before a
second time and ignores the answer), `Early` (ActorPickupItem and MobHurtEffect
publish After before the engine acts), `threw` (a veto is lost in a catch block),
and, as constants, `Silent` and `Closed` for the two findings. `Closed` has also
InventoryDrop: PlayerDropItemEvent.cpp:59 looks the inventory up with `at`, which
throws when the transaction has no action on it, and the call is lost without a
veto. Of a sign, `EffectAnnounced` says that the sides announced after are those
that were announced before. `Silent` has also
two of the pongs: the NetherNet one sends the original and publishes no After
when what listeners made of it is too long, and the RakNet one is sent
unannounced when the low byte of its length is 128 or more, since
ServerPongEvent.cpp:181 puts the length together from signed characters.

**EventValues.** `WishGranted`: the engine gets what was written last; a key a
script has made unreadable costs itself and the keys after it, never those
before it. `VetoHeard`: a call is refused exactly if the last word was a veto,
also when the rest of the tag throws. `RoundTrip`: a script that changes nothing
changes nothing. `TruthTold`: Before shows what the function was called with,
After what the engine got. Where the code does not keep them, event or key is
exempt by name at the end of `EventValues` (`Lost`, `Deaf`, `OneWay`,
`Misshown`); taking any one element away makes the run fail. The exemptions:

| Exempt | Because |
|---|---|
| PistonPush (`Lost`, `OneWay`) | PistonPushEvent.cpp:18 reads the list `pushPos` as a number: deserialize always throws there, with the flag read and nothing else |
| MossGrowthResult (`Lost`, `OneWay`) | MossGrowthEvent.cpp:33 reads `targetPoss`, line 29 writes `targetPos`: deserialize of the After event always throws |
| DeathMessage `params` (`Lost`, `OneWay`) | DeathMessageEvent.cpp:31 appends to the list |
| PlayerRequestItemAction: `isDstSerialized`, `isAmountSerialized` (`Lost`, `Misshown`), the event (`Deaf`) | line 135 passes one field twice; line 40 calls `PlayerEvent::deserialize`, which does not read the flag |
| SendPacket (`Deaf`) | SendPacketEvent.cpp:12-20 neither writes nor reads the flag: a script cannot veto a packet |
| SendMultiplePacket, FireworkRocketDealDamage (`OneWay`) | the flag is not written and, by the inherited deserialize, read: the exception of a key that is missing |
| PlayerCheat, PlayerBanWave, SusClient (`Deaf`, `OneWay`) | the relay hands back the flag of its own event, whatever the upstream one's was; the flag is read and not written |
| PlayerCheat `cheatType` (`Misshown`) | PlayerCheatEvent.cpp:27 casts one enumeration to another |
| MoneyChange `from` (`Lost`, `Misshown`) | MoneyChangeEvent.cpp:46: a static string that the engine never gets and that keeps what was written |
| SculkSpread `selfFace`, `facing`; ObserverPulse; RedstoneUpdate and RedstoneSecondary `strength`; ArmorStandSwapItem `slot`; ActorChangeDimension; VillageFeatureConstruction `seed`; guid, ports and `others` of the NetherNet and HTTP pongs (`Lost`, most `Misshown`) | the reference is to a variable of the hook that the engine does not see, or has seen already |
| RakNet `edition`, `gameModeId`, `reserved` (`Lost`) | ServerPongEvent.cpp:234 puts constants in their place |
| RedstoneUpdate and RedstoneSecondary `isFirstTime`, MobHealthChange `newValue` (`Misshown`) | After shows what the engine has made of it |
| RedstoneUpdate `pos` (`Misshown`) | RedstoneUpdateEvent.cpp:160 casts away the const of the position in the circuit's own list (:176, :182): what was written is what the next Before shows |
| Explosion `affectedBlocks` (`Misshown`) | ExplosionEvent.cpp:137 has swapped what listeners wrote out of the explosion again, and After (:120) reads it there: it tells that list only if the engine has put it back |

**TypedEvents.** `HeardOnce`: a listener that is there for the whole call, and
whose id had its factory when it came, hears a call of its type once before and
once after, nothing of other types, and also hears of a call a listener of the
other id has vetoed; nothing goes past it unhooked. A packet without a name is
published twice under the one id (`Unnamed`), so only "at least once" is stated
for it. `HandledOnce`: hook and engine together handle a call once, and not at
all after a veto or a refusal, whichever of the seven ways it ends.

**Redstone.** `ChangesArrive`: the mark of a component is cleared before its
update runs, so a change made by a callback of that very update marks it again;
a pass that ends leaves no component unmarked with a strength it was not updated
to, unless vetoed or without a strength. `BlocksAskFirst`: no block is told of a
strength the listeners were not asked about. `AfterTellsTheUpdate`: what After
says has taken place has taken place - the component is left with the strength
After carries and with its first time behind it, and its block was told that
strength, unless it has no executor - as long as no listener and no change of the
circuit has come between (`meddled`). That After always says it was not the first
time is so stated as the code has it; no doc says what it should be.
`SecondariesLast`: no secondary powered
component is served while a primary one that was marked at the start of the pass
is still to come.

**Explosion.** For an explosion nobody disturbed, the listeners are asked about it
(`AskedAboutItself`) and their answer is its own (`VetoIsItsOwn`); only the others
crash (`CrashNeedsDisturbance`). `ListsReturned` is about them too: whoever goes
on does so with its own lists, unless `mixed`, or unless it has the slot and its
list is lent at that very moment to one that publishes under its event.

**MobBlocks.** Between hand and world a tick neither makes nor loses a block
(`BlocksConserved`), places only on solid ground and over air (`PlacesOnGround`)
and carries away what it removes (`TakesWhatWasThere`), as long as nothing it
tested has changed (`disturbed`). With a listener that moves the position all
three are lost: the copied tick does not test again.

**Deadlock** is checked except in `relay` (emitters are bounded, a crash stops
the server) and `explosion` (every explosion explodes once; a crash). A money
stack and a hook call can always go on.

**Fairness.** `emitters`: weak fairness of each emitter's own steps - a
constructor or destructor is straight-line code that waits for nobody. `relay`:
weak fairness of `Tick` - the server thread's executor runs what is handed to it.
The other specifications have no fairness and no liveness property.

**Mutants.** Every property is shown to bite: `PROJECT.json` names, for each
property of each passing run, a mutation of a mapped definition (a release
without a count, a forgotten `nextTick`, a flag set only on success, ...), kept
beside the original in its module, under which TLC finds the property violated.

## 4. Findings

* `firework` - FireworkRocketDealDamageEvent.cpp:56 returns ahead of the
  publication of the After event in line 57. A rocket's damage is dealt and
  announced, and the After event, for which line 62 registers an emitter and
  which CHANGELOG.md:228 announces, never comes (`EffectAnnounced`).
* `login` - ClientLoginEvent.cpp:65 tests `isCancelled() || true`: every login is
  refused, and ClientLoginAfterEvent (CHANGELOG.md:168) is never published
  (`OnlyVetoStops`).

* `moboffset` - MobPlaceBlockEvent.cpp:87 adds `min < max && nextInt(...)`, a
  truth value, where the engine's tick, recorded in
  src-fakes/PlaceBlockGoal__tick.cpp:35-37, adds the lower end and a number
  drawn from the span: the mob places 0 or 1 away, whatever the range of its
  goal (`OffsetInRange`). MobTakeBlockEvent.cpp:52 has the same expression.

Met while modelling, and visible as named exemptions: the table of `values`
above, a look-up that throws where nobody has vetoed (InventoryDrop in `Closed`),
the typed id shared by packets without a name (`Unnamed`), a listener of a
structure type that comes before the first structure of it (`early`), the
dangling `this` in `nextTick` (`dangled`), the flag left false by an exception (`threw`) or turned
on inside an outer change (`reentered`), the explosion slot used by an explosion
that it is not about (`disturbed`).

## 5. Proofs

Eight modules hold theorems; all are checked by TLAPS to the last leaf. Each
proves an inductive invariant `IInv` (`RelayInv` and `HookInv` in the module that
has two; `Lent` besides it for the explosions): one lemma for the initial states,
one per action or group of actions, one for the next-state relation. TLC has
checked it on the instance of the run before it was proved, and the theorems
follow from it.

| Module | Theorems: `Spec =>` | For any | Assuming |
|---|---|---|---|
| EmittersProofs | `[]TypeOK`, `[]CountExact`, `[]ListenersHeard`, `[]NothingLeftHooked`, `ImplementsInterception` | events, hooks, listeners | events are finitely many, each is made from at least one hook |
| HookAndRelayProofs (relay) | `[]TypeOK`, `[]Settled`, `[]HeardOnce` | subscribers, emitters | subscribers are finitely many |
| HookAndRelayProofs (hooks, `HookSpec =>`) | `[]HookTypeOK`, `[]VetoDenies`, `AfterFollowsEffect` | all 58 hooks | nothing |
| | `[]EffectAnnounced` | all 58 hooks | the three hooks of `Quiet` are in `Silent`: the rocket of the finding, and two pongs |
| | `[]OnlyVetoStops` | all 58 hooks | the two hooks of `Shut` are in `Closed`: ClientLogin of the finding, and InventoryDrop, whose look-up may throw |
| MoneyChangeProofs | `[]TypeOK`, `[]FlagMirrorsCalls`, `[]AnnouncedOnce` | hooks with the body of Add, depth | Trans is not one of them |
| ExplosionProofs | `[]TypeOK`, `[]AskedAboutItself`, `[]ListsReturned`, `[]VetoIsItsOwn`, `[]CrashNeedsDisturbance` | explosions | none is `None` |
| TypedEventsProofs | `[]TypeOK`, `[]HeardOnce`, `[]HandledOnce` | threads, types, packets without a name | "any", the second half of the ids that name no type, is no type |
| RedstoneProofs | `[]TypeOK`, `[]ChangesArrive`, `[]BlocksAskFirst`, `[]AfterTellsTheUpdate`, `[]SecondariesLast` | circuit, order, strengths | the order is a list that has every component (RedstoneUpdateEvent.cpp walks `mComponents`, the list of all of them); the strengths have 0, the initial old strength |
| MobBlocksProofs | `[]TypeOK`, `BlocksConserved`, `PlacesOnGround`, `TakesWhatWasThere` | column, blocks, ranges | `Air` is no kind of block |
| EventValuesProofs | `[]TypeOK`, `[]WishGranted`, `[]VetoHeard`, `RoundTrip`, `TruthTold` | number of edits; all 68 rows of the table | `MaxEdits` is a number |

The assumptions are the `ASSUME`s of the modules, and TLC evaluates them in every
run. The invariants, and why the properties need them:

**Emitters.** `CountExact` is not inductive by itself: a step that releases a
hook has to know that the registrar held it, and the last step of a walk that
nothing is left of it. `IInv` adds `Walks` - what each stage of an emitter
implies of its `registered` and `temporary` sets - and `Kept` - that an emitter
exists or is being built exactly while its event has listeners. The lemmas
`OneMore` and `OneLess` count holders (a set of events gains or loses one
element), `HookExact` and `UnhookExact` carry the count over one registrar step,
and one `...Keeps` lemma per action preserves `IInv`. `Heard` follows because a
holder is counted and a count means a detour (`HeldIsHooked`); `LeftClean`
because at rest an event without listeners holds nothing. For `Refinement`,
`HookRefines` shows that a hook is never detoured while a served event uses it
undetoured, and `UnhookRefines` that the count reaching zero means the releasing
emitter was the last holder, so no served event uses the hook.

**Relay.** `Settled` speaks of moments at rest. `Waiting` says what is so in
between: while the live emitter does not know of its relay, its lambda waits in
the queue. `HeardOnce` needs `Promised`: who is due has heard, or the emitter's
relay is still publishing the packet and has not been removed. Both hold whatever
a lambda does to a destroyed emitter, since it never takes a relay away. What is
so only until then (`~dangled`) is that the emitter knows of every relay there is
(`Connected`), and that one relay has the packet and nobody has heard of it before
(`Delivery`).

**HookFlow.** The table enters through one lemma, `FlowsOK`: the sequence of each
of the 58 hooks has `FlowOK`. That is a condition on the order of its steps, not on
what they do: it publishes at most twice before and at most twice after, a side of a sign
before and then after (`Formed`);
between asking and heeding the answer it does nothing but call the engine, and if
it does call it, takes back what the engine did (`Heeds`); After comes behind the
engine call and its test (`Concludes`); nothing leaves a call the engine has acted
in, and each side has its After (`Announces`); and the engine is reached (`Reaches`). A hook that is exempt from
a property is exempt from the condition it rests on, and from no other. The
machine is then proved about any sequence with `FlowOK`. `Running` says what the
steps behind a call imply of `effect`, `told`, `reported` and the flag - a flag
that is up has just been put up and the step that reads it is ahead -, with
`SignRunning` for the sides, `Over` the
same of a call that has returned. So a hook that is added to the table is proved
by showing `FlowOK` of its row.

**MoneyChange.** A flag of one bit is set and reset by a stack of any depth. It is
right because an undisturbed change is on top of the stack, or has only its own
unpublished Trans above it, and the flag is false for it (`Innermost`); that the
Trans above it is its own is `Seated`. `FrameOK` ties what a call has told to its
step. Everybody further down was reentered.

**Explosion.** `SoundStage` says what an explosion that was not overtaken finds in
the slot and in its lists at each stage. That nobody else has written there needs
to know where the others are: an undecided undisturbed one is the innermost
(`PendingOnTop`), nobody seen by the hooks is inside the one that has the slot
(`SlotOrder`), what has not begun is untouched (`Untouched`), and the stack has
everyone under way exactly once (`Stacked`). `CrashedUnsound` carries the last
theorem. `NoneLost` says that no list disappears between two owners. For the lists
of the disturbed, `Lent` follows them: those who publish under one event form a
chain up the stack, the first with the list of the explosion in the slot, each
later one with that of the one before, and the explosion with that of the last
(`FirstLink`, `Links`, `LastLink`); everybody else has their own (`AtHome`).
Sending appends a link and answering takes the last one off, which is the one on
top of the stack, because whoever lends is inside the explosion in the slot and
nobody mixed up is (`Inside`).

**TypedEvents.** The hooks are straight lines, so the invariant speaks of the
steps behind a call (`Reached`, `Behind`): who has been published to, whether the
veto has been passed, whether it was handled (`Followed`). Listeners come and go
at every step; a listener that is `present` and not `early` keeps the id's emitter
(`BusOK`), and so the hook. The three flows enter only through the numbers of
their steps (`StepOrder`, `StepNumbers`).

**Redstone.** `ChangesArrive` is about the end of a pass; in the middle of it a
component that has lost its mark has been updated, or its listeners are being
asked, or it waits in the secondary list (`Accounted`). `SecondariesLast` is
inductive with `DueAhead`: what is due is ahead in the first loop. `AsksTruly` and
`TellsTruly` follow a strength from the circuit to Before, block and After, with
and without an executor.

**MobBlocks.** None of the three action properties follows from the types: what
the hook tested before it asked must still be so when it is answered
(`StillTested`), unless somebody has disturbed it. Conservation counts the blocks
of the column, which changes by one element.

**EventValues.** The table enters through one lemma, `TableOK`: every row has
`RowOK`, that is, it is well formed and keeps what its event is not exempt from.
Most rows are `Plain`; the others are in `OddRows`, and for the pongs it is shown
that the argument put together again has each value in its own place. The machine
is then proved about any row with `RowOK`. `Latest` and `Remembered` say that the
last word on a key or on the flag is in the event, or in the tag while a script
has it; `TagOK` that what a tag cannot be read from has been spoiled; `OneValue`
that keys with one reference agree. `WhereItStops` says at which key `deserialize`
gives up, `WhatIsRead` what it has written by then. `HasMin`, the least element of
a set of numbers, comes from the well-foundedness of the subsets of a finite set.

**Only model-checked.** `SubscriptionTakesEffect` and `RelayComes`: liveness under
fairness is out of the prover's reach. Every other property of a passing run is proved.

## 6. Not modelled

Biome decoration: its four hooks (before, veto, origin) are in the code and
CHANGELOG.md:157 announces their events, but no emitter names them, so nothing
ever installs them and no behaviour contains them. Plugin lifecycle and log
formatting (no state that matters), build and packaging. Of a pong, its bytes:
lengths, hexadecimal and decimal digits only decide whether it is taken to pieces
at all (`applies`, `fits`); of the HTTP connection, the socket kept per thread (:541), from
which only the addresses shown come. What the bus does to a LeviAntiCheat
emitter that adds a listener from its constructor: that belongs to code that is
not here. The rocket that ticks, which FireworkRocketDealDamageEvent.cpp:34 keeps
in a global, is part of what makes a call one the event is about (`applies`).

## 7. Plan

1. Done: Interception, Emitters, CloseContainerRelay, HookFlow, MoneyChange,
   Explosion, Redstone, MobBlocks, EventValues, TypedEvents, and the proofs of all
   of them, of what can be relied on after a dangling lambda and of an overtaken
   explosion too.
2. Left: which answer an overtaken explosion gets, where the theorems say nothing
   now.
