# Verification of ungine7

TLA+ models of ungine7 (a Rust workspace for Ultima Online servers, proxies and clients), the TLC
configurations that check them, and theorems about them with proofs for TLAPS.  The models are translated
from the source; where a comment and the code disagree the code is what is modelled.

Run a check with `tlc -config <run>.cfg <module>` (PROJECT.json names the module of every run) and a proof
with `tlapm <module>.tla`.

1. [The system](#1-the-system)
2. [Modules and the code they stand for](#2-modules-and-the-code-they-stand-for)
3. [Runs](#3-runs)
4. [Fairness](#4-fairness)
5. [Proofs](#5-proofs)
6. [Where code and comments disagree](#6-where-code-and-comments-disagree)
7. [What is left out](#7-what-is-left-out)
8. [Plan](#8-plan)

## 1. The system

### 1.1 The two programs with the most behaviour

**demo-server** is a game server.  One tokio task per connection runs the session loop
(`game_session/session_loop.rs`); one task per map runs a `continuum::Worker` with that map's zone.  A session
asks the worker for everything by `EngineCommand`s over an mpsc channel and awaits the answer on a oneshot
channel; the worker tells sessions what happens by `WorldEvent`s over one bounded channel per observer.  Three
more kinds of task act on the same zones: the logout reaper with one timer task per character, the script
manager, and the tick of the worker itself, which runs the AI controllers.

**rpc-proxy** keeps one *headless* session with a game server and lets many clients come and go on it.  One
task (`run_headless_session`) owns the connection and all state; each client is a task of its own that talks to
it over a command channel and hears of it through a private sink and a broadcast channel.

Both are built from `framework`: *rythmos* (movement), *continuum* (zones and observers), *anima*
(controllers), *mitos* (scripts), *diorama* (what a client sees), *ecumene* (tiles), *moira* (accounts),
*vessel* (shapes).

### 1.2 Components

For each part: its state, its operations, whom it talks to, what is hard about it, and what makes it correct.

| Part | State | Operations | Hard | Correct when |
|---|---|---|---|---|
| **rythmos** `MoveArbiter` over `ActiveMover`/`PendingQueue` and `PositionTracker` | pending steps with their numbers and origins, next number, reset flag; position, heading, readiness | `on_client_move`, `on_server_ack`, `on_server_reject`, `apply_draw`, `reset`, `step` | numbers wrap from 255 to 1 and restart at 0 after a reset; answers are matched by number only; several clients share one character | numbers of pending steps are distinct; every client is shown the arbiter's position |
| **rpc-proxy: movement path** `headless.rs`, `PacedSender` | outbound queue with a pace, steps waiting for room, predicted position, resync flag, stall deadline | one branch of `select!` per event: client packet, client command, server packet, paced timer, stall timer | steps overtake, are answered late, never, or after a reset; client leaves meanwhile | each step of a client is answered exactly once and in order; arbiter, prediction and server end up in one place; a resync ends |
| **rpc-proxy: attachment** `virtual_client.rs`, `bootstrap.rs`, `registry.rs`, `managers/target.rs`, listeners | registry of sinks, observer of the world, pending target cursor and its owner | attach, detach, bootstrap, broadcast, target request/answer/cancel, dot commands | bootstrap, sink and subscription are three steps; two bounded channels that wait for each other | a client that attaches misses nothing; one client answers a target; nobody waits for ever |
| **continuum: worker and observers** `worker.rs`, `observer.rs`, `base_handler.rs` | command queue, event bus, registrations by 8×8 blocks, tick time | commands in batches, `post_command` routing, ticks with coalescing, `RegisterObserver`, `UpdateObserverView` | an event is routed by what the registry knows and shown by what the session knows; strips overtake the bus | a client ends up with the right picture |
| **continuum: zone and containers** `zone.rs`, `container.rs`, `item_props.rs` | entities, spatial index, containers with a reverse index, property maps | spawn, remove, update, move, transfer; add/move/consume items | the same fact is kept twice | index and store agree; an item is in one place |
| **demo-server: login, logout, worlds** `spawn.rs`, `infra.rs`, `logout.rs`, `transfer.rs`, `.save`/`--load` | character in a zone or the storage zone, marks in its `item_props`, record of the account, reaper's timers, two files | login in three cases, cleanup, reaper arm/cancel/expire, change of world, save, restart | many steps with awaits between them, over several zones; crash recovery | one character, found by every login, in storage when away |
| **anima** `ControllerHost`, `Scheduler` | controllers by serial, timers in a heap, cancelled ids, subscriptions | attach, detach, tick, events, commands; schedule, repeat, cancel, reassign | callbacks that attach, detach and cancel while timers fire | a timer fires at most once, and only for the controller that set it |
| **mitos** `ScriptManager`, watcher, Lua runtime | running scripts, file watchers, command queue | start, stop, reload | a reload queued by a watcher that was stopped | one script under a name, the last one started |
| **diorama** `SessionView`, `VisibleWorld`, `StalenessTracker`, bootstrap | mobiles and items seen, last-seen times | packet by packet; eviction; bootstrap for a new client | forgetting what is still there, keeping what is gone | a bootstrap shows what the observer shows |
| **ecumene** tiles, line of sight, movement rules, entity registry, `TileRect` | maps and overlays | step validation, sight, differences of views | geometry at the edge of the map | strips cover exactly what is new |
| **common: engine commands on items, death** `item_ops.rs`, `kill_ops.rs`, `game_session/items.rs` | items on the ground, in containers, worn, on a cursor; corpses with the layers of what was worn | pick up, drop, wear, consume, kill, resurrect | a session drops by several commands; stacks; the same fact in container and index | an item is in one place, and nothing comes from nothing |
| **common: serial allocator** `serial_alloc.rs` | free ranges of two kinds, a log, persistent serials, under one mutex | allocate, free, mark, snapshot, free since a snapshot, reset | scripts, sessions and all zones share it | a free serial belongs to nobody |
| **demo-server: spawn points** `spawn_points.rs`, `handler.rs` | living monsters and respawn deadlines of each point and spawner object, zones adopted | adopt, bootstrap, reap, respawn, delete | one manager for all zones, restores beside ticks | every place is one monster or one respawn |
| **common: other engine commands** | zones' entities | combat, magic, ships, snapshots | – | tests |
| **network** listener, relay, redirect; client connector | one pair of streams per session; keys of redirected logins | accept, relay both directions, redirect the login | half-closed relays; a redirect used twice or never | each direction in order, both end |
| **replay-proxy** `LogPlayer` | position in a log, speed, pause | play, pause, step, seek | a seek while a packet waits for its time | what is shown is the state at the position |
| **path-server, web-proxy, mirror-proxy, memory-proxy, clients, benchmark** | views for people | queries, relays | nothing that decides anything | – |
| **packets, macros, protocol, u-core, u-io, files, moira, vessel** | none, or one per stream | encoding, ciphers, file formats, traits | bytes | tests |

PROJECT.json lists these with their files and what is modelled of each, and, under `hazards`, the places of
the code where something can go wrong that a test would hardly reach.

### 1.3 How the parts meet

    client --0x02--> dispatch_c2s -> MoveArbiter -> PacedSender --> server
       ^                                 |                             |
       +----- ack / reject / draw -------+<---- 0x22 0x21 0x20 --------+        HeadlessMovement

    zone --event_tx--> worker: route --channel--> session: view --packets--> client
                          ^                          |
                          +---- commands ------------+                          Observation

    session --commands--> zones 0..253, 254 (storage) <--transfer-- reaper's timer
       |                                                               ^
       +-------------------- Arm / Cancel -----------------------------+        Logout

    worker --tick--> zones in turn: timers, controllers, damage, spawn points           Controllers, SpawnPoints
                          ^
    sessions, scripts, .save/.load --commands--+--serials--> allocator (one mutex)      Serials, Items

`HeadlessMovement` is about rpc-proxy, all others are about the demo server.  Its worker is in each of them, as
far as each needs it: it takes commands one at a time and ticks between them.  They share no variable, and what
one leaves out of another is a choice or a fault there: a transfer of an entity is `ChangeWorld` in `Logout`,
`TransferEntity` in `Controllers`, `Transfer` in `Serials` and `Items`, `Leave` in `SpawnPoints`, each
time with the part of the entity the module is about.

## 2. Modules and the code they stand for

### 2.1 Movement: `PositionTracker`, `ActiveMover`, `MoveArbiter`, `HeadlessMovement`, `StepService`

`PositionTracker` and `ActiveMover` are libraries of operators on the structs of the same names; `MoveArbiter`
adds what each event tells which client.  `HeadlessMovement` holds the state and the actions:

| State | Code |
|---|---|
| `mover`, `pos` | `MoveArbiter`'s mover and tracker |
| `outbound`, `waiting`, `predicted` | `PacedSender` |
| `resyncPending`, `age`, `heard` | locals of `run_headless_session`; `age` and `heard` stand for the instant the stall deadline counts from |
| `clientState`, `sent`, `answer`, `view` | the attached clients, the steps each submitted, the answers and the position shown to each |
| `c2s`, `s2c`, `srv` | the connection and the server's position |

Every branch of the `select!` loop that touches movement is one action, from its guard to its last send:
`ClientMoveRequest`, `ClientResync`, `BotStep`, `FlushOutbound` (paced timer), `MatchAck`, `SilentDesync`,
`DesyncAndResync`, `IgnoreAck` (0x22), `ReceiveReject` (0x21), `ReceiveDraw` (0x20), `StallTimeout`.  The
server is the one the code is written for: it looks at a step, never at its number, answers it with an
acknowledgement, a refusal or not at all, moves the character by itself, and answers a resync with a Draw.
The map is a strip of tiles with two headings: that tells turns from steps, steps from one another, and the
edge from the inside; `Ground` gives heights.

`StepService` is the abstract specification: what a client may rely on.  A step is answered at most once, a
confirmation goes to the oldest open step of its client, a refusal of queued steps leaves none open, and a
client that left hears nothing.  `ImplementsStepService` says that `HeadlessMovement` implements it; the
refinement mapping is the identity on `clientState`, `sent`, `answer`.

### 2.2 Views: `TileRect`, `Observation`

`TileRect` has the rectangles of `ecumene/tile_rect.rs`, the strips of a difference included.  `Observation`
follows what happens in one zone to the screen of one player:

| State | Code |
|---|---|
| `at` | the zone's store |
| `bus` | `event_tx`/`event_rx` of the zone |
| `turn`, `wake` | where `run_adaptive` is, and whether `next_tick_at` has asked for a tick |
| `watch` | the rectangle of the session in `ObserverRegistry` |
| `todo`, `reply` | the session's commands in the worker's channel, and the oneshot it awaits |
| `link` | the session's bounded event channel |
| `phase`, `here`, `view` | the session: `player.x/y`, `player.view_rect` |
| `lately` | the keys of the session's `player.move_throttle` |
| `self`, `shown` | the client: where it draws its character and the others |

The actions of the worker are its commands (`RegisterObserver`, `UpdateObserverView`, `StepMe`), what others
do (`MobileStep`, `TeleportEntity`, `CarryMe`, `SpawnEntity`, `RemoveEntity`, `UpdateEntity`), the end of a
batch (`FlushEvents`) and the three parts of a tick (`TickBegins`, `TickRoutes` with the coalescing of
`drain_and_route_events`, `TickEnds`).  Those of the session are `Joined`, `ClientStep` and `StepAnswered` (the
two halves of `handle_move`, split at its await) and `HandleEvents` (`handle_world_event_batch`).
`Applied` is `collect_world_event_packets` together with the client's reaction, `AppliedAll` the same for all that
waits in the channel.  With `--move-throttle` (the act `throttle`) a move within the view is sent at most once per interval
and otherwise skipped; the clock is not modelled, so that any move of a mobile in `lately` may come too soon (`soon` in
`TakeLink`).  `RoutedOf` is what of a batch reaches the session, `Delivered` what of that the channel takes.
Serials of removed entities are not given back (`free` of the allocator has no caller here), so the mobile that
`SpawnEntity` brings under a former name is another one, and nothing of the former is still to be routed.  `Tame` names the
scenarios in which the picture is right; section 6 has what goes wrong in the others.

### 2.3 Characters: `Logout`

The way of one character between the worlds and the storage zone (map 254):

| State | Code |
|---|---|
| `zone` | per zone, the entity's place and its `item_props` there (`META_LOGOUT_PENDING`, `META_LOGOUT_RETURN`) |
| `home` | `CharacterRecord.world` |
| `registry` | the observer registered under the serial |
| `inbox`, `timer` | the reaper's channel, and its sub-task for the character |
| `session` | per session, the step it is at, and what it has read |
| `rearm`, `saving`, `disk` | the restore task, a `.save` half way, the two files |

`resolve_normal_account_spawn` is `Login` … `Enter`, one action for every await; `cleanup_session` is
`Disconnect`, `ArmReaper`, `ReadForMark`, `WriteMark`; the reaper's sub-task is `TimerEnds`, `TimerSwaps`,
`TimerStores`; `transfer_player` is `ChangeWorld`, `RecordWorld`; a failed send (`?`) is `SendFails`; a save copies
zone after zone (`SaveZone`), a restart with `--load` is `Restart` and `RestoreTask`.  A worker serves its
commands in the order they come, so a command takes effect in the action that sends it, and its answer is a
copy that ages in the session.

`Races` names what the code does not exclude and what breaks the properties: without a race named there
an instance excludes it by a guard (`Allowed`).  See section 6 for what each of them does.

### 2.4 Controllers: `Alarms`, `Controllers`

One `ControllerHost` with one `Scheduler` serves all zones, and a tick of the worker visits them one by one:

| State | Code |
|---|---|
| `controller` | `ControllerHost.controllers`: kind, zone, whether its first tick is over |
| `heap` | `Scheduler.heap`; `every` is the interval of a repeating task |
| `struck` | the `DamageDealt` events in `BaseHandler.event_rx`, not drained yet |
| `hurt` | `BaseHandler.pending_entity_events` |
| `worker` | where the tick is: zones left, the zone served, what has been popped and not yet handled |
| `store`, `meta`, `saved` | entities of a zone, `item_props.meta["controller"]`, the save |
| `attaching` | `AttachController` commands of sessions and of the restore task, still to be served |
| `astray` | history: for what (timer, tick, damage) a controller was called in a zone that was not its own |

A tick is `Wake`, then for each zone `TickZone`, `Pop` (the loop of `Scheduler::tick`, one task at a time, with the
re-push of repeating ones), `Handle` (`send_event_internal`), `Handled`, `FirstTick`, `Hear`, `SpawnPoint`, `EndZone`.  `Hear` is
`BaseHandler::tick` after the host: the drain that notes damage (`Drained`), its hand-over to the controllers, and then
`sweep_poison`, whose damage stays in the channel and whose dead leave their controllers behind.  The
commands are `AttachController`, `RemoveEntity`, `TransferEntity`, `DealDamage`, `SaveSnapshot`, `RestoreSnapshot`;
`SpawnNpc` and `Replace` are sessions that send an `AttachController` later.  Each ends in
`PostCommand`, for it is the last of its batch, and then what was published is drained, or it is not.  What a monster, a wanderer or a
pet does with its timer is as in their `on_event`; what it does to the world is left out, except that a monster may strike an
entity of its zone (`ctx.deal_damage`, which lowers hits and kills nobody) and that one with full access may remove one.

`Alarms` is the abstract specification: an alarm rings once, not before its time, while its own zone is served, and
follows its owner.  `TimersAreAlarms` maps to its alarms what is in the heap or has been popped and is not handled yet.

### 2.5 Serials: `FreeRanges`, `SerialPool`, `Serials`

`FreeRanges` has the operators of `RangeAllocator`: a record of the `BTreeMap` and `free_count`.  `Serials` uses it:

| State | Code |
|---|---|
| `pool`, `log`, `persistent` | `Inner.mobiles`/`items`, `alloc_log`, `persistent` |
| `manager` | `ScriptManager` with its `DemoCallbacks`: the snapshot, what `free_since` has still to free, what is still to be removed |
| `held` | serials that somebody has and whose spawn is not sent yet |
| `queue`, `world`, `saved`, `worker` | the worker: commands, entities with who spawned them, saves, a restore under way |

A call of the allocator is one action, as the mutex is held for one call.  `free_since` is a loop of actions
(`StopScript`, `FreeNext`, `Freed`) during which nobody else gets the lock; what `on_after_stop` does after it
is not under the lock (`SendRemove`).  A `RestoreSnapshot` marks serial after serial, each under a lock of its own.

`SerialPool` is the abstract specification: a set of free serials, of which the lowest of a kind is taken, and to which
one in use is given back once.  `AllocatorIsPool` maps the ranges to the set they cover.

### 2.6 Monsters: `SpawnPoints`

| State | Code |
|---|---|
| `alive`, `respawn` | `SpawnState`/`DynSpawnState`: entries `<<m, k>>`, the k-th of serial m in the `Vec`, which may hold a serial twice; deadlines that have passed and those to come |
| `adopted`, `pending`, `rescan` | `adopted_zones`, `pending_adopt`, `sets_need_rescan` |
| `store`, `spawner` | monsters with their `spawn_origin`, spawner objects with zone and settings |
| `taken` | serials in use; those of the dead are not given back |
| `zones`, `worker`, `loading`, `saved` | the worker's zones, its tick, the restores in its channel, the file |

`Enter` is `SpawnManager::tick` up to the points, with `adopt_zone` and the scan of `tick_dynamic`; `Populate` is one point
or spawner: reaping, bootstrap, respawn; `EndZone` the deletions and the handler's adoption of a restored zone.

### 2.7 Items: `ContainerStore`, `Items`

`ContainerStore` has the operators of `HashContainerStore`, those that keep `item_index` and those that go past it.

| State | Code |
|---|---|
| `zone` | per zone: the items on the ground, and the store |
| `worn`, `wearer` | `MobileData.items`, and `equipment_index` (one for all zones) |
| `corpse`, `place`, `dead` | props of a corpse; zone and life of a player |
| `fresh`, `spent` | serials `alloc_item` has still to give; serials of items that are no more |
| `online`, `told`, `news`, `held` | a session: `infra.dead`, the event that will set it, `held_item` |
| `back` | an item whose drop was rejected and how far its way back has got |

The engine's handlers are one action each: `LiftFromGround`, `LiftWorn`, `LiftFromBox` (`handle_pick_up_item`),
`DropOnGround`, `DropOnEntity` (`handle_drop_item`), `Wear`, `Consume`, `Kill`, `Resurrect`, `Transfer`.  The session awaits
each of them: a rejected drop is `DropRejected`, `LookForPack`, `ReturnToPack`, `ReturnToFeet`
(`bounce_item_to_backpack`), between which others act.

### 2.8 Scenarios

`Controllers`, `Serials`, `SpawnPoints`, `Items` and `Observation` choose in `Init` a scenario: the acts that may happen
besides the normal course, and where things are at the start.  It never changes.  An act is either something
the code handles (`transfer`, `die`, `restart`), or something it does not exclude and does not survive either (`hangup`,
`clear`, `torn`, `stale`).  A property names the scenarios in which it is claimed, either by itself (`Calm`, `Without`) or
because no scenario of its run has the act.  Section 6 says what goes wrong with each of the others.

### 2.9 MC and proof modules

`MCHeadlessMovement`, `MCObservation`, `MCControllers`, `MCSerials`, `MCSpawnPoints` and `MCItems` define for TLC the strips of
tiles, the symmetry and the scenarios.  `HeadlessMovementProofs`, `StepServiceProofs`, `ObservationProofs`, `LogoutProofs`,
`ControllersProofs`, `SerialsProofs`, `SpawnPointsProofs` and `ItemsProofs` hold the theorems.  Definitions whose comment says *mutant* are plausible mistakes in the
definition that follows them; no action uses them.  They are there to show that each property notices one.

## 3. Runs

| Run | Instance | Question |
|---|---|---|
| `movement_hostile` | 2 clients and the bot, 2 pending, 1 waiting, 3 steps, 1 upset, server refuses | Is every step of a client accounted for, in order, and do all clients see one position, whatever the server does?  Does the session implement `StepService`? |
| `movement_pipelined` | 1 client, 3 pending, numbers up to 4, 6 steps, server accepts | Do arbiter, prediction and server agree with three steps in flight, across the wrap of the numbers? |
| `movement_live` | 1 client, 1 pending, 2 steps, server refuses, snaps, is silent; the clock runs | Is every step answered at last, and does every resync end? |
| `observation` | a corridor of 5 tiles, bound 3; four scenarios: a mobile walks, jumps, appears, vanishes around a standing player; it walks, appears and vanishes and is redrawn rarely (throttled); the player walks among mobiles that appear and are redrawn; others teleport the player | Once nothing is under way, does the player see a mobile exactly when it is in view, and do zone, registry, session and client agree? |
| `observation_live` | 5 tiles, bound 2; two scenarios, one throttled | Does the picture become right once the world stands still? |
| `logout_calm` | 2 worlds, 2 places, 1 session, inbox of 2, race `senderror` | Is the character always somewhere, once, found, with its body, knowing its way back, and stored at last, through saves and restarts? |
| `controllers` | 2 creatures, 2 zones, clock to 2, 2 acts, 10 task ids, 10 scenarios | Do timers fire once, in time, in the right zone, whatever happens to their entity?  Do they implement `Alarms`?  Does the worker come to rest? |
| `serials` | 3 mobiles, 1 item, 2 zones, 3 allocations, queue of 2, 2 acts, 7 scenarios | Do the ranges implement `SerialPool`?  Do two entities ever share a serial?  Does a script leave anything behind? |
| `serials_cleanup` | the same, scripts with others beside them (violation) | Does stopping a script remove only what is the script's: no. |
| `spawns` | 2 zones, 1 point, 1 spawner object, `max_count` 2, 5 serials, 4 acts, 6 scenarios | Does every place hold one monster or one respawn, through deaths, settings, saves and restarts?  Is every respawn carried out? |
| `items` | 2 players, 2 zones, 8 serials, stacks of 2, up to 3 lifts, 5 scenarios | Is every item in one place, found by both indexes, in the zone of its container?  Does anything come from nothing? |
| `items_barepack` | a player dies and is resurrected without a backpack (violation) | Does resurrection return what the corpse held: no. |

**Bounds.**  `MaxPending` is at most 4 by an assertion of the code; 1, 2 and 3 are checked, 4 only adds another
step in flight.  `MaxSeq` stands for 255: 4 is the least value at which four pending steps can have distinct
numbers after the wrap, and six steps cross it.  `MaxSteps` and `MaxUpsets` bound the steps asked for and the
snaps and client resyncs; three steps fill both queues and leave one to be refused, one upset can meet
them in every order.  A corridor of 5 tiles with `ViewRange` 1 and `BlockSize` 2 has tiles in view, tiles out of
view on a watched block, and tiles on a block not watched, and has both edges of the map.  `Bound` limits the
events and commands under way before another actor acts; two are enough for one to overtake the other,
three for a third to be merged.  `LinkCapacity` stays out of reach: the code accepts that a full channel
drops events, and no property of the picture survives that.  One character suffices in `Logout`: the
code keys every step by its serial, and characters meet only in the reaper's channel, whose
capacity (256, here 2) is reached.  One session suffices where sessions of one character do not overlap,
for the theorems of section 5 say so for any number.

In `controllers` two creatures are enough for one to act on the other, and two zones for a timer of a zone that is not
being served; with delays of 0 and 1 a clock of 2 has a timer that is due twice in one tick, one that becomes due while the
tick is under way, and one that is late.  Two acts follow upon one another, which is what `replace` then `remove`,
or `stale` then `transfer`, need.  Ten ids are more than there can be tasks (an id is used again, and TypeOK says that two
tasks never have one).  In `serials` a range of three can be cut in the middle, and four serials suffice to join on
both sides; the gap between the kinds is a serial that is neither.  In `spawns` a `max_count` of 2 has a point with one
living and one waiting; five serials are fewer than four deaths can use up, so that spawns fail.  In `items` stacks of 2
can be split, filled and overfilled; `MaxAmount` stands for 65535; three lifts let each player hold something while
a third item has been moved.

**Deadlock** is checked for Observation, Logout and SpawnPoints.  It is not for movement, controllers, serials and items,
which stop when the bounds on steps, acts, allocations or lifts are used up and all is handled.

**Symmetry** is used in `movement_hostile` only (a safety run; the clients are interchangeable in `Init`, `Next`
and every property checked).

## 4. Fairness

* `HeadlessMovement`: weak fairness of the session's handling of a received packet, of the server's handling
  of a received packet, of the paced timer, the clock and the stall timer.  Each is a branch of a `select!` in a
  task that tokio polls whenever it is ready, and stays ready until it is taken.  Clients, the bot and snaps are
  free.  The server's choice between its answers is free too, even to be silent every time.
* `Observation`: weak fairness of the worker's step, of the session's awaits (`Joined`, `StepAnswered`) and of its
  `HandleEvents`.  The session's `select!` is biased and prefers the client: a client that sends without
  a pause could keep it from its events, so `Converges` is checked for a player who stands still, where
  nothing competes with them.  The worker's `select!` prefers commands, and here their number is finite once
  the world stands still.  `KeepsTicking` is an assumption on the controllers: without it the liveness
  property fails (section 6).
* `Logout`: weak fairness of every session's own steps, of the reaper, its timer, the restore task, and of a
  save once begun.  Players, saves and restarts are free, so `EndsInStorage` is about behaviours in which the
  player stays away and no more restarts come.

* `Controllers`: weak fairness of the worker's tick and of the clock.  The worker's `select!` is biased towards commands;
  their number is bounded here (`MaxActs`), which stands for players who pause.  `ComesToRest` is also the claim that
  catching up on missed intervals ends.
* `SpawnPoints`: weak fairness of a tick that is wanted (the worker sleeps until `next_tick_at`, so nothing is assumed of
  ticks that nobody asked for), of a tick once begun, of the restores in the channel, and of each deadline.
* `Serials` and `Items` have no liveness: the properties are about what may never be.

## 5. Proofs

All proofs are checked by TLAPS to the last leaf, for every value of the constants that satisfies the
assumptions of the modules (`MapAssumption`, `MoverAssumption`, `SessionAssumption`, `MaxCoordAssumption`,
`TilesAssumption`, `WhoAssumption`, `SizesAssumption`, `ScenarioAssumption`, `LogoutAssumption`, `ControllersAssumption`, `SerialsAssumption`, `SpawnPointsAssumption`, `ItemsAssumption`), which TLC evaluates on each run.

**Movement** (`HeadlessMovementProofs`).  `TypeCorrect`, `WaitingIsFIFO`, `DistinctNumbers`, `SamePosition` prove
`TypeOK`, `WaitingOnlyWhenFull`, `PendingSeqsDistinct` and `ViewsAgree` of `Spec`.  The invariants are proved in
three layers: `Typing`; `Ordered`, which says what `PendingSeqsDistinct` alone does not, that the pending numbers
are consecutive in the order of the queue and end at `nextSeq` (`Numbering`), together with
`WaitingOnlyWhenFull`, since what is replayed is numbered behind what is pending; and `Shown`, what each client
displays.  `AgreeAtRest` proves `AgreeWhenIdle`, that server and session have one position when nothing is on its way,
for a server that is calm (`CalmServer`): it refuses nothing and answers everything, moves the character by itself only when
nothing is under way, and the ground is flat, as in the instance of `movement_pipelined`.  The invariant says that while no
resync is under way the pending steps are, in order, those confirmed on the link from the server, those on the link to it
and those the paced sender holds (`LinedUp`), and that they lead from the session's position by way of the server's to
the predicted one (`Trail`).

**Movement implements its service** (`StepServiceProofs`).  `SessionServes` proves `Spec => ServiceSpec`, under
the invariant `Ledger`: the open steps of a listening client are exactly those in `pending` followed by those in
`waiting`, in the order of their numbers.  The confirmation of the head of `pending` is then that of the
client's oldest open step.  `NoStepLost` proves `StepsAccountedFor` from it: a client's steps that were confirmed, denied or
are still open add up to those it asked for.

**Rectangles** (`ObservationProofs`).  `DifferenceCovers`, `StripsDisjoint`, `DifferenceIsRects`: the strips of a
difference are non-empty rectangles, disjoint, and hold exactly the tiles of the first that are not in
the second, on a map of any size; `ViewIsRect` says a view is a rectangle, at the edges too.

**Observation** (`ObservationProofs`).  `Typed`, `AllAgree` and `PictureIsRight` prove `TypeOK`, `QuietAgreement` and
`QuietPicture`.  `PictureIsRight` is `Spec /\ []Roomy => []QuietPicture`, where `Roomy` says that the channel of the session is not
full: what a full channel drops is never sent again.  Of a mobile whose moves are throttled it says only that it is drawn in view
exactly when it is in view: where it is drawn may be stale for good (section 6).  In the runs the bound on what is under way keeps it so.  The other two
theorems need no such premise.
Four layers of invariants lead there.  `TInv` adds to the types what the session may be waiting for in each phase (`Phases`).
`LInv` says that the last view on its way to the registry, or the one it has if none is, is the session's (`LastAt`).
`PInv` says where zone, session, client and the answer under way have the player (`Placed`), and that no teleport of
the player is on its way when nobody carries it (`Snapless`).  The picture has an invariant for each way to be `Tame`, both
about `Picture(w)`, what the client will draw once it has what is in its channel, when the events numbered in `w` come too soon
after others; it is about all `w`, since nobody knows yet which these will be:
* around a player who stands still (`SInv`), `Followed`: there is a course of the zone from event to event, up to now,
  along the events on the bus (`Way`), and for each mobile a time on it at which `Picture` was right (`Fair`: in
  view it is drawn where it is, out of view it is not drawn in view, which is `Right`; of a throttled one only whether it is
  drawn in view).  In a batch of commands that time may be any, since
  a player may register in the middle of one; else it is the start.  `RoutedRight` shows that a batch sets right
  what was right at any time of it, although routing goes by blocks and drawing by the view, and `CoalescedWay` that
  the merged moves of a tick lead from where it began to where it ended, if nothing is drawn anew or after its removal
  (`Orderly`);
* around a player who walks (`WInv`): what is published of the others draws them where they are (`Published`), what is in the
  channel does that or removes them (`Streamed`), nobody is drawn where it is not (`NoGhosts`), and whoever is where
  the registry watches, and will be in all the views on their way (`Covered`), is drawn, or published again (`Known`).
  What the strips lose comes back with a later strip.
`Growth` gives induction over sequences (a set of sequences that has the empty one and is closed under `Append` has all),
from which come what `AppliedAll`, `RoutedOf` and `Coalesced` do to a sequence that is one event longer, and `AppliedInTurn`, that
the events of two batches are applied in turn.

**Logout** (`LogoutProofs`).  `LogoutTyped` proves type correctness with every race.  `Inductive` proves the
inductive invariant `IInv`, and from it follow `CharacterIsOne`, `CharacterIsFound`, `PlayersStay`,
`WayIsKnown`, all under `Calm == Races \subseteq {"senderror"}`, that is: sessions of one
character do not overlap, timers do not expire in the middle of a return, logins wait for the restored
timers, a save does not fall between the two steps of a return or a change of world, and the two files agree.
None of these is inductive alone.  `IInv` adds that only one session is on (`OneSession`), where the body and its
props are and what the record says (`Bodies`), that what a session has read is still so (`Knowledge`),
that the reaper's timer and inbox together (`Due`, what the timer will be once the inbox is read) are armed for
a world only if a player is leaving it or has left it (`ReaperOK`), and that what a save has copied,
complete or not, describes a character that can be restored (`SavingOK`, `DiskOK`).  The last two are
why it holds across restarts: a save may run while a timer stores the character, so a save may hold it twice, and
then it must be due to be stored.

**Controllers** (`ControllersProofs`).  `HostTyped`, `TimersKeepUp`, `CalledAtHome`, `NobodySleeps`, `OneClockEach`,
`ControllersAtHome` prove the six invariants of the run, and `HostKeepsAlarms` that the host implements `Alarms`, for any
number of entities, zones, timers and commands.  All have the form `Spec /\ []IdsLeft => ...`: `Schedule` finds an id that
no task has.  The code counts ids up and does not look whether one is taken; `IdsDoNotEnd` proves `[]IdsLeft` for
`TaskIds = Nat`.  The invariant `IInv` adds to the properties what holds in the middle of a tick: which stages have timers
popped and not handled, and that these belong to the zone served and are due (`Working`); that a repeating task that is
back in the heap is later than each of its ringings still to be handled, so that no alarm rings twice (`Ordered`); that a
controller whose timer is popped is in the zone served (`Follows`); that a controller without a timer in the heap has one
popped, and a pet has its repeating task in the heap (`Awake`, `Alone`); that an entity in a zone is in no other, and its
controller and those still to come are for that zone (`Sited`), where no zone is restored and no command overtakes an
`AttachController`; that what waits to be heard where the damage stays is of the zone being ticked (`Heard`): it was struck
in this tick, by a monster of this zone; that a waiting `AttachController` meets an
entity that is there (`Homes`), and that has no controller and no timer (`Clocks`).  `StepIs` reduces the steps to what
they do to controllers, heap and worker; only `Sited`, `Safe`, `Homes` and `Clocks` look at the commands themselves.
`CalledAtHome` is about all scenarios: never for a timer or a tick is a controller called in a zone not its own; for damage this is
so where `DamageStays`, that is without damage by players or poison, and, if monsters strike, without restores and overtaking commands.

**Serials** (`SerialsProofs`).  `AllocatorSound` proves `Spec => []Sound` and `AllocatorImplementsPool` proves that the ranges
implement the set of free serials, in every scenario.  The lemmas about `FreeRanges` say, for well-formed ranges of any
size, which serials `AllocOne`, `MarkOccupied` and `FreeOne` leave covered, that the result is well-formed, and
that `free_count` stays the number of covered serials.  `FreeOne` owes that to its callers (its argument must not be
free), so the invariant `IInv` adds what the callers know: log and rest of a `free_since` name no serial twice and none
that is free, and all are serials of a kind.  `Typed` proves `TypeOK` in every scenario.  `NobodyShares` and
`NothingLeftBehind` prove `NoSharedSerial` and `CleansUp` in the scenarios that the properties name.  Both come from one
invariant, `CInv`: a serial that is held, in the channel, in a zone or in the save, and about to stay, has one bearer and one place
(`Unique`); those of scripts are in the part of the log that their cleanup takes, or persistent, or about to be removed
(`ScriptsLogged`), those of others in the part it leaves (`OthersLogged`); and the stages of the manager and the worker keep
what these count on (`ManagerCalm`, `WorldCalm`).

**Spawn points** (`SpawnPointsProofs`).  `Typed` proves `TypeOK` in every scenario; that `rescan` is bounded needs that what is
counted and what is still in the channel together are no more than was sent.  `NoPlaceLost` proves `Accounted` and
`NoneTooMany` proves `PopulationBounded`.  That no place is lost holds in every scenario, and needs only `AInv`: the points of an
adopted zone have their places unless the tick has not come to them yet.  That there are not too many holds in calm
scenarios, and needs `CInv`: what is counted is counted once and no more than `max_count` (`Counts`); who lives in an adopted
zone, or is from a spawner that is placed, is counted, and is where it was born (`Births`); a spawner object that was removed is
never placed again, and where there are spawner objects there is one zone and no file (`SpawnersCalm`); the same of the file
(`SavedCalm`); and for each restore that the handler has not answered with an adoption there is a zone whose turn is to
come, and none of these zones is adopted (`RestoresCalm`), so that no zone is adopted twice.  `Least` gives induction: a set
of numbers has a least element, from the well-founded order of finite sets, so that a least counterexample can be
taken.  With it `LowestExist` shows that the lowest n free serials exist.

**Items** (`ItemsProofs`).  The lemmas about `ContainerStore` say of a store of any size which
containers and which indexed items each operation of `HashContainerStore` leaves, and that `item_index` is exact
afterwards; `LootExact` says it of the two writes of a death, of which the first leaves the index wrong.  From them
`TypesHold`, `IndexesHold`, `ContentsStayTogether` and `NothingDoubledOrLost` prove `TypeOK`, `IndexesExact`,
`ContentsFollow` and `ExactlyOnePlace`, for any number of players, zones, items and containers, nested to any depth.
They hold under `Gentle`: nobody changes zones with a container outside the backpack and nobody is resurrected without
a backpack while something lies loose in the corpse, the two cases of section 6 in which the code does lose or part
items.  `ItemsAssumption` asks of a scenario that it starts in order (`Orderly`): each item in one place, each container
in the zone of what is in it.  Items are located by `At(i, k, x)`: `i` is at `x` in the way `k` (ground, box, worn,
cursor, on the way back).  None of the properties is inductive alone: that an item is dropped into one place needs that it
was on one cursor and nowhere else (`Single`), that a new stack is not already somewhere needs that what is to be allocated
is nowhere (`Nowhere`), that a container lifted from the ground keeps its content in its zone needs that container
and player are in one zone (`RecordsHere`), and that a transfer takes all of what it moves needs that the set
`Carried` is closed and that each container in it but the backpack is inside another (`CarriedIsClosed`).  The invariant
`IInv` is the conjunction of these, of `Kept` (what is not used up is somewhere) and of the exactness of both indexes.
An action is reduced to where it leaves which items: `Moves` and `Shifts` name the few that change place, and
`Moved` and `Shifted` derive the invariant from that.

`NothingGained` proves `NothingFromNothing`, under `Gentle` too.  `Wealth` is the cardinality of `Coins`, the set of all
single pieces of what stacks, each with the item and the place it is in.  As each item is in one place, `WealthIs`
maps the pieces one to one to those of `Purse`, which says how many there are of each item, wherever it is.  A step then either
lets no item grow (`AllLast`: every item `Lasts`, is of the same kind and no more than it was), or moves pieces from one
item to another, whose sum does not grow: to the new serial of what stays of a stack (`Splits`), or to the stack an item is
dropped on (`Merges`).  Kinds matter because death and resurrection translate items to layers and back, and a corpse that
remembers another kind than its items have could make money of a robe: `Known` adds to `IInv` that the kinds in a corpse's layers
are those of the items wherever they are now, and that none of them is still to be allocated.

**Only model-checked**: all liveness (`EveryStepAnswered`, `ResyncEnds`, `Converges`, `EndsInStorage`, `ComesToRest`, `Refilled`),
which is out of the prover's reach, as is ENABLED; and the two properties the runs show violated, `RemovesOnlyItsOwn` and `CorpseReturns`.  The induction theorems
of the library take the predicate as a parameter, which the prover cannot instantiate; for one predicate at a time induction
is possible with a least counterexample, as in `Least` and `Growth`.

## 6. Where code and comments disagree

Shown by a run (`findings` in PROJECT.json):

* **The cleanup of a script** (`serials_cleanup`).  `free_since` takes back everything allocated since the script was started,
  by whoever asked, and `on_after_stop` removes it: the character of a player who came for the first time meanwhile too.
* **Resurrection without a backpack** (`items_barepack`).  What the corpse held loose goes to the backpack if one is worn;
  the corpse is removed in any case, with what is in it.

Met while modelling, without a run of their own (each is a hazard in PROJECT.json or one of those waiting
below; TLC refutes the property named when the instance is changed as said):

| Where | What happens |
|---|---|
| `rythmos/pending_queue.rs:92`, `move_arbiter.rs:47` | numbers restart at 0 after a reject or a reset and `on_ack` matches by number: an acknowledgement of a step drained before confirms a new one |
| `rpc-proxy/src/session/headless.rs:733`, `:738` | a desync that drains only steps of the bot is not followed by a resync, the comment says desyncs are (`AgreeWhenIdle` with `CalmSnaps` FALSE) |
| `headless.rs:350`, `:642` | the stall deadline counts from the last movement packet: the first step after an idle half minute is dropped at once |
| `headless.rs:306`, `position_tracker.rs:101` | the position packets of the login do not reach the arbiter: before the first Draw clients are redrawn at the origin |
| `paced_sender.rs:146`, `:93` | the predicted height is not resolved, the confirmed one is |
| `continuum/observer.rs:359`, `world_events.rs:511` | of two teleports the second may be routed by blocks no longer watched, and is lost (the agreement on the place, which `QuietAgreement` does not claim with `carry`) |
| `world_events.rs:506`, `:513` | a teleport that waited while the player stepped snaps it back; two there and back leave the client without what it had seen (`QuietPictureAlways` with `carry`) |
| `observer.rs:74`, `world_events.rs:334` | spawns and updates are drawn without a look at the view: a client is told of what is on a watched block and out of view |
| `base_handler.rs:681`, `:630` | merging the moves of a tick moves a later move before an update between them (`QuietPictureAlways` with `step` and `update`) |
| `base_handler.rs:357`, `anima/traits.rs:11` | what the last tick publishes after its drain waits for the next command or tick (`Converges` with `KeepsTicking` FALSE) |
| `world_events.rs:636` | a removal may miss a player one step away (`QuietPictureAlways` with `walk` and `remove`) |
| `demo-server/main.rs:157`, `common/world_events.rs:584` | with `--move-throttle` "the client sees only the final position after the throttle window"; a move that comes too soon is skipped and nothing sends it later: a mobile that then stands still is drawn where it was until it moves again, leaves the view or is redrawn (`Exact` for all mobiles with `step` and `throttle`) |
| `demo-server/game_session/movement.rs:103` | the session counts a strip as view before the registry does: a mobile that steps out of it is announced as an update of something never drawn (`QuietPictureAlways` with `walk` and `step`) |

The races of `Logout`, each with the properties it refutes when it is added to `Races`:

| Race | What the code lets happen | Refutes |
|---|---|---|
| `expiry` | the timer ends while the player comes back | OneCharacter, FoundAtLogin, PlayersAreHome, KnowsItsWay |
| `startup` | a login before the restored timers are armed | OneCharacter, PlayersAreHome, KnowsItsWay |
| `overlap` | two sessions of one character (with 2 sessions) | all |
| `halfmoved` | a send fails between a transfer and its record | FoundAtLogin |
| `tornsave` | a save copies zones while a return or a change of world is half done | OneCharacter, FoundAtLogin, PlayersAreHome, KnowsItsWay |
| `oldrecord` | a restart from files of two ages: the record of the account is saved at every change of world (`spawn.rs:687`), the zones only by `.save` | FoundAtLogin, PlayersAreHome, KnowsItsWay, OneCharacter |
| `senderror` | a failed send ends a session without cleanup | none of the invariants; `EndsInStorage` excepts such sessions |

The acts of the scenarios of section 2.8 that break a property, and what the code does:

| Module, act | Where | What happens | Refutes |
|---|---|---|---|
| `Controllers`, `hit` | `base_handler.rs:362`, `host.rs:925` | damage is handed over in the tick of whichever zone comes first; and it does not wake the worker by itself | RightZone without `DamageStays` |
| `Controllers`, `poison` | `base_handler.rs:379`, `:362` | the poisoned are swept after the drain of the tick: their damage is noted in the drain of the next zone's tick, or of the next batch of commands, and handed over in the next zone's | RightZone without `DamageStays` |
| `Controllers`, `poison` with `kill` | `base_handler.rs:474`, `kill_ops.rs:168` | whom poison kills leaves a controller behind, as with `hit` | NoGhosts |
| `Controllers`, `melee` with `load` or `overtake` | `host.rs:345`, `base_handler.rs:653` | a monster strikes an entity whose controller still or already is of another zone | RightZone without `DamageStays` |
| `Controllers`, `replace` | `host.rs:814`, `session_loop.rs:649` | the timers of the controller before stay and ring for the new one: a pet that is released acts on two chains | OneClock |
| `Controllers`, `kill` | `kill_ops.rs:168`, `base_handler.rs:208` | a kill removes the mobile past the handler; its controller stays attached, with its timers | NoGhosts |
| `Controllers`, `load` | `dot_commands.rs:905` | a restore detaches nothing and attaches anew: chains of timers double, controllers of entities that are no more stay | OneClock, NoGhosts |
| `Controllers`, `overtake`, `script` | `base_handler.rs:208` | an `AttachController` finds no entity and attaches; a script removes an entity and not its controller | NoGhosts |
| `Serials`, `alongside` and `meanwhile` | `watcher.rs:52`, `:69` | serials of others are freed and allocated again before the removal of the entity that had them is served: the new entity vanishes | NoSharedSerial |
| `Serials`, `clear` | `handler/mod.rs:1587`, `serial_alloc.rs:428` | one zone's `.clear` frees the serials of all zones; the snapshot of a running script is then behind the end of the log, its stop panics and leaves the mutex poisoned | NoSharedSerial; the stage `poisoned` |
| `Serials`, `transfer` with `scripts` or `load` | `watcher.rs:69` | an entity that left the zone of the scripts is not removed and its serial is free | NoSharedSerial |
| `SpawnPoints`, `load` | `spawn_points.rs:362` | adoption does not look whether a monster is counted already | Accounted, PopulationBounded |
| `SpawnPoints`, `torn` | `handler.rs:575` | a tick between two restores adopts the wrong zone and uses up the rescan of another | Accounted, PopulationBounded |
| `SpawnPoints`, `spawner` in two zones, `carry` | `spawn_points.rs:546`, `spawner_object.rs:17` | the tick of one zone forgets the spawners of all others: they start from nothing and spawn again | PopulationBounded |
| `Items`, `hangup` | `session_loop.rs:104` | a failed send ends the session without `drop_held_item_on_disconnect`: what is on the cursor is gone, against `infra.rs:591` | none: ExactlyOnePlace only says then that nothing is doubled |
| `Items`, `carry` | `worker.rs:331`, `:480` | a transfer takes the containers of the backpack along and no others (bank box, other layers, cursor), against `transfer.rs:37`; what is left may be overwritten on the way back | ContentsFollow, ExactlyOnePlace |
| `Items`, `barepack` | `kill_ops.rs:685` | see above | CorpseReturns, ExactlyOnePlace |

Read in the code and not in a model: `last_tick`, and with it `dt`, and the notoriety sweep are one for all zones
(`host.rs:966`); `ResetZone` and `RestoreSnapshot` clear the equipment index of all zones; lowering the maximum of a spawner
leaves its pending respawns; a container can be dropped into itself or into what is in it; lifting part of what does not
stack splits it; a merge destroys what exceeds 65535, and wearing a stack leaves one; after a new login the session of a
ghost believes to be alive (`session_loop.rs:279`); resurrection may put two items on one layer; `.load` while an item is on a
cursor doubles it.  Two more comments the code does not keep to: `spawn_points.rs:14-19` says that points start from
scratch after a restart and spawned monsters are never saved, and the manager adopts those it finds in a restored zone
(`SpawnPoints` follows the code); the test `serial_alloc.rs:737-748` says a second `free` of a serial corrupts
nothing, but `free_one` (`:179`) then replaces the whole range that begins with the serial by that serial alone, and
what the test looks at, the next serial allocated, is the same.  The models never free twice, and the theorems of
`Serials` say so (`Sound`: what is in the log is not free), so they show that the modelled callers do not, not that it
would do no harm.

## 7. What is left out

* **Of movement**: `on_world_change` (no caller), the 1.5 s gate of a client's resyncs, mount tracking, the
  trackers of 0x77/0x78, what a step does to the world beyond the position.
* **Of views**: zones other than the player's and what the channel still holds of the old zone after a transfer;
  controllers as observers; items, containers, ships, effects, speech; a full channel;
  who is hidden from the player (`is_hidden_from_observer`, `world_events.rs:583`, `:615`, `:629`, `:643`): every mobile is visible.
* **Of logout**: test and playable-pool accounts, character creation, held items, `.load` under live sessions,
  AI controllers of the transferred entity, others who move an offline character.  `handle_save`
  drops zones without entities and the model keeps them: it makes a difference only for props without a body,
  and by `IInv` there are none unless a race happens.
* **Of controllers**: `cancel` (no caller), what the handlers do to the world but blows and removals, the controllers as observers;
  who is poisoned and when the poison is due (any of the zone at any tick; the code does not wake the worker for it).
* **Of serials**: the batch functions (no caller outside tests), the Lua runtime, the file watcher.
* **Of spawn points**: positions, templates, the distance of a monster from its home.
* **Of items**: mounts, `kill_mobile` with its loot, `add_container_items`, `UpdateContainerItemAmount`, the equipment
  commands of NPCs; who may open what, range and line of sight, which are a choice; saves and loads of items;
  `MAX_DEPTH`, which ends a transfer's collection after 64 containers.
* **Everything else** as PROJECT.json says for each component: rules of the game, user interfaces, byte formats,
  geometry of maps, and the parts the plan below names.

## 8. Plan

1. *Movement* – done: modules, runs, refinement, proofs.
2. *Rectangles and views* – done for one player in one zone, with proofs.  To come: several zones (events of the old zone in the
   channel, teleports within the zone), controllers as observers, a full channel.
3. *Characters* – done: module, runs, proofs.  To come: `.load` under live sessions.
4. *Controllers* – done: module, refinement of `Alarms`, proofs.  To come: what the handlers do to other entities of the zone.
5. *Serials and scripts* – done: modules, refinement of `SerialPool`, proofs.  To come: the file watcher.
6. *Spawn points* – done, with proofs.  To come: spawner objects of several zones, if the code comes to keep them apart.
7. *Items* – done, with proofs.  To come: mounts, loot, saves of items.
8. *Attachment*: bootstrap, sinks, broadcast, target cursor and the two bounded channels; liveness and deadlock.
9. Then `diorama`'s visible world, the network redirect and relay, `LogPlayer`.

Hazards found in the survey that are not in PROJECT.json, because nothing covers them yet or because they follow from
one that is there:

| Where | What | See or waits for |
|---|---|---|
| `rythmos/move_arbiter.rs:424` | `on_world_change` drains pending steps with a Draw, their originators get no answer | a caller |
| `rpc-proxy/src/session/headless.rs:306` | responses are built from a tracker that no login packet reached | section 6 |
| `headless.rs:345` | within 1.5 s of a resync the stall deadline is set a day ahead, and recomputed only when something else wakes the loop | the 1.5 s gate |
| `headless.rs:350` | the stall deadline counts from the last movement packet, not from the step that is pending | section 6 |
| `headless.rs:453` | a client leaves while its steps are pending: they stay queued and are answered to nobody | covered by `ImplementsStepService` |
| `headless.rs:563` | a step with an invalid heading ends the session of all clients | 8 |
| `headless.rs:733` | a desync that drains only steps of the bot is not followed by a resync | section 6 |
| `headless.rs:1226` | the session waits for room in the sink of a client, the client for room in the session's channel | 8 |
| `session/paced_sender.rs:146` | steps of the bot are validated from a predicted height that no step updates | section 6 |
| `session/virtual_client.rs:175` | a client asks for the bootstrap, attaches and subscribes in three steps: what comes in between is lost | 8 |
| `managers/target.rs:128` | the cancel of a target goes through the sink, the next request through the broadcast | 8 |
| `framework/continuum/observer.rs:171` | sessions and controllers share one space of observer ids | 2 |
| `observer.rs:333` | the radius of a subscription, derived from the clipped rectangle, shrinks near the edge of the map | 2 |
| `observer.rs:568` | a full channel drops events for good | 2 |
| `continuum/worker.rs:223` | while commands keep coming nothing is routed and no tick runs | section 4 |
| `worker.rs:325` | `transfer_entity` detaches the controller before it knows that the entity exists | `Controllers`, act `stale` |
| `worker.rs:480` | `MAX_DEPTH` bounds the number of containers a transfer takes along, not their depth | 7 |
| `common/world_events.rs:636` | a mobile is removed while the player is a step away, and a draw still queued shows it when the player is back | section 6 |
| `common/world_events.rs:513` | two teleports there and back in one batch: the client has forgotten what it saw | section 6 |
| `demo-server/game_session/spawn.rs:382` | a teleport while the player joins is drained without `sync_view_rect` | `Observation`, act `carry_joining` |
| `spawn.rs:616` | login and timer write back the props they read: one undoes what the other wrote | section 6, `expiry` |
| `transfer.rs:129` | a send fails between the transfer and the update of the record | section 6, `halfmoved` |
| `transfer.rs:186` | after a transfer the channel still holds events of the old zone, handled without a look at the map | 2 |
| `transfer.rs:294` | `intra_zone_teleport` sets `view_rect` itself, so nothing is sent to the registry | 2 |
| `dot_commands.rs:905` | `.load` under live sessions: characters online in the save stand in the world for ever | 3 |
| `logout.rs:150` | the return address is that of the logout: who is moved meanwhile returns to where the player left | 3 |
| `main.rs:536` | the restore task arms the timers after the first logins may have come | section 6, `startup` |
| `handler.rs:575` | a tick between the restores of two zones uses up the rescan of another | section 6, `torn` |
| `anima/host.rs:582` | `consume_item` of a controller takes the item out behind the store: the reverse index keeps it | 7 |
| `anima/host.rs:966` | `last_tick` is one for all zones: the second to tick gets a `dt` of about 0 | a controller that looks at it |
| `anima/host.rs:970` | the timers of a tick are collected before the first is handled: one cancelled meanwhile fires all the same | a caller of `cancel` |
| `uo_engine/handler/mod.rs:1704` | a load marks the serials of the save one by one while others allocate | covered by `NoSharedSerial` |
| `uo_engine/serial_alloc.rs:428` | a script stopped after `.clear` panics with the lock held | section 6, `clear` |
| `mitos/manager.rs:273` | a reload queued by a watcher that was stopped acts on the script started since | 5 |
