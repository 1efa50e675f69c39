----------------------------- MODULE Controllers -----------------------------
(***************************************************************************)
(* The controllers of entities and their timers: one ControllerHost and    *)
(* one Scheduler for all zones (framework/src/anima), ticked zone by zone  *)
(* by the worker (framework/src/continuum/worker.rs) through BaseHandler   *)
(* and DemoHandler, and the sessions and tasks that spawn entities, attach *)
(* controllers to them, remove, transfer, save and load them.              *)
(*                                                                         *)
(* A tick of the worker goes through all zones; commands are taken between *)
(* ticks only.  Time passes at any moment.                                 *)
(***************************************************************************)
EXTENDS Integers, FiniteSets, Sequences

CONSTANTS
  Entities,      \* serials
  Zones,         \* map ids
  TaskIds,       \* enough of them: an id is used again once its task is gone
  MaxClock, MaxActs,
  FirstDelays, NextDelays, Interval,
  Scenarios,     \* [acts, cast]: what may happen besides spawning, and to whom
  None

\* "replace"  a creature is tamed or released; "load" .save and .load;
\* "remove", "transfer"; "stale" the sender of one of these two is wrong about
\* the zone; "overtake" they come between a spawn and its AttachController;
\* "hit" a command of a player damages an entity, "melee" a monster does, "poison"
\* the sweep of the poisoned; "kill" a player or poison does so to death;
\* "spawner" spawn points; "script" a controller with full access removes an entity.
Acts == {"replace", "load", "remove", "transfer", "stale", "overtake", "hit", "melee", "poison", "kill",
         "spawner", "script"}

\* WanderController and MonsterController keep a chain of one-shot timers,
\* PetController one repeating timer; both call theirs timer 1.
Kinds == {"monster", "pet"}

Controller == [kind : Kinds, map : Zones, started : BOOLEAN]

ASSUME ControllersAssumption ==
  /\ IsFiniteSet(Entities) /\ IsFiniteSet(Zones)
  /\ TaskIds \subseteq Nat /\ MaxClock \in Nat /\ MaxActs \in Nat
  /\ FirstDelays \subseteq Nat
  /\ NextDelays \subseteq Nat \ {0} /\ Interval \in Nat \ {0}
  /\ Scenarios \subseteq [acts : SUBSET Acts, cast : SUBSET Entities]
  /\ None \notin Entities \cup Zones \cup Controller

VARIABLES
  scene,       \* the scenario; never changes
  count,       \* acts so far
  clock,
  store,       \* per zone: the entities it holds
  meta,        \* item_props.meta["controller"] of an entity
  controller,  \* ControllerHost.controllers: [kind, map, started]
  heap,        \* Scheduler.heap
  attaching,   \* AttachController commands that are still to come
  struck,      \* the events DamageDealt that wait in BaseHandler.event_rx
  hurt,        \* BaseHandler.pending_entity_events
  saved,       \* per zone: the entities of the save, with their meta
  worker,      \* the tick under way
  astray       \* what has called a controller in a zone not its own
vars == <<scene, count, clock, store, meta, controller, heap, attaching, struck, hurt, saved, worker, astray>>

Task == [id : TaskIds, owner : Entities, at : Nat, every : Nat, zone : Zones]
Attach == [of : Entities, kind : Kinds, map : Zones]
Stages == {"idle", "serving", "timers", "ticking", "spawning"}
Idle == [stage |-> "idle", left |-> {}, zone |-> None, now |-> 0, fired |-> <<>>]

Attached(e) == controller[e] # None
At(stage)   == worker.stage = stage
Waiting(e)  == \E a \in attaching : a.of = e

-----------------------------------------------------------------------------
(* Scheduler *)

\* (FreeIdNone is a mutant.)
FreeIdNone(tasks) == CHOOSE i \in TaskIds : TRUE
FreeId(tasks) == CHOOSE i \in TaskIds : \A t \in tasks : t.id # i

\* schedule and schedule_repeating, from a handler that runs in `zone`.
Schedule(e, delay, every, zone) ==
  LET i == FreeId(heap) IN
  /\ i \in TaskIds
  /\ heap' = heap \cup {[id |-> i, owner |-> e, at |-> clock + delay, every |-> every, zone |-> zone]}

\* Mutant: the timers of a controller stay where it came from.
StampNot(tasks, e, zone) == tasks

\* reassign_entity_map
Stamp(tasks, e, zone) ==
  {IF t.owner = e THEN [t EXCEPT !.zone = zone] ELSE t : t \in tasks}

\* Scheduler::tick fires what is due in the zone it is called for; tasks of
\* other zones go back into the heap.
\* (DueAnywhere is a mutant: the zone is not looked at.)
DueAnywhere(zone, now) == {t \in heap : t.at <= now}
DueNow(zone, now) == {t \in heap : t.at <= now /\ t.zone = zone}
First(tasks, t)   == t \in tasks /\ \A u \in tasks : t.at <= u.at

-----------------------------------------------------------------------------
(* ControllerHost *)

\* Mutant: a controller that follows its entity starts again.
AttachToAnew(e, kind, zone, started) ==
  /\ controller' = [controller EXCEPT ![e] = [kind |-> kind, map |-> zone, started |-> FALSE]]
  /\ heap' = Stamp(heap, e, zone)

\* attach: the timers of the entity follow, whatever controller set them.
AttachTo(e, kind, zone, started) ==
  /\ controller' = [controller EXCEPT ![e] = [kind |-> kind, map |-> zone, started |-> started]]
  /\ heap' = Stamp(heap, e, zone)

\* detach leaves the timers in the heap.  (KeepAttached is a mutant.)
KeepAttached(e) == controller' = controller
Detach(e) == controller' = [controller EXCEPT ![e] = None]

\* with_controller calls the controller in the zone it is given, for a timer, a
\* tick or damage.
Astray(S, zone, call) == {call : e \in {x \in S : Attached(x) /\ controller[x].map # zone}}

-----------------------------------------------------------------------------
Init ==
  /\ scene \in Scenarios /\ count = 0 /\ clock = 0
  /\ store = [z \in Zones |-> {}] /\ meta = [e \in Entities |-> None]
  /\ controller = [e \in Entities |-> None] /\ heap = {} /\ attaching = {}
  /\ struck = {} /\ hurt = {} /\ saved = [z \in Zones |-> {}] /\ worker = Idle /\ astray = {}

\* The other steps do not read the clock.
Elapse == /\ clock < MaxClock /\ clock' = clock + 1
          /\ worker.stage \in {"idle", "serving", "ticking"} \/ worker.fired # <<>>
          /\ UNCHANGED <<scene, count, store, meta, controller, heap, attaching, struck, hurt, saved, worker, astray>>

(* The tick of the worker *)

\* Mutant: a controller wants a tick for as long as it is attached.
WantedByAll == (\E t \in heap : t.at <= clock) \/ (\E e \in Entities : Attached(e))

\* ControllerHost::next_tick_at: the root of the heap, whatever its zone, and
\* the controllers that still want their first tick.
Wanted == \/ \E t \in heap : t.at <= clock
          \/ \E e \in Entities : Attached(e) /\ ~ controller[e].started

Wake ==
  /\ At("idle") /\ Wanted
  /\ worker' = [worker EXCEPT !.stage = "serving", !.left = Zones]
  /\ UNCHANGED <<scene, count, clock, store, meta, controller, heap, attaching, struck, hurt, saved, astray>>

TickZone(z) ==
  /\ At("serving") /\ z \in worker.left
  /\ worker' = [worker EXCEPT !.stage = "timers", !.zone = z, !.now = clock, !.left = @ \ {z}]
  /\ UNCHANGED <<scene, count, clock, store, meta, controller, heap, attaching, struck, hurt, saved, astray>>

\* (AgainOnce is a mutant: a repeating timer repeats once.)
AgainOnce(t) == [t EXCEPT !.at = t.at + t.every, !.every = 0]
Again(t)     == [t EXCEPT !.at = t.at + t.every]

\* A repeating task is pushed back before the next one is popped: one that
\* missed several intervals fires once for each.
Pop(t) ==
  /\ At("timers") /\ First(DueNow(worker.zone, worker.now), t)
  /\ worker' = [worker EXCEPT !.fired = Append(@, t)]
  /\ heap' = (heap \ {t}) \cup (IF t.every > 0 THEN {Again(t)} ELSE {})
  /\ UNCHANGED <<scene, count, clock, store, meta, controller, attaching, struck, hurt, saved, astray>>

\* What the controllers do with their timer 1, at any moment: a monster sets
\* the next one first, a pet's repeats by itself.
MonsterOnTimer(e) == \E d \in NextDelays : Schedule(e, d, 0, worker.zone)
PetOnTimer(e)     == UNCHANGED heap

\* ... and in their first tick.
MonsterOnTick(e)  == \E d \in FirstDelays : Schedule(e, d, 0, worker.zone)
PetOnTick(e)      == Schedule(e, Interval, Interval, worker.zone)

\* send_event_internal for the first of the fired timers.  A monster may strike
\* somebody of its zone, which lowers the hits and kills nobody
\* (ZoneAdapter::deal_damage).  A controller with full access may remove an entity
\* of its zone, and leaves the controller of that entity alone (remove_entity).
Handle ==
  /\ At("timers") /\ DueNow(worker.zone, worker.now) = {} /\ worker.fired # <<>>
  /\ LET e == Head(worker.fired).owner IN
     /\ astray' = astray \cup Astray({e}, worker.zone, "timer")
     /\ \/ ~ Attached(e) /\ UNCHANGED heap
        \/ Attached(e) /\ controller[e].kind = "monster" /\ MonsterOnTimer(e)
        \/ Attached(e) /\ controller[e].kind = "pet" /\ PetOnTimer(e)
     /\ \/ UNCHANGED store
        \/ /\ Attached(e) /\ "script" \in scene.acts
           /\ \E v \in store[worker.zone] : store' = [store EXCEPT ![worker.zone] = @ \ {v}]
     /\ \/ UNCHANGED struck
        \/ /\ Attached(e) /\ controller[e].kind = "monster" /\ "melee" \in scene.acts
           /\ \E v \in store[worker.zone] \ {e} : struck' = struck \cup {v}
  /\ worker' = [worker EXCEPT !.fired = Tail(@)]
  /\ UNCHANGED <<scene, count, clock, meta, controller, attaching, hurt, saved>>

Handled ==
  /\ At("timers") /\ DueNow(worker.zone, worker.now) = {} /\ worker.fired = <<>>
  /\ worker' = [worker EXCEPT !.stage = "ticking"]
  /\ UNCHANGED <<scene, count, clock, store, meta, controller, heap, attaching, struck, hurt, saved, astray>>

\* The controllers of other zones are skipped.  (MineAll is a mutant.)
MineAll(zone) == {e \in Entities : Attached(e)}
Mine(zone)    == {e \in Entities : Attached(e) /\ controller[e].map = zone}

\* EntityController::tick: its first sets the first timer.
FirstTick(e) ==
  /\ At("ticking") /\ e \in Mine(worker.zone) /\ ~ controller[e].started
  /\ astray' = astray \cup Astray({e}, worker.zone, "tick")
  /\ controller' = [controller EXCEPT ![e].started = TRUE]
  /\ \/ controller[e].kind = "monster" /\ MonsterOnTick(e)
     \/ controller[e].kind = "pet" /\ PetOnTick(e)
  /\ UNCHANGED <<scene, count, clock, store, meta, attaching, struck, hurt, saved, worker>>

\* drain_and_route_events notes the damage for those that have a controller.
Drained == hurt \cup {e \in struck : Attached(e)}

\* After that BaseHandler::tick drains the channel, hands over all the damage noted
\* so far in the zone it is called for, and lets poison work in that zone.  What
\* poison does stays in the channel; a creature it kills is removed from the zone
\* and leaves its controller behind.  (Who is poisoned, and when the poison is
\* due, is not followed.)
Hear ==
  /\ At("ticking") /\ \A e \in Mine(worker.zone) : controller[e].started
  /\ hurt' = {} /\ astray' = astray \cup Astray(Drained, worker.zone, "damage")
  /\ \E sick \in SUBSET store[worker.zone] :
       /\ sick # {} => "poison" \in scene.acts
       /\ struck' = sick
       /\ \E dead \in SUBSET sick :
            /\ dead # {} => "kill" \in scene.acts
            /\ store' = [store EXCEPT ![worker.zone] = @ \ dead]
            /\ meta' = [e \in Entities |-> IF e \in dead THEN None ELSE meta[e]]
  /\ worker' = [worker EXCEPT !.stage = "spawning"]
  /\ UNCHANGED <<scene, count, clock, controller, heap, attaching, saved>>

\* An entity of which nothing is left stands for a serial not used before.
Unused(e) ==
  /\ e \in scene.cast \ (struck \cup hurt) /\ ~ Attached(e) /\ ~ Waiting(e)
  /\ \A z \in Zones : e \notin store[z] /\ \A s \in saved[z] : s.of # e
  /\ \A t \in heap : t.owner # e

Busy == count' = count + 1 /\ count < MaxActs

\* A spawn point of the zone attaches its monster at once.
SpawnPoint(e) ==
  /\ At("spawning") /\ "spawner" \in scene.acts /\ Unused(e) /\ Busy
  /\ store' = [store EXCEPT ![worker.zone] = @ \cup {e}]
  /\ meta' = [meta EXCEPT ![e] = "monster"]
  /\ AttachTo(e, "monster", worker.zone, FALSE)
  /\ UNCHANGED <<scene, clock, attaching, struck, hurt, saved, worker, astray>>

EndZone ==
  /\ At("spawning")
  /\ worker' = IF worker.left = {} THEN Idle ELSE [Idle EXCEPT !.stage = "serving", !.left = worker.left]
  /\ UNCHANGED <<scene, count, clock, store, meta, controller, heap, attaching, struck, hurt, saved, astray>>

(* Commands, and the sessions and tasks that send them *)

Allowed(act) == act \in scene.acts /\ Busy
Knows(e, z)  == e \in store[z] \/ "stale" \in scene.acts
InTime(e)    == "overtake" \in scene.acts \/ ~ Waiting(e)

\* post_command drains the channel at the end of a batch of commands; the damage
\* noted is kept for the next tick.  The command is the last of its batch or not.
PostCommand(dealt) ==
  \/ /\ hurt' = hurt \cup {e \in struck \cup dealt : controller'[e] # None}
     /\ struck' = {}
  \/ struck' = struck \cup dealt /\ UNCHANGED hurt

\* A session spawns a creature and goes on to attach its controller.
SpawnNpc(e, z, kind) ==
  /\ At("idle") /\ Unused(e)
  /\ store' = [store EXCEPT ![z] = @ \cup {e}]
  /\ meta' = [meta EXCEPT ![e] = None]
  /\ attaching' = attaching \cup {[of |-> e, kind |-> kind, map |-> z]}
  /\ UNCHANGED <<scene, count, clock, controller, heap, saved, worker, astray>>
  /\ PostCommand({})

\* Taming, releasing: a controller of another kind for a creature in view.
Replace(e, z, kind) ==
  /\ At("idle") /\ Allowed("replace") /\ e \in store[z] /\ InTime(e)
  /\ Attached(e) /\ controller[e].kind # kind
  /\ attaching' = attaching \cup {[of |-> e, kind |-> kind, map |-> z]}
  /\ UNCHANGED <<scene, clock, store, meta, controller, heap, struck, hurt, saved, worker, astray>>

\* AttachController: the entity is not looked for, the controller that was
\* there is dropped with its timers left.
AttachController(a) ==
  /\ At("idle") /\ a \in attaching
  /\ attaching' = attaching \ {a}
  /\ meta' = [meta EXCEPT ![a.of] = a.kind]
  /\ AttachTo(a.of, a.kind, a.map, FALSE)
  /\ UNCHANGED <<scene, count, clock, store, saved, worker, astray>>
  /\ PostCommand({})

\* RemoveEntity detaches the controller before the entity is looked for.
RemoveEntity(e, z) ==
  /\ At("idle") /\ Allowed("remove") /\ Knows(e, z) /\ InTime(e)
  /\ Detach(e)
  /\ store' = [store EXCEPT ![z] = @ \ {e}]
  /\ meta' = IF e \in store[z] THEN [meta EXCEPT ![e] = None] ELSE meta
  /\ UNCHANGED <<scene, clock, heap, attaching, saved, worker, astray>>
  /\ PostCommand({})

\* Worker::transfer_entity takes the controller off first, and drops it with
\* EntityNotFound when the entity is not in the zone named.
TransferEntity(e, from, to) ==
  /\ At("idle") /\ Allowed("transfer") /\ from # to /\ Knows(e, from) /\ InTime(e)
  /\ IF e \in store[from]
     THEN /\ store' = [store EXCEPT ![from] = @ \ {e}, ![to] = @ \cup {e}]
          /\ IF Attached(e)
             THEN AttachTo(e, controller[e].kind, to, controller[e].started)
             ELSE UNCHANGED <<controller, heap>>
     ELSE Detach(e) /\ UNCHANGED <<store, heap>>
  /\ UNCHANGED <<scene, clock, meta, attaching, saved, worker, astray>>
  /\ PostCommand({})

\* DealDamage from a session.  The kill removes the mobile behind the back of
\* BaseHandler, which detaches nothing.
DealDamage(e, z) ==
  /\ At("idle") /\ Allowed("hit") /\ e \in store[z]
  /\ \/ UNCHANGED <<store, meta>>
     \/ /\ "kill" \in scene.acts
        /\ store' = [store EXCEPT ![z] = @ \ {e}] /\ meta' = [meta EXCEPT ![e] = None]
  /\ UNCHANGED <<scene, clock, controller, heap, attaching, saved, worker, astray>>
  /\ PostCommand({e})

SaveSnapshot(z) ==
  /\ At("idle") /\ Allowed("load")
  /\ saved' = [saved EXCEPT ![z] = {[of |-> e, kind |-> meta[e]] : e \in store[z]}]
  /\ UNCHANGED <<scene, clock, store, meta, controller, heap, attaching, worker, astray>>
  /\ PostCommand({})

\* RestoreSnapshot clears the zone and fills it; no controller is detached,
\* and the restore task attaches new ones for the entities of the save.
RestoreSnapshot(z) ==
  /\ At("idle") /\ Allowed("load") /\ saved[z] # {}
  /\ store' = [store EXCEPT ![z] = {s.of : s \in saved[z]}]
  /\ meta' = [e \in Entities |-> IF \E s \in saved[z] : s.of = e
                                 THEN (CHOOSE s \in saved[z] : s.of = e).kind ELSE meta[e]]
  /\ attaching' = attaching \cup {[of |-> s.of, kind |-> s.kind, map |-> z]
                                  : s \in {r \in saved[z] : r.kind # None}}
  /\ UNCHANGED <<scene, clock, controller, heap, saved, worker, astray>>
  /\ PostCommand({})

Command ==
  \/ \E e \in Entities, z \in Zones, k \in Kinds : SpawnNpc(e, z, k) \/ Replace(e, z, k)
  \/ \E a \in attaching : AttachController(a)
  \/ \E e \in Entities, z \in Zones : RemoveEntity(e, z) \/ DealDamage(e, z)
  \/ \E e \in Entities, y, z \in Zones : TransferEntity(e, y, z)
  \/ \E z \in Zones : SaveSnapshot(z) \/ RestoreSnapshot(z)

Tick ==
  \/ Wake \/ \E z \in Zones : TickZone(z)
  \/ \E t \in heap : Pop(t)
  \/ Handle \/ Handled
  \/ \E e \in Entities : FirstTick(e)
  \/ Hear \/ EndZone

Spawning == \E e \in Entities : SpawnPoint(e)

Next == Elapse \/ Tick \/ Spawning \/ Command

Spec == Init /\ [][Next]_vars
FairSpec == Spec /\ WF_vars(Tick) /\ WF_vars(Elapse)

-----------------------------------------------------------------------------
\* Types, and no two tasks have one id.
TypeOK ==
  /\ \A t, u \in heap : t.id = u.id => t = u
  /\ scene \in [acts : SUBSET Acts, cast : SUBSET Entities] /\ count \in 0 .. MaxActs /\ clock \in 0 .. MaxClock
  /\ store \in [Zones -> SUBSET Entities] /\ meta \in [Entities -> Kinds \cup {None}]
  /\ controller \in [Entities -> Controller \cup {None}]
  /\ heap \subseteq Task /\ attaching \subseteq Attach
  /\ struck \subseteq Entities /\ hurt \subseteq Entities /\ astray \subseteq {"timer", "tick", "damage"}
  /\ saved \in [Zones -> SUBSET [of : Entities, kind : Kinds \cup {None}]]
  /\ worker \in [stage : Stages, left : SUBSET Zones, zone : Zones \cup {None},
                 now : Nat, fired : Seq(Task)]

Without(S) == scene.acts \cap S = {}
Ringing == {worker.fired[i] : i \in DOMAIN worker.fired}

\* The timers that are still to come of an entity with a controller belong to
\* the zone of that controller, through transfers, replacements and restores:
\* with_controller does not look at the zone, so a timer left behind would run
\* its handler against another world.
TimersFollow == \A t \in heap : Attached(t.owner) => t.zone = controller[t.owner].map

\* Damage is heard in the zone it was dealt in: a monster's blow is drained by the
\* tick it falls in, and finds the controller of its target there unless a zone
\* was restored or a command overtook an AttachController.  The blow of a session
\* and the work of poison wait for the tick of whichever zone is next.
DamageStays == Without({"hit", "poison"}) /\ (Without({"melee"}) \/ Without({"load", "overtake"}))

\* A controller is never called in the context of a zone that is not its own
\* (the with_controller doc: "always invoked against the correct zone by the
\* caller"): not for a timer or a tick whatever happens, and for damage not where
\* the damage stays.
RightZone == astray \subseteq {"damage"} /\ (DamageStays => astray = {})

\* A controller that has had its first tick still has a timer to come, in its
\* zone: nothing that happens between two ticks leaves one asleep for ever.
NeverAsleep ==
  At("idle") => \A e \in Entities : Attached(e) /\ controller[e].started =>
                  \E t \in heap : t.owner = e /\ t.zone = controller[e].map

\* ... and only one, unless another controller takes its place: a second one
\* would make the creature act twice as often as its interval says.
OneClockAlways == \A e \in Entities : Attached(e) => Cardinality({t \in heap : t.owner = e}) <= 1
OneClock     == Without({"replace", "load"}) => OneClockAlways

\* No controller outlives its entity, or waits for it in another zone
\* (base_handler.rs: "otherwise the controller outlives its entity"), unless a
\* zone is restored, a script removes an entity, a monster is killed, or a
\* removal or a transfer comes between a spawn and its AttachController.
NoGhostsAlways == \A e \in Entities : Attached(e) => e \in store[controller[e].map]
NoGhosts == Without({"load", "script", "kill", "overtake"}) => NoGhostsAlways

\* Whatever is due rings, and the worker comes to rest, under its own fairness:
\* commands pause, so that the biased select gets to the timer.
ComesToRest == []<>(At("idle") /\ ~ Wanted)

\* The timers of the host are alarms.
AlarmOf(t) == [id |-> t.id, owner |-> t.owner, zone |-> t.zone, at |-> t.at]
AlarmsLeft == {AlarmOf(t) : t \in heap \cup Ringing}

Timers == INSTANCE Alarms WITH
  Owners <- Entities, AlarmZones <- Zones, Ids <- TaskIds, Nowhere <- None,
  alarms <- AlarmsLeft, serving <- worker.zone

\* Every timer fires once, not before its time and in the zone it belongs to,
\* and none is lost: the heap, the deferral of the tasks of other zones, the
\* re-push of repeating tasks and the list of fired actions implement Alarms.
TimersAreAlarms == Timers!Spec
==============================================================================
