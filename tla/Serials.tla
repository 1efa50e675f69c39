------------------------------ MODULE Serials ------------------------------
(***************************************************************************)
(* Serials and who uses them: the SerialAllocator shared by the engine,    *)
(* the sessions and the scripts, the script manager that releases what was *)
(* allocated while a script ran (framework/src/mitos/manager.rs,           *)
(* demo-server/lua_script/watcher.rs), and the worker, which spawns,       *)
(* removes, moves, saves and restores the entities that carry the serials. *)
(* The mutex of the allocator is held for one call; free_since is a call   *)
(* of several steps here, during which nobody else gets the lock.          *)
(***************************************************************************)
EXTENDS FreeRanges, Sequences

CONSTANTS
  First, Last,      \* first serial of a kind, and the one behind its last
  Zones, ScriptZone,
  MaxAllocs, MaxQueue, MaxActs,
  Scenarios,
  None

Kinds == {"mobile", "item"}

\* "scripts" run and stop; "alongside": others allocate while a script runs; "meanwhile": while it is cleaned
\* up after; "transfer": entities change zones; "keep": items go into
\* containers; "load": zones are saved and loaded; "clear": .clear empties one.
Acts == {"scripts", "alongside", "meanwhile", "transfer", "keep", "load", "clear"}

ASSUME SerialsAssumption ==
  /\ First \in [Kinds -> Nat] /\ Last \in [Kinds -> Nat]
  /\ \A k \in Kinds : First[k] < Last[k]
  /\ Last["mobile"] < First["item"]
  /\ ScriptZone \in Zones
  /\ MaxAllocs \in Nat /\ MaxQueue \in Nat /\ MaxActs \in Nat
  /\ Scenarios \subseteq SUBSET Acts
  /\ None \notin [serial : Nat, by : {"script", "other"}, zone : Zones]
  /\ None # "other"

\* ITEM_BOUNDARY lies between the two.
KindOf(n) == IF n < Last["mobile"] THEN "mobile" ELSE "item"
AllSerials == UNION {First[k] .. Last[k] - 1 : k \in Kinds}

VARIABLES
  scene,       \* what may happen; never changes
  acts, allocs,
  pool,        \* Inner.mobiles and Inner.items
  log,         \* alloc_log
  persistent,
  held,        \* serials allocated whose Spawn is not sent yet
  queue,       \* the commands of the worker
  world,       \* per zone: who spawned the entity of a serial, and where it is
  saved,       \* per zone: the entities of the save
  worker,      \* a RestoreSnapshot under way
  manager      \* the script manager and its DemoCallbacks
vars == <<scene, acts, allocs, pool, log, persistent, held, queue, world, saved, worker, manager>>
allocator == <<pool, log, persistent>>
others    == <<held, queue, world, saved, worker>>

Owners == {"script", "other"}
Wanted == [serial : AllSerials, by : Owners, zone : Zones]
Entity == [by : Owners, kept : BOOLEAN]
Stages == {"stopped", "running", "freeing", "removing", "poisoned"}
Nobody == [n \in AllSerials |-> None]
Serving == [stage |-> "serving", zone |-> ScriptZone, left |-> {}]

Allowed(act) == act \in scene /\ acts < MaxActs /\ acts' = acts + 1
\* A thread that panics with the lock leaves it poisoned for all others.
Unlocked     == manager.stage \notin {"freeing", "poisoned"}

Init ==
  /\ scene \in Scenarios /\ acts = 0 /\ allocs = 0
  /\ pool = [k \in Kinds |-> Whole(First[k], Last[k])]
  /\ log = <<>> /\ persistent = {}
  /\ held = {} /\ queue = <<>>
  /\ world = [z \in Zones |-> Nobody] /\ saved = [z \in Zones |-> Nobody]
  /\ worker = Serving
  /\ manager = [stage |-> "stopped", since |-> 0, todo |-> <<>>, freed |-> <<>>]

-----------------------------------------------------------------------------
(* Those who allocate: a script, and sessions, handlers and spawn points *)

MayAllocate(by) ==
  \/ by = "script" /\ manager.stage = "running"
  \/ by = "other" /\ manager.stage = "running" /\ "alongside" \in scene
  \/ by = "other" /\ manager.stage = "removing" /\ "meanwhile" \in scene
  \/ by = "other" /\ manager.stage = "stopped"

\* alloc_mobile and alloc_item.
Alloc(k, by, z) ==
  /\ Unlocked /\ MayAllocate(by) /\ allocs < MaxAllocs
  /\ by = "script" => z = ScriptZone
  /\ \E n \in DOMAIN pool[k].free :
       /\ IsFirst(pool[k].free, n)
       /\ pool' = [pool EXCEPT ![k] = AllocOne(@, n)]
       /\ log' = Append(log, n)
       /\ held' = held \cup {[serial |-> n, by |-> by, zone |-> z]}
  /\ allocs' = allocs + 1
  /\ UNCHANGED <<scene, acts, persistent, queue, world, saved, worker, manager>>

Spawn(h)  == [op |-> "spawn", of |-> h]
Remove(n) == [op |-> "remove", of |-> [serial |-> n, by |-> "script", zone |-> ScriptZone]]

Send(h) ==
  /\ h \in held /\ Len(queue) < MaxQueue
  /\ held' = held \ {h} /\ queue' = Append(queue, Spawn(h))
  /\ UNCHANGED <<scene, acts, allocs, allocator, world, saved, worker, manager>>

\* persist(serial) of a script, about something it has spawned.
Persist(n) ==
  /\ Unlocked /\ manager.stage = "running" /\ n \notin persistent
  /\ world[ScriptZone][n] # None /\ world[ScriptZone][n].by = "script"
  /\ persistent' = persistent \cup {n}
  /\ UNCHANGED <<scene, acts, allocs, pool, log, others, manager>>

-----------------------------------------------------------------------------
(* The worker *)

\* SpawnEntity, and RemoveEntity, which finds nothing when the serial is in
\* another zone or inside a container.
Handle ==
  /\ worker.stage = "serving" /\ queue # <<>>
  /\ LET h == Head(queue).of IN
     world' = [world EXCEPT ![h.zone][h.serial] =
                 IF Head(queue).op = "spawn" THEN [by |-> h.by, kept |-> FALSE]
                 ELSE IF @ # None /\ @.kept THEN @ ELSE None]
  /\ queue' = Tail(queue)
  /\ UNCHANGED <<scene, acts, allocs, allocator, held, saved, worker, manager>>

\* A player puts an item into a container.
Keep(z, n) ==
  /\ worker.stage = "serving" /\ Allowed("keep")
  /\ KindOf(n) = "item" /\ world[z][n] # None
  /\ world' = [world EXCEPT ![z][n].kept = TRUE]
  /\ UNCHANGED <<scene, allocs, allocator, held, queue, saved, worker, manager>>

Transfer(n, from, to) ==
  /\ worker.stage = "serving" /\ Allowed("transfer")
  /\ from # to /\ world[from][n] # None /\ ~ world[from][n].kept
  /\ world' = [world EXCEPT ![from][n] = None, ![to][n] = world[from][n]]
  /\ UNCHANGED <<scene, allocs, allocator, held, queue, saved, worker, manager>>

Save(z) ==
  /\ worker.stage = "serving" /\ Allowed("load")
  /\ saved' = [saved EXCEPT ![z] = world[z]]
  /\ UNCHANGED <<scene, allocs, allocator, held, queue, world, worker, manager>>

\* RestoreSnapshot with reset_alloc FALSE clears the zone and marks the serials
\* of the save one by one, each under the lock: others allocate in between.
Restore(z) ==
  /\ worker.stage = "serving" /\ Allowed("load") /\ saved[z] # Nobody
  /\ world' = [world EXCEPT ![z] = Nobody]
  /\ worker' = [stage |-> "restoring", zone |-> z,
                left |-> {n \in AllSerials : saved[z][n] # None}]
  /\ UNCHANGED <<scene, allocs, allocator, held, queue, saved, manager>>

\* SerialAllocator::mark_occupied
Mark(n) ==
  /\ Unlocked /\ worker.stage = "restoring" /\ n \in worker.left
  /\ pool' = [pool EXCEPT ![KindOf(n)] = MarkOccupied(@, n)]
  /\ worker' = [worker EXCEPT !.left = @ \ {n}]
  /\ UNCHANGED <<scene, acts, allocs, log, persistent, held, queue, world, saved, manager>>

Restored ==
  /\ worker.stage = "restoring" /\ worker.left = {}
  /\ world' = [world EXCEPT ![worker.zone] = saved[worker.zone]]
  /\ worker' = Serving
  /\ UNCHANGED <<scene, acts, allocs, allocator, held, queue, saved, manager>>

\* ResetZone, sent by .clear of one zone, resets the allocator of all: every
\* serial is free, the log and what is persistent are forgotten.
ResetZone(z) ==
  /\ Unlocked /\ worker.stage = "serving" /\ Allowed("clear")
  /\ world' = [world EXCEPT ![z] = Nobody]
  /\ pool' = [k \in Kinds |-> Whole(First[k], Last[k])]
  /\ log' = <<>> /\ persistent' = {}
  /\ UNCHANGED <<scene, allocs, held, queue, saved, worker, manager>>

-----------------------------------------------------------------------------
(* The script manager *)

\* Mutant: the snapshot of the first script is kept.
StartScriptAgain ==
  /\ Unlocked /\ manager.stage = "stopped" /\ "scripts" \in scene
  /\ manager' = [manager EXCEPT !.stage = "running"]
  /\ UNCHANGED <<scene, acts, allocs, allocator, others>>

\* on_before_spawn
StartScript ==
  /\ Unlocked /\ manager.stage = "stopped" /\ "scripts" \in scene
  /\ manager' = [manager EXCEPT !.stage = "running", !.since = Len(log)]
  /\ UNCHANGED <<scene, acts, allocs, allocator, others>>

\* stop_current_task: the script is awaited; what it has allocated and not
\* sent is forgotten.  free_since takes the lock and cuts the log.
StopScript ==
  /\ manager.stage = "running" /\ manager.since <= Len(log)
  /\ held' = {h \in held : h.by # "script"}
  /\ manager' = [manager EXCEPT !.stage = "freeing",
                   !.todo = SubSeq(log, manager.since + 1, Len(log))]
  /\ log' = SubSeq(log, 1, manager.since)
  /\ UNCHANGED <<scene, acts, allocs, pool, persistent, queue, world, saved, worker>>

\* After a reset the snapshot may lie behind the end of the log: the slice
\* panics in free_since, which has the lock.
StopPanics ==
  /\ manager.stage = "running" /\ manager.since > Len(log)
  /\ held' = {h \in held : h.by # "script"}
  /\ manager' = [manager EXCEPT !.stage = "poisoned"]
  /\ UNCHANGED <<scene, acts, allocs, allocator, queue, world, saved, worker>>

\* The loop of free_since: what is persistent goes back into the log.
FreeNext ==
  /\ manager.stage = "freeing" /\ manager.todo # <<>>
  /\ LET n == Head(manager.todo) IN
     IF n \in persistent
     THEN /\ log' = Append(log, n) /\ pool' = pool
          /\ manager' = [manager EXCEPT !.todo = Tail(@)]
     ELSE /\ log' = log
          /\ pool' = [pool EXCEPT ![KindOf(n)] = FreeOne(@, n)]
          /\ manager' = [manager EXCEPT !.todo = Tail(@), !.freed = Append(@, n)]
  /\ UNCHANGED <<scene, acts, allocs, persistent, others>>

Freed ==
  /\ manager.stage = "freeing" /\ manager.todo = <<>>
  /\ manager' = [manager EXCEPT !.stage = "removing"]
  /\ UNCHANGED <<scene, acts, allocs, allocator, others>>

\* Mutant: one removal is sent and the rest forgotten.
SendRemoveOnce ==
  /\ manager.stage = "removing" /\ manager.freed # <<>> /\ Len(queue) < MaxQueue
  /\ queue' = Append(queue, Remove(Head(manager.freed)))
  /\ manager' = [manager EXCEPT !.freed = <<>>]
  /\ UNCHANGED <<scene, acts, allocs, allocator, held, world, saved, worker>>

\* on_after_stop sends a RemoveEntity for each, to the zone of the scripts.
SendRemove ==
  /\ manager.stage = "removing" /\ manager.freed # <<>> /\ Len(queue) < MaxQueue
  /\ queue' = Append(queue, Remove(Head(manager.freed)))
  /\ manager' = [manager EXCEPT !.freed = Tail(@)]
  /\ UNCHANGED <<scene, acts, allocs, allocator, held, world, saved, worker>>

Stopped ==
  /\ manager.stage = "removing" /\ manager.freed = <<>>
  /\ manager' = [manager EXCEPT !.stage = "stopped"]
  /\ UNCHANGED <<scene, acts, allocs, allocator, others>>

Manager == StartScript \/ StopScript \/ StopPanics \/ FreeNext \/ Freed \/ SendRemove \/ Stopped

Worker ==
  \/ Handle \/ Restored
  \/ \E n \in AllSerials : Mark(n)
  \/ \E z \in Zones, n \in AllSerials : Keep(z, n)
  \/ \E n \in AllSerials, y, z \in Zones : Transfer(n, y, z)
  \/ \E z \in Zones : Save(z) \/ Restore(z) \/ ResetZone(z)

Users ==
  \/ \E k \in Kinds, by \in Owners, z \in Zones : Alloc(k, by, z)
  \/ \E h \in held : Send(h)
  \/ \E n \in AllSerials : Persist(n)

Next == Manager \/ Worker \/ Users
Spec == Init /\ [][Next]_vars

-----------------------------------------------------------------------------
TypeOK ==
  /\ scene \subseteq Acts /\ acts \in 0 .. MaxActs /\ allocs \in 0 .. MaxAllocs
  /\ DOMAIN pool = Kinds
  /\ \A k \in Kinds : /\ DOMAIN pool[k] = {"free", "count"} /\ pool[k].count \in Nat
                      /\ DOMAIN pool[k].free \subseteq AllSerials
                      /\ pool[k].free \in [DOMAIN pool[k].free -> Nat]
  /\ log \in Seq(AllSerials) /\ persistent \subseteq AllSerials
  /\ held \subseteq Wanted /\ queue \in Seq([op : {"spawn", "remove"}, of : Wanted])
  /\ {world, saved} \subseteq [Zones -> [AllSerials -> Entity \cup {None}]]
  /\ worker \in [stage : {"serving", "restoring"}, zone : Zones, left : SUBSET AllSerials]
  /\ manager \in [stage : Stages, since : Nat, todo : Seq(AllSerials), freed : Seq(AllSerials)]

Available == UNION {Covered(pool[k].free) : k \in Kinds}

Distinct(q) == \A i, j \in DOMAIN q : q[i] = q[j] => i = j
Names(q)    == {q[i] : i \in DOMAIN q}
Bounded(p)  == \A k \in Kinds : WellFormed(p[k]) /\ Covered(p[k].free) \subseteq First[k] .. Last[k] - 1
LogSound ==
  /\ Distinct(log) /\ Distinct(manager.todo) /\ Names(log) \cap Names(manager.todo) = {}
  /\ (Names(log) \cup Names(manager.todo)) \cap Available = {}
\* The free ranges of a kind stay within its bounds, never overlap or touch
\* and have the length free_count says; and the log, with what free_since has
\* taken from it, names no serial twice and none that is free.  free_one does
\* not look whether its argument is free already: a serial that came back
\* twice would be handed out twice.
Sound == Bounded(pool) /\ LogSound

\* Those who carry a serial and whose removal is not on its way: the entities
\* of all zones, and those still to be spawned.
RemovalAfter(i, n) ==
  \/ \E j \in i + 1 .. Len(queue) : queue[j] = Remove(n)
  \/ \E j \in DOMAIN manager.freed : manager.freed[j] = n
Bearers(n) ==
  {<<"held", h>> : h \in {g \in held : g.serial = n}}
    \cup {<<"sent", i>> : i \in {j \in DOMAIN queue : /\ queue[j].op = "spawn" /\ queue[j].of.serial = n
                                                    /\ ~ RemovalAfter(j, n)}}
    \cup {<<"in", z>> : z \in {y \in Zones : world[y][n] # None /\ ~ RemovalAfter(0, n)}}

\* No two entities that are there to stay share a serial, and theirs is not
\* free -- as long as what is allocated while a script runs or is cleaned up
\* after is the script's, and stays where it is; and no zone is loaded that
\* entities have left.
Calm == /\ "scripts" \in scene => scene = {"scripts"}
        /\ ~ {"transfer", "load"} \subseteq scene
        /\ "clear" \notin scene
NoSharedSerialAlways ==
  \A n \in AllSerials : Bearers(n) # {} =>
    Cardinality(Bearers(n)) = 1 /\ n \notin Available
NoSharedSerial == Calm => NoSharedSerialAlways

\* Once the removals of a stopped script are handled, nothing is left of the
\* script but what it has marked as persistent.
CleansUp ==
  /\ scene = {"scripts"} /\ manager.stage = "stopped" /\ queue = <<>>
  => \A n \in AllSerials : world[ScriptZone][n] # None /\ world[ScriptZone][n].by = "script"
                              => n \in persistent

\* Stopping a script removes the entities of scripts and of nobody else
\* (watcher.rs: "Provides entity cleanup via serial allocator snapshots").
RemovesOnlyItsOwn ==
  [][\A n \in AllSerials :
       queue # <<>> /\ queue' = Tail(queue) /\ Head(queue) = Remove(n)
         /\ world[ScriptZone][n] # None /\ world[ScriptZone][n].by = "other"
       => world'[ScriptZone][n] # None]_vars

\* The ranges implement the set of free serials.
Pool == INSTANCE SerialPool WITH
  Serials <- AllSerials, Kind <- [n \in AllSerials |-> KindOf(n)], available <- Available

AllocatorIsPool == Pool!Spec
=============================================================================
