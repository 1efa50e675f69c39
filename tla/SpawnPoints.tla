----------------------------- MODULE SpawnPoints -----------------------------
(***************************************************************************)
(* The population of spawn points (demo-server/spawn_points.rs): one       *)
(* SpawnManager for all zones keeps max_count monsters alive for each      *)
(* static point and each spawner object, from the ticks of the zones; the  *)
(* handler (demo-server/handler.rs) adopts the monsters of a restored zone *)
(* after that.  Time is abstract: a respawn deadline is still to come      *)
(* ("later") or has passed ("due").                                        *)
(***************************************************************************)
EXTENDS Integers, FiniteSets, FiniteSetsExt

CONSTANTS
  Zones, Points, Spawners,
  Home,          \* the zone of each static point
  MaxCount, Serials, MaxActs,
  Scenarios,
  None

Origins == Points \cup Spawners

\* "die": monsters die; "leave": they change zones; "spawner": spawner objects
\* are placed, configured and removed; "carry": they are picked up and put
\* down; "restart": the program ends and starts with --load; "torn": the
\* worker ticks between two zones of a load; "load": .load.
Acts == {"die", "leave", "spawner", "carry", "restart", "torn", "load"}

ASSUME SpawnPointsAssumption ==
  /\ Points \cap Spawners = {} /\ None \notin Origins \cup Zones
  /\ Zones \cap {"new", "hand", "gone"} = {}
  /\ Home \in [Points -> Zones]
  /\ MaxCount \in Nat \ {0} /\ MaxActs \in Nat
  /\ Serials \subseteq Nat /\ IsFiniteSet(Serials) /\ IsFiniteSet(Zones)
  /\ Scenarios \subseteq [acts : SUBSET Acts, zones : SUBSET Zones]

VARIABLES
  scene,       \* which acts happen, and whether commands have created every zone
  acts,
  zones,       \* the zones the worker has
  store,       \* per zone: the spawn_origin of each monster that is there
  spawner,     \* the spawner objects
  taken,       \* serials in use
  alive,       \* SpawnState.alive, DynSpawnState.alive: the k-th entry of a serial m is <<m, k>>
  respawn,     \* respawn_at
  adopted, pending,  \* adopted_zones, pending_adopt
  rescan,      \* sets_need_rescan
  saved,       \* the save file
  loading,     \* zones whose RestoreSnapshot is in the channel
  worker
vars == <<scene, acts, zones, store, spawner, taken, alive, respawn, adopted, pending, rescan, saved, loading, worker>>
manager == <<alive, respawn, adopted, pending>>

Monsters == [Serials -> Origins \cup {None}]
Places   == Zones \cup {"new", "hand", "gone"}
Spawner  == [zone : Places, enabled : BOOLEAN, delete : BOOLEAN, max : 1 .. MaxCount]
Image    == [monsters : Monsters, spawners : [Spawners -> Spawner]]
Nothing  == [m \in Serials |-> None]
NoSlots  == [due |-> 0, later |-> 0]
Unplaced == [zone |-> "new", enabled |-> TRUE, delete |-> FALSE, max |-> MaxCount]
Gone     == [Unplaced EXCEPT !.zone = "gone"]
Idle     == [stage |-> "idle", left |-> {}, zone |-> None, todo |-> {}]

In(z)      == {m \in Serials : store[z][m] # None}
Copies(m, tracked) == Cardinality({e \in tracked : e[1] = m})
Allowed(a) == worker.stage = "idle" /\ a \in scene.acts /\ acts < MaxActs /\ acts' = acts + 1

Fresh == /\ alive = [o \in Origins |-> {}] /\ respawn = [o \in Origins |-> NoSlots]
         /\ adopted = {} /\ pending = {} /\ rescan = 0

Init ==
  /\ scene \in Scenarios /\ acts = 0
  /\ zones = scene.zones
  /\ store = [z \in Zones |-> Nothing] /\ spawner = [s \in Spawners |-> Unplaced]
  /\ taken = {} /\ Fresh
  /\ saved = [z \in Zones |-> None] /\ loading = {}
  /\ worker = Idle

-----------------------------------------------------------------------------
(* The tick *)

Slots(o) == respawn[o].due + respawn[o].later

\* DemoHandler::next_tick_at; the controllers wake the worker too, whenever
\* they like.  (WantedStatic is a mutant: spawner objects are forgotten.)
WantedStatic == rescan > 0 \/ pending # {} \/ \E p \in Points : respawn[p].due > 0
Wanted == rescan > 0 \/ pending # {} \/ \E o \in Origins : respawn[o].due > 0

Wake ==
  /\ worker.stage = "idle" /\ zones # {}
  /\ loading = {} \/ "torn" \in scene.acts
  /\ worker' = [Idle EXCEPT !.stage = "ticking", !.left = zones]
  /\ UNCHANGED <<scene, acts, zones, store, spawner, taken, manager, rescan, saved, loading>>

\* adopt_zone adds what it finds to alive, whether it is there already or not.
\* (AdoptNone is a mutant: the zone is marked and nothing adopted.)
AdoptNone(z, tracking) == tracking
Adopt(z, tracking) ==
  [o \in Origins |->
     IF o \in Points /\ Home[o] # z THEN tracking[o]
     ELSE tracking[o] \cup {<<m, Copies(m, tracking[o]) + 1>> : m \in {n \in In(z) : store[z][n] = o}}]

\* What tick_dynamic finds in the zone; it forgets every other spawner.
Found(z) == {s \in Spawners : spawner[s].zone = z}
Kept(tracking, z, nothing) ==
  [o \in Origins |-> IF o \in Points \cup Found(z) THEN tracking[o] ELSE nothing]

\* SpawnManager::tick up to the points, and the scan of tick_dynamic: while a
\* restore is on its way a zone that is not adopted is passed over.
Enter(z) ==
  /\ worker.stage = "ticking" /\ z \in worker.left
  /\ IF z \notin adopted /\ rescan > 0
     THEN /\ worker' = [worker EXCEPT !.stage = "zone", !.zone = z, !.left = @ \ {z}]
          /\ UNCHANGED manager
     ELSE /\ adopted' = adopted \cup {z} /\ pending' = pending \ {z}
          /\ alive' = Kept(IF z \in adopted THEN alive ELSE Adopt(z, alive), z, {})
          /\ respawn' = Kept(respawn, z, NoSlots)
          /\ worker' = [worker EXCEPT !.stage = "zone", !.zone = z, !.left = @ \ {z},
               !.todo = {p \in Points : Home[p] = z} \cup {s \in Found(z) : ~ spawner[s].delete}]
  /\ UNCHANGED <<scene, acts, zones, store, spawner, taken, rescan, saved, loading>>

Enabled(o)  == o \in Points \/ spawner[o].enabled
MaxOf(o)    == IF o \in Points THEN MaxCount ELSE spawner[o].max
Living(o)   == {e \in alive[o] : e[1] \in In(worker.zone)}
AtLeast0(n) == IF n > 0 THEN n ELSE 0
Dead(o)     == Cardinality(alive[o] \ Living(o))
\* The bootstrap tops up what the living, the slots and those of the dead leave open.
Short(o)    == AtLeast0(MaxOf(o) - Cardinality(alive[o]) - Slots(o))

Lowest(n) == CHOOSE T \in kSubset(n, Serials \ taken) : \A a \in T, b \in (Serials \ taken) \ T : a < b
AtMost(n) == IF n <= Cardinality(Serials \ taken) THEN n ELSE Cardinality(Serials \ taken)

\* What waits after the slots that were due are filled.
\* (PendingLost is a mutant: a spawn that fails is not tried again.)
PendingLost(o, failed)  == [due |-> 0, later |-> respawn[o].later + Dead(o)]
StillPending(o, failed) == [due |-> 0, later |-> respawn[o].later + Dead(o) + failed]

\* One static point, or one spawner after the points: the dead leave a slot
\* each, slots that are due are filled while serials last.  A spawner that is
\* disabled loses its slots.
Populate(o) ==
  /\ worker.stage = "zone" /\ o \in worker.todo
  /\ o \in Spawners => worker.todo \cap Points = {}
  /\ LET want == IF Enabled(o) THEN respawn[o].due + Short(o) ELSE 0
         born == Lowest(AtMost(want))
     IN
     /\ alive'   = [alive EXCEPT ![o] = Living(o) \cup (born \X {1})]
     /\ respawn' = [respawn EXCEPT ![o] = IF Enabled(o) THEN StillPending(o, want - Cardinality(born))
                                          ELSE NoSlots]
     /\ store' = [store EXCEPT ![worker.zone] = [m \in Serials |-> IF m \in born THEN o ELSE @[m]]]
     /\ taken' = taken \cup born
  /\ worker' = [worker EXCEPT !.todo = @ \ {o}]
  /\ UNCHANGED <<scene, acts, zones, spawner, adopted, pending, rescan, saved, loading>>

\* The spawners flagged for deletion go, and the handler adopts the zone if a
\* restore was seen -- of whichever zone.
EndZone ==
  /\ worker.stage = "zone" /\ worker.todo = {}
  /\ LET z == worker.zone
         skipped == z \notin adopted
         deleted == IF skipped THEN {} ELSE {s \in Found(z) : spawner[s].delete}
         forget(f, nothing) == [o \in Origins |-> IF o \in deleted THEN nothing ELSE f[o]]
     IN
     /\ spawner' = [s \in Spawners |-> IF s \in deleted THEN Gone ELSE spawner[s]]
     /\ respawn' = forget(respawn, NoSlots)
     /\ IF rescan > 0
        THEN /\ alive' = Adopt(z, forget(alive, {}))
             /\ adopted' = adopted \cup {z} /\ pending' = pending \cup {z}
             /\ rescan' = rescan - 1
        ELSE alive' = forget(alive, {}) /\ UNCHANGED <<adopted, pending, rescan>>
  /\ worker' = IF worker.left = {} THEN Idle ELSE [Idle EXCEPT !.stage = "ticking", !.left = worker.left]
  /\ UNCHANGED <<scene, acts, zones, store, taken, saved, loading>>

\* Time passes for one of the respawn deadlines.
Elapse(o) ==
  /\ respawn[o].later > 0
  /\ respawn' = [respawn EXCEPT ![o] = [due |-> @.due + 1, later |-> @.later - 1]]
  /\ UNCHANGED <<scene, acts, zones, store, spawner, taken, alive, adopted, pending, rescan, saved, loading, worker>>
-----------------------------------------------------------------------------
(* Commands *)

\* handle_kill_mobile, RemoveEntity, .clear: the serial stays in use.
Die(z, m) ==
  /\ Allowed("die") /\ m \in In(z)
  /\ store' = [store EXCEPT ![z][m] = None]
  /\ UNCHANGED <<scene, zones, spawner, taken, manager, rescan, saved, loading, worker>>

\* transfer_entity takes the props along.
Leave(m, from, to) ==
  /\ Allowed("leave") /\ from # to /\ m \in In(from)
  /\ store' = [store EXCEPT ![from][m] = None, ![to][m] = store[from][m]]
  /\ zones' = zones \cup {to}
  /\ UNCHANGED <<scene, spawner, taken, manager, rescan, saved, loading, worker>>

\* A spawner object is placed, removed, enabled or disabled, given another
\* max_count, or flagged for deletion.
Configure(s, r) ==
  /\ Allowed("spawner")
  /\ \/ spawner[s] = Unplaced /\ \E z \in zones : r = [Unplaced EXCEPT !.zone = z]
     \/ /\ spawner[s].zone \in Zones
        /\ \/ r = Gone
           \/ r = [spawner[s] EXCEPT !.enabled = ~ @]
           \/ r = [spawner[s] EXCEPT !.max = r.max]
           \/ r = [spawner[s] EXCEPT !.delete = TRUE]
  /\ r # spawner[s]
  /\ spawner' = [spawner EXCEPT ![s] = r]
  /\ UNCHANGED <<scene, zones, store, taken, manager, rescan, saved, loading, worker>>

\* It is an item: it can be picked up, with its props left behind, and dropped.
Carry(s, z) ==
  /\ Allowed("carry")
  /\ \/ spawner[s].zone \in Zones /\ z = "hand"
     \/ spawner[s].zone = "hand" /\ z \in zones
  /\ spawner' = [spawner EXCEPT ![s].zone = z]
  /\ UNCHANGED <<scene, zones, store, taken, manager, rescan, saved, loading, worker>>

\* .save (all zones in one step): asking a zone for its image creates it.
\* Zones without entities are left out.
ImageOf(z) == [monsters |-> store[z],
               spawners |-> [s \in Spawners |-> IF spawner[s].zone = z THEN spawner[s] ELSE Unplaced]]
Save(players) ==
  /\ worker.stage = "idle" /\ loading = {} /\ {"restart", "load"} \cap scene.acts # {}
  /\ acts < MaxActs /\ acts' = acts + 1
  /\ zones' = Zones
  /\ saved' = [z \in Zones |-> IF z = players \/ In(z) # {} \/ Found(z) # {} THEN ImageOf(z) ELSE None]
  /\ UNCHANGED <<scene, store, spawner, taken, manager, rescan, loading, worker>>

HasSave == \E z \in Zones : saved[z] # None

\* .load sends a RestoreSnapshot for each zone of the file.
Load ==
  /\ Allowed("load") /\ loading = {} /\ HasSave
  /\ loading' = {z \in Zones : saved[z] # None}
  /\ UNCHANGED <<scene, zones, store, spawner, taken, manager, rescan, saved, worker>>

\* (SavedInNone is a mutant: nothing is marked as occupied.)
SavedInNone(z) == {}
SavedIn(z) == {m \in Serials : saved[z].monsters[m] # None}

\* The program ends; started with --load it does the same, with an allocator
\* seeded from the file, in a worker without zones.
Restart ==
  /\ Allowed("restart") /\ HasSave
  /\ zones' = {}
  /\ store' = [z \in Zones |-> Nothing]
  /\ spawner' = [s \in Spawners |-> IF spawner[s] = Unplaced THEN Unplaced ELSE Gone]
  /\ taken' = UNION {SavedIn(z) : z \in {y \in Zones : saved[y] # None}}
  /\ alive' = [o \in Origins |-> {}] /\ respawn' = [o \in Origins |-> NoSlots]
  /\ adopted' = {} /\ pending' = {} /\ rescan' = 0
  /\ loading' = {z \in Zones : saved[z] # None}
  /\ UNCHANGED <<scene, saved, worker>>

\* RestoreSnapshot replaces what is in the zone, whatever it is.
Restore(z) ==
  /\ worker.stage = "idle" /\ z \in loading
  /\ zones' = zones \cup {z} /\ loading' = loading \ {z}
  /\ store' = [store EXCEPT ![z] = saved[z].monsters]
  /\ spawner' = [s \in Spawners |-> IF saved[z].spawners[s] # Unplaced THEN saved[z].spawners[s]
                                    ELSE IF spawner[s].zone = z THEN Gone ELSE spawner[s]]
  /\ taken' = taken \cup SavedIn(z)
  /\ rescan' = rescan + 1
  /\ UNCHANGED <<scene, acts, manager, saved, worker>>

Command ==
  \/ \E z \in Zones, m \in Serials : Die(z, m)
  \/ \E m \in Serials, y, z \in Zones : Leave(m, y, z)
  \/ \E s \in Spawners, r \in Spawner : Configure(s, r)
  \/ \E s \in Spawners, z \in zones \cup {"hand"} : Carry(s, z)
  \/ Load \/ Restart
  \/ \E z \in Zones : Save(z) \/ Restore(z)

Tick ==
  \/ Wake
  \/ \E z \in Zones : Enter(z)
  \/ \E o \in Origins : Populate(o)
  \/ EndZone

Next == Tick \/ (\E o \in Origins : Elapse(o)) \/ Command
Spec == Init /\ [][Next]_vars

\* The worker wakes at a deadline, finishes what it does, and takes commands.
FairSpec ==
  /\ Spec
  /\ WF_vars(Wanted /\ Wake) /\ WF_vars(worker.stage # "idle" /\ Tick)
  /\ WF_vars(\E z \in Zones : Restore(z))
  /\ \A o \in Origins : WF_vars(Elapse(o))

-----------------------------------------------------------------------------
TypeOK ==
  /\ acts \in 0 .. MaxActs /\ zones \subseteq Zones /\ rescan \in 0 .. MaxActs * Cardinality(Zones)
  /\ store \in [Zones -> Monsters] /\ spawner \in [Spawners -> Spawner] /\ taken \subseteq Serials
  /\ \A o \in Origins : /\ alive[o] \subseteq taken \X Nat /\ IsFiniteSet(alive[o])
                        /\ respawn[o] \in [due : Nat, later : Nat]
  /\ adopted \subseteq zones /\ pending \subseteq adopted /\ loading \subseteq Zones
  /\ saved \in [Zones -> Image \cup {None}]
  /\ worker \in [stage : {"idle", "ticking", "zone"}, left : SUBSET Zones, zone : Zones \cup {None}, todo : SUBSET Origins]

Population(o) == UNION {{m \in Serials : store[z][m] = o} : z \in Zones}

\* The scenarios in which the manager keeps its promise: no zone is restored
\* that it has adopted before, all zones of a load are restored before the
\* worker ticks, and spawner objects stay in the only zone there ever is.
Calm == /\ {"load", "torn", "leave", "carry"} \cap scene.acts = {}
        /\ "spawner" \in scene.acts => Cardinality(scene.zones) = 1 /\ "restart" \notin scene.acts

\* No spawn point has more monsters than its max_count, whatever dies, is
\* saved and restored.
PopulationAlways == \A o \in Origins : Cardinality(Population(o)) <= MaxCount
PopulationBounded == Calm => PopulationAlways

\* A zone whose points are populated and about which nothing is on its way.
Settled(z) == z \in adopted \ pending /\ worker.stage = "idle" /\ rescan = 0 /\ z \notin loading

\* The living a point counts, the dead it has not noticed and the places that
\* wait are never less than max_count, whatever is restored: no place is lost.
\* In a calm scenario they are max_count, and every monster that lives is
\* counted once by the point or spawner it is from: none has two places.
Accounted ==
  /\ \A p \in Points : Settled(Home[p]) => Cardinality(alive[p]) + Slots(p) >= MaxCount
  /\ Calm => \A z \in Zones : Settled(z) =>
       /\ \A p \in Points : Home[p] = z => Cardinality(alive[p]) + Slots(p) = MaxCount
       /\ \A m \in In(z) : LET o == store[z][m] IN
            o \in Points \cup Found(z) => Copies(m, alive[o]) = 1

\* A place that waits to be refilled does not wait for ever, unless there are
\* no serials left.
Refilled == []<>(\A o \in Origins : Slots(o) = 0 \/ taken = Serials)
=============================================================================
