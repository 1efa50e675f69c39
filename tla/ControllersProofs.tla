-------------------------- MODULE ControllersProofs --------------------------
(***************************************************************************)
(* Timers follow their controllers, fire once and in their own zone, and   *)
(* no controller sleeps for ever, is called in a zone not its own, or      *)
(* outlives its entity: for any number of entities, zones and timers.      *)
(***************************************************************************)
EXTENDS Controllers, FiniteSetTheorems, TLAPS

\* The scheduler's next_id is never used up.
IdsLeft == \E i \in TaskIds : \A t \in heap : t.id # i

Fired == worker.fired

\* A tick under way.
Working ==
  /\ worker.stage # "timers" => Fired = <<>>
  /\ worker.stage \in {"timers", "ticking", "spawning"} => worker.zone \in Zones
  /\ worker.stage = "timers" => worker.now <= clock
  /\ \A i \in DOMAIN Fired : Fired[i].zone = worker.zone /\ Fired[i].at <= worker.now

\* A timer that fired is not one that is still to come, nor one that fired before.
Ordered ==
  /\ \A i \in DOMAIN Fired : \A t \in heap : t.id = Fired[i].id => Fired[i].at < t.at
  /\ \A i, j \in DOMAIN Fired : i # j /\ Fired[i].id = Fired[j].id => Fired[i].at # Fired[j].at

Follows ==
  /\ TimersFollow
  /\ \A i \in DOMAIN Fired : Attached(Fired[i].owner) => controller[Fired[i].owner].map = worker.zone

\* What a controller is to hear of damage it hears in its zone.
Heard ==
  /\ hurt = {} /\ astray = {} /\ (struck # {} => "melee" \in scene.acts)
  /\ struck # {} => worker.stage \in {"timers", "ticking"}
  /\ \A e \in struck : Attached(e) => controller[e].map = worker.zone

Safe == astray \subseteq {"damage"} /\ (DamageStays => Heard)

\* An entity in a zone is in no other, and neither is its controller.
SitedAt(e, z) ==
  /\ Attached(e) => controller[e].map = z
  /\ \A a \in attaching : a.of = e => a.map = z
  /\ \A y \in Zones : e \in store[y] => y = z
SitedHere == \A e \in Entities, z \in Zones : e \in store[z] => SitedAt(e, z)
Sited == Without({"load", "overtake"}) => SitedHere

Awake ==
  \A e \in Entities : Attached(e) /\ controller[e].started =>
    /\ (\E t \in heap : t.owner = e) \/ (\E i \in DOMAIN Fired : Fired[i].owner = e)
    /\ controller[e].kind = "pet" => \E t \in heap : t.owner = e /\ t.every > 0

Homes ==
  Without({"load", "script", "kill", "overtake"}) =>
    /\ \A e \in Entities : Attached(e) => e \in store[controller[e].map]
    /\ \A a \in attaching : a.of \in store[a.map]

Silent(e) == (\A t \in heap : t.owner # e) /\ (\A i \in DOMAIN Fired : Fired[i].owner # e)

\* A monster has its timer in the heap or among those that fired, not in both.
Alone(e) ==
  /\ \A t, u \in heap : t.owner = e /\ u.owner = e => t = u
  /\ ~ controller[e].started => Silent(e)
  /\ controller[e].kind = "monster" =>
       /\ \A t \in heap : t.owner = e => t.every = 0
       /\ \A i \in DOMAIN Fired : Fired[i].owner = e =>
            /\ \A t \in heap : t.owner # e
            /\ \A j \in DOMAIN Fired : Fired[j].owner = e => j = i

Clocks ==
  Without({"replace", "load"}) =>
    /\ \A a \in attaching : ~ Attached(a.of) /\ Silent(a.of)
    /\ \A a, c \in attaching : a.of = c.of => a = c
    /\ \A e \in Entities : Attached(e) => Alone(e)

Core == TypeOK /\ Working /\ Ordered /\ Follows
IInv == Core /\ Sited /\ Safe /\ Awake /\ Homes /\ Clocks

-----------------------------------------------------------------------------
(* The operators *)

LEMMA ScheduleAdds ==
  ASSUME TypeOK, IdsLeft, NEW e \in Entities, NEW delay \in Nat, NEW every \in Nat, NEW zone \in Zones,
         Schedule(e, delay, every, zone)
  PROVE  \E n \in Task : /\ n.owner = e /\ n.at = clock + delay /\ n.every = every /\ n.zone = zone
                         /\ \A t \in heap : t.id # n.id
                         /\ heap' = heap \cup {n}
<1> DEFINE i == FreeId(heap)
           n == [id |-> i, owner |-> e, at |-> clock + delay, every |-> every, zone |-> zone]
<1>1. i \in TaskIds /\ \A t \in heap : t.id # i
  BY DEF IdsLeft, FreeId
<1>2. clock \in Nat
  BY ControllersAssumption DEF TypeOK
<1>3. heap' = heap \cup {n}
  BY Zenon DEF Schedule
<1> HIDE DEF i
<1>4. n \in Task
  BY <1>1, <1>2 DEF Task
<1> QED BY <1>1, <1>3, <1>4

\* A timer of the entity e once it has come to the zone z.
Stamped(t, e, z) == IF t.owner = e THEN [t EXCEPT !.zone = z] ELSE t

LEMMA StampedIs ==
  ASSUME NEW t \in Task, NEW e, NEW z \in Zones
  PROVE  LET u == Stamped(t, e, z) IN
         /\ u \in Task /\ u.id = t.id /\ u.owner = t.owner /\ u.at = t.at /\ u.every = t.every
         /\ u.zone = IF t.owner = e THEN z ELSE t.zone
BY DEF Stamped, Task

LEMMA StampIs ==
  ASSUME NEW e, NEW z
  PROVE  Stamp(heap, e, z) = {Stamped(t, e, z) : t \in heap}
BY Zenon DEF Stamp, Stamped

LEMMA AgainIs ==
  ASSUME NEW t \in Task, t.every > 0
  PROVE  LET u == Again(t) IN
         /\ u \in Task /\ u.id = t.id /\ u.owner = t.owner /\ u.at = t.at + t.every /\ u.every = t.every
         /\ u.zone = t.zone /\ u.at > t.at
BY DEF Again, Task

LEMMA PopFires ==
  ASSUME NEW f \in Seq(Task), NEW t \in Task
  PROVE  LET g == Append(f, t) IN
         /\ g \in Seq(Task) /\ DOMAIN g = DOMAIN f \cup {Len(f) + 1} /\ Len(f) + 1 \notin DOMAIN f
         /\ g[Len(f) + 1] = t /\ \A i \in DOMAIN f : g[i] = f[i]
OBVIOUS

LEMMA TailFires ==
  ASSUME NEW f \in Seq(Task), f # <<>>
  PROVE  LET g == Tail(f) IN
         /\ g \in Seq(Task) /\ 1 \in DOMAIN f /\ Head(f) = f[1]
         /\ \A i \in DOMAIN g : i \in Nat /\ i + 1 \in DOMAIN f /\ i + 1 # 1 /\ g[i] = f[i + 1]
         /\ \A i \in DOMAIN f : i # 1 => i - 1 \in DOMAIN g /\ g[i - 1] = f[i]
OBVIOUS

LEMMA FiredIs ==
  ASSUME TypeOK
  PROVE  Fired \in Seq(Task) /\ \A i \in DOMAIN Fired : Fired[i] \in Task
BY DEF TypeOK, Fired

LEMMA WorkerIs ==
  ASSUME TypeOK
  PROVE  /\ worker.stage \in Stages /\ worker.left \in SUBSET Zones /\ worker.zone \in Zones \cup {None}
         /\ worker.now \in Nat /\ worker.fired \in Seq(Task)
         /\ DOMAIN worker = {"stage", "left", "zone", "now", "fired"}
BY DEF TypeOK

-----------------------------------------------------------------------------
(* The start *)

LEMMA InitIInv == Init => IInv
<1> SUFFICES ASSUME Init PROVE IInv
  OBVIOUS
<1>1. worker = [stage |-> "idle", left |-> {}, zone |-> None, now |-> 0, fired |-> <<>>]
  BY DEF Init, Idle
<1>2. /\ worker.stage = "idle" /\ worker.fired = <<>>
      /\ worker \in [stage : Stages, left : SUBSET Zones, zone : Zones \cup {None}, now : Nat, fired : Seq(Task)]
  BY <1>1 DEF Stages
<1>3. /\ scene \in Scenarios /\ count = 0 /\ clock = 0 /\ store = [z \in Zones |-> {}]
      /\ meta = [e \in Entities |-> None] /\ controller = [e \in Entities |-> None] /\ heap = {} /\ attaching = {}
      /\ struck = {} /\ hurt = {} /\ saved = [z \in Zones |-> {}] /\ astray = {}
  BY DEF Init
<1>4. TypeOK
  BY <1>2, <1>3, ControllersAssumption DEF TypeOK
<1>5. \A e \in Entities : ~ Attached(e)
  BY <1>3 DEF Attached
<1>6. DOMAIN Fired = {}
  BY <1>2 DEF Fired
<1>7. Working /\ Ordered /\ Follows
  BY <1>2, <1>3, <1>6 DEF Working, Ordered, Follows, TimersFollow, Fired
<1>8. Sited /\ Safe /\ Awake /\ Homes /\ Clocks
  BY <1>3, <1>5 DEF Sited, SitedHere, Safe, Heard, Awake, Homes, Clocks
<1> QED BY <1>4, <1>7, <1>8 DEF IInv, Core

-----------------------------------------------------------------------------
(* Types *)

Distinct(tasks) == \A t, u \in tasks : t.id = u.id => t = u

LEMMA StampTyped ==
  ASSUME TypeOK, NEW e, NEW z \in Zones
  PROVE  Stamp(heap, e, z) \subseteq Task /\ Distinct(Stamp(heap, e, z))
<1>1. heap \subseteq Task /\ Distinct(heap)
  BY DEF TypeOK, Distinct
<1>2. \A t \in heap : Stamped(t, e, z) \in Task /\ Stamped(t, e, z).id = t.id
  BY <1>1, StampedIs
<1>3. Stamp(heap, e, z) \subseteq Task
  BY <1>2, StampIs
<1>4. ASSUME NEW t \in Stamp(heap, e, z), NEW u \in Stamp(heap, e, z), t.id = u.id PROVE t = u
  <2>1. PICK v \in heap : t = Stamped(v, e, z)
    BY StampIs
  <2>2. PICK w \in heap : u = Stamped(w, e, z)
    BY StampIs
  <2>3. v = w
    BY <1>1, <1>2, <1>4, <2>1, <2>2 DEF Distinct
  <2> QED BY <2>1, <2>2, <2>3
<1> QED BY <1>3, <1>4 DEF Distinct

LEMMA AttachTyped ==
  ASSUME TypeOK, NEW e \in Entities, NEW kind \in Kinds, NEW z \in Zones, NEW started \in BOOLEAN,
         AttachTo(e, kind, z, started)
  PROVE  /\ controller' \in [Entities -> Controller \cup {None}]
         /\ heap' \subseteq Task /\ Distinct(heap')
<1>1. [kind |-> kind, map |-> z, started |-> started] \in Controller
  BY DEF Controller
<1> QED BY <1>1, StampTyped DEF TypeOK, AttachTo

LEMMA AddTyped ==
  ASSUME TypeOK, NEW n \in Task, \A t \in heap : t.id # n.id, heap' = heap \cup {n}
  PROVE  heap' \subseteq Task /\ Distinct(heap')
BY DEF TypeOK, Distinct

\* Everything but the tasks.
Frame ==
  /\ scene \in [acts : SUBSET Acts, cast : SUBSET Entities] /\ count \in 0 .. MaxActs /\ clock \in 0 .. MaxClock
  /\ store \in [Zones -> SUBSET Entities] /\ meta \in [Entities -> Kinds \cup {None}]
  /\ attaching \subseteq Attach
  /\ struck \subseteq Entities /\ hurt \subseteq Entities /\ astray \subseteq {"timer", "tick", "damage"}
  /\ saved \in [Zones -> SUBSET [of : Entities, kind : Kinds \cup {None}]]

Clockwork ==
  /\ controller \in [Entities -> Controller \cup {None}]
  /\ heap \subseteq Task /\ Distinct(heap)
  /\ worker \in [stage : Stages, left : SUBSET Zones, zone : Zones \cup {None}, now : Nat, fired : Seq(Task)]

LEMMA TypeParts == TypeOK <=> Frame /\ Clockwork
BY DEF TypeOK, Frame, Clockwork, Distinct

LEMMA TypesTogether ==
  ASSUME Frame', controller' \in [Entities -> Controller \cup {None}], heap' \subseteq Task, Distinct(heap'),
         worker' \in [stage : Stages, left : SUBSET Zones, zone : Zones \cup {None}, now : Nat, fired : Seq(Task)]
  PROVE  TypeOK'
BY DEF TypeOK, Frame, Distinct

LEMMA BusyCounts ==
  ASSUME TypeOK, Busy
  PROVE  count' \in 0 .. MaxActs
BY ControllersAssumption DEF TypeOK, Busy

LEMMA AstrayIs ==
  ASSUME NEW S, NEW zone, NEW call
  PROVE  /\ Astray(S, zone, call) \subseteq {call}
         /\ (\A e \in S : Attached(e) => controller[e].map = zone) => Astray(S, zone, call) = {}
BY DEF Astray

LEMMA PostCommandTyped ==
  ASSUME TypeOK, NEW D \in SUBSET Entities, PostCommand(D)
  PROVE  struck' \subseteq Entities /\ hurt' \subseteq Entities
BY DEF PostCommand, TypeOK

LEMMA ElapseTyped == TypeOK /\ Elapse => TypeOK'
BY ControllersAssumption DEF TypeOK, Elapse

LEMMA WorkerTyped ==
  ASSUME TypeOK, Wake \/ (\E z \in Zones : TickZone(z)) \/ Handled \/ EndZone
  PROVE  TypeOK'
<1>1. Frame' /\ UNCHANGED <<controller, heap>>
  BY TypeParts DEF Frame, Wake, TickZone, Handled, EndZone
<1>2. worker' \in [stage : Stages, left : SUBSET Zones, zone : Zones \cup {None}, now : Nat, fired : Seq(Task)]
  <2>1. clock \in Nat /\ worker \in [stage : Stages, left : SUBSET Zones, zone : Zones \cup {None}, now : Nat, fired : Seq(Task)]
    BY ControllersAssumption DEF TypeOK
  <2>2. CASE Wake
    BY <2>1, <2>2 DEF Wake, Stages
  <2>3. ASSUME NEW z \in Zones, TickZone(z)
        PROVE  worker' \in [stage : Stages, left : SUBSET Zones, zone : Zones \cup {None}, now : Nat, fired : Seq(Task)]
    BY <2>1, <2>3 DEF TickZone, Stages
  <2>4. CASE Handled
    BY <2>1, <2>4 DEF Handled, Stages
  <2>5. CASE EndZone
    <3>1. <<>> \in Seq(Task)
      OBVIOUS
    <3>2. CASE worker.left = {}
      <4>1. worker' = [stage |-> "idle", left |-> {}, zone |-> None, now |-> 0, fired |-> <<>>]
        BY <2>5, <3>2 DEF EndZone, Idle
      <4> QED BY <3>1, <4>1 DEF Stages
    <3>3. CASE worker.left # {}
      <4>1. worker' = [stage |-> "serving", left |-> worker.left, zone |-> None, now |-> 0, fired |-> <<>>]
        BY <2>5, <3>3 DEF EndZone, Idle
      <4> QED BY <2>1, <3>1, <4>1 DEF Stages
    <3> QED BY <3>2, <3>3
  <2> QED BY <2>2, <2>3, <2>4, <2>5
<1> QED BY <1>1, <1>2, TypeParts, TypesTogether DEF Clockwork

LEMMA PopTyped ==
  ASSUME TypeOK, NEW t \in heap, Pop(t)
  PROVE  TypeOK'
<1>1. Frame' /\ UNCHANGED controller
  BY TypeParts DEF Frame, Pop
<1>2. t \in Task /\ heap' = (heap \ {t}) \cup (IF t.every > 0 THEN {Again(t)} ELSE {})
  BY DEF TypeOK, Pop
<1>3. heap' \subseteq Task /\ Distinct(heap')
  <2>1. CASE t.every > 0
    BY <1>2, <2>1, AgainIs DEF TypeOK, Distinct
  <2>2. CASE ~ (t.every > 0)
    BY <1>2, <2>2 DEF TypeOK, Distinct
  <2> QED BY <2>1, <2>2
<1>4. worker' \in [stage : Stages, left : SUBSET Zones, zone : Zones \cup {None}, now : Nat, fired : Seq(Task)]
  BY <1>2, WorkerIs, PopFires DEF TypeOK, Pop
<1> QED BY <1>1, <1>3, <1>4, TypeParts, TypesTogether DEF Clockwork

LEMMA OnTimerAdds ==
  ASSUME TypeOK, Working, IdsLeft, Handle
  PROVE  LET e == Head(Fired).owner IN
         \/ /\ UNCHANGED heap
            /\ ~ Attached(e) \/ controller[e].kind = "pet"
         \/ /\ Attached(e) /\ controller[e].kind = "monster"
            /\ \E n \in Task : /\ n.owner = e /\ n.at > clock /\ n.every = 0 /\ n.zone = worker.zone
                               /\ \A t \in heap : t.id # n.id
                               /\ heap' = heap \cup {n}
<1> DEFINE e == Head(Fired).owner
<1>1. Fired # <<>> /\ worker.zone \in Zones /\ e \in Entities /\ clock \in Nat
  <2>1. Fired # <<>> /\ worker.zone \in Zones
    BY DEF Handle, At, Working, Fired
  <2>2. Head(Fired) \in Task
    BY <2>1, FiredIs, TailFires
  <2> QED BY <2>1, <2>2, ControllersAssumption DEF Task, TypeOK
<1>2. \/ ~ Attached(e) /\ UNCHANGED heap
      \/ Attached(e) /\ controller[e].kind = "monster" /\ MonsterOnTimer(e)
      \/ Attached(e) /\ controller[e].kind = "pet" /\ PetOnTimer(e)
  BY Zenon DEF Handle, Fired
<1> HIDE DEF e
<1>3. CASE Attached(e) /\ controller[e].kind = "monster" /\ MonsterOnTimer(e)
  <2>1. PICK d \in NextDelays : Schedule(e, d, 0, worker.zone)
    BY <1>3 DEF MonsterOnTimer
  <2>2. d \in Nat /\ d > 0
    BY ControllersAssumption
  <2>3. PICK n \in Task : /\ n.owner = e /\ n.at = clock + d /\ n.every = 0 /\ n.zone = worker.zone
                          /\ \A t \in heap : t.id # n.id
                          /\ heap' = heap \cup {n}
    BY <1>1, <2>1, <2>2, ScheduleAdds
  <2>4. n.at > clock
    BY <1>1, <2>2, <2>3
  <2> QED BY <1>3, <2>3, <2>4 DEF e
<1>4. CASE UNCHANGED heap /\ (~ Attached(e) \/ controller[e].kind = "pet")
  BY <1>4 DEF e
<1> QED BY <1>2, <1>3, <1>4 DEF PetOnTimer

LEMMA HandleTyped ==
  ASSUME TypeOK, Working, IdsLeft, Handle
  PROVE  TypeOK'
<1>1. Fired # <<>> /\ worker.zone \in Zones
  BY DEF Handle, At, Working, Fired
<1>2. Head(Fired) \in Task /\ Tail(Fired) \in Seq(Task)
  BY <1>1, FiredIs, TailFires
<1>3. astray' \subseteq {"timer", "tick", "damage"}
  BY AstrayIs DEF Handle, TypeOK
<1>4. store' \in [Zones -> SUBSET Entities] /\ struck' \subseteq Entities
  BY <1>1 DEF Handle, TypeOK
<1>5. Frame' /\ UNCHANGED controller
  BY <1>3, <1>4, TypeParts DEF Frame, Handle
<1>6. heap' \subseteq Task /\ Distinct(heap')
  BY OnTimerAdds, AddTyped DEF TypeOK, Distinct
<1>7. worker' \in [stage : Stages, left : SUBSET Zones, zone : Zones \cup {None}, now : Nat, fired : Seq(Task)]
  BY <1>2 DEF TypeOK, Handle, Fired
<1> QED BY <1>5, <1>6, <1>7, TypeParts, TypesTogether DEF Clockwork

LEMMA FirstTickAdds ==
  ASSUME TypeOK, Working, IdsLeft, NEW e \in Entities, FirstTick(e)
  PROVE  \E n \in Task : /\ n.owner = e /\ n.zone = worker.zone
                         /\ IF controller[e].kind = "pet" THEN n.every > 0 ELSE n.every = 0
                         /\ \A t \in heap : t.id # n.id
                         /\ heap' = heap \cup {n}
<1>1. worker.zone \in Zones
  BY DEF FirstTick, At, Working
<1>2. CASE controller[e].kind = "monster" /\ MonsterOnTick(e)
  <2>1. PICK d \in FirstDelays : Schedule(e, d, 0, worker.zone)
    BY <1>2 DEF MonsterOnTick
  <2>2. d \in Nat
    BY ControllersAssumption
  <2> QED BY <1>1, <1>2, <2>1, <2>2, ScheduleAdds
<1>3. CASE controller[e].kind = "pet" /\ PetOnTick(e)
  <2>1. Interval \in Nat /\ Interval > 0 /\ Schedule(e, Interval, Interval, worker.zone)
    BY <1>3, ControllersAssumption DEF PetOnTick
  <2>2. \E n \in Task : /\ n.owner = e /\ n.at = clock + Interval /\ n.every = Interval /\ n.zone = worker.zone
                        /\ \A t \in heap : t.id # n.id
                        /\ heap' = heap \cup {n}
    BY <1>1, <2>1, ScheduleAdds
  <2> QED BY <1>3, <2>1, <2>2
<1> QED BY <1>2, <1>3 DEF FirstTick

LEMMA FirstTickTyped ==
  ASSUME TypeOK, Working, IdsLeft, NEW e \in Entities, FirstTick(e)
  PROVE  TypeOK'
<1>1. controller[e] \in Controller
  BY DEF TypeOK, FirstTick, Mine, Attached
<1>2. controller' \in [Entities -> Controller \cup {None}]
  <2>1. [controller[e] EXCEPT !.started = TRUE] \in Controller
    BY <1>1 DEF Controller
  <2>2. controller' = [controller EXCEPT ![e] = [controller[e] EXCEPT !.started = TRUE]]
    BY DEF FirstTick
  <2> QED BY <2>1, <2>2 DEF TypeOK
<1>3. astray' \subseteq {"timer", "tick", "damage"}
  BY AstrayIs DEF FirstTick, TypeOK
<1>4. Frame' /\ UNCHANGED worker
  BY <1>3, TypeParts DEF Frame, FirstTick
<1>5. heap' \subseteq Task /\ Distinct(heap')
  BY FirstTickAdds, AddTyped
<1> QED BY <1>2, <1>4, <1>5, TypeParts, TypesTogether DEF Clockwork

LEMMA HearTyped ==
  ASSUME TypeOK, Working, Hear
  PROVE  TypeOK'
<1>1. hurt' = {} /\ astray' \subseteq {"timer", "tick", "damage"}
  BY AstrayIs DEF Hear, TypeOK
<1>2. /\ struck' \subseteq Entities /\ store' \in [Zones -> SUBSET Entities]
      /\ meta' \in [Entities -> Kinds \cup {None}]
  BY DEF Hear, At, Working, TypeOK
<1>4. Frame' /\ UNCHANGED <<controller, heap>>
  BY <1>1, <1>2, TypeParts DEF Frame, Hear
<1>3. worker' \in [stage : Stages, left : SUBSET Zones, zone : Zones \cup {None}, now : Nat, fired : Seq(Task)]
  BY DEF TypeOK, Hear, Stages
<1> QED BY <1>3, <1>4, TypeParts, TypesTogether DEF Clockwork

\* The steps that leave the worker alone.
LEMMA AtEaseTyped ==
  ASSUME TypeOK, UNCHANGED worker, Frame', controller' \in [Entities -> Controller \cup {None}],
         heap' \subseteq Task, Distinct(heap')
  PROVE  TypeOK'
BY TypeParts, TypesTogether DEF Clockwork

LEMMA SpawnPointTyped ==
  ASSUME TypeOK, Working, NEW e \in Entities, SpawnPoint(e)
  PROVE  TypeOK'
<1>1. worker.zone \in Zones
  BY DEF SpawnPoint, At, Working
<1>2. count' \in 0 .. MaxActs
  BY BusyCounts DEF SpawnPoint
<1>3. Frame' /\ UNCHANGED worker
  BY <1>1, <1>2, TypeParts DEF Frame, SpawnPoint, Kinds
<1>4. AttachTo(e, "monster", worker.zone, FALSE)
  BY DEF SpawnPoint
<1> QED BY <1>1, <1>3, <1>4, AttachTyped, AtEaseTyped DEF Kinds

LEMMA ControllerIs ==
  ASSUME TypeOK, NEW e \in Entities, Attached(e)
  PROVE  /\ controller[e] \in Controller
         /\ controller[e].kind \in Kinds /\ controller[e].map \in Zones /\ controller[e].started \in BOOLEAN
BY DEF TypeOK, Attached, Controller

LEMMA DetachTyped ==
  ASSUME TypeOK, NEW e \in Entities, Detach(e)
  PROVE  controller' \in [Entities -> Controller \cup {None}]
BY DEF TypeOK, Detach

LEMMA HeapTyped ==
  ASSUME TypeOK, UNCHANGED heap
  PROVE  heap' \subseteq Task /\ Distinct(heap')
BY TypeParts DEF Clockwork

LEMMA CreatureTyped ==
  ASSUME TypeOK, NEW e \in Entities, NEW z \in Zones, NEW kind \in Kinds,
         SpawnNpc(e, z, kind) \/ Replace(e, z, kind)
  PROVE  TypeOK'
<1>1. [of |-> e, kind |-> kind, map |-> z] \in Attach
  BY DEF Attach
<1>2. CASE SpawnNpc(e, z, kind)
  <2>1. Frame' /\ UNCHANGED <<controller, heap, worker>>
    BY <1>1, <1>2, PostCommandTyped, TypeParts DEF Frame, SpawnNpc
  <2> QED BY <2>1, HeapTyped, AtEaseTyped, TypeParts DEF Clockwork
<1>3. CASE Replace(e, z, kind)
  <2>1. count' \in 0 .. MaxActs
    BY <1>3, BusyCounts DEF Replace, Allowed
  <2>2. Frame' /\ UNCHANGED <<controller, heap, worker>>
    BY <1>1, <1>3, <2>1, TypeParts DEF Frame, Replace
  <2> QED BY <2>2, HeapTyped, AtEaseTyped, TypeParts DEF Clockwork
<1> QED BY <1>2, <1>3

LEMMA AttachControllerTyped ==
  ASSUME TypeOK, NEW a \in attaching, AttachController(a)
  PROVE  TypeOK'
<1>1. a.of \in Entities /\ a.kind \in Kinds /\ a.map \in Zones
  BY DEF TypeOK, Attach
<1>2. Frame' /\ UNCHANGED worker
  BY <1>1, PostCommandTyped, TypeParts DEF Frame, AttachController
<1>3. AttachTo(a.of, a.kind, a.map, FALSE)
  BY DEF AttachController
<1> QED BY <1>1, <1>2, <1>3, AttachTyped, AtEaseTyped

LEMMA RemoveEntityTyped ==
  ASSUME TypeOK, NEW e \in Entities, NEW z \in Zones, RemoveEntity(e, z)
  PROVE  TypeOK'
<1>1. count' \in 0 .. MaxActs
  BY BusyCounts DEF RemoveEntity, Allowed
<1>2. Frame' /\ UNCHANGED <<heap, worker>>
  BY <1>1, PostCommandTyped, TypeParts DEF Frame, RemoveEntity
<1>3. Detach(e)
  BY DEF RemoveEntity
<1> QED BY <1>2, <1>3, DetachTyped, HeapTyped, AtEaseTyped

LEMMA TransferEntityTyped ==
  ASSUME TypeOK, NEW e \in Entities, NEW from \in Zones, NEW to \in Zones, TransferEntity(e, from, to)
  PROVE  TypeOK'
<1>1. count' \in 0 .. MaxActs
  BY BusyCounts DEF TransferEntity, Allowed
<1>2. store' \in [Zones -> SUBSET Entities]
  BY TypeParts DEF Frame, TransferEntity
<1>3. Frame' /\ UNCHANGED worker
  BY <1>1, <1>2, PostCommandTyped, TypeParts DEF Frame, TransferEntity
<1>4. \/ Attached(e) /\ AttachTo(e, controller[e].kind, to, controller[e].started)
      \/ UNCHANGED <<controller, heap>>
      \/ Detach(e) /\ UNCHANGED heap
  BY DEF TransferEntity
<1>5. controller' \in [Entities -> Controller \cup {None}] /\ heap' \subseteq Task /\ Distinct(heap')
  BY <1>4, ControllerIs, AttachTyped, DetachTyped, HeapTyped, TypeParts DEF Clockwork
<1> QED BY <1>3, <1>5, AtEaseTyped

LEMMA DealDamageTyped ==
  ASSUME TypeOK, NEW e \in Entities, NEW z \in Zones, DealDamage(e, z)
  PROVE  TypeOK'
<1>1. count' \in 0 .. MaxActs
  BY BusyCounts DEF DealDamage, Allowed
<1>2. Frame' /\ UNCHANGED <<controller, heap, worker>>
  BY <1>1, PostCommandTyped, TypeParts DEF Frame, DealDamage
<1> QED BY <1>2, HeapTyped, AtEaseTyped, TypeParts DEF Clockwork

LEMMA SnapshotTyped ==
  ASSUME TypeOK, NEW z \in Zones, SaveSnapshot(z) \/ RestoreSnapshot(z)
  PROVE  TypeOK'
<1>1. count' \in 0 .. MaxActs
  BY BusyCounts DEF SaveSnapshot, RestoreSnapshot, Allowed
<1>2. \A s \in saved[z] : s.of \in Entities /\ s.kind \in Kinds \cup {None}
  BY DEF TypeOK
<1>3. UNCHANGED <<controller, heap, worker>>
  BY DEF SaveSnapshot, RestoreSnapshot
<1>4. Frame'
  <2>1. CASE SaveSnapshot(z)
    <3>1. {[of |-> e, kind |-> meta[e]] : e \in store[z]} \subseteq [of : Entities, kind : Kinds \cup {None}]
      BY DEF TypeOK
    <3> QED BY <1>1, <2>1, <3>1, PostCommandTyped, TypeParts DEF Frame, SaveSnapshot
  <2>2. CASE RestoreSnapshot(z)
    <3>1. {s.of : s \in saved[z]} \subseteq Entities
      BY <1>2
    <3>2. {[of |-> s.of, kind |-> s.kind, map |-> z] : s \in {r \in saved[z] : r.kind # None}} \subseteq Attach
      BY <1>2 DEF Attach
    <3>3. ASSUME NEW e \in Entities, \E s \in saved[z] : s.of = e
          PROVE  (CHOOSE s \in saved[z] : s.of = e).kind \in Kinds \cup {None}
      BY <1>2, <3>3
    <3>4. meta' \in [Entities -> Kinds \cup {None}]
      BY <2>2, <3>3 DEF TypeOK, RestoreSnapshot
    <3> QED BY <1>1, <2>2, <3>1, <3>2, <3>4, PostCommandTyped, TypeParts DEF Frame, RestoreSnapshot
  <2> QED BY <2>1, <2>2
<1> QED BY <1>3, <1>4, HeapTyped, AtEaseTyped, TypeParts DEF Clockwork

LEMMA StepTyped ==
  ASSUME TypeOK, Working, IdsLeft, [Next]_vars
  PROVE  TypeOK'
<1>1. CASE UNCHANGED vars
  BY <1>1 DEF vars, TypeOK
<1>2. CASE Elapse
  BY <1>2, ElapseTyped
<1>3. CASE Tick
  BY <1>3, WorkerTyped, PopTyped, HandleTyped, FirstTickTyped, HearTyped DEF Tick
<1>4. CASE Spawning
  BY <1>4, SpawnPointTyped DEF Spawning
<1>5. CASE Command
  BY <1>5, CreatureTyped, AttachControllerTyped, RemoveEntityTyped, TransferEntityTyped, DealDamageTyped,
     SnapshotTyped DEF Command
<1> QED BY <1>1, <1>2, <1>3, <1>4, <1>5 DEF Next

-----------------------------------------------------------------------------
(* What the steps do to controllers, heap and worker *)

Quiet == UNCHANGED <<controller, heap, worker>> /\ clock' >= clock

\* The worker goes on with no timer left to handle.
Turn ==
  /\ UNCHANGED <<clock, controller, heap>>
  /\ Fired = <<>> /\ Fired' = <<>>
  /\ worker'.stage \in {"timers", "ticking", "spawning"} => worker'.zone \in Zones
  /\ worker'.stage = "timers" => worker'.now <= clock

\* A controller is attached, and has had its first tick only if it goes on from another zone.
Moved(e, kind, z, started) ==
  /\ AttachTo(e, kind, z, started) /\ UNCHANGED <<clock, worker>> /\ Fired = <<>>
  /\ started => Attached(e) /\ controller[e].started /\ controller[e].kind = kind

Dropped(e) == Detach(e) /\ UNCHANGED <<clock, heap, worker>> /\ Fired = <<>>

Step ==
  \/ Quiet \/ Turn \/ Handle
  \/ \E t \in heap : Pop(t)
  \/ \E e \in Entities : FirstTick(e) \/ Dropped(e)
  \/ \E e \in Entities, kind \in Kinds, z \in Zones, started \in BOOLEAN : Moved(e, kind, z, started)

LEMMA TurnIs ==
  ASSUME TypeOK, Working, Wake \/ (\E z \in Zones : TickZone(z)) \/ Handled \/ Hear \/ EndZone
  PROVE  Turn
<1>1. clock \in Nat /\ DOMAIN worker = {"stage", "left", "zone", "now", "fired"}
  BY WorkerIs, ControllersAssumption DEF TypeOK
<1>2. CASE Wake
  BY <1>1, <1>2, WorkerIs DEF Wake, At, Working, Turn, Fired
<1>3. ASSUME NEW z \in Zones, TickZone(z) PROVE Turn
  <2>1. worker.stage = "serving" /\ UNCHANGED <<clock, controller, heap>>
    BY <1>3 DEF TickZone, At
  <2>2. worker'.zone = z /\ worker'.now = clock /\ worker'.fired = worker.fired
    BY <1>1, <1>3 DEF TickZone
  <2> QED BY <1>1, <2>1, <2>2 DEF Working, Turn, Fired
<1>4. CASE Handled
  BY <1>1, <1>4, WorkerIs DEF Handled, At, Working, Turn, Fired
<1>5. CASE Hear
  BY <1>1, <1>5, WorkerIs DEF Hear, At, Working, Turn, Fired
<1>6. CASE EndZone
  BY <1>1, <1>6, WorkerIs DEF EndZone, At, Working, Turn, Fired, Idle
<1> QED BY <1>2, <1>3, <1>4, <1>5, <1>6

LEMMA IdleIs == Working /\ (At("idle") \/ At("spawning")) => Fired = <<>>
BY DEF Working, At

LEMMA TransferIs ==
  ASSUME TypeOK, Working, NEW e \in Entities, NEW from \in Zones, NEW to \in Zones, TransferEntity(e, from, to)
  PROVE  \/ Quiet \/ Dropped(e)
         \/ /\ Attached(e) /\ Moved(e, controller[e].kind, to, controller[e].started)
<1>1. Fired = <<>> /\ clock \in Nat
  BY IdleIs, ControllersAssumption DEF TransferEntity, TypeOK
<1> QED BY <1>1 DEF TransferEntity, Quiet, Dropped, Moved

LEMMA StepIs ==
  ASSUME TypeOK, Working, [Next]_vars
  PROVE  Step
<1>1. clock \in Nat
  BY ControllersAssumption DEF TypeOK
<1>2. CASE UNCHANGED vars
  BY <1>1, <1>2 DEF vars, Step, Quiet
<1>3. CASE Elapse
  BY <1>1, <1>3 DEF Elapse, Step, Quiet
<1>4. CASE Tick
  BY <1>4, TurnIs DEF Tick, Step
<1>5. CASE Spawning
  <2>1. PICK e \in Entities : SpawnPoint(e)
    BY <1>5 DEF Spawning
  <2>2. worker.zone \in Zones /\ Fired = <<>>
    BY <2>1, IdleIs DEF SpawnPoint, At, Working
  <2>3. Moved(e, "monster", worker.zone, FALSE)
    BY <2>1, <2>2 DEF SpawnPoint, Moved
  <2> QED BY <2>2, <2>3 DEF Step, Kinds
<1>6. CASE Command
  <2>1. ASSUME NEW e \in Entities, NEW z \in Zones, NEW kind \in Kinds, SpawnNpc(e, z, kind) \/ Replace(e, z, kind)
        PROVE  Quiet
    BY <1>1, <2>1 DEF SpawnNpc, Replace, Quiet
  <2>2. ASSUME NEW a \in attaching, AttachController(a)
        PROVE  Step
    <3>1. a.of \in Entities /\ a.kind \in Kinds /\ a.map \in Zones
      BY DEF TypeOK, Attach
    <3>2. Moved(a.of, a.kind, a.map, FALSE)
      BY <2>2, IdleIs DEF AttachController, Moved
    <3> QED BY <3>1, <3>2 DEF Step
  <2>3. ASSUME NEW e \in Entities, NEW z \in Zones, RemoveEntity(e, z)
        PROVE  Dropped(e)
    BY <2>3, IdleIs DEF RemoveEntity, Dropped
  <2>4. ASSUME NEW e \in Entities, NEW z \in Zones, DealDamage(e, z)
        PROVE  Quiet
    BY <1>1, <2>4 DEF DealDamage, Quiet
  <2>5. ASSUME NEW e \in Entities, NEW y \in Zones, NEW z \in Zones, TransferEntity(e, y, z)
        PROVE  Step
    <3>1. CASE Quiet \/ Dropped(e)
      BY <3>1 DEF Step
    <3>2. CASE Attached(e) /\ Moved(e, controller[e].kind, z, controller[e].started)
      BY <3>2, ControllerIs DEF Step
    <3> QED BY <2>5, <3>1, <3>2, TransferIs
  <2>6. ASSUME NEW z \in Zones, SaveSnapshot(z) \/ RestoreSnapshot(z)
        PROVE  Quiet
    BY <1>1, <2>6 DEF SaveSnapshot, RestoreSnapshot, Quiet
  <2> QED BY <1>6, <2>1, <2>2, <2>3, <2>4, <2>5, <2>6 DEF Command, Step
<1> QED BY <1>2, <1>3, <1>4, <1>5, <1>6 DEF Next

-----------------------------------------------------------------------------
(* The tick under way, and the timers that fired *)

LEMMA PopIs ==
  ASSUME TypeOK, NEW t \in heap, Pop(t)
  PROVE  /\ t \in Task /\ t.zone = worker.zone /\ t.at <= worker.now /\ worker.stage = "timers"
         /\ heap' = (heap \ {t}) \cup (IF t.every > 0 THEN {Again(t)} ELSE {})
         /\ Fired' = Append(Fired, t)
         /\ worker'.stage = worker.stage /\ worker'.zone = worker.zone /\ worker'.now = worker.now
         /\ UNCHANGED <<clock, controller, scene, attaching, store, struck, hurt, astray>>
BY WorkerIs DEF TypeOK, Pop, First, DueNow, At, Fired

\* The heap after a timer fired.
LEMMA PopLeaves ==
  ASSUME TypeOK, NEW t \in heap, Pop(t), NEW u \in heap'
  PROVE  \/ u \in heap /\ u # t /\ u.id # t.id
         \/ /\ t.every > 0
            /\ u.id = t.id /\ u.owner = t.owner /\ u.at > t.at /\ u.every = t.every /\ u.zone = t.zone
<1>1. t.every > 0 => LET v == Again(t) IN
        v.id = t.id /\ v.owner = t.owner /\ v.at > t.at /\ v.every = t.every /\ v.zone = t.zone
  BY PopIs, AgainIs
<1> QED BY <1>1, PopIs DEF TypeOK

LEMMA HandleIs ==
  ASSUME TypeOK, Working, Handle
  PROVE  /\ Fired # <<>> /\ Fired' = Tail(Fired) /\ worker.stage = "timers" /\ worker.zone \in Zones
         /\ worker.now <= clock
         /\ 1 \in DOMAIN Fired /\ Head(Fired) = Fired[1] /\ Fired[1] \in Task
         /\ worker'.stage = worker.stage /\ worker'.zone = worker.zone /\ worker'.now = worker.now
         /\ UNCHANGED <<clock, controller, scene, attaching, hurt>>
<1>1. Fired # <<>>
  BY DEF Handle, Fired
<1>2. 1 \in DOMAIN Fired /\ Head(Fired) = Fired[1] /\ Fired[1] \in Task
  BY <1>1, FiredIs, TailFires
<1> QED BY <1>1, <1>2, WorkerIs DEF Handle, At, Fired, Working

LEMMA PopAppends ==
  ASSUME TypeOK, NEW t \in heap, Pop(t)
  PROVE  LET n == Len(Fired) + 1 IN
         /\ DOMAIN Fired' = DOMAIN Fired \cup {n} /\ n \notin DOMAIN Fired
         /\ Fired'[n] = t /\ \A i \in DOMAIN Fired : Fired'[i] = Fired[i]
<1>1. t \in Task /\ Fired \in Seq(Task) /\ Fired' = Append(Fired, t)
  BY PopIs, FiredIs
<1> DEFINE g == Append(Fired, t)
<1>2. /\ DOMAIN g = DOMAIN Fired \cup {Len(Fired) + 1} /\ Len(Fired) + 1 \notin DOMAIN Fired
      /\ g[Len(Fired) + 1] = t /\ \A i \in DOMAIN Fired : g[i] = Fired[i]
  BY <1>1, PopFires
<1>3. Fired' = g
  BY <1>1
<1> HIDE DEF g
<1> QED BY <1>2, <1>3

LEMMA HandleDrops ==
  ASSUME TypeOK, Working, Handle
  PROVE  /\ \A i \in DOMAIN Fired' : i \in Nat /\ i + 1 \in DOMAIN Fired /\ i + 1 # 1 /\ Fired'[i] = Fired[i + 1]
         /\ \A i \in DOMAIN Fired : i # 1 => i - 1 \in DOMAIN Fired' /\ Fired'[i - 1] = Fired[i]
<1>1. Fired # <<>> /\ Fired \in Seq(Task) /\ Fired' = Tail(Fired)
  BY HandleIs, FiredIs
<1> DEFINE g == Tail(Fired)
<1>2. /\ \A i \in DOMAIN g : i \in Nat /\ i + 1 \in DOMAIN Fired /\ i + 1 # 1 /\ g[i] = Fired[i + 1]
      /\ \A i \in DOMAIN Fired : i # 1 => i - 1 \in DOMAIN g /\ g[i - 1] = Fired[i]
  BY <1>1, TailFires
<1>3. Fired' = g
  BY <1>1
<1> HIDE DEF g
<1> QED BY <1>2, <1>3

LEMMA FirstTickIs ==
  ASSUME TypeOK, Working, NEW e \in Entities, FirstTick(e)
  PROVE  /\ Fired = <<>> /\ Attached(e) /\ ~ controller[e].started /\ controller[e].map = worker.zone
         /\ UNCHANGED <<clock, worker, scene, attaching, store, struck, hurt>>
         /\ controller' = [controller EXCEPT ![e] = [controller[e] EXCEPT !.started = TRUE]]
BY DEF FirstTick, Mine, At, Working, Fired

LEMMA StepWorks ==
  ASSUME Core, Step, TypeOK'
  PROVE  Working'
<1> USE DEF Core
<1>0. clock \in Nat /\ clock' \in Nat
  BY ControllersAssumption DEF TypeOK
<1>1. CASE Quiet
  BY <1>0, <1>1, WorkerIs DEF Quiet, Working, Fired
<1>2. CASE Turn
  BY <1>2 DEF Turn, Working, Fired
<1>3. CASE Handle
  <2>1. \A i \in DOMAIN Fired' : Fired'[i].zone = worker'.zone /\ Fired'[i].at <= worker'.now
    BY <1>3, HandleIs, HandleDrops DEF Working
  <2> QED BY <1>3, <2>1, HandleIs DEF Working, Fired
<1>4. ASSUME NEW t \in heap, Pop(t) PROVE Working'
  <2>1. \A i \in DOMAIN Fired' : Fired'[i].zone = worker'.zone /\ Fired'[i].at <= worker'.now
    BY <1>4, PopIs, PopAppends DEF Working
  <2> QED BY <1>4, <2>1, PopIs DEF Working, Fired
<1>5. CASE UNCHANGED <<clock, worker>>
  BY <1>5 DEF Working, Fired
<1> QED BY <1>1, <1>2, <1>3, <1>4, <1>5, FirstTickIs DEF Step, Dropped, Moved

LEMMA StepOrders ==
  ASSUME Core, IdsLeft, Step
  PROVE  Ordered'
<1> USE DEF Core
<1>1. CASE Fired' = <<>>
  BY <1>1 DEF Ordered, Fired
<1>2. CASE Quiet
  BY <1>2 DEF Quiet, Ordered, Fired
<1>3. CASE Handle
  <2>1. \A i \in DOMAIN Fired' : i + 1 \in DOMAIN Fired /\ i \in Nat /\ Fired'[i] = Fired[i + 1]
    BY <1>3, HandleDrops
  <2>2. ASSUME NEW i \in DOMAIN Fired', NEW t \in heap', t.id = Fired'[i].id
        PROVE  Fired'[i].at < t.at
    <3>1. CASE t \in heap
      BY <2>1, <2>2, <3>1 DEF Ordered
    <3>2. CASE t \notin heap
      <4>1. t \in Task /\ t.at > clock
        BY <1>3, <3>2, OnTimerAdds
      <4>2. Fired[i + 1] \in Task /\ Fired[i + 1].at <= worker.now /\ worker.now \in Nat
        BY <2>1, FiredIs, WorkerIs DEF Working
      <4> QED BY <1>3, <2>1, <4>1, <4>2, HandleIs, ControllersAssumption DEF TypeOK, Task
    <3> QED BY <3>1, <3>2
  <2>3. \A i, j \in DOMAIN Fired' : i # j /\ Fired'[i].id = Fired'[j].id => Fired'[i].at # Fired'[j].at
    BY <2>1 DEF Ordered
  <2> QED BY <2>2, <2>3 DEF Ordered, Fired
<1>4. ASSUME NEW t \in heap, Pop(t) PROVE Ordered'
  <2> DEFINE n == Len(Fired) + 1
  <2>1. /\ DOMAIN Fired' = DOMAIN Fired \cup {n} /\ n \notin DOMAIN Fired
        /\ Fired'[n] = t /\ \A i \in DOMAIN Fired : Fired'[i] = Fired[i]
    BY <1>4, PopAppends
  <2>2. \A i \in DOMAIN Fired : Fired[i].id = t.id => Fired[i].at < t.at
    BY DEF Ordered
  <2>3. t.at \in Nat /\ (\A u \in heap' : u.at \in Nat) /\ \A i \in DOMAIN Fired : Fired[i].at \in Nat
    <3>1. \A u \in heap' : u.at \in Nat
      <4>1. t.every > 0 => Again(t) \in Task
        BY <1>4, PopIs, AgainIs
      <4> QED BY <1>4, <4>1, PopIs DEF TypeOK, Task
    <3> QED BY <3>1, FiredIs DEF TypeOK, Task
  <2> HIDE DEF n
  <2>4. ASSUME NEW i \in DOMAIN Fired', NEW u \in heap', u.id = Fired'[i].id
        PROVE  Fired'[i].at < u.at
    <3>1. \/ u \in heap /\ u # t /\ u.id # t.id
          \/ u.id = t.id /\ u.at > t.at
      BY <1>4, PopLeaves
    <3> QED BY <2>1, <2>2, <2>3, <2>4, <3>1 DEF Ordered
  <2>5. \A i, j \in DOMAIN Fired' : i # j /\ Fired'[i].id = Fired'[j].id => Fired'[i].at # Fired'[j].at
    BY <2>1, <2>2, <2>3 DEF Ordered
  <2> QED BY <2>4, <2>5 DEF Ordered, Fired
<1> QED BY <1>1, <1>2, <1>3, <1>4, FirstTickIs DEF Step, Turn, Dropped, Moved, Fired

-----------------------------------------------------------------------------
(* Timers follow, nobody sleeps, and nobody is called in a zone not its own *)

LEMMA MovedIs ==
  ASSUME TypeOK, NEW e \in Entities, NEW kind \in Kinds, NEW z \in Zones, NEW started \in BOOLEAN,
         Moved(e, kind, z, started)
  PROVE  /\ controller' = [controller EXCEPT ![e] = [kind |-> kind, map |-> z, started |-> started]]
         /\ \A t \in heap' : \E v \in heap :
              /\ t.id = v.id /\ t.owner = v.owner /\ t.every = v.every /\ t.at = v.at
              /\ t.zone = IF v.owner = e THEN z ELSE v.zone
         /\ \A v \in heap : \E t \in heap' : t.id = v.id /\ t.owner = v.owner /\ t.every = v.every
         /\ Fired = <<>> /\ Fired' = <<>>
         /\ \A x \in Entities : Attached(x)' <=> x = e \/ Attached(x)
<1>1. heap \subseteq Task /\ heap' = {Stamped(t, e, z) : t \in heap}
  BY StampIs DEF TypeOK, Moved, AttachTo
<1>2. \A v \in heap : LET u == Stamped(v, e, z) IN
        /\ u.id = v.id /\ u.owner = v.owner /\ u.at = v.at /\ u.every = v.every
        /\ u.zone = IF v.owner = e THEN z ELSE v.zone
  BY <1>1, StampedIs
<1>3. /\ \A t \in heap' : \E v \in heap : t = Stamped(v, e, z)
      /\ \A v \in heap : Stamped(v, e, z) \in heap'
  BY <1>1
<1>4. controller' = [controller EXCEPT ![e] = [kind |-> kind, map |-> z, started |-> started]]
  BY DEF Moved, AttachTo
<1>5. [kind |-> kind, map |-> z, started |-> started] # None
  BY ControllersAssumption DEF Controller
<1>6. Fired = <<>> /\ Fired' = <<>>
  BY DEF Moved, Fired
<1>7. \A x \in Entities : Attached(x)' <=> x = e \/ Attached(x)
  BY <1>4, <1>5 DEF TypeOK, Attached
<1> QED BY <1>2, <1>3, <1>4, <1>6, <1>7

LEMMA AddIs ==
  ASSUME NEW n, heap' = heap \cup {n}
  PROVE  /\ \A t \in heap' : t \in heap \/ t = n
         /\ \A t \in heap : t \in heap'
         /\ n \in heap'
OBVIOUS

LEMMA StartedIs ==
  ASSUME TypeOK, Working, NEW e \in Entities, FirstTick(e)
  PROVE  /\ controller'[e].map = controller[e].map /\ controller'[e].kind = controller[e].kind
         /\ controller'[e].started
         /\ \A x \in Entities : x # e => controller'[x] = controller[x]
         /\ \A x \in Entities : Attached(x)' <=> Attached(x)
<1>1. controller[e] \in Controller /\ Attached(e)
  BY FirstTickIs, ControllerIs
<1>2. [controller[e] EXCEPT !.started = TRUE] \in Controller
  BY <1>1 DEF Controller
<1>3. controller' = [controller EXCEPT ![e] = [controller[e] EXCEPT !.started = TRUE]]
  BY FirstTickIs
<1> QED BY <1>1, <1>2, <1>3, ControllersAssumption DEF TypeOK, Attached, Controller

LEMMA DroppedIs ==
  ASSUME TypeOK, NEW e \in Entities, Dropped(e)
  PROVE  /\ ~ Attached(e)' /\ UNCHANGED heap /\ Fired = <<>> /\ Fired' = <<>>
         /\ \A x \in Entities : x # e => controller'[x] = controller[x]
         /\ \A x \in Entities : Attached(x)' <=> x # e /\ Attached(x)
BY DEF Dropped, Detach, TypeOK, Attached, Fired

LEMMA StepFollows ==
  ASSUME Core, IdsLeft, Step, TypeOK'
  PROVE  Follows'
<1> USE DEF Core
<1>1. CASE Quiet
  BY <1>1 DEF Quiet, Follows, TimersFollow, Fired, Attached
<1>2. CASE Turn
  BY <1>2 DEF Turn, Follows, TimersFollow, Fired, Attached
<1>3. CASE Handle
  <2>1. UNCHANGED controller /\ worker'.zone = worker.zone
    BY <1>3, HandleIs
  <2>2. \A t \in heap' : Attached(t.owner) => t.zone = controller[t.owner].map
    <3>1. CASE UNCHANGED heap
      BY <3>1 DEF Follows, TimersFollow
    <3>2. ASSUME NEW n \in Task, n.owner = Head(Fired).owner, n.zone = worker.zone, heap' = heap \cup {n}
          PROVE  \A t \in heap' : Attached(t.owner) => t.zone = controller[t.owner].map
      BY <1>3, <3>2, HandleIs DEF Follows, TimersFollow
    <3> QED BY <1>3, <3>1, <3>2, OnTimerAdds
  <2>3. \A i \in DOMAIN Fired' : Attached(Fired'[i].owner) => controller[Fired'[i].owner].map = worker.zone
    BY <1>3, HandleDrops DEF Follows
  <2> QED BY <2>1, <2>2, <2>3 DEF Follows, TimersFollow, Fired, Attached
<1>4. ASSUME NEW t \in heap, Pop(t) PROVE Follows'
  <2>1. UNCHANGED controller /\ worker'.zone = worker.zone /\ t.zone = worker.zone
    BY <1>4, PopIs
  <2>2. \A u \in heap' : Attached(u.owner) => u.zone = controller[u.owner].map
    BY <1>4, PopLeaves DEF Follows, TimersFollow
  <2>3. \A i \in DOMAIN Fired' : Attached(Fired'[i].owner) => controller[Fired'[i].owner].map = worker.zone
    BY <1>4, <2>1, PopAppends DEF Follows, TimersFollow
  <2> QED BY <2>1, <2>2, <2>3 DEF Follows, TimersFollow, Fired, Attached
<1>5. ASSUME NEW e \in Entities, FirstTick(e) PROVE Follows'
  <2>1. PICK n \in Task : n.owner = e /\ n.zone = worker.zone /\ heap' = heap \cup {n}
    BY <1>5, FirstTickAdds
  <2>2. \A x \in Entities : (Attached(x)' <=> Attached(x)) /\ (Attached(x) => controller'[x].map = controller[x].map)
    BY <1>5, StartedIs
  <2>3. \A t \in heap' : t.owner \in Entities
    BY DEF TypeOK, Task
  <2>4. ASSUME NEW t \in heap', Attached(t.owner)' PROVE t.zone = controller'[t.owner].map
    BY <1>5, <2>1, <2>2, <2>3, <2>4, FirstTickIs DEF Follows, TimersFollow
  <2>5. Fired' = <<>>
    BY <1>5, FirstTickIs DEF Fired
  <2> QED BY <2>4, <2>5 DEF Follows, TimersFollow, Attached, Fired
<1>6. ASSUME NEW e \in Entities, Dropped(e) PROVE Follows'
  <2>1. \A t \in heap' : t.owner \in Entities
    BY DEF TypeOK, Task
  <2>2. ASSUME NEW t \in heap', Attached(t.owner)' PROVE t.zone = controller'[t.owner].map
    BY <1>6, <2>1, <2>2, DroppedIs DEF Follows, TimersFollow
  <2>3. Fired' = <<>>
    BY <1>6, DroppedIs
  <2> QED BY <2>2, <2>3 DEF Follows, TimersFollow, Attached, Fired
<1>7. ASSUME NEW e \in Entities, NEW kind \in Kinds, NEW z \in Zones, NEW started \in BOOLEAN, Moved(e, kind, z, started)
      PROVE  Follows'
  <2>1. \A x \in Entities : IF x = e THEN controller'[x].map = z ELSE controller'[x] = controller[x]
    BY <1>7, MovedIs DEF TypeOK
  <2>2. ASSUME NEW t \in heap', Attached(t.owner)' PROVE t.zone = controller'[t.owner].map
    <3>1. PICK v \in heap : t.owner = v.owner /\ t.zone = IF v.owner = e THEN z ELSE v.zone
      BY <1>7, MovedIs
    <3>2. v.owner \in Entities
      BY DEF TypeOK, Task
    <3>3. Attached(v.owner)' <=> v.owner = e \/ Attached(v.owner)
      BY <1>7, <3>2, MovedIs
    <3>4. v.owner = e \/ Attached(v.owner)
      BY <2>2, <3>1, <3>3 DEF Attached
    <3> QED BY <2>1, <3>1, <3>2, <3>4 DEF Follows, TimersFollow
  <2>3. Fired' = <<>>
    BY <1>7, MovedIs
  <2> QED BY <2>2, <2>3 DEF Follows, TimersFollow, Attached, Fired
<1> QED BY <1>1, <1>2, <1>3, <1>4, <1>5, <1>6, <1>7 DEF Step


LEMMA StepKeepsAwake ==
  ASSUME Core, IdsLeft, Awake, Step
  PROVE  Awake'
<1> USE DEF Core
<1>1. CASE Quiet
  BY <1>1 DEF Quiet, Awake, Fired, Attached
<1>2. CASE Turn
  BY <1>2 DEF Turn, Awake, Fired, Attached
<1>3. CASE Handle
  <2> DEFINE h == Fired[1].owner
  <2>1. UNCHANGED controller
    BY <1>3, HandleIs
  <2>2. ASSUME NEW e \in Entities, Attached(e), controller[e].started
        PROVE  /\ (\E t \in heap' : t.owner = e) \/ (\E i \in DOMAIN Fired' : Fired'[i].owner = e)
               /\ controller[e].kind = "pet" => \E t \in heap' : t.owner = e /\ t.every > 0
    <3>1. \A t \in heap : t \in heap'
      BY <1>3, OnTimerAdds
    <3>2. controller[e].kind = "pet" => \E t \in heap' : t.owner = e /\ t.every > 0
      BY <2>2, <3>1 DEF Awake
    <3>3. CASE e = h
      <4>1. controller[e].kind = "monster" => \E n \in heap' : n.owner = e
        BY <1>3, <2>2, <3>3, OnTimerAdds, HandleIs
      <4> QED BY <2>2, <3>2, <4>1, ControllerIs DEF Kinds
    <3>4. CASE e # h
      <4>1. ASSUME NEW i \in DOMAIN Fired, Fired[i].owner = e
            PROVE  \E j \in DOMAIN Fired' : Fired'[j].owner = e
        BY <1>3, <3>4, <4>1, HandleDrops
      <4> QED BY <2>2, <3>1, <3>2, <4>1 DEF Awake
    <3> QED BY <3>3, <3>4
  <2> QED BY <2>1, <2>2 DEF Awake, Attached, Fired
<1>4. ASSUME NEW t \in heap, Pop(t) PROVE Awake'
  <2>1. UNCHANGED controller
    BY <1>4, PopIs
  <2>2. \A u \in heap : u \in heap' \/ u = t
    BY <1>4, PopIs
  <2>3. t.every > 0 => \E u \in heap' : u.owner = t.owner /\ u.every > 0
    BY <1>4, PopIs, AgainIs
  <2>4. \A i \in DOMAIN Fired : i \in DOMAIN Fired' /\ Fired'[i] = Fired[i]
    BY <1>4, PopAppends
  <2>5. \E i \in DOMAIN Fired' : Fired'[i] = t
    BY <1>4, PopAppends
  <2>6. ASSUME NEW e \in Entities, Attached(e), controller[e].started
        PROVE  /\ (\E u \in heap' : u.owner = e) \/ (\E i \in DOMAIN Fired' : Fired'[i].owner = e)
               /\ controller[e].kind = "pet" => \E u \in heap' : u.owner = e /\ u.every > 0
    BY <2>2, <2>3, <2>4, <2>5, <2>6 DEF Awake
  <2> QED BY <2>1, <2>6 DEF Awake, Attached, Fired
<1>5. ASSUME NEW e \in Entities, FirstTick(e) PROVE Awake'
  <2>1. PICK n \in Task : /\ n.owner = e /\ (controller[e].kind = "pet" => n.every > 0)
                          /\ heap' = heap \cup {n}
    BY <1>5, FirstTickAdds
  <2>2. ASSUME NEW x \in Entities, Attached(x)', controller'[x].started
        PROVE  (\E t \in heap' : t.owner = x) /\ (controller'[x].kind = "pet" => \E t \in heap' : t.owner = x /\ t.every > 0)
    <3>1. CASE x = e
      BY <1>5, <2>1, <3>1, StartedIs
    <3>2. CASE x # e
      BY <1>5, <2>1, <2>2, <3>2, StartedIs, FirstTickIs DEF Awake
    <3> QED BY <3>1, <3>2
  <2> QED BY <2>2 DEF Awake, Attached, Fired
<1>6. ASSUME NEW e \in Entities, Dropped(e) PROVE Awake'
  <2>1. ASSUME NEW x \in Entities, Attached(x)', controller'[x].started
        PROVE  (\E t \in heap' : t.owner = x) /\ (controller'[x].kind = "pet" => \E t \in heap' : t.owner = x /\ t.every > 0)
    BY <1>6, <2>1, DroppedIs DEF Awake
  <2> QED BY <2>1 DEF Awake, Attached, Fired
<1>7. ASSUME NEW e \in Entities, NEW kind \in Kinds, NEW z \in Zones, NEW started \in BOOLEAN, Moved(e, kind, z, started)
      PROVE  Awake'
  <2>1. \A x \in Entities : IF x = e THEN controller'[x].kind = kind /\ controller'[x].started = started
                                     ELSE controller'[x] = controller[x]
    BY <1>7, MovedIs DEF TypeOK
  <2>2. ASSUME NEW x \in Entities, Attached(x)', controller'[x].started
        PROVE  (\E t \in heap' : t.owner = x) /\ (controller'[x].kind = "pet" => \E t \in heap' : t.owner = x /\ t.every > 0)
    <3>1. Attached(x) /\ controller[x].started /\ controller'[x].kind = controller[x].kind
      BY <1>7, <2>1, <2>2, MovedIs DEF Moved
    <3>2. (\E v \in heap : v.owner = x) /\ (controller[x].kind = "pet" => \E v \in heap : v.owner = x /\ v.every > 0)
      BY <1>7, <3>1, MovedIs DEF Awake
    <3> QED BY <1>7, <3>1, <3>2, MovedIs
  <2> QED BY <2>2 DEF Awake, Attached, Fired
<1> QED BY <1>1, <1>2, <1>3, <1>4, <1>5, <1>6, <1>7 DEF Step


LEMMA SceneStays == [Next]_vars => UNCHANGED scene
BY DEF Next, vars, Elapse, Tick, Spawning, Command, Wake, TickZone, Pop, Handle, Handled, FirstTick, Hear,
   EndZone, SpawnPoint, SpawnNpc, Replace, AttachController, RemoveEntity, TransferEntity, DealDamage,
   SaveSnapshot, RestoreSnapshot

-----------------------------------------------------------------------------
(* Entities and their controllers are in one zone *)

\* Where nothing comes to a zone, nothing comes to two.
LEMMA SitedLess ==
  ASSUME SitedHere, \A z \in Zones : store'[z] \subseteq store[z], attaching' \subseteq attaching,
         \A x \in Entities : Attached(x)' => Attached(x) /\ controller'[x].map = controller[x].map
  PROVE  SitedHere'
<1> SUFFICES ASSUME NEW e \in Entities, NEW z \in Zones, e \in store'[z] PROVE SitedAt(e, z)'
  BY DEF SitedHere
<1>1. SitedAt(e, z)
  BY DEF SitedHere
<1> QED BY <1>1 DEF SitedAt

\* The entity e is in z if it is anywhere, and nothing else has come to any zone.
OnlyIn(e, z) ==
  /\ attaching' \subseteq attaching
  /\ \A x \in Entities, y \in Zones : x \in store'[y] => x \in store[y] \/ (x = e /\ y = z)
  /\ \A y \in Zones : e \in store'[y] => y = z /\ \A a \in attaching' : a.of = e => a.map = z

\* A controller comes to where its entity is, if it is anywhere.
LEMMA MovedSited ==
  ASSUME TypeOK, SitedHere, NEW e \in Entities, NEW kind \in Kinds, NEW z \in Zones, NEW started \in BOOLEAN,
         Moved(e, kind, z, started), OnlyIn(e, z)
  PROVE  SitedHere'
<1>1. \A x \in Entities : IF x = e THEN controller'[x].map = z ELSE controller'[x] = controller[x]
  BY MovedIs DEF TypeOK
<1> SUFFICES ASSUME NEW x \in Entities, NEW y \in Zones, x \in store'[y] PROVE SitedAt(x, y)'
  BY DEF SitedHere
<1>2. CASE x = e
  BY <1>1, <1>2 DEF SitedAt, OnlyIn
<1>3. CASE x # e
  <2>1. SitedAt(x, y)
    BY <1>3 DEF SitedHere, OnlyIn
  <2> QED BY <1>1, <1>3, <2>1 DEF SitedAt, Attached, OnlyIn
<1> QED BY <1>2, <1>3

LEMMA StepSited ==
  ASSUME Core, Sited, [Next]_vars
  PROVE  Sited'
<1> USE DEF Core
<1> SUFFICES ASSUME scene.acts \cap {"load", "overtake"} = {}, SitedHere PROVE SitedHere'
  BY SceneStays DEF Sited, Without
<1>1. CASE UNCHANGED controller /\ UNCHANGED attaching /\ \A z \in Zones : store'[z] \subseteq store[z]
  BY <1>1, SitedLess DEF Attached
<1>2. CASE Elapse \/ UNCHANGED vars
  BY <1>1, <1>2 DEF Elapse, vars
<1>3. CASE Tick
  <2>1. CASE Handle \/ Hear
    <3>1. \A z \in Zones : store'[z] \subseteq store[z]
      BY <2>1 DEF Handle, Hear, TypeOK
    <3> QED BY <1>1, <2>1, <3>1 DEF Handle, Hear
  <2>2. ASSUME NEW e \in Entities, FirstTick(e) PROVE SitedHere'
    <3>1. UNCHANGED <<store, attaching>>
      BY <2>2, FirstTickIs
    <3>2. \A x \in Entities : Attached(x)' => Attached(x) /\ controller'[x].map = controller[x].map
      BY <2>2, StartedIs
    <3> QED BY <3>1, <3>2, SitedLess
  <2> QED BY <1>1, <1>3, <2>1, <2>2 DEF Tick, Wake, TickZone, Pop, Handled, EndZone
<1>4. ASSUME NEW e \in Entities, SpawnPoint(e) PROVE SitedHere'
  <2>1. worker.zone \in Zones /\ Fired = <<>>
    BY <1>4, IdleIs DEF SpawnPoint, At, Working
  <2>2. Moved(e, "monster", worker.zone, FALSE) /\ UNCHANGED attaching
    BY <1>4, <2>1 DEF SpawnPoint, Moved
  <2>3. (\A y \in Zones : e \notin store[y]) /\ \A a \in attaching : a.of # e
    BY <1>4 DEF SpawnPoint, Unused, Waiting
  <2>4. \A x \in Entities, y \in Zones : x \in store'[y] => x \in store[y] \/ (x = e /\ y = worker.zone)
    BY <1>4 DEF SpawnPoint, TypeOK
  <2>5. OnlyIn(e, worker.zone)
    BY <2>2, <2>3, <2>4 DEF OnlyIn
  <2> QED BY <2>1, <2>2, <2>5, MovedSited DEF Kinds
<1>5. ASSUME NEW e \in Entities, NEW z \in Zones, NEW kind \in Kinds, SpawnNpc(e, z, kind) \/ Replace(e, z, kind)
      PROVE  SitedHere'
  <2>1. UNCHANGED controller /\ attaching' = attaching \cup {[of |-> e, kind |-> kind, map |-> z]}
    BY <1>5 DEF SpawnNpc, Replace
  <2>2. \A x \in Entities, y \in Zones : x # e => (x \in store'[y] <=> x \in store[y])
    BY <1>5 DEF SpawnNpc, Replace, TypeOK
  <2>3. \A y \in Zones : e \in store'[y] => y = z
    BY <1>5 DEF SpawnNpc, Replace, Unused, TypeOK, SitedHere, SitedAt
  <2>4. (Attached(e) => controller[e].map = z) /\ \A a \in attaching : a.of = e => a.map = z
    BY <1>5 DEF SpawnNpc, Replace, Unused, Waiting, SitedHere, SitedAt
  <2> SUFFICES ASSUME NEW x \in Entities, NEW y \in Zones, x \in store'[y] PROVE SitedAt(x, y)'
    BY DEF SitedHere
  <2>5. CASE x = e
    BY <2>1, <2>3, <2>4, <2>5 DEF SitedAt, Attached
  <2>6. CASE x # e
    <3>1. SitedAt(x, y)
      BY <2>2, <2>6 DEF SitedHere
    <3> QED BY <2>1, <2>2, <2>6, <3>1 DEF SitedAt, Attached
  <2> QED BY <2>5, <2>6
<1>6. ASSUME NEW a \in attaching, AttachController(a) PROVE SitedHere'
  <2>1. a.of \in Entities /\ a.kind \in Kinds /\ a.map \in Zones
    BY DEF TypeOK, Attach
  <2>2. Moved(a.of, a.kind, a.map, FALSE) /\ UNCHANGED store /\ attaching' = attaching \ {a}
    BY <1>6, IdleIs DEF AttachController, Moved
  <2>3. \A y \in Zones : a.of \in store[y] => y = a.map /\ \A b \in attaching : b.of = a.of => b.map = y
    BY <2>1 DEF SitedHere, SitedAt
  <2>4. OnlyIn(a.of, a.map)
    BY <2>2, <2>3 DEF OnlyIn
  <2> QED BY <2>1, <2>2, <2>4, MovedSited
<1>7. ASSUME NEW e \in Entities, NEW z \in Zones, RemoveEntity(e, z) PROVE SitedHere'
  <2>1. Dropped(e) /\ UNCHANGED attaching /\ \A y \in Zones : store'[y] \subseteq store[y]
    BY <1>7, IdleIs DEF RemoveEntity, Dropped, TypeOK
  <2> QED BY <2>1, DroppedIs, SitedLess
<1>8. ASSUME NEW e \in Entities, NEW from \in Zones, NEW to \in Zones, TransferEntity(e, from, to) PROVE SitedHere'
  <2>1. (\A a \in attaching : a.of # e) /\ UNCHANGED attaching
    BY <1>8 DEF TransferEntity, InTime, Waiting
  <2>2. CASE e \notin store[from]
    <3>1. Dropped(e) /\ UNCHANGED store
      BY <1>8, <2>2, IdleIs DEF TransferEntity, Dropped
    <3> QED BY <2>1, <3>1, DroppedIs, SitedLess
  <2>3. CASE e \in store[from]
    <3>1. \A x \in Entities, y \in Zones : x \in store'[y] => x \in store[y] \/ (x = e /\ y = to)
      BY <1>8, <2>3 DEF TransferEntity, TypeOK
    <3>2. \A y \in Zones : e \in store'[y] => y = to
      BY <1>8, <2>3 DEF TransferEntity, TypeOK, SitedHere, SitedAt
    <3>3. CASE Attached(e)
      <4>1. Moved(e, controller[e].kind, to, controller[e].started)
        BY <1>8, <2>3, <3>3, IdleIs DEF TransferEntity, Moved
      <4>2. OnlyIn(e, to)
        BY <2>1, <3>1, <3>2 DEF OnlyIn
      <4> QED BY <3>3, <4>1, <4>2, MovedSited, ControllerIs
    <3>4. CASE ~ Attached(e)
      <4>1. UNCHANGED controller
        BY <1>8, <2>3, <3>4 DEF TransferEntity
      <4> SUFFICES ASSUME NEW x \in Entities, NEW y \in Zones, x \in store'[y] PROVE SitedAt(x, y)'
        BY DEF SitedHere
      <4>2. CASE x = e
        BY <2>1, <3>2, <3>4, <4>1, <4>2 DEF SitedAt, Attached
      <4>3. CASE x # e
        <5>1. SitedAt(x, y)
          BY <3>1, <4>3 DEF SitedHere
        <5> QED BY <2>1, <3>1, <4>1, <4>3, <5>1 DEF SitedAt, Attached
      <4> QED BY <4>2, <4>3
    <3> QED BY <3>3, <3>4
  <2> QED BY <2>2, <2>3
<1>9. ASSUME NEW e \in Entities, NEW z \in Zones, DealDamage(e, z) PROVE SitedHere'
  <2>1. \A y \in Zones : store'[y] \subseteq store[y]
    BY <1>9 DEF DealDamage, TypeOK
  <2> QED BY <1>1, <1>9, <2>1 DEF DealDamage
<1>10. ~ \E z \in Zones : SaveSnapshot(z) \/ RestoreSnapshot(z)
  BY DEF SaveSnapshot, RestoreSnapshot, Allowed
<1>11. CASE Spawning
  BY <1>4, <1>11 DEF Spawning
<1>12. CASE Command
  BY <1>5, <1>6, <1>7, <1>8, <1>9, <1>10, <1>12 DEF Command
<1> QED BY <1>2, <1>3, <1>11, <1>12 DEF Next

-----------------------------------------------------------------------------
(* No controller is called away from its zone *)

LEMMA HeardKept ==
  ASSUME Heard, UNCHANGED <<scene, struck, hurt, astray>>,
         \/ UNCHANGED <<controller, worker>>
         \/ struck = {}
         \/ worker.stage = "timers" /\ worker'.stage \in {"timers", "ticking"} /\ UNCHANGED <<controller, worker.zone>>
  PROVE  Heard'
BY DEF Heard, Attached

\* Commands find nothing struck, and leave it so, where nobody is hit.
LEMMA CommandHeard ==
  ASSUME Heard, worker.stage = "idle", UNCHANGED <<scene, astray, worker>>, PostCommand({})
  PROVE  Heard'
<1>1. struck = {}
  BY DEF Heard
<1>2. struck' = {} /\ hurt' = {}
  BY <1>1 DEF PostCommand, Heard
<1> QED BY <1>2 DEF Heard

LEMMA StepIsSafe ==
  ASSUME Core, Sited, Safe, [Next]_vars
  PROVE  Safe'
<1> USE DEF Core
<1>1. UNCHANGED scene
  BY SceneStays
<1>2. ASSUME Handle
      PROVE  /\ astray' = astray
             /\ DamageStays /\ Heard => Heard'
  <2>1. Astray({Head(Fired).owner}, worker.zone, "timer") = {}
    <3>1. \A x \in {Head(Fired).owner} : Attached(x) => controller[x].map = worker.zone
      BY <1>2, HandleIs DEF Follows
    <3> QED BY <3>1, AstrayIs
  <2>2. astray' = astray
    BY <1>2, <2>1 DEF Handle, Fired
  <2>3. ASSUME DamageStays, Heard PROVE Heard'
    <3>1. worker'.stage = "timers" /\ worker'.zone = worker.zone /\ UNCHANGED <<controller, hurt, scene>>
      BY <1>2, HandleIs
    <3>2. CASE UNCHANGED struck
      BY <2>2, <2>3, <3>1, <3>2 DEF Heard, Attached
    <3>3. ASSUME ~ UNCHANGED struck PROVE Heard'
      <4>1. "melee" \in scene.acts /\ \E v \in store[worker.zone] : struck' = struck \cup {v}
        BY <1>2, <3>3 DEF Handle
      <4>2. SitedHere
        BY <2>3, <4>1 DEF DamageStays, Without, Sited
      <4>3. worker.zone \in Zones /\ store[worker.zone] \subseteq Entities
        BY <1>2, HandleIs DEF TypeOK
      <4>4. \A v \in store[worker.zone] : Attached(v) => controller[v].map = worker.zone
        BY <4>2, <4>3 DEF SitedHere, SitedAt
      <4> QED BY <2>2, <2>3, <3>1, <4>1, <4>4 DEF Heard, Attached
    <3> QED BY <3>2, <3>3
  <2> QED BY <2>2, <2>3
<1>3. ASSUME NEW e \in Entities, FirstTick(e)
      PROVE  /\ astray' = astray
             /\ Heard => Heard'
  <2>1. Astray({e}, worker.zone, "tick") = {}
    BY <1>3, FirstTickIs, AstrayIs
  <2>2. astray' = astray
    BY <1>3, <2>1 DEF FirstTick
  <2>3. \A x \in Entities : (Attached(x)' <=> Attached(x)) /\ (Attached(x) => controller'[x].map = controller[x].map)
    BY <1>3, StartedIs
  <2>4. struck \subseteq Entities
    BY DEF TypeOK
  <2> QED BY <1>1, <1>3, <2>2, <2>3, <2>4, FirstTickIs DEF Heard
<1>4. ASSUME Hear
      PROVE  /\ astray' \subseteq astray \cup {"damage"}
             /\ DamageStays /\ Heard => Heard'
  <2>1. astray' = astray \cup Astray(Drained, worker.zone, "damage")
    BY <1>4 DEF Hear
  <2>2. ASSUME DamageStays, Heard PROVE Heard'
    <3>1. \A e \in Drained : Attached(e) => controller[e].map = worker.zone
      BY <2>2 DEF Heard, Drained
    <3>2. astray' = {}
      BY <2>1, <2>2, <3>1, AstrayIs DEF Heard
    <3>3. struck' = {} /\ hurt' = {}
      BY <1>4, <2>2 DEF Hear, DamageStays, Without
    <3> QED BY <3>2, <3>3 DEF Heard
  <2> QED BY <2>1, <2>2, AstrayIs
<1>5. CASE Elapse \/ UNCHANGED vars
  BY <1>1, <1>5, HeardKept DEF Elapse, vars, Safe, DamageStays, Without
<1>6. CASE Spawning
  <2>1. UNCHANGED <<struck, hurt, astray, worker>> /\ worker.stage = "spawning"
    BY <1>6 DEF Spawning, SpawnPoint, At
  <2>2. Heard => struck = {}
    BY <2>1 DEF Heard
  <2> QED BY <1>1, <2>1, <2>2, HeardKept DEF Safe, DamageStays, Without
<1>7. CASE Tick
  <2>1. CASE Wake \/ (\E z \in Zones : TickZone(z)) \/ EndZone
    <3>1. UNCHANGED <<struck, hurt, astray>> /\ worker.stage \in {"idle", "serving", "spawning"}
      BY <2>1 DEF Wake, TickZone, EndZone, At
    <3>2. Heard => struck = {}
      BY <3>1 DEF Heard
    <3> QED BY <1>1, <3>1, <3>2, HeardKept DEF Safe, DamageStays, Without
  <2>2. CASE Handled \/ \E t \in heap : Pop(t)
    <3>1. /\ UNCHANGED <<controller, struck, hurt, astray, worker.zone>>
          /\ worker.stage = "timers" /\ worker'.stage \in {"timers", "ticking"}
      BY <2>2, WorkerIs DEF Handled, Pop, At
    <3> QED BY <1>1, <3>1, HeardKept DEF Safe, DamageStays, Without
  <2> QED BY <1>1, <1>2, <1>3, <1>4, <1>7, <2>1, <2>2 DEF Tick, Safe, DamageStays, Without
<1>8. CASE Command
  <2>1. UNCHANGED <<astray, worker>> /\ worker.stage = "idle"
    BY <1>8 DEF Command, SpawnNpc, Replace, AttachController, RemoveEntity, TransferEntity, DealDamage,
       SaveSnapshot, RestoreSnapshot, At
  <2>2. CASE PostCommand({})
    BY <1>1, <2>1, <2>2, CommandHeard DEF Safe, DamageStays, Without
  <2>3. CASE UNCHANGED <<struck, hurt>>
    <3>1. Heard => struck = {}
      BY <2>1 DEF Heard
    <3> QED BY <1>1, <2>1, <2>3, <3>1, HeardKept DEF Safe, DamageStays, Without
  <2>4. ASSUME NEW e \in Entities, NEW z \in Zones, DealDamage(e, z) PROVE ~ DamageStays
    BY <2>4 DEF DealDamage, Allowed, DamageStays, Without
  <2>5. ~ DamageStays => Safe'
    BY <1>1, <2>1 DEF Safe, DamageStays, Without
  <2> QED BY <1>8, <2>2, <2>3, <2>4, <2>5 DEF Command, SpawnNpc, Replace, AttachController, RemoveEntity,
       TransferEntity, SaveSnapshot, RestoreSnapshot
<1> QED BY <1>5, <1>6, <1>7, <1>8 DEF Next

-----------------------------------------------------------------------------
(* No controller outlives its entity *)

HomesHere ==
  /\ \A e \in Entities : Attached(e) => e \in store[controller[e].map]
  /\ \A a \in attaching : a.of \in store[a.map]

\* A controller comes to an entity that is there.
LEMMA MovedHome ==
  ASSUME TypeOK, HomesHere, NEW e \in Entities, NEW kind \in Kinds, NEW z \in Zones, NEW started \in BOOLEAN,
         Moved(e, kind, z, started),
         e \in store'[z], \A x \in Entities, y \in Zones : x # e /\ x \in store[y] => x \in store'[y]
  PROVE  \A x \in Entities : Attached(x)' => x \in store'[controller'[x].map]
<1>1. \A x \in Entities : IF x = e THEN controller'[x].map = z ELSE controller'[x] = controller[x]
  BY MovedIs DEF TypeOK
<1> QED BY <1>1, MovedIs, ControllerIs DEF HomesHere

LEMMA StepHomes ==
  ASSUME Core, Homes, [Next]_vars, TypeOK'
  PROVE  Homes'
<1> USE DEF Core
<1> SUFFICES ASSUME scene.acts \cap {"load", "script", "kill", "overtake"} = {}, HomesHere PROVE HomesHere'
  BY SceneStays DEF Homes, HomesHere, Without
<1>2. CASE UNCHANGED <<controller, store, attaching>>
  BY <1>2 DEF HomesHere, Attached
<1>3. \A a \in attaching : a.of \in Entities /\ a.map \in Zones
  BY DEF TypeOK, Attach
<1>4. CASE Elapse \/ UNCHANGED vars
  BY <1>2, <1>4 DEF Elapse, vars
<1>5. CASE Tick
  <2>1. CASE Handle
    BY <1>2, <2>1 DEF Handle
  <2>3. CASE Hear
    <3>1. UNCHANGED store
      BY <2>3 DEF Hear, TypeOK
    <3> QED BY <1>2, <2>3, <3>1 DEF Hear
  <2>2. ASSUME NEW e \in Entities, FirstTick(e) PROVE HomesHere'
    <3>1. UNCHANGED <<store, attaching>>
      BY <2>2, FirstTickIs
    <3>2. \A x \in Entities : (Attached(x)' <=> Attached(x)) /\ (Attached(x) => controller'[x].map = controller[x].map)
      BY <2>2, StartedIs
    <3> QED BY <3>1, <3>2 DEF HomesHere
  <2> QED BY <1>2, <1>5, <2>1, <2>2, <2>3 DEF Tick, Wake, TickZone, Pop, Handled, EndZone
<1>6. ASSUME NEW e \in Entities, SpawnPoint(e) PROVE HomesHere'
  <2>1. worker.zone \in Zones /\ Fired = <<>>
    BY <1>6, IdleIs DEF SpawnPoint, At, Working
  <2>2. Moved(e, "monster", worker.zone, FALSE)
    BY <1>6, <2>1 DEF SpawnPoint, Moved
  <2>3. e \in store'[worker.zone] /\ \A y \in Zones : store[y] \subseteq store'[y]
    BY <1>6, <2>1 DEF SpawnPoint, TypeOK
  <2>4. \A x \in Entities : Attached(x)' => x \in store'[controller'[x].map]
    BY <2>1, <2>2, <2>3, MovedHome DEF Kinds
  <2>5. UNCHANGED attaching
    BY <1>6 DEF SpawnPoint
  <2> QED BY <1>3, <2>3, <2>4, <2>5 DEF HomesHere
<1>7. ASSUME NEW e \in Entities, NEW z \in Zones, NEW kind \in Kinds, SpawnNpc(e, z, kind) \/ Replace(e, z, kind)
      PROVE  HomesHere'
  <2>1. UNCHANGED controller /\ attaching' = attaching \cup {[of |-> e, kind |-> kind, map |-> z]}
    BY <1>7 DEF SpawnNpc, Replace
  <2>2. e \in store'[z] /\ \A y \in Zones : store[y] \subseteq store'[y]
    BY <1>7 DEF SpawnNpc, Replace, TypeOK
  <2> QED BY <1>3, <2>1, <2>2, ControllerIs DEF HomesHere, Attached
<1>8. ASSUME NEW a \in attaching, AttachController(a) PROVE HomesHere'
  <2>1. a.of \in Entities /\ a.kind \in Kinds /\ a.map \in Zones
    BY DEF TypeOK, Attach
  <2>2. Moved(a.of, a.kind, a.map, FALSE) /\ UNCHANGED store /\ attaching' = attaching \ {a}
    BY <1>8, IdleIs DEF AttachController, Moved
  <2>3. \A x \in Entities : Attached(x)' => x \in store'[controller'[x].map]
    BY <2>1, <2>2, MovedHome DEF HomesHere
  <2> QED BY <2>2, <2>3 DEF HomesHere
<1>9. ASSUME NEW e \in Entities, NEW z \in Zones, RemoveEntity(e, z) PROVE HomesHere'
  <2>1. ~ Waiting(e)
    BY <1>9 DEF RemoveEntity, InTime
  <2>2. Dropped(e) /\ UNCHANGED attaching /\ \A x \in Entities, y \in Zones : x # e /\ x \in store[y] => x \in store'[y]
    BY <1>9, IdleIs DEF RemoveEntity, Dropped, TypeOK
  <2> QED BY <1>3, <2>1, <2>2, DroppedIs, ControllerIs DEF HomesHere, Waiting
<1>10. ASSUME NEW e \in Entities, NEW from \in Zones, NEW to \in Zones, TransferEntity(e, from, to) PROVE HomesHere'
  <2>1. ~ Waiting(e) /\ UNCHANGED attaching
    BY <1>10 DEF TransferEntity, InTime
  <2>2. \A x \in Entities, y \in Zones : x # e /\ x \in store[y] => x \in store'[y]
    BY <1>10 DEF TransferEntity, TypeOK
  <2>3. \A a \in attaching : a.of \in store'[a.map]
    BY <1>3, <2>1, <2>2 DEF HomesHere, Waiting
  <2>4. CASE Dropped(e)
    BY <2>1, <2>2, <2>3, <2>4, DroppedIs, ControllerIs DEF HomesHere
  <2>5. CASE e \in store[from] /\ ~ Attached(e)
    BY <1>10, <2>1, <2>2, <2>3, <2>5, ControllerIs DEF HomesHere, TransferEntity, Attached
  <2>6. CASE e \in store[from] /\ Attached(e)
    <3>1. Moved(e, controller[e].kind, to, controller[e].started)
      BY <1>10, <2>6, IdleIs DEF TransferEntity, Moved
    <3>2. e \in store'[to]
      BY <1>10, <2>6 DEF TransferEntity, TypeOK
    <3> QED BY <2>1, <2>2, <2>3, <2>6, <3>1, <3>2, MovedHome, ControllerIs DEF HomesHere
  <2>7. e \notin store[from] => Dropped(e)
    BY <1>10, IdleIs DEF TransferEntity, Dropped
  <2> QED BY <2>4, <2>5, <2>6, <2>7
<1>11. ASSUME NEW e \in Entities, NEW z \in Zones, DealDamage(e, z) PROVE HomesHere'
  BY <1>2, <1>11 DEF DealDamage
<1>12. ~ \E z \in Zones : SaveSnapshot(z) \/ RestoreSnapshot(z)
  BY DEF SaveSnapshot, RestoreSnapshot, Allowed
<1>13. CASE Spawning
  BY <1>6, <1>13 DEF Spawning
<1>14. CASE Command
  BY <1>7, <1>8, <1>9, <1>10, <1>11, <1>12, <1>14 DEF Command
<1> QED BY <1>4, <1>5, <1>13, <1>14 DEF Next


-----------------------------------------------------------------------------
(* One clock for every controller *)

ClocksHere ==
  /\ \A a \in attaching : ~ Attached(a.of) /\ Silent(a.of)
  /\ \A a, c \in attaching : a.of = c.of => a = c
  /\ \A e \in Entities : Attached(e) => Alone(e)

LEMMA AttachIs ==
  ASSUME TypeOK, NEW a \in attaching
  PROVE  a.of \in Entities /\ a.kind \in Kinds /\ a.map \in Zones
BY DEF TypeOK, Attach

LEMMA HandleClocks ==
  ASSUME Core, IdsLeft, ClocksHere, Handle
  PROVE  ClocksHere'
<1> USE DEF Core
<1> DEFINE h == Fired[1].owner
<1>1. UNCHANGED <<controller, attaching>> /\ h \in Entities /\ 1 \in DOMAIN Fired
  BY HandleIs DEF Task
<1>2. \A i \in DOMAIN Fired' : i \in Nat /\ i + 1 \in DOMAIN Fired /\ i + 1 # 1 /\ Fired'[i] = Fired[i + 1]
  BY HandleDrops
<1>3. \/ UNCHANGED heap
      \/ /\ Attached(h) /\ controller[h].kind = "monster"
         /\ \E n \in Task : n.owner = h /\ n.every = 0 /\ heap' = heap \cup {n}
  BY OnTimerAdds, HandleIs
<1> HIDE DEF h
<1>4. ASSUME NEW e \in Entities, Silent(e), e # h PROVE Silent(e)'
  <2>1. \A t \in heap' : t.owner # e
    BY <1>3, <1>4 DEF Silent
  <2>2. \A i \in DOMAIN Fired' : Fired'[i].owner # e
    BY <1>2, <1>4 DEF Silent
  <2> QED BY <2>1, <2>2 DEF Silent
<1>5. \A e \in Entities : Silent(e) => e # h
  BY <1>1 DEF Silent, h
<1>6. ASSUME NEW e \in Entities, Attached(e) PROVE Alone(e)'
  <2>1. Alone(e)
    BY <1>6 DEF ClocksHere
  <2>2. ~ controller[e].started => Silent(e)'
    BY <1>4, <1>5, <2>1 DEF Alone
  <2>3. ASSUME controller[e].kind = "monster", e = h
        PROVE  (\A i \in DOMAIN Fired' : Fired'[i].owner # e) /\ (\A t \in heap : t.owner # e)
    BY <1>1, <1>2, <2>1, <2>3 DEF Alone, h
  <2>4. \A t, u \in heap' : t.owner = e /\ u.owner = e => t = u
    BY <1>3, <2>1, <2>3 DEF Alone
  <2>5. ASSUME controller[e].kind = "monster"
        PROVE  /\ \A t \in heap' : t.owner = e => t.every = 0
               /\ \A i \in DOMAIN Fired' : Fired'[i].owner = e =>
                    /\ \A t \in heap' : t.owner # e
                    /\ \A j \in DOMAIN Fired' : Fired'[j].owner = e => j = i
    <3>1. \A t \in heap' : t.owner = e => t.every = 0
      BY <1>3, <2>1, <2>5 DEF Alone
    <3>2. ASSUME NEW i \in DOMAIN Fired', Fired'[i].owner = e
          PROVE  /\ \A t \in heap' : t.owner # e
                 /\ \A j \in DOMAIN Fired' : Fired'[j].owner = e => j = i
      <4>1. e # h /\ \A t \in heap : t.owner # e
        BY <1>2, <2>1, <2>3, <2>5, <3>2 DEF Alone
      <4>2. \A t \in heap' : t.owner # e
        BY <1>3, <4>1
      <4>3. ASSUME NEW j \in DOMAIN Fired', Fired'[j].owner = e PROVE j = i
        <5>1. j + 1 = i + 1
          BY <1>2, <2>1, <2>5, <3>2, <4>3 DEF Alone
        <5> QED BY <1>2, <5>1
      <4> QED BY <4>2, <4>3
    <3> QED BY <3>1, <3>2
  <2> QED BY <1>1, <2>2, <2>4, <2>5 DEF Alone
<1>7. \A a \in attaching : ~ Attached(a.of) /\ Silent(a.of)'
  BY <1>4, <1>5, AttachIs DEF ClocksHere
<1> QED BY <1>1, <1>6, <1>7 DEF ClocksHere, Attached

LEMMA PopClocks ==
  ASSUME Core, ClocksHere, NEW t \in heap, Pop(t)
  PROVE  ClocksHere'
<1> USE DEF Core
<1> DEFINE n == Len(Fired) + 1
<1>1. UNCHANGED <<controller, attaching>> /\ t.owner \in Entities
  BY PopIs DEF Task
<1>2. /\ DOMAIN Fired' = DOMAIN Fired \cup {n} /\ n \notin DOMAIN Fired
      /\ Fired'[n] = t /\ \A i \in DOMAIN Fired : Fired'[i] = Fired[i]
  BY PopAppends
<1> HIDE DEF n
<1>3. \A u \in heap' : \/ u \in heap /\ u # t
                       \/ t.every > 0 /\ u.owner = t.owner /\ u.every = t.every
  BY PopLeaves
<1>4. heap' = (heap \ {t}) \cup (IF t.every > 0 THEN {Again(t)} ELSE {})
  BY PopIs
<1>5. ASSUME NEW e \in Entities, Silent(e) PROVE Silent(e)'
  <2>1. e # t.owner
    BY <1>5 DEF Silent
  <2>2. (\A u \in heap' : u.owner # e) /\ \A i \in DOMAIN Fired' : Fired'[i].owner # e
    BY <1>2, <1>3, <1>5, <2>1 DEF Silent
  <2> QED BY <2>2 DEF Silent
<1>6. ASSUME NEW e \in Entities, Attached(e) PROVE Alone(e)'
  <2>1. Alone(e)
    BY <1>6 DEF ClocksHere
  <2>2. ~ controller[e].started => Silent(e)'
    BY <1>5, <2>1 DEF Alone
  <2>3. \A u, v \in heap' : u.owner = e /\ v.owner = e => u = v
    <3>1. CASE e = t.owner
      <4>1. \A u \in heap : u.owner = e => u = t
        BY <2>1, <3>1 DEF Alone
      <4>2. \A u \in heap' : u.owner = e => t.every > 0 /\ u = Again(t)
        BY <1>4, <4>1
      <4> QED BY <4>2
    <3>2. CASE e # t.owner
      BY <1>3, <2>1, <3>2 DEF Alone
    <3> QED BY <3>1, <3>2
  <2>4. ASSUME controller[e].kind = "monster"
        PROVE  /\ \A u \in heap' : u.owner = e => u.every = 0
               /\ \A i \in DOMAIN Fired' : Fired'[i].owner = e =>
                    /\ \A u \in heap' : u.owner # e
                    /\ \A j \in DOMAIN Fired' : Fired'[j].owner = e => j = i
    <3>1. CASE e = t.owner
      <4>1. t.every = 0 /\ (\A u \in heap : u.owner = e => u = t) /\ \A i \in DOMAIN Fired : Fired[i].owner # e
        BY <2>1, <2>4, <3>1 DEF Alone
      <4>2. \A u \in heap' : u.owner # e
        BY <1>3, <4>1
      <4> QED BY <1>2, <4>1, <4>2
    <3>2. CASE e # t.owner
      BY <1>2, <1>3, <2>1, <2>4, <3>2 DEF Alone
    <3> QED BY <3>1, <3>2
  <2> QED BY <1>1, <2>2, <2>3, <2>4 DEF Alone
<1>7. \A a \in attaching : ~ Attached(a.of) /\ Silent(a.of)'
  BY <1>5, AttachIs DEF ClocksHere
<1> QED BY <1>1, <1>6, <1>7 DEF ClocksHere, Attached

LEMMA FirstTickClocks ==
  ASSUME Core, IdsLeft, ClocksHere, NEW e \in Entities, FirstTick(e)
  PROVE  ClocksHere'
<1> USE DEF Core
<1>1. PICK n \in Task : /\ n.owner = e /\ (controller[e].kind # "pet" => n.every = 0)
                        /\ heap' = heap \cup {n}
  BY FirstTickAdds
<1>2. /\ Attached(e) /\ ~ controller[e].started /\ Fired = <<>> /\ Fired' = <<>>
      /\ UNCHANGED attaching
  BY FirstTickIs DEF Fired, FirstTick
<1>3. \A t \in heap : t.owner # e
  BY <1>2 DEF ClocksHere, Alone, Silent
<1>4. ASSUME NEW x \in Entities, x # e, Silent(x) PROVE Silent(x)'
  BY <1>1, <1>2, <1>4 DEF Silent
<1>5. ASSUME NEW x \in Entities, Attached(x)' PROVE Alone(x)'
  <2>1. CASE x = e
    <3>1. \A t \in heap' : t.owner = e => t = n
      BY <1>1, <1>3
    <3>2. controller'[e].started /\ (controller'[e].kind = "monster" => n.every = 0)
      BY <1>1, StartedIs
    <3> QED BY <1>2, <2>1, <3>1, <3>2 DEF Alone
  <2>2. CASE x # e
    <3>1. controller'[x] = controller[x] /\ Alone(x)
      BY <1>5, <2>2, StartedIs DEF ClocksHere
    <3>2. \A t \in heap' : t.owner = x => t \in heap
      BY <1>1, <2>2
    <3>3. ~ controller'[x].started => Silent(x)'
      BY <1>4, <2>2, <3>1 DEF Alone
    <3> QED BY <1>2, <3>1, <3>2, <3>3 DEF Alone
  <2> QED BY <2>1, <2>2
<1>6. \A a \in attaching : a.of # e /\ ~ Attached(a.of)' /\ Silent(a.of)'
  BY <1>2, <1>4, AttachIs, StartedIs DEF ClocksHere
<1> QED BY <1>2, <1>5, <1>6 DEF ClocksHere


LEMMA MovedClocks ==
  ASSUME Core, ClocksHere, TypeOK', NEW e \in Entities, NEW kind \in Kinds, NEW z \in Zones, NEW started \in BOOLEAN,
         Moved(e, kind, z, started),
         \/ Attached(e) /\ controller[e].kind = kind /\ controller[e].started = started
         \/ Silent(e) /\ ~ started
  PROVE  /\ \A x \in Entities : Silent(x) => Silent(x)'
         /\ \A x \in Entities : Attached(x)' => Alone(x)'
<1> USE DEF Core
<1>1. Fired = <<>> /\ Fired' = <<>>
  BY MovedIs
<1>2. \A t \in heap' : \E v \in heap : t.id = v.id /\ t.owner = v.owner /\ t.every = v.every
  BY MovedIs
<1>3. \A x \in Entities : IF x = e THEN controller'[x].kind = kind /\ controller'[x].started = started
                                   ELSE controller'[x] = controller[x]
  BY MovedIs DEF TypeOK
<1>4. \A t, u \in heap' : t.id = u.id => t = u
  BY DEF TypeOK
<1>5. ASSUME NEW x \in Entities, Silent(x) PROVE Silent(x)'
  BY <1>1, <1>2, <1>5 DEF Silent
<1>6. ASSUME NEW x \in Entities, Attached(x)' PROVE Alone(x)'
  <2>1. /\ \A v, w \in heap : v.owner = x /\ w.owner = x => v = w
        /\ ~ controller'[x].started => Silent(x)
        /\ controller'[x].kind = "monster" => \A v \in heap : v.owner = x => v.every = 0
    <3>1. CASE Attached(x) /\ (x = e => controller[e].kind = kind /\ controller[e].started = started)
      BY <1>3, <3>1 DEF ClocksHere, Alone
    <3>2. CASE x = e /\ Silent(e)
      BY <3>2 DEF Silent
    <3> QED BY <1>6, <3>1, <3>2, MovedIs
  <2>2. \A t, u \in heap' : t.owner = x /\ u.owner = x => t = u
    BY <1>2, <1>4, <2>1
  <2>3. controller'[x].kind = "monster" => \A t \in heap' : t.owner = x => t.every = 0
    BY <1>2, <2>1
  <2>4. ~ controller'[x].started => Silent(x)'
    BY <1>5, <2>1
  <2> QED BY <1>1, <2>2, <2>3, <2>4 DEF Alone
<1> QED BY <1>5, <1>6

LEMMA DroppedClocks ==
  ASSUME Core, ClocksHere, NEW e \in Entities, Dropped(e), UNCHANGED attaching
  PROVE  ClocksHere'
<1> USE DEF Core
<1>1. Fired = <<>> /\ Fired' = <<>> /\ UNCHANGED heap
  BY DroppedIs
<1>2. \A x \in Entities : Silent(x) => Silent(x)'
  BY <1>1 DEF Silent
<1>3. ASSUME NEW x \in Entities, Attached(x)' PROVE Alone(x)'
  <2>1. Alone(x) /\ controller'[x] = controller[x]
    BY <1>3, DroppedIs DEF ClocksHere
  <2> QED BY <1>1, <1>2, <2>1 DEF Alone
<1>4. \A a \in attaching : ~ Attached(a.of)' /\ Silent(a.of)'
  BY <1>2, AttachIs, DroppedIs DEF ClocksHere
<1> QED BY <1>3, <1>4 DEF ClocksHere

LEMMA SameClocks ==
  ASSUME ClocksHere, UNCHANGED <<controller, heap, attaching>>, Fired' = Fired
  PROVE  ClocksHere'
BY DEF ClocksHere, Alone, Silent, Attached

\* Nothing is left of an entity with a serial not used before.
LEMMA UnusedIs ==
  ASSUME NEW e \in Entities, Unused(e), Fired = <<>>
  PROVE  ~ Attached(e) /\ Silent(e) /\ \A a \in attaching : a.of # e
BY DEF Unused, Silent, Waiting

LEMMA SpawnPointClocks ==
  ASSUME Core, ClocksHere, TypeOK', NEW e \in Entities, SpawnPoint(e)
  PROVE  ClocksHere'
<1> USE DEF Core
<1>1. worker.zone \in Zones /\ Fired = <<>> /\ UNCHANGED attaching
  BY IdleIs DEF SpawnPoint, At, Working
<1>2. ~ Attached(e) /\ Silent(e) /\ \A a \in attaching : a.of # e
  BY <1>1, UnusedIs DEF SpawnPoint
<1>3. Moved(e, "monster", worker.zone, FALSE)
  BY <1>1 DEF SpawnPoint, Moved
<1>4. /\ \A x \in Entities : Silent(x) => Silent(x)'
      /\ \A x \in Entities : Attached(x)' => Alone(x)'
  BY <1>1, <1>2, <1>3, MovedClocks DEF Kinds
<1>5. \A x \in Entities : Attached(x)' <=> x = e \/ Attached(x)
  BY <1>1, <1>3, MovedIs DEF Kinds
<1>6. \A a \in attaching : ~ Attached(a.of)' /\ Silent(a.of)'
  BY <1>2, <1>4, <1>5, AttachIs DEF ClocksHere
<1> QED BY <1>1, <1>4, <1>6 DEF ClocksHere

LEMMA AttachControllerClocks ==
  ASSUME Core, ClocksHere, TypeOK', NEW a \in attaching, AttachController(a)
  PROVE  ClocksHere'
<1> USE DEF Core
<1>1. Fired = <<>> /\ attaching' = attaching \ {a}
  BY IdleIs DEF AttachController
<1>2. a.of \in Entities /\ a.kind \in Kinds /\ a.map \in Zones /\ ~ Attached(a.of) /\ Silent(a.of)
  BY AttachIs DEF ClocksHere
<1>3. Moved(a.of, a.kind, a.map, FALSE)
  BY <1>1 DEF AttachController, Moved
<1>4. /\ \A x \in Entities : Silent(x) => Silent(x)'
      /\ \A x \in Entities : Attached(x)' => Alone(x)'
  BY <1>2, <1>3, MovedClocks
<1>5. \A x \in Entities : Attached(x)' <=> x = a.of \/ Attached(x)
  BY <1>2, <1>3, MovedIs
<1>6. \A c \in attaching' : c \in attaching /\ c.of # a.of
  BY <1>1 DEF ClocksHere
<1>7. \A c \in attaching' : ~ Attached(c.of)' /\ Silent(c.of)'
  BY <1>4, <1>5, <1>6, AttachIs DEF ClocksHere
<1> QED BY <1>1, <1>4, <1>7 DEF ClocksHere

LEMMA SpawnNpcClocks ==
  ASSUME Core, ClocksHere, NEW e \in Entities, NEW z \in Zones, NEW kind \in Kinds, SpawnNpc(e, z, kind)
  PROVE  ClocksHere'
<1> USE DEF Core
<1> DEFINE c == [of |-> e, kind |-> kind, map |-> z]
<1>1. Fired = <<>> /\ Fired' = Fired /\ UNCHANGED <<controller, heap>> /\ attaching' = attaching \cup {c}
  BY IdleIs DEF SpawnNpc, Fired
<1>2. ~ Attached(e) /\ Silent(e) /\ \A a \in attaching : a.of # e
  BY <1>1, UnusedIs DEF SpawnNpc
<1>3. c.of = e
  OBVIOUS
<1> HIDE DEF c
<1>4. \A a \in attaching' : ~ Attached(a.of) /\ Silent(a.of)
  BY <1>1, <1>2, <1>3 DEF ClocksHere
<1>5. \A a, b \in attaching' : a.of = b.of => a = b
  BY <1>1, <1>2, <1>3 DEF ClocksHere
<1> QED BY <1>1, <1>4, <1>5 DEF ClocksHere, Alone, Silent, Attached

LEMMA StepClocks ==
  ASSUME Core, IdsLeft, Clocks, [Next]_vars, TypeOK'
  PROVE  Clocks'
<1> USE DEF Core
<1> SUFFICES ASSUME scene.acts \cap {"replace", "load"} = {}, ClocksHere PROVE ClocksHere'
  BY SceneStays DEF Clocks, ClocksHere, Without
<1>1. CASE Elapse \/ UNCHANGED vars
  BY <1>1, SameClocks DEF Elapse, vars, Fired
<1>2. CASE Tick
  <2>1. Turn => UNCHANGED <<controller, heap>> /\ Fired' = Fired
    BY DEF Turn
  <2>2. CASE Wake \/ (\E z \in Zones : TickZone(z)) \/ Handled \/ Hear \/ EndZone
    <3>1. UNCHANGED attaching
      BY <2>2 DEF Wake, TickZone, Handled, Hear, EndZone
    <3>2. UNCHANGED <<controller, heap>> /\ Fired' = Fired
      BY <2>1, <2>2, TurnIs
    <3> QED BY <3>1, <3>2, SameClocks
  <2> QED BY <1>2, <2>2, HandleClocks, PopClocks, FirstTickClocks DEF Tick
<1>3. CASE Spawning
  BY <1>3, SpawnPointClocks DEF Spawning
<1>4. CASE Command
  <2>1. ASSUME NEW e \in Entities, NEW z \in Zones, RemoveEntity(e, z) PROVE ClocksHere'
    <3>1. Dropped(e) /\ UNCHANGED attaching
      BY <2>1, IdleIs DEF RemoveEntity, Dropped
    <3> QED BY <3>1, DroppedClocks
  <2>2. ASSUME NEW e \in Entities, NEW from \in Zones, NEW to \in Zones, TransferEntity(e, from, to) PROVE ClocksHere'
    <3>1. UNCHANGED attaching
      BY <2>2 DEF TransferEntity
    <3>2. CASE Quiet
      BY <3>1, <3>2, SameClocks DEF Quiet, Fired
    <3>3. CASE Attached(e) /\ Moved(e, controller[e].kind, to, controller[e].started)
      <4>1. /\ \A x \in Entities : Silent(x) => Silent(x)'
            /\ \A x \in Entities : Attached(x)' => Alone(x)'
        BY <3>3, ControllerIs, MovedClocks
      <4>2. \A x \in Entities : Attached(x)' <=> Attached(x)
        BY <3>3, ControllerIs, MovedIs
      <4>3. \A a \in attaching : ~ Attached(a.of)' /\ Silent(a.of)'
        BY <4>1, <4>2, AttachIs DEF ClocksHere
      <4> QED BY <3>1, <4>1, <4>3 DEF ClocksHere
    <3> QED BY <2>2, <3>1, <3>2, <3>3, TransferIs, DroppedClocks
  <2>3. ASSUME NEW e \in Entities, NEW z \in Zones, DealDamage(e, z) PROVE ClocksHere'
    BY <2>3, SameClocks DEF DealDamage, Fired
  <2>4. ~ \E e \in Entities, z \in Zones, k \in Kinds : Replace(e, z, k)
    BY DEF Replace, Allowed
  <2>5. ~ \E z \in Zones : SaveSnapshot(z) \/ RestoreSnapshot(z)
    BY DEF SaveSnapshot, RestoreSnapshot, Allowed
  <2> QED BY <1>4, <2>1, <2>2, <2>3, <2>4, <2>5, SpawnNpcClocks, AttachControllerClocks DEF Command
<1> QED BY <1>1, <1>2, <1>3, <1>4 DEF Next


-----------------------------------------------------------------------------
(* The invariant holds *)

LEMMA StepIInv == IInv /\ IdsLeft /\ [Next]_vars => IInv' /\ Step
<1> SUFFICES ASSUME IInv, IdsLeft, [Next]_vars PROVE IInv' /\ Step
  OBVIOUS
<1>1. Core /\ Sited /\ Safe /\ Awake /\ Homes /\ Clocks
  BY DEF IInv
<1>2. TypeOK' /\ Step
  BY <1>1, StepTyped, StepIs DEF Core
<1>3. Core'
  BY <1>1, <1>2, StepWorks, StepOrders, StepFollows DEF Core
<1>4. Sited' /\ Safe' /\ Awake' /\ Homes' /\ Clocks'
  BY <1>1, <1>2, StepSited, StepIsSafe, StepKeepsAwake, StepHomes, StepClocks
<1> QED BY <1>2, <1>3, <1>4 DEF IInv

\* As long as the counter of task ids does not wrap around, the state of host, scheduler and zones keeps
\* together: the invariant on which the other results of this module rest.
THEOREM HostInvariant == Spec /\ []IdsLeft => []IInv
BY InitIInv, StepIInv, PTL DEF Spec

\* The tasks, controllers and zones have their types, and no two tasks in the heap have one id.
THEOREM HostTyped == Spec /\ []IdsLeft => []TypeOK
BY HostInvariant, PTL DEF IInv, Core

\* Through any number of transfers, replacements and restores, a timer still to come belongs to the zone of
\* the controller that will get it (attach and reassign_entity_map).
THEOREM TimersKeepUp == Spec /\ []IdsLeft => []TimersFollow
BY HostInvariant, PTL DEF IInv, Core, Follows

\* No controller is ever called for a timer or its tick in a zone that is not its own, and where the damage
\* stays, which is where the only damage is what monsters do to each other and no zone is restored and nobody
\* overtakes an AttachController, it is not called in one for damage either.
THEOREM CalledAtHome == Spec /\ []IdsLeft => []RightZone
<1>1. IInv => RightZone
  BY DEF IInv, Safe, Heard, RightZone
<1> QED BY <1>1, HostInvariant, PTL

\* Between two ticks, a controller that has had its first tick has a timer to come in its own zone.
THEOREM NobodySleeps == Spec /\ []IdsLeft => []NeverAsleep
<1>1. IInv => NeverAsleep
  <2> SUFFICES ASSUME IInv, At("idle"), NEW e \in Entities, Attached(e), controller[e].started
               PROVE  \E t \in heap : t.owner = e /\ t.zone = controller[e].map
    BY DEF NeverAsleep
  <2>1. Fired = <<>>
    BY IdleIs DEF IInv, Core
  <2>2. PICK t \in heap : t.owner = e
    BY <2>1 DEF IInv, Awake
  <2> QED BY <2>2 DEF IInv, Core, Follows, TimersFollow
<1> QED BY <1>1, HostInvariant, PTL

\* Unless a controller takes the place of another, a creature has at most one timer to come.
THEOREM OneClockEach == Spec /\ []IdsLeft => []OneClock
<1>1. IInv => OneClock
  <2> SUFFICES ASSUME IInv, Without({"replace", "load"}), NEW e \in Entities, Attached(e)
               PROVE  Cardinality({t \in heap : t.owner = e}) <= 1
    BY DEF OneClock, OneClockAlways
  <2> DEFINE S == {t \in heap : t.owner = e}
  <2>1. \A t, u \in S : t = u
    BY DEF IInv, Clocks, Alone
  <2>2. CASE S = {}
    BY <2>2, FS_EmptySet
  <2>3. CASE S # {}
    <3>1. PICK t : t \in S
      BY <2>3
    <3>2. S = {t}
      BY <2>1, <3>1
    <3>3. Cardinality(S) = 1
      BY <3>2, FS_Singleton
    <3> QED BY <3>3
  <2> QED BY <2>2, <2>3
<1> QED BY <1>1, HostInvariant, PTL

\* Without restores, scripts, kills and commands that overtake an AttachController, every controller has its
\* entity, in the zone in which it is ticked.
THEOREM ControllersAtHome == Spec /\ []IdsLeft => []NoGhosts
<1>1. IInv => NoGhosts
  BY DEF IInv, Homes, NoGhosts, NoGhostsAlways
<1> QED BY <1>1, HostInvariant, PTL

-----------------------------------------------------------------------------
(* The timers are alarms *)

LEMMA AlarmsAre ==
  /\ \A t \in heap : AlarmOf(t) \in AlarmsLeft
  /\ \A i \in DOMAIN Fired : AlarmOf(Fired[i]) \in AlarmsLeft
  /\ \A a \in AlarmsLeft : (\E t \in heap : a = AlarmOf(t)) \/ (\E i \in DOMAIN Fired : a = AlarmOf(Fired[i]))
BY DEF AlarmsLeft, Ringing, Fired

LEMMA AlarmsAreNext ==
  /\ \A t \in heap' : AlarmOf(t) \in AlarmsLeft'
  /\ \A i \in DOMAIN Fired' : AlarmOf(Fired'[i]) \in AlarmsLeft'
  /\ \A a \in AlarmsLeft' : (\E t \in heap' : a = AlarmOf(t)) \/ (\E i \in DOMAIN Fired' : a = AlarmOf(Fired'[i]))
BY DEF AlarmsLeft, Ringing, Fired, AlarmOf

LEMMA AlarmIs ==
  ASSUME NEW t
  PROVE  LET a == AlarmOf(t) IN a.id = t.id /\ a.owner = t.owner /\ a.zone = t.zone /\ a.at = t.at
BY DEF AlarmOf

\* The first of the fired timers rings.
LEMMA HandleRings ==
  ASSUME Core, IdsLeft, Handle
  PROVE  Timers!Ring(AlarmOf(Fired[1]))
<1> USE DEF Core
<1> DEFINE a == AlarmOf(Fired[1])
<1>1. 1 \in DOMAIN Fired /\ Fired[1] \in Task /\ UNCHANGED <<clock, worker.zone>>
  BY HandleIs
<1>2. a.zone = worker.zone /\ a.at <= clock
  <2>1. Fired[1].zone = worker.zone /\ Fired[1].at <= worker.now /\ worker.now <= clock
    BY <1>1, HandleIs DEF Working
  <2> QED BY <1>1, <2>1, AlarmIs, WorkerIs, ControllersAssumption DEF TypeOK, Task
<1>3. \A i \in DOMAIN Fired' : i \in Nat /\ i + 1 \in DOMAIN Fired /\ i + 1 # 1 /\ Fired'[i] = Fired[i + 1]
  BY HandleDrops
<1>4. ASSUME NEW t \in heap' PROVE AlarmOf(t) # a
  <2>1. CASE t \in heap
    <3>1. t.id = Fired[1].id => Fired[1].at < t.at
      BY <1>1, <2>1 DEF Ordered
    <3>2. t.at \in Nat /\ Fired[1].at \in Nat
      BY <1>1, <2>1 DEF TypeOK, Task
    <3> QED BY <3>1, <3>2, AlarmIs
  <2>2. CASE t \notin heap
    <3>1. t \in Task /\ t.at > clock
      BY <2>2, OnTimerAdds
    <3> QED BY <1>2, <3>1, AlarmIs, ControllersAssumption DEF TypeOK, Task
  <2> QED BY <2>1, <2>2
<1>5. ASSUME NEW i \in DOMAIN Fired' PROVE AlarmOf(Fired'[i]) # a
  BY <1>1, <1>3, AlarmIs DEF Ordered
<1>6. a \in AlarmsLeft /\ a \notin AlarmsLeft'
  BY <1>1, <1>4, <1>5, AlarmsAre, AlarmsAreNext
<1>7. ASSUME NEW b \in AlarmsLeft, b # a PROVE b \in AlarmsLeft'
  <2>1. CASE \E t \in heap : b = AlarmOf(t)
    <3>1. heap \subseteq heap'
      BY OnTimerAdds
    <3> QED BY <2>1, <3>1, AlarmsAreNext
  <2>2. CASE \E i \in DOMAIN Fired : b = AlarmOf(Fired[i])
    BY <1>7, <2>2, HandleDrops, AlarmsAreNext
  <2> QED BY <2>1, <2>2, AlarmsAre
<1> HIDE DEF a
<1>8. AlarmsLeft \ {a} \subseteq AlarmsLeft'
  BY <1>7
<1> QED BY <1>1, <1>2, <1>6, <1>8 DEF Timers!Ring, a

LEMMA PopSets ==
  ASSUME Core, NEW t \in heap, Pop(t)
  PROVE  Timers!Set
<1>1. \A u \in heap : u \in heap' \/ u = t
  BY PopIs DEF Core
<1>2. (\E i \in DOMAIN Fired' : Fired'[i] = t) /\ \A i \in DOMAIN Fired : i \in DOMAIN Fired' /\ Fired'[i] = Fired[i]
  BY PopAppends DEF Core
<1>3. AlarmsLeft \subseteq AlarmsLeft'
  BY <1>1, <1>2, AlarmsAre, AlarmsAreNext
<1> QED BY <1>3, PopIs DEF Core, Timers!Set

LEMMA FirstTickSets ==
  ASSUME Core, IdsLeft, NEW e \in Entities, FirstTick(e)
  PROVE  Timers!Set
<1>1. heap \subseteq heap'
  BY FirstTickAdds DEF Core
<1>2. Fired' = Fired /\ UNCHANGED <<clock, worker>>
  BY FirstTickIs DEF Core, Fired
<1>3. AlarmsLeft \subseteq AlarmsLeft'
  BY <1>1, <1>2, AlarmsAre, AlarmsAreNext
<1> QED BY <1>2, <1>3 DEF Timers!Set

LEMMA MovedFollows ==
  ASSUME Core, NEW e \in Entities, NEW kind \in Kinds, NEW z \in Zones, NEW started \in BOOLEAN,
         Moved(e, kind, z, started)
  PROVE  Timers!Follow(e, z)
<1> DEFINE At2(a) == IF a.owner = e THEN [a EXCEPT !.zone = z] ELSE a
<1>1. heap \subseteq Task /\ heap' = {Stamped(t, e, z) : t \in heap}
  BY StampIs DEF Core, TypeOK, Moved, AttachTo
<1>2. worker.fired = <<>> /\ worker'.fired = <<>> /\ UNCHANGED <<clock, worker.zone>>
  BY DEF Moved, Fired
<1>3. AlarmsLeft = {AlarmOf(t) : t \in heap}
  BY <1>2 DEF AlarmsLeft, Ringing
<1>4. AlarmsLeft' = {AlarmOf(t) : t \in heap'}
  BY <1>2 DEF AlarmsLeft, Ringing, AlarmOf
<1>5. \A t \in heap : AlarmOf(Stamped(t, e, z)) = At2(AlarmOf(t))
  BY <1>1 DEF AlarmOf, Stamped, Task
<1> HIDE DEF At2
<1>6. AlarmsLeft' = {At2(a) : a \in AlarmsLeft}
  BY <1>1, <1>3, <1>4, <1>5
<1> QED BY <1>2, <1>6 DEF Timers!Follow, At2

LEMMA StepRings ==
  ASSUME Core, IdsLeft, Step, TypeOK'
  PROVE  [Timers!Next]_(Timers!vars)
<1>1. Fired' = Fired /\ UNCHANGED heap => UNCHANGED AlarmsLeft
  BY DEF AlarmsLeft, Ringing, Fired, AlarmOf
<1>2. CASE Turn
  <2>1. worker'.zone \in Zones \cup {None}
    BY DEF TypeOK
  <2> QED BY <1>1, <1>2, <2>1 DEF Turn, Timers!Next, Timers!Serve
<1>3. CASE Quiet
  <2>1. clock \in Nat /\ clock' \in Nat
    BY ControllersAssumption DEF Core, TypeOK
  <2>2. UNCHANGED <<AlarmsLeft, worker.zone>>
    BY <1>1, <1>3 DEF Quiet, Fired
  <2> QED BY <1>3, <2>1, <2>2 DEF Quiet, Timers!Next, Timers!Elapse, Timers!vars
<1>4. ASSUME NEW e \in Entities, Dropped(e) PROVE UNCHANGED Timers!vars
  <2>1. UNCHANGED <<clock, AlarmsLeft, worker.zone>>
    BY <1>1, <1>4 DEF Dropped, Fired
  <2> QED BY <2>1 DEF Timers!vars
<1>5. CASE Handle
  <2>1. AlarmOf(Fired[1]) \in AlarmsLeft
    BY <1>5, HandleIs, AlarmsAre DEF Core
  <2> QED BY <1>5, <2>1, HandleRings DEF Timers!Next
<1>6. ASSUME NEW t \in heap, Pop(t) PROVE Timers!Next
  BY <1>6, PopSets DEF Timers!Next
<1>7. ASSUME NEW e \in Entities, FirstTick(e) PROVE Timers!Next
  BY <1>7, FirstTickSets DEF Timers!Next
<1>8. ASSUME NEW e \in Entities, NEW kind \in Kinds, NEW z \in Zones, NEW started \in BOOLEAN, Moved(e, kind, z, started)
      PROVE  Timers!Next
  BY <1>8, MovedFollows DEF Timers!Next
<1> QED BY <1>2, <1>3, <1>4, <1>5, <1>6, <1>7, <1>8 DEF Step

LEMMA AlarmsStart == Init => Timers!Init
<1> SUFFICES ASSUME Init PROVE Timers!Init
  OBVIOUS
<1>1. worker.fired = <<>> /\ worker.zone = None /\ heap = {} /\ clock = 0
  BY DEF Init, Idle
<1>2. AlarmsLeft = {}
  BY <1>1 DEF AlarmsLeft, Ringing
<1> QED BY <1>1, <1>2 DEF Timers!Init

\* The host and its scheduler implement alarms, for any number of entities, zones and timers: each rings
\* once, never early, in the zone it belongs to, and none is lost.
THEOREM HostKeepsAlarms == Spec /\ []IdsLeft => TimersAreAlarms
<1>1. IInv /\ IdsLeft /\ [Next]_vars => [Timers!Next]_(Timers!vars)
  BY StepIInv, StepRings DEF IInv, Core
<1> QED BY <1>1, HostInvariant, AlarmsStart, PTL DEF Spec, TimersAreAlarms, Timers!Spec


-----------------------------------------------------------------------------
(* Ids *)

Bounded == \E n \in Nat : \A t \in heap : t.id < n

LEMMA StepBounded ==
  ASSUME Core, IdsLeft, Bounded, Step
  PROVE  Bounded'
<1> USE DEF Core
<1>1. CASE \A u \in heap' : \E t \in heap : u.id = t.id
  BY <1>1 DEF Bounded
<1>2. CASE \E n \in Task : heap' = heap \cup {n}
  <2>1. PICK n \in Task : heap' = heap \cup {n}
    BY <1>2
  <2>2. PICK b \in Nat : \A t \in heap : t.id < b
    BY DEF Bounded
  <2>3. n.id \in Nat /\ \A t \in heap : t.id \in Nat
    BY ControllersAssumption DEF TypeOK, Task
  <2> DEFINE c == IF n.id < b THEN b ELSE n.id + 1
  <2>4. c \in Nat /\ \A t \in heap' : t.id < c
    BY <2>1, <2>2, <2>3
  <2> QED BY <2>4 DEF Bounded
<1>3. CASE UNCHANGED heap
  BY <1>1, <1>3
<1>4. CASE Handle
  BY <1>2, <1>3, <1>4, OnTimerAdds
<1>5. ASSUME NEW t \in heap, Pop(t) PROVE Bounded'
  BY <1>1, <1>5, PopLeaves
<1>6. ASSUME NEW e \in Entities, FirstTick(e) PROVE Bounded'
  BY <1>2, <1>6, FirstTickAdds
<1>7. ASSUME NEW e \in Entities, NEW kind \in Kinds, NEW z \in Zones, NEW started \in BOOLEAN, Moved(e, kind, z, started)
      PROVE  Bounded'
  BY <1>1, <1>7, MovedIs
<1> QED BY <1>3, <1>4, <1>5, <1>6, <1>7 DEF Step, Quiet, Turn, Dropped

\* With a counter that does not wrap around there is always an id for the next task (Scheduler::next_id):
\* the premise of the results above holds.
THEOREM IdsDoNotEnd ==
  ASSUME TaskIds = Nat
  PROVE  Spec => []IdsLeft
<1>1. Bounded => IdsLeft
  BY DEF Bounded, IdsLeft, TypeOK, Task
<1>2. Init => IInv /\ Bounded
  <2>1. Init => Bounded
    BY DEF Init, Bounded
  <2> QED BY <2>1, InitIInv
<1>3. IInv /\ Bounded /\ [Next]_vars => (IInv /\ Bounded)'
  BY <1>1, StepIInv, StepBounded DEF IInv
<1> QED BY <1>1, <1>2, <1>3, PTL DEF Spec
=============================================================================
