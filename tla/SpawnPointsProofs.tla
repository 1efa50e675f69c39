-------------------------- MODULE SpawnPointsProofs --------------------------
(***************************************************************************)
(* Spawn points neither lose places nor overfill them, for any number of   *)
(* zones, points, spawner objects and serials.                             *)
(***************************************************************************)
EXTENDS SpawnPoints, FiniteSetTheorems, WellFoundedInduction, TLAPS

-----------------------------------------------------------------------------
(* The lowest free serials *)

\* Least elements, from the well-founded order of the intervals 0 .. k: what
\* is shown by induction below is shown of a least counterexample.
LEMMA Least ==
  ASSUME NEW T \in SUBSET Nat, T # {}
  PROVE  \E x \in T : \A y \in T : x <= y
<1>1. PICK n \in T : TRUE
  OBVIOUS
<1> DEFINE I == {0 .. k : k \in T}
           W == FiniteSubsetsOf(Nat)
           R == StrictSubsetOrdering(Nat)
<1>2. I \subseteq W /\ I # {}
  <2>1. ASSUME NEW k \in T
        PROVE  0 .. k \in W
    <3>1. IsFiniteSet(0 .. k)
      BY FS_Interval, k \in Int
    <3> QED BY <3>1 DEF FiniteSubsetsOf
  <2> QED BY <2>1, <1>1
<1>3. IsWellFoundedOn(R, W)
  BY FS_StrictSubsetOrderingWellFounded
<1>4. \E x \in I : \A y \in I : ~ (<<y, x>> \in R)
  <2> HIDE DEF I, R, W
  <2> QED BY <1>2, <1>3, WFMin
<1>5. PICK k \in T : \A j \in T : ~ (<<0 .. j, 0 .. k>> \in R)
  BY <1>4
<1>6. ASSUME NEW j \in T, j < k
      PROVE  FALSE
  <2>1. 0 .. j \subseteq 0 .. k /\ 0 .. j # 0 .. k
    <3>1. k \in 0 .. k /\ k \notin 0 .. j
      BY <1>6
    <3> QED BY <3>1, <1>6
  <2>2. <<0 .. j, 0 .. k>> \in R
    BY <2>1 DEF StrictSubsetOrdering
  <2> QED BY <2>2, <1>5
<1> QED BY <1>5, <1>6

IsLowest(T, n, S) == T \in kSubset(n, S) /\ \A a \in T, b \in S \ T : a < b

LEMMA LowestExist ==
  ASSUME NEW S \in SUBSET Nat, IsFiniteSet(S), NEW n \in Nat, n <= Cardinality(S)
  PROVE  \E T : IsLowest(T, n, S)
<1> DEFINE Bad == {k \in Nat : k <= Cardinality(S) /\ ~ \E T : IsLowest(T, k, S)}
<1>0. Cardinality(S) \in Nat
  BY FS_CardinalityType
<1>1. SUFFICES ASSUME Bad # {} PROVE FALSE
  OBVIOUS
<1>2. PICK k \in Bad : \A j \in Bad : k <= j
  <2> HIDE DEF Bad
  <2>1. Bad \in SUBSET Nat
    BY DEF Bad
  <2> QED BY <2>1, <1>1, Least
<1>3. k # 0
  <2>1. Cardinality({}) = 0
    BY ONLY FS_EmptySet, Zenon
  <2>2. IsLowest({}, 0, S)
    BY <2>1 DEF IsLowest, kSubset
  <2> QED BY <2>2
<1>4. PICK T : IsLowest(T, k - 1, S)
  <2>1. k - 1 \in Nat /\ k - 1 < k /\ k - 1 <= Cardinality(S)
    BY <1>0, <1>3
  <2> QED BY <1>2, <2>1
<1>5. T \subseteq S /\ Cardinality(T) = k - 1 /\ \A a \in T, b \in S \ T : a < b
  BY <1>4 DEF IsLowest, kSubset
<1>6. IsFiniteSet(T) /\ S \ T # {}
  <2>1. IsFiniteSet(T)
    BY <1>5, FS_Subset
  <2>2. T # S
    BY <1>0, <1>3, <1>5
  <2> QED BY <2>1, <2>2, <1>5
<1>7. PICK x \in S \ T : \A y \in S \ T : x <= y
  BY <1>6, Least
<1>8. IsFiniteSet(T \cup {x}) /\ Cardinality(T \cup {x}) = k
  <2>1. Cardinality(T \cup {x}) = Cardinality(T) + 1
    BY <1>6, FS_AddElement
  <2> QED BY <2>1, <1>5, <1>6, FS_AddElement
<1>9. IsLowest(T \cup {x}, k, S)
  <2>1. \A b \in S \ (T \cup {x}) : x < b
    BY <1>7
  <2> QED BY <2>1, <1>5, <1>7, <1>8 DEF IsLowest, kSubset
<1> QED BY <1>9

\* What Populate takes: as many free serials as it asks for, or all there are.
LEMMA LowestTaken ==
  ASSUME NEW n \in Nat, taken \subseteq Serials
  PROVE  /\ Lowest(AtMost(n)) \subseteq Serials \ taken
         /\ IsFiniteSet(Lowest(AtMost(n)))
         /\ Cardinality(Lowest(AtMost(n))) \in Nat /\ Cardinality(Lowest(AtMost(n))) <= n
<1> DEFINE S == Serials \ taken
           k == AtMost(n)
<1>1. IsFiniteSet(S) /\ S \in SUBSET Nat /\ Cardinality(S) \in Nat
  BY SpawnPointsAssumption, FS_Subset, FS_CardinalityType
<1>2. k \in Nat /\ k <= n /\ k <= Cardinality(S)
  BY <1>1 DEF AtMost
<1> HIDE DEF S, k
<1>3. \E T : IsLowest(T, k, S)
  BY <1>1, <1>2, LowestExist
<1>4. IsLowest(Lowest(k), k, S)
  BY <1>3 DEF Lowest, IsLowest, S
<1>5. Lowest(k) \subseteq S /\ Cardinality(Lowest(k)) = k
  BY <1>4 DEF IsLowest, kSubset
<1> QED BY <1>1, <1>2, <1>5, FS_Subset DEF S, k

-----------------------------------------------------------------------------
(* Types *)

Slot    == [due : Nat, later : Nat]
Workers == [stage : {"idle", "ticking", "zone"}, left : SUBSET Zones, zone : Zones \cup {None}, todo : SUBSET Origins]
Stores  == [Zones -> Monsters]

\* Where the worker is in its round of the zones.
Rounds ==
  /\ worker \in Workers /\ worker.left \subseteq zones
  /\ worker.stage = "idle" => worker.left = {}
  /\ worker.stage # "zone" => worker.todo = {}
  /\ worker.stage = "zone" =>
       /\ worker.zone \in zones /\ worker.zone \notin worker.left
       /\ worker.todo \subseteq {p \in Points : Home[p] = worker.zone} \cup {s \in Found(worker.zone) : ~ spawner[s].delete}

Tracking(t) == t \in [Origins -> SUBSET (taken \X Nat)] /\ \A o \in Origins : IsFiniteSet(t[o])

TInv ==
  /\ scene \in [acts : SUBSET Acts, zones : SUBSET Zones]
  /\ acts \in 0 .. MaxActs /\ zones \subseteq Zones
  /\ rescan \in Nat /\ rescan + Cardinality(loading) <= acts * Cardinality(Zones)
  /\ store \in Stores /\ \A z \in Zones : In(z) \subseteq taken
  /\ spawner \in [Spawners -> Spawner] /\ taken \subseteq Serials
  /\ Tracking(alive) /\ respawn \in [Origins -> Slot]
  /\ adopted \subseteq zones /\ pending \subseteq adopted
  /\ saved \in [Zones -> Image \cup {None}]
  /\ loading \subseteq {z \in Zones : saved[z] # None}
  /\ Rounds

LEMMA EmptyCount == Cardinality({}) = 0 /\ IsFiniteSet({})
BY ONLY FS_EmptySet, Zenon

\* The entries of serials that are tracked for the first time.
LEMMA Marked ==
  ASSUME NEW S, IsFiniteSet(S)
  PROVE  IsFiniteSet(S \X {1}) /\ Cardinality(S \X {1}) = Cardinality(S)
<1> DEFINE f == [m \in S |-> <<m, 1>>]
<1>1. f \in Injection(S, S \X {1})
  BY DEF Injection, IsInjective
<1>2. f \in Surjection(S, S \X {1})
  <2>1. \A t \in S \X {1} : t[1] \in S /\ f[t[1]] = t
    OBVIOUS
  <2>2. \A t \in S \X {1} : \E s \in S : f[s] = t
    <3> HIDE DEF f
    <3> QED BY <2>1
  <2> QED BY <2>2 DEF Surjection
<1>3. ExistsBijection(S, S \X {1})
  <2> HIDE DEF f
  <2> QED BY <1>1, <1>2 DEF ExistsBijection, Bijection
<1> HIDE DEF f
<1> QED BY <1>3, FS_Bijection

LEMMA ConstantTypes ==
  /\ Nothing \in Monsters /\ NoSlots \in Slot
  /\ Unplaced \in Spawner /\ Gone \in Spawner /\ Unplaced.zone = "new" /\ Gone.zone = "gone" /\ Gone # Unplaced
  /\ Idle \in Workers /\ Idle.stage = "idle" /\ Idle.left = {} /\ Idle.todo = {}
<1>1. Nothing \in Monsters
  BY DEF Nothing, Monsters
<1>2. NoSlots \in Slot
  BY DEF NoSlots, Slot
<1>3. Unplaced \in Spawner /\ Unplaced.zone = "new"
  BY SpawnPointsAssumption DEF Unplaced, Spawner, Places
<1>4. Gone \in Spawner /\ Gone.zone = "gone"
  BY <1>3 DEF Gone, Spawner, Places
<1>5. Idle \in Workers /\ Idle.stage = "idle" /\ Idle.left = {} /\ Idle.todo = {}
  BY DEF Idle, Workers
<1> QED BY <1>1, <1>2, <1>3, <1>4, <1>5

\* How many zones there are, and what an act adds to it.
LEMMA ZoneCounts ==
  /\ Cardinality(Zones) \in Nat
  /\ \A S \in SUBSET Zones : IsFiniteSet(S) /\ Cardinality(S) \in Nat /\ Cardinality(S) <= Cardinality(Zones)
  /\ \A n \in Nat : (n + 1) * Cardinality(Zones) = n * Cardinality(Zones) + Cardinality(Zones)
                    /\ n * Cardinality(Zones) \in Nat
<1>1. IsFiniteSet(Zones)
  BY SpawnPointsAssumption
<1>2. Cardinality(Zones) \in Nat
  BY <1>1, FS_CardinalityType
<1>3. \A S \in SUBSET Zones : IsFiniteSet(S) /\ Cardinality(S) \in Nat /\ Cardinality(S) <= Cardinality(Zones)
  BY <1>1, FS_Subset, FS_CardinalityType
<1>4. \A n, c \in Nat : (n + 1) * c = n * c + c /\ n * c \in Nat
  OBVIOUS
<1> QED BY <1>2, <1>3, <1>4

LEMMA InitTyped == Init => TInv
<1> SUFFICES ASSUME Init PROVE TInv
  OBVIOUS
<1>1. scene \in [acts : SUBSET Acts, zones : SUBSET Zones] /\ zones \subseteq Zones
  BY SpawnPointsAssumption DEF Init
<1>2. acts \in 0 .. MaxActs /\ rescan \in Nat /\ rescan + Cardinality(loading) <= acts * Cardinality(Zones)
  <2>1. 0 * Cardinality(Zones) \in Nat /\ Cardinality(loading) = 0
    BY EmptyCount, ZoneCounts DEF Init
  <2> QED BY <2>1, SpawnPointsAssumption DEF Init, Fresh
<1>3. store \in Stores /\ \A z \in Zones : In(z) \subseteq taken
  BY ConstantTypes DEF Init, Stores, In, Nothing
<1>4. spawner \in [Spawners -> Spawner]
  BY ConstantTypes DEF Init
<1>5. Tracking(alive) /\ respawn \in [Origins -> Slot]
  BY ConstantTypes, EmptyCount DEF Init, Fresh, Tracking
<1>6. Rounds
  BY ConstantTypes DEF Init, Rounds
<1> QED BY <1>1, <1>2, <1>3, <1>4, <1>5, <1>6 DEF Init, Fresh, TInv

\* Adoption tracks what is in the zone.
LEMMA AdoptTracks ==
  ASSUME TInv, NEW z \in Zones, NEW t, Tracking(t)
  PROVE  Tracking(Adopt(z, t))
<1> DEFINE add(o) == {<<m, Copies(m, t[o]) + 1>> : m \in {n \in In(z) : store[z][n] = o}}
<1>1. ASSUME NEW o \in Origins
      PROVE  /\ t[o] \cup add(o) \in SUBSET (taken \X Nat)
             /\ IsFiniteSet(t[o] \cup add(o))
  <2>1. \A m : Copies(m, t[o]) + 1 \in Nat
    <3> SUFFICES ASSUME NEW m PROVE Copies(m, t[o]) + 1 \in Nat
      OBVIOUS
    <3>1. IsFiniteSet({e \in t[o] : e[1] = m})
      BY FS_Subset DEF Tracking
    <3> QED BY <3>1, FS_CardinalityType DEF Copies
  <2>2. add(o) \in SUBSET (taken \X Nat)
    BY <2>1 DEF TInv
  <2>3. IsFiniteSet({n \in In(z) : store[z][n] = o})
    BY SpawnPointsAssumption, FS_Subset DEF In
  <2>4. IsFiniteSet(add(o))
    <3> DEFINE D == {n \in In(z) : store[z][n] = o}
               f == [m \in D |-> <<m, Copies(m, t[o]) + 1>>]
    <3>1. f \in Surjection(D, add(o))
      BY DEF Surjection
    <3> QED BY <2>3, <3>1, FS_Surjection
  <2>5. IsFiniteSet(t[o]) /\ t[o] \in SUBSET (taken \X Nat)
    BY DEF Tracking
  <2> QED BY <2>2, <2>4, <2>5, FS_Union
<1>2. Adopt(z, t) = [o \in Origins |-> IF o \in Points /\ Home[o] # z THEN t[o] ELSE t[o] \cup add(o)]
  BY DEF Adopt
<1> HIDE DEF add
<1> QED BY <1>1, <1>2 DEF Tracking

LEMMA KeptTyped ==
  ASSUME NEW z, NEW t, Tracking(t), NEW r \in [Origins -> Slot]
  PROVE  Tracking(Kept(t, z, {})) /\ Kept(r, z, NoSlots) \in [Origins -> Slot]
<1>1. Tracking(Kept(t, z, {}))
  BY EmptyCount DEF Tracking, Kept
<1>2. Kept(r, z, NoSlots) \in [Origins -> Slot]
  BY ConstantTypes DEF Kept
<1> QED BY <1>1, <1>2


LEMMA WakeTyped ==
  ASSUME TInv, Wake
  PROVE  TInv'
<1>1. UNCHANGED <<scene, acts, zones, store, spawner, taken, alive, respawn, adopted, pending, rescan, saved, loading>>
  BY DEF Wake, manager
<1>2. worker' = [Idle EXCEPT !.stage = "ticking", !.left = zones]
  BY DEF Wake
<1>3. worker' \in Workers /\ worker'.left = zones /\ worker'.stage = "ticking" /\ worker'.todo = {}
  BY <1>2, ConstantTypes DEF Workers, TInv
<1>4. Rounds'
  BY <1>1, <1>3 DEF Rounds
<1> QED BY <1>1, <1>4 DEF TInv, In, Tracking

LEMMA EnterTyped ==
  ASSUME TInv, NEW z \in Zones, Enter(z)
  PROVE  TInv'
<1>1. /\ UNCHANGED <<scene, acts, zones, store, spawner, taken, rescan, saved, loading>>
      /\ worker.stage = "ticking" /\ z \in worker.left /\ worker \in Workers
      /\ worker.left \subseteq zones /\ worker.todo = {} /\ z \in zones
  BY DEF Enter, TInv, Rounds
<1>2. CASE z \notin adopted /\ rescan > 0
  <2>1. /\ worker' = [worker EXCEPT !.stage = "zone", !.zone = z, !.left = @ \ {z}]
        /\ UNCHANGED <<alive, respawn, adopted, pending>>
    BY <1>2 DEF Enter, manager
  <2>2. /\ worker' \in Workers /\ worker'.left = worker.left \ {z} /\ worker'.stage = "zone"
        /\ worker'.zone = z /\ worker'.todo = {}
    BY <1>1, <2>1 DEF Workers
  <2>3. Rounds'
    BY <1>1, <2>2 DEF Rounds
  <2> QED BY <1>1, <2>1, <2>3 DEF TInv, In, Tracking
<1>3. CASE ~ (z \notin adopted /\ rescan > 0)
  <2> DEFINE todo == {p \in Points : Home[p] = z} \cup {s \in Found(z) : ~ spawner[s].delete}
  <2>1. /\ adopted' = adopted \cup {z} /\ pending' = pending \ {z}
        /\ alive' = Kept(IF z \in adopted THEN alive ELSE Adopt(z, alive), z, {})
        /\ respawn' = Kept(respawn, z, NoSlots)
        /\ worker' = [worker EXCEPT !.stage = "zone", !.zone = z, !.left = @ \ {z}, !.todo = todo]
    BY <1>3 DEF Enter
  <2>2. todo \subseteq Origins
    BY DEF Origins, Found
  <2>3. /\ worker' \in Workers /\ worker'.left = worker.left \ {z} /\ worker'.stage = "zone"
        /\ worker'.zone = z /\ worker'.todo = todo
    <3> HIDE DEF todo
    <3> QED BY <1>1, <2>1, <2>2 DEF Workers
  <2>4. Rounds'
    BY <1>1, <2>3 DEF Rounds, Found
  <2>5. Tracking(IF z \in adopted THEN alive ELSE Adopt(z, alive))
    BY AdoptTracks DEF TInv
  <2>6. Tracking(alive') /\ respawn' \in [Origins -> Slot]
    BY <2>1, <2>5, KeptTyped DEF TInv
  <2>7. Tracking(alive)'
    BY <1>1, <2>6 DEF Tracking
  <2> QED BY <1>1, <2>1, <2>4, <2>6, <2>7 DEF TInv, In
<1> QED BY <1>2, <1>3

\* What Populate does to the numbers.
LEMMA Filled ==
  ASSUME TInv, NEW o \in Origins, Populate(o)
  PROVE  \E born \in SUBSET (Serials \ taken), want \in Nat :
           /\ worker.zone \in Zones /\ IsFiniteSet(born) /\ Cardinality(born) \in Nat /\ Cardinality(born) <= want
           /\ want = IF Enabled(o) THEN respawn[o].due + Short(o) ELSE 0
           /\ Dead(o) \in Nat /\ Short(o) \in Nat /\ MaxOf(o) \in 1 .. MaxCount
           /\ alive' = [alive EXCEPT ![o] = Living(o) \cup (born \X {1})]
           /\ respawn' = [respawn EXCEPT ![o] =
                            IF Enabled(o) THEN [due |-> 0, later |-> respawn[o].later + Dead(o) + (want - Cardinality(born))]
                            ELSE NoSlots]
           /\ store' = [store EXCEPT ![worker.zone] = [m \in Serials |-> IF m \in born THEN o ELSE store[worker.zone][m]]]
           /\ taken' = taken \cup born
<1> DEFINE want == IF Enabled(o) THEN respawn[o].due + Short(o) ELSE 0
           born == Lowest(AtMost(want))
<1>1. worker.zone \in Zones /\ taken \subseteq Serials
  BY DEF Populate, TInv, Rounds
<1>2. respawn[o].due \in Nat /\ respawn[o].later \in Nat /\ IsFiniteSet(alive[o]) /\ Slots(o) \in Nat
  BY DEF TInv, Slot, Tracking, Slots
<1>3. Dead(o) \in Nat /\ Cardinality(alive[o]) \in Nat
  BY <1>2, FS_Subset, FS_CardinalityType DEF Dead
<1>4. MaxOf(o) \in 1 .. MaxCount
  BY SpawnPointsAssumption DEF MaxOf, Origins, TInv, Spawner
<1>5. Short(o) \in Nat
  BY <1>2, <1>3, <1>4 DEF Short, AtLeast0
<1>6. want \in Nat
  BY <1>2, <1>5
<1>7. /\ alive' = [alive EXCEPT ![o] = Living(o) \cup (born \X {1})]
      /\ respawn' = [respawn EXCEPT ![o] = IF Enabled(o) THEN StillPending(o, want - Cardinality(born)) ELSE NoSlots]
      /\ store' = [store EXCEPT ![worker.zone] = [m \in Serials |-> IF m \in born THEN o ELSE store[worker.zone][m]]]
      /\ taken' = taken \cup born
  BY DEF Populate
<1> HIDE DEF want
<1>8. born \subseteq Serials \ taken /\ IsFiniteSet(born) /\ Cardinality(born) \in Nat /\ Cardinality(born) <= want
  BY <1>1, <1>6, LowestTaken
<1> HIDE DEF born
<1>9. want = IF Enabled(o) THEN respawn[o].due + Short(o) ELSE 0
  BY DEF want
<1>10. StillPending(o, want - Cardinality(born)) = [due |-> 0, later |-> respawn[o].later + Dead(o) + (want - Cardinality(born))]
  BY DEF StillPending
<1> born \in SUBSET (Serials \ taken)
  BY <1>8
<1> want \in Nat
  BY <1>6
<1> WITNESS born \in SUBSET (Serials \ taken), want \in Nat
<1> QED BY <1>1, <1>3, <1>4, <1>5, <1>7, <1>8, <1>9, <1>10

LEMMA PopulateTyped ==
  ASSUME TInv, NEW o \in Origins, Populate(o)
  PROVE  TInv'
<1>1. PICK born \in SUBSET (Serials \ taken), want \in Nat :
           /\ worker.zone \in Zones /\ IsFiniteSet(born) /\ Cardinality(born) \in Nat /\ Cardinality(born) <= want
           /\ Dead(o) \in Nat
           /\ alive' = [alive EXCEPT ![o] = Living(o) \cup (born \X {1})]
           /\ respawn' = [respawn EXCEPT ![o] =
                            IF Enabled(o) THEN [due |-> 0, later |-> respawn[o].later + Dead(o) + (want - Cardinality(born))]
                            ELSE NoSlots]
           /\ store' = [store EXCEPT ![worker.zone] = [m \in Serials |-> IF m \in born THEN o ELSE store[worker.zone][m]]]
           /\ taken' = taken \cup born
  BY Filled
<1>2. /\ UNCHANGED <<scene, acts, zones, spawner, adopted, pending, rescan, saved, loading>>
      /\ worker' = [worker EXCEPT !.todo = @ \ {o}] /\ worker.stage = "zone"
  BY DEF Populate
<1>3. Rounds'
  <2>1. /\ worker' \in Workers /\ worker'.stage = "zone" /\ worker'.zone = worker.zone
        /\ worker'.left = worker.left /\ worker'.todo = worker.todo \ {o}
    BY <1>2 DEF TInv, Rounds, Workers
  <2> QED BY <1>2, <2>1 DEF TInv, Rounds, Found
<1>4. respawn' \in [Origins -> Slot]
  <2>1. respawn[o].later \in Nat
    BY DEF TInv, Slot
  <2>2. respawn[o].later + Dead(o) + (want - Cardinality(born)) \in Nat
    BY <1>1, <2>1
  <2>3. [due |-> 0, later |-> respawn[o].later + Dead(o) + (want - Cardinality(born))] \in Slot
    BY <2>2 DEF Slot
  <2> QED BY <1>1, <2>3, ConstantTypes DEF TInv
<1>5. Tracking(alive)'
  <2>1. Living(o) \subseteq taken \X Nat /\ IsFiniteSet(Living(o))
    BY FS_Subset DEF Living, TInv, Tracking
  <2>2. IsFiniteSet(born \X {1}) /\ born \X {1} \subseteq taken' \X Nat
    BY <1>1, Marked
  <2>3. IsFiniteSet(Living(o) \cup (born \X {1}))
    BY <2>1, <2>2, FS_Union
  <2>4. Living(o) \cup (born \X {1}) \in SUBSET (taken' \X Nat) /\ taken \subseteq taken'
    BY <1>1, <2>1, <2>2
  <2> HIDE DEF Living
  <2> QED BY <1>1, <2>3, <2>4 DEF TInv, Tracking
<1>6. store' \in Stores /\ \A z \in Zones : In(z)' \subseteq taken'
  <2>1. store' \in Stores
    BY <1>1 DEF TInv, Stores, Monsters
  <2>2. \A z \in Zones, m \in Serials : store'[z][m] # None => store[z][m] # None \/ m \in born
    BY <1>1 DEF TInv, Stores
  <2> QED BY <1>1, <2>1, <2>2 DEF TInv, In
<1>7. taken' \subseteq Serials
  BY <1>1 DEF TInv
<1> QED BY <1>2, <1>3, <1>4, <1>5, <1>6, <1>7 DEF TInv


LEMMA EndZoneTyped ==
  ASSUME TInv, EndZone
  PROVE  TInv'
<1> DEFINE z == worker.zone
           deleted == IF z \notin adopted THEN {} ELSE {s \in Found(z) : spawner[s].delete}
           kept == [o \in Origins |-> IF o \in deleted THEN {} ELSE alive[o]]
<1>1. /\ UNCHANGED <<scene, acts, zones, store, taken, saved, loading>>
      /\ z \in zones /\ z \in Zones /\ worker \in Workers /\ worker.left \subseteq zones
  BY DEF EndZone, TInv, Rounds
<1>2. /\ spawner' = [s \in Spawners |-> IF s \in deleted THEN Gone ELSE spawner[s]]
      /\ respawn' = [o \in Origins |-> IF o \in deleted THEN NoSlots ELSE respawn[o]]
      /\ worker' = IF worker.left = {} THEN Idle ELSE [Idle EXCEPT !.stage = "ticking", !.left = worker.left]
      /\ IF rescan > 0
         THEN /\ alive' = Adopt(z, kept)
              /\ adopted' = adopted \cup {z} /\ pending' = pending \cup {z}
              /\ rescan' = rescan - 1
         ELSE alive' = kept /\ UNCHANGED <<adopted, pending, rescan>>
  BY DEF EndZone
<1>3. Tracking(kept)
  BY EmptyCount DEF TInv, Tracking
<1> HIDE DEF deleted, kept
<1>4. Tracking(alive')
  BY <1>1, <1>2, <1>3, AdoptTracks
<1>5. Tracking(alive)'
  BY <1>1, <1>4 DEF Tracking
<1>6. spawner' \in [Spawners -> Spawner] /\ respawn' \in [Origins -> Slot]
  BY <1>2, ConstantTypes DEF TInv
<1>7. adopted' \subseteq zones' /\ pending' \subseteq adopted' /\ rescan' \in Nat /\ rescan' <= rescan
  BY <1>1, <1>2 DEF TInv
<1>8. rescan' + Cardinality(loading') <= acts' * Cardinality(Zones)
  <2>1. Cardinality(loading) \in Nat /\ acts * Cardinality(Zones) \in Nat
    <3>1. loading \in SUBSET Zones /\ acts \in Nat
      BY SpawnPointsAssumption DEF TInv
    <3> QED BY <3>1, ZoneCounts
  <2> QED BY <2>1, <1>1, <1>7 DEF TInv
<1>9. Rounds'
  <2>1. /\ worker' \in Workers /\ worker'.left = worker.left /\ worker'.todo = {}
        /\ worker'.stage = IF worker.left = {} THEN "idle" ELSE "ticking"
    BY <1>1, <1>2, ConstantTypes DEF Workers
  <2> QED BY <1>1, <2>1 DEF Rounds
<1> QED BY <1>1, <1>5, <1>6, <1>7, <1>8, <1>9 DEF TInv, In

LEMMA ElapseTyped ==
  ASSUME TInv, NEW o \in Origins, Elapse(o)
  PROVE  TInv'
<1>1. UNCHANGED <<scene, acts, zones, store, spawner, taken, alive, adopted, pending, rescan, saved, loading, worker>>
  BY DEF Elapse
<1>2. respawn' = [respawn EXCEPT ![o] = [due |-> respawn[o].due + 1, later |-> respawn[o].later - 1]] /\ respawn[o].later > 0
  BY DEF Elapse
<1>3. [due |-> respawn[o].due + 1, later |-> respawn[o].later - 1] \in Slot
  BY <1>2 DEF TInv, Slot
<1>4. respawn' \in [Origins -> Slot]
  BY <1>2, <1>3 DEF TInv
<1> QED BY <1>1, <1>4 DEF TInv, In, Tracking, Rounds, Found

\* A command: an act more, and the worker at rest.
LEMMA OneAct ==
  ASSUME TInv, acts < MaxActs, acts' = acts + 1
  PROVE  /\ acts' \in 0 .. MaxActs /\ acts' * Cardinality(Zones) \in Nat
         /\ acts' * Cardinality(Zones) = acts * Cardinality(Zones) + Cardinality(Zones)
         /\ rescan + Cardinality(loading) + Cardinality(Zones) <= acts' * Cardinality(Zones)
<1>1. acts \in Nat /\ rescan \in Nat /\ acts' \in 0 .. MaxActs
  BY SpawnPointsAssumption DEF TInv
<1>2. Cardinality(Zones) \in Nat /\ Cardinality(loading) \in Nat /\ acts * Cardinality(Zones) \in Nat
      /\ (acts + 1) * Cardinality(Zones) = acts * Cardinality(Zones) + Cardinality(Zones)
      /\ (acts + 1) * Cardinality(Zones) \in Nat
  <2>1. loading \in SUBSET Zones
    BY DEF TInv
  <2>2. acts + 1 \in Nat
    BY <1>1
  <2> QED BY <1>1, <2>1, <2>2, ZoneCounts
<1>3. acts' * Cardinality(Zones) = (acts + 1) * Cardinality(Zones)
  OBVIOUS
<1>4. rescan + Cardinality(loading) <= acts * Cardinality(Zones)
  BY DEF TInv
<1> DEFINE a == acts * Cardinality(Zones)
           b == acts' * Cardinality(Zones)
           c == Cardinality(Zones)
           d == Cardinality(loading)
<1>5. a \in Nat /\ b \in Nat /\ c \in Nat /\ d \in Nat /\ b = a + c /\ rescan + d <= a
  BY <1>2, <1>3, <1>4
<1> HIDE DEF a, b, c, d
<1>6. b = a + c /\ rescan + d + c <= b
  BY <1>5, <1>1
<1> QED BY <1>1, <1>5, <1>6 DEF a, b, c, d

LEMMA AtRest ==
  ASSUME TInv, worker.stage = "idle", worker' = worker
  PROVE  Rounds'
BY DEF TInv, Rounds

\* A command that leaves the manager and what is on its way alone.
LEMMA CommandTyped ==
  ASSUME TInv, worker.stage = "idle", acts < MaxActs, acts' = acts + 1,
         UNCHANGED <<scene, taken, manager, rescan, saved, loading, worker>>,
         zones \subseteq zones', zones' \subseteq Zones,
         store' \in Stores, \A z \in Zones : In(z)' \subseteq taken,
         spawner' \in [Spawners -> Spawner]
  PROVE  TInv'
<1>1. acts' \in 0 .. MaxActs /\ rescan + Cardinality(loading) <= acts' * Cardinality(Zones)
  <2>1. Cardinality(Zones) \in Nat /\ Cardinality(loading) \in Nat /\ rescan \in Nat
    BY ZoneCounts DEF TInv
  <2> QED BY <2>1, OneAct
<1>2. Rounds'
  BY AtRest
<1> QED BY <1>1, <1>2 DEF TInv, manager, Tracking


LEMMA DieTyped ==
  ASSUME TInv, NEW z \in Zones, NEW m \in Serials, Die(z, m)
  PROVE  TInv'
<1>1. /\ UNCHANGED <<scene, zones, spawner, taken, manager, rescan, saved, loading, worker>>
      /\ worker.stage = "idle" /\ acts < MaxActs /\ acts' = acts + 1
      /\ store' = [store EXCEPT ![z][m] = None]
  BY DEF Die, Allowed
<1>2. store' \in Stores
  BY <1>1 DEF TInv, Stores, Monsters
<1>3. \A y \in Zones : In(y)' \subseteq taken
  BY <1>1 DEF TInv, In, Stores, Monsters
<1>4. zones \subseteq zones' /\ zones' \subseteq Zones /\ spawner' \in [Spawners -> Spawner]
  BY <1>1 DEF TInv
<1> QED BY <1>1, <1>2, <1>3, <1>4, CommandTyped

LEMMA LeaveTyped ==
  ASSUME TInv, NEW m \in Serials, NEW from \in Zones, NEW to \in Zones, Leave(m, from, to)
  PROVE  TInv'
<1>1. /\ UNCHANGED <<scene, spawner, taken, manager, rescan, saved, loading, worker>>
      /\ worker.stage = "idle" /\ acts < MaxActs /\ acts' = acts + 1
      /\ store' = [store EXCEPT ![from][m] = None, ![to][m] = store[from][m]]
      /\ zones' = zones \cup {to} /\ m \in In(from) /\ from # to
  BY DEF Leave, Allowed
<1> DEFINE left == [store EXCEPT ![from] = [store[from] EXCEPT ![m] = None]]
<1>2. /\ left \in Stores /\ left[to] = store[to]
      /\ \A y \in Zones, n \in Serials : left[y][n] # None => store[y][n] # None
  BY <1>1 DEF TInv, Stores, Monsters
<1>3. store' = [left EXCEPT ![to] = [left[to] EXCEPT ![m] = store[from][m]]] /\ store[from][m] \in Origins
  BY <1>1 DEF TInv, Stores, Monsters, In
<1> HIDE DEF left
<1>6. store' \in Stores /\ \A y \in Zones, n \in Serials : store'[y][n] # None => left[y][n] # None \/ n = m
  BY <1>2, <1>3 DEF Stores, Monsters
<1>4. \A y \in Zones : In(y)' \subseteq taken
  BY <1>1, <1>2, <1>6 DEF TInv, In
<1>5. zones \subseteq zones' /\ zones' \subseteq Zones /\ spawner' \in [Spawners -> Spawner]
  BY <1>1 DEF TInv
<1> QED BY <1>1, <1>6, <1>4, <1>5, CommandTyped

LEMMA ConfigureTyped ==
  ASSUME TInv, NEW s \in Spawners, NEW r \in Spawner, Configure(s, r)
  PROVE  TInv'
<1>1. /\ UNCHANGED <<scene, zones, store, taken, manager, rescan, saved, loading, worker>>
      /\ worker.stage = "idle" /\ acts < MaxActs /\ acts' = acts + 1
      /\ spawner' = [spawner EXCEPT ![s] = r]
  BY DEF Configure, Allowed
<1>2. store' \in Stores /\ zones \subseteq zones' /\ zones' \subseteq Zones /\ spawner' \in [Spawners -> Spawner]
  BY <1>1 DEF TInv
<1>3. \A y \in Zones : In(y)' \subseteq taken
  BY <1>1 DEF TInv, In
<1> QED BY <1>1, <1>2, <1>3, CommandTyped

LEMMA CarryTyped ==
  ASSUME TInv, NEW s \in Spawners, NEW z \in zones \cup {"hand"}, Carry(s, z)
  PROVE  TInv'
<1>1. /\ UNCHANGED <<scene, zones, store, taken, manager, rescan, saved, loading, worker>>
      /\ worker.stage = "idle" /\ acts < MaxActs /\ acts' = acts + 1
      /\ spawner' = [spawner EXCEPT ![s].zone = z]
  BY DEF Carry, Allowed
<1>2. spawner' \in [Spawners -> Spawner]
  <2>1. z \in Places
    BY DEF TInv, Places
  <2>2. [spawner[s] EXCEPT !.zone = z] \in Spawner
    BY <2>1 DEF TInv, Spawner
  <2> QED BY <1>1, <2>2 DEF TInv
<1>3. store' \in Stores /\ zones \subseteq zones' /\ zones' \subseteq Zones
  BY <1>1 DEF TInv
<1>4. \A y \in Zones : In(y)' \subseteq taken
  BY <1>1 DEF TInv, In
<1> QED BY <1>1, <1>2, <1>3, <1>4, CommandTyped

\* The image of a zone is one that can be restored.
LEMMA ImageTyped ==
  ASSUME TInv, NEW z \in Zones
  PROVE  ImageOf(z) \in Image
<1>1. store[z] \in Monsters
  BY DEF TInv, Stores
<1>2. [s \in Spawners |-> IF spawner[s].zone = z THEN spawner[s] ELSE Unplaced] \in [Spawners -> Spawner]
  BY ConstantTypes DEF TInv
<1> QED BY <1>1, <1>2 DEF ImageOf, Image

LEMMA SaveTyped ==
  ASSUME TInv, NEW players \in Zones, Save(players)
  PROVE  TInv'
<1>1. /\ UNCHANGED <<scene, store, spawner, taken, alive, respawn, adopted, pending, rescan, loading, worker>>
      /\ worker.stage = "idle" /\ acts < MaxActs /\ acts' = acts + 1 /\ zones' = Zones /\ loading = {}
      /\ saved' = [z \in Zones |-> IF z = players \/ In(z) # {} \/ Found(z) # {} THEN ImageOf(z) ELSE None]
  BY DEF Save, manager
<1>2. acts' \in 0 .. MaxActs /\ rescan + Cardinality(loading) <= acts' * Cardinality(Zones)
  <2>1. Cardinality(Zones) \in Nat /\ Cardinality(loading) \in Nat /\ rescan \in Nat
    BY <1>1, ZoneCounts, EmptyCount DEF TInv
  <2> QED BY <1>1, <2>1, OneAct
<1>3. saved' \in [Zones -> Image \cup {None}]
  BY <1>1, ImageTyped
<1>4. Rounds'
  BY <1>1, AtRest
<1> QED BY <1>1, <1>2, <1>3, <1>4 DEF TInv, Tracking, In

LEMMA LoadTyped ==
  ASSUME TInv, Load
  PROVE  TInv'
<1>1. /\ UNCHANGED <<scene, zones, store, spawner, taken, alive, respawn, adopted, pending, rescan, saved, worker>>
      /\ worker.stage = "idle" /\ acts < MaxActs /\ acts' = acts + 1 /\ loading = {}
      /\ loading' = {z \in Zones : saved[z] # None}
  BY DEF Load, Allowed, manager
<1>2. acts' \in 0 .. MaxActs /\ rescan + Cardinality(loading') <= acts' * Cardinality(Zones)
  <2>1. Cardinality(Zones) \in Nat /\ Cardinality(loading) = 0 /\ rescan \in Nat
    BY <1>1, ZoneCounts, EmptyCount DEF TInv
  <2>2. Cardinality(loading') \in Nat /\ Cardinality(loading') <= Cardinality(Zones)
    BY <1>1, ZoneCounts
  <2> QED BY <1>1, <2>1, <2>2, OneAct
<1>3. Rounds'
  BY <1>1, AtRest
<1> QED BY <1>1, <1>2, <1>3 DEF TInv, Tracking, In

LEMMA RestartTyped ==
  ASSUME TInv, Restart
  PROVE  TInv'
<1>1. /\ UNCHANGED <<scene, saved, worker>>
      /\ worker.stage = "idle" /\ acts < MaxActs /\ acts' = acts + 1
      /\ zones' = {} /\ store' = [z \in Zones |-> Nothing]
      /\ spawner' = [s \in Spawners |-> IF spawner[s] = Unplaced THEN Unplaced ELSE Gone]
      /\ taken' = UNION {SavedIn(z) : z \in {y \in Zones : saved[y] # None}}
      /\ alive' = [o \in Origins |-> {}] /\ respawn' = [o \in Origins |-> NoSlots]
      /\ adopted' = {} /\ pending' = {} /\ rescan' = 0
      /\ loading' = {z \in Zones : saved[z] # None}
  BY DEF Restart, Allowed
<1>2. acts' \in 0 .. MaxActs /\ rescan' + Cardinality(loading') <= acts' * Cardinality(Zones)
  <2>1. Cardinality(Zones) \in Nat /\ Cardinality(loading) \in Nat /\ rescan \in Nat
    <3>1. loading \in SUBSET Zones
      BY DEF TInv
    <3> QED BY <3>1, ZoneCounts DEF TInv
  <2>2. Cardinality(loading') \in Nat /\ Cardinality(loading') <= Cardinality(Zones)
    BY <1>1, ZoneCounts
  <2>3. rescan + Cardinality(loading) + Cardinality(Zones) <= acts' * Cardinality(Zones) /\ acts' \in 0 .. MaxActs
        /\ acts' * Cardinality(Zones) \in Nat
    BY <1>1, OneAct
  <2> QED BY <1>1, <2>1, <2>2, <2>3
<1>3. Rounds'
  BY <1>1 DEF TInv, Rounds
<1>4. store' \in Stores /\ \A z \in Zones : In(z)' = {}
  BY <1>1, ConstantTypes DEF Stores, In, Nothing
<1>5. taken' \subseteq Serials
  BY <1>1 DEF SavedIn
<1>6. Tracking(alive)' /\ respawn' \in [Origins -> Slot] /\ spawner' \in [Spawners -> Spawner]
  BY <1>1, EmptyCount, ConstantTypes DEF Tracking, TInv
<1> QED BY <1>1, <1>2, <1>3, <1>4, <1>5, <1>6 DEF TInv

LEMMA RestoreTyped ==
  ASSUME TInv, NEW z \in Zones, Restore(z)
  PROVE  TInv'
<1>1. /\ UNCHANGED <<scene, acts, alive, respawn, adopted, pending, saved, worker>>
      /\ worker.stage = "idle" /\ z \in loading
      /\ zones' = zones \cup {z} /\ loading' = loading \ {z}
      /\ store' = [store EXCEPT ![z] = saved[z].monsters]
      /\ spawner' = [s \in Spawners |-> IF saved[z].spawners[s] # Unplaced THEN saved[z].spawners[s]
                                        ELSE IF spawner[s].zone = z THEN Gone ELSE spawner[s]]
      /\ taken' = taken \cup SavedIn(z) /\ rescan' = rescan + 1
  BY DEF Restore, manager
<1>2. saved[z] \in Image
  BY <1>1 DEF TInv
<1>3. rescan' + Cardinality(loading') <= acts' * Cardinality(Zones) /\ rescan' \in Nat
  <2>1. IsFiniteSet(loading) /\ Cardinality(loading) \in Nat
    <3>1. loading \in SUBSET Zones
      BY DEF TInv
    <3> QED BY <3>1, ZoneCounts
  <2>2. Cardinality(loading') = Cardinality(loading) - 1
    BY <1>1, <2>1, FS_RemoveElement
  <2>3. rescan \in Nat /\ rescan + Cardinality(loading) <= acts * Cardinality(Zones)
    BY DEF TInv
  <2>4. rescan' + Cardinality(loading') = rescan + Cardinality(loading)
    BY <1>1, <2>1, <2>2, <2>3
  <2> QED BY <1>1, <2>3, <2>4
<1>4. Rounds'
  BY <1>1 DEF TInv, Rounds
<1>5. store' \in Stores
  BY <1>1, <1>2 DEF TInv, Stores, Image
<1>6. \A y \in Zones : In(y)' \subseteq taken'
  <2>1. In(z)' = SavedIn(z)
    BY <1>1 DEF In, SavedIn, TInv, Stores
  <2>2. \A y \in Zones \ {z} : In(y)' = In(y)
    BY <1>1 DEF In, TInv, Stores
  <2> QED BY <1>1, <2>1, <2>2 DEF TInv
<1>7. taken' \subseteq Serials
  BY <1>1 DEF TInv, SavedIn
<1>8. spawner' \in [Spawners -> Spawner]
  BY <1>1, <1>2, ConstantTypes DEF TInv, Image
<1>9. Tracking(alive)'
  BY <1>1 DEF TInv, Tracking
<1> QED BY <1>1, <1>3, <1>4, <1>5, <1>6, <1>7, <1>8, <1>9 DEF TInv

LEMMA NextTyped == TInv /\ [Next]_vars => TInv'
<1> SUFFICES ASSUME TInv, [Next]_vars PROVE TInv'
  OBVIOUS
<1>1. ASSUME Tick PROVE TInv'
  BY <1>1, WakeTyped, EnterTyped, PopulateTyped, EndZoneTyped DEF Tick
<1>2. ASSUME NEW o \in Origins, Elapse(o) PROVE TInv'
  BY <1>2, ElapseTyped
<1>3. ASSUME Command PROVE TInv'
  BY <1>3, DieTyped, LeaveTyped, ConfigureTyped, CarryTyped, SaveTyped, LoadTyped, RestartTyped, RestoreTyped DEF Command
<1>4. ASSUME UNCHANGED vars PROVE TInv'
  BY <1>4 DEF vars, TInv, Tracking, Rounds, In, Found
<1> QED BY <1>1, <1>2, <1>3, <1>4 DEF Next

LEMMA TypedTypes == TInv => TypeOK
<1> SUFFICES ASSUME TInv PROVE TypeOK
  OBVIOUS
<1>1. rescan \in 0 .. MaxActs * Cardinality(Zones)
  <2>1. loading \in SUBSET Zones /\ acts \in Nat /\ MaxActs \in Nat /\ acts <= MaxActs /\ rescan \in Nat
    BY SpawnPointsAssumption DEF TInv
  <2>2. Cardinality(Zones) \in Nat /\ Cardinality(loading) \in Nat
    BY <2>1, ZoneCounts
  <2>3. \A a, b, c \in Nat : a <= b => a * c <= b * c /\ a * c \in Nat /\ b * c \in Nat
    OBVIOUS
  <2>4. acts * Cardinality(Zones) <= MaxActs * Cardinality(Zones) /\ acts * Cardinality(Zones) \in Nat
        /\ MaxActs * Cardinality(Zones) \in Nat
    BY <2>1, <2>2, <2>3
  <2>5. rescan + Cardinality(loading) <= acts * Cardinality(Zones)
    BY DEF TInv
  <2> QED BY <2>1, <2>2, <2>4, <2>5
<1>2. /\ store \in [Zones -> Monsters] /\ worker \in Workers /\ loading \subseteq Zones
      /\ \A o \in Origins : /\ alive[o] \subseteq taken \X Nat /\ IsFiniteSet(alive[o])
                            /\ respawn[o] \in [due : Nat, later : Nat]
  BY DEF TInv, Stores, Rounds, Tracking, Slot
<1> QED BY <1>1, <1>2 DEF TInv, TypeOK, Workers

-----------------------------------------------------------------------------
(* No place is lost *)

Total(o) == Cardinality(alive[o]) + Slots(o)

\* The points of the zone the worker is in that it has not come to yet.
Awaited(p) == worker.stage = "zone" /\ p \in worker.todo

\* A point of a zone that is adopted, and not adopted again, has all its
\* places, except between the adoption and the first time it is populated.
AInv ==
  /\ worker.stage = "zone" /\ worker.todo # {} => worker.zone \in adopted
  /\ \A p \in Points : Home[p] \in adopted \ pending /\ ~ Awaited(p) => Total(p) >= MaxCount

LEMMA TotalType ==
  ASSUME TInv, NEW o \in Origins
  PROVE  /\ Cardinality(alive[o]) \in Nat /\ Slots(o) \in Nat /\ Total(o) \in Nat
         /\ respawn[o].due \in Nat /\ respawn[o].later \in Nat
<1>1. IsFiniteSet(alive[o]) /\ respawn[o].due \in Nat /\ respawn[o].later \in Nat
  BY DEF TInv, Slot, Tracking
<1>2. Cardinality(alive[o]) \in Nat
  BY <1>1, FS_CardinalityType
<1> QED BY <1>1, <1>2 DEF Slots, Total

\* A point that is populated has as many places as it had, or its maximum.
LEMMA Populated ==
  ASSUME TInv, NEW o \in Origins, Populate(o)
  PROVE  /\ \A q \in Origins : q # o => alive'[q] = alive[q] /\ respawn'[q] = respawn[q]
         /\ MaxOf(o) \in 1 .. MaxCount
         /\ Enabled(o) => Total(o)' = (IF Total(o) >= MaxOf(o) THEN Total(o) ELSE MaxOf(o))
         /\ ~ Enabled(o) => Total(o)' <= Total(o)
<1>1. PICK born \in SUBSET (Serials \ taken), want \in Nat :
           /\ IsFiniteSet(born) /\ Cardinality(born) \in Nat /\ Cardinality(born) <= want
           /\ want = IF Enabled(o) THEN respawn[o].due + Short(o) ELSE 0
           /\ Dead(o) \in Nat /\ Short(o) \in Nat /\ MaxOf(o) \in 1 .. MaxCount
           /\ alive' = [alive EXCEPT ![o] = Living(o) \cup (born \X {1})]
           /\ respawn' = [respawn EXCEPT ![o] =
                            IF Enabled(o) THEN [due |-> 0, later |-> respawn[o].later + Dead(o) + (want - Cardinality(born))]
                            ELSE NoSlots]
  BY Filled
<1>2. alive \in [Origins -> SUBSET (taken \X Nat)] /\ IsFiniteSet(alive[o]) /\ respawn \in [Origins -> Slot]
  BY DEF TInv, Tracking
<1>3. \A q \in Origins : q # o => alive'[q] = alive[q] /\ respawn'[q] = respawn[q]
  BY <1>1, <1>2
<1> DEFINE l == Cardinality(Living(o))
           a == Cardinality(alive[o])
           b == Cardinality(born)
<1>4. /\ IsFiniteSet(Living(o)) /\ l \in Nat /\ a \in Nat /\ l + Dead(o) = a
  <2>1. Living(o) \in SUBSET alive[o]
    BY DEF Living
  <2>2. IsFiniteSet(Living(o)) /\ l \in Nat /\ a \in Nat
    BY <1>2, <2>1, FS_Subset, FS_CardinalityType
  <2>3. alive[o] \cap Living(o) = Living(o)
    BY <2>1
  <2>4. Cardinality(alive[o] \ Living(o)) = Cardinality(alive[o]) - Cardinality(Living(o))
    BY <1>2, <2>3, FS_Difference
  <2> QED BY <2>2, <2>4 DEF Dead
<1>5. Cardinality(alive'[o]) = l + b
  <2>1. alive'[o] = Living(o) \cup (born \X {1})
    BY <1>1, <1>2
  <2>2. Living(o) \cap (born \X {1}) = {}
    BY <1>2 DEF Living
  <2>3. IsFiniteSet(born \X {1}) /\ Cardinality(born \X {1}) = b
    BY <1>1, Marked
  <2>4. Cardinality(Living(o) \cup (born \X {1})) = l + b - Cardinality({})
    BY <1>4, <2>2, <2>3, FS_Union
  <2> QED BY <2>1, <2>4, <1>1, <1>4, EmptyCount
<1>6. Total(o) = a + respawn[o].due + respawn[o].later /\ respawn[o].due \in Nat /\ respawn[o].later \in Nat
  BY TotalType DEF Total, Slots
<1>7. Total(o)' = l + b + respawn'[o].due + respawn'[o].later
  <2>1. Total(o)' = Cardinality(alive'[o]) + (respawn'[o].due + respawn'[o].later)
    BY DEF Total, Slots
  <2>2. respawn'[o].due \in Nat /\ respawn'[o].later \in Nat
    <3>1. TInv'
      BY PopulateTyped
    <3> QED BY <3>1 DEF TInv, Slot
  <2> QED BY <2>1, <2>2, <1>5, <1>1, <1>4
<1>8. ASSUME Enabled(o)
      PROVE  Total(o)' = (IF Total(o) >= MaxOf(o) THEN Total(o) ELSE MaxOf(o))
  <2>1. respawn'[o].due = 0 /\ respawn'[o].later = respawn[o].later + Dead(o) + (want - b)
    BY <1>1, <1>2, <1>8
  <2>2. Short(o) = IF MaxOf(o) > Total(o) THEN MaxOf(o) - Total(o) ELSE 0
    <3>1. Short(o) = AtLeast0(MaxOf(o) - a - Slots(o)) /\ Total(o) = a + Slots(o) /\ Slots(o) \in Nat
      BY TotalType DEF Short, Total
    <3> HIDE DEF a
    <3> QED BY <3>1, <1>1, <1>4 DEF AtLeast0
  <2>3. want = respawn[o].due + Short(o)
    BY <1>1, <1>8
  <2> HIDE DEF a, b, l
  <2>4. Total(o)' = a + respawn[o].later + want
    BY <1>1, <1>4, <1>6, <1>7, <2>1 DEF b
  <2> QED BY <2>2, <2>3, <2>4, <1>1, <1>4, <1>6
<1>9. ASSUME ~ Enabled(o)
      PROVE  Total(o)' <= Total(o)
  <2>1. respawn'[o].due = 0 /\ respawn'[o].later = 0
    BY <1>1, <1>2, <1>9 DEF NoSlots
  <2>2. b = 0
    BY <1>1, <1>9
  <2> HIDE DEF a, b, l
  <2> QED BY <1>1, <1>4, <1>6, <1>7, <2>1, <2>2
<1> QED BY <1>1, <1>3, <1>8, <1>9

\* Time that passes turns one place into another.
LEMMA Elapsed ==
  ASSUME TInv, NEW o \in Origins, Elapse(o), NEW q \in Origins
  PROVE  Total(q)' = Total(q) /\ Slots(q)' = Slots(q) /\ (q = o => Slots(q) > 0)
<1>1. respawn' = [respawn EXCEPT ![o] = [due |-> respawn[o].due + 1, later |-> respawn[o].later - 1]]
      /\ respawn[o].later > 0 /\ alive' = alive
  BY DEF Elapse
<1>2. respawn[q].due \in Nat /\ respawn[q].later \in Nat /\ respawn \in [Origins -> Slot] /\ Cardinality(alive[q]) \in Nat
  BY TotalType DEF TInv
<1>3. Slots(q)' = Slots(q) /\ (q = o => Slots(q) > 0)
  BY <1>1, <1>2 DEF Slots
<1> QED BY <1>1, <1>3 DEF Total


\* Commands find the worker at rest and leave the lists alone.
LEMMA AtRestKept ==
  ASSUME AInv, worker.stage = "idle", UNCHANGED <<alive, respawn, adopted, pending, worker>>
  PROVE  AInv'
BY DEF AInv, Total, Slots, Awaited

LEMMA EnterKeeps ==
  ASSUME TInv, AInv, NEW z \in Zones, Enter(z)
  PROVE  AInv'
<1>1. worker.stage = "ticking" /\ worker \in Workers /\ worker.todo = {}
  BY DEF Enter, TInv, Rounds
<1>2. CASE z \notin adopted /\ rescan > 0
  <2>1. worker' = [worker EXCEPT !.stage = "zone", !.zone = z, !.left = @ \ {z}]
        /\ UNCHANGED <<alive, respawn, adopted, pending>>
    BY <1>2 DEF Enter, manager
  <2>2. worker'.todo = {}
    BY <1>1, <2>1 DEF Workers
  <2> QED BY <1>1, <2>1, <2>2 DEF AInv, Total, Slots, Awaited
<1>3. CASE ~ (z \notin adopted /\ rescan > 0)
  <2> DEFINE todo == {p \in Points : Home[p] = z} \cup {s \in Found(z) : ~ spawner[s].delete}
  <2>1. /\ adopted' = adopted \cup {z} /\ pending' = pending \ {z}
        /\ alive' = Kept(IF z \in adopted THEN alive ELSE Adopt(z, alive), z, {})
        /\ respawn' = Kept(respawn, z, NoSlots)
        /\ worker' = [worker EXCEPT !.stage = "zone", !.zone = z, !.left = @ \ {z}, !.todo = todo]
    BY <1>3 DEF Enter
  <2>2. worker'.todo = todo /\ worker'.zone = z /\ worker'.stage = "zone"
    <3> HIDE DEF todo
    <3> QED BY <1>1, <2>1 DEF Workers
  <2>3. ASSUME NEW p \in Points, Home[p] # z
        PROVE  alive'[p] = alive[p] /\ respawn'[p] = respawn[p]
    BY <2>1, <2>3 DEF Kept, Adopt, Origins, TInv, Tracking
  <2>4. ASSUME NEW p \in Points, Home[p] \in adopted' \ pending', ~ (worker'.stage = "zone" /\ p \in worker'.todo)
        PROVE  Cardinality(alive'[p]) + (respawn'[p].due + respawn'[p].later) >= MaxCount
    <3>1. Home[p] # z
      BY <2>2, <2>4
    <3>2. Total(p) >= MaxCount
      BY <1>1, <2>1, <2>4, <3>1 DEF AInv, Awaited
    <3> QED BY <2>3, <3>1, <3>2 DEF Total, Slots
  <2> QED BY <2>1, <2>2, <2>4 DEF AInv, Total, Slots, Awaited
<1> QED BY <1>2, <1>3

LEMMA PopulateKeeps ==
  ASSUME TInv, AInv, NEW o \in Origins, Populate(o)
  PROVE  AInv'
<1>1. /\ UNCHANGED <<adopted, pending>> /\ worker' = [worker EXCEPT !.todo = @ \ {o}]
      /\ worker.stage = "zone" /\ worker \in Workers /\ o \in worker.todo
  BY DEF Populate, TInv, Rounds
<1>2. worker'.todo = worker.todo \ {o} /\ worker'.zone = worker.zone /\ worker'.stage = "zone"
  BY <1>1 DEF Workers
<1>3. ASSUME NEW p \in Points, Home[p] \in adopted \ pending, p \notin worker.todo \ {o}
      PROVE  Cardinality(alive'[p]) + (respawn'[p].due + respawn'[p].later) >= MaxCount
  <2>1. CASE p = o
    <3>1. Enabled(o) /\ MaxOf(o) = MaxCount
      BY <2>1 DEF Enabled, MaxOf
    <3>2. Total(o)' = (IF Total(o) >= MaxCount THEN Total(o) ELSE MaxCount)
      BY <3>1, Populated
    <3>3. Total(o) \in Nat /\ MaxCount \in Nat
      BY TotalType, SpawnPointsAssumption
    <3>4. Total(o)' >= MaxCount
      <4> DEFINE t == Total(o)'
      <4>1. t = (IF Total(o) >= MaxCount THEN Total(o) ELSE MaxCount)
        BY <3>2
      <4> HIDE DEF t
      <4>2. t >= MaxCount
        BY <4>1, <3>3
      <4> QED BY <4>2 DEF t
    <3> QED BY <3>4, <2>1 DEF Total, Slots
  <2>2. CASE p # o
    <3>1. alive'[p] = alive[p] /\ respawn'[p] = respawn[p]
      BY <2>2, Populated DEF Origins
    <3>2. Total(p) >= MaxCount
      BY <1>3, <2>2 DEF AInv, Awaited
    <3> QED BY <3>1, <3>2 DEF Total, Slots
  <2> QED BY <2>1, <2>2
<1>4. worker'.todo # {} => worker'.zone \in adopted'
  BY <1>1, <1>2 DEF AInv
<1> QED BY <1>1, <1>2, <1>3, <1>4 DEF AInv, Total, Slots, Awaited

LEMMA EndZoneKeeps ==
  ASSUME TInv, AInv, EndZone
  PROVE  AInv'
<1> DEFINE z == worker.zone
           deleted == IF z \notin adopted THEN {} ELSE {s \in Found(z) : spawner[s].delete}
           kept == [o \in Origins |-> IF o \in deleted THEN {} ELSE alive[o]]
<1>1. /\ respawn' = [o \in Origins |-> IF o \in deleted THEN NoSlots ELSE respawn[o]]
      /\ worker' = IF worker.left = {} THEN Idle ELSE [Idle EXCEPT !.stage = "ticking", !.left = worker.left]
      /\ IF rescan > 0
         THEN /\ alive' = Adopt(z, kept)
              /\ adopted' = adopted \cup {z} /\ pending' = pending \cup {z}
         ELSE alive' = kept /\ UNCHANGED <<adopted, pending>>
      /\ worker.todo = {}
  BY DEF EndZone
<1>2. worker'.todo = {} /\ worker'.stage # "zone"
  BY <1>1, ConstantTypes DEF Idle
<1>3. deleted \subseteq Spawners /\ Points \cap Spawners = {} /\ Points \subseteq Origins
  BY SpawnPointsAssumption DEF Found, Origins
<1> HIDE DEF deleted
<1>4. ASSUME NEW p \in Points, Home[p] \in adopted' \ pending'
      PROVE  Cardinality(alive'[p]) + (respawn'[p].due + respawn'[p].later) >= MaxCount
  <2>1. respawn'[p] = respawn[p] /\ kept[p] = alive[p]
    BY <1>1, <1>3
  <2> HIDE DEF kept
  <2>2. alive'[p] = alive[p] /\ Home[p] \in adopted \ pending
    BY <1>1, <1>3, <1>4, <2>1 DEF Adopt
  <2>3. Total(p) >= MaxCount
    BY <1>1, <2>2 DEF AInv, Awaited
  <2> QED BY <2>1, <2>2, <2>3 DEF Total, Slots
<1> QED BY <1>2, <1>4 DEF AInv, Total, Slots, Awaited

LEMMA NextKeeps == TInv /\ AInv /\ [Next]_vars => AInv'
<1> SUFFICES ASSUME TInv, AInv, [Next]_vars PROVE AInv'
  OBVIOUS
<1>1. ASSUME Wake PROVE AInv'
  <2>1. worker.stage = "idle" /\ UNCHANGED <<alive, respawn, adopted, pending>>
        /\ worker' = [Idle EXCEPT !.stage = "ticking", !.left = zones]
    BY <1>1 DEF Wake, manager
  <2>2. worker'.stage = "ticking"
    BY <2>1 DEF Idle
  <2> QED BY <2>1, <2>2 DEF AInv, Total, Slots, Awaited
<1>2. ASSUME Tick PROVE AInv'
  BY <1>1, <1>2, EnterKeeps, PopulateKeeps, EndZoneKeeps DEF Tick
<1>3. ASSUME NEW o \in Origins, Elapse(o) PROVE AInv'
  <2>1. \A p \in Points : Total(p)' = Total(p)
    BY <1>3, Elapsed DEF Origins
  <2>2. UNCHANGED <<adopted, pending, worker>>
    BY <1>3 DEF Elapse
  <2> QED BY <2>1, <2>2 DEF AInv, Awaited
<1>4. ASSUME Restart PROVE AInv'
  <2>1. adopted' = {} /\ worker' = worker /\ worker.stage = "idle"
    BY <1>4 DEF Restart, Allowed
  <2> QED BY <2>1 DEF AInv
<1>5. ASSUME Command PROVE AInv'
  <2>1. Restart \/ (worker.stage = "idle" /\ UNCHANGED <<alive, respawn, adopted, pending, worker>>)
    BY <1>5 DEF Command, Die, Leave, Configure, Carry, Save, Load, Restore, Allowed, manager
  <2> QED BY <1>4, <2>1, AtRestKept
<1>6. ASSUME UNCHANGED vars PROVE AInv'
  BY <1>6 DEF vars, AInv, Total, Slots, Awaited
<1> QED BY <1>2, <1>3, <1>5, <1>6 DEF Next

LEMMA InitKeeps == Init => AInv
BY DEF Init, Fresh, AInv, Idle


-----------------------------------------------------------------------------
(* Calm scenarios *)

Objects == "spawner" \in scene.acts

\* The zones whose turn in the round, or in the next round, is still to come.
Unfinished == IF worker.stage = "idle" THEN zones
              ELSE worker.left \cup (IF worker.stage = "zone" THEN {worker.zone} ELSE {})

Tracked(o) == IF o \in Points THEN Home[o] \in adopted ELSE spawner[o].zone \in Zones

\* Nobody is counted twice or beyond the limit, and nothing is counted of a
\* zone before it is adopted.
Counts ==
  /\ \A o \in Origins : alive[o] \subseteq taken \X {1} /\ Total(o) <= MaxCount
  /\ \A p \in Points : Home[p] \notin adopted => alive[p] = {} /\ Slots(p) = 0

\* Who lives is counted, and is where it was born.
Births ==
  /\ \A o \in Origins : /\ Cardinality(Population(o)) <= MaxCount
                        /\ Tracked(o) => Population(o) \X {1} \subseteq alive[o]
  /\ \A z \in Zones, m \in Serials :
       /\ store[z][m] \in Points => Home[store[z][m]] = z
       /\ store[z][m] \in Spawners => z \in adopted /\ Objects

SpawnersCalm ==
  /\ \A s \in Spawners : /\ spawner[s] = Unplaced => Population(s) = {}
                         /\ spawner[s].zone \in Zones => spawner[s].zone \in zones
  /\ Objects => zones = scene.zones /\ rescan = 0 
  /\ ~ Objects => \A s \in Spawners : spawner[s] = Unplaced

SavedCalm ==
  \A z \in Zones : saved[z] # None =>
    /\ ~ Objects /\ \A s \in Spawners : saved[z].spawners[s] = Unplaced
    /\ \A m \in Serials : /\ saved[z].monsters[m] \notin Spawners
                          /\ saved[z].monsters[m] \in Points => Home[saved[z].monsters[m]] = z
    /\ \A p \in Points : Cardinality({m \in Serials : saved[z].monsters[m] = p}) <= MaxCount

\* A restored zone is adopted once: for every restore there is a zone whose
\* turn is to come, and none of these has been adopted.
RestoresCalm ==
  /\ loading # {} => worker.stage = "idle" /\ adopted = {} /\ loading \cap zones = {}
  /\ rescan > 0 => rescan <= Cardinality(Unfinished) /\ Unfinished \cap adopted = {}

CInv == Counts /\ Births /\ SpawnersCalm /\ SavedCalm /\ RestoresCalm
CalmInv == Calm => CInv

LEMMA PopulationFacts ==
  ASSUME NEW o
  PROVE  /\ \A m : m \in Population(o) <=> m \in Serials /\ \E z \in Zones : store[z][m] = o
         /\ IsFiniteSet(Population(o)) /\ Cardinality(Population(o)) \in Nat
         /\ \A S \in SUBSET Population(o) : Cardinality(S) \in Nat /\ Cardinality(S) <= Cardinality(Population(o))
<1>1. \A m : m \in Population(o) <=> m \in Serials /\ \E z \in Zones : store[z][m] = o
  BY DEF Population
<1>2. Population(o) \in SUBSET Serials
  BY <1>1
<1>3. IsFiniteSet(Population(o))
  BY <1>2, SpawnPointsAssumption, FS_Subset
<1>4. \A S \in SUBSET Population(o) : IsFiniteSet(S) /\ Cardinality(S) <= Cardinality(Population(o))
  BY <1>3, FS_Subset
<1> QED BY <1>1, <1>3, <1>4, FS_CardinalityType

LEMMA PopulationThen ==
  ASSUME NEW o
  PROVE  \A m : m \in Population(o)' <=> m \in Serials /\ \E z \in Zones : store'[z][m] = o
BY DEF Population

\* Those that are counted are no more than the counts.
LEMMA CountedBound ==
  ASSUME NEW P, NEW A, IsFiniteSet(A), P \X {1} \subseteq A, IsFiniteSet(P)
  PROVE  Cardinality(P) \in Nat /\ Cardinality(P) <= Cardinality(A)
<1>1. Cardinality(P \X {1}) = Cardinality(P)
  BY Marked
<1>2. P \X {1} \in SUBSET A
  OBVIOUS
<1>3. Cardinality(P \X {1}) <= Cardinality(A)
  BY <1>2, FS_Subset
<1> QED BY <1>1, <1>3, FS_CardinalityType

\* With spawner objects there is one zone, and no save file.
LEMMA ObjectsFacts ==
  ASSUME TInv, Calm, CInv, Objects
  PROVE  /\ \A y, z \in zones : y = z
         /\ \A z \in Zones : saved[z] = None
         /\ loading = {} /\ rescan = 0 /\ zones = scene.zones /\ "restart" \notin scene.acts
<1>1. zones = scene.zones /\ Cardinality(zones) = 1 /\ "restart" \notin scene.acts /\ rescan = 0
  BY DEF CInv, SpawnersCalm, Calm, Objects
<1>2. IsFiniteSet(zones)
  BY ZoneCounts DEF TInv
<1>3. \E x : zones = {x}
  BY <1>1, <1>2, FS_Singleton
<1>4. \A z \in Zones : saved[z] = None
  BY DEF CInv, SavedCalm
<1>5. loading = {}
  BY <1>4 DEF TInv
<1> QED BY <1>1, <1>3, <1>4, <1>5

\* A spawner object that is placed is in the zone the worker is in.
LEMMA PlacedFacts ==
  ASSUME TInv, Calm, CInv, NEW s \in Spawners, spawner[s].zone \in Zones
  PROVE  Objects /\ spawner[s] # Unplaced /\ \A z \in zones : s \in Found(z)
<1>1. spawner[s] # Unplaced
  BY ConstantTypes, SpawnPointsAssumption
<1>2. Objects
  BY <1>1 DEF CInv, SpawnersCalm
<1>3. spawner[s].zone \in zones
  BY DEF CInv, SpawnersCalm
<1> QED BY <1>1, <1>2, <1>3, ObjectsFacts DEF Found

LEMMA InitCalm == Init => CInv
<1> SUFFICES ASSUME Init PROVE CInv
  OBVIOUS
<1>1. \A o \in Origins : alive[o] = {} /\ Slots(o) = 0 /\ Total(o) = 0
  BY EmptyCount DEF Init, Fresh, Slots, NoSlots, Total
<1>2. \A o \in Origins : Population(o) = {} /\ Cardinality(Population(o)) = 0
  <2> SUFFICES ASSUME NEW o \in Origins PROVE Population(o) = {}
    BY EmptyCount
  <2> QED BY PopulationFacts, SpawnPointsAssumption DEF Init, Nothing
<1>3. MaxCount \in Nat /\ \A z \in Zones, m \in Serials : store[z][m] = None
  BY SpawnPointsAssumption DEF Init, Nothing
<1>4. Counts
  BY <1>1, <1>3 DEF Counts, Origins
<1>5. Births
  BY <1>1, <1>2, <1>3, SpawnPointsAssumption DEF Births, Origins
<1>6. SpawnersCalm
  <2>1. \A s \in Spawners : spawner[s] = Unplaced /\ Population(s) = {}
    BY <1>2 DEF Init, Origins
  <2>2. \A s \in Spawners : spawner[s].zone \notin Zones
    BY <2>1, ConstantTypes, SpawnPointsAssumption
  <2> QED BY <2>1, <2>2 DEF SpawnersCalm, Init, Fresh
<1>7. SavedCalm /\ RestoresCalm
  BY DEF SavedCalm, RestoresCalm, Init, Fresh
<1> QED BY <1>4, <1>5, <1>6, <1>7 DEF CInv

\* A step that changes neither what lives nor what is counted.
LEMMA NothingCounted ==
  ASSUME CInv, UNCHANGED <<scene, zones, store, spawner, taken, alive, adopted, rescan, saved, loading>>,
         \A o \in Origins : Slots(o)' = Slots(o) /\ Total(o)' = Total(o),
         RestoresCalm'
  PROVE  CInv'
<1>1. Counts'
  BY DEF CInv, Counts, Origins
<1>2. Births'
  BY DEF CInv, Births, Population, Tracked, Objects
<1>3. SpawnersCalm'
  BY DEF CInv, SpawnersCalm, Population, Objects
<1>4. SavedCalm'
  BY DEF CInv, SavedCalm, Objects
<1> QED BY <1>1, <1>2, <1>3, <1>4 DEF CInv

LEMMA WakeCalm ==
  ASSUME TInv, Calm, CInv, Wake
  PROVE  CInv'
<1>1. /\ UNCHANGED <<scene, acts, zones, store, spawner, taken, alive, respawn, adopted, pending, rescan, saved, loading>>
      /\ worker.stage = "idle" /\ worker' = [Idle EXCEPT !.stage = "ticking", !.left = zones]
      /\ loading = {}
  BY DEF Wake, manager, Calm
<1>2. worker'.left = zones /\ worker'.stage = "ticking"
  BY <1>1 DEF Idle
<1>3. RestoresCalm'
  BY <1>1, <1>2 DEF CInv, RestoresCalm, Unfinished
<1>4. \A o \in Origins : Slots(o)' = Slots(o) /\ Total(o)' = Total(o)
  BY <1>1 DEF Slots, Total
<1> QED BY <1>1, <1>3, <1>4, NothingCounted

LEMMA ElapseCalm ==
  ASSUME TInv, CInv, NEW o \in Origins, Elapse(o)
  PROVE  CInv'
<1>1. UNCHANGED <<scene, acts, zones, store, spawner, taken, alive, adopted, pending, rescan, saved, loading, worker>>
  BY DEF Elapse
<1>2. \A q \in Origins : Slots(q)' = Slots(q) /\ Total(q)' = Total(q)
  BY Elapsed
<1>3. RestoresCalm'
  BY <1>1 DEF CInv, RestoresCalm, Unfinished
<1> QED BY <1>1, <1>2, <1>3, NothingCounted


\* Adopting a zone of which nothing is counted counts who lives there.
LEMMA Adopted ==
  ASSUME TInv, CInv, NEW z \in Zones, z \notin adopted, NEW o \in Origins
  PROVE  Adopt(z, alive)[o] = IF o \in Points /\ Home[o] = z THEN Population(o) \X {1} ELSE alive[o]
<1> DEFINE add == {<<m, Copies(m, alive[o]) + 1>> : m \in {n \in In(z) : store[z][n] = o}}
<1>1. Adopt(z, alive)[o] = IF o \in Points /\ Home[o] # z THEN alive[o] ELSE alive[o] \cup add
  BY DEF Adopt
<1>2. CASE o \in Points /\ Home[o] = z
  <2>1. alive[o] = {}
    BY <1>2 DEF CInv, Counts
  <2>2. \A m : Copies(m, alive[o]) + 1 = 1
    <3>1. \A m : {e \in alive[o] : e[1] = m} = {}
      BY <2>1
    <3> QED BY <3>1, EmptyCount DEF Copies
  <2>3. {n \in In(z) : store[z][n] = o} = Population(o)
    <3>1. \A y \in Zones, m \in Serials : store[y][m] = o => y = z
      BY <1>2 DEF CInv, Births
    <3>2. o # None
      BY SpawnPointsAssumption
    <3> QED BY <3>1, <3>2, PopulationFacts DEF In
  <2>4. add = Population(o) \X {1}
    BY <2>2, <2>3
  <2> QED BY <1>1, <1>2, <2>1, <2>4
<1>3. CASE o \in Points /\ Home[o] # z
  BY <1>1, <1>3
<1>4. CASE o \notin Points
  <2>1. \A m \in Serials : store[z][m] # o
    BY <1>4 DEF CInv, Births, Origins
  <2>2. add = {}
    BY <2>1 DEF In
  <2> QED BY <1>1, <1>4, <2>2
<1> QED BY <1>2, <1>3, <1>4

\* What an adoption of zone z leaves, with some spawner objects forgotten.
SlotsAfter(dropped) == \A o \in Origins : respawn'[o] = IF o \in dropped THEN NoSlots ELSE respawn[o]
AliveAfter(z, dropped) ==
  \A o \in Origins : alive'[o] = IF o \in dropped THEN {}
                                 ELSE IF o \in Points /\ Home[o] = z /\ z \notin adopted THEN Population(o) \X {1}
                                 ELSE alive[o]

\* What is counted after the adoption of a zone; spawner objects of another
\* zone are forgotten, or some are removed.
LEMMA AdoptedCounts ==
  ASSUME TInv, CInv, NEW z \in Zones, NEW dropped \in SUBSET Spawners,
         taken' = taken, adopted' = adopted \cup {z},
         SlotsAfter(dropped),
         AliveAfter(z, dropped)
  PROVE  Counts'
<1>1. ASSUME NEW o \in Origins
      PROVE  alive'[o] \subseteq taken' \X {1} /\ Total(o)' <= MaxCount
  <2>1. MaxCount \in Nat /\ Total(o)' = Cardinality(alive'[o]) + (respawn'[o].due + respawn'[o].later)
    BY SpawnPointsAssumption DEF Total, Slots
  <2>2. CASE o \in dropped
    <3>0. NoSlots.due = 0 /\ NoSlots.later = 0
      BY DEF NoSlots
    <3>1. alive'[o] = {} /\ respawn'[o].due = 0 /\ respawn'[o].later = 0
      BY <2>2, <3>0 DEF SlotsAfter, AliveAfter
    <3>2. Cardinality(alive'[o]) = 0
      BY <3>1, EmptyCount
    <3> QED BY <2>1, <3>1, <3>2
  <2>3. CASE o \notin dropped /\ o \in Points /\ Home[o] = z /\ z \notin adopted
    <3>1. alive'[o] = Population(o) \X {1} /\ respawn'[o] = respawn[o]
      BY <2>3 DEF SlotsAfter, AliveAfter
    <3>2. Slots(o) = 0 /\ Cardinality(Population(o)) <= MaxCount
      BY <2>3 DEF CInv, Counts, Births
    <3>3. Cardinality(Population(o) \X {1}) = Cardinality(Population(o)) /\ Cardinality(Population(o)) \in Nat
      BY PopulationFacts, Marked
    <3>4. Population(o) \subseteq taken
      BY PopulationFacts, SpawnPointsAssumption DEF TInv, In
    <3>5. Total(o)' = Cardinality(Population(o)) + 0
      BY <2>1, <3>1, <3>2, <3>3 DEF Slots
    <3> QED BY <3>1, <3>2, <3>3, <3>4, <3>5
  <2>4. CASE o \notin dropped /\ ~ (o \in Points /\ Home[o] = z /\ z \notin adopted)
    <3>1. alive'[o] = alive[o] /\ respawn'[o] = respawn[o]
      BY <2>4 DEF SlotsAfter, AliveAfter
    <3> QED BY <2>1, <3>1 DEF CInv, Counts, Total, Slots
  <2> QED BY <2>2, <2>3, <2>4
<1>2. ASSUME NEW p \in Points, Home[p] \notin adopted'
      PROVE  alive'[p] = {} /\ Slots(p)' = 0
  <2>1. p \in Origins /\ p \notin dropped /\ Home[p] # z /\ Home[p] \notin adopted
    BY <1>2, SpawnPointsAssumption DEF Origins
  <2>2. alive'[p] = alive[p] /\ respawn'[p] = respawn[p]
    BY <2>1 DEF SlotsAfter, AliveAfter
  <2> QED BY <2>1, <2>2 DEF CInv, Counts, Slots
<1> QED BY <1>1, <1>2 DEF Counts

\* The same of who lives: nothing does that is not counted.
LEMMA AdoptedBirths ==
  ASSUME TInv, CInv, NEW z \in Zones, NEW dropped \in SUBSET Spawners,
         UNCHANGED <<scene, store>>, adopted' = adopted \cup {z},
         \A s \in Spawners : spawner'[s].zone \in Zones => spawner[s].zone \in Zones /\ s \notin dropped,
         AliveAfter(z, dropped)
  PROVE  Births'
<1>1. ASSUME NEW o \in Origins
      PROVE  /\ Cardinality(Population(o)') <= MaxCount
             /\ Tracked(o)' => Population(o)' \X {1} \subseteq alive'[o]
  <2>1. Population(o)' = Population(o)
    BY DEF Population
  <2>2. Cardinality(Population(o)) <= MaxCount /\ (Tracked(o) => Population(o) \X {1} \subseteq alive[o])
    BY DEF CInv, Births
  <2>3. CASE o \in Points
    <3>1. o \notin dropped
      BY <2>3, SpawnPointsAssumption
    <3> QED BY <2>1, <2>2, <2>3, <3>1 DEF Tracked, AliveAfter
  <2>4. CASE o \in Spawners
    <3>1. o \notin Points
      BY <2>4, SpawnPointsAssumption
    <3> QED BY <2>1, <2>2, <2>4, <3>1 DEF Tracked, AliveAfter
  <2> QED BY <2>1, <2>2, <2>3, <2>4 DEF Origins
<1>2. \A y \in Zones, m \in Serials : /\ store'[y][m] \in Points => Home[store'[y][m]] = y
                                      /\ store'[y][m] \in Spawners => y \in adopted' /\ Objects'
  BY DEF CInv, Births, Objects
<1> QED BY <1>1, <1>2 DEF Births

LEMMA EnterCalm ==
  ASSUME TInv, Calm, CInv, NEW z \in Zones, Enter(z)
  PROVE  CInv'
<1>1. /\ UNCHANGED <<scene, acts, zones, store, spawner, taken, rescan, saved, loading>>
      /\ worker.stage = "ticking" /\ z \in worker.left /\ z \in zones /\ worker \in Workers
  BY DEF Enter, TInv, Rounds
<1>2. loading = {} /\ (rescan > 0 => rescan <= Cardinality(worker.left) /\ worker.left \cap adopted = {})
  BY <1>1 DEF CInv, RestoresCalm, Unfinished
<1>3. CASE z \notin adopted /\ rescan > 0
  <2>1. worker' = [worker EXCEPT !.stage = "zone", !.zone = z, !.left = @ \ {z}]
        /\ UNCHANGED <<alive, respawn, adopted, pending>>
    BY <1>3 DEF Enter, manager
  <2>2. worker'.stage = "zone" /\ worker'.zone = z /\ worker'.left = worker.left \ {z}
    BY <1>1, <2>1 DEF Workers
  <2>3. Unfinished' = worker.left
    BY <1>1, <2>2 DEF Unfinished
  <2>4. RestoresCalm'
    BY <1>1, <1>2, <2>1, <2>3 DEF RestoresCalm
  <2>5. \A o \in Origins : Slots(o)' = Slots(o) /\ Total(o)' = Total(o)
    BY <2>1 DEF Slots, Total
  <2> QED BY <1>1, <2>1, <2>4, <2>5, NothingCounted
<1>4. CASE ~ (z \notin adopted /\ rescan > 0)
  <2> DEFINE found == IF z \in adopted THEN alive ELSE Adopt(z, alive)
             dropped == Spawners \ Found(z)
  <2>1. /\ adopted' = adopted \cup {z} /\ alive' = Kept(found, z, {}) /\ respawn' = Kept(respawn, z, NoSlots)
    BY <1>4 DEF Enter
  <2>2. ~ (rescan > 0)
    BY <1>1, <1>2, <1>4
  <2>3. RestoresCalm'
    BY <1>1, <1>2, <2>2 DEF RestoresCalm
  <2>4. \A o \in Origins : found[o] = IF o \in Points /\ Home[o] = z /\ z \notin adopted THEN Population(o) \X {1} ELSE alive[o]
    BY Adopted
  <2>5. \A o \in Origins : o \in dropped <=> o \notin Points \cup Found(z)
    BY SpawnPointsAssumption DEF Origins
  <2> HIDE DEF found
  <2>6. SlotsAfter(dropped)
    BY <2>1, <2>5 DEF Kept, SlotsAfter
  <2>7. AliveAfter(z, dropped)
    BY <2>1, <2>4, <2>5 DEF Kept, AliveAfter
  <2>8. \A s \in Spawners : spawner'[s].zone \in Zones => spawner[s].zone \in Zones /\ s \notin dropped
    BY <1>1, PlacedFacts
  <2> HIDE DEF dropped
  <2>9. dropped \in SUBSET Spawners
    BY DEF dropped
  <2>10. Counts'
    BY <1>1, <2>1, <2>6, <2>7, <2>9, AdoptedCounts
  <2>11. Births'
    BY <1>1, <2>1, <2>7, <2>8, <2>9, AdoptedBirths
  <2>12. SpawnersCalm' /\ SavedCalm'
    BY <1>1 DEF CInv, SpawnersCalm, SavedCalm, Population, Objects
  <2> QED BY <2>3, <2>10, <2>11, <2>12 DEF CInv
<1> QED BY <1>3, <1>4


LEMMA EndZoneCalm ==
  ASSUME TInv, Calm, CInv, EndZone
  PROVE  CInv'
<1> DEFINE z == worker.zone
           deleted == IF z \notin adopted THEN {} ELSE {s \in Found(z) : spawner[s].delete}
           kept == [o \in Origins |-> IF o \in deleted THEN {} ELSE alive[o]]
<1>1. /\ UNCHANGED <<scene, acts, zones, store, taken, saved, loading>>
      /\ z \in zones /\ z \in Zones /\ z \notin worker.left /\ worker.left \subseteq zones /\ worker.stage = "zone"
  BY DEF EndZone, TInv, Rounds
<1>2. /\ spawner' = [s \in Spawners |-> IF s \in deleted THEN Gone ELSE spawner[s]]
      /\ respawn' = [o \in Origins |-> IF o \in deleted THEN NoSlots ELSE respawn[o]]
      /\ worker' = IF worker.left = {} THEN Idle ELSE [Idle EXCEPT !.stage = "ticking", !.left = worker.left]
      /\ IF rescan > 0
         THEN /\ alive' = Adopt(z, kept)
              /\ adopted' = adopted \cup {z} /\ pending' = pending \cup {z}
              /\ rescan' = rescan - 1
         ELSE alive' = kept /\ UNCHANGED <<adopted, pending, rescan>>
  BY DEF EndZone
<1>3. deleted \in SUBSET Spawners
  BY DEF Found
<1>4. loading = {} /\ (rescan > 0 => rescan <= Cardinality(worker.left \cup {z}) /\ (worker.left \cup {z}) \cap adopted = {})
  BY <1>1 DEF CInv, RestoresCalm, Unfinished
<1>5. SlotsAfter(deleted)
  BY <1>2 DEF SlotsAfter
<1>6. \A s \in Spawners : spawner'[s].zone \in Zones => spawner[s].zone \in Zones /\ s \notin deleted
  BY <1>2, ConstantTypes, SpawnPointsAssumption
<1>7. CASE rescan > 0
  <2>1. z \notin adopted /\ deleted = {} /\ rescan \in Nat
    BY <1>4, <1>7 DEF TInv
  <2>2. kept = alive
    BY <2>1 DEF TInv, Tracking
  <2> HIDE DEF kept, deleted
  <2>3. AliveAfter(z, deleted) /\ adopted' = adopted \cup {z}
    BY <1>1, <1>2, <1>7, <2>1, <2>2, Adopted DEF AliveAfter
  <2>4. Counts' /\ Births'
    BY <1>1, <1>3, <1>5, <1>6, <2>3, AdoptedCounts, AdoptedBirths
  <2>5. spawner' = spawner
    BY <1>2, <2>1 DEF TInv
  <2>6. ~ Objects
    BY <1>7 DEF CInv, SpawnersCalm
  <2>7. SpawnersCalm' /\ SavedCalm'
    BY <1>1, <2>5, <2>6 DEF CInv, SpawnersCalm, SavedCalm, Population, Objects
  <2>8. RestoresCalm'
    <3>1. IsFiniteSet(worker.left) /\ Cardinality(worker.left) \in Nat
      BY ZoneCounts DEF TInv, Rounds, Workers
    <3>2. Cardinality(worker.left \cup {z}) = Cardinality(worker.left) + 1
      BY <1>1, <3>1, FS_AddElement
    <3>3. rescan' <= Cardinality(worker.left)
      BY <1>2, <1>4, <1>7, <2>1, <3>1, <3>2
    <3>4. CASE worker.left = {}
      <4>1. rescan' <= 0
        BY <3>3, <3>4, EmptyCount
      <4>2. rescan' \in Int
        BY <1>2, <1>7, <2>1
      <4> QED BY <1>1, <1>4, <4>1, <4>2 DEF RestoresCalm
    <3>5. CASE worker.left # {}
      <4>1. worker'.left = worker.left /\ worker'.stage = "ticking"
        BY <1>2, <3>5 DEF Idle
      <4>2. Unfinished' = worker.left
        BY <4>1 DEF Unfinished
      <4>3. worker.left \cap adopted' = {}
        BY <1>1, <1>4, <1>7, <2>3
      <4> QED BY <1>1, <1>4, <3>3, <4>2, <4>3 DEF RestoresCalm
    <3> QED BY <3>4, <3>5
  <2> QED BY <2>4, <2>7, <2>8 DEF CInv
<1>8. CASE ~ (rescan > 0)
  <2>1. alive' = kept /\ UNCHANGED <<adopted, pending, rescan>>
    BY <1>2, <1>8
  <2>2. RestoresCalm'
    BY <1>1, <1>4, <1>8, <2>1 DEF RestoresCalm
  <2>3. CASE z \in adopted
    <3>1. AliveAfter(z, deleted)
      BY <2>1, <2>3 DEF AliveAfter
    <3>2. adopted' = adopted \cup {z}
      BY <2>1, <2>3
    <3> HIDE DEF kept, deleted
    <3>3. Counts' /\ Births'
      BY <1>1, <1>3, <1>5, <1>6, <3>1, <3>2, AdoptedCounts, AdoptedBirths
    <3>4. \A s \in Spawners : spawner'[s] = Unplaced => spawner[s] = Unplaced
      BY <1>2, ConstantTypes
    <3>5. \A s \in Spawners : spawner'[s].zone \in Zones => spawner'[s] = spawner[s]
      BY <1>2, ConstantTypes, SpawnPointsAssumption
    <3>6. ~ Objects => deleted = {}
      <4>1. \A s \in Spawners : spawner[s].zone \in Zones => Objects
        BY PlacedFacts
      <4>2. \A s \in deleted : s \in Spawners /\ spawner[s].zone = z
        BY DEF deleted, Found
      <4> QED BY <1>1, <4>1, <4>2
    <3>7. SpawnersCalm'
      <4>1. ~ Objects => \A s \in Spawners : spawner'[s] = Unplaced
        BY <1>2, <3>6 DEF CInv, SpawnersCalm
      <4> QED BY <1>1, <2>1, <3>4, <3>5, <4>1 DEF CInv, SpawnersCalm, Population, Objects
    <3>8. SavedCalm'
      BY <1>1 DEF CInv, SavedCalm, Objects
    <3> QED BY <2>2, <3>3, <3>7, <3>8 DEF CInv
  <2>4. CASE z \notin adopted
    <3>1. deleted = {}
      BY <2>4
    <3>2. kept = alive /\ respawn' = respawn /\ spawner' = spawner
      BY <1>2, <3>1 DEF TInv, Tracking
    <3> HIDE DEF kept, deleted
    <3>3. \A o \in Origins : Slots(o)' = Slots(o) /\ Total(o)' = Total(o)
      BY <2>1, <3>2 DEF Slots, Total
    <3> QED BY <1>1, <2>1, <2>2, <3>2, <3>3, NothingCounted
  <2> QED BY <2>3, <2>4
<1> QED BY <1>7, <1>8

LEMMA PopulateCalm ==
  ASSUME TInv, Calm, AInv, CInv, NEW o \in Origins, Populate(o)
  PROVE  CInv'
<1> DEFINE z == worker.zone
<1>1. /\ UNCHANGED <<scene, acts, zones, spawner, adopted, pending, rescan, saved, loading>>
      /\ worker' = [worker EXCEPT !.todo = @ \ {o}]
      /\ worker.stage = "zone" /\ o \in worker.todo /\ worker \in Workers /\ z \in zones /\ z \in Zones
  BY DEF Populate, TInv, Rounds
<1>2. PICK born \in SUBSET (Serials \ taken), want \in Nat :
           /\ alive' = [alive EXCEPT ![o] = Living(o) \cup (born \X {1})]
           /\ store' = [store EXCEPT ![worker.zone] = [m \in Serials |-> IF m \in born THEN o ELSE store[worker.zone][m]]]
           /\ taken' = taken \cup born
  BY Filled
<1>3. z \in adopted /\ IF o \in Points THEN Home[o] = z ELSE o \in Found(z)
  BY <1>1, SpawnPointsAssumption DEF AInv, TInv, Rounds, Found
<1>4. Tracked(o) /\ (o \notin Points => Objects /\ o \in Spawners)
  <2>1. CASE o \in Points
    BY <1>3, <2>1 DEF Tracked
  <2>2. CASE o \notin Points
    <3>1. o \in Spawners /\ spawner[o].zone = z
      BY <1>3, <2>2 DEF Found
    <3> QED BY <1>1, <2>2, <3>1, PlacedFacts DEF Tracked
  <2> QED BY <2>1, <2>2
<1>5. Total(o)' <= MaxCount /\ \A q \in Origins : q # o => alive'[q] = alive[q] /\ respawn'[q] = respawn[q]
  <2>1. Total(o) \in Nat /\ Total(o) <= MaxCount /\ MaxCount \in Nat
    BY TotalType, SpawnPointsAssumption DEF CInv, Counts
  <2> DEFINE t == Total(o)'
  <2>2. \/ t = (IF Total(o) >= MaxOf(o) THEN Total(o) ELSE MaxOf(o))
        \/ t <= Total(o)
    BY Populated
  <2>3. MaxOf(o) \in 1 .. MaxCount
    BY Populated
  <2>4. t \in Nat
    <3>1. TInv'
      BY PopulateTyped
    <3>2. IsFiniteSet(alive'[o]) /\ respawn'[o].due \in Nat /\ respawn'[o].later \in Nat
      BY <3>1 DEF TInv, Tracking, Slot
    <3> QED BY <3>2, FS_CardinalityType DEF Total, Slots
  <2> HIDE DEF t
  <2>5. t <= MaxCount
    BY <2>1, <2>2, <2>3, <2>4
  <2> QED BY <2>5, Populated DEF t
<1>6. /\ \A y \in Zones, m \in Serials : store'[y][m] = IF y = z /\ m \in born THEN o ELSE store[y][m]
      /\ \A y \in Zones, m \in born : store[y][m] = None
      /\ alive'[o] = Living(o) \cup (born \X {1})
  BY <1>2 DEF TInv, Stores, In, Tracking
<1>7. Counts'
  <2>1. alive'[o] \subseteq taken' \X {1}
    BY <1>2, <1>6 DEF CInv, Counts, Living
  <2>2. \A q \in Origins : q # o => alive'[q] \subseteq taken' \X {1} /\ Total(q)' <= MaxCount
    BY <1>2, <1>5 DEF CInv, Counts, Total, Slots
  <2>3. ASSUME NEW p \in Points, Home[p] \notin adopted
        PROVE  alive'[p] = {} /\ Slots(p)' = 0
    <3>1. p # o
      BY <1>3, <2>3
    <3> QED BY <1>5, <2>3, <3>1 DEF CInv, Counts, Slots, Origins
  <2> QED BY <1>1, <1>5, <2>1, <2>2, <2>3 DEF Counts
<1>8. \A q \in Origins : q # o => Population(q)' = Population(q)
  <2> SUFFICES ASSUME NEW q \in Origins, q # o, NEW m PROVE m \in Population(q)' <=> m \in Population(q)
    OBVIOUS
  <2>1. q # None
    BY SpawnPointsAssumption
  <2> QED BY <1>6, <2>1, PopulationFacts, PopulationThen
<1>9. Population(o)' \X {1} \subseteq alive'[o] /\ Cardinality(Population(o)') <= MaxCount
  <2>1. ASSUME NEW m \in Population(o)'
        PROVE  <<m, 1>> \in alive'[o]
    <3>1. PICK y \in Zones : store'[y][m] = o
      BY <2>1, PopulationThen
    <3>2. m \in Serials
      BY <2>1, PopulationThen
    <3>3. CASE m \in born
      BY <1>6, <3>3
    <3>4. CASE m \notin born
      <4>1. store[y][m] = o
        BY <1>6, <3>1, <3>2, <3>4
      <4>2. <<m, 1>> \in alive[o]
        BY <1>4, <3>2, <4>1, PopulationFacts DEF CInv, Births
      <4>3. y = z
        <5>1. CASE o \in Points
          BY <1>3, <3>2, <4>1, <5>1 DEF CInv, Births
        <5>2. CASE o \notin Points
          <6>1. o \in Spawners /\ Objects
            BY <1>4, <5>2
          <6>2. y \in zones
            BY <3>2, <4>1, <6>1 DEF CInv, Births, TInv
          <6> QED BY <1>1, <6>1, <6>2, ObjectsFacts
        <5> QED BY <5>1, <5>2
      <4>4. m \in In(z)
        BY <3>2, <4>1, <4>3, SpawnPointsAssumption DEF In
      <4> QED BY <1>6, <4>2, <4>4 DEF Living
    <3> QED BY <3>3, <3>4
  <2>2. Population(o)' \X {1} \subseteq alive'[o]
    BY <2>1
  <2>3. TInv'
    BY PopulateTyped
  <2>4. IsFiniteSet(alive'[o]) /\ respawn'[o].due \in Nat /\ respawn'[o].later \in Nat
    BY <2>3 DEF TInv, Tracking, Slot
  <2>5. IsFiniteSet(Population(o)')
    <3>1. Population(o)' \in SUBSET Serials
      BY PopulationThen
    <3> QED BY <3>1, SpawnPointsAssumption, FS_Subset
  <2>6. Cardinality(Population(o)') \in Nat /\ Cardinality(Population(o)') <= Cardinality(alive'[o])
    BY <2>2, <2>4, <2>5, CountedBound
  <2>7. Cardinality(alive'[o]) + (respawn'[o].due + respawn'[o].later) <= MaxCount
    BY <1>5 DEF Total, Slots
  <2>8. Cardinality(alive'[o]) \in Nat /\ MaxCount \in Nat
    BY <2>4, FS_CardinalityType, SpawnPointsAssumption
  <2> QED BY <2>2, <2>4, <2>6, <2>7, <2>8
<1>10. Births'
  <2>1. ASSUME NEW q \in Origins
        PROVE  /\ Cardinality(Population(q)') <= MaxCount
               /\ Tracked(q)' => Population(q)' \X {1} \subseteq alive'[q]
    <3>1. CASE q = o
      BY <1>9, <3>1
    <3>2. CASE q # o
      BY <1>1, <1>5, <1>8, <3>2 DEF CInv, Births, Tracked
    <3> QED BY <3>1, <3>2
  <2>2. \A y \in Zones, m \in Serials : /\ store'[y][m] \in Points => Home[store'[y][m]] = y
                                        /\ store'[y][m] \in Spawners => y \in adopted' /\ Objects'
    BY <1>1, <1>3, <1>4, <1>6, SpawnPointsAssumption DEF CInv, Births, Objects
  <2> QED BY <2>1, <2>2 DEF Births
<1>11. SpawnersCalm' /\ SavedCalm'
  <2>1. \A s \in Spawners : spawner[s] = Unplaced => Population(s)' = {}
    <3> SUFFICES ASSUME NEW s \in Spawners, spawner[s] = Unplaced PROVE Population(s)' = {}
      OBVIOUS
    <3>1. s # o
      BY <1>1, <1>3, SpawnPointsAssumption, ConstantTypes DEF Found
    <3> QED BY <1>8, <3>1 DEF CInv, SpawnersCalm, Origins
  <2> QED BY <1>1, <2>1 DEF CInv, SpawnersCalm, SavedCalm, Objects
<1>12. RestoresCalm'
  <2>1. worker'.stage = "zone" /\ worker'.zone = z /\ worker'.left = worker.left
    BY <1>1 DEF Workers
  <2> QED BY <1>1, <2>1 DEF CInv, RestoresCalm, Unfinished
<1> QED BY <1>7, <1>10, <1>11, <1>12 DEF CInv


\* Dying leaves fewer alive; the lists notice later.
LEMMA FewerAlive ==
  ASSUME CInv, NEW o, Population(o)' \subseteq Population(o), Cardinality(Population(o)) <= MaxCount
  PROVE  Cardinality(Population(o)') <= MaxCount
<1>1. Population(o)' \in SUBSET Population(o)
  OBVIOUS
<1>2. Cardinality(Population(o)') \in Nat /\ Cardinality(Population(o)') <= Cardinality(Population(o))
  BY <1>1, PopulationFacts
<1>3. Cardinality(Population(o)) \in Nat /\ MaxCount \in Nat
  BY PopulationFacts, SpawnPointsAssumption
<1> QED BY <1>2, <1>3

LEMMA DieCalm ==
  ASSUME TInv, Calm, CInv, NEW z \in Zones, NEW m \in Serials, Die(z, m)
  PROVE  CInv'
<1>1. /\ UNCHANGED <<scene, zones, spawner, taken, alive, respawn, adopted, pending, rescan, saved, loading, worker>>
      /\ store' = [store EXCEPT ![z][m] = None]
  BY DEF Die, manager
<1>2. \A y \in Zones, n \in Serials : store'[y][n] = store[y][n] \/ store'[y][n] = None
  BY <1>1 DEF TInv, Stores, Monsters
<1>3. \A o \in Origins : Population(o)' \subseteq Population(o)
  <2> SUFFICES ASSUME NEW o \in Origins, NEW n \in Population(o)' PROVE n \in Population(o)
    OBVIOUS
  <2>1. o # None
    BY SpawnPointsAssumption
  <2> QED BY <1>2, <2>1, PopulationFacts, PopulationThen
<1>4. Counts'
  BY <1>1 DEF CInv, Counts, Total, Slots
<1>5. Births'
  <2>1. \A o \in Origins : Cardinality(Population(o)') <= MaxCount
    BY <1>3, FewerAlive DEF CInv, Births
  <2>2. \A o \in Origins : Tracked(o)' => Population(o)' \X {1} \subseteq alive'[o]
    BY <1>1, <1>3 DEF CInv, Births, Tracked
  <2>3. \A y \in Zones, n \in Serials : /\ store'[y][n] \in Points => Home[store'[y][n]] = y
                                        /\ store'[y][n] \in Spawners => y \in adopted' /\ Objects'
    BY <1>1, <1>2, SpawnPointsAssumption DEF CInv, Births, Objects, Origins
  <2> QED BY <2>1, <2>2, <2>3 DEF Births
<1>6. SpawnersCalm' /\ SavedCalm' /\ RestoresCalm'
  BY <1>1, <1>3 DEF CInv, SpawnersCalm, SavedCalm, RestoresCalm, Unfinished, Objects, Origins
<1> QED BY <1>4, <1>5, <1>6 DEF CInv

LEMMA ConfigureCalm ==
  ASSUME TInv, Calm, CInv, NEW s \in Spawners, NEW r \in Spawner, Configure(s, r)
  PROVE  CInv'
<1>1. /\ UNCHANGED <<scene, zones, store, taken, alive, respawn, adopted, pending, rescan, saved, loading, worker>>
      /\ spawner' = [spawner EXCEPT ![s] = r] /\ Objects
  BY DEF Configure, manager, Allowed, Objects
<1>2. \/ spawner[s] = Unplaced /\ r.zone \in zones
      \/ spawner[s].zone \in Zones /\ (r = Gone \/ r.zone = spawner[s].zone)
  BY ConstantTypes DEF Configure, TInv, Spawner
<1>3. r # Unplaced
  BY <1>2, ConstantTypes, SpawnPointsAssumption DEF TInv
<1>4. \A q \in Spawners : spawner'[q] = IF q = s THEN r ELSE spawner[q]
  BY <1>1 DEF TInv
<1>5. \A o : Population(o)' = Population(o)
  BY <1>1 DEF Population
<1>6. Counts' /\ SavedCalm' /\ RestoresCalm'
  BY <1>1 DEF CInv, Counts, Total, Slots, SavedCalm, RestoresCalm, Unfinished, Objects
<1>7. SpawnersCalm'
  <2>1. r.zone \in Zones => r.zone \in zones
    BY <1>2, ConstantTypes, SpawnPointsAssumption DEF CInv, SpawnersCalm
  <2> QED BY <1>1, <1>3, <1>4, <1>5, <2>1 DEF CInv, SpawnersCalm, Objects
<1>8. Births'
  <2>1. ASSUME NEW o \in Origins, Tracked(o)'
        PROVE  Population(o) \X {1} \subseteq alive[o]
    <3>1. CASE o = s /\ o \notin Points /\ spawner[s] = Unplaced
      BY <3>1 DEF CInv, SpawnersCalm
    <3>2. CASE o = s /\ o \notin Points /\ spawner[s].zone \in Zones
      BY <3>2 DEF CInv, Births, Tracked
    <3>3. CASE o # s \/ o \in Points
      BY <1>1, <1>4, <2>1, <3>3 DEF CInv, Births, Tracked, Origins
    <3> QED BY <1>2, <3>1, <3>2, <3>3
  <2> QED BY <1>1, <1>5, <2>1 DEF CInv, Births, Objects
<1> QED BY <1>6, <1>7, <1>8 DEF CInv

LEMMA SaveCalm ==
  ASSUME TInv, Calm, CInv, NEW players \in Zones, Save(players)
  PROVE  CInv'
<1>1. /\ UNCHANGED <<scene, store, spawner, taken, alive, respawn, adopted, pending, rescan, loading, worker>>
      /\ worker.stage = "idle" /\ zones' = Zones /\ loading = {}
      /\ saved' = [z \in Zones |-> IF z = players \/ In(z) # {} \/ Found(z) # {} THEN ImageOf(z) ELSE None]
  BY DEF Save, manager
<1>2. ~ Objects
  <2>1. "restart" \in scene.acts
    BY DEF Save, Calm
  <2> QED BY <2>1 DEF Calm, Objects
<1>3. \A o : Population(o)' = Population(o)
  BY <1>1 DEF Population
<1>4. Counts' /\ Births'
  BY <1>1, <1>3 DEF CInv, Counts, Births, Total, Slots, Tracked, Objects
<1>5. SpawnersCalm'
  BY <1>1, <1>2, <1>3 DEF CInv, SpawnersCalm, Objects
<1>6. SavedCalm'
  <2> SUFFICES ASSUME NEW z \in Zones, saved'[z] # None
               PROVE  /\ \A s \in Spawners : saved'[z].spawners[s] = Unplaced
                      /\ \A m \in Serials : /\ saved'[z].monsters[m] \notin Spawners
                                            /\ saved'[z].monsters[m] \in Points => Home[saved'[z].monsters[m]] = z
                      /\ \A p \in Points : Cardinality({m \in Serials : saved'[z].monsters[m] = p}) <= MaxCount
    BY <1>1, <1>2 DEF SavedCalm, Objects
  <2>1. saved'[z].monsters = store[z] /\ \A s \in Spawners : saved'[z].spawners[s] = Unplaced
    BY <1>1, <1>2 DEF ImageOf, CInv, SpawnersCalm
  <2>2. \A m \in Serials : /\ store[z][m] \notin Spawners
                           /\ store[z][m] \in Points => Home[store[z][m]] = z
    BY <1>2 DEF CInv, Births
  <2>3. ASSUME NEW p \in Points
        PROVE  Cardinality({m \in Serials : store[z][m] = p}) <= MaxCount
    <3>1. {m \in Serials : store[z][m] = p} \in SUBSET Population(p)
      BY DEF Population
    <3> DEFINE c == Cardinality({m \in Serials : store[z][m] = p})
    <3>2. c \in Nat /\ c <= Cardinality(Population(p)) /\ Cardinality(Population(p)) \in Nat
      BY <3>1, PopulationFacts
    <3>3. Cardinality(Population(p)) <= MaxCount /\ MaxCount \in Nat
      BY SpawnPointsAssumption DEF CInv, Births, Origins
    <3> HIDE DEF c
    <3>4. c <= MaxCount
      BY <3>2, <3>3
    <3> QED BY <3>4 DEF c
  <2> QED BY <2>1, <2>2, <2>3
<1>7. RestoresCalm'
  <2>1. Cardinality(zones) \in Nat /\ Cardinality(Zones) \in Nat /\ Cardinality(zones) <= Cardinality(Zones)
    BY ZoneCounts DEF TInv
  <2>2. rescan > 0 => rescan <= Cardinality(zones) /\ adopted = {}
    BY <1>1 DEF CInv, RestoresCalm, Unfinished, TInv
  <2>3. Unfinished' = Zones /\ rescan \in Nat
    BY <1>1 DEF Unfinished, TInv
  <2> QED BY <1>1, <2>1, <2>2, <2>3 DEF RestoresCalm
<1> QED BY <1>4, <1>5, <1>6, <1>7 DEF CInv


LEMMA RestartCalm ==
  ASSUME TInv, Calm, CInv, Restart
  PROVE  CInv'
<1>1. /\ UNCHANGED <<scene, saved, worker>> /\ worker.stage = "idle"
      /\ zones' = {} /\ store' = [z \in Zones |-> Nothing]
      /\ spawner' = [s \in Spawners |-> IF spawner[s] = Unplaced THEN Unplaced ELSE Gone]
      /\ alive' = [o \in Origins |-> {}] /\ respawn' = [o \in Origins |-> NoSlots]
      /\ adopted' = {} /\ rescan' = 0
  BY DEF Restart, Allowed
<1>2. ~ Objects
  BY DEF Restart, Allowed, Calm, Objects
<1>3. \A s \in Spawners : spawner'[s] = Unplaced /\ spawner'[s].zone \notin Zones
  BY <1>1, <1>2, ConstantTypes, SpawnPointsAssumption DEF CInv, SpawnersCalm
<1>4. \A o \in Origins : Population(o)' = {}
  <2> SUFFICES ASSUME NEW o \in Origins, NEW m PROVE m \notin Population(o)'
    OBVIOUS
  <2>1. \A z \in Zones, n \in Serials : store'[z][n] = None
    BY <1>1 DEF Nothing
  <2> QED BY <2>1, PopulationThen, SpawnPointsAssumption
<1>5. \A o \in Origins : alive'[o] = {} /\ Slots(o)' = 0 /\ Total(o)' = 0
  <2> SUFFICES ASSUME NEW o \in Origins PROVE alive'[o] = {} /\ Slots(o)' = 0 /\ Total(o)' = 0
    OBVIOUS
  <2>1. NoSlots.due = 0 /\ NoSlots.later = 0
    BY DEF NoSlots
  <2>2. alive'[o] = {} /\ respawn'[o].due = 0 /\ respawn'[o].later = 0
    BY <1>1, <2>1
  <2>3. Cardinality(alive'[o]) = 0
    BY <2>2, EmptyCount
  <2> QED BY <2>2, <2>3 DEF Slots, Total
<1>6. MaxCount \in Nat /\ Cardinality({}) = 0
  BY SpawnPointsAssumption, EmptyCount
<1>7. Counts'
  BY <1>5, <1>6 DEF Counts, Origins
<1>8. Births'
  <2>1. \A o \in Origins : Cardinality(Population(o)') <= MaxCount /\ (Tracked(o)' => Population(o)' \X {1} \subseteq alive'[o])
    BY <1>4, <1>6
  <2>2. \A y \in Zones, m \in Serials : store'[y][m] = None
    BY <1>1 DEF Nothing
  <2> QED BY <2>1, <2>2, SpawnPointsAssumption DEF Births, Origins
<1>9. SpawnersCalm'
  BY <1>1, <1>2, <1>3, <1>4 DEF SpawnersCalm, Objects, Origins
<1>10. SavedCalm' /\ RestoresCalm'
  BY <1>1 DEF CInv, SavedCalm, RestoresCalm, Objects
<1> QED BY <1>7, <1>8, <1>9, <1>10 DEF CInv

LEMMA RestoreCalm ==
  ASSUME TInv, Calm, CInv, NEW z \in Zones, Restore(z)
  PROVE  CInv'
<1>1. /\ UNCHANGED <<scene, acts, alive, respawn, adopted, pending, saved, worker>>
      /\ worker.stage = "idle" /\ z \in loading
      /\ zones' = zones \cup {z} /\ loading' = loading \ {z}
      /\ store' = [store EXCEPT ![z] = saved[z].monsters]
      /\ spawner' = [s \in Spawners |-> IF saved[z].spawners[s] # Unplaced THEN saved[z].spawners[s]
                                        ELSE IF spawner[s].zone = z THEN Gone ELSE spawner[s]]
      /\ taken' = taken \cup SavedIn(z) /\ rescan' = rescan + 1
  BY DEF Restore, manager
<1>2. /\ saved[z] # None /\ ~ Objects
      /\ \A s \in Spawners : saved[z].spawners[s] = Unplaced /\ spawner[s] = Unplaced
      /\ \A m \in Serials : /\ saved[z].monsters[m] \notin Spawners
                            /\ saved[z].monsters[m] \in Points => Home[saved[z].monsters[m]] = z
      /\ \A p \in Points : Cardinality({m \in Serials : saved[z].monsters[m] = p}) <= MaxCount
  BY <1>1 DEF TInv, CInv, SavedCalm, SpawnersCalm
<1>3. adopted = {} /\ z \notin zones /\ (rescan > 0 => rescan <= Cardinality(zones))
  BY <1>1 DEF CInv, RestoresCalm, Unfinished
<1>4. \A s \in Spawners : spawner'[s] = Unplaced /\ spawner'[s].zone \notin Zones
  BY <1>1, <1>2, ConstantTypes, SpawnPointsAssumption
<1>5. \A y \in Zones : store'[y] = IF y = z THEN saved[z].monsters ELSE store[y]
  BY <1>1 DEF TInv, Stores
<1>6. ASSUME NEW o \in Origins
      PROVE  Cardinality(Population(o)') <= MaxCount
  <2>1. CASE o \in Points /\ Home[o] = z
    <3>1. \A y \in Zones, m \in Serials : y # z => store[y][m] # o
      BY <2>1 DEF CInv, Births
    <3>2. Population(o)' = {m \in Serials : saved[z].monsters[m] = o}
      <4> SUFFICES ASSUME NEW m PROVE m \in Population(o)' <=> m \in Serials /\ saved[z].monsters[m] = o
        OBVIOUS
      <4> QED BY <1>5, <3>1, PopulationThen
    <3> QED BY <1>2, <2>1, <3>2
  <2>2. CASE ~ (o \in Points /\ Home[o] = z)
    <3>1. \A m \in Serials : saved[z].monsters[m] # o
      BY <1>2, <2>2 DEF Origins
    <3>2. Population(o)' \subseteq Population(o)
      <4> SUFFICES ASSUME NEW m, m \in Population(o)' PROVE m \in Population(o)
        OBVIOUS
      <4> QED BY <1>5, <3>1, PopulationThen, PopulationFacts
    <3> QED BY <3>2, FewerAlive DEF CInv, Births
  <2> QED BY <2>1, <2>2
<1>7. Counts'
  BY <1>1 DEF CInv, Counts, Total, Slots
<1>8. Births'
  <2>1. \A o \in Origins : ~ Tracked(o)'
    BY <1>1, <1>3, <1>4 DEF Tracked, Origins
  <2>2. \A y \in Zones, m \in Serials : /\ store'[y][m] \in Points => Home[store'[y][m]] = y
                                        /\ store'[y][m] \notin Spawners
    BY <1>2, <1>5 DEF CInv, Births
  <2> QED BY <1>6, <2>1, <2>2 DEF Births
<1>9. SpawnersCalm'
  <2>1. \A s \in Spawners : Population(s)' = {}
    <3> SUFFICES ASSUME NEW s \in Spawners, NEW m PROVE m \notin Population(s)'
      OBVIOUS
    <3> QED BY <1>2, <1>5, PopulationThen DEF CInv, Births
  <2> QED BY <1>1, <1>2, <1>4, <2>1 DEF SpawnersCalm, Objects
<1>10. SavedCalm'
  BY <1>1 DEF CInv, SavedCalm, Objects
<1>11. RestoresCalm'
  <2>1. IsFiniteSet(zones) /\ Cardinality(zones) \in Nat /\ rescan \in Nat
    BY ZoneCounts DEF TInv
  <2>2. Cardinality(zones') = Cardinality(zones) + 1
    BY <1>1, <1>3, <2>1, FS_AddElement
  <2>3. rescan' <= Cardinality(zones')
    BY <1>1, <1>3, <2>1, <2>2
  <2>4. loading' # {} => loading' \cap zones' = {}
    BY <1>1 DEF CInv, RestoresCalm
  <2> QED BY <1>1, <1>3, <2>3, <2>4 DEF RestoresCalm, Unfinished
<1> QED BY <1>7, <1>8, <1>9, <1>10, <1>11 DEF CInv

LEMMA NextCalm == TInv /\ AInv /\ Calm /\ CInv /\ [Next]_vars => CInv'
<1> SUFFICES ASSUME TInv, AInv, Calm, CInv, [Next]_vars PROVE CInv'
  OBVIOUS
<1>1. ASSUME Tick PROVE CInv'
  BY <1>1, WakeCalm, EnterCalm, PopulateCalm, EndZoneCalm DEF Tick
<1>2. ASSUME NEW o \in Origins, Elapse(o) PROVE CInv'
  BY <1>2, ElapseCalm
<1>3. ASSUME Command PROVE CInv'
  <2>1. ASSUME NEW m \in Serials, NEW y \in Zones, NEW z \in Zones, Leave(m, y, z) PROVE FALSE
    BY <2>1 DEF Leave, Allowed, Calm
  <2>2. ASSUME NEW s \in Spawners, NEW z \in zones \cup {"hand"}, Carry(s, z) PROVE FALSE
    BY <2>2 DEF Carry, Allowed, Calm
  <2>3. ~ Load
    BY DEF Load, Allowed, Calm
  <2> QED BY <1>3, <2>1, <2>2, <2>3, DieCalm, ConfigureCalm, SaveCalm, RestartCalm, RestoreCalm DEF Command
<1>4. ASSUME UNCHANGED vars PROVE CInv'
  BY <1>4 DEF vars, CInv, Counts, Births, SpawnersCalm, SavedCalm, RestoresCalm, Population, Tracked, Objects,
              Unfinished, Total, Slots
<1> QED BY <1>1, <1>2, <1>3, <1>4 DEF Next

LEMMA SceneStays == [Next]_vars => scene' = scene
BY DEF Next, Tick, Command, Wake, Enter, Populate, EndZone, Elapse, Die, Leave, Configure, Carry, Save, Load, Restart,
       Restore, vars

LEMMA CalmStep == TInv /\ AInv /\ CalmInv /\ [Next]_vars => CalmInv'
<1>1. [Next]_vars => (Calm' <=> Calm)
  BY SceneStays DEF Calm
<1> QED BY <1>1, NextCalm DEF CalmInv

-----------------------------------------------------------------------------
(* Theorems *)

LEMMA Invariants == Spec => [](TInv /\ AInv /\ CalmInv)
<1>1. Init => TInv /\ AInv /\ CalmInv
  BY InitTyped, InitKeeps, InitCalm DEF CalmInv
<1>2. TInv /\ AInv /\ CalmInv /\ [Next]_vars => (TInv /\ AInv /\ CalmInv)'
  BY NextTyped, NextKeeps, CalmStep
<1> QED BY <1>1, <1>2, PTL DEF Spec

\* The counters, the lists of the spawn points, the stores and the worker keep
\* their types: what a point counts as alive is a serial in use, it never waits
\* for a negative number of places, and no more restores are awaited than
\* were sent.
THEOREM Typed == Spec => []TypeOK
<1>1. TInv => TypeOK
  BY TypedTypes
<1> QED BY <1>1, Invariants, PTL

\* However monsters die, points are populated, the program is saved, ended and
\* started again and spawner objects are placed, changed and removed, no point
\* and no spawner ever has more living monsters than max_count.
THEOREM NoneTooMany == Spec => []PopulationBounded
<1>1. CalmInv => PopulationBounded
  BY DEF CalmInv, CInv, Births, PopulationBounded, PopulationAlways
<1> QED BY <1>1, Invariants, PTL

\* No place of a settled zone is lost, whatever is loaded, torn or carried
\* about; and where nothing of the kind happens the places are exactly
\* max_count, and each living monster holds one of them.
THEOREM NoPlaceLost == Spec => []Accounted
<1>1. TInv /\ AInv /\ CalmInv => Accounted
  <2> SUFFICES ASSUME TInv, AInv, CalmInv PROVE Accounted
    OBVIOUS
  <2>1. ASSUME NEW p \in Points, Settled(Home[p])
        PROVE  Total(p) >= MaxCount
    BY <2>1 DEF Settled, AInv, Awaited
  <2>2. ASSUME Calm, NEW z \in Zones, Settled(z), NEW p \in Points, Home[p] = z
        PROVE  Total(p) = MaxCount
    <3>1. Total(p) >= MaxCount
      BY <2>1, <2>2
    <3>2. Total(p) <= MaxCount
      BY <2>2 DEF CalmInv, CInv, Counts, Origins
    <3>3. Total(p) \in Nat /\ MaxCount \in Nat
      BY TotalType, SpawnPointsAssumption DEF Origins
    <3> QED BY <3>1, <3>2, <3>3
  <2>3. ASSUME Calm, NEW z \in Zones, Settled(z), NEW m \in In(z), store[z][m] \in Points \cup Found(z)
        PROVE  Copies(m, alive[store[z][m]]) = 1
    <3> DEFINE o == store[z][m]
    <3>1. m \in Serials /\ o \in Origins
      BY <2>3 DEF In, Origins, Found
    <3>2. Tracked(o)
      <4>1. CASE o \in Points
        BY <2>3, <3>1, <4>1 DEF CalmInv, CInv, Births, Tracked, Settled
      <4>2. CASE o \notin Points
        BY <2>3, <4>2 DEF Tracked, Found
      <4> QED BY <4>1, <4>2
    <3>3. m \in Population(o)
      BY <3>1, PopulationFacts
    <3> HIDE DEF o
    <3>4. <<m, 1>> \in alive[o] /\ alive[o] \subseteq taken \X {1}
      BY <2>3, <3>1, <3>2, <3>3 DEF CalmInv, CInv, Births, Counts
    <3>5. {e \in alive[o] : e[1] = m} = {<<m, 1>>}
      BY <3>4
    <3>6. Copies(m, alive[o]) = 1
      BY <3>5, FS_Singleton DEF Copies
    <3> QED BY <3>6 DEF o
  <2> QED BY <2>1, <2>2, <2>3 DEF Accounted, Total
<1> QED BY <1>1, Invariants, PTL
=============================================================================
