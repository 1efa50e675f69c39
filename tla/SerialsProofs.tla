--------------------------- MODULE SerialsProofs ---------------------------
(***************************************************************************)
(* The serial allocator keeps its ranges sound and implements a set of     *)
(* free serials, for all ranges of serials, zones and scenarios.           *)
(***************************************************************************)
EXTENDS Serials, FiniteSetTheorems, SequenceTheorems, TLAPS

-----------------------------------------------------------------------------
(* Free ranges *)

\* The first two parts of WellFormed.
Ranges(f) ==
  /\ \A s \in DOMAIN f : s \in Nat /\ f[s] \in Nat /\ s < f[s]
  /\ \A s, t \in DOMAIN f : s < t => f[s] < t

\* A serial is free when it lies in one of the ranges.
LEMMA CoveredMember ==
  ASSUME NEW f, Ranges(f), NEW n
  PROVE  n \in Covered(f) <=> n \in Nat /\ \E s \in DOMAIN f : s <= n /\ n < f[s]
<1>1. ASSUME n \in Covered(f)
      PROVE  n \in Nat /\ \E s \in DOMAIN f : s <= n /\ n < f[s]
  <2>1. PICK s \in DOMAIN f : n \in s .. f[s] - 1
    BY <1>1 DEF Covered
  <2>2. s \in Nat /\ f[s] \in Nat
    BY DEF Ranges
  <2> QED BY <2>1, <2>2
<1>2. ASSUME n \in Nat, NEW s \in DOMAIN f, s <= n, n < f[s]
      PROVE  n \in Covered(f)
  <2>1. s \in Nat /\ f[s] \in Nat
    BY DEF Ranges
  <2>2. n \in s .. f[s] - 1
    BY <1>2, <2>1
  <2> QED BY <2>2 DEF Covered
<1> QED BY <1>1, <1>2

\* Cutting a serial out of the range around it takes that serial and no other.
LEMMA CutFree ==
  ASSUME NEW r, Ranges(r.free), NEW n \in Nat, NEW s \in DOMAIN r.free, s <= n, n < r.free[s]
  PROVE  /\ Ranges(Cut(r, n, s).free)
         /\ Covered(Cut(r, n, s).free) = Covered(r.free) \ {n}
         /\ n \in Covered(r.free)
<1> DEFINE f == r.free
           g == Cut(r, n, s).free
<1>1. s \in Nat /\ f[s] \in Nat
  BY DEF Ranges
<1>0. Ranges(f) /\ s \in DOMAIN f /\ s <= n /\ n < f[s]
  OBVIOUS
<1>2. g = Put(Put(Drop(f, s), s, n), n + 1, f[s])
  BY DEF Cut
<1>3. /\ DOMAIN g = (DOMAIN f \ {s}) \cup (IF s < n THEN {s} ELSE {}) \cup (IF n + 1 < f[s] THEN {n + 1} ELSE {})
      /\ \A x \in DOMAIN f \ {s, n + 1} : g[x] = f[x]
      /\ s < n => g[s] = n
      /\ n + 1 < f[s] => g[n + 1] = f[s]
  <2>1. /\ DOMAIN Put(Drop(f, s), s, n) = (DOMAIN f \ {s}) \cup (IF s < n THEN {s} ELSE {})
        /\ \A x \in DOMAIN f \ {s} : Put(Drop(f, s), s, n)[x] = f[x]
        /\ s < n => Put(Drop(f, s), s, n)[s] = n
    BY <1>1 DEF Put, Drop
  <2> QED BY <1>1, <1>2, <2>1 DEF Put
<1>4. n + 1 < f[s] => n + 1 \notin DOMAIN f
  BY <1>1 DEF Ranges
<1>5. \A x \in DOMAIN f \ {s} : x \in Nat /\ f[x] \in Nat /\ x < f[x] /\ (x < s => f[x] < s) /\ (s < x => f[s] < x)
  BY <1>1 DEF Ranges
<1>6. \A x \in DOMAIN g : \/ x \in DOMAIN f \ {s} /\ x # n + 1 /\ g[x] = f[x]
                          \/ x = s /\ s < n /\ g[x] = n
                          \/ x = n + 1 /\ n + 1 < f[s] /\ g[x] = f[s]
  BY <1>1, <1>3, <1>4, <1>5
<1> HIDE DEF g, f
<1>7. Ranges(g)
  <2>1. \A x \in DOMAIN g : x \in Nat /\ g[x] \in Nat /\ x < g[x]
    BY <1>1, <1>5, <1>6
  <2>2. ASSUME NEW x \in DOMAIN g, NEW y \in DOMAIN g, x < y
        PROVE  g[x] < y
    <3>1. CASE x \in DOMAIN f \ {s} /\ y \in DOMAIN f \ {s}
      <4>1. f[x] < y
        BY <2>2, <3>1, <1>0 DEF Ranges
      <4> QED BY <4>1, <3>1, <1>6, <1>5, <1>1, <1>0
    <3>2. CASE x \notin DOMAIN f \ {s}
      BY <2>2, <3>2, <1>0, <1>1, <1>5, <1>6
    <3>3. CASE y \notin DOMAIN f \ {s}
      BY <2>2, <3>3, <1>0, <1>1, <1>5, <1>6
    <3> QED BY <3>1, <3>2, <3>3
  <2> QED BY <2>1, <2>2 DEF Ranges
<1>8. ASSUME NEW m \in Nat
      PROVE  m \in Covered(g) <=> m \in Covered(f) /\ m # n
  <2>1. ASSUME NEW x \in DOMAIN g, x <= m, m < g[x]
        PROVE  (\E y \in DOMAIN f : y <= m /\ m < f[y]) /\ m # n
    <3>1. CASE x \in DOMAIN f \ {s} /\ g[x] = f[x]
      BY <2>1, <3>1, <1>0, <1>1, <1>5
    <3>2. CASE x = s /\ s < n /\ g[x] = n
      BY <2>1, <3>2, <1>0, <1>1
    <3>3. CASE x = n + 1 /\ n + 1 < f[s] /\ g[x] = f[s]
      BY <2>1, <3>3, <1>0, <1>1
    <3> QED BY <3>1, <3>2, <3>3, <1>6
  <2>2. (\E x \in DOMAIN f : x <= m /\ m < f[x]) /\ m # n
          => \E x \in DOMAIN g : x <= m /\ m < g[x]
    <3> SUFFICES ASSUME NEW x \in DOMAIN f, x <= m, m < f[x], m # n
                 PROVE  \E y \in DOMAIN g : y <= m /\ m < g[y]
      OBVIOUS
    <3>1. CASE x # s
      <4>1. x # n + 1 /\ x \in DOMAIN g /\ g[x] = f[x]
        BY <3>1, <1>1, <1>3, <1>5 DEF f, g
      <4> QED BY <4>1
    <3>2. CASE x = s /\ m < n
      <4>1. s \in DOMAIN g /\ g[s] = n
        BY <3>2, <1>1, <1>3 DEF f, g
      <4> QED BY <3>2, <4>1
    <3>3. CASE x = s /\ n < m
      <4>1. n + 1 \in DOMAIN g /\ g[n + 1] = f[s]
        BY <3>3, <1>1, <1>3 DEF f, g
      <4> QED BY <3>3, <4>1
    <3>4. m < n \/ n < m
      OBVIOUS
    <3> QED BY <3>1, <3>2, <3>3, <3>4
  <2> QED BY <2>1, <2>2, <1>0, <1>7, CoveredMember
<1>9. n \in Covered(f)
  BY <1>0, CoveredMember
<1>10. Covered(g) \subseteq Nat /\ Covered(f) \subseteq Nat
  BY <1>0, <1>7, CoveredMember
<1> QED BY <1>7, <1>8, <1>9, <1>10 DEF f, g

\* The first range is cut at its start.
LEMMA AllocOneCuts ==
  ASSUME NEW r, Ranges(r.free), NEW s \in DOMAIN r.free, r.count \in Int
  PROVE  AllocOne(r, s) = Cut(r, s, s)
<1>1. s \in Nat /\ r.free[s] \in Nat
  BY DEF Ranges
<1>2. Put(Drop(r.free, s), s, s) = Drop(r.free, s)
  BY <1>1 DEF Put
<1>3. r.count - (r.free[s] - s) + (s - s) + (r.free[s] - s - 1) = r.count - 1
  BY <1>1
<1> QED BY <1>2, <1>3 DEF AllocOne, Cut

\* A serial that is not free joins its neighbours.
LEMMA FreeOneFrees ==
  ASSUME NEW r, Ranges(r.free), NEW n \in Nat, n \notin Covered(r.free), r.count \in Int
  PROVE  /\ Ranges(FreeOne(r, n).free)
         /\ Covered(FreeOne(r, n).free) = Covered(r.free) \cup {n}
         /\ FreeOne(r, n).count = r.count + 1
<1> DEFINE f == r.free
           h == Drop(f, n + 1)
           s == StartFor(h, n)
           e == EndFrom(f, n)
           g == FreeOne(r, n).free
<1>1. Ranges(f) /\ \A x \in DOMAIN f : x \in Nat /\ f[x] \in Nat /\ x < f[x] /\ ~ (x <= n /\ n < f[x])
  BY CoveredMember DEF Ranges
<1>2. /\ DOMAIN h = DOMAIN f \ {n + 1}
      /\ \A x \in DOMAIN h : h[x] = f[x]
  BY DEF Drop
<1>3. \/ n + 1 \in DOMAIN f /\ e = f[n + 1]
      \/ n + 1 \notin DOMAIN f /\ e = n + 1
  BY DEF EndFrom
<1>4. \/ s \in DOMAIN h /\ s < n /\ f[s] = n
      \/ s = n /\ \A x \in DOMAIN f : f[x] # n
  <2>1. CASE \E x \in DOMAIN h : IsFloor(h, n, x) /\ h[x] = n
    <3>1. PICK x \in DOMAIN h : IsFloor(h, n, x) /\ h[x] = n
      BY <2>1
    <3>2. \A y \in DOMAIN h : IsFloor(h, n, y) => y = x
      BY <3>1, <1>1, <1>2 DEF IsFloor
    <3>3. s = x
      BY <3>1, <3>2 DEF StartFor
    <3> QED BY <3>1, <3>3, <1>1, <1>2
  <2>2. CASE ~ \E x \in DOMAIN h : IsFloor(h, n, x) /\ h[x] = n
    <3>1. s = n
      BY <2>2 DEF StartFor
    <3>2. ASSUME NEW x \in DOMAIN f, f[x] = n
          PROVE  FALSE
      <4>1. x \in DOMAIN h /\ h[x] = n /\ x <= n
        BY <3>2, <1>1, <1>2
      <4>2. \A y \in DOMAIN h : y <= n => y <= x
        BY <3>2, <1>1, <1>2, <4>1 DEF Ranges
      <4> QED BY <2>2, <4>1, <4>2 DEF IsFloor
    <3> QED BY <3>1, <3>2
  <2> QED BY <2>1, <2>2
<1>5. s \in Nat /\ e \in Nat /\ s <= n /\ n < e
  BY <1>1, <1>2, <1>3, <1>4
<1>6. g = Put(Drop(h, s), s, e)
  BY DEF FreeOne, Joined
<1>7. /\ DOMAIN g = (DOMAIN f \ {n + 1}) \cup {s}
      /\ g[s] = e
      /\ \A x \in DOMAIN g \ {s} : x \in DOMAIN f /\ x # n + 1 /\ g[x] = f[x]
  BY <1>2, <1>5, <1>6 DEF Put, Drop
<1>8. FreeOne(r, n).count = r.count + 1
  BY <1>5 DEF FreeOne, Joined
<1> HIDE DEF f, h, s, e, g
\* What lies before s ends before s, and what lies behind n starts behind e.
<1>9. \A x \in DOMAIN g \ {s} : \/ x < s /\ f[x] < s
                               \/ e < x
  <2> SUFFICES ASSUME NEW x \in DOMAIN g \ {s}
               PROVE  (x < s /\ f[x] < s) \/ e < x
    OBVIOUS
  <2>0. x \in DOMAIN f /\ x # n + 1 /\ x # n /\ x \in Nat /\ f[x] \in Nat /\ x < f[x]
    <3>1. x \in DOMAIN f /\ x # n + 1
      BY <1>7
    <3> QED BY <3>1, <1>1
  <2>1. CASE x <= n
    <3>1. f[x] <= n /\ x < n
      BY <2>0, <2>1, <1>1
    <3>2. CASE s = n
      BY <3>1, <3>2, <1>4, <1>5, <2>0
    <3>3. CASE s < n /\ s \in DOMAIN f /\ f[s] = n
      <4>1. x < s
        <5>1. ~ s < x
          BY <2>0, <2>1, <3>3, <3>1, <1>1 DEF Ranges
        <5> QED BY <5>1, <2>0, <1>5
      <4>2. f[x] < s
        BY <4>1, <2>0, <3>3, <1>1 DEF Ranges
      <4> QED BY <4>1, <4>2
    <3> QED BY <3>2, <3>3, <1>2, <1>4
  <2>2. CASE n < x
    <3>1. CASE n + 1 \in DOMAIN f /\ e = f[n + 1]
      <4>1. n + 1 < x
        BY <2>0, <2>2
      <4> QED BY <4>1, <3>1, <2>0, <1>1 DEF Ranges
    <3>2. CASE e = n + 1
      BY <2>0, <2>2, <3>2
    <3> QED BY <3>1, <3>2, <1>3
  <2> QED BY <2>0, <2>1, <2>2
<1>10. \A x \in DOMAIN g \ {s} : x \in Nat /\ f[x] \in Nat /\ x < f[x] /\ g[x] = f[x] /\ x \in DOMAIN f
  BY <1>1, <1>7
<1>11. s \in DOMAIN g /\ g[s] = e
  BY <1>7
<1>12. Ranges(g)
  <2>1. \A x \in DOMAIN g : x \in Nat /\ g[x] \in Nat /\ x < g[x]
    BY <1>5, <1>10, <1>11
  <2>2. ASSUME NEW x \in DOMAIN g, NEW y \in DOMAIN g, x < y
        PROVE  g[x] < y
    <3>1. CASE x # s /\ y # s
      <4>1. x \in DOMAIN f /\ y \in DOMAIN f /\ g[x] = f[x]
        BY <3>1, <1>10
      <4> QED BY <4>1, <2>2, <1>1 DEF Ranges
    <3>2. CASE x = s
      BY <3>2, <2>2, <1>5, <1>9, <1>10, <1>11
    <3>3. CASE y = s
      BY <3>3, <2>2, <1>5, <1>9, <1>10, <1>11
    <3> QED BY <3>1, <3>2, <3>3
  <2> QED BY <2>1, <2>2 DEF Ranges
<1>13. ASSUME NEW m \in Nat
       PROVE  m \in Covered(g) <=> m \in Covered(f) \/ m = n
  <2>1. ASSUME NEW x \in DOMAIN g, x <= m, m < g[x]
        PROVE  m = n \/ \E y \in DOMAIN f : y <= m /\ m < f[y]
    <3>1. CASE x # s
      BY <2>1, <3>1, <1>10
    <3>2. CASE x = s /\ m < n
      BY <2>1, <3>2, <1>2, <1>4, <1>5
    <3>3. CASE x = s /\ n < m
      BY <2>1, <3>3, <1>3, <1>5, <1>11
    <3>4. m < n \/ m = n \/ n < m
      OBVIOUS
    <3> QED BY <3>1, <3>2, <3>3, <3>4
  <2>2. ASSUME NEW x \in DOMAIN f, x <= m, m < f[x]
        PROVE  \E y \in DOMAIN g : y <= m /\ m < g[y]
    <3>1. CASE x # s /\ x # n + 1
      <4>1. x \in DOMAIN g /\ g[x] = f[x]
        BY <3>1, <1>7
      <4> QED BY <4>1, <2>2
    <3>2. CASE x = s
      BY <2>2, <3>2, <1>1, <1>2, <1>4, <1>5, <1>11
    <3>3. CASE x = n + 1
      BY <2>2, <3>3, <1>3, <1>5, <1>11
    <3> QED BY <3>1, <3>2, <3>3
  <2>3. \E y \in DOMAIN g : y <= n /\ n < g[y]
    BY <1>5, <1>11
  <2> QED BY <2>1, <2>2, <2>3, <1>1, <1>12, CoveredMember
<1>14. Covered(g) \subseteq Nat /\ Covered(f) \subseteq Nat
  BY <1>1, <1>12, CoveredMember
<1> QED BY <1>8, <1>12, <1>13, <1>14 DEF f, g
-----------------------------------------------------------------------------
(* The length of the free ranges *)

LEMMA CutWellFormed ==
  ASSUME NEW r, WellFormed(r), NEW n \in Nat, NEW s \in DOMAIN r.free, s <= n, n < r.free[s]
  PROVE  /\ WellFormed(Cut(r, n, s))
         /\ Covered(Cut(r, n, s).free) = Covered(r.free) \ {n}
         /\ n \in Covered(r.free)
<1>1. Ranges(r.free) /\ IsFiniteSet(Covered(r.free)) /\ r.count = Cardinality(Covered(r.free))
  BY DEF WellFormed, Ranges
<1>2. /\ Ranges(Cut(r, n, s).free)
      /\ Covered(Cut(r, n, s).free) = Covered(r.free) \ {n}
      /\ n \in Covered(r.free)
  BY <1>1, CutFree
<1>3. s \in Nat /\ r.free[s] \in Nat /\ r.count \in Nat
  BY <1>1, FS_CardinalityType DEF Ranges
<1>4. Cut(r, n, s).count = r.count - 1
  BY <1>3 DEF Cut
<1>5. /\ IsFiniteSet(Covered(r.free) \ {n})
      /\ Cardinality(Covered(r.free) \ {n}) = Cardinality(Covered(r.free)) - 1
  BY <1>1, <1>2, FS_RemoveElement
<1> QED BY <1>1, <1>2, <1>4, <1>5 DEF WellFormed, Ranges

LEMMA MarkWellFormed ==
  ASSUME NEW r, WellFormed(r), NEW n \in Nat
  PROVE  /\ WellFormed(MarkOccupied(r, n))
         /\ Covered(MarkOccupied(r, n).free) = Covered(r.free) \ {n}
<1>1. Ranges(r.free)
  BY DEF WellFormed, Ranges
<1>2. CASE \E s \in DOMAIN r.free : IsFloor(r.free, n, s) /\ n < r.free[s]
  <2>1. PICK s \in DOMAIN r.free : IsFloor(r.free, n, s) /\ n < r.free[s]
    BY <1>2
  <2>2. \A t \in DOMAIN r.free : IsFloor(r.free, n, t) => t = s
    BY <2>1, <1>1 DEF IsFloor, Ranges
  <2>3. (CHOOSE t \in DOMAIN r.free : IsFloor(r.free, n, t)) = s
    BY <2>1, <2>2
  <2>4. MarkOccupied(r, n) = Cut(r, n, s)
    BY <1>2, <2>3 DEF MarkOccupied
  <2>5. s <= n
    BY <2>1 DEF IsFloor
  <2> QED BY <2>1, <2>4, <2>5, CutWellFormed
<1>3. CASE ~ \E s \in DOMAIN r.free : IsFloor(r.free, n, s) /\ n < r.free[s]
  <2>1. n \notin Covered(r.free)
    <3>1. ASSUME NEW s \in DOMAIN r.free, s <= n, n < r.free[s]
          PROVE  FALSE
      <4>1. \A t \in DOMAIN r.free : t <= n => t <= s
        BY <1>1, <3>1 DEF Ranges
      <4> QED BY <4>1, <3>1, <1>3 DEF IsFloor
    <3> QED BY <3>1, <1>1, CoveredMember
  <2>2. MarkOccupied(r, n) = r
    BY <1>3 DEF MarkOccupied
  <2> QED BY <2>1, <2>2
<1> QED BY <1>2, <1>3

LEMMA FreeWellFormed ==
  ASSUME NEW r, WellFormed(r), NEW n \in Nat, n \notin Covered(r.free)
  PROVE  /\ WellFormed(FreeOne(r, n))
         /\ Covered(FreeOne(r, n).free) = Covered(r.free) \cup {n}
<1>1. /\ Ranges(r.free) /\ IsFiniteSet(Covered(r.free)) /\ r.count = Cardinality(Covered(r.free))
      /\ r.count \in Int
  BY FS_CardinalityType DEF WellFormed, Ranges
<1>2. /\ Ranges(FreeOne(r, n).free)
      /\ Covered(FreeOne(r, n).free) = Covered(r.free) \cup {n}
      /\ FreeOne(r, n).count = r.count + 1
  BY <1>1, FreeOneFrees
<1>3. /\ IsFiniteSet(Covered(r.free) \cup {n})
      /\ Cardinality(Covered(r.free) \cup {n}) = Cardinality(Covered(r.free)) + 1
  BY <1>1, FS_AddElement
<1> QED BY <1>1, <1>2, <1>3 DEF WellFormed, Ranges

LEMMA WholeWellFormed ==
  ASSUME NEW lo \in Nat, NEW hi \in Nat, lo < hi
  PROVE  WellFormed(Whole(lo, hi)) /\ Covered(Whole(lo, hi).free) = lo .. hi - 1
<1>1. Covered(Whole(lo, hi).free) = lo .. hi - 1
  BY DEF Covered, Whole
<1>2. IsFiniteSet(lo .. hi - 1) /\ Cardinality(lo .. hi - 1) = hi - lo
  BY FS_Interval
<1> QED BY <1>1, <1>2 DEF WellFormed, Whole

-----------------------------------------------------------------------------
(* The pool of both kinds *)

AvailableOf(p) == UNION {Covered(p[k].free) : k \in Kinds}

LEMMA KindOfItsRange ==
  ASSUME NEW k \in Kinds, NEW n \in First[k] .. Last[k] - 1
  PROVE  n \in AllSerials /\ n \in Nat /\ KindOf(n) = k
<1>1. First[k] \in Nat /\ Last[k] \in Nat /\ First["item"] \in Nat /\ Last["mobile"] \in Nat
      /\ Last["mobile"] < First["item"]
  BY SerialsAssumption DEF Kinds
<1>2. n \in AllSerials /\ n \in Nat /\ First[k] <= n /\ n < Last[k]
  BY <1>1 DEF AllSerials
<1>3. CASE k = "mobile"
  BY <1>1, <1>2, <1>3 DEF KindOf
<1>4. CASE k = "item"
  BY <1>1, <1>2, <1>4 DEF KindOf
<1> QED BY <1>2, <1>3, <1>4 DEF Kinds

LEMMA SerialInItsRange ==
  ASSUME NEW n \in AllSerials
  PROVE  n \in Nat /\ KindOf(n) \in Kinds /\ n \in First[KindOf(n)] .. Last[KindOf(n)] - 1
<1>1. PICK k \in Kinds : n \in First[k] .. Last[k] - 1
  BY DEF AllSerials
<1> QED BY <1>1, KindOfItsRange

\* A change of one kind's ranges changes what is available as it changes them.
LEMMA PoolTake ==
  ASSUME NEW p, p = [k \in Kinds |-> p[k]], Bounded(p), NEW n \in AllSerials, NEW q,
         WellFormed(q), Covered(q.free) = Covered(p[KindOf(n)].free) \ {n}
  PROVE  /\ Bounded([p EXCEPT ![KindOf(n)] = q])
         /\ AvailableOf([p EXCEPT ![KindOf(n)] = q]) = AvailableOf(p) \ {n}
<1> DEFINE k == KindOf(n)
           new == [p EXCEPT ![KindOf(n)] = q]
<1>1. k \in Kinds
  BY SerialInItsRange
<1>2. new[k] = q /\ \A j \in Kinds \ {k} : new[j] = p[j]
  BY <1>1
<1> HIDE DEF new, k
<1>3. Bounded(new)
  <2> SUFFICES ASSUME NEW j \in Kinds
               PROVE  WellFormed(new[j]) /\ Covered(new[j].free) \subseteq First[j] .. Last[j] - 1
    BY DEF Bounded
  <2>1. WellFormed(p[j]) /\ Covered(p[j].free) \subseteq First[j] .. Last[j] - 1
    BY DEF Bounded
  <2>2. CASE j = k
    BY <2>1, <2>2, <1>2 DEF k
  <2>3. CASE j # k
    BY <2>1, <2>3, <1>2
  <2> QED BY <2>2, <2>3
<1>4. \A j \in Kinds \ {k} : n \notin Covered(p[j].free)
  BY KindOfItsRange DEF Bounded, k
<1>5. \A m : m \in AvailableOf(new) <=> m \in AvailableOf(p) /\ m # n
  <2> SUFFICES ASSUME NEW m
               PROVE  m \in AvailableOf(new) <=> m \in AvailableOf(p) /\ m # n
    OBVIOUS
  <2>1. \A j \in Kinds : m \in Covered(new[j].free) <=> m \in Covered(p[j].free) /\ m # n
    BY <1>1, <1>2, <1>4 DEF k
  <2> QED BY <2>1 DEF AvailableOf
<1> QED BY <1>3, <1>5 DEF new

LEMMA PoolGive ==
  ASSUME NEW p, p = [k \in Kinds |-> p[k]], Bounded(p), NEW n \in AllSerials, NEW q,
         WellFormed(q), Covered(q.free) = Covered(p[KindOf(n)].free) \cup {n}
  PROVE  /\ Bounded([p EXCEPT ![KindOf(n)] = q])
         /\ AvailableOf([p EXCEPT ![KindOf(n)] = q]) = AvailableOf(p) \cup {n}
<1> DEFINE k == KindOf(n)
           new == [p EXCEPT ![KindOf(n)] = q]
<1>1. k \in Kinds /\ n \in First[k] .. Last[k] - 1
  BY SerialInItsRange
<1>2. new[k] = q /\ \A j \in Kinds \ {k} : new[j] = p[j]
  BY <1>1
<1> HIDE DEF new, k
<1>3. Bounded(new)
  <2> SUFFICES ASSUME NEW j \in Kinds
               PROVE  WellFormed(new[j]) /\ Covered(new[j].free) \subseteq First[j] .. Last[j] - 1
    BY DEF Bounded
  <2>1. WellFormed(p[j]) /\ Covered(p[j].free) \subseteq First[j] .. Last[j] - 1
    BY DEF Bounded
  <2>2. CASE j = k
    BY <2>1, <2>2, <1>1, <1>2 DEF k
  <2>3. CASE j # k
    BY <2>1, <2>3, <1>2
  <2> QED BY <2>2, <2>3
<1>5. \A m : m \in AvailableOf(new) <=> m \in AvailableOf(p) \/ m = n
  <2> SUFFICES ASSUME NEW m
               PROVE  m \in AvailableOf(new) <=> m \in AvailableOf(p) \/ m = n
    OBVIOUS
  <2>1. \A j \in Kinds \ {k} : m \in Covered(new[j].free) <=> m \in Covered(p[j].free)
    BY <1>2
  <2>2. m \in Covered(new[k].free) <=> m \in Covered(p[k].free) \/ m = n
    BY <1>2 DEF k
  <2> QED BY <2>1, <2>2, <1>1 DEF AvailableOf
<1> QED BY <1>3, <1>5 DEF new

\* What is available of a kind lies in its range.
LEMMA AvailableByKind ==
  ASSUME NEW p, Bounded(p)
  PROVE  /\ AvailableOf(p) \subseteq AllSerials
         /\ \A n \in AvailableOf(p) : n \in Covered(p[KindOf(n)].free)
         /\ \A n \in AllSerials : n \in Covered(p[KindOf(n)].free) => n \in AvailableOf(p)
<1>1. ASSUME NEW n \in AvailableOf(p)
      PROVE  n \in AllSerials /\ n \in Covered(p[KindOf(n)].free)
  <2>1. PICK k \in Kinds : n \in Covered(p[k].free)
    BY DEF AvailableOf
  <2> QED BY <2>1, KindOfItsRange DEF Bounded
<1> QED BY <1>1, SerialInItsRange DEF AvailableOf
-----------------------------------------------------------------------------
(* The names in a log *)

LEMMA NamesAppend ==
  ASSUME NEW S, NEW q \in Seq(S), NEW n \in S
  PROVE  /\ Names(Append(q, n)) = Names(q) \cup {n}
         /\ Distinct(q) /\ n \notin Names(q) => Distinct(Append(q, n))
<1>1. /\ Append(q, n) \in Seq(S) /\ Len(Append(q, n)) = Len(q) + 1
      /\ \A i \in 1 .. Len(q) : Append(q, n)[i] = q[i]
      /\ Append(q, n)[Len(q) + 1] = n
  BY AppendProperties
<1>2. DOMAIN q = 1 .. Len(q) /\ DOMAIN Append(q, n) = 1 .. Len(q) + 1 /\ Len(q) \in Nat
  BY <1>1, LenProperties
<1> DEFINE new == Append(q, n)
<1> HIDE DEF new
<1>3. \A i \in DOMAIN new : \/ i \in DOMAIN q /\ new[i] = q[i]
                            \/ i = Len(q) + 1 /\ new[i] = n
  BY <1>1, <1>2 DEF new
<1>4. Names(new) = Names(q) \cup {n}
  <2>1. Names(new) \subseteq Names(q) \cup {n}
    BY <1>3 DEF Names
  <2>2. Names(q) \subseteq Names(new) /\ n \in Names(new)
    BY <1>1, <1>2 DEF Names, new
  <2> QED BY <2>1, <2>2
<1>5. ASSUME Distinct(q), n \notin Names(q), NEW i \in DOMAIN new, NEW j \in DOMAIN new, new[i] = new[j]
      PROVE  i = j
  BY <1>3, <1>5 DEF Distinct, Names
<1> QED BY <1>4, <1>5 DEF Distinct, new

LEMMA NamesTail ==
  ASSUME NEW S, NEW q \in Seq(S), q # <<>>, Distinct(q)
  PROVE  /\ Tail(q) \in Seq(S) /\ Head(q) \in S
         /\ Distinct(Tail(q)) /\ Names(Tail(q)) \subseteq Names(q)
         /\ Head(q) \in Names(q) /\ Head(q) \notin Names(Tail(q))
<1>1. /\ Tail(q) \in Seq(S) /\ Head(q) \in S /\ Head(q) = q[1] /\ Len(Tail(q)) = Len(q) - 1
      /\ \A i \in 1 .. Len(Tail(q)) : Tail(q)[i] = q[i + 1]
  BY HeadTailProperties
<1>2. Len(q) \in Nat /\ Len(q) # 0 /\ DOMAIN q = 1 .. Len(q) /\ DOMAIN Tail(q) = 1 .. Len(q) - 1
  BY <1>1, LenProperties, EmptySeq
<1> DEFINE r == Tail(q)
<1> HIDE DEF r
<1>3. \A i \in DOMAIN r : i + 1 \in DOMAIN q /\ r[i] = q[i + 1] /\ i + 1 # 1 /\ i \in Int
  BY <1>1, <1>2 DEF r
<1>4. 1 \in DOMAIN q
  BY <1>2
<1>5. Distinct(r)
  <2>1. ASSUME NEW i \in DOMAIN r, NEW j \in DOMAIN r, r[i] = r[j]
        PROVE  i = j
    <3>1. i + 1 = j + 1
      BY <2>1, <1>3 DEF Distinct
    <3> QED BY <3>1, <1>3
  <2> QED BY <2>1 DEF Distinct
<1>6. Names(r) \subseteq Names(q) /\ q[1] \in Names(q)
  BY <1>3, <1>4 DEF Names
<1>7. q[1] \notin Names(r)
  BY <1>3, <1>4 DEF Names, Distinct
<1> QED BY <1>1, <1>5, <1>6, <1>7 DEF r

LEMMA NamesSplit ==
  ASSUME NEW S, NEW q \in Seq(S), Distinct(q), NEW k \in Nat, k <= Len(q)
  PROVE  /\ SubSeq(q, 1, k) \in Seq(S) /\ SubSeq(q, k + 1, Len(q)) \in Seq(S)
         /\ Distinct(SubSeq(q, 1, k)) /\ Distinct(SubSeq(q, k + 1, Len(q)))
         /\ Names(SubSeq(q, 1, k)) \cap Names(SubSeq(q, k + 1, Len(q))) = {}
         /\ Names(SubSeq(q, 1, k)) \subseteq Names(q)
         /\ Names(SubSeq(q, k + 1, Len(q))) \subseteq Names(q)
<1> DEFINE a == SubSeq(q, 1, k)
           b == SubSeq(q, k + 1, Len(q))
<1>1. Len(q) \in Nat /\ DOMAIN q = 1 .. Len(q) /\ \A i \in 1 .. Len(q) : q[i] \in S
  BY LenProperties, ElementOfSeq
<1>2. a = [i \in 1 .. k |-> q[i]]
  BY <1>1 DEF SubSeq
<1>3. b = [i \in 1 .. Len(q) - k |-> q[i + k]]
  <2>1. Len(q) - (k + 1) + 1 = Len(q) - k /\ \A i \in 1 .. Len(q) - k : i + (k + 1) - 1 = i + k
    BY <1>1
  <2> QED BY <2>1 DEF SubSeq
<1>4. a \in Seq(S)
  BY <1>1, <1>2, SeqDef
<1>5. b \in Seq(S)
  <2>1. Len(q) - k \in Nat /\ \A i \in 1 .. Len(q) - k : q[i + k] \in S
    BY <1>1
  <2> QED BY <2>1, <1>3, SeqDef
<1> HIDE DEF a, b
<1>6. \A i \in DOMAIN a : i \in DOMAIN q /\ a[i] = q[i] /\ i \in Int /\ i <= k
  BY <1>1, <1>2
<1>7. \A i \in DOMAIN b : i + k \in DOMAIN q /\ b[i] = q[i + k] /\ i \in Int /\ i + k > k
  BY <1>1, <1>3
<1>8. Distinct(a)
  BY <1>6 DEF Distinct
<1>9. Distinct(b)
  <2>1. ASSUME NEW i \in DOMAIN b, NEW j \in DOMAIN b, b[i] = b[j]
        PROVE  i = j
    <3>1. i + k = j + k
      BY <2>1, <1>7 DEF Distinct
    <3> QED BY <3>1, <1>7
  <2> QED BY <2>1 DEF Distinct
<1>10. Names(a) \cap Names(b) = {}
  <2>1. ASSUME NEW i \in DOMAIN a, NEW j \in DOMAIN b, a[i] = b[j]
        PROVE  FALSE
    <3>1. i = j + k
      BY <2>1, <1>6, <1>7 DEF Distinct
    <3> QED BY <3>1, <1>6, <1>7
  <2> QED BY <2>1 DEF Names
<1>11. Names(a) \subseteq Names(q) /\ Names(b) \subseteq Names(q)
  BY <1>6, <1>7 DEF Names
<1> QED BY <1>4, <1>5, <1>8, <1>9, <1>10, <1>11 DEF a, b

-----------------------------------------------------------------------------
(* The invariant *)

Managers == [stage : Stages, since : Nat, todo : Seq(AllSerials), freed : Seq(AllSerials)]

IInv ==
  /\ pool = [k \in Kinds |-> pool[k]]
  /\ log \in Seq(AllSerials)
  /\ manager \in Managers
  /\ manager.stage # "freeing" => manager.todo = <<>>
  /\ Sound

LEMMA AvailableIsOfPool == Available = AvailableOf(pool)
BY DEF Available, AvailableOf

LEMMA InitSound == Init => IInv
<1> SUFFICES ASSUME Init PROVE IInv
  OBVIOUS
<1>1. pool = [k \in Kinds |-> pool[k]] /\ \A k \in Kinds : pool[k] = Whole(First[k], Last[k])
  BY DEF Init
<1>2. log = <<>> /\ manager = [stage |-> "stopped", since |-> 0, todo |-> <<>>, freed |-> <<>>]
  BY DEF Init
<1>3. Bounded(pool)
  <2> SUFFICES ASSUME NEW k \in Kinds
               PROVE  WellFormed(pool[k]) /\ Covered(pool[k].free) \subseteq First[k] .. Last[k] - 1
    BY DEF Bounded
  <2>1. First[k] \in Nat /\ Last[k] \in Nat /\ First[k] < Last[k]
    BY SerialsAssumption
  <2> QED BY <2>1, <1>1, WholeWellFormed
<1>4. <<>> \in Seq(AllSerials) /\ Distinct(<<>>) /\ Names(<<>>) = {}
  BY EmptySeq DEF Distinct, Names
<1>5. manager \in Managers /\ manager.todo = <<>>
  BY <1>2, <1>4 DEF Managers, Stages
<1>6. LogSound
  BY <1>2, <1>4 DEF LogSound
<1> QED BY <1>1, <1>2, <1>3, <1>4, <1>5, <1>6 DEF IInv, Sound

\* A serial that is handed out is taken from the pool, and logged.
LEMMA AllocStep ==
  ASSUME IInv, NEW k \in Kinds, NEW by, NEW z, Alloc(k, by, z)
  PROVE  IInv' /\ \E n \in AllSerials : Pool!Take(n)
<1>1. PICK n \in DOMAIN pool[k].free :
        /\ IsFirst(pool[k].free, n)
        /\ pool' = [pool EXCEPT ![k] = AllocOne(pool[k], n)]
        /\ log' = Append(log, n)
  BY DEF Alloc
<1>2. /\ pool = [j \in Kinds |-> pool[j]] /\ Bounded(pool) /\ LogSound /\ log \in Seq(AllSerials)
      /\ manager \in Managers /\ manager' = manager
      /\ WellFormed(pool[k]) /\ Covered(pool[k].free) \subseteq First[k] .. Last[k] - 1
  BY DEF IInv, Sound, Alloc, Bounded
<1>3. /\ Ranges(pool[k].free) /\ pool[k].count \in Int /\ n \in Nat /\ pool[k].free[n] \in Nat
      /\ n < pool[k].free[n]
  BY <1>2, FS_CardinalityType DEF WellFormed, Ranges
<1>4. AllocOne(pool[k], n) = Cut(pool[k], n, n)
  BY <1>3, AllocOneCuts
<1>5. /\ WellFormed(AllocOne(pool[k], n))
      /\ Covered(AllocOne(pool[k], n).free) = Covered(pool[k].free) \ {n}
      /\ n \in Covered(pool[k].free)
  BY <1>2, <1>3, <1>4, CutWellFormed
<1>6. n \in AllSerials /\ KindOf(n) = k
  BY <1>2, <1>5, KindOfItsRange
<1>7. Bounded(pool') /\ Available' = Available \ {n}
  <2>1. /\ Bounded([pool EXCEPT ![KindOf(n)] = AllocOne(pool[k], n)])
        /\ AvailableOf([pool EXCEPT ![KindOf(n)] = AllocOne(pool[k], n)]) = AvailableOf(pool) \ {n}
    BY <1>2, <1>5, <1>6, PoolTake
  <2>2. Available' = AvailableOf(pool')
    BY DEF Available, AvailableOf
  <2> QED BY <1>1, <1>6, <2>1, <2>2, AvailableIsOfPool
<1>8. n \in Available
  BY <1>2, <1>5, <1>6, AvailableByKind, AvailableIsOfPool
<1>9. /\ log' \in Seq(AllSerials) /\ Len(log') = Len(log) + 1
      /\ Names(log') = Names(log) \cup {n} /\ Distinct(log')
  BY <1>1, <1>2, <1>6, <1>8, NamesAppend, AppendProperties DEF LogSound
<1>10. LogSound'
  BY <1>2, <1>7, <1>8, <1>9 DEF LogSound
<1>11. pool' = [j \in Kinds |-> pool'[j]]
  BY <1>1, <1>2
<1>12. manager'.stage # "freeing" => manager'.todo = <<>>
  BY <1>2 DEF IInv
<1>13. \A m \in Available : [x \in AllSerials |-> KindOf(x)][m] = [x \in AllSerials |-> KindOf(x)][n] => n <= m
  <2> SUFFICES ASSUME NEW m \in Available, KindOf(m) = k
               PROVE  n <= m
    BY <1>2, <1>6, AvailableByKind, AvailableIsOfPool
  <2>1. m \in Covered(pool[k].free)
    BY <1>2, AvailableByKind, AvailableIsOfPool
  <2>2. PICK s \in DOMAIN pool[k].free : s <= m /\ m \in Nat
    BY <2>1, <1>3, CoveredMember
  <2>3. n <= s /\ s \in Nat
    BY <1>1, <1>3 DEF IsFirst, Ranges
  <2> QED BY <2>2, <2>3, <1>3
<1>14. Pool!Take(n)
  BY <1>7, <1>8, <1>13 DEF Pool!Take
<1> QED BY <1>2, <1>6, <1>7, <1>9, <1>10, <1>11, <1>12, <1>14 DEF IInv, Sound

\* Marking takes a free serial from the pool, or changes nothing.
LEMMA MarkStep ==
  ASSUME IInv, NEW n \in AllSerials, Mark(n)
  PROVE  IInv' /\ (Pool!Mark(n) \/ Available' = Available)
<1>1. /\ pool' = [pool EXCEPT ![KindOf(n)] = MarkOccupied(pool[KindOf(n)], n)]
      /\ log' = log /\ manager' = manager
  BY DEF Mark
<1>2. /\ pool = [j \in Kinds |-> pool[j]] /\ Bounded(pool) /\ LogSound
      /\ KindOf(n) \in Kinds /\ n \in Nat /\ WellFormed(pool[KindOf(n)])
  BY SerialInItsRange DEF IInv, Sound, Bounded
<1>3. /\ WellFormed(MarkOccupied(pool[KindOf(n)], n))
      /\ Covered(MarkOccupied(pool[KindOf(n)], n).free) = Covered(pool[KindOf(n)].free) \ {n}
  BY <1>2, MarkWellFormed
<1>4. Bounded(pool') /\ Available' = Available \ {n}
  <2>1. /\ Bounded([pool EXCEPT ![KindOf(n)] = MarkOccupied(pool[KindOf(n)], n)])
        /\ AvailableOf([pool EXCEPT ![KindOf(n)] = MarkOccupied(pool[KindOf(n)], n)]) = AvailableOf(pool) \ {n}
    BY <1>2, <1>3, PoolTake
  <2>2. Available' = AvailableOf(pool')
    BY DEF Available, AvailableOf
  <2> QED BY <1>1, <2>1, <2>2, AvailableIsOfPool
<1>5. LogSound'
  BY <1>1, <1>2, <1>4 DEF LogSound
<1>6. pool' = [j \in Kinds |-> pool'[j]]
  BY <1>1, <1>2
<1> QED BY <1>1, <1>4, <1>5, <1>6 DEF IInv, Sound, Pool!Mark

\* What the cleanup frees was in use.
LEMMA FreeStep ==
  ASSUME IInv, FreeNext
  PROVE  IInv' /\ (Available' = Available \/ \E n \in AllSerials : Pool!Give(n))
<1> DEFINE n == Head(manager.todo)
<1>1. /\ pool = [j \in Kinds |-> pool[j]] /\ Bounded(pool) /\ LogSound /\ log \in Seq(AllSerials)
      /\ manager \in Managers /\ manager.stage = "freeing" /\ manager.todo # <<>>
  BY DEF IInv, Sound, FreeNext
<1>2. /\ Tail(manager.todo) \in Seq(AllSerials) /\ n \in AllSerials /\ Distinct(Tail(manager.todo))
      /\ Names(Tail(manager.todo)) \subseteq Names(manager.todo)
      /\ n \in Names(manager.todo) /\ n \notin Names(Tail(manager.todo))
  BY <1>1, NamesTail DEF LogSound, Managers
<1>3. n \notin Names(log) /\ n \notin Available
  BY <1>1, <1>2 DEF LogSound
<1> HIDE DEF n
<1>4. CASE n \in persistent
  <2>1. log' = Append(log, n) /\ pool' = pool /\ manager' = [manager EXCEPT !.todo = Tail(@)]
    BY <1>4 DEF FreeNext, n
  <2>2. manager' \in Managers /\ manager'.todo = Tail(manager.todo) /\ manager'.stage = "freeing"
    BY <2>1, <1>1, <1>2 DEF Managers
  <2>3. log' \in Seq(AllSerials) /\ Names(log') = Names(log) \cup {n} /\ Distinct(log')
    BY <2>1, <1>1, <1>2, <1>3, NamesAppend, AppendProperties DEF LogSound
  <2>4. Available' = Available
    BY <2>1 DEF Available
  <2>5. LogSound'
    BY <1>1, <1>2, <1>3, <2>2, <2>3, <2>4 DEF LogSound
  <2> QED BY <2>1, <2>2, <2>3, <2>4, <2>5, <1>1 DEF IInv, Sound
<1>5. CASE n \notin persistent
  <2>1. /\ log' = log /\ pool' = [pool EXCEPT ![KindOf(n)] = FreeOne(pool[KindOf(n)], n)]
        /\ manager' = [manager EXCEPT !.todo = Tail(@), !.freed = Append(@, n)]
    BY <1>5 DEF FreeNext, n
  <2>2. /\ manager' \in Managers /\ manager'.todo = Tail(manager.todo) /\ manager'.stage = "freeing"
    <3>1. Append(manager.freed, n) \in Seq(AllSerials)
      BY <1>1, <1>2, AppendProperties DEF Managers
    <3> QED BY <2>1, <3>1, <1>1, <1>2 DEF Managers
  <2>3. /\ KindOf(n) \in Kinds /\ n \in Nat /\ WellFormed(pool[KindOf(n)])
        /\ n \notin Covered(pool[KindOf(n)].free)
    BY <1>1, <1>2, <1>3, SerialInItsRange, AvailableByKind, AvailableIsOfPool DEF Bounded
  <2>4. /\ WellFormed(FreeOne(pool[KindOf(n)], n))
        /\ Covered(FreeOne(pool[KindOf(n)], n).free) = Covered(pool[KindOf(n)].free) \cup {n}
    BY <2>3, FreeWellFormed
  <2>5. Bounded(pool') /\ Available' = Available \cup {n}
    <3>1. /\ Bounded([pool EXCEPT ![KindOf(n)] = FreeOne(pool[KindOf(n)], n)])
          /\ AvailableOf([pool EXCEPT ![KindOf(n)] = FreeOne(pool[KindOf(n)], n)]) = AvailableOf(pool) \cup {n}
      BY <1>1, <1>2, <2>4, PoolGive
    <3>2. Available' = AvailableOf(pool')
      BY DEF Available, AvailableOf
    <3> QED BY <2>1, <3>1, <3>2, AvailableIsOfPool
  <2>6. LogSound'
    BY <1>1, <1>2, <1>3, <2>1, <2>2, <2>5 DEF LogSound
  <2>7. pool' = [j \in Kinds |-> pool'[j]]
    BY <1>1, <2>1
  <2>8. Pool!Give(n)
    BY <1>2, <1>3, <2>5 DEF Pool!Give
  <2> QED BY <2>1, <2>2, <2>5, <2>6, <2>7, <2>8, <1>1, <1>2 DEF IInv, Sound
<1> QED BY <1>4, <1>5

LEMMA StopStep ==
  ASSUME IInv, StopScript
  PROVE  IInv' /\ Available' = Available
<1>1. /\ pool' = pool /\ log' = SubSeq(log, 1, manager.since)
      /\ manager' = [manager EXCEPT !.stage = "freeing", !.todo = SubSeq(log, manager.since + 1, Len(log))]
      /\ manager.since <= Len(log)
  BY DEF StopScript
<1>2. LogSound /\ log \in Seq(AllSerials) /\ manager \in Managers /\ manager.since \in Nat
  BY DEF IInv, Sound, Managers
<1>3. /\ log' \in Seq(AllSerials) /\ SubSeq(log, manager.since + 1, Len(log)) \in Seq(AllSerials)
      /\ Distinct(log') /\ Distinct(SubSeq(log, manager.since + 1, Len(log)))
      /\ Names(log') \cap Names(SubSeq(log, manager.since + 1, Len(log))) = {}
      /\ Names(log') \subseteq Names(log)
      /\ Names(SubSeq(log, manager.since + 1, Len(log))) \subseteq Names(log)
  BY <1>1, <1>2, NamesSplit DEF LogSound
<1>4. /\ manager' \in Managers /\ manager'.stage = "freeing"
      /\ manager'.todo = SubSeq(log, manager.since + 1, Len(log))
  BY <1>1, <1>2, <1>3 DEF Managers, Stages
<1>5. Available' = Available
  BY <1>1 DEF Available
<1>6. LogSound'
  BY <1>2, <1>3, <1>4, <1>5 DEF LogSound
<1> QED BY <1>1, <1>3, <1>4, <1>5, <1>6 DEF IInv, Sound

\* The other steps of the manager leave the log and the ranges alone.
LEMMA OtherManagerStep ==
  ASSUME IInv, StartScript \/ StopPanics \/ Freed \/ SendRemove \/ Stopped
  PROVE  IInv' /\ Available' = Available
<1>1. pool' = pool /\ log' = log
  BY DEF StartScript, StopPanics, Freed, SendRemove, Stopped, allocator
<1>2. log \in Seq(AllSerials) /\ Len(log) \in Nat /\ manager \in Managers /\ LogSound
  BY LenProperties DEF IInv, Sound
<1>3. /\ manager' \in Managers /\ manager'.todo = manager.todo
      /\ manager'.stage # "freeing" => manager'.todo = <<>>
  <2>0. manager.stage # "freeing" => manager.todo = <<>>
    BY DEF IInv
  <2>1. CASE StartScript
    <3>1. manager' = [stage |-> "running", since |-> Len(log), todo |-> manager.todo, freed |-> manager.freed]
      BY <2>1, <1>2 DEF StartScript, Managers
    <3>2. manager.stage = "stopped"
      BY <2>1 DEF StartScript
    <3> QED BY <2>0, <3>1, <3>2, <1>1, <1>2 DEF Managers, Stages
  <2>5. CASE StopPanics
    BY <2>0, <2>5, <1>2 DEF StopPanics, Managers, Stages
  <2>2. CASE Freed
    BY <2>2, <1>1, <1>2 DEF Freed, Managers, Stages
  <2>3. CASE SendRemove
    <3>1. Tail(manager.freed) \in Seq(AllSerials)
      BY <2>3, <1>2, HeadTailProperties DEF SendRemove, Managers
    <3> QED BY <2>0, <2>3, <3>1, <1>1, <1>2 DEF SendRemove, Managers
  <2>4. CASE Stopped
    BY <2>0, <2>4, <1>1, <1>2 DEF Stopped, Managers, Stages
  <2> QED BY <2>1, <2>2, <2>3, <2>4, <2>5
<1>4. Available' = Available
  BY <1>1 DEF Available
<1>5. LogSound'
  BY <1>1, <1>2, <1>3, <1>4 DEF LogSound
<1> QED BY <1>1, <1>3, <1>4, <1>5 DEF IInv, Sound

\* A reset makes everything available, and forgets who has it.
LEMMA ResetStep ==
  ASSUME IInv, NEW z \in Zones, ResetZone(z)
  PROVE  IInv' /\ Pool!Reset
<1>1. /\ pool' = [k \in Kinds |-> Whole(First[k], Last[k])] /\ log' = <<>> /\ manager' = manager
      /\ manager.stage # "freeing"
  BY DEF ResetZone, Unlocked
<1>2. /\ manager \in Managers /\ manager.todo = <<>>
  BY <1>1 DEF IInv
<1>3. \A k \in Kinds : /\ WellFormed(pool'[k]) /\ Covered(pool'[k].free) = First[k] .. Last[k] - 1
  <2> SUFFICES ASSUME NEW k \in Kinds
               PROVE  WellFormed(pool'[k]) /\ Covered(pool'[k].free) = First[k] .. Last[k] - 1
    OBVIOUS
  <2>1. First[k] \in Nat /\ Last[k] \in Nat /\ First[k] < Last[k]
    BY SerialsAssumption
  <2> QED BY <2>1, <1>1, WholeWellFormed
<1>4. <<>> \in Seq(AllSerials) /\ Distinct(<<>>) /\ Names(<<>>) = {}
  BY EmptySeq DEF Distinct, Names
<1>5. LogSound'
  BY <1>1, <1>2, <1>4 DEF LogSound
<1>6. Pool!Reset
  <2>1. Available' = AllSerials
    BY <1>3 DEF Available, AllSerials
  <2> QED BY <2>1 DEF Pool!Reset
<1>7. Bounded(pool')
  BY <1>3 DEF Bounded
<1>8. pool' = [k \in Kinds |-> pool'[k]]
  BY <1>1
<1> QED BY <1>1, <1>2, <1>4, <1>5, <1>6, <1>7, <1>8 DEF IInv, Sound

LEMMA UntouchedStep ==
  ASSUME IInv, UNCHANGED <<pool, log, manager>>
  PROVE  IInv' /\ Available' = Available
<1>1. Available' = Available
  BY DEF Available
<1>2. LogSound'
  BY <1>1 DEF IInv, Sound, LogSound
<1> QED BY <1>1, <1>2 DEF IInv, Sound

LEMMA NextStep ==
  ASSUME IInv, [Next]_vars
  PROVE  IInv' /\ [Pool!Next]_Available
<1>1. CASE UNCHANGED vars
  BY <1>1, UntouchedStep DEF vars
<1>2. CASE Manager
  BY <1>2, OtherManagerStep, StopStep, FreeStep DEF Manager, Pool!Next
<1>3. CASE Worker
  <2>1. CASE \E n \in AllSerials : Mark(n)
    BY <2>1, MarkStep DEF Pool!Next
  <2>3. CASE \E z \in Zones : ResetZone(z)
    BY <2>3, ResetStep DEF Pool!Next
  <2>2. CASE ~ (\E n \in AllSerials : Mark(n)) /\ ~ \E z \in Zones : ResetZone(z)
    <3>1. UNCHANGED <<pool, log, manager>>
      BY <1>3, <2>2 DEF Worker, Handle, Restored, Keep, Transfer, Save, Restore, allocator
    <3> QED BY <3>1, UntouchedStep
  <2> QED BY <2>1, <2>2, <2>3
<1>4. CASE Users
  <2>1. CASE \E k \in Kinds, by \in Owners, z \in Zones : Alloc(k, by, z)
    BY <2>1, AllocStep DEF Pool!Next
  <2>2. CASE ~ \E k \in Kinds, by \in Owners, z \in Zones : Alloc(k, by, z)
    <3>1. UNCHANGED <<pool, log, manager>>
      BY <1>4, <2>2 DEF Users, Send, Persist, allocator, others
    <3> QED BY <3>1, UntouchedStep
  <2> QED BY <2>1, <2>2
<1> QED BY <1>1, <1>2, <1>3, <1>4 DEF Next

LEMMA InvariantHolds == Spec => []IInv
<1>1. IInv /\ [Next]_vars => IInv'
  BY NextStep
<1> QED BY <1>1, InitSound, PTL DEF Spec

\* The free ranges never overlap or touch and have the length free_count says,
\* and no serial in the log of allocations is free or named twice: free_since
\* gives back what is in use, once.
THEOREM AllocatorSound == Spec => []Sound
<1>1. IInv => Sound
  BY DEF IInv
<1> QED BY <1>1, InvariantHolds, PTL

LEMMA PoolStarts == Init => Pool!Init
<1> SUFFICES ASSUME Init PROVE Available = AllSerials
  BY DEF Pool!Init
<1>1. \A k \in Kinds : Covered(pool[k].free) = First[k] .. Last[k] - 1
  <2> SUFFICES ASSUME NEW k \in Kinds
               PROVE  Covered(pool[k].free) = First[k] .. Last[k] - 1
    OBVIOUS
  <2>1. First[k] \in Nat /\ Last[k] \in Nat /\ First[k] < Last[k] /\ pool[k] = Whole(First[k], Last[k])
    BY SerialsAssumption DEF Init
  <2> QED BY <2>1, WholeWellFormed
<1> QED BY <1>1 DEF Available, AllSerials

\* The allocator implements a set of free serials: it hands out the lowest of
\* the kind asked for, and takes back only what it has handed out.
THEOREM AllocatorImplementsPool == Spec => AllocatorIsPool
<1>1. IInv /\ [Next]_vars => [Pool!Next]_Available
  BY NextStep
<1> QED BY <1>1, InvariantHolds, PoolStarts, PTL DEF Spec, AllocatorIsPool, Pool!Spec

-----------------------------------------------------------------------------
(* Types *)

Commands == [op : {"spawn", "remove"}, of : Wanted]
Cells    == Entity \cup {None}
Worlds   == [Zones -> [AllSerials -> Cells]]
Workers  == [stage : {"serving", "restoring"}, zone : Zones, left : SUBSET AllSerials]

Plain(r) == /\ r = [free |-> r.free, count |-> r.count]
            /\ r.free = [s \in DOMAIN r.free |-> r.free[s]]

TInv ==
  /\ scene \subseteq Acts /\ acts \in 0 .. MaxActs /\ allocs \in 0 .. MaxAllocs
  /\ \A k \in Kinds : Plain(pool[k])
  /\ persistent \subseteq AllSerials
  /\ held \subseteq Wanted /\ queue \in Seq(Commands)
  /\ world \in Worlds /\ saved \in Worlds
  /\ worker \in Workers


LEMMA PlainOps ==
  ASSUME NEW r, Plain(r), NEW n, NEW s
  PROVE  Plain(AllocOne(r, s)) /\ Plain(MarkOccupied(r, n)) /\ Plain(FreeOne(r, n))
<1>1. \A f, a, b : f = [x \in DOMAIN f |-> f[x]] => Put(f, a, b) = [x \in DOMAIN Put(f, a, b) |-> Put(f, a, b)[x]]
  BY DEF Put
<1>2. \A f, a : Drop(f, a) = [x \in DOMAIN Drop(f, a) |-> Drop(f, a)[x]]
  BY DEF Drop
<1>3. \A a : Plain(Cut(r, n, a))
  BY <1>1, <1>2 DEF Plain, Cut
<1>4. Plain(AllocOne(r, s))
  BY <1>1, <1>2 DEF Plain, AllocOne
<1>5. \A a, b : Plain(Joined(r, n, a, b))
  BY <1>1, <1>2 DEF Plain, Joined
<1> QED BY <1>3, <1>4, <1>5 DEF MarkOccupied, FreeOne

\* What Alloc hands out is a free serial of the kind asked for.
LEMMA HandedOut ==
  ASSUME IInv, NEW k \in Kinds, NEW n \in DOMAIN pool[k].free
  PROVE  n \in AllSerials /\ n \in Available /\ KindOf(n) = k
<1>1. /\ Bounded(pool) /\ Ranges(pool[k].free)
      /\ Covered(pool[k].free) \subseteq First[k] .. Last[k] - 1
  BY DEF IInv, Sound, Bounded, WellFormed, Ranges
<1>2. n \in Covered(pool[k].free)
  <2>1. n \in Nat /\ n <= n /\ n < pool[k].free[n]
    BY <1>1 DEF Ranges
  <2> QED BY <2>1, <1>1, CoveredMember
<1>3. n \in AllSerials /\ KindOf(n) = k
  BY <1>1, <1>2, KindOfItsRange
<1> QED BY <1>1, <1>2, <1>3, AvailableByKind, AvailableIsOfPool

LEMMA InitTyped == Init => TInv
<1> SUFFICES ASSUME Init PROVE TInv
  OBVIOUS
<1>1. scene \subseteq Acts /\ acts \in 0 .. MaxActs /\ allocs \in 0 .. MaxAllocs
  BY SerialsAssumption DEF Init
<1>2. \A k \in Kinds : Plain(pool[k])
  BY DEF Init, Plain, Whole
<1>3. <<>> \in Seq(Commands)
  BY EmptySeq
<1>4. Nobody \in [AllSerials -> Cells]
  BY DEF Nobody, Cells
<1>5. world \in Worlds /\ saved \in Worlds
  BY <1>4 DEF Init, Worlds
<1>6. worker \in Workers
  BY SerialsAssumption DEF Init, Workers, Serving
<1> QED BY <1>1, <1>2, <1>3, <1>5, <1>6 DEF Init, TInv

LEMMA UsersTyped ==
  ASSUME IInv, TInv, Users
  PROVE  TInv'
<1>1. ASSUME NEW k \in Kinds, NEW by \in Owners, NEW z \in Zones, Alloc(k, by, z)
      PROVE  TInv'
  <2>1. PICK n \in DOMAIN pool[k].free :
          /\ pool' = [pool EXCEPT ![k] = AllocOne(pool[k], n)]
          /\ held' = held \cup {[serial |-> n, by |-> by, zone |-> z]}
    BY <1>1 DEF Alloc
  <2>2. pool = [j \in Kinds |-> pool[j]]
    BY DEF IInv
  <2>3. \A j \in Kinds : Plain(pool'[j])
    BY <2>1, <2>2, PlainOps DEF TInv
  <2>4. n \in AllSerials
    BY HandedOut
  <2>5. held' \subseteq Wanted
    BY <2>1, <2>4 DEF TInv, Wanted
  <2>6. allocs' \in 0 .. MaxAllocs
    BY <1>1, SerialsAssumption DEF TInv, Alloc
  <2> QED BY <1>1, <2>3, <2>5, <2>6 DEF TInv, Alloc
<1>2. ASSUME NEW h \in held, Send(h)
      PROVE  TInv'
  <2>1. Spawn(h) \in Commands /\ queue \in Seq(Commands)
    BY DEF TInv, Commands, Spawn
  <2>2. queue' \in Seq(Commands)
    BY <2>1, <1>2, AppendProperties DEF Send
  <2> QED BY <1>2, <2>2 DEF TInv, Send, allocator
<1>3. ASSUME NEW n \in AllSerials, Persist(n)
      PROVE  TInv'
  BY <1>3 DEF TInv, Persist, others
<1> QED BY <1>1, <1>2, <1>3 DEF Users

LEMMA ManagerTyped ==
  ASSUME IInv, TInv, Manager
  PROVE  TInv'
<1>1. CASE FreeNext
  <2>1. pool = [j \in Kinds |-> pool[j]]
    BY DEF IInv
  <2>2. pool' = pool \/ \E n : pool' = [pool EXCEPT ![KindOf(n)] = FreeOne(pool[KindOf(n)], n)]
    BY <1>1 DEF FreeNext
  <2>3. \A j \in Kinds : Plain(pool'[j])
    BY <2>1, <2>2, PlainOps DEF TInv
  <2> QED BY <1>1, <2>3 DEF TInv, FreeNext, others
<1>2. CASE SendRemove
  <2>1. manager.freed \in Seq(AllSerials) /\ manager.freed # <<>>
    BY <1>2 DEF IInv, Managers, SendRemove
  <2>2. Head(manager.freed) \in AllSerials
    BY <2>1, HeadTailProperties
  <2>3. Remove(Head(manager.freed)) \in Commands /\ queue \in Seq(Commands)
    BY <2>2, SerialsAssumption DEF TInv, Commands, Remove, Wanted, Owners
  <2>4. queue' \in Seq(Commands)
    BY <2>3, <1>2, AppendProperties DEF SendRemove
  <2> QED BY <1>2, <2>4 DEF TInv, SendRemove, allocator
<1>3. CASE StopScript \/ StopPanics
  BY <1>3 DEF TInv, StopScript, StopPanics, allocator
<1>4. CASE StartScript \/ Freed \/ Stopped
  BY <1>4 DEF TInv, StartScript, Freed, Stopped, allocator, others
<1> QED BY <1>1, <1>2, <1>3, <1>4 DEF Manager

\* A cell of a zone is overwritten.
LEMMA CellTyped ==
  ASSUME NEW w \in Worlds, NEW z \in Zones, NEW n \in AllSerials, NEW c \in Cells
  PROVE  [w EXCEPT ![z][n] = c] \in Worlds
BY DEF Worlds

LEMMA ActsTyped ==
  ASSUME TInv, NEW act, Allowed(act)
  PROVE  acts' \in 0 .. MaxActs
BY SerialsAssumption DEF TInv, Allowed

LEMMA WorkerTyped ==
  ASSUME IInv, TInv, Worker
  PROVE  TInv'
<1>0. Nobody \in [AllSerials -> Cells] /\ Serving \in Workers
  BY SerialsAssumption DEF Nobody, Cells, Serving, Workers
<1>1. CASE Handle
  <2>1. queue \in Seq(Commands) /\ queue # <<>>
    BY <1>1 DEF TInv, Handle
  <2>2. Head(queue) \in Commands /\ Tail(queue) \in Seq(Commands)
    BY <2>1, HeadTailProperties
  <2> DEFINE h == Head(queue).of
             c == IF Head(queue).op = "spawn" THEN [by |-> h.by, kept |-> FALSE]
                  ELSE IF world[h.zone][h.serial] # None /\ world[h.zone][h.serial].kept
                       THEN world[h.zone][h.serial] ELSE None
  <2>3. h.zone \in Zones /\ h.serial \in AllSerials /\ h.by \in Owners
    BY <2>2 DEF Commands, Wanted
  <2>4. c \in Cells
    BY <2>3 DEF TInv, Worlds, Cells, Entity
  <2>5. world' = [world EXCEPT ![h.zone][h.serial] = c]
    BY <1>1 DEF Handle
  <2>6. world' \in Worlds
    <3> HIDE DEF h, c
    <3> QED BY <2>3, <2>4, <2>5, CellTyped DEF TInv
  <2> QED BY <1>1, <2>2, <2>6 DEF TInv, Handle, allocator
<1>2. CASE Restored
  <2>1. world' \in Worlds /\ worker' \in Workers
    BY <1>0, <1>2 DEF TInv, Restored, Worlds, Workers
  <2> QED BY <1>2, <2>1 DEF TInv, Restored, allocator
<1>3. ASSUME NEW n \in AllSerials, Mark(n)
      PROVE  TInv'
  <2>1. pool = [j \in Kinds |-> pool[j]]
    BY DEF IInv
  <2>2. \A j \in Kinds : Plain(pool'[j])
    BY <1>3, <2>1, PlainOps DEF TInv, Mark
  <2>3. worker' \in Workers
    BY <1>3 DEF TInv, Mark, Workers
  <2> QED BY <1>3, <2>2, <2>3 DEF TInv, Mark
<1>4. ASSUME NEW z \in Zones, NEW n \in AllSerials, Keep(z, n)
      PROVE  TInv'
  <2>1. world[z][n] # None /\ world[z][n] \in Cells /\ world' = [world EXCEPT ![z][n].kept = TRUE]
    BY <1>4 DEF Keep, TInv, Worlds
  <2>2. world[z][n] \in Entity
    BY <2>1 DEF Cells
  <2>3. [world[z][n] EXCEPT !.kept = TRUE] \in Cells
    BY <2>2 DEF Cells, Entity
  <2>4. world' = [world EXCEPT ![z][n] = [world[z][n] EXCEPT !.kept = TRUE]]
    BY <2>1 DEF TInv, Worlds
  <2>5. world' \in Worlds
    BY <2>3, <2>4, CellTyped DEF TInv
  <2>6. acts' \in 0 .. MaxActs
    BY <1>4, ActsTyped DEF Keep
  <2> QED BY <1>4, <2>5, <2>6 DEF TInv, Keep, allocator
<1>5. ASSUME NEW n \in AllSerials, NEW y \in Zones, NEW z \in Zones, Transfer(n, y, z)
      PROVE  TInv'
  <2>1. world' = [world EXCEPT ![y][n] = None, ![z][n] = world[y][n]] /\ world[y][n] \in Cells
    BY <1>5 DEF Transfer, TInv, Worlds
  <2>2. None \in Cells /\ [world EXCEPT ![y][n] = None] \in Worlds
    BY CellTyped DEF Cells, TInv
  <2>3. world' \in Worlds
    BY <2>1, <2>2, CellTyped
  <2>4. acts' \in 0 .. MaxActs
    BY <1>5, ActsTyped DEF Transfer
  <2> QED BY <1>5, <2>3, <2>4 DEF TInv, Transfer, allocator
<1>6. ASSUME NEW z \in Zones, Save(z)
      PROVE  TInv'
  <2>1. saved' \in Worlds
    BY <1>6 DEF Save, TInv, Worlds
  <2>2. acts' \in 0 .. MaxActs
    BY <1>6, ActsTyped DEF Save
  <2> QED BY <1>6, <2>1, <2>2 DEF TInv, Save, allocator
<1>7. ASSUME NEW z \in Zones, Restore(z)
      PROVE  TInv'
  <2>1. world' \in Worlds /\ worker' \in Workers
    BY <1>0, <1>7 DEF Restore, TInv, Worlds, Workers
  <2>2. acts' \in 0 .. MaxActs
    BY <1>7, ActsTyped DEF Restore
  <2> QED BY <1>7, <2>1, <2>2 DEF TInv, Restore, allocator
<1>8. ASSUME NEW z \in Zones, ResetZone(z)
      PROVE  TInv'
  <2>1. world' \in Worlds
    BY <1>0, <1>8 DEF ResetZone, TInv, Worlds
  <2>2. acts' \in 0 .. MaxActs
    BY <1>8, ActsTyped DEF ResetZone
  <2>3. \A k \in Kinds : Plain(pool'[k])
    BY <1>8 DEF ResetZone, Plain, Whole
  <2> QED BY <1>8, <2>1, <2>2, <2>3 DEF TInv, ResetZone
<1> QED BY <1>1, <1>2, <1>3, <1>4, <1>5, <1>6, <1>7, <1>8 DEF Worker

LEMMA NextTyped ==
  ASSUME IInv, TInv, [Next]_vars
  PROVE  TInv'
<1>1. CASE UNCHANGED vars
  BY <1>1 DEF vars, TInv
<1> QED BY <1>1, UsersTyped, ManagerTyped, WorkerTyped DEF Next

LEMMA TypedAlways == Spec => [](IInv /\ TInv)
<1>1. IInv /\ TInv /\ [Next]_vars => TInv'
  BY NextTyped
<1> QED BY <1>1, InvariantHolds, InitTyped, PTL DEF Spec

LEMMA PartsAreTypeOK == IInv /\ TInv => TypeOK
<1> SUFFICES ASSUME IInv, TInv PROVE TypeOK
  OBVIOUS
<1>1. DOMAIN pool = Kinds
  <2>1. pool = [k \in Kinds |-> pool[k]]
    BY DEF IInv
  <2> QED BY <2>1
<1>2. ASSUME NEW k \in Kinds
      PROVE  /\ DOMAIN pool[k] = {"free", "count"} /\ pool[k].count \in Nat
             /\ DOMAIN pool[k].free \subseteq AllSerials
             /\ pool[k].free \in [DOMAIN pool[k].free -> Nat]
  <2>1. Plain(pool[k]) /\ WellFormed(pool[k])
    BY DEF IInv, TInv, Sound, Bounded
  <2>2. DOMAIN pool[k] = {"free", "count"}
    BY <2>1 DEF Plain
  <2>3. pool[k].count \in Nat
    BY <2>1, FS_CardinalityType DEF WellFormed
  <2>4. DOMAIN pool[k].free \subseteq AllSerials
    BY HandedOut
  <2>5. pool[k].free \in [DOMAIN pool[k].free -> Nat]
    BY <2>1 DEF Plain, WellFormed
  <2> QED BY <2>2, <2>3, <2>4, <2>5
<1>3. log \in Seq(AllSerials) /\ manager \in [stage : Stages, since : Nat, todo : Seq(AllSerials), freed : Seq(AllSerials)]
  BY DEF IInv, Managers
<1>4. {world, saved} \subseteq [Zones -> [AllSerials -> Entity \cup {None}]]
  BY DEF TInv, Worlds, Cells
<1> QED BY <1>1, <1>2, <1>3, <1>4 DEF TypeOK, TInv, Commands, Workers

\* Ranges, log, commands, entities and the manager keep their shapes.
THEOREM Typed == Spec => []TypeOK
BY TypedAlways, PartsAreTypeOK, PTL

-----------------------------------------------------------------------------
(* Who carries a serial, in a calm scenario *)

\* What is there to carry a serial: an h that is held at place -1, or an
\* entity of a zone, or of the save of one, at 0, or the i-th command.
Stands(c, by) == c # None /\ c.by = by
There(i, h) ==
  \/ i = -1 /\ h \in held
  \/ i = 0 /\ (Stands(world[h.zone][h.serial], h.by) \/ Stands(saved[h.zone][h.serial], h.by))
  \/ i \in DOMAIN queue /\ queue[i] = Spawn(h)
Places == -1 .. Len(queue)
Gone(i, n) == i >= 0 /\ RemovalAfter(i, n)
Staying(i, h) == There(i, h) /\ ~ Gone(i, h.serial)

\* What the cleanup of a script would leave in the log, and what it would take from it.
Running == manager.stage = "running"
Base    == IF Running THEN Names(SubSeq(log, 1, manager.since)) ELSE Names(log)
Recent  == IF Running THEN Names(SubSeq(log, manager.since + 1, Len(log))) ELSE Names(manager.todo)

ManagerCalm ==
  /\ manager.stage # "poisoned"
  /\ Running => manager.since <= Len(log)
  /\ manager.stage \in {"stopped", "running"} => manager.freed = <<>>
  /\ Names(manager.freed) \cap (Names(log) \cup Names(manager.todo)) = {}
  /\ "scripts" \notin scene => manager.stage = "stopped"
WorldCalm ==
  /\ "load" \notin scene => saved = [z \in Zones |-> Nobody] /\ worker = Serving
  /\ "scripts" \in scene => \A z \in Zones, n \in AllSerials : world[z][n] # None => ~ world[z][n].kept
\* The serials of all but scripts are in the part of the log that stays.
OthersLogged ==
  \A i \in Places, h \in Wanted : There(i, h) /\ h.by = "other" => h.serial \in Base /\ ~ Gone(i, h.serial)
\* Those of scripts are in the part that goes, or persistent, or about to be removed.
ScriptsLogged ==
  \A i \in Places, h \in Wanted : There(i, h) /\ h.by = "script" =>
    /\ "scripts" \in scene /\ h.zone = ScriptZone
    /\ i = -1 => Running /\ h.serial \in Recent
    /\ ~ Gone(i, h.serial) => h.serial \in Recent \/ h.serial \in persistent \cap Base
Unique ==
  \A i, j \in Places, g, h \in Wanted :
    Staying(i, g) /\ Staying(j, h) /\ g.serial = h.serial => i = j /\ g = h
CInv == ManagerCalm /\ WorldCalm /\ OthersLogged /\ ScriptsLogged /\ Unique

\* The two parts of the log.
LEMMA TwoParts ==
  ASSUME IInv, ManagerCalm
  PROVE  /\ Base \subseteq Names(log) /\ Recent \subseteq Names(log) \cup Names(manager.todo)
         /\ Base \cap Recent = {}
<1>1. log \in Seq(AllSerials) /\ Distinct(log) /\ manager.since \in Nat
      /\ Names(log) \cap Names(manager.todo) = {}
  BY DEF IInv, Sound, LogSound, Managers
<1>2. CASE Running
  <2>1. manager.since <= Len(log)
    BY <1>2 DEF ManagerCalm
  <2> QED BY <1>1, <1>2, <2>1, NamesSplit DEF Base, Recent
<1>3. CASE ~ Running
  BY <1>1, <1>3 DEF Base, Recent
<1> QED BY <1>2, <1>3

LEMMA QueuePlaces ==
  ASSUME TInv
  PROVE  /\ Len(queue) \in Nat /\ DOMAIN queue = 1 .. Len(queue)
         /\ \A i, h : There(i, h) => i \in Places
<1>1. Len(queue) \in Nat /\ DOMAIN queue = 1 .. Len(queue)
  BY LenProperties DEF TInv
<1> QED BY <1>1 DEF There, Places

\* A step after which all that carry a serial are where they were.
LEMMA AllStay ==
  ASSUME CInv, ManagerCalm', WorldCalm', scene' = scene,
         \A i \in Places', h \in Wanted : There(i, h)' =>
            /\ i \in Places /\ There(i, h) /\ (Gone(i, h.serial)' <=> Gone(i, h.serial))
            /\ i = -1 /\ h.by = "script" => Running',
         Base \subseteq Base', Recent \subseteq Recent' \cup (persistent' \cap Base'),
         persistent \subseteq persistent', Running' => Recent \subseteq Recent'
  PROVE  CInv'
<1>1. OthersLogged'
  BY DEF CInv, OthersLogged
<1>2. ScriptsLogged'
  BY DEF CInv, ScriptsLogged
<1>3. Unique'
  BY DEF CInv, Unique, Staying
<1> QED BY <1>1, <1>2, <1>3 DEF CInv

LEMMA InitCalm == Init /\ Calm => CInv
<1> SUFFICES ASSUME Init, Calm PROVE CInv
  OBVIOUS
<1>1. DOMAIN queue = {} /\ Len(queue) = 0
  BY DEF Init
<1>2. \A z \in Zones, n \in AllSerials : world[z][n] = None /\ saved[z][n] = None
  BY DEF Init, Nobody
<1>3. \A i : \A h \in Wanted : ~ There(i, h)
  BY <1>1, <1>2 DEF Init, There, Stands, Wanted
<1>4. manager.stage = "stopped" /\ Names(manager.freed) = {} /\ manager.freed = <<>>
  BY EmptySeq DEF Init, Names
<1>5. ManagerCalm
  BY <1>4 DEF ManagerCalm, Running
<1>6. WorldCalm
  BY <1>2 DEF Init, WorldCalm
<1> QED BY <1>3, <1>5, <1>6 DEF CInv, OthersLogged, ScriptsLogged, Unique, Staying


\* Who shares the log with scripts: nobody, in a calm scenario.
LEMMA CalmScenes ==
  ASSUME Calm
  PROVE  /\ "scripts" \in scene => scene = {"scripts"}
         /\ "clear" \notin scene
         /\ "load" \notin scene \/ "transfer" \notin scene
BY DEF Calm

LEMMA StartCalm ==
  ASSUME IInv, TInv, CInv, StartScript
  PROVE  CInv'
<1>1. /\ manager.stage = "stopped" /\ "scripts" \in scene
      /\ UNCHANGED <<scene, log, persistent, held, queue, world, saved, worker>>
      /\ manager' = [manager EXCEPT !.stage = "running", !.since = Len(log)]
  BY DEF StartScript, allocator, others
<1>2. manager \in Managers /\ manager.todo = <<>> /\ manager.freed = <<>> /\ log \in Seq(AllSerials)
  BY <1>1 DEF IInv, CInv, ManagerCalm
<1>3. /\ manager'.stage = "running" /\ manager'.since = Len(log)
      /\ manager'.todo = manager.todo /\ manager'.freed = manager.freed
  BY <1>1, <1>2 DEF Managers
<1>4. Base' = Base /\ Recent = {}
  <2>1. SubSeq(log, 1, Len(log)) = log
    BY <1>2, SubSeqProperties
  <2>2. Names(manager.todo) = {}
    BY <1>2 DEF Names
  <2>3. Base = Names(log) /\ Recent = {}
    BY <1>1, <2>2 DEF Base, Recent, Running
  <2>4. log' = log /\ SubSeq(log', 1, manager'.since) = log
    BY <1>1, <1>3, <2>1
  <2>5. Base' = Names(log)
    BY <1>3, <2>4 DEF Base, Running
  <2> QED BY <2>3, <2>5
<1>5. ManagerCalm'
  <2>1. Len(log) \in Nat
    BY <1>2, LenProperties
  <2> QED BY <1>1, <1>2, <1>3, <2>1 DEF CInv, ManagerCalm, Running
<1>6. WorldCalm'
  BY <1>1 DEF CInv, WorldCalm
<1>7. \A i, n : Gone(i, n)' <=> Gone(i, n)
  BY <1>1, <1>3 DEF Gone, RemovalAfter
<1>8. \A i, h : (There(i, h)' <=> There(i, h)) /\ Places' = Places
  BY <1>1 DEF There, Places
<1>9. Running'
  BY <1>3 DEF Running
<1> QED BY <1>1, <1>4, <1>5, <1>6, <1>7, <1>8, <1>9, AllStay

LEMMA StopCalm ==
  ASSUME IInv, TInv, CInv, StopScript
  PROVE  CInv'
<1>1. /\ manager.stage = "running" /\ manager.since <= Len(log)
      /\ UNCHANGED <<scene, persistent, queue, world, saved, worker>>
      /\ held' = {h \in held : h.by # "script"}
      /\ manager' = [manager EXCEPT !.stage = "freeing", !.todo = SubSeq(log, manager.since + 1, Len(log))]
      /\ log' = SubSeq(log, 1, manager.since)
  BY DEF StopScript
<1>2. manager \in Managers /\ manager.freed = <<>> /\ "scripts" \in scene
  BY <1>1 DEF IInv, CInv, ManagerCalm
<1>3. /\ manager'.stage = "freeing" /\ manager'.todo = SubSeq(log, manager.since + 1, Len(log))
      /\ manager'.freed = manager.freed
  BY <1>1, <1>2 DEF Managers
<1>4. Base' = Base /\ Recent' = Recent
  BY <1>1, <1>3 DEF Base, Recent, Running
<1>5. ManagerCalm'
  <2>1. Names(manager'.freed) = {}
    BY <1>2, <1>3 DEF Names
  <2> QED BY <1>1, <1>2, <1>3, <2>1 DEF ManagerCalm, Running
<1>6. WorldCalm'
  BY <1>1 DEF CInv, WorldCalm
<1>7. \A i, n : Gone(i, n)' <=> Gone(i, n)
  BY <1>1, <1>3 DEF Gone, RemovalAfter
<1>8. \A i, h : There(i, h)' => There(i, h) /\ ~ (i = -1 /\ h.by = "script")
  <2>1. \A i \in DOMAIN queue : i # -1
    BY QueuePlaces
  <2> QED BY <1>1, <2>1 DEF There
<1>9. Places' = Places /\ ~ Running'
  BY <1>1, <1>3 DEF Places, Running
<1> QED BY <1>1, <1>4, <1>5, <1>6, <1>7, <1>8, <1>9, AllStay

LEMMA FreeCalm ==
  ASSUME IInv, TInv, CInv, FreeNext
  PROVE  CInv'
<1> DEFINE n == Head(manager.todo)
<1>1. /\ manager.stage = "freeing" /\ manager.todo # <<>>
      /\ UNCHANGED <<scene, persistent, held, queue, world, saved, worker>>
      /\ manager \in Managers /\ log \in Seq(AllSerials) /\ LogSound /\ "scripts" \in scene
  BY DEF FreeNext, others, IInv, Sound, CInv, ManagerCalm
<1>2. /\ Tail(manager.todo) \in Seq(AllSerials) /\ n \in AllSerials
      /\ Names(Tail(manager.todo)) \subseteq Names(manager.todo)
      /\ n \in Names(manager.todo) /\ n \notin Names(Tail(manager.todo))
  BY <1>1, NamesTail DEF LogSound, Managers
<1>3. Names(manager.todo) \subseteq Names(Tail(manager.todo)) \cup {n}
  <2>1. /\ Len(Tail(manager.todo)) = Len(manager.todo) - 1 /\ n = manager.todo[1]
        /\ \A i \in 1 .. Len(Tail(manager.todo)) : Tail(manager.todo)[i] = manager.todo[i + 1]
    BY <1>1, HeadTailProperties DEF Managers
  <2>2. /\ Len(manager.todo) \in Nat /\ DOMAIN manager.todo = 1 .. Len(manager.todo)
        /\ DOMAIN Tail(manager.todo) = 1 .. Len(Tail(manager.todo))
    BY <1>1, <1>2, LenProperties DEF Managers
  <2>3. ASSUME NEW i \in DOMAIN manager.todo, i # 1
        PROVE  i - 1 \in DOMAIN Tail(manager.todo) /\ Tail(manager.todo)[i - 1] = manager.todo[i]
    BY <2>1, <2>2, <2>3
  <2>4. \A i \in DOMAIN manager.todo : manager.todo[i] = n \/ manager.todo[i] \in Names(Tail(manager.todo))
    BY <2>1, <2>3 DEF Names
  <2> QED BY <2>4 DEF Names
<1>4. Base = Names(log) /\ Recent = Names(manager.todo) /\ n \notin Names(log)
  BY <1>1, <1>2 DEF Base, Recent, Running, LogSound
<1>5. Names(manager.freed) \cap (Names(log) \cup Names(manager.todo)) = {}
  BY DEF CInv, ManagerCalm
<1>6. WorldCalm'
  BY <1>1 DEF CInv, WorldCalm
<1>7. \A i, h : There(i, h)' <=> There(i, h)
  BY <1>1 DEF There
<1>8. Places' = Places
  BY <1>1 DEF Places
<1> HIDE DEF n
<1>9. CASE n \in persistent
  <2>1. log' = Append(log, n) /\ manager' = [manager EXCEPT !.todo = Tail(@)]
    BY <1>9 DEF FreeNext, n
  <2>2. manager'.todo = Tail(manager.todo) /\ manager'.freed = manager.freed /\ manager'.stage = "freeing"
    BY <1>1, <2>1 DEF Managers
  <2>3. Names(log') = Names(log) \cup {n}
    BY <1>1, <1>2, <2>1, NamesAppend
  <2>4. Base' = Base \cup {n} /\ Recent' = Names(Tail(manager.todo)) /\ ~ Running'
    BY <1>4, <2>2, <2>3 DEF Base, Recent, Running
  <2>5. ManagerCalm'
    BY <1>1, <1>2, <1>5, <2>2, <2>3 DEF ManagerCalm, Running
  <2>6. \A i, m : Gone(i, m)' <=> Gone(i, m)
    BY <1>1, <2>2 DEF Gone, RemovalAfter
  <2>7. Recent \subseteq Recent' \cup (persistent' \cap Base')
    BY <1>1, <1>3, <1>4, <1>9, <2>4
  <2>8. \A h \in Wanted : There(-1, h) => h.by # "script"
    <3>1. -1 \in Places
      BY QueuePlaces DEF Places
    <3> QED BY <1>1, <3>1 DEF CInv, ScriptsLogged, Running
  <2> QED BY <1>1, <1>6, <1>7, <1>8, <2>4, <2>5, <2>6, <2>7, <2>8, AllStay
<1>10. CASE n \notin persistent
  <2>1. log' = log /\ manager' = [manager EXCEPT !.todo = Tail(@), !.freed = Append(@, n)]
    BY <1>10 DEF FreeNext, n
  <2>2. /\ manager'.todo = Tail(manager.todo) /\ manager'.freed = Append(manager.freed, n)
        /\ manager'.stage = "freeing" /\ manager.freed \in Seq(AllSerials)
    BY <1>1, <2>1 DEF Managers
  <2>3. Names(manager'.freed) = Names(manager.freed) \cup {n}
    BY <1>2, <2>2, NamesAppend
  <2>4. Base' = Base /\ Recent' = Names(Tail(manager.todo)) /\ ~ Running'
    BY <1>4, <2>1, <2>2 DEF Base, Recent, Running
  <2>5. ManagerCalm'
    BY <1>1, <1>2, <1>4, <1>5, <2>1, <2>2, <2>3 DEF ManagerCalm, Running
  <2>6. \A i, m : Gone(i, m)' <=> Gone(i, m) \/ (i >= 0 /\ m = n)
    <3>1. \A m : (\E j \in DOMAIN manager'.freed : manager'.freed[j] = m)
                    <=> (\E j \in DOMAIN manager.freed : manager.freed[j] = m) \/ m = n
      BY <2>3 DEF Names
    <3> QED BY <1>1, <3>1 DEF Gone, RemovalAfter
  <2>7. OthersLogged'
    <3>1. \A i \in Places, h \in Wanted : There(i, h) /\ h.by = "other" => h.serial # n
      BY <1>4 DEF CInv, OthersLogged
    <3> QED BY <1>7, <1>8, <2>4, <2>6, <3>1 DEF CInv, OthersLogged
  <2>8. \A i \in Places, h \in Wanted : There(i, h) /\ h.by = "script" => i >= 0
    <3>1. \A i \in Places : i >= 0 \/ i = -1
      BY QueuePlaces DEF Places
    <3> QED BY <1>1, <3>1 DEF CInv, ScriptsLogged, Running
  <2>9. ScriptsLogged'
    BY <1>1, <1>2, <1>3, <1>4, <1>7, <1>8, <2>4, <2>6, <2>8 DEF CInv, ScriptsLogged
  <2>10. Unique'
    BY <1>7, <1>8, <2>6 DEF CInv, Unique, Staying
  <2> QED BY <1>6, <2>5, <2>7, <2>9, <2>10 DEF CInv
<1> QED BY <1>9, <1>10


LEMMA FreedCalm ==
  ASSUME IInv, TInv, CInv, Freed \/ Stopped
  PROVE  CInv'
<1>1. /\ UNCHANGED <<scene, log, persistent, held, queue, world, saved, worker>>
      /\ manager.stage \in {"freeing", "removing"} /\ manager \in Managers /\ manager.todo = <<>>
      /\ \/ manager' = [manager EXCEPT !.stage = "removing"]
         \/ manager' = [manager EXCEPT !.stage = "stopped"] /\ manager.freed = <<>>
  BY DEF Freed, Stopped, allocator, others, IInv
<1>2. /\ manager'.since = manager.since /\ manager'.todo = manager.todo /\ manager'.freed = manager.freed
      /\ manager'.stage = "removing" \/ (manager'.stage = "stopped" /\ manager.freed = <<>>)
  BY <1>1 DEF Managers
<1>3. Base' = Base /\ Recent' = Recent /\ ~ Running /\ ~ Running'
  BY <1>1, <1>2 DEF Base, Recent, Running
<1>4. ManagerCalm'
  BY <1>1, <1>2, <1>3 DEF CInv, ManagerCalm
<1>5. WorldCalm'
  BY <1>1 DEF CInv, WorldCalm
<1>6. \A i, n : Gone(i, n)' <=> Gone(i, n)
  BY <1>1, <1>2 DEF Gone, RemovalAfter
<1>7. \A i, h : (There(i, h)' <=> There(i, h)) /\ Places' = Places
  BY <1>1 DEF There, Places
<1>8. \A h \in Wanted : There(-1, h) => h.by # "script"
  <2>1. -1 \in Places
    BY QueuePlaces DEF Places
  <2> QED BY <1>3, <2>1 DEF CInv, ScriptsLogged
<1> QED BY <1>1, <1>3, <1>4, <1>5, <1>6, <1>7, <1>8, AllStay

\* A removal that is sent stays behind the spawn it is for.
LEMMA SendRemoveCalm ==
  ASSUME IInv, TInv, CInv, SendRemove
  PROVE  CInv'
<1> DEFINE n == Head(manager.freed)
           r == Tail(manager.freed)
<1>1. /\ UNCHANGED <<scene, log, persistent, held, world, saved, worker>>
      /\ manager.stage = "removing" /\ manager \in Managers /\ manager.freed # <<>>
      /\ queue' = Append(queue, Remove(n)) /\ manager' = [manager EXCEPT !.freed = r]
  BY DEF SendRemove, allocator, IInv
<1>2. /\ manager'.since = manager.since /\ manager'.todo = manager.todo /\ manager'.freed = r
      /\ manager'.stage = "removing"
  BY <1>1 DEF Managers
<1>3. Base' = Base /\ Recent' = Recent /\ ~ Running /\ ~ Running'
  BY <1>1, <1>2 DEF Base, Recent, Running
<1>4. \A m : (\E j \in DOMAIN manager.freed : manager.freed[j] = m) <=> m = n \/ \E j \in DOMAIN r : r[j] = m
  <2>1. manager.freed \in Seq(AllSerials)
    BY <1>1 DEF Managers
  <2>2. /\ Len(r) = Len(manager.freed) - 1 /\ n = manager.freed[1] /\ r \in Seq(AllSerials)
        /\ \A i \in 1 .. Len(r) : r[i] = manager.freed[i + 1]
    BY <1>1, <2>1, HeadTailProperties
  <2>3. /\ Len(manager.freed) \in Nat /\ DOMAIN manager.freed = 1 .. Len(manager.freed)
        /\ DOMAIN r = 1 .. Len(r) /\ Len(manager.freed) # 0
    BY <1>1, <2>1, <2>2, LenProperties, EmptySeq
  <2> HIDE DEF r, n
  <2>4. ASSUME NEW i \in DOMAIN manager.freed, i # 1
        PROVE  i - 1 \in DOMAIN r /\ r[i - 1] = manager.freed[i]
    BY <2>2, <2>3, <2>4
  <2>5. \A i \in DOMAIN r : i + 1 \in DOMAIN manager.freed /\ manager.freed[i + 1] = r[i]
    BY <2>2, <2>3
  <2>6. 1 \in DOMAIN manager.freed
    BY <2>3
  <2> QED BY <2>2, <2>4, <2>5, <2>6
<1>5. ManagerCalm'
  <2>1. Names(r) \subseteq Names(manager.freed)
    BY <1>4 DEF Names
  <2> QED BY <1>1, <1>2, <1>3, <2>1 DEF CInv, ManagerCalm
<1>6. WorldCalm'
  BY <1>1 DEF CInv, WorldCalm
<1> HIDE DEF n, r
<1>7. /\ Len(queue) \in Nat /\ DOMAIN queue = 1 .. Len(queue)
      /\ Len(queue') = Len(queue) + 1 /\ DOMAIN queue' = 1 .. Len(queue')
      /\ \A i \in 1 .. Len(queue) : queue'[i] = queue[i]
      /\ queue'[Len(queue) + 1] = Remove(n)
  <2>1. queue \in Seq(Commands)
    BY DEF TInv
  <2>2. /\ Len(queue') = Len(queue) + 1 /\ \A i \in 1 .. Len(queue) : queue'[i] = queue[i]
        /\ queue'[Len(queue) + 1] = Remove(n) /\ DOMAIN queue' = 1 .. Len(queue')
    BY <1>1, <2>1 DEF Append
  <2> QED BY <2>1, <2>2, QueuePlaces
<1>8. \A m, h : Remove(m) # Spawn(h)
  BY DEF Remove, Spawn
<1>9. \A m : Remove(m) = Remove(n) <=> m = n
  BY DEF Remove
<1>10. ASSUME NEW i \in Places', NEW h \in Wanted, There(i, h)'
       PROVE  /\ i \in Places /\ There(i, h) /\ (Gone(i, h.serial)' <=> Gone(i, h.serial))
              /\ ~ (i = -1 /\ h.by = "script")
  <2>1. i \in Places /\ There(i, h)
    <3>1. There(i, h)
      BY <1>1, <1>7, <1>8, <1>10 DEF There
    <3> QED BY <3>1, QueuePlaces
  <2>2. i \in Int /\ i <= Len(queue)
    BY <1>7, <2>1 DEF Places
  <2>3. ASSUME i >= 0
        PROVE  (\E j \in i + 1 .. Len(queue') : queue'[j] = Remove(h.serial))
                  <=> h.serial = n \/ \E j \in i + 1 .. Len(queue) : queue[j] = Remove(h.serial)
    BY <1>7, <1>9, <2>2, <2>3
  <2>4. Gone(i, h.serial)' <=> Gone(i, h.serial)
    BY <1>2, <1>4, <2>3 DEF Gone, RemovalAfter
  <2>5. ~ (i = -1 /\ h.by = "script")
    BY <1>3, <2>1 DEF CInv, ScriptsLogged
  <2> QED BY <2>1, <2>4, <2>5
<1> QED BY <1>1, <1>3, <1>5, <1>6, <1>10, AllStay

LEMMA ManagerStepCalm ==
  ASSUME IInv, TInv, CInv, Manager
  PROVE  CInv'
<1>1. ~ StopPanics
  <2>1. Len(log) \in Nat /\ manager.since \in Nat
    BY LenProperties DEF IInv, Managers
  <2> QED BY <2>1 DEF StopPanics, CInv, ManagerCalm, Running
<1> QED BY <1>1, StartCalm, StopCalm, FreeCalm, FreedCalm, SendRemoveCalm DEF Manager


\* A name behind a mark.
LEMMA AppendAfter ==
  ASSUME NEW S, NEW q \in Seq(S), NEW n \in S, NEW k \in Nat, k <= Len(q)
  PROVE  /\ SubSeq(Append(q, n), 1, k) = SubSeq(q, 1, k)
         /\ Names(SubSeq(Append(q, n), k + 1, Len(Append(q, n)))) = Names(SubSeq(q, k + 1, Len(q))) \cup {n}
<1> DEFINE r == Append(q, n)
           a == SubSeq(r, k + 1, Len(r))
           b == SubSeq(q, k + 1, Len(q))
<1>1. /\ r \in Seq(S) /\ Len(r) = Len(q) + 1 /\ Len(q) \in Nat
      /\ \A i \in 1 .. Len(q) : r[i] = q[i]
      /\ r[Len(q) + 1] = n
  BY AppendProperties, LenProperties
<1> HIDE DEF r
<1>2. SubSeq(r, 1, k) = SubSeq(q, 1, k)
  BY <1>1 DEF SubSeq
<1>3. a = [i \in 1 .. Len(q) + 1 - k |-> r[i + k]]
  <2>1. Len(r) - (k + 1) + 1 = Len(q) + 1 - k /\ \A i \in 1 .. Len(q) + 1 - k : i + (k + 1) - 1 = i + k
    BY <1>1
  <2> QED BY <2>1 DEF SubSeq
<1>4. b = [i \in 1 .. Len(q) - k |-> q[i + k]]
  <2>1. Len(q) - (k + 1) + 1 = Len(q) - k /\ \A i \in 1 .. Len(q) - k : i + (k + 1) - 1 = i + k
    BY <1>1
  <2> QED BY <2>1 DEF SubSeq
<1> DEFINE m == Len(q) - k
<1>5. m \in Nat /\ Len(q) + 1 - k = m + 1 /\ m + 1 + k = Len(q) + 1
      /\ \A i \in 1 .. m : i + k \in 1 .. Len(q)
  BY <1>1
<1> HIDE DEF a, b, m
<1>6. /\ DOMAIN a = 1 .. m + 1 /\ DOMAIN b = 1 .. m /\ a[m + 1] = n
      /\ \A i \in 1 .. m : a[i] = b[i]
  BY <1>1, <1>3, <1>4, <1>5 DEF m
<1>7. \A i \in 1 .. m + 1 : i = m + 1 \/ i \in 1 .. m
  BY <1>5
<1>8. Names(a) = Names(b) \cup {n}
  <2>1. Names(a) \subseteq Names(b) \cup {n}
    BY <1>6, <1>7 DEF Names
  <2>2. Names(b) \subseteq Names(a) /\ n \in Names(a)
    <3>1. m + 1 \in 1 .. m + 1 /\ \A i \in 1 .. m : i \in 1 .. m + 1
      BY <1>5
    <3> QED BY <3>1, <1>6 DEF Names
  <2> QED BY <2>1, <2>2
<1> QED BY <1>2, <1>8 DEF a, b, r

\* A serial that is handed out was free, so that nobody carries it.
LEMMA AllocCalm ==
  ASSUME IInv, TInv, Calm, CInv, NEW k \in Kinds, NEW by \in Owners, NEW z \in Zones, Alloc(k, by, z)
  PROVE  CInv'
<1>1. PICK n \in DOMAIN pool[k].free :
        /\ log' = Append(log, n)
        /\ held' = held \cup {[serial |-> n, by |-> by, zone |-> z]}
  BY DEF Alloc
<1>2. /\ UNCHANGED <<scene, persistent, queue, world, saved, worker, manager>>
      /\ Unlocked /\ MayAllocate(by) /\ (by = "script" => z = ScriptZone)
      /\ manager \in Managers /\ log \in Seq(AllSerials) /\ LogSound
      /\ manager.stage # "freeing" => manager.todo = <<>>
  BY DEF Alloc, IInv, Sound
<1>3. /\ n \in AllSerials /\ n \notin Names(log) /\ n \notin Names(manager.todo)
  BY <1>2, HandedOut DEF LogSound
<1> DEFINE new == [serial |-> n, by |-> by, zone |-> z]
<1>4. new \in Wanted /\ new.serial = n /\ new.by = by /\ new.zone = z
  BY <1>3 DEF Wanted
<1>5. \/ Running /\ by = "script" /\ "scripts" \in scene
      \/ manager.stage = "stopped" /\ by = "other"
  <2>1. Running => "scripts" \in scene
    BY DEF CInv, ManagerCalm, Running
  <2>2. manager.stage = "removing" => "scripts" \in scene
    BY DEF CInv, ManagerCalm
  <2> QED BY <1>2, <2>1, <2>2, CalmScenes DEF MayAllocate, Running
<1> HIDE DEF new
<1>6. /\ log' \in Seq(AllSerials) /\ Len(log') = Len(log) + 1 /\ Len(log) \in Nat
      /\ Names(log') = Names(log) \cup {n} /\ log'[Len(log) + 1] = n
      /\ \A i \in 1 .. Len(log) : log'[i] = log[i]
  BY <1>1, <1>2, <1>3, NamesAppend, AppendProperties, LenProperties
<1>7. \/ Running' /\ Running /\ Base' = Base /\ Recent' = Recent \cup {n}
      \/ ~ Running' /\ ~ Running /\ Base' = Base \cup {n} /\ Recent' = Recent
  <2>1. CASE Running
    <3>1. manager.since \in Nat /\ manager.since <= Len(log)
      BY <1>2, <2>1 DEF Managers, CInv, ManagerCalm
    <3>2. /\ SubSeq(log', 1, manager.since) = SubSeq(log, 1, manager.since)
          /\ Names(SubSeq(log', manager.since + 1, Len(log')))
               = Names(SubSeq(log, manager.since + 1, Len(log))) \cup {n}
      BY <1>1, <1>2, <1>3, <3>1, AppendAfter
    <3> QED BY <1>2, <2>1, <3>2 DEF Base, Recent, Running
  <2>2. CASE ~ Running
    BY <1>2, <1>6, <2>2 DEF Base, Recent, Running
  <2> QED BY <2>1, <2>2
<1>8. ManagerCalm'
  <2>1. Names(manager.freed) = {}
    BY <1>5 DEF CInv, ManagerCalm, Names, Running
  <2>2. manager' = manager /\ scene' = scene /\ manager.since \in Nat /\ (Running' <=> Running)
    BY <1>2 DEF Managers, Running
  <2> QED BY <1>6, <2>1, <2>2 DEF CInv, ManagerCalm
<1>9. WorldCalm'
  BY <1>2 DEF CInv, WorldCalm
<1>10. \A i, m : Gone(i, m)' <=> Gone(i, m)
  BY <1>2 DEF Gone, RemovalAfter
<1>11. \A i, h : There(i, h)' <=> There(i, h) \/ (i = -1 /\ h = new)
  <2>1. \A i \in DOMAIN queue : i # -1
    BY QueuePlaces
  <2> QED BY <1>1, <1>2, <2>1 DEF There, new
<1>12. Places' = Places
  BY <1>2 DEF Places
<1>13. n \notin Base /\ n \notin Recent
  BY <1>3, TwoParts DEF CInv
<1>14. \A i \in Places, h \in Wanted : There(i, h) /\ ~ Gone(i, h.serial) => h.serial # n
  BY <1>13 DEF CInv, OthersLogged, ScriptsLogged, Wanted, Owners
<1>15. ~ Gone(-1, n)
  BY DEF Gone
<1>16. OthersLogged'
  BY <1>4, <1>5, <1>7, <1>10, <1>11, <1>12, <1>15 DEF CInv, OthersLogged, Running
<1>17. ScriptsLogged'
  BY <1>2, <1>4, <1>5, <1>7, <1>10, <1>11, <1>12, <1>15 DEF CInv, ScriptsLogged, Running
<1>18. Unique'
  <2> SUFFICES ASSUME NEW i \in Places, NEW j \in Places, NEW g \in Wanted, NEW h \in Wanted,
                      Staying(i, g)', Staying(j, h)', g.serial = h.serial
               PROVE  i = j /\ g = h
    BY <1>12 DEF Unique
  <2>1. Staying(i, g) \/ (i = -1 /\ g = new)
    BY <1>10, <1>11 DEF Staying
  <2>2. Staying(j, h) \/ (j = -1 /\ h = new)
    BY <1>10, <1>11 DEF Staying
  <2> QED BY <2>1, <2>2, <1>4, <1>14 DEF CInv, Unique, Staying
<1> QED BY <1>8, <1>9, <1>16, <1>17, <1>18 DEF CInv

\* What was held is the last of the commands.
LEMMA SendCalm ==
  ASSUME IInv, TInv, CInv, NEW h \in held, Send(h)
  PROVE  CInv'
<1>1. /\ UNCHANGED <<scene, log, persistent, world, saved, worker, manager>>
      /\ held' = held \ {h} /\ queue' = Append(queue, Spawn(h))
      /\ h \in Wanted /\ queue \in Seq(Commands)
  BY DEF Send, allocator, TInv
<1>2. /\ Len(queue) \in Nat /\ DOMAIN queue = 1 .. Len(queue)
      /\ Len(queue') = Len(queue) + 1 /\ DOMAIN queue' = 1 .. Len(queue')
      /\ \A i \in 1 .. Len(queue) : queue'[i] = queue[i]
      /\ queue'[Len(queue) + 1] = Spawn(h)
  <2>1. /\ Len(queue') = Len(queue) + 1 /\ \A i \in 1 .. Len(queue) : queue'[i] = queue[i]
        /\ queue'[Len(queue) + 1] = Spawn(h) /\ DOMAIN queue' = 1 .. Len(queue')
    BY <1>1 DEF Append
  <2> QED BY <2>1, QueuePlaces
<1>3. Base' = Base /\ Recent' = Recent /\ (Running' <=> Running)
  BY <1>1 DEF Base, Recent, Running
<1>4. ManagerCalm' /\ WorldCalm'
  BY <1>1, <1>3 DEF CInv, ManagerCalm, WorldCalm
<1>5. /\ There(-1, h) /\ -1 \in Places /\ ~ Gone(-1, h.serial)
  BY <1>2 DEF There, Gone, Places
<1>6. Names(manager.freed) = {} \/ h.serial \in Names(log)
  <2>1. h.by = "other" \/ h.by = "script"
    BY <1>1 DEF Wanted, Owners
  <2>2. CASE h.by = "other"
    BY <1>1, <1>5, <2>2, TwoParts DEF CInv, OthersLogged
  <2>3. CASE h.by = "script"
    BY <1>1, <1>5, <2>3 DEF CInv, ScriptsLogged, ManagerCalm, Running, Names
  <2> QED BY <2>1, <2>2, <2>3
<1>7. h.serial \notin Names(manager.freed)
  BY <1>6 DEF CInv, ManagerCalm
<1>8. \A m : Remove(m) # Spawn(h) /\ \A g : Spawn(g) = Spawn(h) <=> g = h
  BY DEF Remove, Spawn
<1>9. \A i : i = Len(queue) + 1 => ~ Gone(i, h.serial)'
  BY <1>1, <1>2, <1>7 DEF Gone, RemovalAfter, Names
<1>10. \A i \in Places : \A m : Gone(i, m)' <=> Gone(i, m)
  <2> SUFFICES ASSUME NEW i \in Places, NEW m PROVE Gone(i, m)' <=> Gone(i, m)
    OBVIOUS
  <2>1. i \in Int /\ i <= Len(queue)
    BY <1>2 DEF Places
  <2>2. ASSUME i >= 0
        PROVE  (\E j \in i + 1 .. Len(queue') : queue'[j] = Remove(m))
                  <=> \E j \in i + 1 .. Len(queue) : queue[j] = Remove(m)
    BY <1>2, <1>8, <2>1, <2>2
  <2> QED BY <1>1, <2>2 DEF Gone, RemovalAfter
<1>11. ASSUME NEW i \in Places', NEW g \in Wanted, There(i, g)'
       PROVE  \/ i \in Places /\ There(i, g) /\ ~ (i = -1 /\ g = h)
              \/ i = Len(queue) + 1 /\ g = h
  <2>1. \/ There(i, g) /\ ~ (i = -1 /\ g = h)
        \/ i = Len(queue) + 1 /\ g = h
    <3>1. \A l \in DOMAIN queue : l # -1
      BY <1>2
    <3> QED BY <1>1, <1>2, <1>8, <1>11, <3>1 DEF There
  <2> QED BY <2>1, QueuePlaces
<1> DEFINE last == Len(queue) + 1
<1>12. last \notin Places /\ last # -1
  BY <1>2 DEF Places
<1> HIDE DEF last
<1>13. OthersLogged'
  <2> SUFFICES ASSUME NEW i \in Places', NEW g \in Wanted, There(i, g)', g.by = "other"
               PROVE  g.serial \in Base /\ ~ Gone(i, g.serial)'
    BY <1>3 DEF OthersLogged
  <2>1. CASE i \in Places /\ There(i, g)
    BY <2>1, <1>10 DEF CInv, OthersLogged
  <2>2. CASE i = Len(queue) + 1 /\ g = h
    BY <2>2, <1>1, <1>5, <1>9 DEF CInv, OthersLogged
  <2> QED BY <2>1, <2>2, <1>11
<1>14. ScriptsLogged'
  BY <1>1, <1>3, <1>5, <1>9, <1>10, <1>11, <1>12 DEF CInv, ScriptsLogged, last
<1>15. Unique'
  <2> SUFFICES ASSUME NEW i \in Places', NEW j \in Places', NEW f \in Wanted, NEW g \in Wanted,
                      Staying(i, f)', Staying(j, g)', f.serial = g.serial
               PROVE  i = j /\ f = g
    BY DEF Unique
  <2>1. (i \in Places /\ Staying(i, f) /\ ~ (i = -1 /\ f = h)) \/ (i = last /\ f = h)
    BY <1>10, <1>11 DEF Staying, last
  <2>2. (j \in Places /\ Staying(j, g) /\ ~ (j = -1 /\ g = h)) \/ (j = last /\ g = h)
    BY <1>10, <1>11 DEF Staying, last
  <2>3. Staying(-1, h)
    BY <1>5 DEF Staying
  <2> QED BY <2>1, <2>2, <2>3, <1>1, <1>5 DEF CInv, Unique
<1> QED BY <1>4, <1>13, <1>14, <1>15 DEF CInv

LEMMA UsersStepCalm ==
  ASSUME IInv, TInv, Calm, CInv, Users
  PROVE  CInv'
<1>1. ASSUME NEW n \in AllSerials, Persist(n)
      PROVE  CInv'
  <2>1. /\ UNCHANGED <<scene, log, held, queue, world, saved, worker, manager>>
        /\ persistent \subseteq persistent'
    BY <1>1 DEF Persist, others
  <2>2. Base' = Base /\ Recent' = Recent /\ (Running' <=> Running)
    BY <2>1 DEF Base, Recent, Running
  <2>3. ManagerCalm' /\ WorldCalm'
    BY <2>1, <2>2 DEF CInv, ManagerCalm, WorldCalm
  <2>4. \A i, m : (Gone(i, m)' <=> Gone(i, m)) /\ \A h : There(i, h)' <=> There(i, h)
    BY <2>1 DEF Gone, RemovalAfter, There
  <2>5. Places' = Places
    BY <2>1 DEF Places
  <2>6. Running
    BY <1>1 DEF Persist, Running
  <2> QED BY <2>1, <2>2, <2>3, <2>4, <2>5, <2>6, AllStay
<1> QED BY <1>1, AllocCalm, SendCalm DEF Users


\* The first command is carried out; what it spawns was to be there, and what
\* it removes was on its way out.
LEMMA HandleCalm ==
  ASSUME IInv, TInv, Calm, CInv, Handle
  PROVE  CInv'
<1> DEFINE c == queue[1]
           h == c.of
           new == IF c.op = "spawn" THEN [by |-> h.by, kept |-> FALSE]
                  ELSE IF world[h.zone][h.serial] # None /\ world[h.zone][h.serial].kept
                       THEN world[h.zone][h.serial] ELSE None
<1>1. /\ UNCHANGED <<scene, log, persistent, held, saved, worker, manager>>
      /\ queue # <<>> /\ queue \in Seq(Commands) /\ queue' = Tail(queue) /\ world \in Worlds
  BY DEF Handle, allocator, TInv
<1>2. /\ Head(queue) = c /\ c \in Commands /\ Len(queue') = Len(queue) - 1 /\ Len(queue) \in Nat /\ Len(queue) > 0
      /\ DOMAIN queue = 1 .. Len(queue) /\ DOMAIN queue' = 1 .. Len(queue')
      /\ \A i \in 1 .. Len(queue') : queue'[i] = queue[i + 1]
  <2>1. /\ Head(queue) \in Commands /\ Head(queue) = queue[1] /\ Len(queue') = Len(queue) - 1
        /\ \A i \in 1 .. Len(queue') : queue'[i] = queue[i + 1]
        /\ queue' \in Seq(Commands) /\ Len(queue) # 0
    BY <1>1, HeadTailProperties, EmptySeq
  <2> QED BY <2>1, <1>1, LenProperties
<1>3. h.zone \in Zones /\ h.serial \in AllSerials /\ h \in Wanted
  BY <1>2 DEF Commands, Wanted
<1>4. world' = [world EXCEPT ![h.zone][h.serial] = new]
  BY <1>2 DEF Handle
<1>5. c.op = "spawn" => c = Spawn(h)
  BY <1>2 DEF Commands, Spawn
<1>6. \A n : c = Remove(n) => c.op # "spawn" /\ h.zone = ScriptZone /\ h.serial = n
  BY DEF Remove
<1> HIDE DEF c, h
<1>7. \A z \in Zones, n \in AllSerials : world'[z][n] = IF z = h.zone /\ n = h.serial THEN new ELSE world[z][n]
  <2> HIDE DEF new
  <2> QED BY <1>1, <1>3, <1>4 DEF Worlds
<1>8. Base' = Base /\ Recent' = Recent /\ (Running' <=> Running) /\ ManagerCalm'
  BY <1>1 DEF Base, Recent, Running, CInv, ManagerCalm
<1>9. WorldCalm'
  <2>1. ASSUME "scripts" \in scene, NEW z \in Zones, NEW n \in AllSerials, world'[z][n] # None
        PROVE  ~ world'[z][n].kept
    BY <1>3, <1>7, <2>1 DEF CInv, WorldCalm
  <2> QED BY <1>1, <2>1 DEF CInv, WorldCalm
<1>10. \A i \in Int : \A n : i >= 0 => (Gone(i, n)' <=> Gone(i + 1, n))
  <2> SUFFICES ASSUME NEW i \in Int, NEW n, i >= 0 PROVE Gone(i, n)' <=> Gone(i + 1, n)
    OBVIOUS
  <2>1. (\E j \in i + 1 .. Len(queue') : queue'[j] = Remove(n))
           <=> \E j \in i + 1 + 1 .. Len(queue) : queue[j] = Remove(n)
    <3>1. ASSUME NEW j \in i + 1 .. Len(queue'), queue'[j] = Remove(n)
          PROVE  j + 1 \in i + 1 + 1 .. Len(queue) /\ queue[j + 1] = Remove(n)
      BY <1>2, <3>1
    <3>2. ASSUME NEW j \in i + 1 + 1 .. Len(queue), queue[j] = Remove(n)
          PROVE  j - 1 \in i + 1 .. Len(queue') /\ queue'[j - 1] = Remove(n)
      <4>1. j - 1 \in 1 .. Len(queue') /\ j - 1 \in i + 1 .. Len(queue') /\ (j - 1) + 1 = j
        BY <1>2
      <4> QED BY <4>1, <1>2, <3>2
    <3> QED BY <3>1, <3>2
  <2> QED BY <1>1, <2>1 DEF Gone, RemovalAfter
<1>11. \A n : Gone(0, n) <=> Gone(1, n) \/ c = Remove(n)
  <2> SUFFICES ASSUME NEW n PROVE Gone(0, n) <=> Gone(1, n) \/ c = Remove(n)
    OBVIOUS
  <2>1. (\E j \in 0 + 1 .. Len(queue) : queue[j] = Remove(n))
           <=> c = Remove(n) \/ \E j \in 1 + 1 .. Len(queue) : queue[j] = Remove(n)
    <3>1. \A j \in 0 + 1 .. Len(queue) : j = 1 \/ j \in 1 + 1 .. Len(queue)
      BY <1>2
    <3>2. 1 \in 0 + 1 .. Len(queue) /\ \A j \in 1 + 1 .. Len(queue) : j \in 0 + 1 .. Len(queue)
      BY <1>2
    <3> QED BY <3>1, <3>2 DEF c
  <2> QED BY <2>1 DEF Gone, RemovalAfter
<1>12. 0 \in Places /\ 1 \in Places /\ Places' = -1 .. Len(queue) - 1
  BY <1>2 DEF Places
\* Where they were.
<1>13. ASSUME NEW i \in Places', NEW g \in Wanted, There(i, g)'
       PROVE  \E j \in Places : /\ There(j, g) /\ (Gone(i, g.serial)' <=> Gone(j, g.serial))
                                /\ \/ i = -1 /\ j = -1
                                   \/ i >= 0 /\ j = i + 1
                                   \/ i = 0 /\ j = 0
  <2>1. CASE i = -1
    <3>1. There(-1, g)
      BY <1>1, <1>2, <1>13, <2>1 DEF There
    <3>2. -1 \in Places /\ ~ Gone(-1, g.serial) /\ ~ Gone(i, g.serial)'
      BY <1>2, <2>1 DEF Places, Gone
    <3> QED BY <2>1, <3>1, <3>2
  <2>2. CASE i \in DOMAIN queue'
    <3>1. queue'[i] = Spawn(g)
      BY <1>2, <1>13, <2>2 DEF There
    <3>2. i + 1 \in DOMAIN queue /\ i + 1 \in Places /\ i \in Int /\ i >= 0
      BY <1>2, <2>2 DEF Places
    <3>3. There(i + 1, g)
      BY <1>2, <2>2, <3>1, <3>2 DEF There
    <3> QED BY <1>10, <3>2, <3>3
  <2>3. CASE i = 0
    <3>0. /\ Gone(i, g.serial)' <=> Gone(1, g.serial)
          /\ g.zone \in Zones /\ g.serial \in AllSerials /\ g.by \in Owners
      BY <1>10, <2>3 DEF Wanted
    <3>1. Stands(world[g.zone][g.serial], g.by)' \/ Stands(saved[g.zone][g.serial], g.by)
      BY <1>1, <1>2, <1>13, <2>3 DEF There
    <3>2. CASE c.op = "spawn" /\ g = h
      <4>1. There(1, g)
        BY <1>2, <1>5, <3>2 DEF There, c
      <4> QED BY <1>12, <2>3, <3>0, <4>1
    <3>3. CASE ~ (c.op = "spawn" /\ g = h)
      <4>1. There(0, g)
        <5>1. CASE g.zone = h.zone /\ g.serial = h.serial
          <6>1. CASE c.op = "spawn"
            <7>1. g.by # h.by
              BY <1>3, <3>3, <5>1, <6>1 DEF Wanted
            <7> QED BY <1>7, <3>0, <3>1, <5>1, <6>1, <7>1 DEF There, Stands
          <6>2. CASE c.op # "spawn"
            BY <1>7, <3>0, <3>1, <5>1, <6>2 DEF There, Stands
          <6> QED BY <6>1, <6>2
        <5>2. CASE ~ (g.zone = h.zone /\ g.serial = h.serial)
          BY <1>7, <3>0, <3>1, <5>2 DEF There, Stands
        <5> QED BY <5>1, <5>2
      <4>2. c # Remove(g.serial)
        <5> SUFFICES ASSUME c = Remove(g.serial) PROVE FALSE
          OBVIOUS
        <5>1. Gone(0, g.serial)
          BY <1>11
        <5>2. g.by = "script"
          BY <1>12, <3>0, <4>1, <5>1 DEF CInv, OthersLogged, Owners
        <5>3. "scripts" \in scene /\ g.zone = ScriptZone
          BY <1>12, <4>1, <5>2 DEF CInv, ScriptsLogged
        <5>4. scene = {"scripts"}
          BY <5>3, CalmScenes
        <5>5. saved[g.zone][g.serial] = None
          BY <3>0, <5>4 DEF CInv, WorldCalm, Nobody
        <5>6. world'[g.zone][g.serial] = None
          <6>1. world'[g.zone][g.serial] = new /\ c.op # "spawn" /\ h.zone = g.zone /\ h.serial = g.serial
            BY <1>6, <1>7, <3>0, <5>3
          <6> QED BY <3>0, <5>3, <6>1 DEF CInv, WorldCalm
        <5> QED BY <3>1, <5>5, <5>6 DEF Stands
      <4> QED BY <1>11, <1>12, <2>3, <3>0, <4>1, <4>2
    <3> QED BY <3>2, <3>3
  <2>4. i = -1 \/ i = 0 \/ i \in DOMAIN queue'
    BY <1>13 DEF There
  <2> QED BY <2>1, <2>2, <2>3, <2>4
<1>14. OthersLogged'
  BY <1>8, <1>13 DEF CInv, OthersLogged
<1>15. ScriptsLogged'
  BY <1>1, <1>8, <1>12, <1>13 DEF CInv, ScriptsLogged
<1>16. Unique'
  <2> SUFFICES ASSUME NEW i \in Places', NEW l \in Places', NEW f \in Wanted, NEW g \in Wanted,
                      Staying(i, f)', Staying(l, g)', f.serial = g.serial
               PROVE  i = l /\ f = g
    BY DEF Unique
  <2>1. PICK j \in Places : Staying(j, f) /\ ((i = -1 /\ j = -1) \/ (i >= 0 /\ j = i + 1) \/ (i = 0 /\ j = 0))
    BY <1>13 DEF Staying
  <2>2. PICK k \in Places : Staying(k, g) /\ ((l = -1 /\ k = -1) \/ (l >= 0 /\ k = l + 1) \/ (l = 0 /\ k = 0))
    BY <1>13 DEF Staying
  <2>3. j = k /\ f = g
    BY <2>1, <2>2 DEF CInv, Unique
  <2>4. i \in Int /\ l \in Int
    BY <1>12, <1>2
  <2> QED BY <2>1, <2>2, <2>3, <2>4
<1> QED BY <1>8, <1>9, <1>14, <1>15, <1>16 DEF CInv


\* A player keeps an item, or an entity is transferred, where no scripts run.
LEMMA PlayersCalm ==
  ASSUME IInv, TInv, Calm, CInv, NEW n \in AllSerials,
         (\E z \in Zones : Keep(z, n)) \/ \E y, z \in Zones : Transfer(n, y, z)
  PROVE  CInv'
<1>1. /\ UNCHANGED <<scene, log, persistent, held, queue, saved, worker, manager>>
      /\ "scripts" \notin scene
  <2>1. "keep" \in scene \/ "transfer" \in scene
    BY DEF Keep, Transfer, Allowed
  <2>2. "scripts" \notin scene
    BY <2>1, CalmScenes
  <2>3. UNCHANGED <<scene, log, persistent, held, queue, saved, worker, manager>>
    BY DEF Keep, Transfer, allocator
  <2> QED BY <2>2, <2>3
<1>2. Base' = Base /\ Recent' = Recent /\ (Running' <=> Running) /\ ManagerCalm' /\ WorldCalm' /\ Places' = Places
  BY <1>1 DEF Base, Recent, Running, Places, CInv, ManagerCalm, WorldCalm
<1>3. \A i, m : Gone(i, m)' <=> Gone(i, m)
  BY <1>1 DEF Gone, RemovalAfter
<1>4. world \in Worlds
  BY DEF TInv
<1>5. ASSUME NEW z \in Zones, Keep(z, n)
      PROVE  CInv'
  <2>1. world' = [world EXCEPT ![z][n].kept = TRUE] /\ world[z][n] # None
    BY <1>5 DEF Keep
  <2>2. world[z][n] \in Entity
    BY <1>4, <2>1 DEF Worlds, Cells
  <2>3. world'[z][n].by = world[z][n].by
    BY <1>4, <2>1, <2>2 DEF Worlds, Entity
  <2>4. \A y \in Zones, m \in AllSerials : y # z \/ m # n => world'[y][m] = world[y][m]
    BY <1>4, <2>1 DEF Worlds
  <2>5. \A h \in Wanted : Stands(world'[h.zone][h.serial], h.by) => Stands(world[h.zone][h.serial], h.by)
    BY <2>1, <2>3, <2>4 DEF Wanted, Stands
  <2>6. ASSUME NEW i \in Places', NEW h \in Wanted, There(i, h)'
        PROVE  There(i, h) /\ ~ (i = -1 /\ h.by = "script")
    <3>1. There(i, h)
      BY <1>1, <2>5, <2>6 DEF There, Stands
    <3> QED BY <1>1, <1>2, <3>1 DEF CInv, ScriptsLogged
  <2> QED BY <1>1, <1>2, <1>3, <2>6, AllStay
<1>6. ASSUME NEW y \in Zones, NEW z \in Zones, Transfer(n, y, z)
      PROVE  CInv'
  <2>1. /\ world' = [world EXCEPT ![y][n] = None, ![z][n] = world[y][n]] /\ y # z
        /\ world[y][n] # None /\ "transfer" \in scene
    BY <1>6 DEF Transfer, Allowed
  <2>2. \A x \in Zones, m \in AllSerials : saved[x][m] = None
    BY <2>1, CalmScenes DEF CInv, WorldCalm, Nobody
  <2>3. /\ world'[y][n] = None /\ world'[z][n] = world[y][n]
        /\ \A x \in Zones, m \in AllSerials : m # n \/ x \notin {y, z} => world'[x][m] = world[x][m]
    BY <1>4, <2>1 DEF Worlds
  <2>4. ASSUME NEW i \in Places, NEW h \in Wanted, There(i, h)'
        PROVE  \/ There(i, h) /\ ~ (i = 0 /\ h.serial = n /\ h.zone \in {y, z})
               \/ /\ i = 0 /\ h.serial = n /\ h.zone = z
                  /\ [h EXCEPT !.zone = y] \in Wanted /\ There(0, [h EXCEPT !.zone = y])
    <3>0. h.zone \in Zones /\ h.serial \in AllSerials /\ h.by \in Owners
      BY DEF Wanted
    <3>1. CASE i = 0 /\ h.serial = n /\ h.zone \in {y, z}
      <4>1. \A l \in DOMAIN queue : l # 0
        BY QueuePlaces
      <4>2. Stands(world'[h.zone][n], h.by) \/ Stands(saved[h.zone][n], h.by)
        BY <1>1, <2>4, <3>1, <4>1 DEF There
      <4>3. h.zone = z /\ Stands(world[y][n], h.by)
        BY <2>2, <2>3, <3>0, <3>1, <4>2 DEF Stands
      <4>4. [h EXCEPT !.zone = y] \in Wanted /\ [h EXCEPT !.zone = y].zone = y
            /\ [h EXCEPT !.zone = y].serial = n /\ [h EXCEPT !.zone = y].by = h.by
        BY <3>1 DEF Wanted
      <4> QED BY <3>1, <4>3, <4>4 DEF There
    <3>2. CASE i = 0 /\ ~ (h.serial = n /\ h.zone \in {y, z})
      BY <1>1, <2>3, <2>4, <3>0, <3>2 DEF There
    <3>3. CASE i # 0
      BY <1>1, <2>4, <3>3 DEF There
    <3> QED BY <3>1, <3>2, <3>3
  <2>5. 0 \in Places
    BY QueuePlaces DEF Places
  <2>6. \A h \in Wanted : [h EXCEPT !.zone = y].by = h.by /\ [h EXCEPT !.zone = y].serial = h.serial
                          /\ [h EXCEPT !.zone = y].zone = y
    BY DEF Wanted
  <2>7. OthersLogged'
    BY <1>2, <1>3, <2>4, <2>5, <2>6 DEF CInv, OthersLogged
  <2>8. ScriptsLogged'
    BY <1>1, <1>2, <1>3, <2>4, <2>5, <2>6 DEF CInv, ScriptsLogged
  <2>9. Unique'
    <3> SUFFICES ASSUME NEW i \in Places, NEW j \in Places, NEW g \in Wanted, NEW h \in Wanted,
                        Staying(i, g)', Staying(j, h)', g.serial = h.serial
                 PROVE  i = j /\ g = h
      BY <1>2 DEF Unique
    <3> DEFINE gy == [g EXCEPT !.zone = y]
               hy == [h EXCEPT !.zone = y]
    <3>1. \/ Staying(i, g) /\ ~ (i = 0 /\ g.serial = n /\ g.zone \in {y, z})
          \/ i = 0 /\ g.serial = n /\ g.zone = z /\ gy \in Wanted /\ Staying(0, gy)
      BY <1>3, <2>4, <2>6 DEF Staying
    <3>2. \/ Staying(j, h) /\ ~ (j = 0 /\ h.serial = n /\ h.zone \in {y, z})
          \/ j = 0 /\ h.serial = n /\ h.zone = z /\ hy \in Wanted /\ Staying(0, hy)
      BY <1>3, <2>4, <2>6 DEF Staying
    <3>3. /\ gy.by = g.by /\ gy.serial = g.serial /\ gy.zone = y
          /\ hy.by = h.by /\ hy.serial = h.serial /\ hy.zone = y
      BY <2>6
    <3> HIDE DEF gy, hy
    <3>4. CASE Staying(i, g) /\ Staying(j, h)
      BY <3>4 DEF CInv, Unique
    <3>5. CASE i = 0 /\ g.serial = n /\ g.zone = z /\ gy \in Wanted /\ Staying(0, gy)
      <4>1. CASE j = 0 /\ h.serial = n /\ h.zone = z /\ hy \in Wanted /\ Staying(0, hy)
        <5>1. gy = hy
          BY <2>5, <3>3, <3>5, <4>1 DEF CInv, Unique
        <5>2. g.by = h.by
          BY <3>3, <5>1
        <5> QED BY <3>5, <4>1, <5>2 DEF Wanted
      <4>2. CASE Staying(j, h) /\ ~ (j = 0 /\ h.serial = n /\ h.zone \in {y, z})
        <5>1. j = 0 /\ gy = h
          BY <2>5, <3>3, <3>5, <4>2 DEF CInv, Unique
        <5> QED BY <3>3, <3>5, <4>2, <5>1
      <4> QED BY <3>2, <4>1, <4>2
    <3>6. CASE /\ j = 0 /\ h.serial = n /\ h.zone = z /\ hy \in Wanted /\ Staying(0, hy)
               /\ Staying(i, g) /\ ~ (i = 0 /\ g.serial = n /\ g.zone \in {y, z})
      <4>1. i = 0 /\ hy = g
        BY <2>5, <3>3, <3>6 DEF CInv, Unique
      <4> QED BY <3>3, <3>6, <4>1
    <3> QED BY <3>1, <3>2, <3>4, <3>5, <3>6
  <2> QED BY <1>2, <2>7, <2>8, <2>9 DEF CInv
<1> QED BY <1>5, <1>6

\* A zone is saved, or loaded, where no scripts run: who is in the save of a
\* zone carries its serial whether the zone is being loaded or not.
LEMMA LoadCalm ==
  ASSUME IInv, TInv, Calm, CInv,
         \/ Restored \/ \E n \in AllSerials : Mark(n)
         \/ \E z \in Zones : Save(z) \/ Restore(z)
  PROVE  CInv'
<1>1. /\ UNCHANGED <<scene, log, persistent, held, queue, manager>>
      /\ "load" \in scene /\ "scripts" \notin scene
  <2>1. worker # Serving \/ "load" \in scene
    BY DEF Restored, Mark, Save, Restore, Allowed, Serving
  <2>2. "load" \in scene
    BY <2>1 DEF CInv, WorldCalm
  <2> QED BY <2>2, CalmScenes DEF Restored, Mark, Save, Restore, allocator
<1>2. Base' = Base /\ Recent' = Recent /\ (Running' <=> Running) /\ ManagerCalm' /\ WorldCalm' /\ Places' = Places
  BY <1>1 DEF Base, Recent, Running, Places, CInv, ManagerCalm, WorldCalm
<1>3. \A i, m : Gone(i, m)' <=> Gone(i, m)
  BY <1>1 DEF Gone, RemovalAfter
<1>4. world \in Worlds /\ saved \in Worlds /\ worker.zone \in Zones /\ \A m \in AllSerials : Nobody[m] = None
  BY DEF TInv, Workers, Nobody
<1>5. \A z \in Zones, m \in AllSerials :
        /\ world'[z][m] = world[z][m] \/ world'[z][m] = None \/ world'[z][m] = saved[z][m]
        /\ saved'[z][m] = world[z][m] \/ saved'[z][m] = saved[z][m]
  <2>1. CASE Restored
    BY <1>4, <2>1 DEF Restored, Worlds
  <2>2. CASE \E n \in AllSerials : Mark(n)
    BY <2>2 DEF Mark
  <2>3. CASE \E z \in Zones : Save(z)
    BY <1>4, <2>3 DEF Save, Worlds
  <2>4. CASE \E z \in Zones : Restore(z)
    BY <1>4, <2>4 DEF Restore, Worlds
  <2> QED BY <2>1, <2>2, <2>3, <2>4
<1>6. ASSUME NEW i \in Places', NEW h \in Wanted, There(i, h)'
      PROVE  There(i, h) /\ ~ (i = -1 /\ h.by = "script")
  <2>1. There(i, h)
    <3>1. h.zone \in Zones /\ h.serial \in AllSerials
      BY DEF Wanted
    <3> QED BY <1>1, <1>5, <1>6, <3>1 DEF There, Stands
  <2> QED BY <1>1, <1>2, <2>1 DEF CInv, ScriptsLogged
<1> QED BY <1>1, <1>2, <1>3, <1>6, AllStay

LEMMA NextCalm ==
  ASSUME IInv, TInv, Calm => CInv, [Next]_vars
  PROVE  Calm' => CInv'
<1>1. scene' = scene
  BY DEF Next, vars, Manager, StartScript, StopScript, StopPanics, FreeNext, Freed, SendRemove, Stopped,
         Worker, Handle, Restored, Mark, Keep, Transfer, Save, Restore, ResetZone, Users, Alloc, Send, Persist
<1> SUFFICES ASSUME Calm PROVE CInv'
  BY <1>1 DEF Calm
<1>2. CASE UNCHANGED vars
  <2>1. Base' = Base /\ Recent' = Recent /\ (Running' <=> Running) /\ ManagerCalm' /\ WorldCalm' /\ Places' = Places
    BY <1>2 DEF vars, Base, Recent, Running, Places, CInv, ManagerCalm, WorldCalm
  <2>2. \A i, m : (Gone(i, m)' <=> Gone(i, m)) /\ \A h : There(i, h)' <=> There(i, h)
    BY <1>2 DEF vars, Gone, RemovalAfter, There
  <2>3. \A i \in Places, h \in Wanted : There(i, h) /\ i = -1 /\ h.by = "script" => Running
    BY DEF CInv, ScriptsLogged
  <2> QED BY <1>2, <2>1, <2>2, <2>3, AllStay DEF vars
<1>3. CASE Manager
  BY <1>3, ManagerStepCalm
<1>4. CASE Users
  BY <1>4, UsersStepCalm
<1>5. CASE Worker
  <2>1. \A z \in Zones : ~ ResetZone(z)
    BY CalmScenes DEF ResetZone, Allowed
  <2> QED BY <1>5, <2>1, HandleCalm, PlayersCalm, LoadCalm DEF Worker
<1> QED BY <1>2, <1>3, <1>4, <1>5 DEF Next

LEMMA CalmAlways == Spec => [](IInv /\ TInv /\ (Calm => CInv))
<1>1. Init => (Calm => CInv)
  BY InitCalm
<1>2. IInv /\ TInv /\ (Calm => CInv) /\ [Next]_vars => (Calm => CInv)'
  BY NextCalm
<1> QED BY <1>1, <1>2, TypedAlways, PTL DEF Spec

\* Two that carry the same serial are one.
LEMMA OneBearer ==
  ASSUME IInv, TInv, CInv, NEW n \in AllSerials, NEW b \in Bearers(n)
  PROVE  Bearers(n) = {b} /\ n \notin Available
<1>1. ASSUME NEW a \in Bearers(n)
      PROVE  \E i \in Places, h \in Wanted :
               /\ Staying(i, h) /\ h.serial = n
               /\ \/ i = -1 /\ a = <<"held", h>>
                  \/ i > 0 /\ a = <<"sent", i>>
                  \/ i = 0 /\ a = <<"in", h.zone>>
  <2>0. /\ Len(queue) \in Nat /\ DOMAIN queue = 1 .. Len(queue) /\ held \subseteq Wanted
        /\ queue \in Seq(Commands) /\ world \in Worlds
    BY QueuePlaces DEF TInv
  <2>1. ASSUME NEW h \in held, h.serial = n, a = <<"held", h>>
        PROVE  Staying(-1, h) /\ -1 \in Places /\ h \in Wanted
    BY <2>0, <2>1 DEF Staying, There, Gone, Places
  <2>2. ASSUME NEW i \in DOMAIN queue, queue[i].op = "spawn", queue[i].of.serial = n, ~ RemovalAfter(i, n)
        PROVE  Staying(i, queue[i].of) /\ i \in Places /\ i > 0 /\ queue[i].of \in Wanted
    <3>1. queue[i] \in Commands
      BY <2>0, ElementOfSeq
    <3>2. queue[i] = Spawn(queue[i].of) /\ queue[i].of \in Wanted
      BY <2>2, <3>1 DEF Commands, Spawn
    <3> QED BY <2>0, <2>2, <3>2 DEF Staying, There, Gone, Places
  <2>3. ASSUME NEW z \in Zones, world[z][n] # None, ~ RemovalAfter(0, n)
        PROVE  \E h \in Wanted : Staying(0, h) /\ h.serial = n /\ h.zone = z /\ 0 \in Places
    <3> DEFINE h == [serial |-> n, by |-> world[z][n].by, zone |-> z]
    <3>1. world[z][n] \in Entity
      BY <2>0, <2>3 DEF Worlds, Cells
    <3>2. h \in Wanted /\ h.serial = n /\ h.zone = z /\ h.by = world[z][n].by
      BY <3>1 DEF Wanted, Entity
    <3> HIDE DEF h
    <3>3. Staying(0, h)
      BY <2>3, <3>2 DEF Staying, There, Gone, Stands
    <3>4. 0 \in Places
      BY <2>0 DEF Places
    <3> QED BY <3>2, <3>3, <3>4
  <2>4. \/ \E h \in held : h.serial = n /\ a = <<"held", h>>
        \/ \E i \in DOMAIN queue : queue[i].op = "spawn" /\ queue[i].of.serial = n /\ ~ RemovalAfter(i, n) /\ a = <<"sent", i>>
        \/ \E z \in Zones : world[z][n] # None /\ ~ RemovalAfter(0, n) /\ a = <<"in", z>>
    BY <1>1 DEF Bearers
  <2> QED BY <2>1, <2>2, <2>3, <2>4
<1>2. \A a \in Bearers(n) : a = b
  <2> SUFFICES ASSUME NEW a \in Bearers(n) PROVE a = b
    OBVIOUS
  <2>1. PICK i \in Places, g \in Wanted :
          /\ Staying(i, g) /\ g.serial = n
          /\ \/ i = -1 /\ a = <<"held", g>>
             \/ i > 0 /\ a = <<"sent", i>>
             \/ i = 0 /\ a = <<"in", g.zone>>
    BY <1>1
  <2>2. PICK j \in Places, h \in Wanted :
          /\ Staying(j, h) /\ h.serial = n
          /\ \/ j = -1 /\ b = <<"held", h>>
             \/ j > 0 /\ b = <<"sent", j>>
             \/ j = 0 /\ b = <<"in", h.zone>>
    BY <1>1
  <2>3. i = j /\ g = h
    BY <2>1, <2>2 DEF CInv, Unique
  <2> QED BY <2>1, <2>2, <2>3
<1>3. n \notin Available
  <2>1. PICK i \in Places, h \in Wanted : Staying(i, h) /\ h.serial = n
    BY <1>1
  <2>2. n \in Base \cup Recent
    BY <2>1 DEF CInv, OthersLogged, ScriptsLogged, Staying, Wanted, Owners
  <2>3. n \in Names(log) \cup Names(manager.todo)
    BY <2>2, TwoParts DEF CInv
  <2> QED BY <2>3 DEF IInv, Sound, LogSound
<1> QED BY <1>2, <1>3

\* In a calm scenario no two entities that are there to stay share a serial,
\* wherever they are -- allocated, sent or in a zone -- and theirs is not free.
THEOREM NobodyShares == Spec => []NoSharedSerial
<1>1. IInv /\ TInv /\ (Calm => CInv) => NoSharedSerial
  <2> SUFFICES ASSUME IInv, TInv, Calm, CInv, NEW n \in AllSerials, Bearers(n) # {}
               PROVE  Cardinality(Bearers(n)) = 1 /\ n \notin Available
    BY DEF NoSharedSerial, NoSharedSerialAlways
  <2>1. PICK b : b \in Bearers(n)
    OBVIOUS
  <2>2. Bearers(n) = {b} /\ n \notin Available
    BY <2>1, OneBearer
  <2>3. Cardinality({b}) = 1
    BY ONLY FS_Singleton, Zenon
  <2> QED BY <2>2, <2>3
<1> QED BY <1>1, CalmAlways, PTL

\* When a stopped script's removals are handled, what is left of it is persistent.
THEOREM NothingLeftBehind == Spec => []CleansUp
<1>1. IInv /\ TInv /\ (Calm => CInv) => CleansUp
  <2> SUFFICES ASSUME IInv, TInv, Calm => CInv, scene = {"scripts"}, manager.stage = "stopped", queue = <<>>,
                      NEW n \in AllSerials, world[ScriptZone][n] # None, world[ScriptZone][n].by = "script"
               PROVE  n \in persistent
    BY DEF CleansUp
  <2>1. CInv
    BY DEF Calm
  <2> DEFINE h == [serial |-> n, by |-> "script", zone |-> ScriptZone]
  <2>2. h \in Wanted /\ h.serial = n /\ h.by = "script" /\ h.zone = ScriptZone
    BY SerialsAssumption DEF Wanted, Owners
  <2> HIDE DEF h
  <2>3. There(0, h) /\ 0 \in Places
    BY <2>2, QueuePlaces DEF There, Stands, Places
  <2>4. manager.freed = <<>> /\ manager.todo = <<>>
    BY <2>1 DEF CInv, ManagerCalm, IInv
  <2>5. ~ Gone(0, n)
    <3>1. Len(queue) = 0 /\ DOMAIN manager.freed = {}
      BY <2>4
    <3> QED BY <3>1 DEF Gone, RemovalAfter
  <2>6. Recent = {}
    BY <2>4 DEF Recent, Running, Names
  <2> QED BY <2>1, <2>2, <2>3, <2>5, <2>6 DEF CInv, ScriptsLogged
<1> QED BY <1>1, CalmAlways, PTL
=============================================================================
