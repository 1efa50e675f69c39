----------------------------- MODULE FreeRanges -----------------------------
(***************************************************************************)
(* RangeAllocator (examples/common/src/uo_engine/serial_alloc.rs): the     *)
(* free serials of one kind, as a record [free, count]: free is the        *)
(* BTreeMap, a function from the start of each free range to its exclusive *)
(* end; count is free_count.                                               *)
(***************************************************************************)
EXTENDS Integers, FiniteSets

Covered(free) == UNION {s .. free[s] - 1 : s \in DOMAIN free}

\* BTreeMap::remove, and insert where the range is not empty.
Drop(free, s)   == [x \in DOMAIN free \ {s} |-> free[x]]
\* (PutEmpty is a mutant.)
PutEmpty(free, s, e) == [x \in DOMAIN free \cup {s} |-> IF x = s THEN e ELSE free[x]]
Put(free, s, e) == IF s >= e THEN free
                   ELSE [x \in DOMAIN free \cup {s} |-> IF x = s THEN e ELSE free[x]]

\* range(..=n).next_back(): the last range that starts at n or before.
IsFloor(free, n, s) == /\ s \in DOMAIN free /\ s <= n
                       /\ \A t \in DOMAIN free : t <= n => t <= s
IsFirst(free, s) == s \in DOMAIN free /\ \A t \in DOMAIN free : s <= t

Whole(lo, hi) == [free |-> [s \in {lo} |-> hi], count |-> hi - lo]

\* Mutant: what is behind n is lost.
CutShort(r, n, s) == [free  |-> Put(Drop(r.free, s), s, n),
                      count |-> r.count - (r.free[s] - s) + (n - s)]

\* mark_occupied: the range around n is cut in two.
Cut(r, n, s) == [free  |-> Put(Put(Drop(r.free, s), s, n), n + 1, r.free[s]),
                 count |-> r.count - (r.free[s] - s) + (n - s) + (r.free[s] - n - 1)]
MarkOccupied(r, n) ==
  IF \E s \in DOMAIN r.free : IsFloor(r.free, n, s) /\ n < r.free[s]
  THEN Cut(r, n, CHOOSE s \in DOMAIN r.free : IsFloor(r.free, n, s))
  ELSE r

\* alloc_one returns the start s of the first range and shortens it.
AllocOne(r, s) == [free  |-> Put(Drop(r.free, s), s + 1, r.free[s]),
                   count |-> r.count - 1]

\* free_one: n joins the range that starts behind it and the one that ends at it.
EndFrom(free, n)   == IF n + 1 \in DOMAIN free THEN free[n + 1] ELSE n + 1
StartFor(free, n)  ==
  IF \E s \in DOMAIN free : IsFloor(free, n, s) /\ free[s] = n
  THEN CHOOSE s \in DOMAIN free : IsFloor(free, n, s)
  ELSE n
Joined(r, n, s, e) ==
  [free  |-> Put(Drop(Drop(r.free, n + 1), s), s, e),
   count |-> r.count - (e - n - 1) - (n - s) + (e - s)]
\* (FreeOneAlone is a mutant: the ranges are not merged.)
FreeOneAlone(r, n) == Joined(r, n, n, n + 1)
FreeOne(r, n) == Joined(r, n, StartFor(Drop(r.free, n + 1), n), EndFrom(r.free, n))

\* What the module owes to its callers: ranges that are not empty and do not
\* touch, and their total length.
WellFormed(r) ==
  /\ \A s \in DOMAIN r.free : s \in Nat /\ r.free[s] \in Nat /\ s < r.free[s]
  /\ \A s, t \in DOMAIN r.free : s < t => r.free[s] < t
  /\ IsFiniteSet(Covered(r.free))
  /\ r.count = Cardinality(Covered(r.free))
=============================================================================
