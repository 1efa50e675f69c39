--------------------------- MODULE ObservationProofs ---------------------------
(***************************************************************************)
(* The player sees what is in view where it is, and registry, session,     *)
(* zone and client agree, for any number of mobiles, any map, any size of  *)
(* blocks and views and any bound on what is under way.                    *)
(***************************************************************************)
EXTENDS Observation, FiniteSetTheorems, SequenceTheorems, WellFoundedInduction, TLAPS

-----------------------------------------------------------------------------
(* Rectangles of tiles *)

LEMMA RectBounds ==
  ASSUME NEW a \in Rect
  PROVE  /\ a.x_min \in 0 .. MaxCoord /\ a.x_max \in 0 .. MaxCoord /\ a.x_min <= a.x_max
         /\ a.y_min \in 0 .. MaxCoord /\ a.y_max \in 0 .. MaxCoord /\ a.y_min <= a.y_max
BY DEF Rect, Coord

LEMMA StripIsRect ==
  ASSUME NEW x0 \in 0 .. MaxCoord, NEW x1 \in 0 .. MaxCoord,
         NEW y0 \in 0 .. MaxCoord, NEW y1 \in 0 .. MaxCoord,
         x0 <= x1, y0 <= y1
  PROVE  Strip(x0, y0, x1, y1) \in Rect
BY DEF Rect, Coord, Strip

LEMMA StripContains ==
  ASSUME NEW x0, NEW y0, NEW x1, NEW y1, NEW t
  PROVE  ContainsPos(Strip(x0, y0, x1, y1), t)
           <=> x0 <= t.x /\ t.x <= x1 /\ y0 <= t.y /\ t.y <= y1
BY DEF ContainsPos, Strip

\* What each strip holds, given that the rectangles overlap.
LEMMA WhatStripsHold ==
  ASSUME NEW a \in Rect, NEW b \in Rect, NEW t \in Tile, Overlaps(a, b)
  PROVE  LET Shared == b.y_min <= t.y /\ t.y <= b.y_max
             Held(S) == \E r \in S : ContainsPos(r, t)
         IN  /\ Held(Above(a, b)) <=> ContainsPos(a, t) /\ t.y < b.y_min
             /\ Held(Below(a, b)) <=> ContainsPos(a, t) /\ t.y > b.y_max
             /\ Held(LeftOf(a, b)) <=> ContainsPos(a, t) /\ t.x < b.x_min /\ Shared
             /\ Held(RightOf(a, b)) <=> ContainsPos(a, t) /\ t.x > b.x_max /\ Shared
             /\ ContainsPos(b, t) <=> b.x_min <= t.x /\ t.x <= b.x_max /\ Shared
<1> DEFINE Shared == b.y_min <= t.y /\ t.y <= b.y_max
           Held(S) == \E r \in S : ContainsPos(r, t)
<1>1. /\ t.x \in Int /\ t.y \in Int
      /\ \A r \in {a, b} : /\ r.x_min \in Int /\ r.x_max \in Int /\ r.x_min <= r.x_max
                            /\ r.y_min \in Int /\ r.y_max \in Int /\ r.y_min <= r.y_max
  BY RectBounds, MaxCoordAssumption DEF Tile, Coord
<1>2. ContainsPos(a, t) <=> a.x_min <= t.x /\ t.x <= a.x_max /\ a.y_min <= t.y /\ t.y <= a.y_max
  BY DEF ContainsPos
<1>3. Held(Above(a, b)) <=> ContainsPos(a, t) /\ t.y < b.y_min
  <2>1. Held(Above(a, b)) <=> /\ a.y_min < b.y_min
                              /\ ContainsPos(Strip(a.x_min, a.y_min, a.x_max, b.y_min - 1), t)
    BY DEF Above
  <2> QED BY <2>1, <1>1, <1>2, StripContains DEF Overlaps
<1>4. Held(Below(a, b)) <=> ContainsPos(a, t) /\ t.y > b.y_max
  <2>1. Held(Below(a, b)) <=> /\ a.y_max > b.y_max
                              /\ ContainsPos(Strip(a.x_min, b.y_max + 1, a.x_max, a.y_max), t)
    BY DEF Below
  <2> QED BY <2>1, <1>1, <1>2, StripContains DEF Overlaps
<1>5. (Top(a, b) <= t.y /\ t.y <= Bottom(a, b))
         <=> Shared /\ a.y_min <= t.y /\ t.y <= a.y_max
  BY <1>1 DEF Top, Bottom, Lower, Higher
<1>6. Held(LeftOf(a, b)) <=> ContainsPos(a, t) /\ t.x < b.x_min /\ Shared
  <2>1. Held(LeftOf(a, b))
          <=> /\ a.x_min < b.x_min
              /\ ContainsPos(Strip(a.x_min, Top(a, b), b.x_min - 1, Bottom(a, b)), t)
    BY DEF LeftOf
  <2> HIDE DEF Shared
  <2> QED BY <2>1, <1>1, <1>2, <1>5, StripContains DEF Overlaps
<1>7. Held(RightOf(a, b)) <=> ContainsPos(a, t) /\ t.x > b.x_max /\ Shared
  <2>1. Held(RightOf(a, b))
          <=> /\ a.x_max > b.x_max
              /\ ContainsPos(Strip(b.x_max + 1, Top(a, b), a.x_max, Bottom(a, b)), t)
    BY DEF RightOf
  <2> HIDE DEF Shared
  <2> QED BY <2>1, <1>1, <1>2, <1>5, StripContains DEF Overlaps
<1>8. ContainsPos(b, t) <=> b.x_min <= t.x /\ t.x <= b.x_max /\ Shared
  BY DEF ContainsPos
<1> QED BY <1>3, <1>4, <1>6, <1>7, <1>8

\* The rectangle of a view is well formed and holds the tile it is built
\* around, wherever saturating_sub and saturating_add cut it off.
THEOREM ViewIsRect ==
  ASSUME NEW t \in Tile, NEW range \in Nat
  PROVE  FromView(t, range) \in Rect /\ ContainsPos(FromView(t, range), t)
BY MaxCoordAssumption DEF Tile, Coord, FromView, Rect, ContainsPos, Lower, Higher

\* The strips of a difference are rectangles of the map: neither `min - 1` nor
\* `max + 1` leaves the u16 range, and none is empty.
THEOREM DifferenceIsRects ==
  ASSUME NEW a \in Rect, NEW b \in Rect
  PROVE  Difference(a, b) \subseteq Rect
<1>1. CASE ~ Overlaps(a, b)
  BY <1>1 DEF Difference
<1>2. CASE Overlaps(a, b)
  <2>1. /\ a.x_min \in 0 .. MaxCoord /\ a.x_max \in 0 .. MaxCoord /\ a.x_min <= a.x_max
        /\ a.y_min \in 0 .. MaxCoord /\ a.y_max \in 0 .. MaxCoord /\ a.y_min <= a.y_max
        /\ b.x_min \in 0 .. MaxCoord /\ b.x_max \in 0 .. MaxCoord /\ b.x_min <= b.x_max
        /\ b.y_min \in 0 .. MaxCoord /\ b.y_max \in 0 .. MaxCoord /\ b.y_min <= b.y_max
    BY RectBounds
  <2>2. Above(a, b) \subseteq Rect
    BY <2>1, StripIsRect, MaxCoordAssumption DEF Above
  <2>3. Below(a, b) \subseteq Rect
    BY <2>1, StripIsRect, MaxCoordAssumption DEF Below
  <2>4. Top(a, b) \in 0 .. MaxCoord /\ Bottom(a, b) \in 0 .. MaxCoord
        /\ Top(a, b) <= Bottom(a, b)
    BY <1>2, <2>1, MaxCoordAssumption DEF Top, Bottom, Overlaps, Lower, Higher
  <2>5. LeftOf(a, b) \subseteq Rect
    BY <2>1, <2>4, StripIsRect, MaxCoordAssumption DEF LeftOf
  <2>6. RightOf(a, b) \subseteq Rect
    BY <2>1, <2>4, StripIsRect, MaxCoordAssumption DEF RightOf
  <2> QED BY <1>2, <2>2, <2>3, <2>5, <2>6 DEF Difference
<1> QED BY <1>1, <1>2

\* "together cover exactly the set difference": a tile is in some strip of
\* self.difference(other) when it is in self and not in other.
THEOREM DifferenceCovers ==
  ASSUME NEW a \in Rect, NEW b \in Rect, NEW t \in Tile
  PROVE  (\E r \in Difference(a, b) : ContainsPos(r, t))
           <=> ContainsPos(a, t) /\ ~ ContainsPos(b, t)
<1>1. t.x \in Int /\ t.y \in Int /\ \A r \in {a, b} :
        r.x_min \in Int /\ r.x_max \in Int /\ r.y_min \in Int /\ r.y_max \in Int
  BY RectBounds, MaxCoordAssumption DEF Tile, Coord
<1>2. CASE ~ Overlaps(a, b)
  <2>1. ContainsPos(a, t) => ~ ContainsPos(b, t)
    BY <1>1, <1>2 DEF Overlaps, ContainsPos
  <2> QED BY <1>2, <2>1 DEF Difference
<1>3. CASE Overlaps(a, b)
  <2> DEFINE Shared == b.y_min <= t.y /\ t.y <= b.y_max
  <2>1. ~ ContainsPos(b, t)
           <=> t.y < b.y_min \/ t.y > b.y_max \/ (Shared /\ (t.x < b.x_min \/ t.x > b.x_max))
    BY <1>1, <1>3, WhatStripsHold
  <2> QED BY <1>3, <2>1, WhatStripsHold DEF Difference
<1> QED BY <1>2, <1>3

\* "non-overlapping": no tile is in two strips, so no entity is streamed twice.
THEOREM StripsDisjoint ==
  ASSUME NEW a \in Rect, NEW b \in Rect,
         NEW r \in Difference(a, b), NEW s \in Difference(a, b), NEW t \in Tile,
         ContainsPos(r, t), ContainsPos(s, t)
  PROVE  r = s
<1>1. CASE ~ Overlaps(a, b)
  BY <1>1 DEF Difference
<1>2. CASE Overlaps(a, b)
  <2>1. t.x \in Int /\ t.y \in Int /\ b.x_min \in Int /\ b.x_max \in Int
        /\ b.y_min \in Int /\ b.y_max \in Int /\ b.x_min <= b.x_max /\ b.y_min <= b.y_max
    BY RectBounds, MaxCoordAssumption DEF Tile, Coord
  <2>2. \/ r \in Above(a, b) /\ s \in Above(a, b)
        \/ r \in Below(a, b) /\ s \in Below(a, b)
        \/ r \in LeftOf(a, b) /\ s \in LeftOf(a, b)
        \/ r \in RightOf(a, b) /\ s \in RightOf(a, b)
    BY <1>2, <2>1, WhatStripsHold DEF Difference
  <2> QED BY <2>2 DEF Above, Below, LeftOf, RightOf
<1> QED BY <1>1, <1>2

-----------------------------------------------------------------------------
(* Induction along sequences *)

\* Least elements, from the well-founded order of the intervals 0 .. k: what
\* is shown by induction below is shown of a least counterexample.
LEMMA Least ==
  ASSUME NEW T \in SUBSET Nat, T # {}
  PROVE  \E x \in T : \A y \in T : x <= y
<1>1. PICK n \in T : TRUE
  OBVIOUS
<1> DEFINE I == {0 .. k : k \in T}
           W == FiniteSubsetsOf(Nat)
           R == StrictSubsetOrdering(Nat)
<1>2. I \subseteq W /\ I # {}
  <2>1. ASSUME NEW k \in T
        PROVE  0 .. k \in W
    <3>1. IsFiniteSet(0 .. k)
      BY FS_Interval, k \in Int
    <3> QED BY <3>1 DEF FiniteSubsetsOf
  <2> QED BY <2>1, <1>1
<1>3. IsWellFoundedOn(R, W)
  BY FS_StrictSubsetOrderingWellFounded
<1>4. \E x \in I : \A y \in I : ~ (<<y, x>> \in R)
  <2> HIDE DEF I, R, W
  <2> QED BY <1>2, <1>3, WFMin
<1>5. PICK k \in T : \A j \in T : ~ (<<0 .. j, 0 .. k>> \in R)
  BY <1>4
<1>6. ASSUME NEW j \in T, j < k
      PROVE  FALSE
  <2>1. 0 .. j \subseteq 0 .. k /\ 0 .. j # 0 .. k
    <3>1. k \in 0 .. k /\ k \notin 0 .. j
      BY <1>6
    <3> QED BY <3>1, <1>6
  <2>2. <<0 .. j, 0 .. k>> \in R
    BY <2>1 DEF StrictSubsetOrdering
  <2> QED BY <2>2, <1>5
<1> QED BY <1>5, <1>6

LEMMA Induction ==
  ASSUME NEW T \in SUBSET Nat, 0 \in T, \A n \in T : n + 1 \in T
  PROVE  T = Nat
<1> SUFFICES ASSUME Nat \ T # {} PROVE FALSE
  OBVIOUS
<1>1. PICK x \in Nat \ T : \A y \in Nat \ T : x <= y
  BY Least, Nat \ T \in SUBSET Nat
<1>2. x - 1 \in Nat /\ x - 1 \notin Nat \ T
  BY <1>1
<1>3. x - 1 + 1 = x
  BY <1>1
<1> QED BY <1>1, <1>2, <1>3

\* Two recursions that start alike and go on alike.
LEMMA GoOnAlike ==
  ASSUME NEW f, NEW g, NEW n \in Nat,
         f[0] = g[0],
         \A i \in 1 .. n : f[i - 1] = g[i - 1] => f[i] = g[i]
  PROVE  f[n] = g[n]
<1> DEFINE T == {k \in Nat : k <= n => f[k] = g[k]}
<1>1. 0 \in T
  OBVIOUS
<1>2. ASSUME NEW k \in T PROVE k + 1 \in T
  <2> SUFFICES ASSUME k + 1 <= n PROVE f[k + 1] = g[k + 1]
    OBVIOUS
  <2>1. k + 1 \in 1 .. n /\ k + 1 - 1 = k /\ f[k] = g[k]
    OBVIOUS
  <2> QED BY <2>1
<1>3. T = Nat
  <2> HIDE DEF T
  <2>1. T \in SUBSET Nat
    BY DEF T
  <2> QED BY <2>1, <1>1, <1>2, Induction
<1> QED BY <1>3

\* Sequences are what grows from the empty one.
LEMMA Growth ==
  ASSUME NEW S, NEW T \in SUBSET Seq(S), << >> \in T,
         \A q \in T, e \in S : Append(q, e) \in T
  PROVE  T = Seq(S)
<1> DEFINE N == {n \in Nat : \A q \in Seq(S) : Len(q) = n => q \in T}
<1>1. 0 \in N
  BY EmptySeq
<1>2. ASSUME NEW n \in N PROVE n + 1 \in N
  <2> SUFFICES ASSUME NEW q \in Seq(S), Len(q) = n + 1 PROVE q \in T
    OBVIOUS
  <2>1. q # << >>
    BY EmptySeq
  <2>2. PICK r \in Seq(S), e \in S : q = Append(r, e)
    BY <2>1, SequenceEmptyOrAppend
  <2>3. Len(r) + 1 = n + 1 /\ Len(r) \in Nat
    BY <2>2, AppendProperties, LenProperties
  <2>4. Len(r) = n
    BY <2>3
  <2>5. r \in T
    BY <2>4
  <2> QED BY <2>2, <2>5
<1>3. N = Nat
  <2> HIDE DEF N
  <2>1. N \in SUBSET Nat
    BY DEF N
  <2> QED BY <2>1, <1>1, <1>2, Induction
<1> QED BY <1>3, LenProperties

-----------------------------------------------------------------------------
(* What a session makes of events *)

\* The recursion of AppliedAll, as a relation.
IsApplying(v, s, q, w, f) ==
  f = [n \in 0 .. Len(q) |-> IF n = 0 THEN s ELSE Applied(v, f[n - 1], q[n], n \in w)]

LEMMA ApplyingExists ==
  ASSUME NEW v, NEW s, NEW w, NEW q \in Seq(Event)
  PROVE  \E f : IsApplying(v, s, q, w, f)
<1> DEFINE U(k, f) == f = [n \in 0 .. k |-> IF n = 0 THEN s ELSE Applied(v, f[n - 1], q[n], n \in w)]
           T == {k \in Nat : \E f : U(k, f)}
<1>1. 0 \in T
  <2>1. U(0, [n \in 0 .. 0 |-> s])
    OBVIOUS
  <2> QED BY <2>1
<1>2. ASSUME NEW k \in T PROVE k + 1 \in T
  <2>1. PICK f : U(k, f)
    OBVIOUS
  <2> DEFINE g == [n \in 0 .. k + 1 |-> IF n = k + 1 THEN Applied(v, f[k], q[k + 1], k + 1 \in w) ELSE f[n]]
  <2>2. \A n \in 0 .. k : f[n] = IF n = 0 THEN s ELSE Applied(v, f[n - 1], q[n], n \in w)
    BY <2>1
  <2>3. \A n \in 0 .. k + 1 : g[n] = IF n = 0 THEN s ELSE Applied(v, g[n - 1], q[n], n \in w)
    <3> TAKE n \in 0 .. k + 1
    <3>1. CASE n = 0
      BY <3>1, <2>2
    <3>2. CASE n = k + 1
      <4>1. n # 0 /\ n - 1 = k /\ g[k] = f[k] /\ g[n] = Applied(v, f[k], q[k + 1], k + 1 \in w)
        BY <3>2
      <4> QED BY <4>1, <3>2
    <3>3. CASE n \in 1 .. k
      <4>1. n # 0 /\ g[n] = f[n] /\ g[n - 1] = f[n - 1] /\ n \in 0 .. k
        BY <3>3
      <4> QED BY <4>1, <2>2
    <3> QED BY <3>1, <3>2, <3>3
  <2>4. U(k + 1, g)
    BY <2>3
  <2> HIDE DEF U, g
  <2> QED BY <2>4
<1>3. T = Nat
  <2> HIDE DEF T
  <2>1. T \in SUBSET Nat
    BY DEF T
  <2> QED BY <2>1, <1>1, <1>2, Induction
<1>4. Len(q) \in T
  BY <1>3, LenProperties
<1> QED BY <1>4 DEF IsApplying

\* What is seen after each of the events.
Drawing(v, s, q, w, f) ==
  /\ f[0] = s /\ AppliedAll(v, s, q, w) = f[Len(q)]
  /\ \A n \in 1 .. Len(q) : f[n] = Applied(v, f[n - 1], q[n], n \in w)

LEMMA ApplyingIs ==
  ASSUME NEW v, NEW s, NEW w, NEW q \in Seq(Event)
  PROVE  \E f : Drawing(v, s, q, w, f)
<1> DEFINE f == CHOOSE f : IsApplying(v, s, q, w, f)
<1>1. IsApplying(v, s, q, w, f)
  BY ApplyingExists
<1>2. AppliedAll(v, s, q, w) = f[Len(q)]
  BY DEF AppliedAll, IsApplying
<1> HIDE DEF f
<1>3. Len(q) \in Nat
  BY LenProperties
<1>4. f[0] = s /\ \A n \in 1 .. Len(q) : f[n] = Applied(v, f[n - 1], q[n], n \in w)
  BY <1>1, <1>3 DEF IsApplying
<1> QED BY <1>2, <1>4 DEF Drawing

LEMMA AppliedNone ==
  ASSUME NEW v, NEW s, NEW w
  PROVE  AppliedAll(v, s, << >>, w) = s
<1>1. ASSUME NEW q \in Seq(Event), Len(q) = 0
      PROVE  AppliedAll(v, s, q, w) = s
  <2>1. PICK f : Drawing(v, s, q, w, f)
    BY ApplyingIs
  <2> QED BY <2>1, <1>1 DEF Drawing
<1>2. << >> \in Seq(Event) /\ Len(<< >>) = 0
  BY EmptySeq
<1> QED BY ONLY <1>1, <1>2, Zenon

LEMMA AppliedOneMore ==
  ASSUME NEW v, NEW s, NEW w, NEW q \in Seq(Event), NEW e \in Event
  PROVE  AppliedAll(v, s, Append(q, e), w)
           = Applied(v, AppliedAll(v, s, q, w), e, Len(q) + 1 \in w)
<1> DEFINE qe == Append(q, e)
<1>1. /\ qe \in Seq(Event) /\ Len(qe) = Len(q) + 1 /\ Len(q) \in Nat
      /\ \A i \in 1 .. Len(q) : qe[i] = q[i]
      /\ qe[Len(q) + 1] = e
  BY AppendProperties, LenProperties
<1> HIDE DEF qe
<1>2. PICK f : Drawing(v, s, q, w, f)
  BY ApplyingIs
<1>3. PICK g : Drawing(v, s, qe, w, g)
  BY <1>1, ApplyingIs
<1>4. \A n \in 1 .. Len(q) : f[n - 1] = g[n - 1] => f[n] = g[n]
  BY <1>1, <1>2, <1>3 DEF Drawing
<1>5. f[Len(q)] = g[Len(q)]
  <2>1. f[0] = g[0] /\ Len(q) \in Nat
    BY <1>1, <1>2, <1>3 DEF Drawing
  <2> QED BY ONLY <2>1, <1>4, GoOnAlike, Zenon
<1>6. g[Len(qe)] = Applied(v, g[Len(qe) - 1], qe[Len(qe)], Len(qe) \in w)
  BY <1>1, <1>3 DEF Drawing
<1>7. Len(qe) - 1 = Len(q) /\ qe[Len(qe)] = e
  BY <1>1
<1>8. AppliedAll(v, s, q, w) = f[Len(q)] /\ AppliedAll(v, s, qe, w) = g[Len(qe)]
  BY <1>2, <1>3 DEF Drawing
<1> QED BY <1>1, <1>5, <1>6, <1>7, <1>8 DEF qe

\* Events in two portions.
Later(w, k) == {n \in Nat : n + k \in w}
LEMMA AppliedInTurn ==
  ASSUME NEW v, NEW s, NEW w, NEW q \in Seq(Event), NEW r \in Seq(Event)
  PROVE  AppliedAll(v, s, q \o r, w) = AppliedAll(v, AppliedAll(v, s, q, w), r, Later(w, Len(q)))
<1> DEFINE u == Later(w, Len(q))
           T == {x \in Seq(Event) :
                   AppliedAll(v, s, q \o x, w) = AppliedAll(v, AppliedAll(v, s, q, w), x, u)}
<1> HIDE DEF u
<1>1. << >> \in T
  BY AppliedNone, ConcatEmptySeq, EmptySeq
<1>2. ASSUME NEW x \in T, NEW e \in Event PROVE Append(x, e) \in T
  <2>1. q \o x \in Seq(Event) /\ Append(x, e) \in Seq(Event)
    BY ConcatProperties, AppendProperties
  <2>2. q \o Append(x, e) = Append(q \o x, e)
    <3>1. <<e>> \in Seq(Event)
      OBVIOUS
    <3>2. Append(x, e) = x \o <<e>> /\ Append(q \o x, e) = (q \o x) \o <<e>>
      BY <2>1, AppendIsConcat
    <3>3. (q \o x) \o <<e>> = q \o (x \o <<e>>)
      BY <3>1, ConcatAssociative
    <3> QED BY <3>2, <3>3
  <2>3. AppliedAll(v, s, Append(q \o x, e), w)
          = Applied(v, AppliedAll(v, s, q \o x, w), e, Len(q \o x) + 1 \in w)
    BY <2>1, AppliedOneMore
  <2>4. AppliedAll(v, AppliedAll(v, s, q, w), Append(x, e), u)
          = Applied(v, AppliedAll(v, AppliedAll(v, s, q, w), x, u), e, Len(x) + 1 \in u)
    BY AppliedOneMore
  <2>5. (Len(q \o x) + 1 \in w) = (Len(x) + 1 \in u)
    <3>1. Len(q) \in Nat /\ Len(x) \in Nat /\ Len(q \o x) = Len(q) + Len(x)
      BY ConcatProperties, LenProperties
    <3>2. Len(q \o x) + 1 = (Len(x) + 1) + Len(q) /\ Len(x) + 1 \in Nat
      BY <3>1
    <3> QED BY <3>2 DEF u, Later
  <2> QED BY <2>1, <2>2, <2>3, <2>4, <2>5
<1>3. T = Seq(Event)
  <2> HIDE DEF T
  <2>1. T \in SUBSET Seq(Event)
    BY DEF T
  <2> QED BY <2>1, <1>1, <1>2, Growth
<1> QED BY <1>3 DEF u

-----------------------------------------------------------------------------
(* What is routed to a session *)

RoutedTo(r, kept, e) == IF Routed(r, e) THEN Append(kept, e) ELSE kept

\* The recursion of RoutedOf, as a relation.
IsRouting(r, q, f) ==
  f = [n \in 0 .. Len(q) |-> IF n = 0 THEN << >> ELSE RoutedTo(r, f[n - 1], q[n])]

LEMMA RoutingExists ==
  ASSUME NEW r, NEW q \in Seq(Event)
  PROVE  \E f : IsRouting(r, q, f)
<1> DEFINE U(k, f) == f = [n \in 0 .. k |-> IF n = 0 THEN << >> ELSE RoutedTo(r, f[n - 1], q[n])]
           T == {k \in Nat : \E f : U(k, f)}
<1>1. 0 \in T
  <2>1. U(0, [n \in 0 .. 0 |-> << >>])
    OBVIOUS
  <2> QED BY <2>1
<1>2. ASSUME NEW k \in T PROVE k + 1 \in T
  <2>1. PICK f : U(k, f)
    OBVIOUS
  <2> DEFINE g == [n \in 0 .. k + 1 |-> IF n = k + 1 THEN RoutedTo(r, f[k], q[k + 1]) ELSE f[n]]
  <2>2. \A n \in 0 .. k : f[n] = IF n = 0 THEN << >> ELSE RoutedTo(r, f[n - 1], q[n])
    BY <2>1
  <2>3. \A n \in 0 .. k + 1 : g[n] = IF n = 0 THEN << >> ELSE RoutedTo(r, g[n - 1], q[n])
    <3> TAKE n \in 0 .. k + 1
    <3>1. CASE n = 0
      BY <3>1, <2>2
    <3>2. CASE n = k + 1
      <4>1. n # 0 /\ n - 1 = k /\ g[k] = f[k] /\ g[n] = RoutedTo(r, f[k], q[k + 1])
        BY <3>2
      <4> QED BY <4>1, <3>2
    <3>3. CASE n \in 1 .. k
      <4>1. n # 0 /\ g[n] = f[n] /\ g[n - 1] = f[n - 1] /\ n \in 0 .. k
        BY <3>3
      <4> QED BY <4>1, <2>2
    <3> QED BY <3>1, <3>2, <3>3
  <2>4. U(k + 1, g)
    BY <2>3
  <2> HIDE DEF U, g
  <2> QED BY <2>4
<1>3. T = Nat
  <2> HIDE DEF T
  <2>1. T \in SUBSET Nat
    BY DEF T
  <2> QED BY <2>1, <1>1, <1>2, Induction
<1>4. Len(q) \in T
  BY <1>3, LenProperties
<1> QED BY <1>4 DEF IsRouting

LEMMA RoutingIs ==
  ASSUME NEW r, NEW q \in Seq(Event)
  PROVE  \E f : /\ f[0] = << >> /\ RoutedOf(r, q) = f[Len(q)]
                /\ \A n \in 1 .. Len(q) : f[n] = RoutedTo(r, f[n - 1], q[n])
<1> DEFINE f == CHOOSE f : IsRouting(r, q, f)
<1>1. IsRouting(r, q, f)
  BY RoutingExists
<1>2. RoutedOf(r, q) = f[Len(q)]
  BY DEF RoutedOf, IsRouting, RoutedTo
<1> HIDE DEF f
<1>3. Len(q) \in Nat
  BY LenProperties
<1>4. f[0] = << >> /\ \A n \in 1 .. Len(q) : f[n] = RoutedTo(r, f[n - 1], q[n])
  BY <1>1, <1>3 DEF IsRouting
<1> QED BY <1>2, <1>4

LEMMA RoutedNone ==
  ASSUME NEW r
  PROVE  RoutedOf(r, << >>) = << >>
<1>1. ASSUME NEW q \in Seq(Event), Len(q) = 0
      PROVE  RoutedOf(r, q) = << >>
  <2>1. PICK f : /\ f[0] = << >> /\ RoutedOf(r, q) = f[Len(q)]
                 /\ \A n \in 1 .. Len(q) : f[n] = RoutedTo(r, f[n - 1], q[n])
    BY RoutingIs
  <2> QED BY <2>1, <1>1
<1>2. << >> \in Seq(Event) /\ Len(<< >>) = 0
  BY EmptySeq
<1> QED BY ONLY <1>1, <1>2, Zenon

LEMMA RoutedOneMore ==
  ASSUME NEW r, NEW q \in Seq(Event), NEW e \in Event
  PROVE  RoutedOf(r, Append(q, e)) = RoutedTo(r, RoutedOf(r, q), e)
<1> DEFINE qe == Append(q, e)
<1>1. /\ qe \in Seq(Event) /\ Len(qe) = Len(q) + 1 /\ Len(q) \in Nat
      /\ \A i \in 1 .. Len(q) : qe[i] = q[i]
      /\ qe[Len(q) + 1] = e
  BY AppendProperties, LenProperties
<1>2. PICK f : /\ f[0] = << >> /\ RoutedOf(r, q) = f[Len(q)]
               /\ \A n \in 1 .. Len(q) : f[n] = RoutedTo(r, f[n - 1], q[n])
  BY RoutingIs
<1> HIDE DEF qe
<1>3. PICK g : /\ g[0] = << >> /\ RoutedOf(r, qe) = g[Len(qe)]
               /\ \A n \in 1 .. Len(qe) : g[n] = RoutedTo(r, g[n - 1], qe[n])
  BY <1>1, RoutingIs
<1>4. \A n \in 1 .. Len(q) : f[n - 1] = g[n - 1] => f[n] = g[n]
  BY <1>1, <1>2, <1>3
<1>5. f[Len(q)] = g[Len(q)]
  <2>1. f[0] = g[0] /\ Len(q) \in Nat
    BY <1>1, <1>2, <1>3
  <2> QED BY ONLY <2>1, <1>4, GoOnAlike, Zenon
<1>6. g[Len(qe)] = RoutedTo(r, g[Len(qe) - 1], qe[Len(qe)])
  BY <1>1, <1>3
<1>7. Len(qe) - 1 = Len(q) /\ qe[Len(qe)] = e
  BY <1>1
<1> QED BY <1>2, <1>3, <1>5, <1>6, <1>7 DEF qe

-----------------------------------------------------------------------------
(* What is left of the moves of a tick *)

\* The recursion of Coalesced, as a relation.
IsCoalescing(q, f) ==
  f = [n \in 0 .. Len(q) |-> IF n = 0 THEN << >> ELSE Noted(f[n - 1], q[n])]

LEMMA CoalescingExists ==
  ASSUME NEW q \in Seq(Event)
  PROVE  \E f : IsCoalescing(q, f)
<1> DEFINE U(k, f) == f = [n \in 0 .. k |-> IF n = 0 THEN << >> ELSE Noted(f[n - 1], q[n])]
           T == {k \in Nat : \E f : U(k, f)}
<1>1. 0 \in T
  <2>1. U(0, [n \in 0 .. 0 |-> << >>])
    OBVIOUS
  <2> QED BY <2>1
<1>2. ASSUME NEW k \in T PROVE k + 1 \in T
  <2>1. PICK f : U(k, f)
    OBVIOUS
  <2> DEFINE g == [n \in 0 .. k + 1 |-> IF n = k + 1 THEN Noted(f[k], q[k + 1]) ELSE f[n]]
  <2>2. \A n \in 0 .. k : f[n] = IF n = 0 THEN << >> ELSE Noted(f[n - 1], q[n])
    BY <2>1
  <2>3. \A n \in 0 .. k + 1 : g[n] = IF n = 0 THEN << >> ELSE Noted(g[n - 1], q[n])
    <3> TAKE n \in 0 .. k + 1
    <3>1. CASE n = 0
      BY <3>1, <2>2
    <3>2. CASE n = k + 1
      <4>1. n # 0 /\ n - 1 = k /\ g[k] = f[k] /\ g[n] = Noted(f[k], q[k + 1])
        BY <3>2
      <4> QED BY <4>1, <3>2
    <3>3. CASE n \in 1 .. k
      <4>1. n # 0 /\ g[n] = f[n] /\ g[n - 1] = f[n - 1] /\ n \in 0 .. k
        BY <3>3
      <4> QED BY <4>1, <2>2
    <3> QED BY <3>1, <3>2, <3>3
  <2>4. U(k + 1, g)
    BY <2>3
  <2> HIDE DEF U, g
  <2> QED BY <2>4
<1>3. T = Nat
  <2> HIDE DEF T
  <2>1. T \in SUBSET Nat
    BY DEF T
  <2> QED BY <2>1, <1>1, <1>2, Induction
<1>4. Len(q) \in T
  BY <1>3, LenProperties
<1> QED BY <1>4 DEF IsCoalescing

LEMMA CoalescingIs ==
  ASSUME NEW q \in Seq(Event)
  PROVE  \E f : /\ f[0] = << >> /\ Coalesced(q) = f[Len(q)]
                /\ \A n \in 1 .. Len(q) : f[n] = Noted(f[n - 1], q[n])
<1> DEFINE f == CHOOSE f : IsCoalescing(q, f)
<1>1. IsCoalescing(q, f)
  BY CoalescingExists
<1>2. Coalesced(q) = f[Len(q)]
  BY DEF Coalesced, IsCoalescing
<1> HIDE DEF f
<1>3. Len(q) \in Nat
  BY LenProperties
<1>4. f[0] = << >> /\ \A n \in 1 .. Len(q) : f[n] = Noted(f[n - 1], q[n])
  BY <1>1, <1>3 DEF IsCoalescing
<1> QED BY <1>2, <1>4

LEMMA CoalescedNone ==
  Coalesced(<< >>) = << >>
<1>1. ASSUME NEW q \in Seq(Event), Len(q) = 0
      PROVE  Coalesced(q) = << >>
  <2>1. PICK f : /\ f[0] = << >> /\ Coalesced(q) = f[Len(q)]
                 /\ \A n \in 1 .. Len(q) : f[n] = Noted(f[n - 1], q[n])
    BY CoalescingIs
  <2> QED BY <2>1, <1>1
<1>2. << >> \in Seq(Event) /\ Len(<< >>) = 0
  BY EmptySeq
<1> QED BY ONLY <1>1, <1>2, Zenon

LEMMA CoalescedOneMore ==
  ASSUME NEW q \in Seq(Event), NEW e \in Event
  PROVE  Coalesced(Append(q, e)) = Noted(Coalesced(q), e)
<1> DEFINE qe == Append(q, e)
<1>1. /\ qe \in Seq(Event) /\ Len(qe) = Len(q) + 1 /\ Len(q) \in Nat
      /\ \A i \in 1 .. Len(q) : qe[i] = q[i]
      /\ qe[Len(q) + 1] = e
  BY AppendProperties, LenProperties
<1>2. PICK f : /\ f[0] = << >> /\ Coalesced(q) = f[Len(q)]
               /\ \A n \in 1 .. Len(q) : f[n] = Noted(f[n - 1], q[n])
  BY CoalescingIs
<1> HIDE DEF qe
<1>3. PICK g : /\ g[0] = << >> /\ Coalesced(qe) = g[Len(qe)]
               /\ \A n \in 1 .. Len(qe) : g[n] = Noted(g[n - 1], qe[n])
  BY <1>1, CoalescingIs
<1>4. \A n \in 1 .. Len(q) : f[n - 1] = g[n - 1] => f[n] = g[n]
  BY <1>1, <1>2, <1>3
<1>5. f[Len(q)] = g[Len(q)]
  <2>1. f[0] = g[0] /\ Len(q) \in Nat
    BY <1>1, <1>2, <1>3
  <2> QED BY ONLY <2>1, <1>4, GoOnAlike, Zenon
<1>6. g[Len(qe)] = Noted(g[Len(qe) - 1], qe[Len(qe)])
  BY <1>1, <1>3
<1>7. Len(qe) - 1 = Len(q) /\ qe[Len(qe)] = e
  BY <1>1
<1> QED BY <1>2, <1>3, <1>5, <1>6, <1>7 DEF qe

-----------------------------------------------------------------------------
(* What is in a sequence of events *)

In(e, q) == \E i \in DOMAIN q : q[i] = e

LEMMA InNone == \A e : ~ In(e, << >>)
<1>1. << >> \in Seq(Event) /\ Len(<< >>) = 0
  BY EmptySeq
<1>2. DOMAIN << >> = {}
  OBVIOUS
<1> QED BY <1>2 DEF In

LEMMA InAppend ==
  ASSUME NEW q \in Seq(Event), NEW e \in Event, NEW x
  PROVE  In(x, Append(q, e)) <=> In(x, q) \/ x = e
<1> DEFINE qe == Append(q, e)
<1>1. /\ qe \in Seq(Event) /\ Len(qe) = Len(q) + 1 /\ Len(q) \in Nat
      /\ \A i \in 1 .. Len(q) : qe[i] = q[i]
      /\ qe[Len(q) + 1] = e
  BY AppendProperties, LenProperties
<1> HIDE DEF qe
<1>2. DOMAIN qe = 1 .. Len(q) + 1 /\ DOMAIN q = 1 .. Len(q)
  BY <1>1, LenProperties
<1>3. In(x, qe) <=> In(x, q) \/ x = e
  BY <1>1, <1>2 DEF In
<1> QED BY <1>3 DEF qe

LEMMA InConcat ==
  ASSUME NEW q \in Seq(Event), NEW r \in Seq(Event), NEW x
  PROVE  In(x, q \o r) <=> In(x, q) \/ In(x, r)
<1> DEFINE c == q \o r
<1>1. /\ c \in Seq(Event) /\ Len(c) = Len(q) + Len(r) /\ Len(q) \in Nat /\ Len(r) \in Nat
      /\ \A i \in 1 .. Len(q) + Len(r) : c[i] = IF i <= Len(q) THEN q[i] ELSE r[i - Len(q)]
  BY ConcatProperties, LenProperties
<1> HIDE DEF c
<1>2. DOMAIN c = 1 .. Len(q) + Len(r) /\ DOMAIN q = 1 .. Len(q) /\ DOMAIN r = 1 .. Len(r)
  BY <1>1, LenProperties
<1>3. ASSUME In(x, q) PROVE In(x, c)
  BY <1>1, <1>2, <1>3 DEF In
<1>4. ASSUME In(x, r) PROVE In(x, c)
  <2>1. PICK i \in 1 .. Len(r) : r[i] = x
    BY <1>2, <1>4 DEF In
  <2>2. i + Len(q) \in 1 .. Len(q) + Len(r) /\ ~ (i + Len(q) <= Len(q)) /\ i + Len(q) - Len(q) = i
    BY <1>1
  <2> QED BY <1>1, <1>2, <2>1, <2>2 DEF In
<1>5. ASSUME In(x, c) PROVE In(x, q) \/ In(x, r)
  <2>1. PICK i \in 1 .. Len(q) + Len(r) : c[i] = x
    BY <1>2, <1>5 DEF In
  <2>2. CASE i <= Len(q)
    BY <1>1, <1>2, <2>1, <2>2 DEF In
  <2>3. CASE ~ (i <= Len(q))
    <3>1. i - Len(q) \in 1 .. Len(r) /\ r[i - Len(q)] = x
      BY <1>1, <2>1, <2>3
    <3> QED BY <1>2, <3>1 DEF In
  <2> QED BY <2>2, <2>3
<1> QED BY <1>3, <1>4, <1>5 DEF c

LEMMA InIsEvent ==
  ASSUME NEW q \in Seq(Event), NEW e, In(e, q)
  PROVE  e \in Event
BY DEF In

\* What is routed is what there is to route.
LEMMA RoutedIs ==
  ASSUME NEW r, NEW q \in Seq(Event)
  PROVE  /\ RoutedOf(r, q) \in Seq(Event)
         /\ \A e : In(e, RoutedOf(r, q)) <=> In(e, q) /\ Routed(r, e)
<1> DEFINE P(x) == /\ RoutedOf(r, x) \in Seq(Event)
                   /\ \A e : In(e, RoutedOf(r, x)) <=> In(e, x) /\ Routed(r, e)
           T == {x \in Seq(Event) : P(x)}
<1>1. << >> \in T
  BY RoutedNone, InNone, EmptySeq
<1>2. ASSUME NEW x \in T, NEW d \in Event PROVE Append(x, d) \in T
  <2> DEFINE rx == RoutedOf(r, x)
             rn == RoutedOf(r, Append(x, d))
  <2>1. rn = IF Routed(r, d) THEN Append(rx, d) ELSE rx
    BY RoutedOneMore DEF RoutedTo
  <2>2. rx \in Seq(Event) /\ \A e : In(e, rx) <=> In(e, x) /\ Routed(r, e)
    OBVIOUS
  <2>3. \A e : In(e, Append(x, d)) <=> In(e, x) \/ e = d
    BY InAppend
  <2>3a. Append(x, d) \in Seq(Event)
    BY AppendProperties
  <2> HIDE DEF rx, rn
  <2>4. \A e : In(e, Append(rx, d)) <=> In(e, rx) \/ e = d
    BY <2>2, InAppend
  <2>5. Append(rx, d) \in Seq(Event)
    BY <2>2, AppendProperties
  <2>6. rn \in Seq(Event) /\ \A e : In(e, rn) <=> In(e, Append(x, d)) /\ Routed(r, e)
    BY <2>1, <2>2, <2>3, <2>4, <2>5
  <2> QED BY <2>6, <2>3a DEF rn
<1>3. T = Seq(Event)
  <2> HIDE DEF T
  <2>1. T \in SUBSET Seq(Event)
    BY DEF T
  <2> QED BY <2>1, <1>1, <1>2, Growth
<1> QED BY <1>3

\* What waits after a delivery.
LEMMA DeliveredIs ==
  ASSUME NEW q \in Seq(Event), NEW r \in Seq(Event)
  PROVE  /\ Delivered(q, r) \in Seq(Event)
         /\ \A e : In(e, Delivered(q, r)) => In(e, q) \/ In(e, r)
         /\ Len(Delivered(q, r)) < LinkCapacity => Delivered(q, r) = q \o r
<1> DEFINE all == q \o r
           cut == SubSeq(all, 1, LinkCapacity)
<1>1. all \in Seq(Event) /\ Len(all) \in Nat /\ \A e : In(e, all) <=> In(e, q) \/ In(e, r)
  BY ConcatProperties, LenProperties, InConcat
<1> HIDE DEF all
<1>2. LinkCapacity \in Nat
  BY SizesAssumption
<1>3. ASSUME ~ (Len(all) <= LinkCapacity)
      PROVE  /\ cut \in Seq(Event) /\ Len(cut) = LinkCapacity
             /\ \A e : In(e, cut) => In(e, all)
  <2>1. \A i \in 1 .. LinkCapacity : all[i] \in Event
    BY <1>1, <1>2, <1>3, ElementOfSeq
  <2>2. /\ cut \in Seq(Event)
        /\ Len(cut) = IF 1 <= LinkCapacity THEN LinkCapacity - 1 + 1 ELSE 0
        /\ \A i \in 1 .. LinkCapacity - 1 + 1 : cut[i] = all[1 + i - 1]
    BY <1>2, <2>1, SubSeqProperties
  <2> HIDE DEF cut
  <2>3. Len(cut) = LinkCapacity
    BY <1>2, <2>2
  <2>4. ASSUME NEW e, In(e, cut) PROVE In(e, all)
    <3>1. PICK i \in DOMAIN cut : cut[i] = e
      BY <2>4 DEF In
    <3>2. i \in 1 .. LinkCapacity
      BY <2>2, <2>3, <3>1, LenProperties
    <3>3. i \in DOMAIN all /\ all[i] = e
      <4>1. i \in 1 .. Len(all) /\ 1 + i - 1 = i /\ LinkCapacity - 1 + 1 = LinkCapacity
        BY <1>1, <1>2, <1>3, <3>2
      <4> QED BY <1>1, <2>2, <3>1, <3>2, <4>1, LenProperties
    <3> QED BY <3>3 DEF In
  <2> QED BY <2>2, <2>3, <2>4
<1>4. Delivered(q, r) = IF Len(all) <= LinkCapacity THEN all ELSE cut
  BY DEF Delivered, all
<1> HIDE DEF cut
<1>5. Delivered(q, r) \in Seq(Event) /\ \A e : In(e, Delivered(q, r)) => In(e, all)
  BY <1>1, <1>3, <1>4
<1>6. Len(Delivered(q, r)) < LinkCapacity => Delivered(q, r) = all
  BY <1>2, <1>3, <1>4
<1> QED BY <1>1, <1>5, <1>6 DEF all

LEMMA NothingIn ==
  ASSUME NEW q \in Seq(Event), \A e : ~ In(e, q)
  PROVE  q = << >>
<1>1. Len(q) \in Nat /\ DOMAIN q = 1 .. Len(q)
  BY LenProperties
<1>2. q # << >> => Len(q) \in Nat \ {0}
  BY EmptySeq
<1>3. Len(q) \in Nat \ {0} => In(q[1], q)
  BY <1>1 DEF In
<1> QED BY <1>2, <1>3

LEMMA DeliveredNone == Delivered(<< >>, << >>) = << >>
<1>1. << >> \in Seq(Event) /\ Len(<< >>) = 0
  BY EmptySeq
<1>2. << >> \o << >> = << >>
  BY <1>1, ConcatEmptySeq
<1>3. Len(<< >> \o << >>) <= LinkCapacity
  BY <1>1, <1>2, SizesAssumption
<1> QED BY <1>2, <1>3 DEF Delivered

\* A set of events as a stream.
LEMMA StreamIs ==
  ASSUME NEW T \in SUBSET Event, IsFiniteSet(T)
  PROVE  SetToSeq(T) \in Seq(Event) /\ \A e : In(e, SetToSeq(T)) <=> e \in T
<1> DEFINE n == Cardinality(T)
           f == SetToSeq(T)
<1>1. n \in Nat
  BY FS_CardinalityType
<1>2. Cardinality(1 .. n) = n /\ IsFiniteSet(1 .. n)
  BY <1>1, FS_Interval
<1>3. \E g \in [1 .. n -> T] : IsInjective(g)
  <2>1. ExistsBijection(1 .. n, T)
    BY <1>1, <1>2, FS_SameCardinalityBij
  <2> QED BY <2>1 DEF ExistsBijection, Bijection, Injection
<1>4. f \in [1 .. n -> T] /\ IsInjective(f)
  BY <1>3 DEF SetToSeq
<1>5. f \in Surjection(1 .. n, T)
  BY <1>1, <1>2, <1>4, FS_Injection DEF Injection
<1>6. f \in Seq(Event)
  BY <1>1, <1>4, SeqDef
<1>7. DOMAIN f = 1 .. n
  BY <1>4
<1> HIDE DEF f
<1>8. \A e : In(e, f) <=> e \in T
  BY <1>4, <1>5, <1>7 DEF Surjection, In
<1> QED BY <1>6, <1>8 DEF f

-----------------------------------------------------------------------------
(* What coalescing keeps *)

LEMMA MergedIs ==
  ASSUME NEW d \in Event, NEW e \in Event, SameMove(d, e)
  PROVE  /\ Merged(d, e) \in Event
         /\ Merged(d, e).kind = "moved" /\ Merged(d, e).who = e.who
         /\ Merged(d, e).from = d.from /\ Merged(d, e).to = e.to
         /\ Merged(d, e).teleport = (d.teleport \/ e.teleport)
BY DEF Merged, SameMove, Event, Kinds

LEMMA NotedIs ==
  ASSUME NEW o \in Seq(Event), NEW e \in Event
  PROVE  /\ Noted(o, e) \in Seq(Event)
         /\ \A x : x.kind # "moved" => (In(x, Noted(o, e)) <=> In(x, o) \/ x = e)
         /\ \A x : In(x, Noted(o, e)) =>
              \/ In(x, o) \/ x = e
              \/ \E d : In(d, o) /\ SameMove(d, e) /\ x = Merged(d, e)
<1>1. CASE \E i \in DOMAIN o : SameMove(o[i], e)
  <2> DEFINE n == Noted(o, e)
  <2>1. n = [i \in DOMAIN o |-> IF SameMove(o[i], e) THEN Merged(o[i], e) ELSE o[i]]
    BY <1>1 DEF Noted
  <2>2. DOMAIN o = 1 .. Len(o) /\ Len(o) \in Nat /\ \A i \in DOMAIN o : o[i] \in Event
    BY LenProperties, ElementOfSeq
  <2>3. DOMAIN n = DOMAIN o
    BY <2>1
  <2>4. \A i \in DOMAIN o : n[i] = IF SameMove(o[i], e) THEN Merged(o[i], e) ELSE o[i]
    BY <2>1
  <2>5. n \in Seq(Event)
    <3>1. \A i \in DOMAIN o : n[i] \in Event
      BY <2>2, <2>4, MergedIs
    <3>2. n \in [1 .. Len(o) -> Event]
      BY <2>1, <2>2, <2>4, <3>1
    <3> QED BY <2>2, <3>2, SeqDef
  <2> HIDE DEF n
  <2>6. ASSUME NEW x, x.kind # "moved" PROVE In(x, n) <=> In(x, o) \/ x = e
    <3>1. e.kind = "moved"
      BY <1>1 DEF SameMove
    <3>2. \A i \in DOMAIN o : n[i] = x => o[i] = x
      BY <2>2, <2>4, <2>6, MergedIs
    <3>3. \A i \in DOMAIN o : o[i] = x => n[i] = x
      BY <2>4, <2>6 DEF SameMove
    <3> QED BY <2>3, <2>6, <3>1, <3>2, <3>3 DEF In
  <2>7. ASSUME NEW x, In(x, n)
        PROVE  In(x, o) \/ \E d : In(d, o) /\ SameMove(d, e) /\ x = Merged(d, e)
    <3>1. PICK i \in DOMAIN o : n[i] = x
      BY <2>3, <2>7 DEF In
    <3>2. In(o[i], o)
      BY DEF In
    <3> QED BY <2>4, <3>1, <3>2
  <2> QED BY <2>5, <2>6, <2>7 DEF n
<1>2. CASE ~ \E i \in DOMAIN o : SameMove(o[i], e)
  <2>1. Noted(o, e) = Append(o, e)
    BY <1>2 DEF Noted
  <2>2. Append(o, e) \in Seq(Event) /\ \A x : In(x, Append(o, e)) <=> In(x, o) \/ x = e
    BY AppendProperties, InAppend
  <2> QED BY <2>1, <2>2
<1> QED BY <1>1, <1>2

\* What an event of the coalesced batch comes from.
Origin(e, q) ==
  \/ In(e, q)
  \/ /\ e.kind = "moved" /\ \E d : In(d, q) /\ d.kind = "moved" /\ d.who = e.who
     /\ e.teleport => \E d : In(d, q) /\ d.kind = "moved" /\ d.who = e.who /\ d.teleport

LEMMA CoalescedIs ==
  ASSUME NEW q \in Seq(Event)
  PROVE  /\ Coalesced(q) \in Seq(Event)
         /\ \A e : e.kind # "moved" => (In(e, Coalesced(q)) <=> In(e, q))
         /\ \A e : In(e, Coalesced(q)) => Origin(e, q)
<1> DEFINE P(x) == /\ Coalesced(x) \in Seq(Event)
                   /\ \A e : e.kind # "moved" => (In(e, Coalesced(x)) <=> In(e, x))
                   /\ \A e : In(e, Coalesced(x)) => Origin(e, x)
           T == {x \in Seq(Event) : P(x)}
<1>1. << >> \in T
  BY CoalescedNone, InNone, EmptySeq DEF Origin
<1>2. ASSUME NEW x \in T, NEW e \in Event PROVE Append(x, e) \in T
  <2> DEFINE cx == Coalesced(x)
             xe == Append(x, e)
  <2>1. Coalesced(xe) = Noted(cx, e)
    BY CoalescedOneMore
  <2>2. /\ cx \in Seq(Event)
        /\ \A y : y.kind # "moved" => (In(y, cx) <=> In(y, x))
        /\ \A y : In(y, cx) => Origin(y, x)
    OBVIOUS
  <2>3. xe \in Seq(Event) /\ \A y : In(y, xe) <=> In(y, x) \/ y = e
    BY InAppend, AppendProperties
  <2> HIDE DEF cx, xe
  <2>4. /\ Noted(cx, e) \in Seq(Event)
        /\ \A y : y.kind # "moved" => (In(y, Noted(cx, e)) <=> In(y, cx) \/ y = e)
        /\ \A y : In(y, Noted(cx, e)) =>
             \/ In(y, cx) \/ y = e
             \/ \E d : In(d, cx) /\ SameMove(d, e) /\ y = Merged(d, e)
    BY <2>2, NotedIs
  <2>5. \A y : Origin(y, x) => Origin(y, xe)
    BY <2>3 DEF Origin
  <2>6. ASSUME NEW y, In(y, Noted(cx, e)) PROVE Origin(y, xe)
    <3>1. CASE In(y, cx)
      BY <3>1, <2>2, <2>5
    <3>2. CASE y = e
      BY <3>2, <2>3 DEF Origin
    <3>3. CASE \E d : In(d, cx) /\ SameMove(d, e) /\ y = Merged(d, e)
      <4>1. PICK d : In(d, cx) /\ SameMove(d, e) /\ y = Merged(d, e)
        BY <3>3
      <4>2. d \in Event /\ Origin(d, x)
        BY <2>2, <4>1, InIsEvent
      <4>3. y.kind = "moved" /\ y.who = e.who /\ y.teleport = (d.teleport \/ e.teleport)
        BY <4>1, <4>2, MergedIs
      <4>4. e.kind = "moved" /\ d.who = e.who /\ In(e, xe)
        BY <4>1, <2>3 DEF SameMove
      <4>5. d.teleport => \E c : In(c, xe) /\ c.kind = "moved" /\ c.who = d.who /\ c.teleport
        BY <4>1, <4>2, <2>3 DEF Origin, SameMove
      <4> QED BY <4>3, <4>4, <4>5 DEF Origin
    <3> QED BY <2>4, <2>6, <3>1, <3>2, <3>3
  <2>7. P(xe)
    BY <2>1, <2>2, <2>3, <2>4, <2>6
  <2> QED BY <2>3, <2>7 DEF xe
<1>3. T = Seq(Event)
  <2> HIDE DEF T
  <2>1. T \in SUBSET Seq(Event)
    BY DEF T
  <2> QED BY <2>1, <1>1, <1>2, Growth
<1> QED BY <1>3

\* Where nothing moved there is nothing to coalesce.
LEMMA NothingToCoalesce ==
  ASSUME NEW q \in Seq(Event), \A e : In(e, q) => e.kind # "moved"
  PROVE  Coalesced(q) = q
<1> DEFINE P(x) == (\A e : In(e, x) => e.kind # "moved") => Coalesced(x) = x
           T == {x \in Seq(Event) : P(x)}
<1>1. << >> \in T
  BY CoalescedNone, EmptySeq
<1>2. ASSUME NEW x \in T, NEW e \in Event PROVE Append(x, e) \in T
  <2>1. Append(x, e) \in Seq(Event) /\ \A y : In(y, Append(x, e)) <=> In(y, x) \/ y = e
    BY InAppend, AppendProperties
  <2>2. SUFFICES ASSUME \A y : In(y, Append(x, e)) => y.kind # "moved"
                 PROVE  Coalesced(Append(x, e)) = Append(x, e)
    BY <2>1
  <2>3. Coalesced(x) = x /\ e.kind # "moved"
    BY <2>1, <2>2
  <2>4. Noted(x, e) = Append(x, e)
    BY <2>3 DEF Noted, SameMove
  <2> QED BY <2>3, <2>4, CoalescedOneMore
<1>3. T = Seq(Event)
  <2> HIDE DEF T
  <2>1. T \in SUBSET Seq(Event)
    BY DEF T
  <2> QED BY <2>1, <1>1, <1>2, Growth
<1> QED BY <1>3

-----------------------------------------------------------------------------
(* What events do to the picture *)

Places == Tiles \cup {None}
Seen == [here : Tiles, self : Tiles, shown : [Mobiles -> Places], lately : SUBSET Mobiles,
         throttling : BOOLEAN]

\* A teleport of the player, on its way to the client.
IsSnap(e) == e.who = Me /\ e.kind = "moved" /\ e.teleport

\* What an event of a mobile makes of the place p where the client draws it.
Effect(v, p, e) ==
  IF e.kind = "drawn" THEN e.to
  ELSE IF e.kind = "removed" THEN None
  ELSE IF ContainsPos(v, e.from)
       THEN IF ContainsPos(v, e.to) THEN IF p = None THEN p ELSE e.to ELSE None
       ELSE IF ContainsPos(v, e.to) THEN e.to ELSE p

\* A move within the view may be skipped if the mobile was redrawn before; the
\* mobile is forgotten where it leaves.
Leaves(v, e) == \/ e.kind = "removed"
                \/ e.kind = "moved" /\ ContainsPos(v, e.from) /\ ~ ContainsPos(v, e.to)
Skips(v, s, e) == /\ e.kind = "moved" /\ e.who \in s.lately
                  /\ ContainsPos(v, e.from) /\ ContainsPos(v, e.to)
Makes(v, s, e, z) ==
  \/ Skips(v, s, e) /\ z = s
  \/ /\ z.shown[e.who] = Effect(v, s.shown[e.who], e)
     /\ e.who \in s.lately => Leaves(v, e) \/ e.who \in z.lately

\* Nothing happens to m.
Alike(s, z, m) == z.shown[m] = s.shown[m] /\ (m \in z.lately <=> m \in s.lately)

LEMMA EvictedType ==
  ASSUME NEW pic \in [Mobiles -> Places], NEW t
  PROVE  Evicted(pic, t) \in [Mobiles -> Places]
BY DEF Evicted, Places

\* An event that draws one mobile elsewhere, and may note or forget it.
With(s, m, p, l) == [here |-> s.here, self |-> s.self,
                     shown |-> [s.shown EXCEPT ![m] = p], lately |-> l, throttling |-> s.throttling]

LEMMA WithIs ==
  ASSUME NEW s \in Seen, NEW m \in Mobiles, NEW p \in Places, NEW l \in SUBSET Mobiles
  PROVE  /\ With(s, m, p, l) \in Seen
         /\ With(s, m, p, l).here = s.here /\ With(s, m, p, l).self = s.self
         /\ With(s, m, p, l).throttling = s.throttling
         /\ With(s, m, p, l).shown[m] = p /\ With(s, m, p, l).lately = l
         /\ \A h \in Mobiles : h # m => With(s, m, p, l).shown[h] = s.shown[h]
BY DEF With, Seen

LEMMA AppliedWith ==
  ASSUME NEW s \in Seen, NEW m \in Mobiles, NEW t
  PROVE  /\ [s EXCEPT !.shown[m] = t] = With(s, m, t, s.lately)
         /\ Deleted(s, m) = With(s, m, None, s.lately \ {m})
         /\ Redrawn(s, m, t) = With(s, m, IF s.shown[m] = None THEN None ELSE t,
                                     IF s.throttling THEN s.lately \cup {m} ELSE s.lately)
<1>1. s = [here |-> s.here, self |-> s.self, shown |-> s.shown, lately |-> s.lately, throttling |-> s.throttling]
  BY DEF Seen
<1>2. DOMAIN s.shown = Mobiles
  BY DEF Seen
<1>3. [s EXCEPT !.shown[m] = t] = With(s, m, t, s.lately)
  BY <1>1, <1>2 DEF With
<1>4. Deleted(s, m) = With(s, m, None, s.lately \ {m})
  <2> DEFINE r == [s EXCEPT !.shown[m] = None]
             l == s.lately \ {m}
  <2>1. Deleted(s, m) = [r EXCEPT !.lately = l]
    BY DEF Deleted
  <2>2. r = [here |-> s.here, self |-> s.self, shown |-> [s.shown EXCEPT ![m] = None], lately |-> s.lately, throttling |-> s.throttling]
    BY <1>1, <1>2
  <2> HIDE DEF r, l
  <2>3. [r EXCEPT !.lately = l] = With(s, m, None, l)
    BY <2>2 DEF With
  <2> QED BY <2>1, <2>3 DEF l
<1>5. Redrawn(s, m, t) = With(s, m, IF s.shown[m] = None THEN None ELSE t,
                              IF s.throttling THEN s.lately \cup {m} ELSE s.lately)
  <2> DEFINE p == IF s.shown[m] = None THEN None ELSE t
             r == [s EXCEPT !.shown[m] = p]
             l == IF s.throttling THEN s.lately \cup {m} ELSE s.lately
  <2>1. Redrawn(s, m, t) = [r EXCEPT !.lately = l]
    BY DEF Redrawn
  <2> HIDE DEF p
  <2>2. r = [here |-> s.here, self |-> s.self, shown |-> [s.shown EXCEPT ![m] = p], lately |-> s.lately, throttling |-> s.throttling]
    BY <1>1, <1>2
  <2> HIDE DEF r, l
  <2>3. [r EXCEPT !.lately = l] = With(s, m, p, l)
    BY <2>2 DEF With
  <2> QED BY <2>1, <2>3 DEF l, p
<1> QED BY <1>3, <1>4, <1>5

\* What an event of another makes of what is seen.
LEMMA AppliedToOther ==
  ASSUME NEW v, NEW s \in Seen, NEW e \in Event, NEW soon, e.who # Me
  PROVE  LET z == Applied(v, s, e, soon)
         IN  \/ z = s /\ Makes(v, s, e, z)
             \/ \E p \in Places, l \in SUBSET Mobiles :
                  /\ z = With(s, e.who, p, l) /\ Makes(v, s, e, z)
                  /\ \A h \in Mobiles : h # e.who => (h \in l <=> h \in s.lately)
<1> DEFINE m == e.who
           z == Applied(v, s, e, soon)
           Fine(p, l) == /\ z = With(s, m, p, l)
                         /\ p = Effect(v, s.shown[m], e)
                         /\ m \in s.lately => Leaves(v, e) \/ m \in l
                         /\ \A h \in Mobiles : h # m => (h \in l <=> h \in s.lately)
<1>1. /\ e.kind \in {"moved", "drawn", "removed"} /\ m \in Mobiles
      /\ e.to \in Places /\ None \in Places
      /\ s.shown[m] \in Places /\ s.lately \in SUBSET Mobiles
  BY DEF Event, Kinds, Seen, Places
<1>2. ASSUME NEW p \in Places, NEW l \in SUBSET Mobiles, Fine(p, l)
      PROVE  \E q \in Places, k \in SUBSET Mobiles :
               /\ z = With(s, m, q, k) /\ Makes(v, s, e, z)
               /\ \A h \in Mobiles : h # m => (h \in k <=> h \in s.lately)
  <2>1. z.shown[m] = p /\ z.lately = l
    BY <1>1, <1>2, WithIs
  <2>2. Makes(v, s, e, z)
    BY <1>2, <2>1 DEF Makes
  <2> QED BY <1>2, <2>2
<1>3. CASE e.kind = "drawn"
  <2>1. z = With(s, m, e.to, s.lately)
    BY <1>1, <1>3, AppliedWith DEF Applied
  <2>2. Fine(e.to, s.lately)
    BY <1>3, <2>1 DEF Effect
  <2> HIDE DEF Fine
  <2> QED BY <1>1, <1>2, <2>2
<1>4. CASE e.kind = "removed"
  <2>1. z = With(s, m, None, s.lately \ {m})
    BY <1>1, <1>4, AppliedWith DEF Applied
  <2>2. Fine(None, s.lately \ {m}) /\ s.lately \ {m} \in SUBSET Mobiles
    BY <1>1, <1>4, <2>1 DEF Effect, Leaves
  <2> HIDE DEF Fine
  <2> QED BY <1>1, <1>2, <2>2
<1>5. CASE e.kind = "moved" /\ ContainsPos(v, e.from) /\ ContainsPos(v, e.to)
  <2>1. CASE soon /\ m \in s.lately
    <3>1. z = s
      BY <1>5, <2>1 DEF Applied
    <3>2. Makes(v, s, e, z)
      BY <1>5, <2>1, <3>1 DEF Makes, Skips
    <3> QED BY <3>1, <3>2
  <2>2. CASE ~ (soon /\ m \in s.lately)
    <3> DEFINE p == IF s.shown[m] = None THEN None ELSE e.to
               l == IF s.throttling THEN s.lately \cup {m} ELSE s.lately
    <3>1. z = Redrawn(s, m, e.to)
      BY <1>5, <2>2 DEF Applied
    <3>2. z = With(s, m, p, l)
      BY <1>1, <3>1, AppliedWith
    <3>3. Fine(p, l)
      BY <1>1, <1>5, <3>2 DEF Effect
    <3>4. p \in Places /\ l \in SUBSET Mobiles
      BY <1>1
    <3> HIDE DEF Fine, p, l
    <3> QED BY <1>2, <3>3, <3>4
  <2> QED BY <2>1, <2>2
<1>6. CASE e.kind = "moved" /\ ~ ContainsPos(v, e.from) /\ ContainsPos(v, e.to)
  <2>1. z = With(s, m, e.to, s.lately)
    BY <1>1, <1>6, AppliedWith DEF Applied
  <2>2. Fine(e.to, s.lately)
    BY <1>6, <2>1 DEF Effect
  <2> HIDE DEF Fine
  <2> QED BY <1>1, <1>2, <2>2
<1>7. CASE e.kind = "moved" /\ ContainsPos(v, e.from) /\ ~ ContainsPos(v, e.to)
  <2>1. z = With(s, m, None, s.lately \ {m})
    BY <1>1, <1>7, AppliedWith DEF Applied
  <2>2. Fine(None, s.lately \ {m}) /\ s.lately \ {m} \in SUBSET Mobiles
    BY <1>1, <1>7, <2>1 DEF Effect, Leaves
  <2> HIDE DEF Fine
  <2> QED BY <1>1, <1>2, <2>2
<1>8. CASE e.kind = "moved" /\ ~ ContainsPos(v, e.from) /\ ~ ContainsPos(v, e.to)
  <2>1. z = s
    BY <1>8 DEF Applied
  <2>2. Makes(v, s, e, z)
    BY <1>8, <2>1 DEF Makes, Effect
  <2> QED BY <2>1, <2>2
<1> QED BY <1>1, <1>3, <1>4, <1>5, <1>6, <1>7, <1>8

\* Without a teleport of the player every mobile's picture is its own affair.
LEMMA AppliedIs ==
  ASSUME NEW v, NEW s \in Seen, NEW e \in Event, NEW soon
  PROVE  LET z == Applied(v, s, e, soon)
         IN  /\ z \in Seen /\ z.throttling = s.throttling
             /\ ~ IsSnap(e) =>
                  /\ z.here = s.here /\ z.self = s.self
                  /\ \A m \in Mobiles : IF e.who = m THEN Makes(v, s, e, z) ELSE Alike(s, z, m)
<1> DEFINE z == Applied(v, s, e, soon)
<1>1. /\ e.who \in Mobiles \cup {Me} /\ e.to \in Tiles
      /\ s.shown \in [Mobiles -> Places] /\ s.lately \in SUBSET Mobiles
  BY DEF Event, Seen
<1>2. CASE IsSnap(e)
  <2>1. z = [s EXCEPT !.here = e.to, !.self = e.to, !.shown = Evicted(s.shown, e.to)]
    BY <1>2 DEF Applied, IsSnap
  <2> DEFINE pic == Evicted(s.shown, e.to)
  <2>2. pic \in [Mobiles -> Places]
    BY <1>1, EvictedType
  <2>3. z = [here |-> e.to, self |-> e.to, shown |-> pic, lately |-> s.lately, throttling |-> s.throttling]
    <3> HIDE DEF z
    <3> QED BY <2>1 DEF Seen
  <2>4. z \in Seen /\ z.throttling = s.throttling
    <3> HIDE DEF z, pic
    <3> QED BY <1>1, <2>2, <2>3 DEF Seen
  <2> QED BY <1>2, <2>4
<1>3. CASE e.who = Me /\ ~ IsSnap(e)
  <2>1. z = s
    BY <1>3 DEF Applied, IsSnap
  <2> QED BY <1>3, <2>1, WhoAssumption DEF Alike
<1>4. CASE e.who # Me
  <2>1. e.who \in Mobiles
    BY <1>1, <1>4
  <2>2. CASE z = s /\ Makes(v, s, e, z)
    BY <2>2 DEF Alike
  <2>3. ASSUME NEW p \in Places, NEW l \in SUBSET Mobiles,
               z = With(s, e.who, p, l), Makes(v, s, e, z),
               \A h \in Mobiles : h # e.who => (h \in l <=> h \in s.lately)
        PROVE  /\ z \in Seen /\ z.here = s.here /\ z.self = s.self /\ z.throttling = s.throttling
               /\ \A m \in Mobiles : IF e.who = m THEN Makes(v, s, e, z) ELSE Alike(s, z, m)
    <3> HIDE DEF z
    <3>1. /\ z \in Seen /\ z.here = s.here /\ z.self = s.self /\ z.throttling = s.throttling /\ z.lately = l
          /\ \A h \in Mobiles : h # e.who => z.shown[h] = s.shown[h]
      BY <2>1, <2>3, WithIs
    <3> QED BY <2>3, <3>1 DEF Alike
  <2> QED BY <1>4, <2>2, <2>3, AppliedToOther
<1> QED BY <1>2, <1>3, <1>4

\* What it makes of a mobile that it does not move.
LEMMA AppliedUnmoved ==
  ASSUME NEW v, NEW s \in Seen, NEW e \in Event, NEW soon, NEW m \in Mobiles,
         ~ IsSnap(e), e.who = m => e.kind # "moved"
  PROVE  Applied(v, s, e, soon).shown[m]
           = IF e.who = m THEN Effect(v, s.shown[m], e) ELSE s.shown[m]
<1> DEFINE z == Applied(v, s, e, soon)
<1>1. IF e.who = m THEN Makes(v, s, e, z) ELSE Alike(s, z, m)
  BY AppliedIs
<1> HIDE DEF z
<1>2. z.shown[m] = IF e.who = m THEN Effect(v, s.shown[m], e) ELSE s.shown[m]
  BY <1>1 DEF Makes, Skips, Alike
<1> QED BY <1>2 DEF z

LEMMA AppliedKeeps ==
  ASSUME NEW v, NEW s \in Seen, NEW e \in Event, NEW soon
  PROVE  /\ Applied(v, s, e, soon) \in Seen /\ Applied(v, s, e, soon).throttling = s.throttling
         /\ ~ IsSnap(e) => Applied(v, s, e, soon).here = s.here /\ Applied(v, s, e, soon).self = s.self
BY AppliedIs

LEMMA AppliedAllIs ==
  ASSUME NEW v, NEW s \in Seen, NEW w, NEW q \in Seq(Event)
  PROVE  /\ AppliedAll(v, s, q, w) \in Seen /\ AppliedAll(v, s, q, w).throttling = s.throttling
         /\ (\A e : In(e, q) => ~ IsSnap(e)) =>
              AppliedAll(v, s, q, w).here = s.here /\ AppliedAll(v, s, q, w).self = s.self
<1> DEFINE P(x) == /\ AppliedAll(v, s, x, w) \in Seen /\ AppliedAll(v, s, x, w).throttling = s.throttling
                   /\ (\A e : In(e, x) => ~ IsSnap(e)) =>
                        AppliedAll(v, s, x, w).here = s.here /\ AppliedAll(v, s, x, w).self = s.self
           T == {x \in Seq(Event) : P(x)}
<1>1. << >> \in T
  BY AppliedNone, EmptySeq
<1>2. ASSUME NEW x \in T, NEW e \in Event PROVE Append(x, e) \in T
  <2>1. Append(x, e) \in Seq(Event) /\ \A y : In(y, Append(x, e)) <=> In(y, x) \/ y = e
    BY InAppend, AppendProperties
  <2> DEFINE a == AppliedAll(v, s, x, w)
             b == AppliedAll(v, s, Append(x, e), w)
  <2>2. PICK soon : b = Applied(v, a, e, soon)
    <3>1. b = Applied(v, a, e, Len(x) + 1 \in w)
      BY AppliedOneMore
    <3> HIDE DEF a, b
    <3> QED BY <3>1, Zenon
  <2>3. P(x)
    OBVIOUS
  <2>4. b \in Seen /\ b.throttling = s.throttling /\ (~ IsSnap(e) => b.here = a.here /\ b.self = a.self)
    <3>1. a \in Seen /\ a.throttling = s.throttling
      BY <2>3
    <3> HIDE DEF a, b
    <3> QED BY <2>2, <3>1, AppliedKeeps
  <2>5. ASSUME \A y : In(y, Append(x, e)) => ~ IsSnap(y)
        PROVE  b.here = s.here /\ b.self = s.self
    <3>1. ~ IsSnap(e) /\ \A y : In(y, x) => ~ IsSnap(y)
      BY <2>1, <2>5
    <3>2. a.here = s.here /\ a.self = s.self
      BY <2>3, <3>1
    <3> QED BY <2>4, <3>1, <3>2
  <2> QED BY <2>1, <2>4, <2>5
<1>3. T = Seq(Event)
  <2> HIDE DEF T
  <2>1. T \in SUBSET Seq(Event)
    BY DEF T
  <2> QED BY <2>1, <1>1, <1>2, Growth
<1> QED BY <1>3

-----------------------------------------------------------------------------
(* Types, and how far a step or a registration is *)

Steps == Headings \cup {Still}
OnlyViews(q) == \A i \in DOMAIN q : q[i].op = "view"

Joining ==
  \/ /\ Len(todo) = 1 /\ todo[1] = [op |-> "register", rect |-> view]
     /\ reply = << >> /\ watch = None /\ link = << >>
     /\ shown = [m \in Mobiles |-> None]
  \/ todo = << >> /\ reply = <<None>> /\ watch # None
Idle == OnlyViews(todo) /\ reply = << >> /\ watch # None
Asked ==
  /\ Len(todo) # 0 /\ todo[Len(todo)].op = "step" /\ Onto(self, todo[Len(todo)].by) \in Tiles
  /\ \A i \in 1 .. Len(todo) - 1 : todo[i].op = "view"
  /\ reply = << >> /\ watch # None
Told ==
  /\ \E to \in Places, by \in Steps :
       reply = <<[to |-> to, by |-> by]>> /\ Onto(self, by) \in Tiles
  /\ OnlyViews(todo) /\ watch # None

Phases ==
  /\ phase = "joining"  => Joining
  /\ phase = "idle"     => Idle
  /\ phase = "stepping" => Asked \/ Told

TInv == TypeOK /\ Phases /\ at[Me] # None

LEMMA DrawnType ==
  ASSUME NEW m \in Mobiles \cup {Me}, NEW t \in Tiles
  PROVE  Drawn(m, t) \in Event /\ Removed(m, t) \in Event
BY DEF Drawn, Removed, Event, Kinds

LEMMA MovedType ==
  ASSUME NEW m \in Mobiles \cup {Me}, NEW t \in Tiles, NEW u \in Tiles, NEW b \in BOOLEAN
  PROVE  Moved(m, t, u, b) \in Event
BY DEF Moved, Event, Kinds

\* The draws and the deletes of some mobiles of the zone, as a stream.
LEMMA StreamType ==
  ASSUME NEW a \in [Mobiles \cup {Me} -> Places], NEW W \in SUBSET Mobiles,
         \A m \in W : a[m] # None
  PROVE  /\ SetToSeq({Drawn(m, a[m]) : m \in W}) \in Seq(Event)
         /\ SetToSeq({Removed(m, a[m]) : m \in W}) \in Seq(Event)
         /\ \A e : In(e, SetToSeq({Drawn(m, a[m]) : m \in W}))
                     <=> \E m \in W : e = Drawn(m, a[m])
         /\ \A e : In(e, SetToSeq({Removed(m, a[m]) : m \in W}))
                     <=> \E m \in W : e = Removed(m, a[m])
<1> DEFINE D == {Drawn(m, a[m]) : m \in W}
           R == {Removed(m, a[m]) : m \in W}
           fD == [m \in W |-> Drawn(m, a[m])]
           fR == [m \in W |-> Removed(m, a[m])]
<1>1. IsFiniteSet(W)
  BY WhoAssumption, FS_Subset
<1>2. \A m \in W : a[m] \in Tiles
  BY DEF Places
<1>3. D \in SUBSET Event /\ R \in SUBSET Event
  BY <1>2, DrawnType
<1>4. fD \in Surjection(W, D) /\ fR \in Surjection(W, R)
  BY DEF Surjection
<1>5. IsFiniteSet(D) /\ IsFiniteSet(R)
  <2> HIDE DEF D, R, fD, fR
  <2> QED BY <1>1, <1>4, FS_Surjection
<1>6. /\ SetToSeq(D) \in Seq(Event) /\ \A e : In(e, SetToSeq(D)) <=> e \in D
      /\ SetToSeq(R) \in Seq(Event) /\ \A e : In(e, SetToSeq(R)) <=> e \in R
  <2> HIDE DEF D, R
  <2> QED BY <1>3, <1>5, StreamIs
<1> QED BY <1>6

LEMMA WithinIs ==
  ASSUME TypeOK, NEW rects
  PROVE  /\ Within(rects) \in SUBSET Mobiles
         /\ \A m \in Mobiles :
              m \in Within(rects) <=> at[m] # None /\ \E r \in rects : ContainsPos(r, at[m])
BY DEF Within

LEMMA ViewType ==
  ASSUME NEW t \in Tiles
  PROVE  ViewFrom(t) \in Rect /\ ContainsPos(ViewFrom(t), t)
BY ViewIsRect, TilesAssumption, SizesAssumption DEF ViewFrom

LEMMA InitT ==
  ASSUME Init
  PROVE  TInv
<1>1. here \in Tiles /\ self \in Tiles /\ view \in Rect
  BY ViewType DEF Init
<1>2. [op |-> "register", rect |-> view] \in Command
  BY <1>1 DEF Command
<1>3. /\ todo \in Seq(Command) /\ Len(todo) = 1 /\ todo[1] = [op |-> "register", rect |-> view]
      /\ bus \in Seq(Event) /\ link \in Seq(Event)
  BY <1>2, EmptySeq DEF Init
<1>4. /\ acts \in Scenarios /\ at \in [Mobiles \cup {Me} -> Tiles \cup {None}] /\ at[Me] # None
      /\ turn = "waiting" /\ wake \in BOOLEAN /\ watch = None /\ phase = "joining"
      /\ reply = << >> /\ Len(reply) <= 1 /\ link = << >>
      /\ shown \in [Mobiles -> Tiles \cup {None}] /\ shown = [m \in Mobiles |-> None] /\ lately \subseteq Mobiles
  BY ScenarioAssumption, EmptySeq DEF Init
<1>5. TypeOK
  BY <1>1, <1>3, <1>4 DEF TypeOK
<1>6. Phases
  BY <1>3, <1>4 DEF Phases, Joining
<1> QED BY <1>4, <1>5, <1>6 DEF TInv

-----------------------------------------------------------------------------
(* Every action keeps types and phases *)

\* What the client is shown.
Sight == [here |-> here, self |-> self, shown |-> shown, lately |-> lately, throttling |-> Throttling]

LEMMA Facts ==
  ASSUME TInv
  PROVE  /\ acts \in Scenarios
         /\ at \in [Mobiles \cup {Me} -> Places] /\ at[Me] \in Tiles
         /\ bus \in Seq(Event) /\ link \in Seq(Event) /\ todo \in Seq(Command)
         /\ turn \in {"waiting", "batch", "ticking", "reacting"} /\ wake \in BOOLEAN
         /\ watch \in Rect \cup {None} /\ view \in Rect
         /\ phase \in {"joining", "idle", "stepping"} /\ Len(reply) <= 1
         /\ here \in Tiles /\ self \in Tiles /\ shown \in [Mobiles -> Places]
         /\ lately \in SUBSET Mobiles /\ Sight \in Seen
BY DEF TInv, TypeOK, Places, Seen, Sight, Throttling

\* What the client will have been shown once it has what is in its channel, of
\* which the events numbered in w come too soon after others.
Picture(w) == AppliedAll(view, Sight, link, w)

LEMMA PictureIs ==
  ASSUME TInv, NEW w
  PROVE  /\ Picture(w) \in Seen /\ Picture(w).throttling = Throttling
         /\ (\A e : In(e, link) => ~ IsSnap(e)) => Picture(w).here = here /\ Picture(w).self = self
<1>1. /\ Sight \in Seen /\ link \in Seq(Event)
      /\ Sight.here = here /\ Sight.self = self /\ Sight.throttling = Throttling
  BY Facts DEF Sight
<1> QED BY <1>1, AppliedAllIs DEF Picture

LEMMA TakeLinkIs ==
  ASSUME TInv, TakeLink, UNCHANGED acts
  PROVE  /\ \E w : Sight' = Picture(w)
         /\ here' \in Tiles /\ self' \in Tiles
         /\ shown' \in [Mobiles -> Places] /\ lately' \in SUBSET Mobiles
         /\ link' = << >> /\ link' \in Seq(Event)
         /\ (\A e : In(e, link) => ~ IsSnap(e)) => here' = here /\ self' = self
<1>1. PICK w \in SUBSET {n \in DOMAIN link : Throttling} :
        /\ here' = Picture(w).here /\ self' = Picture(w).self
        /\ shown' = Picture(w).shown /\ lately' = Picture(w).lately
        /\ link' = << >>
  BY DEF TakeLink, Picture, Sight
<1>2. /\ Picture(w) \in Seen /\ Picture(w).throttling = Throttling
      /\ (\A e : In(e, link) => ~ IsSnap(e)) => Picture(w).here = here /\ Picture(w).self = self
  BY PictureIs
<1>3. /\ Picture(w).here \in Tiles /\ Picture(w).self \in Tiles
      /\ Picture(w).shown \in [Mobiles -> Places] /\ Picture(w).lately \in SUBSET Mobiles
  BY <1>2 DEF Seen
<1>4. Sight' = Picture(w)
  <2>1. Sight' = [here |-> here', self |-> self', shown |-> shown', lately |-> lately', throttling |-> Throttling]
    BY DEF Sight, Throttling
  <2> QED BY <1>1, <1>2, <2>1 DEF Seen
<1> QED BY <1>1, <1>2, <1>3, <1>4, EmptySeq

LEMMA NoTodo ==
  ASSUME NEW q \in Seq(Command)
  PROVE  /\ DOMAIN q = 1 .. Len(q) /\ Len(q) \in Nat
         /\ Len(q) = 0 <=> q = << >>
         /\ \A i \in 1 .. Len(q) : q[i] \in Command
BY LenProperties, EmptySeq

LEMMA AppendTodo ==
  ASSUME NEW q \in Seq(Command), NEW c \in Command
  PROVE  /\ Append(q, c) \in Seq(Command)
         /\ Len(Append(q, c)) = Len(q) + 1
         /\ DOMAIN Append(q, c) = 1 .. Len(q) + 1
         /\ \A i \in 1 .. Len(q) : Append(q, c)[i] = q[i]
         /\ Append(q, c)[Len(q) + 1] = c
<1>1. Append(q, c) \in Seq(Command)
  BY AppendProperties
<1> QED BY <1>1, AppendProperties, LenProperties

LEMMA TailTodo ==
  ASSUME NEW q \in Seq(Command), q # << >>
  PROVE  /\ Tail(q) \in Seq(Command) /\ Head(q) = q[1] /\ Head(q) \in Command
         /\ Len(q) \in Nat \ {0} /\ Len(Tail(q)) = Len(q) - 1
         /\ DOMAIN Tail(q) = 1 .. Len(q) - 1
         /\ \A i \in 1 .. Len(q) - 1 : Tail(q)[i] = q[i + 1]
<1>1. Tail(q) \in Seq(Command) /\ Len(Tail(q)) = Len(q) - 1
  BY HeadTailProperties
<1>2. \A i \in 1 .. Len(Tail(q)) : Tail(q)[i] = q[i + 1]
  BY HeadTailProperties
<1>3. Head(q) = q[1] /\ Head(q) \in Command /\ Len(q) \in Nat \ {0}
  BY EmptySeq, HeadTailProperties
<1> QED BY <1>1, <1>2, <1>3, LenProperties

\* The view after the character moved.
LEMMA SyncViewIs ==
  ASSUME TInv, SyncView, here' \in Tiles
  PROVE  /\ view' = ViewFrom(here') /\ view' \in Rect
         /\ todo' \in Seq(Command)
         /\ todo' = IF view' # view THEN Append(todo, [op |-> "view", rect |-> view']) ELSE todo
         /\ OnlyViews(todo) => OnlyViews(todo')
<1>1. /\ view' = ViewFrom(here') /\ view' \in Rect
      /\ todo' = IF view' # view THEN Append(todo, [op |-> "view", rect |-> view']) ELSE todo
  BY ViewType DEF SyncView
<1>2. [op |-> "view", rect |-> view'] \in Command
  BY <1>1 DEF Command
<1>3. todo \in Seq(Command) /\ DOMAIN todo = 1 .. Len(todo) /\ Len(todo) \in Nat
  BY Facts, NoTodo
<1>4. todo' \in Seq(Command)
  BY <1>1, <1>2, <1>3, AppendTodo
<1>5. OnlyViews(todo) => OnlyViews(todo')
  BY <1>1, <1>2, <1>3, AppendTodo DEF OnlyViews
<1> QED BY <1>1, <1>4, <1>5

LEMMA JoinedT ==
  ASSUME TInv, Joined
  PROVE  TInv'
<1>1. /\ phase = "joining" /\ reply # << >> /\ TakeLink
      /\ phase' = "idle" /\ reply' = << >>
      /\ UNCHANGED <<acts, at, bus, turn, wake, watch, todo, view>>
  BY DEF Joined, worker
<1>2. /\ here' \in Tiles /\ self' \in Tiles /\ shown' \in [Mobiles -> Places]
      /\ link' \in Seq(Event) /\ lately' \subseteq Mobiles
  BY <1>1, TakeLinkIs
<1>3. Len(reply') <= 1
  BY <1>1, EmptySeq
<1>4. TypeOK'
  BY <1>1, <1>2, <1>3 DEF TInv, TypeOK, Places
<1>5. todo = << >> /\ watch # None
  BY <1>1 DEF TInv, Phases, Joining
<1>6. Idle'
  <2>1. OnlyViews(<< >>)
    BY EmptySeq DEF OnlyViews
  <2> QED BY <1>1, <1>5, <2>1 DEF Idle
<1>7. Phases'
  BY <1>1, <1>6 DEF Phases
<1> QED BY <1>1, <1>4, <1>7 DEF TInv

LEMMA ClientStepT ==
  ASSUME TInv, NEW by \in Steps, ClientStep(by)
  PROVE  TInv'
<1>1. /\ phase = "idle" /\ Onto(self, by) \in Tiles
      /\ phase' = "stepping" /\ todo' = Append(todo, [op |-> "step", by |-> by])
      /\ UNCHANGED <<acts, at, bus, turn, wake, watch, link, reply, here, view, self, shown, lately>>
  BY DEF ClientStep, worker, client
<1>2. [op |-> "step", by |-> by] \in Command
  BY DEF Command, Steps
<1>3. todo \in Seq(Command) /\ Len(todo) \in Nat /\ DOMAIN todo = 1 .. Len(todo)
  BY Facts, NoTodo
<1>4. /\ todo' \in Seq(Command) /\ Len(todo') = Len(todo) + 1
      /\ \A i \in 1 .. Len(todo) : todo'[i] = todo[i]
      /\ todo'[Len(todo) + 1] = [op |-> "step", by |-> by]
  BY <1>1, <1>2, <1>3, AppendTodo
<1>5. TypeOK'
  BY <1>1, <1>4 DEF TInv, TypeOK
<1>6. OnlyViews(todo) /\ reply = << >> /\ watch # None
  BY <1>1 DEF TInv, Phases, Idle
<1>7. Asked'
  <2>1. Len(todo') # 0 /\ Len(todo') - 1 = Len(todo)
    BY <1>3, <1>4
  <2>2. todo'[Len(todo')].op = "step" /\ todo'[Len(todo')].by = by
    BY <1>4
  <2>3. \A i \in 1 .. Len(todo') - 1 : todo'[i].op = "view"
    BY <1>3, <1>4, <1>6, <2>1 DEF OnlyViews
  <2> QED BY <1>1, <1>6, <2>1, <2>2, <2>3 DEF Asked
<1>8. Phases'
  BY <1>1, <1>7 DEF Phases
<1> QED BY <1>1, <1>5, <1>8 DEF TInv

LEMMA StepAnsweredT ==
  ASSUME TInv, StepAnswered
  PROVE  TInv'
<1>1. /\ phase = "stepping" /\ reply # << >>
      /\ IF reply[1].to # None THEN here' = reply[1].to /\ self' = Onto(self, reply[1].by)
                               ELSE here' = here /\ self' = here
      /\ shown' = Evicted(shown, self') /\ SyncView
      /\ phase' = "idle" /\ reply' = << >>
      /\ UNCHANGED <<acts, at, bus, turn, wake, watch, link, lately>>
  BY DEF StepAnswered, worker
<1>2. Told
  BY <1>1 DEF TInv, Phases, Asked
<1>3. PICK to \in Places, by \in Steps :
        reply = <<[to |-> to, by |-> by]>> /\ Onto(self, by) \in Tiles
  BY <1>2 DEF Told
<1>4. reply[1].to = to /\ reply[1].by = by
  BY <1>3
<1>5. here' \in Tiles /\ self' \in Tiles
  BY <1>1, <1>3, <1>4, Facts DEF Places
<1>6. shown' \in [Mobiles -> Places]
  BY <1>1, Facts, EvictedType
<1>7. view' \in Rect /\ todo' \in Seq(Command) /\ OnlyViews(todo')
  BY <1>1, <1>2, <1>5, SyncViewIs DEF Told
<1>8. Len(reply') <= 1
  BY <1>1, EmptySeq
<1>9. TypeOK'
  BY <1>1, <1>5, <1>6, <1>7, <1>8 DEF TInv, TypeOK, Places
<1>10. Idle'
  BY <1>1, <1>2, <1>7 DEF Told, Idle
<1>11. Phases'
  BY <1>1, <1>10 DEF Phases
<1> QED BY <1>1, <1>9, <1>11 DEF TInv

LEMMA HandleEventsT ==
  ASSUME TInv, HandleEvents
  PROVE  TInv'
<1>1. /\ phase = "idle" /\ TakeLink /\ SyncView
      /\ UNCHANGED <<acts, at, bus, turn, wake, watch, phase, reply>>
  BY DEF HandleEvents, worker
<1>2. /\ here' \in Tiles /\ self' \in Tiles /\ shown' \in [Mobiles -> Places]
      /\ link' \in Seq(Event) /\ lately' \subseteq Mobiles
  BY <1>1, TakeLinkIs
<1>3. OnlyViews(todo) /\ reply = << >> /\ watch # None
  BY <1>1 DEF TInv, Phases, Idle
<1>4. view' \in Rect /\ todo' \in Seq(Command) /\ OnlyViews(todo')
  BY <1>1, <1>2, <1>3, SyncViewIs
<1>5. TypeOK'
  BY <1>1, <1>2, <1>4 DEF TInv, TypeOK, Places
<1>6. Idle'
  BY <1>1, <1>3, <1>4 DEF Idle
<1>7. Phases'
  BY <1>1, <1>6 DEF Phases
<1> QED BY <1>1, <1>5, <1>7 DEF TInv

\* The command the worker takes, and what is left of the others.
LEMMA TakeCommandIs ==
  ASSUME TInv, NEW op, TakeCommand(op)
  PROVE  /\ turn \in {"waiting", "batch"} /\ turn' = "batch"
         /\ Len(todo) \in Nat \ {0} /\ todo[1] = Head(todo) /\ todo[1] \in Command
         /\ todo[1].op = op
         /\ todo' \in Seq(Command) /\ Len(todo') = Len(todo) - 1
         /\ DOMAIN todo' = 1 .. Len(todo) - 1
         /\ \A i \in 1 .. Len(todo) - 1 : todo'[i] = todo[i + 1]
         /\ OnlyViews(todo) => OnlyViews(todo')
<1>1. /\ turn \in {"waiting", "batch"} /\ turn' = "batch" /\ todo # << >>
      /\ Head(todo).op = op /\ todo' = Tail(todo)
  BY DEF TakeCommand
<1>2. todo \in Seq(Command) /\ DOMAIN todo = 1 .. Len(todo)
  BY Facts, NoTodo
<1>3. /\ Tail(todo) \in Seq(Command) /\ Head(todo) = todo[1] /\ Head(todo) \in Command
      /\ Len(todo) \in Nat \ {0} /\ Len(Tail(todo)) = Len(todo) - 1
      /\ DOMAIN Tail(todo) = 1 .. Len(todo) - 1
      /\ \A i \in 1 .. Len(todo) - 1 : Tail(todo)[i] = todo[i + 1]
  BY <1>1, <1>2, TailTodo
<1>4. OnlyViews(todo) => OnlyViews(todo')
  BY <1>1, <1>2, <1>3 DEF OnlyViews
<1> QED BY <1>1, <1>3, <1>4

\* Who asks for what: only a joining session registers, only a stepping one
\* steps, and a step is the last command there is.
LEMMA WhoAsks ==
  ASSUME TInv, Len(todo) \in Nat \ {0}
  PROVE  /\ todo[1].op = "register" =>
              phase = "joining" /\ Len(todo) = 1
                /\ todo[1] = [op |-> "register", rect |-> view]
                /\ watch = None /\ link = << >> /\ reply = << >>
                /\ shown = [m \in Mobiles |-> None]
         /\ todo[1].op = "step" =>
              phase = "stepping" /\ Asked /\ Len(todo) = 1
         /\ todo[1].op = "view" =>
              phase # "joining" /\ watch # None /\ todo[1].rect \in Rect
<1>1. todo \in Seq(Command) /\ DOMAIN todo = 1 .. Len(todo) /\ todo # << >> /\ todo[1] \in Command
  BY Facts, NoTodo
<1>2. phase \in {"joining", "idle", "stepping"}
  BY Facts
<1>3. CASE phase = "joining"
  <2>1. Joining
    BY <1>3 DEF TInv, Phases
  <2> QED BY <1>1, <1>3, <2>1 DEF Joining
<1>4. CASE phase = "idle"
  <2>1. OnlyViews(todo) /\ watch # None
    BY <1>4 DEF TInv, Phases, Idle
  <2>2. todo[1].op = "view"
    BY <1>1, <2>1 DEF OnlyViews
  <2> QED BY <1>1, <1>4, <2>1, <2>2 DEF Command
<1>5. CASE phase = "stepping"
  <2>1. (Asked \/ Told) /\ watch # None
    BY <1>5 DEF TInv, Phases, Asked, Told
  <2>2. CASE Told
    <3>1. todo[1].op = "view"
      BY <1>1, <2>2 DEF Told, OnlyViews
    <3> QED BY <1>1, <1>5, <2>1, <3>1 DEF Command
  <2>3. CASE Asked
    <3>1. todo[1].op = "view" \/ Len(todo) = 1
      BY <1>1, <2>3 DEF Asked
    <3>2. Len(todo) = 1 => todo[1].op = "step"
      BY <2>3 DEF Asked
    <3> QED BY <1>1, <1>5, <2>1, <2>3, <3>1, <3>2 DEF Command
  <2> QED BY <2>1, <2>2, <2>3
<1> QED BY <1>2, <1>3, <1>4, <1>5

LEMMA NothingLeft ==
  ASSUME NEW q \in Seq(Command), Len(q) = 0
  PROVE  q = << >> /\ OnlyViews(q)
BY EmptySeq, LenProperties DEF OnlyViews

\* What a session is sent when it registers.
InView == SetToSeq({Drawn(m, at[m]) : m \in Within({view})})

LEMMA InViewIs ==
  ASSUME TInv
  PROVE  /\ InView \in Seq(Event)
         /\ \A e : In(e, InView) <=>
              \E m \in Mobiles : at[m] # None /\ ContainsPos(view, at[m]) /\ e = Drawn(m, at[m])
<1> DEFINE W == Within({view})
<1>1. W \in SUBSET Mobiles
      /\ \A m \in Mobiles : m \in W <=> at[m] # None /\ ContainsPos(view, at[m])
  BY WithinIs DEF TInv
<1> HIDE DEF W
<1>2. \A m \in W : at[m] # None
  BY <1>1
<1>3. /\ SetToSeq({Drawn(m, at[m]) : m \in W}) \in Seq(Event)
      /\ \A e : In(e, SetToSeq({Drawn(m, at[m]) : m \in W})) <=> \E m \in W : e = Drawn(m, at[m])
  BY <1>1, <1>2, Facts, StreamType
<1>4. InView \in Seq(Event) /\ \A e : In(e, InView) <=> \E m \in W : e = Drawn(m, at[m])
  BY <1>3 DEF InView, W
<1> QED BY <1>1, <1>4

LEMMA RegisterObserverT ==
  ASSUME TInv, RegisterObserver
  PROVE  /\ TInv' /\ watch = None /\ watch' = view /\ watch' # None
         /\ link = << >> /\ link' \in Seq(Event)
         /\ link' = Delivered(<< >>, InView)
         /\ phase = "joining" /\ phase' = phase /\ todo' = << >>
         /\ shown = [m \in Mobiles |-> None]
<1> DEFINE S == SetToSeq({Drawn(m, at[m]) : m \in Within({Head(todo).rect})})
<1>1. /\ TakeCommand("register") /\ watch' = Head(todo).rect
      /\ link' = Delivered(link, S) /\ reply' = <<None>>
      /\ UNCHANGED <<acts, at, bus, wake, phase, here, view, self, shown, lately>>
  BY DEF RegisterObserver, session, client
<1>2. /\ turn' = "batch" /\ Len(todo) \in Nat \ {0} /\ todo[1] = Head(todo)
      /\ todo[1].op = "register" /\ todo' \in Seq(Command) /\ Len(todo') = Len(todo) - 1
  BY <1>1, TakeCommandIs
<1>3. /\ phase = "joining" /\ Len(todo) = 1 /\ todo[1].rect = view
      /\ watch = None /\ link = << >> /\ shown = [m \in Mobiles |-> None]
  BY <1>2, WhoAsks
<1>4. todo' = << >>
  BY <1>2, <1>3, NothingLeft
<1>5. watch' = view /\ view \in Rect /\ watch' # None
  BY <1>1, <1>2, <1>3, Facts, TilesAssumption
<1>6. S \in Seq(Event) /\ S = InView
  BY <1>2, <1>3, InViewIs DEF InView
<1>7. link' \in Seq(Event)
  BY <1>1, <1>6, Facts, DeliveredIs
<1>8. Len(reply') <= 1 /\ reply' = <<None>>
  BY <1>1
<1>9. TypeOK'
  BY <1>1, <1>2, <1>5, <1>7, <1>8 DEF TInv, TypeOK
<1>10. Phases'
  BY <1>1, <1>3, <1>4, <1>5, <1>8 DEF Phases, Joining
<1>11. TInv'
  BY <1>1, <1>9, <1>10 DEF TInv
<1> HIDE DEF S
<1>12. link' = Delivered(<< >>, InView)
  BY <1>1, <1>3, <1>6
<1> QED BY <1>1, <1>3, <1>4, <1>5, <1>6, <1>7, <1>11, <1>12

\* The strips gained and lost.
Gained(new) == SetToSeq({Drawn(m, at[m]) : m \in Within(Difference(new, watch))})
Lost(new)   == SetToSeq({Removed(m, at[m]) : m \in Within(Difference(watch, new))})
Strips(new) == IF new = watch THEN << >> ELSE Gained(new) \o Lost(new)

LEMMA StripsType ==
  ASSUME TInv, NEW new \in Rect, watch \in Rect
  PROVE  /\ Strips(new) \in Seq(Event)
         /\ \A e : In(e, Strips(new)) =>
              \E m \in Mobiles :
                /\ at[m] # None
                /\ \/ e = Drawn(m, at[m]) /\ ContainsPos(new, at[m]) /\ ~ ContainsPos(watch, at[m])
                   \/ e = Removed(m, at[m]) /\ ~ ContainsPos(new, at[m])
         /\ \A m \in Mobiles :
              at[m] # None /\ ContainsPos(new, at[m]) /\ ~ ContainsPos(watch, at[m])
                => In(Drawn(m, at[m]), Strips(new))
<1> DEFINE A == Within(Difference(new, watch))
           R == Within(Difference(watch, new))
<1>1. \A m \in Mobiles : at[m] # None => at[m] \in Tile
  BY Facts, TilesAssumption DEF Places
<1>2. A \in SUBSET Mobiles /\ R \in SUBSET Mobiles
  BY WithinIs DEF TInv
<1>3. \A m \in Mobiles :
        m \in A <=> at[m] # None /\ ContainsPos(new, at[m]) /\ ~ ContainsPos(watch, at[m])
  BY <1>1, WithinIs, DifferenceCovers DEF TInv
<1>4. \A m \in Mobiles :
        m \in R <=> at[m] # None /\ ContainsPos(watch, at[m]) /\ ~ ContainsPos(new, at[m])
  BY <1>1, WithinIs, DifferenceCovers DEF TInv
<1> HIDE DEF A, R
<1>5. /\ SetToSeq({Drawn(m, at[m]) : m \in A}) \in Seq(Event)
      /\ \A e : In(e, SetToSeq({Drawn(m, at[m]) : m \in A})) <=> \E m \in A : e = Drawn(m, at[m])
  <2>1. \A m \in A : at[m] # None
    BY <1>2, <1>3
  <2> QED BY <1>2, <2>1, Facts, StreamType
<1>6. /\ SetToSeq({Removed(m, at[m]) : m \in R}) \in Seq(Event)
      /\ \A e : In(e, SetToSeq({Removed(m, at[m]) : m \in R})) <=> \E m \in R : e = Removed(m, at[m])
  <2>1. \A m \in R : at[m] # None
    BY <1>2, <1>4
  <2> QED BY <1>2, <2>1, Facts, StreamType
<1>7. /\ Gained(new) \in Seq(Event)
      /\ \A e : In(e, Gained(new)) <=> \E m \in A : e = Drawn(m, at[m])
  BY <1>5 DEF Gained, A
<1>8. /\ Lost(new) \in Seq(Event)
      /\ \A e : In(e, Lost(new)) <=> \E m \in R : e = Removed(m, at[m])
  BY <1>6 DEF Lost, R
<1>9. CASE new = watch
  <2>1. Strips(new) = << >>
    BY <1>9 DEF Strips
  <2> QED BY <1>9, <2>1, InNone, EmptySeq
<1>10. CASE new # watch
  <2>1. Strips(new) = Gained(new) \o Lost(new)
    BY <1>10 DEF Strips
  <2>2. /\ Strips(new) \in Seq(Event)
        /\ \A e : In(e, Strips(new)) <=> In(e, Gained(new)) \/ In(e, Lost(new))
    BY <1>7, <1>8, <2>1, ConcatProperties, InConcat
  <2>3. ASSUME NEW e, In(e, Strips(new))
        PROVE  \E m \in Mobiles :
                 /\ at[m] # None
                 /\ \/ e = Drawn(m, at[m]) /\ ContainsPos(new, at[m]) /\ ~ ContainsPos(watch, at[m])
                    \/ e = Removed(m, at[m]) /\ ~ ContainsPos(new, at[m])
    BY <1>2, <1>3, <1>4, <1>7, <1>8, <2>2, <2>3
  <2>4. ASSUME NEW m \in Mobiles,
               at[m] # None, ContainsPos(new, at[m]), ~ ContainsPos(watch, at[m])
        PROVE  In(Drawn(m, at[m]), Strips(new))
    BY <1>3, <1>7, <2>2, <2>4
  <2> QED BY <2>2, <2>3, <2>4
<1> QED BY <1>9, <1>10

LEMMA UpdateObserverViewT ==
  ASSUME TInv, UpdateObserverView
  PROVE  /\ TInv' /\ todo[1] \in Command /\ todo[1].op = "view" /\ todo[1].rect \in Rect
         /\ watch \in Rect /\ watch' = todo[1].rect /\ watch' # None
         /\ Strips(todo[1].rect) \in Seq(Event) /\ link' = Delivered(link, Strips(todo[1].rect))
         /\ phase # "joining"
<1> DEFINE new == todo[1].rect
<1>1. /\ TakeCommand("view") /\ watch' = Head(todo).rect
      /\ link' = Delivered(link, Strips(Head(todo).rect))
      /\ UNCHANGED <<acts, at, bus, wake, reply, phase, here, view, self, shown, lately>>
  BY DEF UpdateObserverView, session, client, Strips, Gained, Lost
<1>2. /\ turn' = "batch" /\ Len(todo) \in Nat \ {0} /\ todo[1] = Head(todo) /\ todo[1] \in Command
      /\ todo[1].op = "view" /\ todo' \in Seq(Command) /\ Len(todo') = Len(todo) - 1
      /\ \A i \in 1 .. Len(todo) - 1 : todo'[i] = todo[i + 1]
      /\ OnlyViews(todo) => OnlyViews(todo')
  BY <1>1, TakeCommandIs
<1>3. phase # "joining" /\ watch # None /\ new \in Rect
  BY <1>2, WhoAsks
<1>4. watch \in Rect /\ watch' = new /\ watch' # None
  BY <1>1, <1>2, <1>3, Facts, TilesAssumption
<1>5. Strips(new) \in Seq(Event) /\ link' = Delivered(link, Strips(new))
  BY <1>1, <1>2, <1>3, <1>4, StripsType
<1>6. link' \in Seq(Event)
  BY <1>5, Facts, DeliveredIs
<1>7. TypeOK'
  BY <1>1, <1>2, <1>3, <1>4, <1>6 DEF TInv, TypeOK
<1>8. Idle => Idle'
  BY <1>1, <1>2, <1>4 DEF Idle
<1>9. Told => Told'
  BY <1>1, <1>2, <1>4 DEF Told
<1>10. Asked => Asked'
  <2> SUFFICES ASSUME Asked PROVE Asked'
    OBVIOUS
  <2>1. Len(todo) # 1
    BY <1>2 DEF Asked
  <2>2. /\ Len(todo') # 0 /\ Len(todo') \in Nat
        /\ todo'[Len(todo')] = todo[Len(todo)]
        /\ \A i \in 1 .. Len(todo') - 1 : todo'[i].op = "view"
    <3>1. Len(todo') = Len(todo) - 1 /\ Len(todo) - 1 \in Nat \ {0} /\ Len(todo) - 1 + 1 = Len(todo)
      BY <1>2, <2>1
    <3>2. todo'[Len(todo) - 1] = todo[Len(todo) - 1 + 1]
      BY <1>2, <3>1
    <3>3. \A i \in 1 .. Len(todo) - 2 : todo'[i].op = "view"
      <4> TAKE i \in 1 .. Len(todo) - 2
      <4>1. i \in 1 .. Len(todo) - 1 /\ i + 1 \in 1 .. Len(todo) - 1
        BY <3>1
      <4> QED BY <4>1, <1>2 DEF Asked
    <3> QED BY <3>1, <3>2, <3>3
  <2> QED BY <1>1, <1>4, <2>2 DEF Asked
<1>11. Phases'
  BY <1>1, <1>3, <1>8, <1>9, <1>10 DEF TInv, Phases
<1> QED BY <1>1, <1>2, <1>3, <1>4, <1>5, <1>7, <1>11 DEF TInv

\* A step as the zone takes it: answered, with the old place in the answer's shadow.
LEMMA StepMeT ==
  ASSUME TInv, StepMe
  PROVE  /\ TInv' /\ phase = "stepping" /\ Asked /\ Len(todo) = 1 /\ todo' = << >>
         /\ todo[1] \in Command /\ todo[1].by \in Steps /\ turn' = "batch"
         /\ \/ /\ at' = [at EXCEPT ![Me] = Onto(at[Me], todo[1].by)]
               /\ Onto(at[Me], todo[1].by) \in Tiles
               /\ Moved(Me, at[Me], Onto(at[Me], todo[1].by), FALSE) \in Event
               /\ bus' = Append(bus, Moved(Me, at[Me], Onto(at[Me], todo[1].by), FALSE))
               /\ reply' = <<[to |-> Onto(at[Me], todo[1].by), by |-> todo[1].by]>>
            \/ /\ at' = at /\ bus' = bus
               /\ reply' = <<[to |-> None, by |-> todo[1].by]>>
         /\ UNCHANGED <<acts, wake, watch, link, phase, here, view, self, shown, lately>>
<1> DEFINE by == todo[1].by
           to == Onto(at[Me], by)
<1>1. /\ TakeCommand("step")
      /\ \/ /\ Onto(at[Me], Head(todo).by) \in Tiles
            /\ at' = [at EXCEPT ![Me] = Onto(at[Me], Head(todo).by)]
            /\ bus' = Append(bus, Moved(Me, at[Me], Onto(at[Me], Head(todo).by), FALSE))
            /\ reply' = <<[to |-> Onto(at[Me], Head(todo).by), by |-> Head(todo).by]>>
         \/ /\ reply' = <<[to |-> None, by |-> Head(todo).by]>>
            /\ UNCHANGED <<at, bus>>
      /\ UNCHANGED <<acts, wake, watch, link, phase, here, view, self, shown, lately>>
  BY DEF StepMe, session, client
<1>2. /\ turn' = "batch" /\ Len(todo) \in Nat \ {0} /\ todo[1] = Head(todo) /\ todo[1] \in Command
      /\ todo[1].op = "step" /\ todo' \in Seq(Command) /\ Len(todo') = Len(todo) - 1
  BY <1>1, TakeCommandIs
<1>3. phase = "stepping" /\ Asked /\ Len(todo) = 1
  BY <1>2, WhoAsks
<1>4. todo' = << >> /\ OnlyViews(todo')
  <2>1. Len(todo') = 0
    BY <1>2, <1>3
  <2> QED BY <1>2, <2>1, NothingLeft
<1>5. by \in Steps
  BY <1>2 DEF Command, Steps
<1>6. Onto(self, by) \in Tiles /\ watch # None
  BY <1>3 DEF Asked
<1>7. at[Me] \in Tiles /\ at \in [Mobiles \cup {Me} -> Places] /\ bus \in Seq(Event)
  BY Facts
<1>8. to \in Tiles => Moved(Me, at[Me], to, FALSE) \in Event
  BY <1>7, MovedType
<1> HIDE DEF by, to
<1>9. \/ /\ to \in Tiles /\ at' = [at EXCEPT ![Me] = to]
         /\ bus' = Append(bus, Moved(Me, at[Me], to, FALSE))
         /\ reply' = <<[to |-> to, by |-> by]>>
      \/ reply' = <<[to |-> None, by |-> by]>> /\ at' = at /\ bus' = bus
  BY <1>1, <1>2 DEF by, to
<1>10. at' \in [Mobiles \cup {Me} -> Places] /\ at'[Me] # None /\ bus' \in Seq(Event)
  <2>1. to \in Tiles => to # None /\ to \in Places
    BY TilesAssumption DEF Places
  <2>2. to \in Tiles => Append(bus, Moved(Me, at[Me], to, FALSE)) \in Seq(Event)
    BY <1>7, <1>8, AppendProperties
  <2>3. at[Me] # None
    BY DEF TInv
  <2> QED BY <1>7, <1>9, <2>1, <2>2, <2>3
<1>11. Len(reply') <= 1 /\ \E u \in Places : reply' = <<[to |-> u, by |-> by]>>
  <2>1. to \in Tiles => to \in Places
    BY DEF Places
  <2>2. None \in Places
    BY DEF Places
  <2>3. \E u \in Places : reply' = <<[to |-> u, by |-> by]>>
    BY <1>9, <2>1, <2>2
  <2>4. \A x : Len(<<x>>) = 1
    OBVIOUS
  <2> QED BY <2>3, <2>4
<1>12. TypeOK'
  BY <1>1, <1>2, <1>10, <1>11 DEF TInv, TypeOK, Places
<1>13. Told'
  BY <1>1, <1>4, <1>5, <1>6, <1>11 DEF Told
<1>14. Phases'
  BY <1>1, <1>3, <1>13 DEF Phases
<1> QED BY <1>1, <1>2, <1>3, <1>4, <1>5, <1>8, <1>9, <1>10, <1>12, <1>14 DEF TInv, by, to

\* What anybody in the zone does.
LEMMA ActT ==
  ASSUME TInv, NEW name, NEW m \in Mobiles \cup {Me}, NEW to \in Places, m = Me => to # None,
         NEW event \in Event, Act(name, m, to, event)
  PROVE  TInv'
<1>1. /\ turn' = IF turn = "waiting" THEN "batch" ELSE turn
      /\ at' = [at EXCEPT ![m] = to] /\ bus' = Append(bus, event)
      /\ UNCHANGED <<acts, wake, watch, todo, link, reply, phase, here, view, self, shown, lately>>
  BY DEF Act, session, client
<1>2. bus' \in Seq(Event) /\ at' \in [Mobiles \cup {Me} -> Places]
  BY <1>1, Facts, AppendProperties
<1>3. at'[Me] # None
  BY <1>1, Facts DEF TInv
<1>4. TypeOK'
  BY <1>1, <1>2 DEF TInv, TypeOK, Places
<1>5. Phases'
  BY <1>1 DEF TInv, Phases, Joining, Idle, Asked, Told
<1> QED BY <1>3, <1>4, <1>5 DEF TInv

\* The acts of the world, in one form.
WorldActs(name, m, to, event) ==
  /\ Act(name, m, to, event)
  /\ \/ /\ m \in Mobiles /\ at[m] \in Tiles /\ to \in Tiles
        /\ \/ name = "step" /\ event = Moved(m, at[m], to, FALSE)
           \/ name = "teleport" /\ event = Moved(m, at[m], to, TRUE)
     \/ /\ m \in Mobiles /\ name = "spawn" /\ at[m] = None /\ to \in Tiles
        /\ event = Drawn(m, to) /\ \A i \in DOMAIN bus : bus[i].who # m
     \/ /\ m \in Mobiles /\ name = "remove" /\ at[m] \in Tiles /\ to = None
        /\ event = Removed(m, at[m])
     \/ /\ m \in Mobiles /\ name = "update" /\ at[m] \in Tiles /\ to = at[m]
        /\ event = Drawn(m, to)
     \/ /\ m = Me /\ to \in Tiles /\ event = Moved(Me, at[Me], to, TRUE)
        /\ name = IF phase = "joining" THEN "carry_joining" ELSE "carry"

LEMMA WorldIs ==
  ASSUME TInv, WorldStep
  PROVE  \E name, m, to, event : WorldActs(name, m, to, event)
<1>0. \A m \in Mobiles : at[m] # None => at[m] \in Tiles
  BY Facts DEF Places
<1>1. CASE \E m \in Mobiles, by \in Headings \cup {Still} : MobileStep(m, by)
  <2>1. PICK m \in Mobiles, by \in Headings \cup {Still} : MobileStep(m, by)
    BY <1>1
  <2>2. WorldActs("step", m, Onto(at[m], by), Moved(m, at[m], Onto(at[m], by), FALSE))
    BY <1>0, <2>1 DEF MobileStep, WorldActs
  <2> QED BY <2>2
<1>2. CASE \E m \in Mobiles, t \in Tiles : TeleportEntity(m, t)
  <2>1. PICK m \in Mobiles, t \in Tiles : TeleportEntity(m, t)
    BY <1>2
  <2>2. WorldActs("teleport", m, t, Moved(m, at[m], t, TRUE))
    BY <1>0, <2>1 DEF TeleportEntity, WorldActs
  <2> QED BY <2>2
<1>3. CASE \E m \in Mobiles, t \in Tiles : SpawnEntity(m, t)
  <2>1. PICK m \in Mobiles, t \in Tiles : SpawnEntity(m, t)
    BY <1>3
  <2>2. WorldActs("spawn", m, t, Drawn(m, t))
    BY <2>1 DEF SpawnEntity, WorldActs
  <2> QED BY <2>2
<1>4. CASE \E m \in Mobiles : RemoveEntity(m)
  <2>1. PICK m \in Mobiles : RemoveEntity(m)
    BY <1>4
  <2>2. WorldActs("remove", m, None, Removed(m, at[m]))
    BY <1>0, <2>1 DEF RemoveEntity, WorldActs
  <2> QED BY <2>2
<1>5. CASE \E m \in Mobiles : UpdateEntity(m)
  <2>1. PICK m \in Mobiles : UpdateEntity(m)
    BY <1>5
  <2>2. WorldActs("update", m, at[m], Drawn(m, at[m]))
    BY <1>0, <2>1 DEF UpdateEntity, WorldActs
  <2> QED BY <2>2
<1>6. CASE \E t \in Tiles : CarryMe(t)
  <2>1. PICK t \in Tiles : CarryMe(t)
    BY <1>6
  <2>2. WorldActs(IF phase = "joining" THEN "carry_joining" ELSE "carry", Me, t,
                  Moved(Me, at[Me], t, TRUE))
    BY <2>1 DEF CarryMe, WorldActs
  <2> QED BY <2>2
<1> QED BY <1>1, <1>2, <1>3, <1>4, <1>5, <1>6 DEF WorldStep

LEMMA WorldT ==
  ASSUME TInv, NEW name, NEW m, NEW to, NEW event, WorldActs(name, m, to, event)
  PROVE  /\ TInv' /\ event \in Event /\ m \in Mobiles \cup {Me} /\ to \in Places /\ name \in acts
         /\ turn' = IF turn = "waiting" THEN "batch" ELSE turn
         /\ at' = [at EXCEPT ![m] = to] /\ bus' = Append(bus, event)
         /\ UNCHANGED <<acts, wake, watch, todo, link, reply, phase, here, view, self, shown, lately>>
<1>1. m \in Mobiles \cup {Me} /\ to \in Places /\ at[Me] \in Tiles /\ (m = Me => to # None)
  BY Facts, TilesAssumption, WhoAssumption DEF WorldActs, Places
<1>2. event \in Event
  BY <1>1, DrawnType, MovedType DEF WorldActs
<1>3. TInv'
  BY <1>1, <1>2, ActT DEF WorldActs
<1> QED BY <1>1, <1>2, <1>3 DEF WorldActs, Act, session, client

LEMMA RoutesT ==
  ASSUME TInv, NEW batch \in Seq(Event),
         link' = Delivered(link, RoutedOf(watch, batch)), bus' = << >>,
         turn' \in {"waiting", "batch", "ticking", "reacting"}, wake' \in BOOLEAN,
         UNCHANGED <<acts, at, watch, todo, reply, phase, here, view, self, shown, lately>>
  PROVE  TInv' /\ (watch = None => link' = link)
<1>1. RoutedOf(watch, batch) \in Seq(Event) /\ \A e : In(e, RoutedOf(watch, batch)) => Routed(watch, e)
  BY RoutedIs
<1>2. link' \in Seq(Event) /\ bus' \in Seq(Event)
  BY <1>1, Facts, DeliveredIs, EmptySeq
<1>3. TypeOK'
  BY <1>2 DEF TInv, TypeOK
<1>4. watch = None => link' = link
  <2> SUFFICES ASSUME watch = None PROVE link' = link
    OBVIOUS
  <2>1. \A e : ~ In(e, RoutedOf(watch, batch))
    BY <1>1 DEF Routed
  <2>2. RoutedOf(watch, batch) = << >>
    BY <1>1, <2>1, NothingIn
  <2>3. link = << >>
    BY Facts DEF TInv, Phases, Joining, Idle, Asked, Told
  <2> QED BY <2>2, <2>3, DeliveredNone
<1>5. Phases'
  BY <1>4 DEF TInv, Phases, Joining, Idle, Asked, Told
<1> QED BY <1>3, <1>4, <1>5 DEF TInv

\* The two ways events are routed: all of them, or coalesced.
Routes(batch) ==
  /\ link' = Delivered(link, RoutedOf(watch, batch)) /\ bus' = << >>
  /\ UNCHANGED <<acts, at, watch, todo, reply, phase, here, view, self, shown, lately>>

LEMMA RoutingIsOneOf ==
  ASSUME TInv, FlushEvents \/ TickRoutes
  PROVE  /\ TInv' /\ (watch = None => link' = link)
         /\ \/ Routes(bus) /\ turn = "batch" /\ todo = << >>
            \/ Routes(Coalesced(bus)) /\ turn = "ticking"
         /\ turn' # "batch"
<1>1. bus \in Seq(Event) /\ Coalesced(bus) \in Seq(Event) /\ wake \in BOOLEAN
  BY Facts, CoalescedIs
<1>2. CASE FlushEvents
  <2>1. Routes(bus) /\ turn = "batch" /\ todo = << >> /\ turn' = "waiting" /\ wake' \in BOOLEAN
    BY <1>2, ScenarioAssumption DEF FlushEvents, AskForTick, Routes, session, client
  <2> QED BY <1>1, <2>1, RoutesT DEF Routes
<1>3. CASE TickRoutes
  <2>1. Routes(Coalesced(bus)) /\ turn = "ticking" /\ turn' = "reacting" /\ wake' = wake
    BY <1>3 DEF TickRoutes, Routes, session, client
  <2> QED BY <1>1, <2>1, RoutesT DEF Routes
<1> QED BY <1>2, <1>3

LEMMA TickT ==
  ASSUME TInv, TickBegins \/ TickEnds
  PROVE  /\ TInv' /\ turn # "batch" /\ turn' # "batch"
         /\ UNCHANGED <<acts, at, bus, watch, todo, link, reply, phase, here, view, self, shown, lately>>
<1>1. /\ turn # "batch" /\ turn' \in {"ticking", "waiting"} /\ wake' \in BOOLEAN
      /\ UNCHANGED <<acts, at, bus, watch, todo, link, reply, phase, here, view, self, shown, lately>>
  BY ScenarioAssumption, Facts DEF TickBegins, TickEnds, AskForTick, session, client
<1>2. TypeOK'
  BY <1>1 DEF TInv, TypeOK
<1>3. Phases'
  BY <1>1 DEF TInv, Phases, Joining, Idle, Asked, Told
<1> QED BY <1>1, <1>2, <1>3 DEF TInv

LEMMA StutterT ==
  ASSUME TInv, UNCHANGED vars
  PROVE  TInv'
<1>1. UNCHANGED <<acts, at, bus, turn, wake, watch, todo, link, reply, phase, here, view, self, shown, lately>>
  BY DEF vars, worker, session, client
<1>2. TypeOK'
  BY <1>1 DEF TInv, TypeOK
<1>3. Phases'
  BY <1>1 DEF TInv, Phases, Joining, Idle, Asked, Told
<1> QED BY <1>1, <1>2, <1>3 DEF TInv

LEMMA NextIs ==
  ASSUME [Next]_vars
  PROVE  \/ Joined \/ StepAnswered \/ HandleEvents
         \/ \E by \in Steps : ClientStep(by)
         \/ RegisterObserver \/ UpdateObserverView \/ StepMe
         \/ FlushEvents \/ TickRoutes \/ TickBegins \/ TickEnds
         \/ WorldStep \/ UNCHANGED vars
BY DEF Next, SessionStep, WorkerStep, Steps

LEMMA NextT ==
  ASSUME TInv, [Next]_vars
  PROVE  TInv'
<1>1. CASE \E by \in Steps : ClientStep(by)
  BY <1>1, ClientStepT
<1>2. CASE WorldStep
  BY <1>2, WorldIs, WorldT
<1>3. CASE FlushEvents \/ TickRoutes
  BY <1>3, RoutingIsOneOf
<1>4. CASE TickBegins \/ TickEnds
  BY <1>4, TickT
<1> QED
  BY <1>1, <1>2, <1>3, <1>4, NextIs, JoinedT, StepAnsweredT, HandleEventsT,
     RegisterObserverT, UpdateObserverViewT, StepMeT, StutterT

\* Every variable has the values its declaration promises, whatever is
\* delivered, dropped or coalesced, and wherever the view meets the edge of the
\* map (observer.rs, base_handler.rs, world_events.rs, movement.rs).
THEOREM Typed == Spec => []TypeOK
<1>1. Init => TInv
  BY InitT
<1>2. TInv /\ [Next]_vars => TInv'
  BY NextT
<1>3. TInv => TypeOK
  BY DEF TInv
<1> QED BY <1>1, <1>2, <1>3, PTL DEF Spec

-----------------------------------------------------------------------------
(* The registry will watch what the session takes for its view *)

\* The last rectangle sent is the view.
LastAt(q, w, v, k) ==
  /\ k \in 0 .. Len(q)
  /\ IF k = 0 THEN w = v ELSE q[k].op = "view" /\ q[k].rect = v
  /\ \A j \in k + 1 .. Len(q) : q[j].op = "step"
LInv == watch # None => \E k : LastAt(todo, watch, view, k)

LEMMA SyncViewL ==
  ASSUME TInv, LInv, SyncView, here' \in Tiles, watch' = watch
  PROVE  LInv'
<1> SUFFICES ASSUME watch # None PROVE \E k : LastAt(todo', watch, view', k)
  BY DEF LInv
<1>1. PICK k : LastAt(todo, watch, view, k)
  BY DEF LInv
<1>2. /\ view' \in Rect
      /\ todo' = IF view' # view THEN Append(todo, [op |-> "view", rect |-> view']) ELSE todo
  BY SyncViewIs
<1>3. todo \in Seq(Command) /\ Len(todo) \in Nat
  BY Facts, NoTodo
<1>4. CASE view' = view
  BY <1>1, <1>2, <1>4
<1>5. CASE view' # view
  <2> DEFINE c == [op |-> "view", rect |-> view']
  <2>1. c \in Command /\ c.op = "view" /\ c.rect = view'
    BY <1>2 DEF Command
  <2> HIDE DEF c
  <2>2. /\ Len(todo') = Len(todo) + 1 /\ todo'[Len(todo) + 1] = c
    BY <1>2, <1>3, <1>5, <2>1, AppendTodo DEF c
  <2>3. LastAt(todo', watch, view', Len(todo) + 1)
    BY <1>3, <2>1, <2>2 DEF LastAt
  <2> QED BY <2>3
<1> QED BY <1>4, <1>5

LEMMA NextL ==
  ASSUME TInv, LInv, [Next]_vars
  PROVE  LInv'
<1>0. todo \in Seq(Command) /\ Len(todo) \in Nat /\ DOMAIN todo = 1 .. Len(todo)
  BY Facts, NoTodo
<1>1. CASE UNCHANGED <<todo, watch, view>>
  BY <1>1 DEF LInv
<1>2. ASSUME NEW by \in Steps, ClientStep(by) PROVE LInv'
  <2>1. todo' = Append(todo, [op |-> "step", by |-> by]) /\ watch' = watch /\ view' = view
    BY <1>2 DEF ClientStep, worker
  <2> SUFFICES ASSUME watch # None PROVE \E k : LastAt(todo', watch, view, k)
    BY <2>1 DEF LInv
  <2>2. PICK k : LastAt(todo, watch, view, k)
    BY DEF LInv
  <2> DEFINE c == [op |-> "step", by |-> by]
  <2>3. c \in Command /\ c.op = "step"
    BY DEF Command, Steps
  <2> HIDE DEF c
  <2>4. /\ Len(todo') = Len(todo) + 1 /\ todo'[Len(todo) + 1] = c
        /\ \A i \in 1 .. Len(todo) : todo'[i] = todo[i]
    BY <1>0, <2>1, <2>3, AppendTodo DEF c
  <2>5. LastAt(todo', watch, view, k)
    BY <1>0, <2>2, <2>3, <2>4 DEF LastAt
  <2> QED BY <2>5
<1>3. CASE StepAnswered
  <2>1. TInv' /\ SyncView /\ watch' = watch
    BY <1>3, StepAnsweredT DEF StepAnswered, worker
  <2>2. here' \in Tiles
    BY <2>1 DEF TInv, TypeOK
  <2> QED BY <2>1, <2>2, SyncViewL
<1>4. CASE HandleEvents
  <2>1. TInv' /\ SyncView /\ watch' = watch
    BY <1>4, HandleEventsT DEF HandleEvents, worker
  <2>2. here' \in Tiles
    BY <2>1 DEF TInv, TypeOK
  <2> QED BY <2>1, <2>2, SyncViewL
<1>5. CASE RegisterObserver
  <2>1. watch' = view /\ view' = view /\ todo' = << >>
    BY <1>5, RegisterObserverT DEF RegisterObserver, session
  <2>2. LastAt(todo', watch', view', 0)
    BY <2>1, EmptySeq DEF LastAt
  <2> QED BY <2>2 DEF LInv
<1>6. CASE UpdateObserverView
  <2>1. /\ todo[1].op = "view" /\ watch' = todo[1].rect /\ watch \in Rect
    BY <1>6, UpdateObserverViewT
  <2>2. /\ Len(todo) \in Nat \ {0} /\ Len(todo') = Len(todo) - 1
        /\ \A i \in 1 .. Len(todo) - 1 : todo'[i] = todo[i + 1]
    BY <1>6, TakeCommandIs DEF UpdateObserverView
  <2>3. view' = view /\ watch # None
    BY <1>6, <2>1, TilesAssumption DEF UpdateObserverView, session
  <2>4. PICK k : LastAt(todo, watch, view, k)
    BY <2>3 DEF LInv
  <2>5. k # 0
    BY <2>1, <2>2, <2>4 DEF LastAt
  <2>6. \A j \in k .. Len(todo) - 1 : todo'[j].op = "step"
    <3> TAKE j \in k .. Len(todo) - 1
    <3>1. j \in 1 .. Len(todo) - 1 /\ j + 1 \in k + 1 .. Len(todo)
      BY <2>2, <2>4, <2>5 DEF LastAt
    <3> QED BY <2>2, <2>4, <3>1 DEF LastAt
  <2>7. IF k - 1 = 0 THEN watch' = view ELSE todo'[k - 1].op = "view" /\ todo'[k - 1].rect = view
    <3>1. CASE k = 1
      BY <2>1, <2>4, <3>1 DEF LastAt
    <3>2. CASE k # 1
      <4>1. k - 1 \in 1 .. Len(todo) - 1 /\ k - 1 + 1 = k
        BY <2>2, <2>4, <2>5, <3>2 DEF LastAt
      <4> QED BY <2>2, <2>4, <2>5, <4>1 DEF LastAt
    <3> QED BY <3>1, <3>2
  <2>8. LastAt(todo', watch', view', k - 1)
    <3>1. k - 1 \in 0 .. Len(todo') /\ k - 1 + 1 = k /\ k \in Nat
      BY <2>2, <2>4, <2>5 DEF LastAt
    <3> QED BY <2>2, <2>3, <2>6, <2>7, <3>1 DEF LastAt
  <2> QED BY <2>8 DEF LInv
<1>7. CASE StepMe
  <2>1. /\ Len(todo) = 1 /\ todo[1].op = "step" /\ todo' = << >> /\ watch' = watch /\ view' = view
    BY <1>7, StepMeT DEF Asked
  <2> SUFFICES ASSUME watch # None PROVE \E k : LastAt(todo', watch, view, k)
    BY <2>1 DEF LInv
  <2>2. PICK k : LastAt(todo, watch, view, k)
    BY DEF LInv
  <2>3. k = 0
    BY <2>1, <2>2 DEF LastAt
  <2>4. LastAt(todo', watch, view, 0)
    BY <2>1, <2>2, <2>3, EmptySeq DEF LastAt
  <2> QED BY <2>4
<1>8. CASE Joined
  BY <1>8, <1>1 DEF Joined, worker
<1>9. CASE FlushEvents \/ TickRoutes
  BY <1>9, <1>1, RoutingIsOneOf DEF Routes
<1>10. CASE TickBegins \/ TickEnds
  BY <1>10, <1>1, TickT
<1>11. CASE WorldStep
  BY <1>11, <1>1, WorldIs, WorldT
<1>12. CASE UNCHANGED vars
  BY <1>12, <1>1 DEF vars, worker, session
<1> QED
  BY <1>2, <1>3, <1>4, <1>5, <1>6, <1>7, <1>8, <1>9, <1>10, <1>11, <1>12, NextIs

-----------------------------------------------------------------------------
(* Zone, session and client agree on the place *)

Snapless(q) == \A e : In(e, q) => ~ IsSnap(e)

Placed ==
  /\ phase \in {"joining", "idle"} => here = at[Me] /\ self = at[Me]
  /\ phase = "stepping" =>
       /\ here = self
       /\ reply = << >> => at[Me] = here
       /\ reply # << >> =>
            /\ at[Me] = IF reply[1].to = None THEN here ELSE reply[1].to
            /\ reply[1].to # None => reply[1].to = Onto(here, reply[1].by)

PInv ==
  "carry_joining" \notin acts =>
    /\ view = ViewFrom(here)
    /\ phase = "joining" => Snapless(bus) /\ Snapless(link)
    /\ "carry" \notin acts => Snapless(bus) /\ Snapless(link) /\ Placed



LEMMA InitP ==
  ASSUME Init
  PROVE  PInv /\ LInv
BY InNone DEF Init, PInv, LInv, Snapless, Placed

LEMMA SnaplessRoutes ==
  ASSUME TInv, NEW batch \in Seq(Event), Snapless(batch), Snapless(link), Routes(batch)
  PROVE  Snapless(bus') /\ Snapless(link')
<1>1. /\ RoutedOf(watch, batch) \in Seq(Event)
      /\ \A e : In(e, RoutedOf(watch, batch)) => In(e, batch)
  BY RoutedIs
<1>2. \A e : In(e, link') => In(e, link) \/ In(e, RoutedOf(watch, batch))
  BY <1>1, Facts, DeliveredIs DEF Routes
<1>3. Snapless(link')
  BY <1>1, <1>2 DEF Snapless
<1>4. Snapless(bus')
  BY InNone DEF Routes, Snapless
<1> QED BY <1>3, <1>4

LEMMA SnaplessCoalesced ==
  ASSUME NEW q \in Seq(Event), Snapless(q)
  PROVE  Snapless(Coalesced(q))
BY CoalescedIs DEF Snapless, Origin, IsSnap

LEMMA SnaplessStrips ==
  ASSUME TInv, UpdateObserverView, Snapless(link)
  PROVE  Snapless(link')
<1>1. /\ watch \in Rect /\ todo[1].rect \in Rect
      /\ Strips(todo[1].rect) \in Seq(Event) /\ link' = Delivered(link, Strips(todo[1].rect))
  BY UpdateObserverViewT
<1>2. Snapless(Strips(todo[1].rect))
  <2>1. \A e : In(e, Strips(todo[1].rect)) =>
          \E m \in Mobiles : e = Drawn(m, at[m]) \/ e = Removed(m, at[m])
    BY <1>1, StripsType
  <2>2. \A m \in Mobiles : ~ IsSnap(Drawn(m, at[m])) /\ ~ IsSnap(Removed(m, at[m]))
    BY DEF IsSnap, Drawn, Removed
  <2> QED BY <2>1, <2>2 DEF Snapless
<1> QED BY <1>1, <1>2, Facts, DeliveredIs DEF Snapless

\* What does not touch the session keeps the agreement.
LEMMA SameP ==
  ASSUME PInv,
         UNCHANGED <<acts, at, phase, reply, here, view, self>>,
         Snapless(bus) /\ Snapless(link) => Snapless(bus') /\ Snapless(link')
  PROVE  PInv'
<1> SUFFICES ASSUME "carry_joining" \notin acts
             PROVE  /\ view = ViewFrom(here)
                    /\ phase = "joining" => Snapless(bus') /\ Snapless(link')
                    /\ "carry" \notin acts => Snapless(bus') /\ Snapless(link') /\ Placed'
  BY DEF PInv
<1>1. Placed => Placed'
  BY DEF Placed
<1> QED BY <1>1 DEF PInv

LEMMA NextP ==
  ASSUME TInv, PInv, [Next]_vars
  PROVE  PInv'
<1>1. CASE RegisterObserver
  <2>1. /\ UNCHANGED <<acts, at, bus, phase, here, view, self>> /\ phase = "joining"
    BY <1>1, RegisterObserverT DEF RegisterObserver, session, client
  <2>2. Snapless(link')
    <3>1. link' = Delivered(<< >>, InView)
      BY <1>1, RegisterObserverT
    <3>2. InView \in Seq(Event) /\ \A e : In(e, InView) => \E m \in Mobiles : e = Drawn(m, at[m])
      BY InViewIs
    <3>3. \A e : In(e, link') => In(e, InView)
      BY <3>1, <3>2, DeliveredIs, EmptySeq, InNone
    <3>4. \A m : ~ IsSnap(Drawn(m, at[m]))
      BY DEF IsSnap, Drawn
    <3> QED BY <3>2, <3>3, <3>4 DEF Snapless
  <2>3. Placed => Placed'
    BY <2>1 DEF Placed
  <2> QED BY <2>1, <2>2, <2>3 DEF PInv
<1>2. CASE UpdateObserverView
  <2>1. UNCHANGED <<acts, at, bus, phase, reply, here, view, self>>
    BY <1>2 DEF UpdateObserverView, session, client
  <2> QED BY <1>2, <2>1, SameP, SnaplessStrips
<1>3. CASE FlushEvents \/ TickRoutes
  <2>1. \E batch \in Seq(Event) : Routes(batch) /\ (Snapless(bus) => Snapless(batch))
    BY <1>3, RoutingIsOneOf, SnaplessCoalesced, CoalescedIs, Facts
  <2>2. UNCHANGED <<acts, at, phase, reply, here, view, self>>
    BY <2>1 DEF Routes
  <2> QED BY <2>1, <2>2, SameP, SnaplessRoutes
<1>4. CASE TickBegins \/ TickEnds
  <2>1. UNCHANGED <<acts, at, bus, link, phase, reply, here, view, self>>
    BY <1>4, TickT
  <2> QED BY <2>1, SameP
<1>5. CASE UNCHANGED vars
  <2>1. UNCHANGED <<acts, at, bus, link, phase, reply, here, view, self>>
    BY <1>5 DEF vars, worker, session, client
  <2> QED BY <2>1, SameP
<1>6. CASE Joined
  <2>1. /\ TakeLink /\ phase = "joining" /\ phase' = "idle" /\ reply' = << >>
        /\ UNCHANGED <<acts, at, bus, view>>
    BY <1>6 DEF Joined, worker
  <2>2. link' = << >> /\ (Snapless(link) => here' = here /\ self' = self)
    BY <2>1, TakeLinkIs DEF Snapless
  <2>3. Snapless(link')
    BY <2>2, InNone DEF Snapless
  <2> QED BY <2>1, <2>2, <2>3 DEF PInv, Placed
<1>7. ASSUME NEW by \in Steps, ClientStep(by) PROVE PInv'
  <2>1. /\ phase = "idle" /\ phase' = "stepping"
        /\ UNCHANGED <<acts, at, bus, link, reply, here, view, self>>
    BY <1>7 DEF ClientStep, worker, client
  <2>2. reply = << >>
    BY <2>1 DEF TInv, Phases, Idle
  <2> QED BY <2>1, <2>2 DEF PInv, Placed
<1>8. CASE HandleEvents
  <2>1. /\ TakeLink /\ SyncView /\ phase = "idle" /\ phase' = "idle"
        /\ UNCHANGED <<acts, at, bus, reply>>
    BY <1>8 DEF HandleEvents, worker
  <2>2. link' = << >> /\ (Snapless(link) => here' = here /\ self' = self) /\ here' \in Tiles
    BY <2>1, TakeLinkIs DEF Snapless
  <2>3. view' = ViewFrom(here')
    BY <2>1, <2>2, SyncViewIs
  <2>4. Snapless(link')
    BY <2>2, InNone DEF Snapless
  <2> QED BY <2>1, <2>2, <2>3, <2>4 DEF PInv, Placed
<1>9. CASE StepAnswered
  <2>1. /\ phase = "stepping" /\ reply # << >>
        /\ IF reply[1].to # None THEN here' = reply[1].to /\ self' = Onto(self, reply[1].by)
                                 ELSE here' = here /\ self' = here
        /\ SyncView /\ phase' = "idle"
        /\ UNCHANGED <<acts, at, bus, link>>
    BY <1>9 DEF StepAnswered, worker
  <2>2. here' \in Tiles
    BY <1>9, StepAnsweredT DEF TInv, TypeOK
  <2>3. view' = ViewFrom(here')
    BY <2>1, <2>2, SyncViewIs
  <2>4. Placed => here' = at[Me] /\ self' = at[Me]
    BY <2>1 DEF Placed
  <2> QED BY <2>1, <2>3, <2>4 DEF PInv, Placed
<1>10. CASE StepMe
  <2> DEFINE by == todo[1].by
             to == Onto(at[Me], by)
  <2>1. /\ phase = "stepping" /\ Asked
        /\ \/ /\ at' = [at EXCEPT ![Me] = to] /\ to \in Tiles
              /\ Moved(Me, at[Me], to, FALSE) \in Event
              /\ bus' = Append(bus, Moved(Me, at[Me], to, FALSE))
              /\ reply' = <<[to |-> to, by |-> by]>>
           \/ /\ at' = at /\ bus' = bus
              /\ reply' = <<[to |-> None, by |-> by]>>
        /\ UNCHANGED <<acts, link, phase, here, view, self>>
    BY <1>10, StepMeT
  <2> HIDE DEF by, to
  <2>2. reply = << >>
    BY <2>1 DEF Asked
  <2>3. Snapless(bus) => Snapless(bus')
    <3>1. ~ IsSnap(Moved(Me, at[Me], to, FALSE))
      BY DEF IsSnap, Moved
    <3>2. Moved(Me, at[Me], to, FALSE) \in Event =>
            \A e : In(e, Append(bus, Moved(Me, at[Me], to, FALSE)))
                     <=> In(e, bus) \/ e = Moved(Me, at[Me], to, FALSE)
      BY Facts, InAppend
    <3> QED BY <2>1, <3>1, <3>2 DEF Snapless
  <2>4. Placed => Placed'
    <3> SUFFICES ASSUME here = self, at[Me] = here PROVE Placed'
      BY <2>1, <2>2 DEF Placed
    <3>1. at \in [Mobiles \cup {Me} -> Places]
      BY Facts
    <3>2. CASE at' = [at EXCEPT ![Me] = to] /\ to \in Tiles /\ reply' = <<[to |-> to, by |-> by]>>
      <4>1. at'[Me] = to /\ reply'[1].to = to /\ reply'[1].by = by /\ reply' # << >> /\ to # None
        BY <3>1, <3>2, TilesAssumption
      <4> QED BY <2>1, <4>1 DEF Placed, to
    <3>3. CASE at' = at /\ reply' = <<[to |-> None, by |-> by]>>
      <4>1. reply'[1].to = None /\ reply' # << >>
        BY <3>3
      <4> QED BY <2>1, <3>3, <4>1 DEF Placed
    <3> QED BY <2>1, <3>2, <3>3
  <2> QED BY <2>1, <2>3, <2>4 DEF PInv
<1>11. CASE WorldStep
  <2>1. PICK name, m, to, event : WorldActs(name, m, to, event)
    BY <1>11, WorldIs
  <2>2. /\ event \in Event /\ m \in Mobiles \cup {Me} /\ name \in acts
        /\ at' = [at EXCEPT ![m] = to] /\ bus' = Append(bus, event)
        /\ UNCHANGED <<acts, link, reply, phase, here, view, self>>
    BY <2>1, WorldT
  <2>3. CASE m = Me
    <3>1. name = IF phase = "joining" THEN "carry_joining" ELSE "carry"
      BY <2>1, <2>3, WhoAssumption DEF WorldActs
    <3> QED BY <2>2, <3>1 DEF PInv
  <2>4. CASE m # Me
    <3>1. ~ IsSnap(event)
      BY <2>1, <2>4 DEF WorldActs, IsSnap, Moved, Drawn, Removed
    <3>2. Snapless(bus) => Snapless(bus')
      BY <2>2, <3>1, Facts, InAppend DEF Snapless
    <3>3. at'[Me] = at[Me]
      BY <2>2, <2>4, Facts
    <3>4. Placed => Placed'
      BY <2>2, <3>3 DEF Placed
    <3> QED BY <2>2, <3>2, <3>4 DEF PInv
  <2> QED BY <2>3, <2>4
<1> QED
  BY <1>1, <1>2, <1>3, <1>4, <1>5, <1>6, <1>7, <1>8, <1>9, <1>10, <1>11, NextIs

\* Whenever nothing is under way the registry watches what the session takes for
\* its view, and zone, session and client agree where the player stands, in the
\* scenarios QuietAgreement names (sync_view_rect, update_view, handle_move).
\* No assumption on the capacity of the channel: what it drops is not needed.
THEOREM AllAgree == Spec => []QuietAgreement
<1>1. Init => TInv /\ LInv /\ PInv
  BY InitT, InitP
<1>2. TInv /\ LInv /\ PInv /\ [Next]_vars => (TInv /\ LInv /\ PInv)'
  BY NextT, NextL, NextP
<1>3. TInv /\ LInv /\ PInv => QuietAgreement
  <2> SUFFICES ASSUME TInv, LInv, PInv, Quiet, "carry_joining" \notin acts
               PROVE  /\ watch = view /\ view = ViewFrom(here)
                      /\ "carry" \notin acts => here = at[Me] /\ self = at[Me]
    BY DEF QuietAgreement
  <2>1. phase = "idle" /\ todo = << >>
    BY DEF Quiet
  <2>2. watch # None
    BY <2>1 DEF TInv, Phases, Idle
  <2>3. PICK k : LastAt(todo, watch, view, k)
    BY <2>2 DEF LInv
  <2>4. k = 0
    BY <2>1, <2>3, EmptySeq DEF LastAt
  <2>5. watch = view
    BY <2>3, <2>4 DEF LastAt
  <2> QED BY <2>1, <2>5 DEF PInv, Placed
<1> QED BY <1>1, <1>2, <1>3, PTL DEF Spec

-----------------------------------------------------------------------------
(* Where mobiles were when the events of a batch were published *)

Position == [Mobiles \cup {Me} -> Places]

\* The event e takes the zone from a to b.
Follows(a, e, b) ==
  /\ a \in Position /\ b \in Position
  /\ b = [a EXCEPT ![e.who] = IF e.kind = "removed" THEN None ELSE e.to]
  /\ e.kind # "drawn" => a[e.who] = e.from
  /\ e.kind = "drawn" => a[e.who] \in {None, e.to} /\ e.from = e.to

\* The events of q take the zone along pos.
Way(pos, q) == /\ pos \in [0 .. Len(q) -> Position]
               /\ \A i \in 1 .. Len(q) : Follows(pos[i - 1], q[i], pos[i])

\* What the client draws, if anything, where the mobile is, as far as that is
\* in the view.
Right(v, p, a) == IF a # None /\ ContainsPos(v, a) THEN p = a
                  ELSE p = None \/ ~ ContainsPos(v, p)

\* ... and somewhere in the view, if it is redrawn rarely.
Sees(v, p) == p # None /\ ContainsPos(v, p)
Fair(v, s, m, a) == IF m \in s.lately THEN Sees(v, s.shown[m]) <=> Sees(v, a)
                    ELSE Right(v, s.shown[m], a)

\* m is drawn where it was, and not forgotten.
Stays(s, z, m) == z.shown[m] = s.shown[m] /\ (m \in s.lately => m \in z.lately)

LEMMA RightIsFair ==
  ASSUME NEW v, NEW s, NEW m, NEW a, Right(v, s.shown[m], a)
  PROVE  Fair(v, s, m, a)
BY DEF Right, Fair, Sees

LEMMA StaysFair ==
  ASSUME NEW v, NEW s, NEW z, NEW m, NEW a, Stays(s, z, m), Fair(v, s, m, a)
  PROVE  Fair(v, z, m, a)
BY DEF Right, Fair, Sees, Stays

\* Blocks hold what is in the view.
LEMMA DivIsMonotonic ==
  ASSUME NEW a \in Nat, NEW b \in Nat, NEW d \in Nat \ {0}, a <= b
  PROVE  a \div d <= b \div d
OBVIOUS

LEMMA InViewOnBlocks ==
  ASSUME NEW r \in Rect, NEW t \in Tiles, ContainsPos(r, t)
  PROVE  OnBlocksOf(r, t)
<1>1. /\ r.x_min \in Nat /\ r.x_max \in Nat /\ r.y_min \in Nat /\ r.y_max \in Nat
      /\ t.x \in Nat /\ t.y \in Nat /\ BlockSize \in Nat \ {0}
  BY RectBounds, MaxCoordAssumption, TilesAssumption, SizesAssumption DEF Tile, Coord
<1> QED BY <1>1, DivIsMonotonic DEF ContainsPos, OnBlocksOf

\* What an event does to a picture: it stays, or is right after it.
LEMMA EffectIsRight ==
  ASSUME NEW v, NEW p, NEW e \in Event, NEW a, NEW b, Follows(a, e, b)
  PROVE  /\ Effect(v, p, e) = p \/ Right(v, Effect(v, p, e), b[e.who])
         /\ Right(v, p, a[e.who]) => Right(v, Effect(v, p, e), b[e.who])
         /\ Leaves(v, e) => Right(v, Effect(v, p, e), b[e.who])
         /\ (Sees(v, p) <=> Sees(v, a[e.who]))
              => (Sees(v, Effect(v, p, e)) <=> Sees(v, b[e.who]))
<1>1. /\ e.who \in Mobiles \cup {Me} /\ e.to # None
      /\ b[e.who] = IF e.kind = "removed" THEN None ELSE e.to
      /\ e.kind # "drawn" => a[e.who] = e.from /\ a[e.who] # None
      /\ e.kind = "drawn" => (a[e.who] = None \/ a[e.who] = e.to) /\ e.from = e.to
      /\ e.kind \in {"moved", "drawn", "removed"}
  BY TilesAssumption DEF Follows, Event, Position, Kinds
<1>2. CASE e.kind = "drawn"
  BY <1>1, <1>2 DEF Effect, Right, Sees, Leaves
<1>3. CASE e.kind = "removed"
  BY <1>1, <1>3 DEF Effect, Right, Sees, Leaves
<1>4. CASE e.kind = "moved"
  BY <1>1, <1>4 DEF Effect, Right, Sees, Leaves
<1> QED BY <1>1, <1>2, <1>3, <1>4

\* The same of all that is seen: a move that is skipped was within the view.
LEMMA MakesFair ==
  ASSUME NEW v, NEW s, NEW e \in Event, NEW z, NEW a, NEW b, Follows(a, e, b), Makes(v, s, e, z)
  PROVE  /\ Stays(s, z, e.who) \/ Fair(v, z, e.who, b[e.who])
         /\ Fair(v, s, e.who, a[e.who]) => Fair(v, z, e.who, b[e.who])
<1> DEFINE m == e.who
           p == s.shown[m]
           E == Effect(v, p, e)
<1>1. CASE Skips(v, s, e) /\ z = s
  <2>1. Stays(s, z, m)
    BY <1>1 DEF Stays
  <2>2. Sees(v, a[m]) /\ Sees(v, b[m])
    BY <1>1, TilesAssumption DEF Skips, Follows, Event, Position, Sees
  <2>3. m \in s.lately
    BY <1>1 DEF Skips
  <2> QED BY <1>1, <2>1, <2>2, <2>3 DEF Fair
<1>2. CASE z.shown[m] = E /\ (m \in s.lately => Leaves(v, e) \/ m \in z.lately)
  <2>1. /\ E = p \/ Right(v, E, b[m])
        /\ Right(v, p, a[m]) => Right(v, E, b[m])
        /\ Leaves(v, e) => Right(v, E, b[m])
        /\ (Sees(v, p) <=> Sees(v, a[m])) => (Sees(v, E) <=> Sees(v, b[m]))
    BY EffectIsRight
  <2>2. Right(v, E, b[m]) => Fair(v, z, m, b[m])
    BY <1>2, RightIsFair
  <2>3. Stays(s, z, m) \/ Fair(v, z, m, b[m])
    BY <1>2, <2>1, <2>2 DEF Stays
  <2>4. ASSUME Fair(v, s, m, a[m]) PROVE Fair(v, z, m, b[m])
    <3>1. CASE m \notin s.lately
      BY <2>1, <2>2, <2>4, <3>1 DEF Fair
    <3>2. CASE Leaves(v, e)
      BY <2>1, <2>2, <3>2
    <3>3. CASE m \in s.lately /\ m \in z.lately
      BY <1>2, <2>1, <2>4, <3>3 DEF Fair
    <3> QED BY <1>2, <3>1, <3>2, <3>3
  <2> QED BY <2>3, <2>4
<1> QED BY <1>1, <1>2 DEF Makes

\* What happens out of the view has no say in what is seen.
LEMMA OutOfView ==
  ASSUME NEW v, NEW s, NEW e \in Event, NEW a, NEW b, Follows(a, e, b),
         ~ ContainsPos(v, e.from), ~ ContainsPos(v, e.to), Fair(v, s, e.who, a[e.who])
  PROVE  Fair(v, s, e.who, b[e.who])
<1>1. /\ b[e.who] = IF e.kind = "removed" THEN None ELSE e.to
      /\ a[e.who] \in {e.from, e.to, None}
  BY DEF Follows, Event, Position
<1>2. ~ Sees(v, a[e.who]) /\ ~ Sees(v, b[e.who])
  BY <1>1 DEF Sees
<1> QED BY <1>2 DEF Fair, Right, Sees

\* A way goes on with the next event, and was one before the last.
OneOn(pos, n, b) == [k \in 0 .. n + 1 |-> IF k = n + 1 THEN b ELSE pos[k]]
LEMMA WayOn ==
  ASSUME NEW q \in Seq(Event), NEW pos, Way(pos, q), NEW e \in Event, NEW b,
         Follows(pos[Len(q)], e, b)
  PROVE  /\ Way(OneOn(pos, Len(q), b), Append(q, e))
         /\ OneOn(pos, Len(q), b)[Len(q) + 1] = b
         /\ \A k \in 0 .. Len(q) : OneOn(pos, Len(q), b)[k] = pos[k]
<1> DEFINE n == Len(q)
           on == OneOn(pos, n, b)
<1>1. /\ n \in Nat /\ Len(Append(q, e)) = n + 1 /\ Append(q, e)[n + 1] = e
      /\ \A i \in 1 .. n : Append(q, e)[i] = q[i]
  OBVIOUS
<1>2. /\ on[n + 1] = b /\ \A k \in 0 .. n : on[k] = pos[k]
      /\ DOMAIN on = 0 .. n + 1
  BY <1>1 DEF OneOn
<1>3. pos \in [0 .. n -> Position] /\ \A i \in 1 .. n : Follows(pos[i - 1], q[i], pos[i])
  BY DEF Way
<1>4. b \in Position /\ Follows(pos[n], e, b)
  BY DEF Follows
<1>5. on \in [0 .. n + 1 -> Position]
  BY <1>1, <1>3, <1>4 DEF OneOn
<1> HIDE DEF n, on
<1>6. ASSUME NEW i \in 1 .. n + 1 PROVE Follows(on[i - 1], Append(q, e)[i], on[i])
  <2>1. CASE i = n + 1
    <3>1. on[i - 1] = pos[n] /\ on[i] = b /\ Append(q, e)[i] = e
      BY <1>1, <1>2, <2>1
    <3> QED BY <1>4, <3>1
  <2>2. CASE i # n + 1
    <3>1. i \in 1 .. n /\ i - 1 \in 0 .. n /\ i \in 0 .. n
      BY <1>1, <2>2
    <3> QED BY <1>1, <1>2, <1>3, <3>1
  <2> QED BY <2>1, <2>2
<1>7. Way(on, Append(q, e))
  BY <1>1, <1>5, <1>6 DEF Way
<1> QED BY <1>2, <1>7 DEF n, on

LEMMA WayBack ==
  ASSUME NEW q \in Seq(Event), NEW e \in Event, NEW pos, Way(pos, Append(q, e))
  PROVE  /\ \E back : Way(back, q) /\ \A k \in 0 .. Len(q) : back[k] = pos[k]
         /\ Follows(pos[Len(q)], e, pos[Len(q) + 1])
<1> DEFINE n == Len(q)
           back == [k \in 0 .. n |-> pos[k]]
<1>1. /\ n \in Nat /\ Len(Append(q, e)) = n + 1 /\ Append(q, e)[n + 1] = e
      /\ \A i \in 1 .. n : Append(q, e)[i] = q[i]
  OBVIOUS
<1>2. \A k \in 0 .. n : back[k] = pos[k]
  OBVIOUS
<1>3. /\ pos \in [0 .. n + 1 -> Position]
      /\ \A i \in 1 .. n + 1 : Follows(pos[i - 1], Append(q, e)[i], pos[i])
  BY <1>1 DEF Way
<1>4. back \in [0 .. n -> Position]
  BY <1>1, <1>3
<1> HIDE DEF n, back
<1>5. ASSUME NEW i \in 1 .. n PROVE Follows(back[i - 1], q[i], back[i])
  <2>1. i \in 1 .. n + 1 /\ i - 1 \in 0 .. n /\ i \in 0 .. n
    BY <1>1
  <2> QED BY <1>1, <1>2, <1>3, <2>1
<1>6. Follows(pos[n], e, pos[n + 1])
  <2>1. n + 1 \in 1 .. n + 1 /\ n + 1 - 1 = n
    BY <1>1
  <2> QED BY <1>1, <1>3, <2>1
<1>7. Way(back, q)
  BY <1>4, <1>5 DEF Way, n
<1> QED BY <1>2, <1>6, <1>7 DEF n

\* What reaches the session of an event by a mobile, and what it does to the
\* picture of it: a move that is not routed is out of the view.
LEMMA RoutedEffect ==
  ASSUME NEW v \in Rect, NEW s \in Seen, NEW w, NEW q \in Seq(Event), NEW e \in Event,
         ~ IsSnap(e), NEW m \in Mobiles
  PROVE  LET p == AppliedAll(v, s, RoutedOf(v, q), w)
             after == AppliedAll(v, s, RoutedOf(v, Append(q, e)), w)
         IN  IF e.who = m
             THEN \/ Makes(v, p, e, after)
                  \/ after = p /\ ~ ContainsPos(v, e.from) /\ ~ ContainsPos(v, e.to)
             ELSE Alike(p, after, m)
<1> DEFINE p == AppliedAll(v, s, RoutedOf(v, q), w)
           after == AppliedAll(v, s, RoutedOf(v, Append(q, e)), w)
<1>1. RoutedOf(v, q) \in Seq(Event)
  BY RoutedIs
<1>2. p \in Seen
  BY <1>1, AppliedAllIs
<1>3. RoutedOf(v, Append(q, e)) = RoutedTo(v, RoutedOf(v, q), e)
  BY RoutedOneMore
<1>4. v # None
  BY TilesAssumption
<1>5. CASE Routed(v, e)
  <2>1. after = Applied(v, p, e, Len(RoutedOf(v, q)) + 1 \in w)
    BY <1>1, <1>3, <1>5, AppliedOneMore DEF RoutedTo
  <2> HIDE DEF p, after
  <2>2. IF e.who = m THEN Makes(v, p, e, after) ELSE Alike(p, after, m)
    BY <1>2, <2>1, AppliedIs
  <2> QED BY <2>2 DEF p, after
<1>6. CASE ~ Routed(v, e)
  <2>1. after = p
    BY <1>3, <1>6 DEF RoutedTo
  <2>2. e.from \in Tiles /\ e.to \in Tiles
    BY DEF Event
  <2>3. ~ ContainsPos(v, e.from) /\ ~ ContainsPos(v, e.to)
    BY <1>4, <1>6, <2>2, InViewOnBlocks DEF Routed
  <2> QED BY <2>1, <2>3 DEF Alike
<1> QED BY <1>5, <1>6

\* The events of a batch, routed by blocks and drawn by view, set the picture
\* of a mobile right if it was right at any time of the batch; and where they
\* change it, they set it right.
LEMMA RoutedRight ==
  ASSUME NEW v \in Rect, NEW s \in Seen, NEW w, NEW m \in Mobiles,
         NEW batch \in Seq(Event), Snapless(batch), NEW way, Way(way, batch)
  PROVE  LET after == AppliedAll(v, s, RoutedOf(v, batch), w)
             n == Len(batch)
         IN  (\E k \in 0 .. n : Fair(v, s, m, way[k][m])) => Fair(v, after, m, way[n][m])
<1> DEFINE p(q) == AppliedAll(v, s, RoutedOf(v, q), w)
           Good(q) == Snapless(q) =>
             \A pos : Way(pos, q) =>
               /\ Stays(s, p(q), m) \/ Fair(v, p(q), m, pos[Len(q)][m])
               /\ \A k \in 0 .. Len(q) :
                    Fair(v, s, m, pos[k][m]) => Fair(v, p(q), m, pos[Len(q)][m])
           T == {q \in Seq(Event) : Good(q)}
<1>1. << >> \in T
  <2>1. p(<< >>) = s
    BY RoutedNone, AppliedNone
  <2> HIDE DEF p
  <2>2. \A k \in 0 .. Len(<< >>) : k = Len(<< >>)
    OBVIOUS
  <2>3. Stays(s, s, m)
    BY DEF Stays
  <2>4. Good(<< >>)
    BY <2>1, <2>2, <2>3
  <2>5. << >> \in Seq(Event)
    OBVIOUS
  <2> QED BY <2>4, <2>5
<1>2. ASSUME NEW q \in Seq(Event), Good(q), NEW e \in Event PROVE Good(Append(q, e))
  <2> SUFFICES ASSUME Snapless(Append(q, e)), NEW pos, Way(pos, Append(q, e))
               PROVE  LET r == Append(q, e)
                      IN  /\ Stays(s, p(r), m) \/ Fair(v, p(r), m, pos[Len(r)][m])
                          /\ \A k \in 0 .. Len(r) :
                               Fair(v, s, m, pos[k][m]) => Fair(v, p(r), m, pos[Len(r)][m])
    OBVIOUS
  <2> DEFINE n == Len(q)
             a == pos[n]
             b == pos[n + 1]
             r == Append(q, e)
             x == p(q)
             z == p(r)
  <2>1. n \in Nat /\ Len(r) = n + 1
    OBVIOUS
  <2>2. Snapless(q) /\ ~ IsSnap(e)
    BY InAppend DEF Snapless
  <2>3. PICK back : Way(back, q) /\ \A k \in 0 .. n : back[k] = pos[k]
    BY WayBack
  <2>4. Follows(a, e, b)
    BY WayBack
  <2>5. /\ Stays(s, x, m) \/ Fair(v, x, m, a[m])
        /\ \A k \in 0 .. n : Fair(v, s, m, pos[k][m]) => Fair(v, x, m, a[m])
    <3>1. n \in 0 .. n
      BY <2>1
    <3> QED BY <1>2, <2>2, <2>3, <3>1
  <2>6. IF e.who = m
        THEN \/ Makes(v, x, e, z)
             \/ z = x /\ ~ ContainsPos(v, e.from) /\ ~ ContainsPos(v, e.to)
        ELSE Alike(x, z, m)
    BY <2>2, RoutedEffect
  <2>7. e.who # m => b[m] = a[m]
    BY <2>4 DEF Follows, Position
  <2> HIDE DEF p, n, a, b, r, x, z
  <2>8. /\ Stays(x, z, m) \/ Fair(v, z, m, b[m])
        /\ Fair(v, x, m, a[m]) => Fair(v, z, m, b[m])
    <3>1. CASE e.who = m /\ Makes(v, x, e, z)
      <4>1. /\ Stays(x, z, e.who) \/ Fair(v, z, e.who, b[e.who])
            /\ Fair(v, x, e.who, a[e.who]) => Fair(v, z, e.who, b[e.who])
        BY <2>4, <3>1, MakesFair
      <4> QED BY <3>1, <4>1
    <3>2. CASE e.who = m /\ z = x /\ ~ ContainsPos(v, e.from) /\ ~ ContainsPos(v, e.to)
      <4>1. Fair(v, x, e.who, a[e.who]) => Fair(v, x, e.who, b[e.who])
        BY <2>4, <3>2, OutOfView
      <4> QED BY <3>2, <4>1 DEF Stays
    <3>3. CASE e.who # m
      <4>1. Stays(x, z, m) /\ b[m] = a[m]
        BY <2>6, <2>7, <3>3 DEF Alike, Stays
      <4> QED BY <4>1, StaysFair
    <3> QED BY <2>6, <3>1, <3>2, <3>3
  <2>9. Stays(s, z, m) \/ Fair(v, z, m, b[m])
    BY <2>5, <2>8 DEF Stays
  <2>10. \A k \in 0 .. n + 1 : Fair(v, s, m, pos[k][m]) => Fair(v, z, m, b[m])
    <3> SUFFICES ASSUME NEW k \in 0 .. n + 1, Fair(v, s, m, pos[k][m])
                 PROVE  Fair(v, z, m, b[m])
      OBVIOUS
    <3>1. CASE k = n + 1
      <4>1. Stays(s, z, m) => Fair(v, z, m, b[m])
        BY <3>1, StaysFair DEF b
      <4> QED BY <2>9, <4>1
    <3>2. CASE k # n + 1
      <4>1. k \in 0 .. n
        BY <2>1, <3>2
      <4> QED BY <2>5, <2>8, <4>1
    <3> QED BY <3>1, <3>2
  <2> QED BY <2>1, <2>9, <2>10 DEF b, r, z
<1> HIDE DEF p
<1>3. T = Seq(Event)
  <2> HIDE DEF Good
  <2>1. \A q \in T, e \in Event : Append(q, e) \in T
    <3> SUFFICES ASSUME NEW q \in T, NEW e \in Event PROVE Append(q, e) \in T
      OBVIOUS
    <3>1. q \in Seq(Event) /\ Good(q)
      OBVIOUS
    <3>2. Good(Append(q, e))
      BY <1>2, <3>1
    <3>3. Append(q, e) \in Seq(Event)
      BY <3>1
    <3> QED BY <3>2, <3>3
  <2>2. T \in SUBSET Seq(Event)
    OBVIOUS
  <2> HIDE DEF T
  <2> QED BY <1>1, <2>1, <2>2, Growth
<1>4. Good(batch)
  BY <1>3
<1> QED BY <1>4 DEF p

\* Nothing is published of a mobile that is drawn anew or after its removal.
Orderly(q) == \A i, j \in DOMAIN q : i < j /\ q[i].who = q[j].who =>
                q[i].kind # "removed" /\ q[j].kind # "drawn"
\* ... and it moves once at most.
Single(q) == /\ Orderly(q)
             /\ \A i, j \in DOMAIN q : i < j => ~ SameMove(q[i], q[j])

LEMMA OrderlyNone == Orderly(<< >>) /\ Single(<< >>)
<1>1. DOMAIN << >> = {}
  OBVIOUS
<1> QED BY <1>1 DEF Orderly, Single

LEMMA OrderlyOneMore ==
  ASSUME NEW q \in Seq(Event), NEW e \in Event
  PROVE  Orderly(Append(q, e)) <=>
           /\ Orderly(q)
           /\ \A d : In(d, q) /\ d.who = e.who => d.kind # "removed" /\ e.kind # "drawn"
<1> DEFINE n == Len(q)
           r == Append(q, e)
<1>1. /\ n \in Nat /\ DOMAIN q = 1 .. n /\ DOMAIN r = 1 .. n + 1 /\ r[n + 1] = e
      /\ \A i \in 1 .. n : r[i] = q[i]
  OBVIOUS
<1> HIDE DEF n, r
<1>2. ASSUME Orderly(r)
      PROVE  /\ Orderly(q)
             /\ \A d : In(d, q) /\ d.who = e.who => d.kind # "removed" /\ e.kind # "drawn"
  <2>1. Orderly(q)
    BY <1>1, <1>2 DEF Orderly
  <2>2. ASSUME NEW i \in DOMAIN q, q[i].who = e.who
        PROVE  q[i].kind # "removed" /\ e.kind # "drawn"
    <3>1. i \in 1 .. n /\ i \in DOMAIN r /\ n + 1 \in DOMAIN r /\ i < n + 1 /\ r[i] = q[i]
      BY <1>1
    <3> QED BY <1>1, <1>2, <2>2, <3>1 DEF Orderly
  <2> QED BY <2>1, <2>2 DEF In
<1>3. ASSUME Orderly(q),
             \A d : In(d, q) /\ d.who = e.who => d.kind # "removed" /\ e.kind # "drawn"
      PROVE  Orderly(r)
  <2> SUFFICES ASSUME NEW i \in DOMAIN r, NEW j \in DOMAIN r, i < j, r[i].who = r[j].who
               PROVE  r[i].kind # "removed" /\ r[j].kind # "drawn"
    BY DEF Orderly
  <2>1. i \in 1 .. n /\ r[i] = q[i] /\ In(q[i], q)
    BY <1>1 DEF In
  <2>2. CASE j = n + 1
    BY <1>1, <1>3, <2>1, <2>2
  <2>3. CASE j # n + 1
    BY <1>1, <1>3, <2>1, <2>3 DEF Orderly
  <2> QED BY <2>2, <2>3
<1> QED BY <1>2, <1>3 DEF r

\* An orderly batch still is one with e noted: of the mobile of e, its removal
\* is not among the events before, and there are none before its drawing.
Takes(o, e) == \A d : In(d, o) /\ d.who = e.who => d.kind # "removed" /\ e.kind # "drawn"

\* The two ways an event is noted: as a new one, or into the only move of its
\* mobile, the last event of that mobile.
LEMMA NotedHow ==
  ASSUME NEW o \in Seq(Event), Single(o), NEW e \in Event,
         Takes(o, e)
  PROVE  \/ /\ Noted(o, e) = Append(o, e)
            /\ \A i \in DOMAIN o : ~ SameMove(o[i], e)
         \/ \E i \in DOMAIN o :
              /\ SameMove(o[i], e)
              /\ Noted(o, e) = [o EXCEPT ![i] = Merged(o[i], e)]
              /\ \A j \in DOMAIN o : j > i => o[j].who # e.who
<1>1. CASE \A i \in DOMAIN o : ~ SameMove(o[i], e)
  BY <1>1 DEF Noted
<1>2. CASE \E i \in DOMAIN o : SameMove(o[i], e)
  <2>1. PICK i \in DOMAIN o : SameMove(o[i], e)
    BY <1>2
  <2>2. DOMAIN o = 1 .. Len(o) /\ Len(o) \in Nat
    OBVIOUS
  <2>3. \A j \in DOMAIN o : j # i => ~ SameMove(o[j], e)
    <3> SUFFICES ASSUME NEW j \in DOMAIN o, j # i, SameMove(o[j], e) PROVE FALSE
      OBVIOUS
    <3>1. SameMove(o[i], o[j]) /\ SameMove(o[j], o[i])
      BY <2>1 DEF SameMove
    <3>2. i < j \/ j < i
      BY <2>2
    <3> QED BY <3>1, <3>2 DEF Single
  <2>4. Noted(o, e) = [j \in DOMAIN o |-> IF SameMove(o[j], e) THEN Merged(o[j], e) ELSE o[j]]
    BY <2>1 DEF Noted
  <2>5. Noted(o, e) = [o EXCEPT ![i] = Merged(o[i], e)]
    BY <2>1, <2>3, <2>4
  <2>6. ASSUME NEW j \in DOMAIN o, j > i, o[j].who = e.who PROVE FALSE
    <3> o[j] \in Event
      OBVIOUS
    <3>1. o[i].who = o[j].who /\ i < j /\ o[j].kind \in Kinds
      <4>1. o[j].kind \in Kinds
        BY DEF Event
      <4>2. o[i].who = e.who /\ i < j
        BY <2>1, <2>2, <2>6 DEF SameMove
      <4> QED BY <2>6, <4>1, <4>2
    <3>2. o[j].kind # "drawn"
      BY <3>1 DEF Single, Orderly
    <3>3. o[j].kind # "removed"
      BY <2>6 DEF In, Takes
    <3>4. SameMove(o[j], e)
      BY <2>1, <2>6, <3>1, <3>2, <3>3 DEF SameMove, Kinds
    <3> QED BY <2>3, <2>6, <3>4, <2>2
  <2> QED BY <2>1, <2>5, <2>6
<1> QED BY <1>1, <1>2

LEMMA NotedSingle ==
  ASSUME NEW o \in Seq(Event), Single(o), NEW e \in Event,
         Takes(o, e)
  PROVE  Single(Noted(o, e))
<1>1. CASE Noted(o, e) = Append(o, e) /\ \A i \in DOMAIN o : ~ SameMove(o[i], e)
  <2>1. Orderly(Append(o, e))
    BY OrderlyOneMore DEF Single, Takes
  <2>2. ASSUME NEW i \in DOMAIN Append(o, e), NEW j \in DOMAIN Append(o, e), i < j
        PROVE  ~ SameMove(Append(o, e)[i], Append(o, e)[j])
    <3>1. /\ i \in DOMAIN o /\ Append(o, e)[i] = o[i]
          /\ \/ j \in DOMAIN o /\ Append(o, e)[j] = o[j]
             \/ Append(o, e)[j] = e
      BY <2>2
    <3> QED BY <1>1, <2>2, <3>1 DEF Single
  <2> QED BY <1>1, <2>1, <2>2 DEF Single
<1>2. ASSUME NEW i \in DOMAIN o, SameMove(o[i], e),
             Noted(o, e) = [o EXCEPT ![i] = Merged(o[i], e)]
      PROVE  Single(Noted(o, e))
  <2>1. o[i] \in Event
    OBVIOUS
  <2>2. Merged(o[i], e).kind = o[i].kind /\ Merged(o[i], e).who = o[i].who
    BY <1>2, <2>1, MergedIs DEF SameMove
  <2>3. /\ DOMAIN Noted(o, e) = DOMAIN o
        /\ \A j \in DOMAIN o : Noted(o, e)[j].kind = o[j].kind /\ Noted(o, e)[j].who = o[j].who
    BY <1>2, <2>2
  <2>4. Orderly(Noted(o, e))
    BY <2>3 DEF Single, Orderly
  <2>5. \A j, k \in DOMAIN o : SameMove(Noted(o, e)[j], Noted(o, e)[k]) <=> SameMove(o[j], o[k])
    BY <2>3 DEF SameMove
  <2> QED BY <2>3, <2>4, <2>5 DEF Single
<1> QED BY <1>1, <1>2, NotedHow

\* The events that are kept take the zone to where all of them took it.
LEMMA NotedWay ==
  ASSUME NEW o \in Seq(Event), Single(o), NEW e \in Event,
         Takes(o, e),
         NEW pos, Way(pos, o), NEW b, Follows(pos[Len(o)], e, b)
  PROVE  \E on : Way(on, Noted(o, e)) /\ on[0] = pos[0] /\ on[Len(Noted(o, e))] = b
<1> DEFINE n == Len(o)
           r == Noted(o, e)
           w == e.who
<1>1. n \in Nat /\ DOMAIN o = 1 .. n
  OBVIOUS
<1>2. CASE r = Append(o, e)
  <2>1. Len(r) = n + 1 /\ 0 \in 0 .. n
    BY <1>1, <1>2
  <2> DEFINE on == OneOn(pos, n, b)
  <2>2. /\ Way(on, Append(o, e)) /\ on[n + 1] = b
        /\ \A k \in 0 .. n : on[k] = pos[k]
    BY WayOn
  <2> HIDE DEF on
  <2>3. on[0] = pos[0]
    BY <2>1, <2>2
  <2> QED BY <1>2, <2>1, <2>2, <2>3
<1>3. ASSUME NEW i \in DOMAIN o, SameMove(o[i], e), r = [o EXCEPT ![i] = Merged(o[i], e)],
             \A j \in DOMAIN o : j > i => o[j].who # w
      PROVE  \E on : Way(on, r) /\ on[0] = pos[0] /\ on[Len(r)] = b
  <2> DEFINE on == [k \in 0 .. n |-> IF k >= i THEN [pos[k] EXCEPT ![w] = e.to] ELSE pos[k]]
  <2>1. /\ Len(r) = n /\ i \in 1 .. n /\ i \in 0 .. n /\ i - 1 \in 0 .. n
        /\ \A j \in 1 .. n : r[j] = IF j = i THEN Merged(o[i], e) ELSE o[j]
    BY <1>1, <1>3
  <2>2. /\ pos \in [0 .. n -> Position]
        /\ \A j \in 1 .. n : Follows(pos[j - 1], o[j], pos[j])
    BY DEF Way
  <2>3. /\ e.to \in Tiles /\ w \in Mobiles \cup {Me} /\ o[i] \in Event /\ e.kind = "moved"
        /\ o[i].kind = "moved" /\ o[i].who = w
    <3>1. o[i] \in Event
      OBVIOUS
    <3>2. e.to \in Tiles /\ w \in Mobiles \cup {Me}
      BY DEF Event
    <3>3. e.kind = "moved" /\ o[i].kind = "moved" /\ o[i].who = w
      BY <1>3 DEF SameMove
    <3> QED BY <3>1, <3>2, <3>3
  <2>4. \A k \in 0 .. n : pos[k] \in Position
    BY <2>2
  <2>5. on \in [0 .. n -> Position]
    BY <2>3, <2>4 DEF Position, Places
  <2>6. /\ \A k \in 0 .. n : k < i => on[k] = pos[k]
        /\ \A k \in 0 .. n : k >= i => on[k] = [pos[k] EXCEPT ![w] = e.to]
    BY <1>1, <2>1
  <2> HIDE DEF on, n, r, w
  <2>7. ASSUME NEW j \in 1 .. n PROVE Follows(on[j - 1], r[j], on[j])
    <3>1. j \in 0 .. n /\ j - 1 \in 0 .. n /\ Follows(pos[j - 1], o[j], pos[j])
      BY <1>1, <2>2
    <3>2. pos[j] \in Position /\ pos[j - 1] \in Position /\ on[j] \in Position
            /\ on[j - 1] \in Position
      BY <2>4, <2>5, <3>1
    <3>3. CASE j < i
      <4>1. on[j] = pos[j] /\ on[j - 1] = pos[j - 1] /\ r[j] = o[j]
        BY <1>1, <2>1, <2>6, <3>1, <3>3
      <4> QED BY <3>1, <4>1
    <3>4. CASE j = i
      <4>1. on[j] = [pos[j] EXCEPT ![w] = e.to] /\ on[j - 1] = pos[j - 1] /\ r[j] = Merged(o[i], e)
        <5>1. j >= i /\ j - 1 < i
          BY <1>1, <2>1, <3>4
        <5>2. on[j] = [pos[j] EXCEPT ![w] = e.to]
          BY <2>6, <3>1, <5>1
        <5>3. on[j - 1] = pos[j - 1]
          BY <2>6, <3>1, <5>1
        <5>4. r[j] = Merged(o[i], e)
          BY <2>1, <3>4
        <5> QED BY <5>2, <5>3, <5>4
      <4>2. /\ r[j].kind = "moved" /\ r[j].who = w /\ r[j].from = o[i].from /\ r[j].to = e.to
        BY <1>3, <2>3, <4>1, MergedIs DEF w
      <4>3. pos[j] = [pos[j - 1] EXCEPT ![w] = o[i].to] /\ pos[j - 1][w] = o[i].from
        BY <2>3, <3>1, <3>4 DEF Follows
      <4>4. on[j] = [pos[j - 1] EXCEPT ![w] = e.to]
        BY <3>2, <4>1, <4>3 DEF Position
      <4> QED BY <3>2, <4>1, <4>2, <4>3, <4>4 DEF Follows
    <3>5. CASE j > i
      <4>1. /\ on[j] = [pos[j] EXCEPT ![w] = e.to] /\ on[j - 1] = [pos[j - 1] EXCEPT ![w] = e.to]
            /\ r[j] = o[j] /\ o[j].who # w
        <5>1. j >= i /\ j - 1 >= i /\ j # i /\ j \in DOMAIN o
          BY <1>1, <2>1, <3>5
        <5>2. on[j] = [pos[j] EXCEPT ![w] = e.to]
          BY <2>6, <3>1, <5>1
        <5>3. on[j - 1] = [pos[j - 1] EXCEPT ![w] = e.to]
          BY <2>6, <3>1, <5>1
        <5>4. r[j] = o[j]
          BY <2>1, <5>1
        <5>5. o[j].who # w
          BY <1>3, <3>5, <5>1
        <5> QED BY <5>2, <5>3, <5>4, <5>5
      <4> DEFINE u == o[j].who
                 t == IF o[j].kind = "removed" THEN None ELSE o[j].to
      <4>2. u \in Mobiles \cup {Me} /\ pos[j] = [pos[j - 1] EXCEPT ![u] = t]
        <5>1. o[j] \in Event
          BY <1>1
        <5> QED BY <3>1, <5>1 DEF Follows, Event
      <4>3. on[j - 1][u] = pos[j - 1][u]
        BY <2>3, <3>2, <4>1, <4>2 DEF Position
      <4> HIDE DEF t
      <4>4. on[j] = [on[j - 1] EXCEPT ![u] = t]
        BY <2>3, <3>2, <4>1, <4>2 DEF Position
      <4> QED BY <3>1, <3>2, <4>1, <4>3, <4>4 DEF Follows, t
    <3> QED BY <1>1, <2>1, <3>3, <3>4, <3>5
  <2>8. Way(on, r)
    BY <2>1, <2>5, <2>7 DEF Way
  <2>9. on[0] = pos[0]
    BY <1>1, <2>1, <2>6
  <2>10. on[n] = b
    <3>1. n \in 0 .. n /\ n >= i /\ on[n] = [pos[n] EXCEPT ![w] = e.to]
      BY <1>1, <2>1, <2>6
    <3>2. b = [pos[n] EXCEPT ![w] = e.to]
      BY <2>3 DEF Follows, w, n
    <3> QED BY <3>1, <3>2
  <2> QED BY <2>1, <2>8, <2>9, <2>10
<1> QED BY <1>2, <1>3, NotedHow

\* What drain_and_route_events keeps of an orderly batch takes the zone from
\* where the batch began to where it ended.
LEMMA CoalescedWay ==
  ASSUME NEW batch \in Seq(Event), Orderly(batch), NEW way, Way(way, batch)
  PROVE  \E on : /\ Way(on, Coalesced(batch)) /\ on[0] = way[0]
                 /\ on[Len(Coalesced(batch))] = way[Len(batch)]
<1> DEFINE Kept(q, pos) == \E on : /\ Way(on, Coalesced(q)) /\ on[0] = pos[0]
                                   /\ on[Len(Coalesced(q))] = pos[Len(q)]
           Good(q) == Orderly(q) => Single(Coalesced(q)) /\ \A pos : Way(pos, q) => Kept(q, pos)
           T == {q \in Seq(Event) : Good(q)}
<1>1. << >> \in T
  <2>1. << >> \in Seq(Event) /\ Len(<< >>) = 0
    OBVIOUS
  <2>2. Good(<< >>)
    BY CoalescedNone, OrderlyNone
  <2> QED BY <2>1, <2>2
<1>2. ASSUME NEW q \in Seq(Event), Good(q), NEW e \in Event PROVE Good(Append(q, e))
  <2> SUFFICES ASSUME Orderly(Append(q, e))
               PROVE  /\ Single(Coalesced(Append(q, e)))
                      /\ \A pos : Way(pos, Append(q, e)) => Kept(Append(q, e), pos)
    OBVIOUS
  <2> DEFINE o == Coalesced(q)
  <2>1. Len(q) \in Nat /\ Len(Append(q, e)) = Len(q) + 1 /\ 0 \in 0 .. Len(q)
          /\ Len(q) \in 0 .. Len(q)
    OBVIOUS
  <2>2. o \in Seq(Event) /\ Coalesced(Append(q, e)) = Noted(o, e)
    BY CoalescedIs, CoalescedOneMore
  <2>3. /\ Orderly(q)
        /\ \A d : In(d, q) /\ d.who = e.who => d.kind # "removed" /\ e.kind # "drawn"
    BY OrderlyOneMore
  <2>4. Takes(o, e)
    <3> SUFFICES ASSUME NEW d, In(d, o), d.who = e.who PROVE d.kind # "removed" /\ e.kind # "drawn"
      BY DEF Takes
    <3>1. Origin(d, q) /\ (d.kind # "moved" => In(d, q))
      BY CoalescedIs
    <3>2. \E c : In(c, q) /\ c.who = e.who
      BY <3>1 DEF Origin
    <3>3. e.kind # "drawn"
      BY <2>3, <3>2
    <3>4. d.kind # "removed"
      BY <2>3, <3>1
    <3> QED BY <3>3, <3>4
  <2>5. Single(o)
    BY <1>2, <2>3
  <2>6. Single(Noted(o, e))
    BY <2>2, <2>4, <2>5, NotedSingle
  <2>7. ASSUME NEW pos, Way(pos, Append(q, e)) PROVE Kept(Append(q, e), pos)
    <3>1. PICK back : Way(back, q) /\ \A k \in 0 .. Len(q) : back[k] = pos[k]
      BY <2>7, WayBack
    <3>2. Follows(pos[Len(q)], e, pos[Len(q) + 1])
      BY <2>7, WayBack
    <3>3. PICK on : Way(on, o) /\ on[0] = back[0] /\ on[Len(o)] = back[Len(q)]
      BY <1>2, <2>3, <3>1
    <3>4. on[0] = pos[0] /\ on[Len(o)] = pos[Len(q)]
      BY <2>1, <3>1, <3>3
    <3>5. Follows(on[Len(o)], e, pos[Len(q) + 1])
      BY <3>2, <3>4
    <3> DEFINE b == pos[Len(q) + 1]
    <3> HIDE DEF o, b, Good, Kept, T
    <3>6. /\ o \in Seq(Event) /\ Single(o) /\ Takes(o, e) /\ Way(on, o)
          /\ Follows(on[Len(o)], e, b)
      BY <2>2, <2>4, <2>5, <3>3, <3>5 DEF b
    <3>7. PICK after : /\ Way(after, Noted(o, e)) /\ after[0] = on[0]
                       /\ after[Len(Noted(o, e))] = b
      BY <3>6, NotedWay
    <3> QED BY <2>1, <2>2, <3>4, <3>7 DEF b, Kept
  <2> QED BY <2>2, <2>6, <2>7
<1>3. T = Seq(Event)
  <2> HIDE DEF Good
  <2>1. \A q \in T, e \in Event : Append(q, e) \in T
    <3> SUFFICES ASSUME NEW q \in T, NEW e \in Event PROVE Append(q, e) \in T
      OBVIOUS
    <3>1. q \in Seq(Event) /\ Good(q)
      OBVIOUS
    <3>2. Good(Append(q, e))
      BY <1>2, <3>1
    <3>3. Append(q, e) \in Seq(Event)
      BY <3>1
    <3> QED BY <3>2, <3>3
  <2>2. T \in SUBSET Seq(Event)
    OBVIOUS
  <2> HIDE DEF T
  <2> QED BY <1>1, <2>1, <2>2, Growth
<1>4. Good(batch)
  BY <1>3
<1> QED BY <1>4

\* A mobile that events only draw, in one place, is drawn there.
OfOne(m, q) == \E e : In(e, q) /\ e.who = m
OnlyDrawn(m, q, t) == \A e : In(e, q) /\ e.who = m => e.kind = "drawn" /\ e.to = t
DrawnBy(m, q, t, s, z) == z.shown[m] = IF OfOne(m, q) THEN t ELSE s.shown[m]

LEMMA DrawnOnly ==
  ASSUME NEW v, NEW s \in Seen, NEW w, NEW m \in Mobiles, NEW t,
         NEW events \in Seq(Event), Snapless(events), OnlyDrawn(m, events, t)
  PROVE  DrawnBy(m, events, t, s, AppliedAll(v, s, events, w))
<1> DEFINE p(q) == AppliedAll(v, s, q, w).shown[m]
           Good(q) == Snapless(q) /\ OnlyDrawn(m, q, t)
                        => p(q) = IF OfOne(m, q) THEN t ELSE s.shown[m]
           T == {q \in Seq(Event) : Good(q)}
<1>1. << >> \in T
  <2>1. p(<< >>) = s.shown[m]
    BY AppliedNone
  <2>2. ~ OfOne(m, << >>)
    BY InNone DEF OfOne
  <2>3. << >> \in Seq(Event)
    OBVIOUS
  <2> QED BY <2>1, <2>2, <2>3
<1>2. ASSUME NEW q \in Seq(Event), Good(q), NEW e \in Event PROVE Good(Append(q, e))
  <2> SUFFICES ASSUME Snapless(Append(q, e)), OnlyDrawn(m, Append(q, e), t)
               PROVE  p(Append(q, e)) = IF OfOne(m, Append(q, e)) THEN t ELSE s.shown[m]
    OBVIOUS
  <2>1. \A x : In(x, Append(q, e)) <=> In(x, q) \/ x = e
    BY InAppend
  <2>2. Snapless(q) /\ ~ IsSnap(e)
    BY <2>1 DEF Snapless
  <2>3. OnlyDrawn(m, q, t) /\ (e.who = m => e.kind = "drawn" /\ e.to = t)
    BY <2>1 DEF OnlyDrawn
  <2>4. p(q) = IF OfOne(m, q) THEN t ELSE s.shown[m]
    BY <1>2, <2>2, <2>3
  <2>5. OfOne(m, Append(q, e)) <=> OfOne(m, q) \/ e.who = m
    BY <2>1 DEF OfOne
  <2>6. p(Append(q, e)) = IF e.who = m THEN Effect(v, p(q), e) ELSE p(q)
    <3>1. AppliedAll(v, s, q, w) \in Seen
      BY AppliedAllIs
    <3>2. AppliedAll(v, s, Append(q, e), w)
            = Applied(v, AppliedAll(v, s, q, w), e, Len(q) + 1 \in w)
      BY AppliedOneMore
    <3>3. e.who = m => e.kind # "moved"
      BY <2>3
    <3> QED BY <2>2, <3>1, <3>2, <3>3, AppliedUnmoved
  <2>7. e.who = m => Effect(v, p(q), e) = t
    BY <2>3 DEF Effect
  <2> HIDE DEF p
  <2> QED BY <2>4, <2>5, <2>6, <2>7
<1> HIDE DEF p
<1>3. T = Seq(Event)
  <2> HIDE DEF Good
  <2>1. \A q \in T, e \in Event : Append(q, e) \in T
    <3> SUFFICES ASSUME NEW q \in T, NEW e \in Event PROVE Append(q, e) \in T
      OBVIOUS
    <3>1. q \in Seq(Event) /\ Good(q)
      OBVIOUS
    <3>2. Good(Append(q, e))
      BY <1>2, <3>1
    <3>3. Append(q, e) \in Seq(Event)
      BY <3>1
    <3> QED BY <3>2, <3>3
  <2>2. T \in SUBSET Seq(Event)
    OBVIOUS
  <2> HIDE DEF T
  <2> QED BY <1>1, <2>1, <2>2, Growth
<1>4. Good(events)
  BY <1>3
<1> QED BY <1>4 DEF p, DrawnBy

-----------------------------------------------------------------------------
(* The picture of a player who stands still *)

\* The channel never fills, so that nothing is dropped.
Roomy == Len(link) < LinkCapacity

Standing == Tame /\ "walk" \notin acts

\* What the client will draw once it has what is in its channel was right, for
\* each mobile, at some time since the events on the bus were published: a
\* player may register in the middle of a batch, never between the controllers
\* and the routing of a tick.
Behind(way) ==
  watch # None => \A m \in Mobiles : \A w : \E k \in 0 .. Len(bus) :
                    (turn # "batch" => k = 0) /\ Fair(view, Picture(w), m, way[k][m])
Followed == \E way : Way(way, bus) /\ way[Len(bus)] = at /\ Behind(way)

\* Only moves need merging, and no mobile is drawn anew or after its removal.
Mergeable ==
  /\ \A e : In(e, bus) => e.who \in Mobiles
  /\ \A e : In(e, bus) /\ e.kind = "removed" => at[e.who] = None
  /\ "update" \in acts => \A e : In(e, bus) => e.kind # "moved"
  /\ "update" \notin acts => Orderly(bus)

SInv ==
  Standing => /\ phase # "stepping" /\ (phase = "idle" => todo = << >>)
              /\ Mergeable /\ Followed

LEMMA InitS ==
  ASSUME Init
  PROVE  SInv
<1>1. TInv
  BY InitT
<1>2. bus = << >> /\ watch = None /\ phase = "joining"
  BY DEF Init
<1>3. Mergeable
  BY <1>2, InNone, OrderlyNone DEF Mergeable
<1>4. Followed
  <2> DEFINE way == [k \in 0 .. 0 |-> at]
  <2>1. at \in Position /\ Len(bus) = 0
    BY <1>1, <1>2, Facts DEF Position
  <2>2. Way(way, bus) /\ way[Len(bus)] = at
    BY <2>1 DEF Way
  <2>3. Behind(way)
    BY <1>2 DEF Behind
  <2> QED BY <2>2, <2>3 DEF Followed
<1> QED BY <1>2, <1>3, <1>4 DEF SInv

\* Who stands still, and is registered, is watched for what is in view, and no
\* command of the session is under way.
LEMMA StandingIs ==
  ASSUME TInv, LInv, PInv, SInv, Standing
  PROVE  /\ "carry_joining" \notin acts /\ "carry" \notin acts /\ "walk" \notin acts
         /\ view = ViewFrom(here) /\ Snapless(link) /\ Snapless(bus)
         /\ phase \in {"joining", "idle"} /\ (phase = "idle" => todo = << >>)
         /\ watch # None => watch = view /\ todo = << >>
<1>1. "carry_joining" \notin acts /\ "carry" \notin acts /\ "walk" \notin acts
  BY DEF Standing, Tame
<1>2. view = ViewFrom(here) /\ Snapless(link) /\ Snapless(bus)
  BY <1>1 DEF PInv
<1>3. phase \in {"joining", "idle"} /\ (phase = "idle" => todo = << >>)
  BY Facts DEF SInv
<1>4. watch # None => todo = << >>
  BY <1>3 DEF TInv, Phases, Joining
<1>5. watch # None => watch = view
  <2> SUFFICES ASSUME watch # None PROVE watch = view
    OBVIOUS
  <2>1. PICK k : LastAt(todo, watch, view, k)
    BY DEF LInv
  <2>2. Len(todo) = 0
    BY <1>4, EmptySeq
  <2> QED BY <2>1, <2>2 DEF LastAt
<1> QED BY <1>1, <1>2, <1>3, <1>4, <1>5

\* Whoever takes what is in the channel has it drawn, and nothing else changes.
LEMMA TakeLinkS ==
  ASSUME TInv, LInv, PInv, SInv, Standing, Joined \/ HandleEvents
  PROVE  SInv'
<1>1. /\ TakeLink /\ phase' = "idle"
      /\ UNCHANGED <<acts, at, bus, turn, watch>>
  BY DEF Joined, HandleEvents, worker
<1>2. here' = here /\ link' = << >> /\ here' \in Tiles
  BY <1>1, TakeLinkIs, StandingIs DEF Snapless
<1>3. view' = view /\ todo' = << >>
  <2>1. CASE Joined
    <3>1. phase = "joining" /\ reply # << >> /\ UNCHANGED <<todo, view>>
      BY <2>1 DEF Joined
    <3>2. todo = << >>
      BY <3>1 DEF TInv, Phases, Joining
    <3> QED BY <3>1, <3>2
  <2>2. CASE HandleEvents
    <3>1. SyncView /\ phase = "idle"
      BY <2>2 DEF HandleEvents
    <3>2. view' = view
      BY <1>2, <3>1, SyncViewIs, StandingIs
    <3> QED BY <1>2, <3>1, <3>2, SyncViewIs, StandingIs
  <2> QED BY <2>1, <2>2
<1>4. PICK u : Sight' = Picture(u)
  BY <1>1, TakeLinkIs
<1>5. \A w : Picture(w)' = Picture(u)
  <2> TAKE w
  <2> DEFINE s == Sight'
  <2>1. AppliedAll(view', s, << >>, w) = s
    BY AppliedNone
  <2>2. Picture(w)' = s
    BY <1>2, <2>1 DEF Picture
  <2> QED BY <1>4, <2>2
<1>6. Mergeable'
  BY <1>1 DEF SInv, Mergeable
<1>7. Followed'
  <2>1. PICK way : Way(way, bus) /\ way[Len(bus)] = at /\ Behind(way)
    BY DEF SInv, Followed
  <2>2. (Behind(way))'
    <3>1. watch' # None => \A m \in Mobiles : \A w : \E k \in 0 .. Len(bus) :
                    (turn # "batch" => k = 0) /\ Fair(view, Picture(w)', m, way[k][m])
      BY <1>1, <1>5, <2>1 DEF Behind
    <3> QED BY <1>1, <1>3, <3>1 DEF Behind
  <2>3. (Way(way, bus))' /\ (way[Len(bus)] = at)'
    BY <1>1, <2>1
  <2> QED BY <2>2, <2>3 DEF Followed
<1> QED BY <1>1, <1>3, <1>6, <1>7 DEF SInv

\* What is streamed to a player who registers is right when it is streamed.
LEMMA RegisterRight ==
  ASSUME TInv, RegisterObserver, Roomy'
  PROVE  \A m \in Mobiles : \A w : Right(view, Picture(w)'.shown[m], at[m])
<1>1. /\ watch = None /\ watch' = view /\ link' = Delivered(<< >>, InView)
      /\ phase = "joining" /\ phase' = phase /\ todo' = << >>
      /\ shown = [m \in Mobiles |-> None]
      /\ UNCHANGED <<acts, at, bus, here, view, self, shown, lately>> /\ turn' = "batch"
  BY RegisterObserverT DEF RegisterObserver, session, client, TakeCommand
<1>2. /\ InView \in Seq(Event)
      /\ \A e : In(e, InView) <=>
           \E m \in Mobiles : at[m] # None /\ ContainsPos(view, at[m]) /\ e = Drawn(m, at[m])
  BY InViewIs
<1>3. link' = InView
  <2>1. << >> \in Seq(Event) /\ << >> \o InView = InView
    BY <1>2
  <2> QED BY <1>1, <1>2, <2>1, DeliveredIs DEF Roomy
<1>4. ASSUME NEW m \in Mobiles, NEW w PROVE Right(view, Picture(w)'.shown[m], at[m])
  <2> DEFINE s == Sight
  <2>1. Picture(w)' = AppliedAll(view, s, InView, w)
    BY <1>1, <1>3 DEF Picture, Sight, Throttling
  <2>2. s \in Seen /\ s.shown[m] = None
    BY <1>1, Facts DEF Sight
  <2>3. Snapless(InView)
    BY <1>2 DEF Snapless, IsSnap, Drawn
  <2>4. \A e : In(e, InView) /\ e.who = m => e.kind = "drawn" /\ e.to = at[m]
    BY <1>2 DEF Drawn
  <2>5. OfOne(m, InView) <=> at[m] # None /\ ContainsPos(view, at[m])
    <3>1. \A h \in Mobiles : Drawn(h, at[h]).who = h
      BY DEF Drawn
    <3>2. ASSUME at[m] # None, ContainsPos(view, at[m]) PROVE OfOne(m, InView)
      <4>1. In(Drawn(m, at[m]), InView)
        BY <1>2, <3>2
      <4> QED BY <3>1, <4>1 DEF OfOne
    <3>3. ASSUME OfOne(m, InView) PROVE at[m] # None /\ ContainsPos(view, at[m])
      <4>1. PICK e : In(e, InView) /\ e.who = m
        BY <3>3 DEF OfOne
      <4> QED BY <1>2, <3>1, <4>1
    <3> QED BY <3>2, <3>3
  <2> DEFINE t == at[m]
  <2> HIDE DEF s, t
  <2>6. Picture(w)'.shown[m] = IF OfOne(m, InView) THEN t ELSE s.shown[m]
    <3>1. OnlyDrawn(m, InView, t)
      BY <2>4 DEF t, OnlyDrawn
    <3>2. s \in Seen /\ InView \in Seq(Event) /\ m \in Mobiles
      BY <1>2, <2>2
    <3>3. DrawnBy(m, InView, t, s, AppliedAll(view, s, InView, w))
      BY ONLY <2>3, <3>1, <3>2, DrawnOnly, Zenon
    <3> QED BY <2>1, <3>3 DEF DrawnBy
  <2> QED BY <2>2, <2>5, <2>6 DEF Right, t
<1> QED BY <1>4

LEMMA RegisterS ==
  ASSUME TInv, LInv, PInv, SInv, Standing, RegisterObserver, Roomy'
  PROVE  SInv'
<1>1. /\ watch = None /\ watch' = view /\ link' = Delivered(<< >>, InView)
      /\ phase = "joining" /\ phase' = phase /\ todo' = << >>
      /\ shown = [m \in Mobiles |-> None]
      /\ UNCHANGED <<acts, at, bus, here, view, self, shown, lately>> /\ turn' = "batch"
  BY RegisterObserverT DEF RegisterObserver, session, client, TakeCommand
<1>4. \A m \in Mobiles : \A w : Right(view, Picture(w)'.shown[m], at[m])
  BY RegisterRight
<1>5. Mergeable'
  BY <1>1 DEF SInv, Mergeable
<1>6. Followed'
  <2>1. PICK way : Way(way, bus) /\ way[Len(bus)] = at /\ Behind(way)
    BY DEF SInv, Followed
  <2>2. (Behind(way))'
    <3>1. Len(bus) \in 0 .. Len(bus)
      BY Facts, LenProperties
    <3>2. \A m \in Mobiles : \A w : Fair(view, Picture(w)', m, way[Len(bus)][m])
      BY <1>4, <2>1, RightIsFair
    <3> QED BY <1>1, <3>1, <3>2 DEF Behind
  <2>3. (Way(way, bus))' /\ (way[Len(bus)] = at)'
    BY <1>1, <2>1
  <2> QED BY <2>2, <2>3 DEF Followed
<1> QED BY <1>1, <1>5, <1>6 DEF SInv

\* A batch that is routed, whether coalesced or not, took the zone to where it
\* is, past a time at which the client's picture was right.
LEMMA BatchWay ==
  ASSUME TInv, SInv, Standing, watch # None, NEW batch,
         \/ batch = bus
         \/ batch = Coalesced(bus) /\ turn = "ticking"
  PROVE  \E way : /\ Way(way, batch) /\ way[Len(batch)] = at
                  /\ \A m \in Mobiles : \A w : \E k \in 0 .. Len(batch) :
                       Fair(view, Picture(w), m, way[k][m])
<1>1. PICK way : Way(way, bus) /\ way[Len(bus)] = at /\ Behind(way)
  BY DEF SInv, Followed
<1>2. CASE batch = bus
  BY <1>1, <1>2 DEF Behind
<1>3. CASE batch = Coalesced(bus) /\ turn = "ticking" /\ batch # bus
  <2>1. bus \in Seq(Event)
    BY Facts
  <2>2. Orderly(bus)
    BY <1>3, <2>1, NothingToCoalesce DEF SInv, Mergeable
  <2>3. \E on : Way(on, Coalesced(bus)) /\ on[0] = way[0] /\ on[Len(Coalesced(bus))] = way[Len(bus)]
    BY <1>1, <2>1, <2>2, CoalescedWay
  <2>4. PICK on : Way(on, batch) /\ on[0] = way[0] /\ on[Len(batch)] = at
    BY <1>1, <1>3, <2>3
  <2>5. 0 \in 0 .. Len(batch)
    BY <1>3, <2>1, CoalescedIs, LenProperties
  <2>6. \A m \in Mobiles : \A w : Fair(view, Picture(w), m, on[0][m])
    BY <1>1, <1>3, <2>4 DEF Behind
  <2> QED BY <2>4, <2>5, <2>6
<1> QED BY <1>2, <1>3

LEMMA RoutesS ==
  ASSUME TInv, LInv, PInv, SInv, Standing, FlushEvents \/ TickRoutes, Roomy'
  PROVE  SInv'
<1>1. PICK batch : /\ Routes(batch)
                   /\ batch = bus \/ (batch = Coalesced(bus) /\ turn = "ticking")
  BY RoutingIsOneOf
<1>2. /\ link' = Delivered(link, RoutedOf(watch, batch)) /\ bus' = << >>
      /\ UNCHANGED <<acts, at, watch, todo, phase, here, view, self, shown, lately>>
  BY <1>1 DEF Routes
<1>3. batch \in Seq(Event) /\ link \in Seq(Event)
  BY <1>1, Facts, CoalescedIs
<1>4. Mergeable'
  BY <1>2, InNone, OrderlyNone DEF Mergeable
<1>5. ASSUME watch # None, NEW m \in Mobiles, NEW w PROVE Fair(view, Picture(w)', m, at[m])
  <2> DEFINE s == Sight
             p == Picture(w)
             u == Later(w, Len(link))
             routed == RoutedOf(view, batch)
  <2>1. watch = view /\ view \in Rect /\ s \in Seen
    BY <1>5, StandingIs, Facts
  <2>2. routed \in Seq(Event)
    BY <1>3, RoutedIs
  <2>3. link' = link \o routed
    BY <1>2, <1>3, <2>1, <2>2, DeliveredIs DEF Roomy
  <2> HIDE DEF routed
  <2>4. Picture(w)' = AppliedAll(view, p, routed, u)
    <3>1. Picture(w)' = AppliedAll(view, s, link \o routed, w)
      BY <1>2, <2>3 DEF Picture, Sight, Throttling
    <3>2. p = AppliedAll(view, s, link, w)
      BY DEF Picture
    <3> HIDE DEF s, p
    <3> QED BY <1>3, <2>2, <3>1, <3>2, AppliedInTurn
  <2>5. p \in Seen
    BY PictureIs
  <2>6. Snapless(batch)
    BY <1>1, Facts, StandingIs, SnaplessCoalesced
  <2>7. PICK way : /\ Way(way, batch) /\ way[Len(batch)] = at
                   /\ \A h \in Mobiles : \A x : \E k \in 0 .. Len(batch) :
                        Fair(view, Picture(x), h, way[k][h])
    BY <1>1, <1>5, BatchWay
  <2>8. \E k \in 0 .. Len(batch) : Fair(view, p, m, way[k][m])
    BY <2>7
  <2> HIDE DEF s, p, u
  <2>9. (\E k \in 0 .. Len(batch) : Fair(view, p, m, way[k][m]))
          => Fair(view, AppliedAll(view, p, RoutedOf(view, batch), u), m, way[Len(batch)][m])
    BY <1>3, <2>1, <2>5, <2>6, <2>7, RoutedRight
  <2> QED BY <2>4, <2>7, <2>8, <2>9 DEF routed
<1>6. Followed'
  <2> DEFINE way == [k \in 0 .. 0 |-> at]
  <2>1. at \in Position /\ Len(bus') = 0
    BY <1>2, Facts, EmptySeq DEF Position
  <2>2. Way(way, bus') /\ way[Len(bus')] = at'
    BY <1>2, <2>1 DEF Way
  <2>3. way[0] = at
    OBVIOUS
  <2> HIDE DEF way
  <2>4. watch' # None => \A m \in Mobiles : \A w : \E k \in 0 .. Len(bus') :
                    (turn' # "batch" => k = 0) /\ Fair(view', Picture(w)', m, way[k][m])
    <3> SUFFICES ASSUME watch' # None, NEW m \in Mobiles, NEW w
                 PROVE  \E k \in 0 .. Len(bus') :
                          (turn' # "batch" => k = 0) /\ Fair(view', Picture(w)', m, way[k][m])
      OBVIOUS
    <3>1. Fair(view', Picture(w)', m, way[0][m])
      BY <1>2, <1>5, <2>3
    <3>2. 0 \in 0 .. Len(bus')
      BY <2>1
    <3> QED BY <3>1, <3>2
  <2> QED BY <2>2, <2>4 DEF Followed, Behind
<1> QED BY <1>2, <1>4, <1>6 DEF SInv

\* Who acts on a mobile takes the zone one event further.
LEMMA ActsFollow ==
  ASSUME TInv, NEW name, NEW m, NEW to, NEW event, WorldActs(name, m, to, event)
  PROVE  Follows(at, event, at')
<1>1. /\ event \in Event /\ m \in Mobiles \cup {Me} /\ to \in Places
      /\ at' = [at EXCEPT ![m] = to]
  BY WorldT
<1>2. at \in Position /\ at[Me] \in Tiles
  BY Facts DEF Position
<1>3. at' \in Position
  BY <1>1, <1>2 DEF Position
<1>4. /\ event.who = m /\ to = (IF event.kind = "removed" THEN None ELSE event.to)
      /\ event.kind # "drawn" => at[m] = event.from
      /\ event.kind = "drawn" => at[m] \in {None, event.to} /\ event.from = event.to
  BY <1>2 DEF WorldActs, Moved, Drawn, Removed
<1> QED BY <1>1, <1>2, <1>3, <1>4 DEF Follows

LEMMA WorldMergeable ==
  ASSUME TInv, SInv, Standing, NEW name, NEW m, NEW to, NEW event,
         WorldActs(name, m, to, event), m \in Mobiles
  PROVE  Mergeable'
<1>1. /\ event \in Event /\ to \in Places /\ name \in acts
      /\ at' = [at EXCEPT ![m] = to] /\ bus' = Append(bus, event)
      /\ UNCHANGED acts
  BY WorldT
<1>2. /\ bus \in Seq(Event) /\ at \in [Mobiles \cup {Me} -> Places]
      /\ \A e : In(e, bus') <=> In(e, bus) \/ e = event
  BY <1>1, Facts, InAppend
<1>3. Mergeable
  BY DEF SInv
<1>4. /\ event.who = m
      /\ \/ event.kind = "moved" /\ at[m] # None /\ name \in {"step", "teleport"}
         \/ event.kind = "drawn" /\ at[m] = None /\ name = "spawn"
              /\ \A i \in DOMAIN bus : bus[i].who # m
         \/ event.kind = "removed" /\ at[m] # None /\ to = None
         \/ event.kind = "drawn" /\ name = "update"
  BY WhoAssumption, TilesAssumption DEF WorldActs, Moved, Drawn, Removed
<1>5. \A e : In(e, bus') => e.who \in Mobiles
  BY <1>2, <1>3, <1>4 DEF Mergeable
<1>6. ASSUME NEW e, In(e, bus'), e.kind = "removed" PROVE at'[e.who] = None
  <2>1. CASE e = event
    <3>1. to = None
      BY <1>4, <1>6, <2>1
    <3> QED BY <1>1, <1>2, <1>4, <2>1, <3>1
  <2>2. CASE e # event
    <3>1. In(e, bus) /\ at[e.who] = None /\ e.who \in Mobiles
      BY <1>2, <1>3, <1>6, <2>2 DEF Mergeable
    <3>2. e.who # m
      <4>1. e.who = m => ~ \A i \in DOMAIN bus : bus[i].who # m
        BY <3>1 DEF In
      <4>2. CASE name = "spawn"
        <5>1. name = "spawn" => \A i \in DOMAIN bus : bus[i].who # m
          BY <1>4 DEF WorldActs
        <5> QED BY <4>1, <4>2, <5>1
      <4>3. CASE name # "spawn"
        <5>1. at[m] # None
          BY <4>3, TilesAssumption, WhoAssumption DEF WorldActs
        <5> QED BY <3>1, <5>1
      <4> QED BY <4>2, <4>3
    <3> QED BY <1>1, <1>2, <3>1, <3>2
  <2> QED BY <2>1, <2>2
<1>7. "update" \in acts => \A e : In(e, bus') => e.kind # "moved"
  <2> SUFFICES ASSUME "update" \in acts PROVE event.kind # "moved"
    BY <1>2, <1>3 DEF Mergeable
  <2>1. "step" \notin acts /\ "teleport" \notin acts
    BY DEF Standing, Tame
  <2> QED BY <1>1, <1>4, <2>1
<1>8. "update" \notin acts => Orderly(bus')
  <2> SUFFICES ASSUME "update" \notin acts PROVE Orderly(bus')
    OBVIOUS
  <2>1. Orderly(bus)
    BY <1>3 DEF Mergeable
  <2>2. name # "update"
    BY <1>1
  <2>3. ASSUME NEW d, In(d, bus), d.who = event.who
        PROVE  d.kind # "removed" /\ event.kind # "drawn"
    <3>1. d.who = m /\ ~ \A i \in DOMAIN bus : bus[i].who # m
      BY <1>4, <2>3 DEF In
    <3>2. at[m] # None /\ event.kind # "drawn"
      BY <1>4, <2>2, <3>1
    <3> QED BY <1>3, <2>3, <3>1, <3>2 DEF Mergeable
  <2> QED BY <1>1, <1>2, <2>1, <2>3, OrderlyOneMore
<1> QED BY <1>1, <1>5, <1>6, <1>7, <1>8 DEF Mergeable

LEMMA WorldS ==
  ASSUME TInv, LInv, PInv, SInv, Standing, WorldStep
  PROVE  SInv'
<1>1. PICK name, m, to, event : WorldActs(name, m, to, event)
  BY WorldIs
<1>2. /\ event \in Event /\ m \in Mobiles \cup {Me} /\ name \in acts
      /\ turn' = (IF turn = "waiting" THEN "batch" ELSE turn)
      /\ bus' = Append(bus, event) /\ bus \in Seq(Event)
      /\ UNCHANGED <<acts, wake, watch, todo, link, reply, phase, here, view, self, shown, lately>>
  BY <1>1, WorldT, Facts
<1>3. m \in Mobiles
  <2>1. "carry" \notin acts /\ "carry_joining" \notin acts
    BY StandingIs
  <2> QED BY <1>1, <1>2, <2>1 DEF WorldActs
<1>4. Mergeable'
  BY <1>1, <1>3, WorldMergeable
<1>5. Followed'
  <2>1. PICK way : Way(way, bus) /\ way[Len(bus)] = at /\ Behind(way)
    BY DEF SInv, Followed
  <2> DEFINE n == Len(bus)
             on == OneOn(way, n, at')
  <2>2. n \in Nat /\ Len(bus') = n + 1
    BY <1>2
  <2>3. Follows(way[n], event, at')
    BY <1>1, <2>1, ActsFollow
  <2>4. Way(on, bus') /\ on[n + 1] = at' /\ \A k \in 0 .. n : on[k] = way[k]
    BY <1>2, <2>1, <2>3, WayOn
  <2> HIDE DEF on
  <2>5. \A w : Picture(w)' = Picture(w)
    BY <1>2 DEF Picture, Sight, Throttling
  <2>6. watch' # None => \A h \in Mobiles : \A w : \E k \in 0 .. Len(bus') :
                    (turn' # "batch" => k = 0) /\ Fair(view', Picture(w)', h, on[k][h])
    <3> SUFFICES ASSUME watch' # None, NEW h \in Mobiles, NEW w
                 PROVE  \E k \in 0 .. Len(bus') :
                          (turn' # "batch" => k = 0) /\ Fair(view', Picture(w)', h, on[k][h])
      OBVIOUS
    <3>1. PICK k \in 0 .. n : (turn # "batch" => k = 0) /\ Fair(view, Picture(w), h, way[k][h])
      BY <1>2, <2>1 DEF Behind
    <3>2. k \in 0 .. Len(bus') /\ on[k] = way[k]
      BY <2>2, <2>4
    <3>3. turn' # "batch" => k = 0
      BY <1>2, <3>1
    <3> QED BY <1>2, <2>5, <3>1, <3>2, <3>3
  <2> HIDE DEF n
  <2>7. Way(on, bus') /\ on[Len(bus')] = at'
    BY <2>2, <2>4
  <2> QED BY <2>6, <2>7 DEF Followed, Behind
<1> QED BY <1>2, <1>4, <1>5 DEF SInv

LEMMA SameS ==
  ASSUME SInv, UNCHANGED <<acts, at, bus, watch, todo, link, phase, here, view, self, shown, lately>>,
         turn' = turn \/ (turn # "batch" /\ turn' # "batch")
  PROVE  SInv'
<1>1. \A w : Picture(w)' = Picture(w)
  BY DEF Picture, Sight, Throttling
<1>2. Mergeable => Mergeable'
  BY DEF Mergeable
<1>3. Followed => Followed'
  <2> SUFFICES ASSUME Followed PROVE Followed'
    OBVIOUS
  <2>1. PICK way : Way(way, bus) /\ way[Len(bus)] = at /\ Behind(way)
    BY DEF Followed
  <2>2. (Behind(way))'
    BY <1>1, <2>1 DEF Behind
  <2>3. (Way(way, bus))' /\ (way[Len(bus)] = at)'
    BY <2>1
  <2> QED BY <2>2, <2>3 DEF Followed
<1>4. Standing' <=> Standing
  BY DEF Standing, Tame
<1> QED BY <1>2, <1>3, <1>4 DEF SInv

LEMMA NextS ==
  ASSUME TInv, LInv, PInv, SInv, [Next]_vars, Roomy'
  PROVE  SInv'
<1>1. acts' = acts
  BY DEF Next, SessionStep, WorkerStep, WorldStep, vars, Joined, StepAnswered, HandleEvents,
         ClientStep, RegisterObserver, UpdateObserverView, StepMe, FlushEvents, TickBegins,
         TickRoutes, TickEnds, MobileStep, TeleportEntity, CarryMe, SpawnEntity, RemoveEntity,
         UpdateEntity, Act
<1>2. Standing' <=> Standing
  BY <1>1 DEF Standing, Tame
<1> SUFFICES ASSUME Standing PROVE SInv'
  BY <1>2 DEF SInv
<1>3. phase \in {"joining", "idle"} /\ (phase = "idle" => todo = << >>) /\ "walk" \notin acts
  BY StandingIs
<1>4. CASE Joined \/ HandleEvents
  BY <1>4, TakeLinkS
<1>5. CASE StepAnswered
  BY <1>3, <1>5 DEF StepAnswered
<1>6. ASSUME NEW by \in Steps, ClientStep(by) PROVE FALSE
  BY <1>3, <1>6 DEF ClientStep
<1>7. CASE RegisterObserver
  BY <1>7, RegisterS
<1>8. CASE UpdateObserverView
  <2>1. phase # "joining" /\ todo # << >>
    BY <1>8, UpdateObserverViewT DEF UpdateObserverView, TakeCommand
  <2> QED BY <1>3, <2>1
<1>9. CASE StepMe
  BY <1>3, <1>9, StepMeT
<1>10. CASE FlushEvents \/ TickRoutes
  BY <1>10, RoutesS
<1>11. CASE TickBegins \/ TickEnds
  BY <1>11, TickT, SameS
<1>12. CASE WorldStep
  BY <1>12, WorldS
<1>13. CASE UNCHANGED vars
  BY <1>13, SameS DEF vars, worker, session, client
<1> QED BY <1>4, <1>5, <1>6, <1>7, <1>8, <1>9, <1>10, <1>11, <1>12, <1>13, NextIs

LEMMA StandingPicture ==
  ASSUME TInv, SInv, Standing, Quiet
  PROVE  PictureRight
<1>1. PICK way : Way(way, bus) /\ way[Len(bus)] = at /\ Behind(way)
  BY DEF SInv, Followed
<1>2. watch # None /\ turn # "batch" /\ Len(bus) = 0 /\ way[0] = at
  BY <1>1 DEF Quiet, TInv, Phases, Idle
<1>3. Picture({}) = Sight
  BY AppliedNone DEF Quiet, Picture
<1> SUFFICES ASSUME NEW m \in Mobiles
             PROVE  IF m \in lately THEN InSight(shown[m]) <=> InSight(at[m]) ELSE Exact(m)
  BY DEF PictureRight
<1>4. Fair(view, Sight, m, at[m])
  BY <1>1, <1>2, <1>3 DEF Behind
<1>5. Sight.lately = lately /\ Sight.shown = shown
  BY DEF Sight
<1>6. CASE m \in lately
  BY <1>4, <1>5, <1>6 DEF Fair, Sees, InSight
<1>7. CASE m \notin lately
  <2>1. Right(view, shown[m], at[m])
    BY <1>4, <1>5, <1>7 DEF Fair
  <2> QED BY <1>7, <2>1, TilesAssumption DEF Right, Exact
<1> QED BY <1>6, <1>7

-----------------------------------------------------------------------------
(* The picture of a player who walks among mobiles that stay *)

DrawnOrGone(m, q, t) == \A e : In(e, q) /\ e.who = m =>
                          (e.kind = "drawn" /\ e.to = t) \/ e.kind = "removed"
ThereOr(s, m, t) == s.shown[m] \in {None, t}
Unmoved(m, q) == \A e : In(e, q) /\ e.who = m => e.kind # "moved"

\* A mobile that events draw in one place, or remove, is drawn there or nowhere.
LEMMA ThereOrNowhere ==
  ASSUME NEW v, NEW s \in Seen, NEW w, NEW m \in Mobiles, NEW t, ThereOr(s, m, t),
         NEW events \in Seq(Event), Snapless(events), DrawnOrGone(m, events, t)
  PROVE  ThereOr(AppliedAll(v, s, events, w), m, t)
<1> DEFINE p(q) == AppliedAll(v, s, q, w).shown[m]
           Good(q) == Snapless(q) /\ DrawnOrGone(m, q, t) => p(q) \in {None, t}
           T == {q \in Seq(Event) : Good(q)}
<1>1. << >> \in T
  <2>1. p(<< >>) = s.shown[m] /\ << >> \in Seq(Event)
    BY AppliedNone DEF ThereOr
  <2> QED BY <2>1 DEF ThereOr
<1>2. ASSUME NEW q \in Seq(Event), Good(q), NEW e \in Event PROVE Good(Append(q, e))
  <2> SUFFICES ASSUME Snapless(Append(q, e)), DrawnOrGone(m, Append(q, e), t)
               PROVE  p(Append(q, e)) \in {None, t}
    OBVIOUS
  <2>1. \A x : In(x, Append(q, e)) <=> In(x, q) \/ x = e
    BY InAppend
  <2>2. Snapless(q) /\ ~ IsSnap(e)
    BY <2>1 DEF Snapless
  <2>3. /\ DrawnOrGone(m, q, t)
        /\ e.who = m => (e.kind = "drawn" /\ e.to = t) \/ e.kind = "removed"
    BY <2>1 DEF DrawnOrGone
  <2>4. p(q) \in {None, t}
    BY <1>2, <2>2, <2>3
  <2>5. p(Append(q, e)) = IF e.who = m THEN Effect(v, p(q), e) ELSE p(q)
    <3>1. AppliedAll(v, s, q, w) \in Seen
      BY AppliedAllIs
    <3>2. AppliedAll(v, s, Append(q, e), w)
            = Applied(v, AppliedAll(v, s, q, w), e, Len(q) + 1 \in w)
      BY AppliedOneMore
    <3>3. e.who = m => e.kind # "moved"
      BY <2>3
    <3> QED BY <2>2, <3>1, <3>2, <3>3, AppliedUnmoved
  <2>6. e.who = m => Effect(v, p(q), e) \in {None, t}
    BY <2>3 DEF Effect
  <2> HIDE DEF p
  <2> QED BY <2>4, <2>5, <2>6
<1> HIDE DEF p
<1>3. T = Seq(Event)
  <2> HIDE DEF Good
  <2>1. \A q \in T, e \in Event : Append(q, e) \in T
    <3> SUFFICES ASSUME NEW q \in T, NEW e \in Event PROVE Append(q, e) \in T
      OBVIOUS
    <3>1. q \in Seq(Event) /\ Good(q)
      OBVIOUS
    <3>2. Good(Append(q, e))
      BY <1>2, <3>1
    <3>3. Append(q, e) \in Seq(Event)
      BY <3>1
    <3> QED BY <3>2, <3>3
  <2>2. T \in SUBSET Seq(Event)
    OBVIOUS
  <2> HIDE DEF T
  <2> QED BY <1>1, <2>1, <2>2, Growth
<1>4. Good(events)
  BY <1>3
<1> QED BY <1>4 DEF p, ThereOr

\* What events that do not move a mobile make of it depends on nothing else
\* that is drawn, and not on the view.
LEMMA ViewIsNoMatter ==
  ASSUME NEW v, NEW u, NEW w, NEW s \in Seen, NEW z \in Seen, NEW m \in Mobiles,
         s.shown[m] = z.shown[m],
         NEW events \in Seq(Event), Snapless(events), Unmoved(m, events)
  PROVE  AppliedAll(v, s, events, w).shown[m] = AppliedAll(u, z, events, w).shown[m]
<1> DEFINE p(q) == AppliedAll(v, s, q, w).shown[m]
           r(q) == AppliedAll(u, z, q, w).shown[m]
           Good(q) == Snapless(q) /\ Unmoved(m, q) => p(q) = r(q)
           T == {q \in Seq(Event) : Good(q)}
<1>1. << >> \in T
  <2>1. p(<< >>) = s.shown[m] /\ r(<< >>) = z.shown[m] /\ << >> \in Seq(Event)
    BY AppliedNone
  <2> QED BY <2>1
<1>2. ASSUME NEW q \in Seq(Event), Good(q), NEW e \in Event PROVE Good(Append(q, e))
  <2> SUFFICES ASSUME Snapless(Append(q, e)), Unmoved(m, Append(q, e))
               PROVE  p(Append(q, e)) = r(Append(q, e))
    OBVIOUS
  <2>1. \A x : In(x, Append(q, e)) <=> In(x, q) \/ x = e
    BY InAppend
  <2>2. Snapless(q) /\ ~ IsSnap(e)
    BY <2>1 DEF Snapless
  <2>3. Unmoved(m, q) /\ (e.who = m => e.kind # "moved")
    BY <2>1 DEF Unmoved
  <2>4. p(q) = r(q)
    BY <1>2, <2>2, <2>3
  <2>5. p(Append(q, e)) = IF e.who = m THEN Effect(v, p(q), e) ELSE p(q)
    <3>1. AppliedAll(v, s, q, w) \in Seen
      BY AppliedAllIs
    <3>2. AppliedAll(v, s, Append(q, e), w)
            = Applied(v, AppliedAll(v, s, q, w), e, Len(q) + 1 \in w)
      BY AppliedOneMore
    <3> QED BY <2>2, <2>3, <3>1, <3>2, AppliedUnmoved
  <2>6. r(Append(q, e)) = IF e.who = m THEN Effect(u, r(q), e) ELSE r(q)
    <3>1. AppliedAll(u, z, q, w) \in Seen
      BY AppliedAllIs
    <3>2. AppliedAll(u, z, Append(q, e), w)
            = Applied(u, AppliedAll(u, z, q, w), e, Len(q) + 1 \in w)
      BY AppliedOneMore
    <3> QED BY <2>2, <2>3, <3>1, <3>2, AppliedUnmoved
  <2>7. e.who = m => Effect(v, p(q), e) = Effect(u, r(q), e)
    <3>1. e.kind \in Kinds
      BY DEF Event
    <3> QED BY <2>3, <3>1 DEF Effect, Kinds
  <2> HIDE DEF p, r
  <2> QED BY <2>4, <2>5, <2>6, <2>7
<1> HIDE DEF p, r
<1>3. T = Seq(Event)
  <2> HIDE DEF Good
  <2>1. \A q \in T, e \in Event : Append(q, e) \in T
    <3> SUFFICES ASSUME NEW q \in T, NEW e \in Event PROVE Append(q, e) \in T
      OBVIOUS
    <3>1. q \in Seq(Event) /\ Good(q)
      OBVIOUS
    <3>2. Good(Append(q, e))
      BY <1>2, <3>1
    <3>3. Append(q, e) \in Seq(Event)
      BY <3>1
    <3> QED BY <3>2, <3>3
  <2>2. T \in SUBSET Seq(Event)
    OBVIOUS
  <2> HIDE DEF T
  <2> QED BY <1>1, <2>1, <2>2, Growth
<1>4. Good(events)
  BY <1>3
<1> QED BY <1>4 DEF p, r

Walking == Tame /\ "walk" \in acts

\* What the zone publishes of the others draws them where they are; what waits
\* for the session draws them there or takes them off, when a strip was lost.
Published ==
  \A e : In(e, bus) /\ e.who # Me =>
    e.kind = "drawn" /\ at[e.who] # None /\ e.to = at[e.who]
Streamed ==
  \A e : In(e, link) /\ e.who # Me =>
    at[e.who] # None /\ ((e.kind = "drawn" /\ e.to = at[e.who]) \/ e.kind = "removed")
NoGhosts == \A m \in Mobiles : shown[m] \in {None, at[m]}

\* The registry watches where m is, and will after each command under way.
Covered(m) ==
  /\ watch # None /\ at[m] # None /\ ContainsPos(watch, at[m])
  /\ \A i \in DOMAIN todo : todo[i].op = "view" => ContainsPos(todo[i].rect, at[m])

\* Who is there is drawn, once the client has what is in its channel, or is
\* published again.
Known(m) == (\A w : Picture(w).shown[m] = at[m]) \/ OfOne(m, bus)

WInv == Walking => /\ Published /\ Streamed /\ NoGhosts
                   /\ \A m \in Mobiles : Covered(m) => Known(m)

LEMMA InitW ==
  ASSUME Init
  PROVE  WInv
BY InNone DEF Init, WInv, Published, Streamed, NoGhosts, Covered

\* Nobody carries, moves or removes anyone.
LEMMA WalkingIs ==
  ASSUME TInv, PInv, WInv, Walking
  PROVE  /\ acts \cap {"carry", "carry_joining", "step", "teleport", "remove"} = {}
         /\ view = ViewFrom(here) /\ Snapless(link) /\ Snapless(bus) /\ Placed
         /\ Published /\ Streamed /\ NoGhosts
         /\ \A m \in Mobiles : Covered(m) => Known(m)
         /\ \A m \in Mobiles : DrawnOrGone(m, link, at[m]) /\ Unmoved(m, link)
         /\ \A m \in Mobiles : OnlyDrawn(m, bus, at[m])
<1>1. acts \cap {"carry", "carry_joining", "step", "teleport", "remove"} = {}
  BY DEF Walking, Tame
<1>2. view = ViewFrom(here) /\ Snapless(link) /\ Snapless(bus) /\ Placed
  BY <1>1 DEF PInv
<1>3. Published /\ Streamed /\ NoGhosts /\ \A m \in Mobiles : Covered(m) => Known(m)
  BY DEF WInv
<1>4. \A m \in Mobiles : DrawnOrGone(m, link, at[m]) /\ Unmoved(m, link)
  BY <1>3, WhoAssumption DEF Streamed, DrawnOrGone, Unmoved
<1>5. \A m \in Mobiles : OnlyDrawn(m, bus, at[m])
  BY <1>3, WhoAssumption DEF Published, OnlyDrawn
<1> QED BY <1>1, <1>2, <1>3, <1>4, <1>5

LEMMA TakeLinkW ==
  ASSUME TInv, PInv, WInv, Walking, Joined \/ HandleEvents
  PROVE  WInv'
<1>1. TakeLink /\ UNCHANGED <<acts, at, bus, watch>>
  BY DEF Joined, HandleEvents, worker
<1>2. here' = here /\ link' = << >> /\ here' \in Tiles
  BY <1>1, TakeLinkIs, WalkingIs DEF Snapless
<1>3. view' = view /\ todo' = todo
  BY <1>2, SyncViewIs, WalkingIs DEF Joined, HandleEvents
<1> PICK u : Sight' = Picture(u)
  BY <1>1, TakeLinkIs
<1>4. \A w : Picture(w)' = Picture(u)
  <2> TAKE w
  <2> DEFINE s == Sight'
  <2>1. AppliedAll(view', s, << >>, w) = s
    BY AppliedNone
  <2>2. Picture(w)' = s
    BY <1>2, <2>1 DEF Picture
  <2> QED BY <2>2
<1>5. Published' /\ Streamed'
  BY <1>1, <1>2, WalkingIs, InNone DEF Published, Streamed
<1>6. NoGhosts'
  <2>0. shown' = Picture(u).shown
    BY DEF Sight
  <2> SUFFICES ASSUME NEW m \in Mobiles PROVE Picture(u).shown[m] \in {None, at[m]}
    BY <1>1, <2>0 DEF NoGhosts
  <2> DEFINE s == Sight
             t == at[m]
  <2>1. s \in Seen /\ ThereOr(s, m, t) /\ link \in Seq(Event)
    BY Facts, WalkingIs DEF NoGhosts, Sight, ThereOr
  <2>2. Snapless(link) /\ DrawnOrGone(m, link, t)
    BY WalkingIs
  <2>3. Picture(u) = AppliedAll(view, s, link, u)
    BY DEF Picture
  <2> HIDE DEF s, t
  <2>4. Picture(u).shown[m] \in {None, t}
    <3>1. m \in Mobiles
      OBVIOUS
    <3>2. ThereOr(AppliedAll(view, s, link, u), m, t)
      BY ONLY <2>1, <2>2, <3>1, ThereOrNowhere, Zenon
    <3> QED BY <2>3, <3>2 DEF ThereOr
  <2> QED BY <2>4 DEF t
<1>7. \A m \in Mobiles : (Covered(m) => Known(m))'
  BY <1>1, <1>3, <1>4, WalkingIs DEF Covered, Known
<1> QED BY <1>5, <1>6, <1>7 DEF WInv

\* Where things are for the player, and its client.
Sighted == here \in Tiles /\ self \in Tiles /\ shown \in [Mobiles -> Places] /\ Sight \in Seen

LEMMA SightedIs == TInv => Sighted
<1> QED BY Facts DEF Sighted

\* A step of the player: what it leaves behind is out of the new view, and what
\* stays in view stays in the picture.
LEMMA StepAnsweredW ==
  ASSUME TInv, LInv, PInv, WInv, Walking, StepAnswered
  PROVE  WInv'
<1>1. /\ phase = "stepping" /\ reply # << >>
      /\ IF reply[1].to # None THEN here' = reply[1].to /\ self' = Onto(self, reply[1].by)
                               ELSE here' = here /\ self' = here
      /\ shown' = Evicted(shown, self') /\ SyncView
      /\ UNCHANGED <<acts, at, bus, watch, link>>
  BY DEF StepAnswered, worker
<1>2. TInv' /\ here' \in Tiles /\ self' \in Tiles /\ shown' \in [Mobiles -> Places] /\ Sight' \in Seen
  <2>1. TInv'
    BY StepAnsweredT
  <2>2. Sighted'
    BY <2>1, SightedIs, PTL
  <2> QED BY <2>1, <2>2 DEF Sighted
<1>3. self' = here'
  BY <1>1, WalkingIs DEF Placed
<1>4. /\ view' = ViewFrom(self')
      /\ todo' = IF view' # view THEN Append(todo, [op |-> "view", rect |-> view']) ELSE todo
  BY <1>1, <1>2, <1>3, SyncViewIs
<1>5. Published' /\ Streamed'
  BY <1>1, WalkingIs DEF Published, Streamed
<1>6. \A m \in Mobiles : shown'[m] = IF shown[m] # None /\ ContainsPos(view', shown[m])
                                     THEN shown[m] ELSE None
  BY <1>1, <1>4 DEF Evicted
<1>7. NoGhosts'
  BY <1>1, <1>6, WalkingIs DEF NoGhosts
<1>8. ASSUME NEW m \in Mobiles, Covered(m)'
      PROVE  Covered(m) /\ ContainsPos(view', at[m])
  <2>1. /\ watch # None /\ at[m] # None /\ ContainsPos(watch, at[m])
        /\ \A i \in DOMAIN todo' : todo'[i].op = "view" => ContainsPos(todo'[i].rect, at[m])
    BY <1>1, <1>8 DEF Covered
  <2>2. todo \in Seq(Command) /\ view' \in Rect
    BY <1>2, Facts DEF TInv, TypeOK
  <2>3. CASE view' # view
    <3> DEFINE c == [op |-> "view", rect |-> view']
    <3>1. c \in Command /\ c.op = "view" /\ c.rect = view'
      BY <2>2 DEF Command
    <3> HIDE DEF c
    <3>2. todo' = Append(todo, c)
      BY <1>4, <2>3 DEF c
    <3>3. /\ Len(todo) \in Nat /\ DOMAIN todo = 1 .. Len(todo)
          /\ DOMAIN todo' = 1 .. Len(todo) + 1
          /\ \A i \in 1 .. Len(todo) : todo'[i] = todo[i]
          /\ todo'[Len(todo) + 1] = c
      BY <2>2, <3>1, <3>2, AppendTodo, NoTodo
    <3>4. ContainsPos(view', at[m])
      <4>1. Len(todo) + 1 \in DOMAIN todo'
        BY <3>3
      <4> QED BY <2>1, <3>1, <3>3, <4>1
    <3>5. \A i \in DOMAIN todo : todo[i].op = "view" => ContainsPos(todo[i].rect, at[m])
      <4> SUFFICES ASSUME NEW i \in DOMAIN todo, todo[i].op = "view"
                   PROVE  ContainsPos(todo[i].rect, at[m])
        OBVIOUS
      <4>1. i \in DOMAIN todo' /\ todo'[i] = todo[i]
        BY <3>3
      <4> QED BY <2>1, <4>1
    <3> QED BY <2>1, <3>4, <3>5 DEF Covered
  <2>4. CASE view' = view
    <3>1. todo' = todo
      BY <1>4, <2>4
    <3>2. PICK k : LastAt(todo, watch, view, k)
      BY <2>1 DEF LInv
    <3>3. k = 0 => watch = view
      BY <3>2 DEF LastAt
    <3>4. k # 0 => k \in DOMAIN todo /\ todo[k].op = "view" /\ todo[k].rect = view
      BY <2>2, <3>2, NoTodo DEF LastAt
    <3>5. ContainsPos(view, at[m])
      BY <2>1, <3>1, <3>3, <3>4
    <3> QED BY <2>1, <2>4, <3>1, <3>5 DEF Covered
  <2> QED BY <2>3, <2>4
<1>9. ASSUME NEW m \in Mobiles, Covered(m)' PROVE Known(m)'
  <2> DEFINE s == Sight
             z == Sight'
  <2>1. Known(m) /\ ContainsPos(view', at[m]) /\ at[m] # None
    BY <1>8, <1>9, WalkingIs DEF Covered
  <2>2. CASE OfOne(m, bus)
    BY <1>1, <2>2 DEF Known
  <2>3. CASE \A w : Picture(w).shown[m] = at[m]
    <3> SUFFICES ASSUME NEW x PROVE Picture(x)'.shown[m] = at[m]
      BY <1>1 DEF Known
    <3>1. s.shown[m] = z.shown[m]
      <4>1. shown[m] \in {None, at[m]}
        BY WalkingIs DEF NoGhosts
      <4> QED BY <1>6, <2>1, <4>1 DEF Sight
    <3>2. s \in Seen /\ z \in Seen /\ link \in Seq(Event)
      BY <1>2, Facts
    <3>3. Snapless(link) /\ Unmoved(m, link)
      BY WalkingIs
    <3>4. /\ Picture(x) = AppliedAll(view, s, link, x)
          /\ Picture(x)' = AppliedAll(view', z, link, x)
      BY <1>1 DEF Picture
    <3> HIDE DEF s, z
    <3>5. Picture(x)'.shown[m] = Picture(x).shown[m]
      <4> DEFINE v == view
                 u == view'
      <4> HIDE DEF v, u
      <4>1. AppliedAll(v, s, link, x).shown[m] = AppliedAll(u, z, link, x).shown[m]
        BY <3>1, <3>2, <3>3, ViewIsNoMatter
      <4>2. Picture(x) = AppliedAll(v, s, link, x) /\ Picture(x)' = AppliedAll(u, z, link, x)
        BY <3>4 DEF v, u
      <4> QED BY <4>1, <4>2
    <3> QED BY <2>3, <3>5
  <2> QED BY <2>1, <2>2, <2>3 DEF Known
<1> QED BY <1>5, <1>7, <1>9 DEF WInv

\* A new view: the strips bring who comes into it and take nobody who stays.
LEMMA UpdateObserverViewW ==
  ASSUME TInv, PInv, WInv, Walking, UpdateObserverView, Roomy'
  PROVE  WInv'
<1> DEFINE new == todo[1].rect
           strips == Strips(new)
<1>1. /\ todo[1].op = "view" /\ new \in Rect /\ watch \in Rect /\ watch' = new
      /\ strips \in Seq(Event) /\ link' = Delivered(link, strips)
  BY UpdateObserverViewT
<1>2. /\ UNCHANGED <<acts, at, bus, here, view, self, shown, lately>>
      /\ Len(todo) \in Nat \ {0} /\ todo' \in Seq(Command)
      /\ DOMAIN todo' = 1 .. Len(todo) - 1 /\ \A i \in 1 .. Len(todo) - 1 : todo'[i] = todo[i + 1]
  BY TakeCommandIs DEF UpdateObserverView, session, client
<1>3. /\ \A e : In(e, strips) =>
           \E m \in Mobiles :
             /\ at[m] # None
             /\ \/ e = Drawn(m, at[m]) /\ ContainsPos(new, at[m]) /\ ~ ContainsPos(watch, at[m])
                \/ e = Removed(m, at[m]) /\ ~ ContainsPos(new, at[m])
      /\ \A m \in Mobiles :
           at[m] # None /\ ContainsPos(new, at[m]) /\ ~ ContainsPos(watch, at[m])
             => In(Drawn(m, at[m]), strips)
  BY <1>1, StripsType
<1> HIDE DEF strips
<1>4. \A m, t : /\ Drawn(m, t).who = m /\ Drawn(m, t).kind = "drawn" /\ Drawn(m, t).to = t
                /\ Removed(m, t).who = m /\ Removed(m, t).kind = "removed"
  BY DEF Drawn, Removed
<1>5. link \in Seq(Event) /\ link' = link \o strips
  BY <1>1, Facts, DeliveredIs DEF Roomy
<1>6. Published'
  BY <1>2, WalkingIs DEF Published
<1>7. Streamed'
  <2> SUFFICES ASSUME NEW e, In(e, link'), e.who # Me
               PROVE  at[e.who] # None /\ ((e.kind = "drawn" /\ e.to = at[e.who]) \/ e.kind = "removed")
    BY <1>2 DEF Streamed
  <2>1. CASE In(e, link)
    BY <2>1, WalkingIs DEF Streamed
  <2>2. CASE In(e, strips)
    BY <1>3, <1>4, <2>2
  <2> QED BY <1>1, <1>5, <2>1, <2>2, InConcat
<1>8. NoGhosts'
  BY <1>2, WalkingIs DEF NoGhosts
<1>9. ASSUME NEW m \in Mobiles, Covered(m)' PROVE Known(m)'
  <2> DEFINE t == at[m]
             s == Sight
  <2>1. /\ t # None /\ ContainsPos(new, t)
        /\ \A i \in DOMAIN todo' : todo'[i].op = "view" => ContainsPos(todo'[i].rect, t)
    BY <1>1, <1>2, <1>9 DEF Covered
  <2>2. \A w : Picture(w) \in Seen
    BY PictureIs
  <2>3. \A w : Picture(w)' = AppliedAll(view, Picture(w), strips, Later(w, Len(link)))
    <3> TAKE w
    <3> DEFINE p == Picture(w)
    <3>1. Picture(w)' = AppliedAll(view, s, link \o strips, w)
      BY <1>2, <1>5 DEF Picture, Sight, Throttling
    <3>2. p = AppliedAll(view, s, link, w)
      BY DEF Picture
    <3> HIDE DEF s, p
    <3>3. Picture(w)' = AppliedAll(view, p, strips, Later(w, Len(link)))
      BY <1>1, <1>5, <3>1, <3>2, AppliedInTurn
    <3> QED BY <3>3 DEF p
  <2>4. Snapless(strips)
    BY <1>3 DEF Snapless, IsSnap, Drawn, Removed
  <2>5. OnlyDrawn(m, strips, t)
    BY <1>3, <1>4, <2>1 DEF OnlyDrawn
  <2> HIDE DEF t
  <2>6. \A w : Picture(w)'.shown[m] = IF OfOne(m, strips) THEN t ELSE Picture(w).shown[m]
    <3> TAKE w
    <3> DEFINE p == Picture(w)
               u == Later(w, Len(link))
    <3>1. p \in Seen /\ strips \in Seq(Event) /\ m \in Mobiles /\ Picture(w)' = AppliedAll(view, p, strips, u)
      BY <1>1, <2>2, <2>3
    <3> HIDE DEF p, u
    <3>2. DrawnBy(m, strips, t, p, AppliedAll(view, p, strips, u))
      BY ONLY <2>4, <2>5, <3>1, DrawnOnly, Zenon
    <3> QED BY <3>1, <3>2 DEF p, DrawnBy
  <2>7. CASE ContainsPos(watch, t)
    <3>1. ~ OfOne(m, strips)
      BY <1>3, <1>4, <2>1, <2>7 DEF OfOne, t
    <3>2. \A i \in DOMAIN todo : todo[i].op = "view" => ContainsPos(todo[i].rect, t)
      <4> SUFFICES ASSUME NEW i \in DOMAIN todo, todo[i].op = "view"
                   PROVE  ContainsPos(todo[i].rect, t)
        OBVIOUS
      <4>1. i \in 1 .. Len(todo)
        BY Facts, NoTodo
      <4>2. CASE i = 1
        BY <2>1, <4>2
      <4>3. CASE i # 1
        <5>1. i - 1 \in 1 .. Len(todo) - 1 /\ i - 1 + 1 = i
          BY <1>2, <4>1, <4>3
        <5>2. todo'[i - 1] = todo[i]
          BY <1>2, <5>1
        <5> QED BY <1>2, <2>1, <5>1, <5>2
      <4> QED BY <4>2, <4>3
    <3>3. Known(m)
      BY <1>1, <2>1, <2>7, <3>2, WalkingIs, TilesAssumption DEF Covered, t
    <3> QED BY <1>2, <2>6, <3>1, <3>3 DEF Known
  <2>8. CASE ~ ContainsPos(watch, t)
    <3>1. OfOne(m, strips)
      BY <1>3, <1>4, <2>1, <2>8 DEF OfOne, t
    <3> QED BY <1>2, <2>6, <3>1 DEF Known, t
  <2> QED BY <2>7, <2>8
<1> QED BY <1>6, <1>7, <1>8, <1>9 DEF WInv

LEMMA RegisterW ==
  ASSUME TInv, PInv, WInv, Walking, RegisterObserver, Roomy'
  PROVE  WInv'
<1>1. /\ watch = None /\ watch' = view /\ link' = Delivered(<< >>, InView)
      /\ UNCHANGED <<acts, at, bus, here, view, self, shown, lately>>
  BY RegisterObserverT DEF RegisterObserver, session, client
<1>2. /\ InView \in Seq(Event)
      /\ \A e : In(e, InView) <=>
           \E m \in Mobiles : at[m] # None /\ ContainsPos(view, at[m]) /\ e = Drawn(m, at[m])
  BY InViewIs
<1>3. \A e : In(e, link') => In(e, InView)
  BY <1>1, <1>2, DeliveredIs, EmptySeq, InNone
<1>4. Published' /\ NoGhosts'
  BY <1>1, WalkingIs DEF Published, NoGhosts
<1>5. Streamed'
  <2>1. \A m, t : Drawn(m, t).who = m /\ Drawn(m, t).kind = "drawn" /\ Drawn(m, t).to = t
    BY DEF Drawn
  <2> QED BY <1>1, <1>2, <1>3, <2>1 DEF Streamed
<1>6. ASSUME NEW m \in Mobiles, Covered(m)' PROVE Known(m)'
  <2>1. at[m] # None /\ ContainsPos(view, at[m])
    BY <1>1, <1>6 DEF Covered
  <2>2. \A w : Right(view, Picture(w)'.shown[m], at[m])
    BY RegisterRight
  <2> QED BY <1>1, <2>1, <2>2 DEF Right, Known
<1> QED BY <1>4, <1>5, <1>6 DEF WInv

\* A batch that is routed: whoever is published where the registry watches is
\* drawn.
LEMMA RoutesW ==
  ASSUME TInv, PInv, WInv, Walking, FlushEvents \/ TickRoutes, Roomy'
  PROVE  WInv'
<1>1. PICK batch : Routes(batch) /\ (batch = bus \/ batch = Coalesced(bus))
  BY RoutingIsOneOf
<1> DEFINE routed == RoutedOf(watch, batch)
<1>2. /\ link' = Delivered(link, routed) /\ bus' = << >>
      /\ UNCHANGED <<acts, at, watch, todo, here, view, self, shown, lately>>
  BY <1>1 DEF Routes
<1>3. batch \in Seq(Event) /\ link \in Seq(Event) /\ bus \in Seq(Event)
  BY <1>1, Facts, CoalescedIs
<1>4. ASSUME NEW e, e.who # Me, In(e, batch) PROVE In(e, bus)
  <2>1. CASE batch = bus
    BY <1>4, <2>1
  <2>2. CASE batch = Coalesced(bus)
    <3>1. Origin(e, bus) /\ (e.kind # "moved" => In(e, bus))
      BY <1>3, <1>4, <2>2, CoalescedIs
    <3>2. e.kind = "moved" => \E d : In(d, bus) /\ d.kind = "moved" /\ d.who = e.who
      BY <3>1 DEF Origin
    <3>3. e.kind # "moved"
      BY <1>4, <3>2, WalkingIs DEF Published
    <3> QED BY <3>1, <3>3
  <2> QED BY <1>1, <2>1, <2>2
<1>5. ASSUME NEW e, e.who # Me, In(e, bus) PROVE In(e, batch)
  <2>1. e.kind # "moved"
    BY <1>5, WalkingIs DEF Published
  <2> QED BY <1>1, <1>3, <1>5, <2>1, CoalescedIs
<1>6. /\ routed \in Seq(Event)
      /\ \A e : In(e, routed) <=> In(e, batch) /\ Routed(watch, e)
  BY <1>3, RoutedIs
<1> HIDE DEF routed
<1>7. link' = link \o routed
  BY <1>2, <1>3, <1>6, DeliveredIs DEF Roomy
<1>8. Published' /\ NoGhosts'
  BY <1>2, InNone, WalkingIs DEF Published, NoGhosts
<1>9. Streamed'
  <2> SUFFICES ASSUME NEW e, In(e, link'), e.who # Me
               PROVE  at[e.who] # None /\ ((e.kind = "drawn" /\ e.to = at[e.who]) \/ e.kind = "removed")
    BY <1>2 DEF Streamed
  <2>1. CASE In(e, link)
    BY <2>1, WalkingIs DEF Streamed
  <2>2. CASE In(e, routed)
    BY <1>4, <1>6, <2>2, WalkingIs DEF Published
  <2> QED BY <1>3, <1>6, <1>7, <2>1, <2>2, InConcat
<1>10. ASSUME NEW m \in Mobiles, Covered(m)' PROVE Known(m)'
  <2> DEFINE t == at[m]
             s == Sight
  <2>1. Covered(m) /\ Known(m) /\ ContainsPos(watch, t) /\ t \in Tiles /\ watch \in Rect
    <3>1. Covered(m)
      BY <1>2, <1>10 DEF Covered
    <3> QED BY <3>1, Facts, WalkingIs DEF Covered, Places
  <2>2. \A w : Picture(w) \in Seen
    BY PictureIs
  <2>3. \A w : Picture(w)' = AppliedAll(view, Picture(w), routed, Later(w, Len(link)))
    <3> TAKE w
    <3> DEFINE p == Picture(w)
    <3>1. Picture(w)' = AppliedAll(view, s, link \o routed, w)
      BY <1>2, <1>7 DEF Picture, Sight, Throttling
    <3>2. p = AppliedAll(view, s, link, w)
      BY DEF Picture
    <3> HIDE DEF s, p
    <3>3. Picture(w)' = AppliedAll(view, p, routed, Later(w, Len(link)))
      BY <1>3, <1>6, <3>1, <3>2, AppliedInTurn
    <3> QED BY <3>3 DEF p
  <2>4. Snapless(routed)
    <3>1. Snapless(batch)
      BY <1>1, <1>3, WalkingIs, SnaplessCoalesced
    <3> QED BY <1>6, <3>1 DEF Snapless
  <2>5. OnlyDrawn(m, routed, t)
    BY <1>4, <1>6, WalkingIs, WhoAssumption DEF OnlyDrawn
  <2>6. OfOne(m, bus) => OfOne(m, routed)
    <3> SUFFICES ASSUME NEW e, In(e, bus), e.who = m PROVE In(e, routed)
      BY DEF OfOne
    <3>1. In(e, batch) /\ e.to = t
      BY <1>5, WalkingIs, WhoAssumption DEF OnlyDrawn
    <3>2. Routed(watch, e)
      BY <2>1, <3>1, InViewOnBlocks, TilesAssumption DEF Routed
    <3> QED BY <1>6, <3>1, <3>2
  <2> HIDE DEF t
  <2>7. \A w : Picture(w)'.shown[m] = IF OfOne(m, routed) THEN t ELSE Picture(w).shown[m]
    <3> TAKE w
    <3> DEFINE p == Picture(w)
               u == Later(w, Len(link))
    <3>1. p \in Seen /\ routed \in Seq(Event) /\ m \in Mobiles /\ Picture(w)' = AppliedAll(view, p, routed, u)
      BY <1>6, <2>2, <2>3
    <3> HIDE DEF p, u
    <3>2. DrawnBy(m, routed, t, p, AppliedAll(view, p, routed, u))
      BY ONLY <2>4, <2>5, <3>1, DrawnOnly, Zenon
    <3> QED BY <3>1, <3>2 DEF p, DrawnBy
  <2>8. \A w : Picture(w)'.shown[m] = t
    BY <2>1, <2>6, <2>7 DEF Known, t
  <2> QED BY <1>2, <2>8 DEF Known, t
<1> QED BY <1>8, <1>9, <1>10 DEF WInv

LEMMA ClientStepW ==
  ASSUME TInv, PInv, WInv, Walking, NEW by \in Steps, ClientStep(by)
  PROVE  WInv'
<1> DEFINE c == [op |-> "step", by |-> by]
<1>1. /\ todo' = Append(todo, c)
      /\ UNCHANGED <<acts, at, bus, watch, link, here, view, self, shown, lately>>
  BY DEF ClientStep, worker, client
<1>2. c \in Command /\ todo \in Seq(Command)
  BY Facts DEF Command, Steps
<1> HIDE DEF c
<1>3. /\ Len(todo) \in Nat /\ DOMAIN todo = 1 .. Len(todo)
      /\ DOMAIN todo' = 1 .. Len(todo) + 1
      /\ \A i \in 1 .. Len(todo) : todo'[i] = todo[i]
  BY <1>1, <1>2, AppendTodo, NoTodo
<1>4. \A w : Picture(w)' = Picture(w)
  BY <1>1 DEF Picture, Sight, Throttling
<1>5. Published' /\ Streamed' /\ NoGhosts'
  BY <1>1, WalkingIs DEF Published, Streamed, NoGhosts
<1>6. ASSUME NEW m \in Mobiles, Covered(m)' PROVE Known(m)'
  <2>1. Covered(m)
    <3>1. \A i \in DOMAIN todo : i \in DOMAIN todo' /\ todo'[i] = todo[i]
      BY <1>3
    <3> QED BY <1>1, <1>6, <3>1 DEF Covered
  <2> QED BY <1>1, <1>4, <2>1, WalkingIs DEF Known
<1> QED BY <1>5, <1>6 DEF WInv

LEMMA StepMeW ==
  ASSUME TInv, PInv, WInv, Walking, StepMe
  PROVE  WInv'
<1>1. /\ Asked /\ Len(todo) = 1 /\ todo' = << >>
      /\ \/ \E e \in Event : e.who = Me /\ bus' = Append(bus, e)
         \/ bus' = bus
      /\ \A m \in Mobiles : at'[m] = at[m]
      /\ UNCHANGED <<acts, watch, link, here, view, self, shown, lately>>
  <2>1. \A a, b \in Tiles : Moved(Me, a, b, FALSE).who = Me
    BY DEF Moved
  <2>2. Moved(Me, at[Me], Onto(at[Me], todo[1].by), FALSE).who = Me
    BY DEF Moved
  <2>3. at \in [Mobiles \cup {Me} -> Places]
    BY Facts
  <2>4. \A m \in Mobiles : at'[m] = at[m]
    BY <2>3, StepMeT, WhoAssumption
  <2> QED BY <2>2, <2>4, StepMeT
<1>2. bus \in Seq(Event)
  BY Facts
<1>3. bus' \in Seq(Event) /\ \A e : e.who # Me => (In(e, bus') <=> In(e, bus))
  <2>1. CASE bus' = bus
    BY <1>2, <2>1
  <2>2. ASSUME NEW d \in Event, d.who = Me, bus' = Append(bus, d)
        PROVE  bus' \in Seq(Event) /\ \A e : e.who # Me => (In(e, bus') <=> In(e, bus))
    <3>1. \A e : In(e, Append(bus, d)) <=> In(e, bus) \/ e = d
      BY <1>2, InAppend
    <3>2. Append(bus, d) \in Seq(Event)
      BY <1>2
    <3> QED BY <2>2, <3>1, <3>2
  <2> QED BY <1>1, <2>1, <2>2
<1>4. \A w : Picture(w)' = Picture(w)
  BY <1>1 DEF Picture, Sight, Throttling
<1>5. \A e : In(e, bus') \/ In(e, link) => e \in Event
  <2>1. bus' \in Seq(Event) /\ link \in Seq(Event)
    BY <1>3, Facts
  <2> QED BY <2>1, InIsEvent
<1>6. \A e \in Event : e.who # Me => at'[e.who] = at[e.who]
  BY <1>1 DEF Event
<1>7. Published' /\ Streamed' /\ NoGhosts'
  BY <1>1, <1>3, <1>5, <1>6, WalkingIs DEF Published, Streamed, NoGhosts
<1>8. ASSUME NEW m \in Mobiles, Covered(m)' PROVE Known(m)'
  <2>1. todo[1].op = "step" /\ DOMAIN todo = 1 .. 1
    BY <1>1, Facts, NoTodo DEF Asked
  <2>2. \A i \in DOMAIN todo : todo[i].op # "view"
    BY <2>1
  <2>3. Covered(m)
    BY <1>1, <1>8, <2>2 DEF Covered
  <2>4. OfOne(m, bus) => OfOne(m, bus')
    BY <1>3, WhoAssumption DEF OfOne
  <2> QED BY <1>1, <1>4, <2>3, <2>4, WalkingIs DEF Known
<1> QED BY <1>7, <1>8 DEF WInv

\* Who comes or changes is published where it is.
LEMMA WorldW ==
  ASSUME TInv, PInv, WInv, Walking, WorldStep
  PROVE  WInv'
<1>1. PICK name, m, to, event : WorldActs(name, m, to, event)
  BY WorldIs
<1>2. /\ event \in Event /\ name \in acts
      /\ at' = [at EXCEPT ![m] = to] /\ bus' = Append(bus, event)
      /\ UNCHANGED <<acts, watch, todo, link, here, view, self, shown, lately>>
  BY <1>1, WorldT
<1>3. /\ m \in Mobiles /\ to \in Tiles /\ event = Drawn(m, to)
      /\ \/ at[m] = None /\ \A i \in DOMAIN bus : bus[i].who # m
         \/ at[m] = to
  <2>1. name \notin {"carry", "carry_joining", "step", "teleport", "remove"}
    BY <1>2, WalkingIs
  <2> QED BY <1>1, <2>1 DEF WorldActs
<1>4. /\ bus \in Seq(Event) /\ at \in [Mobiles \cup {Me} -> Places]
      /\ \A e : In(e, bus') <=> In(e, bus) \/ e = event
      /\ \A e : In(e, bus') \/ In(e, link) => e \in Event
  <2>1. bus \in Seq(Event) /\ link \in Seq(Event) /\ bus' \in Seq(Event)
    BY <1>2, Facts
  <2> QED BY <1>2, <2>1, Facts, InAppend, InIsEvent
<1>5. event.who = m /\ event.kind = "drawn" /\ event.to = to /\ to # None
  BY <1>3, TilesAssumption DEF Drawn
<1>6. at'[m] = to /\ \A h \in Mobiles : h # m => at'[h] = at[h]
  BY <1>2, <1>3, <1>4
<1>7. \A w : Picture(w)' = Picture(w)
  BY <1>2 DEF Picture, Sight, Throttling
<1>8. Published'
  <2> SUFFICES ASSUME NEW e, In(e, bus'), e.who # Me
               PROVE  e.kind = "drawn" /\ at'[e.who] # None /\ e.to = at'[e.who]
    BY DEF Published
  <2>1. e.who \in Mobiles
    BY <1>4 DEF Event
  <2>2. CASE e = event
    BY <1>5, <1>6, <2>2
  <2>3. CASE e # event
    <3>1. e.kind = "drawn" /\ at[e.who] # None /\ e.to = at[e.who]
      BY <1>4, <2>3, WalkingIs DEF Published
    <3> QED BY <1>3, <1>6, <2>1, <3>1
  <2> QED BY <2>2, <2>3
<1>9. Streamed'
  <2> SUFFICES ASSUME NEW e, In(e, link), e.who # Me
               PROVE  /\ at'[e.who] # None
                      /\ (e.kind = "drawn" /\ e.to = at'[e.who]) \/ e.kind = "removed"
    BY <1>2 DEF Streamed
  <2>1. e.who \in Mobiles
    BY <1>4 DEF Event
  <2>2. at[e.who] # None /\ ((e.kind = "drawn" /\ e.to = at[e.who]) \/ e.kind = "removed")
    BY WalkingIs DEF Streamed
  <2> QED BY <1>3, <1>6, <2>1, <2>2
<1>10. NoGhosts'
  <2> SUFFICES ASSUME NEW h \in Mobiles PROVE shown[h] \in {None, at'[h]}
    BY <1>2 DEF NoGhosts
  <2>1. shown[h] \in {None, at[h]}
    BY WalkingIs DEF NoGhosts
  <2> QED BY <1>3, <1>6, <2>1
<1>11. ASSUME NEW h \in Mobiles, Covered(h)' PROVE Known(h)'
  <2>1. CASE h = m
    BY <1>4, <1>5, <2>1 DEF Known, OfOne
  <2>2. CASE h # m
    <3>1. at'[h] = at[h] /\ Known(h)
      BY <1>2, <1>6, <1>11, <2>2, WalkingIs DEF Covered
    <3> QED BY <1>4, <1>7, <3>1 DEF Known, OfOne
  <2> QED BY <2>1, <2>2
<1> QED BY <1>8, <1>9, <1>10, <1>11 DEF WInv

LEMMA SameW ==
  ASSUME WInv, UNCHANGED <<acts, at, bus, watch, todo, link, here, view, self, shown, lately>>
  PROVE  WInv'
<1>1. \A w : Picture(w)' = Picture(w)
  BY DEF Picture, Sight, Throttling
<1>2. Walking' <=> Walking
  BY DEF Walking, Tame
<1> QED BY <1>1, <1>2 DEF WInv, Published, Streamed, NoGhosts, Covered, Known

LEMMA NextW ==
  ASSUME TInv, LInv, PInv, WInv, [Next]_vars, Roomy'
  PROVE  WInv'
<1>1. acts' = acts
  BY DEF Next, SessionStep, WorkerStep, WorldStep, vars, Joined, StepAnswered, HandleEvents,
         ClientStep, RegisterObserver, UpdateObserverView, StepMe, FlushEvents, TickBegins,
         TickRoutes, TickEnds, MobileStep, TeleportEntity, CarryMe, SpawnEntity, RemoveEntity,
         UpdateEntity, Act
<1>2. Walking' <=> Walking
  BY <1>1 DEF Walking, Tame
<1> SUFFICES ASSUME Walking PROVE WInv'
  BY <1>2 DEF WInv
<1>3. CASE Joined \/ HandleEvents
  BY <1>3, TakeLinkW
<1>4. CASE StepAnswered
  BY <1>4, StepAnsweredW
<1>5. ASSUME NEW by \in Steps, ClientStep(by) PROVE WInv'
  BY <1>5, ClientStepW
<1>6. CASE RegisterObserver
  BY <1>6, RegisterW
<1>7. CASE UpdateObserverView
  BY <1>7, UpdateObserverViewW
<1>8. CASE StepMe
  BY <1>8, StepMeW
<1>9. CASE FlushEvents \/ TickRoutes
  BY <1>9, RoutesW
<1>10. CASE TickBegins \/ TickEnds
  BY <1>10, TickT, SameW
<1>11. CASE WorldStep
  BY <1>11, WorldW
<1>12. CASE UNCHANGED vars
  BY <1>12, SameW DEF vars, worker, session, client
<1> QED BY <1>3, <1>4, <1>5, <1>6, <1>7, <1>8, <1>9, <1>10, <1>11, <1>12, NextIs

LEMMA WalkingPicture ==
  ASSUME TInv, LInv, PInv, WInv, Walking, Quiet
  PROVE  PictureRight
<1>0. ASSUME \A m \in Mobiles : Exact(m)
      PROVE  PictureRight
  <2> SUFFICES ASSUME NEW m \in Mobiles PROVE InSight(shown[m]) <=> InSight(at[m])
    BY <1>0 DEF PictureRight
  <2>1. \A t \in Tiles : ContainsPos(view, t) => (shown[m] = t <=> at[m] = t)
    BY <1>0 DEF Exact
  <2>2. shown[m] \in Tiles \cup {None} /\ at[m] \in Tiles \cup {None}
    BY Facts DEF Places
  <2> QED BY <2>1, <2>2 DEF InSight
<1> SUFFICES ASSUME NEW m \in Mobiles, NEW t \in Tiles, ContainsPos(view, t)
             PROVE  shown[m] = t <=> at[m] = t
  BY <1>0 DEF Exact
<1>1. watch # None /\ todo = << >>
  BY DEF Quiet, TInv, Phases, Idle
<1>2. watch = view
  <2>1. PICK k : LastAt(todo, watch, view, k)
    BY <1>1 DEF LInv
  <2>2. Len(todo) = 0
    BY <1>1, EmptySeq
  <2> QED BY <2>1, <2>2 DEF LastAt
<1>3. Picture({}).shown = shown
  BY AppliedNone DEF Quiet, Picture, Sight
<1>4. ~ OfOne(m, bus)
  BY InNone DEF Quiet, OfOne
<1>5. t # None /\ shown[m] \in {None, at[m]}
  BY WalkingIs, TilesAssumption DEF NoGhosts
<1>6. at[m] = t => Covered(m)
  BY <1>1, <1>2, <1>5, NoTodo DEF Covered
<1> QED BY <1>3, <1>4, <1>5, <1>6, WalkingIs DEF Known

\* Whenever nothing is under way the client draws the mobiles in view where they
\* are, and no others, in the scenarios Tame names, for any number of mobiles,
\* tiles and events, as long as the session's channel never fills
\* (ObserverRegistry::deliver drops what does not fit).
THEOREM PictureIsRight == Spec /\ []Roomy => []QuietPicture
<1>1. Init => TInv /\ LInv /\ PInv /\ SInv /\ WInv
  BY InitT, InitP, InitS, InitW
<1>2. TInv /\ LInv /\ PInv /\ SInv /\ WInv /\ [Next]_vars /\ Roomy'
        => (TInv /\ LInv /\ PInv /\ SInv /\ WInv)'
  BY NextT, NextL, NextP, NextS, NextW
<1>3. TInv /\ LInv /\ PInv /\ SInv /\ WInv => QuietPicture
  <2> SUFFICES ASSUME TInv, LInv, PInv, SInv, WInv, Tame, Quiet PROVE PictureRight
    BY DEF QuietPicture, QuietPictureAlways
  <2>1. CASE "walk" \in acts
    BY <2>1, WalkingPicture DEF Walking
  <2>2. CASE "walk" \notin acts
    BY <2>2, StandingPicture DEF Standing
  <2> QED BY <2>1, <2>2
<1> QED BY <1>1, <1>2, <1>3, PTL DEF Spec
=============================================================================
