----------------------------- MODULE ItemsProofs -----------------------------
(***************************************************************************)
(* Every item is in one place, both reverse indexes find it, containers    *)
(* stay in the zone of what is in them, and no step makes more of what     *)
(* stacks: for any number of players, zones and items.                     *)
(***************************************************************************)
EXTENDS Items, FiniteSetTheorems, WellFoundedInduction, TLAPS

-----------------------------------------------------------------------------
(* What the operations of the container store do to the reverse index: each *)
(* keeps it exact, or says what its caller has to see to.                    *)

HasStore(st) == {"boxes", "index"} \subseteq DOMAIN st

\* The item j of the container d is as it was.
Same(st, new, d, j) == In(st, d, j) /\ new.boxes[d][j] = st.boxes[d][j]

\* What is not the store stays as it is.
Beside(st, new) == DOMAIN new = DOMAIN st /\ \A f \in DOMAIN st \ {"boxes", "index"} : new[f] = st[f]

SetStore(st, b, x) == [st EXCEPT !.boxes = b, !.index = x]

LEMMA StoreIsSet ==
  ASSUME NEW st, HasStore(st), NEW b, NEW x
  PROVE  LET new == SetStore(st, b, x) IN
         new.boxes = b /\ new.index = x /\ Beside(st, new)
BY DEF HasStore, Beside, SetStore

\* An item that is taken out is found no more, the others are found where they were.
LEMMA RemoveFromExact ==
  ASSUME NEW st, HasStore(st), Exact(st), NEW i \in DOMAIN st.index
  PROVE  LET new == RemoveFrom(st, st.index[i], i) IN
         /\ Exact(new) /\ Beside(st, new)
         /\ DOMAIN new.boxes = DOMAIN st.boxes
         /\ DOMAIN new.index = DOMAIN st.index \ {i}
         /\ \A d \in DOMAIN new.boxes : \A j \in DOMAIN new.boxes[d] : Same(st, new, d, j)
<1> DEFINE c == st.index[i]
           new == RemoveFrom(st, c, i)
           boxes == [d \in DOMAIN st.boxes |-> IF d = c THEN Without(st.boxes[d], {i}) ELSE st.boxes[d]]
<1>1. new.boxes = boxes /\ new.index = Without(st.index, {i}) /\ Beside(st, new)
  <2>1. new = SetStore(st, boxes, Without(st.index, {i}))
    BY Zenon DEF RemoveFrom, SetStore
  <2> HIDE DEF new, boxes
  <2> QED BY <2>1, StoreIsSet
<1>2. /\ DOMAIN new.boxes = DOMAIN st.boxes
      /\ \A d \in DOMAIN st.boxes : DOMAIN new.boxes[d] = IF d = c THEN DOMAIN st.boxes[d] \ {i} ELSE DOMAIN st.boxes[d]
      /\ DOMAIN new.index = DOMAIN st.index \ {i}
      /\ \A j \in DOMAIN st.index \ {i} : new.index[j] = st.index[j]
  BY <1>1 DEF Without
<1>4. \A d \in DOMAIN new.boxes : \A j \in DOMAIN new.boxes[d] : Same(st, new, d, j)
  BY <1>1, <1>2 DEF Without, Same, In
<1> HIDE DEF new
<1>3. Exact(new)
  <2>1. ASSUME NEW j \in DOMAIN new.index PROVE In(new, new.index[j], j)
    BY <1>2 DEF Exact, In
  <2>2. ASSUME NEW d \in DOMAIN new.boxes, NEW j \in DOMAIN new.boxes[d]
        PROVE  j \in DOMAIN new.index /\ new.index[j] = d
    <3>1. d \in DOMAIN st.boxes /\ j \in DOMAIN st.boxes[d] /\ (d = c => j # i)
      BY <1>2
    <3>2. j \in DOMAIN st.index /\ st.index[j] = d
      BY <3>1 DEF Exact
    <3> QED BY <1>2, <3>1, <3>2
  <2> QED BY <2>1, <2>2 DEF Exact
<1> QED BY <1>1, <1>2, <1>3, <1>4 DEF new, c

\* An item that is put into a container is found there, wherever it was before.
LEMMA UpsertExact ==
  ASSUME NEW st, HasStore(st), Exact(st), NEW c, NEW i, NEW it
  PROVE  LET new == Upsert(st, c, i, it) IN
         /\ Exact(new) /\ Beside(st, new)
         /\ DOMAIN new.boxes = DOMAIN st.boxes \cup {c}
         /\ DOMAIN new.index = DOMAIN st.index \cup {i}
         /\ \A d \in DOMAIN new.boxes : \A j \in DOMAIN new.boxes[d] :
              Same(st, new, d, j) \/ (d = c /\ j = i /\ new.boxes[d][j] = it)
<1> DEFINE new == Upsert(st, c, i, it)
           elsewhere == [d \in DOMAIN st.boxes |->
                           IF i \in DOMAIN st.index /\ st.index[i] = d /\ d # c
                             THEN Without(st.boxes[d], {i}) ELSE st.boxes[d]]
<1>1. /\ new.boxes = Put(elsewhere, c, Put(Content(st, c), i, it))
      /\ new.index = Put(st.index, i, c)
      /\ Beside(st, new)
  <2>1. new = SetStore(st, Put(elsewhere, c, Put(Content(st, c), i, it)), Put(st.index, i, c))
    BY Zenon DEF Upsert, SetStore
  <2> HIDE DEF new, elsewhere
  <2> QED BY <2>1, StoreIsSet
<1>2. ASSUME NEW d \in DOMAIN st.boxes
      PROVE  DOMAIN elsewhere[d] = IF d # c THEN DOMAIN st.boxes[d] \ {i} ELSE DOMAIN st.boxes[d]
  <2>1. CASE i \in DOMAIN st.index /\ st.index[i] = d /\ d # c
    BY <2>1 DEF Without
  <2>2. CASE ~ (i \in DOMAIN st.index /\ st.index[i] = d /\ d # c)
    <3>1. d # c => i \notin DOMAIN st.boxes[d]
      BY <2>2 DEF Exact
    <3> QED BY <2>2, <3>1
  <2> QED BY <2>1, <2>2
<1>3. DOMAIN elsewhere = DOMAIN st.boxes
  OBVIOUS
<1>4. DOMAIN Put(Content(st, c), i, it) = DOMAIN Content(st, c) \cup {i}
  BY DEF Put
<1>5. DOMAIN Content(st, c) = IF c \in DOMAIN st.boxes THEN DOMAIN st.boxes[c] ELSE {}
  BY DEF Content, Empty
<1>9. \A d \in DOMAIN st.boxes : \A j \in DOMAIN elsewhere[d] :
         j \in DOMAIN st.boxes[d] /\ elsewhere[d][j] = st.boxes[d][j]
  BY DEF Without
<1> HIDE DEF elsewhere
<1>10. ASSUME NEW d \in DOMAIN new.boxes, NEW j \in DOMAIN new.boxes[d]
       PROVE  Same(st, new, d, j) \/ (d = c /\ j = i /\ new.boxes[d][j] = it)
  <2>1. CASE d = c
    <3>1. new.boxes[d] = Put(Content(st, c), i, it)
      BY <1>1, <2>1 DEF Put
    <3>2. j = i => new.boxes[d][j] = it
      BY <3>1, <1>4 DEF Put
    <3>3. j # i => j \in DOMAIN Content(st, c) /\ new.boxes[d][j] = Content(st, c)[j]
      BY <3>1, <1>4 DEF Put
    <3>4. j # i => c \in DOMAIN st.boxes /\ Content(st, c) = st.boxes[c]
      BY <3>3, <1>5 DEF Content
    <3> QED BY <2>1, <3>2, <3>3, <3>4 DEF Same, In
  <2>2. CASE d # c
    <3>1. d \in DOMAIN st.boxes /\ new.boxes[d] = elsewhere[d]
      BY <1>1, <1>3, <2>2 DEF Put
    <3> QED BY <3>1, <1>9 DEF Same, In
  <2> QED BY <2>1, <2>2
<1>6. /\ DOMAIN new.boxes = DOMAIN st.boxes \cup {c}
      /\ \A d \in DOMAIN st.boxes \ {c} : DOMAIN new.boxes[d] = DOMAIN st.boxes[d] \ {i}
      /\ DOMAIN new.boxes[c] = DOMAIN Content(st, c) \cup {i}
  BY <1>1, <1>2, <1>3, <1>4 DEF Put
<1>7. /\ DOMAIN new.index = DOMAIN st.index \cup {i}
      /\ new.index[i] = c
      /\ \A j \in DOMAIN st.index \ {i} : new.index[j] = st.index[j]
  BY <1>1 DEF Put
<1> HIDE DEF new
<1>8. Exact(new)
  BY <1>5, <1>6, <1>7 DEF Exact, In
<1> QED BY <1>1, <1>6, <1>7, <1>8, <1>10 DEF new

Added(st, c, got, added) == SetStore(st, Put(st.boxes, c, got), Over([i \in added |-> c], st.index))

\* The content of a container is replaced by `got`, of which the index learns the items in `added`:
\* exact if it was but for those, and if they are in no other container of the store.
LEMMA AddExact ==
  ASSUME NEW st, HasStore(st), NEW c, NEW got, NEW added, added \subseteq DOMAIN got,
         \A i \in DOMAIN st.index \ added : In(st, st.index[i], i),
         \A d \in DOMAIN st.boxes \ {c} : \A i \in DOMAIN st.boxes[d] :
            i \notin added /\ i \in DOMAIN st.index /\ st.index[i] = d,
         \A i \in DOMAIN got \ added : i \in DOMAIN st.index /\ st.index[i] = c,
         c \in DOMAIN st.boxes => DOMAIN st.boxes[c] \subseteq DOMAIN got
  PROVE  LET new == Added(st, c, got, added) IN
         /\ Exact(new) /\ Beside(st, new)
         /\ DOMAIN new.boxes = DOMAIN st.boxes \cup {c}
         /\ DOMAIN new.index = DOMAIN st.index \cup added
         /\ \A d \in DOMAIN new.boxes : new.boxes[d] = IF d = c THEN got ELSE st.boxes[d]
<1> DEFINE new == Added(st, c, got, added)
<1>1. /\ new.boxes = Put(st.boxes, c, got)
      /\ new.index = Over([i \in added |-> c], st.index)
      /\ Beside(st, new)
  BY StoreIsSet DEF Added
<1> HIDE DEF new
<1>3. /\ DOMAIN new.boxes = DOMAIN st.boxes \cup {c}
      /\ \A d \in DOMAIN st.boxes \ {c} : new.boxes[d] = st.boxes[d]
      /\ new.boxes[c] = got
  BY <1>1 DEF Put
<1>4. /\ DOMAIN new.index = DOMAIN st.index \cup added
      /\ \A i \in added : new.index[i] = c
      /\ \A i \in DOMAIN st.index \ added : new.index[i] = st.index[i]
  BY <1>1 DEF Over
<1>5. ASSUME NEW i \in DOMAIN new.index PROVE In(new, new.index[i], i)
  BY <1>3, <1>4 DEF In
<1>6. ASSUME NEW d \in DOMAIN new.boxes, NEW i \in DOMAIN new.boxes[d]
      PROVE  i \in DOMAIN new.index /\ new.index[i] = d
  BY <1>3, <1>4
<1>7. Exact(new)
  BY <1>5, <1>6 DEF Exact
<1> QED BY <1>1, <1>3, <1>4, <1>7 DEF new

\* Items that are in no container of the store come into one.
LEMMA UpsertAllExact ==
  ASSUME NEW st, HasStore(st), Exact(st), NEW c, NEW items, DOMAIN items \cap DOMAIN st.index = {}
  PROVE  LET new == UpsertAll(st, c, items) IN
         /\ Exact(new) /\ Beside(st, new)
         /\ DOMAIN new.boxes = DOMAIN st.boxes \cup {c}
         /\ DOMAIN new.index = DOMAIN st.index \cup DOMAIN items
         /\ \A d \in DOMAIN new.boxes : \A j \in DOMAIN new.boxes[d] :
              Same(st, new, d, j) \/ (d = c /\ j \in DOMAIN items /\ new.boxes[d][j] = items[j])
<1> DEFINE got == Over(items, Content(st, c))
<1>1. UpsertAll(st, c, items) = Added(st, c, got, DOMAIN items)
  BY Zenon DEF UpsertAll, Added, SetStore
<1>2. DOMAIN Content(st, c) = IF c \in DOMAIN st.boxes THEN DOMAIN st.boxes[c] ELSE {}
  BY DEF Content, Empty
<1>3. DOMAIN got = DOMAIN items \cup DOMAIN Content(st, c)
  BY DEF Over
<1>5. \A j \in DOMAIN got : got[j] = IF j \in DOMAIN items THEN items[j] ELSE Content(st, c)[j]
  BY <1>3 DEF Over
<1> HIDE DEF got
<1>4. /\ \A i \in DOMAIN st.index \ DOMAIN items : In(st, st.index[i], i)
      /\ \A d \in DOMAIN st.boxes \ {c} : \A i \in DOMAIN st.boxes[d] :
            i \notin DOMAIN items /\ i \in DOMAIN st.index /\ st.index[i] = d
      /\ \A i \in DOMAIN got \ DOMAIN items : i \in DOMAIN st.index /\ st.index[i] = c
      /\ c \in DOMAIN st.boxes => DOMAIN st.boxes[c] \subseteq DOMAIN got
      /\ DOMAIN items \subseteq DOMAIN got
  BY <1>2, <1>3 DEF Exact
<1> DEFINE new == UpsertAll(st, c, items)
<1>6. /\ Exact(new) /\ Beside(st, new)
      /\ DOMAIN new.boxes = DOMAIN st.boxes \cup {c}
      /\ DOMAIN new.index = DOMAIN st.index \cup DOMAIN items
      /\ \A d \in DOMAIN new.boxes : new.boxes[d] = IF d = c THEN got ELSE st.boxes[d]
  BY <1>1, <1>4, AddExact
<1> HIDE DEF new
<1>7. ASSUME NEW d \in DOMAIN new.boxes, NEW j \in DOMAIN new.boxes[d]
      PROVE  Same(st, new, d, j) \/ (d = c /\ j \in DOMAIN items /\ new.boxes[d][j] = items[j])
  <2>1. CASE d # c
    BY <2>1, <1>6 DEF Same, In
  <2>2. CASE d = c /\ j \in DOMAIN items
    BY <2>2, <1>5, <1>6
  <2>3. CASE d = c /\ j \notin DOMAIN items
    <3>1. j \in DOMAIN Content(st, c) /\ new.boxes[d][j] = Content(st, c)[j]
      BY <2>3, <1>3, <1>5, <1>6
    <3> QED BY <3>1, <2>3, <1>2 DEF Same, In, Content
  <2> QED BY <2>1, <2>2, <2>3
<1> QED BY <1>6, <1>7 DEF new

\* A container goes with what is in it.
LEMMA RemoveEntryExact ==
  ASSUME NEW st, HasStore(st), Exact(st), NEW c
  PROVE  LET new == RemoveEntry(st, c) IN
         /\ Exact(new) /\ Beside(st, new)
         /\ DOMAIN new.boxes = DOMAIN st.boxes \ {c}
         /\ DOMAIN new.index = DOMAIN st.index \ DOMAIN Content(st, c)
         /\ \A d \in DOMAIN new.boxes : new.boxes[d] = st.boxes[d]
<1> DEFINE new == RemoveEntry(st, c)
<1>1. /\ new.boxes = Without(st.boxes, {c})
      /\ new.index = Without(st.index, DOMAIN Content(st, c))
      /\ Beside(st, new)
  <2>1. new = SetStore(st, Without(st.boxes, {c}), Without(st.index, DOMAIN Content(st, c)))
    BY Zenon DEF RemoveEntry, SetStore
  <2> HIDE DEF new
  <2> QED BY <2>1, StoreIsSet
<1> HIDE DEF new
<1>2. DOMAIN Content(st, c) = IF c \in DOMAIN st.boxes THEN DOMAIN st.boxes[c] ELSE {}
  BY DEF Content, Empty
<1>3. /\ DOMAIN new.boxes = DOMAIN st.boxes \ {c}
      /\ \A d \in DOMAIN st.boxes \ {c} : new.boxes[d] = st.boxes[d]
      /\ DOMAIN new.index = DOMAIN st.index \ DOMAIN Content(st, c)
      /\ \A i \in DOMAIN st.index \ DOMAIN Content(st, c) : new.index[i] = st.index[i]
  BY <1>1 DEF Without
<1>4. ASSUME NEW i \in DOMAIN new.index PROVE In(new, new.index[i], i)
  BY <1>2, <1>3 DEF In, Exact
<1>5. ASSUME NEW d \in DOMAIN new.boxes, NEW i \in DOMAIN new.boxes[d]
      PROVE  i \in DOMAIN new.index /\ new.index[i] = d
  BY <1>2, <1>3 DEF Exact
<1>6. Exact(new)
  BY <1>4, <1>5 DEF Exact
<1> QED BY <1>1, <1>3, <1>6 DEF new

\* An item that is changed where it is stays where it is.
LEMMA SetItemExact ==
  ASSUME NEW st, HasStore(st), Exact(st), NEW c, NEW i, In(st, c, i), NEW it
  PROVE  LET new == SetItem(st, c, i, it) IN
         /\ Exact(new) /\ Beside(st, new)
         /\ DOMAIN new.boxes = DOMAIN st.boxes
         /\ new.index = st.index
         /\ \A d \in DOMAIN new.boxes : \A j \in DOMAIN new.boxes[d] :
              Same(st, new, d, j) \/ (d = c /\ j = i /\ new.boxes[d][j] = it)
<1> DEFINE new == SetItem(st, c, i, it)
<1>1. /\ DOMAIN new = DOMAIN st
      /\ DOMAIN new.boxes = DOMAIN st.boxes
      /\ \A d \in DOMAIN st.boxes : DOMAIN new.boxes[d] = DOMAIN st.boxes[d]
      /\ \A f \in DOMAIN st \ {"boxes"} : new[f] = st[f]
  BY DEF SetItem, HasStore
<1>4. \A d \in DOMAIN new.boxes : \A j \in DOMAIN new.boxes[d] :
         Same(st, new, d, j) \/ (d = c /\ j = i /\ new.boxes[d][j] = it)
  BY DEF SetItem, HasStore, Same, In
<1>2. new.index = st.index
  BY <1>1 DEF HasStore
<1> HIDE DEF new
<1>3. Exact(new)
  BY <1>1, <1>2 DEF Exact, In
<1> QED BY <1>1, <1>2, <1>3, <1>4 DEF Beside, new

\* Death: of the items in the container b some are kept, the others go, with what was worn, to the new
\* container cs.  The index is wrong in between.
LEMMA LootExact ==
  ASSUME NEW st, HasStore(st), Exact(st), NEW b, NEW cs, cs \notin DOMAIN st.boxes,
         NEW kept, DOMAIN kept \subseteq DOMAIN Content(st, b),
         NEW loot, DOMAIN loot \cap DOMAIN st.index = DOMAIN Content(st, b) \ DOMAIN kept
  PROVE  LET new == Insert(Rewrite(st, b, kept), cs, loot) IN
         /\ Exact(new) /\ Beside(st, new)
         /\ DOMAIN new.boxes = DOMAIN st.boxes \cup {cs}
         /\ DOMAIN new.index = DOMAIN st.index \cup DOMAIN loot
         /\ \A d \in DOMAIN new.boxes : new.boxes[d] = IF d = cs THEN loot ELSE IF d = b THEN kept ELSE st.boxes[d]
<1> DEFINE mid == Rewrite(st, b, kept)
           boxes == IF b \in DOMAIN st.boxes THEN Put(st.boxes, b, kept) ELSE st.boxes
<1>1. mid.boxes = boxes /\ mid.index = st.index /\ Beside(st, mid)
  BY DEF Rewrite, HasStore, Beside
<1>2. DOMAIN Content(st, b) = IF b \in DOMAIN st.boxes THEN DOMAIN st.boxes[b] ELSE {}
  BY DEF Content, Empty
<1>3. /\ DOMAIN mid.boxes = DOMAIN st.boxes
      /\ \A d \in DOMAIN st.boxes \ {b} : mid.boxes[d] = st.boxes[d]
      /\ b \in DOMAIN st.boxes => mid.boxes[b] = kept
  BY <1>1 DEF Put
<1>4. HasStore(mid)
  BY <1>1 DEF HasStore, Beside
<1> HIDE DEF mid
<1>5. Insert(mid, cs, loot) = Added(mid, cs, loot, DOMAIN loot)
  BY Zenon DEF Insert, Added, SetStore
<1>6. ASSUME NEW i \in DOMAIN mid.index \ DOMAIN loot PROVE In(mid, mid.index[i], i)
  <2>1. In(st, st.index[i], i)
    BY <1>1 DEF Exact
  <2>2. CASE st.index[i] = b
    <3>1. i \in DOMAIN Content(st, b)
      BY <1>2, <2>1, <2>2 DEF In
    <3>2. i \in DOMAIN kept
      BY <1>1, <3>1
    <3> QED BY <1>1, <1>3, <2>1, <2>2, <3>2 DEF In
  <2>3. CASE st.index[i] # b
    BY <1>1, <1>3, <2>1, <2>3 DEF In
  <2> QED BY <2>2, <2>3
<1>7. ASSUME NEW d \in DOMAIN mid.boxes \ {cs}, NEW i \in DOMAIN mid.boxes[d]
      PROVE  i \notin DOMAIN loot /\ i \in DOMAIN mid.index /\ mid.index[i] = d
  <2>1. d \in DOMAIN st.boxes /\ i \in DOMAIN st.boxes[d]
    BY <1>2, <1>3
  <2>2. i \in DOMAIN st.index /\ st.index[i] = d
    BY <2>1 DEF Exact
  <2>3. CASE d = b
    BY <1>1, <1>3, <2>1, <2>2, <2>3
  <2>4. CASE d # b
    <3>1. i \notin DOMAIN Content(st, b)
      BY <1>2, <2>2, <2>4 DEF Exact
    <3> QED BY <1>1, <2>2, <3>1
  <2> QED BY <2>3, <2>4
<1>8. /\ Exact(Insert(mid, cs, loot)) /\ Beside(mid, Insert(mid, cs, loot))
      /\ DOMAIN Insert(mid, cs, loot).boxes = DOMAIN mid.boxes \cup {cs}
      /\ DOMAIN Insert(mid, cs, loot).index = DOMAIN mid.index \cup DOMAIN loot
      /\ \A d \in DOMAIN Insert(mid, cs, loot).boxes :
            Insert(mid, cs, loot).boxes[d] = IF d = cs THEN loot ELSE mid.boxes[d]
  <2>1. cs \notin DOMAIN mid.boxes
    BY <1>3
  <2> QED BY <1>4, <1>5, <1>6, <1>7, <2>1, AddExact
<1>9. Beside(st, Insert(mid, cs, loot))
  BY <1>1, <1>8 DEF Beside
<1> QED BY <1>1, <1>3, <1>8, <1>9 DEF mid

-----------------------------------------------------------------------------
(* One zone *)

ZoneOK(zs) ==
  /\ DOMAIN zs = {"ground", "boxes", "index"} /\ Exact(zs)
  /\ PartOf(zs.ground, Serials, Item) /\ DOMAIN zs.boxes \subseteq Serials
  /\ \A c \in DOMAIN zs.boxes : PartOf(zs.boxes[c], Serials, Item)

\* The zone becomes `after`, with the ground G and the indexed items X; its containers are as before.
Becomes(zs, after, G, X) ==
  /\ ZoneOK(after) /\ DOMAIN after.boxes = DOMAIN zs.boxes
  /\ DOMAIN after.ground = G /\ DOMAIN after.index = X

\* The next serial is one of those that are left.
LEMMA NextIsOne ==
  ASSUME NEW S, S \subseteq Nat, S # {}
  PROVE  Next1(S) \in S
<1>1. PICK n \in S : \A m \in S : <<m, n>> \notin OpToRel(<, Nat)
  BY NatLessThanWellFounded, WFMin
<1>2. \A m \in S : ~ (m < n)
  BY <1>1, Zenon DEF OpToRel
<1>3. \A m \in S : n <= m
  BY <1>2
<1> QED BY <1>3 DEF Next1

LEMMA IndexedIsSerial ==
  ASSUME NEW zs, ZoneOK(zs), NEW i \in DOMAIN zs.index
  PROVE  /\ In(zs, zs.index[i], i) /\ i \in Serials /\ zs.index[i] \in Serials
         /\ zs.boxes[zs.index[i]][i] \in Item
BY DEF ZoneOK, Exact, In, PartOf

LEMMA StoreOfZone ==
  ASSUME NEW zs, ZoneOK(zs), NEW new, Beside(zs, new), Exact(new), DOMAIN new.boxes \subseteq Serials,
         \A d \in DOMAIN new.boxes : PartOf(new.boxes[d], Serials, Item)
  PROVE  ZoneOK(new) /\ new.ground = zs.ground
BY DEF ZoneOK, Beside

LEMMA TakeOut ==
  ASSUME NEW zs, ZoneOK(zs), NEW i \in DOMAIN zs.index
  PROVE  Becomes(zs, RemoveFrom(zs, zs.index[i], i), DOMAIN zs.ground, DOMAIN zs.index \ {i})
<1> DEFINE new == RemoveFrom(zs, zs.index[i], i)
<1>1. HasStore(zs) /\ Exact(zs)
  BY DEF ZoneOK, HasStore
<1>2. /\ Exact(new) /\ Beside(zs, new)
      /\ DOMAIN new.boxes = DOMAIN zs.boxes
      /\ DOMAIN new.index = DOMAIN zs.index \ {i}
      /\ \A d \in DOMAIN new.boxes : \A j \in DOMAIN new.boxes[d] : Same(zs, new, d, j)
  BY <1>1, RemoveFromExact
<1> HIDE DEF new
<1>3. \A d \in DOMAIN new.boxes : PartOf(new.boxes[d], Serials, Item)
  BY <1>2 DEF Same, In, PartOf, ZoneOK
<1>4. DOMAIN new.boxes \subseteq Serials
  BY <1>2 DEF ZoneOK
<1> QED BY <1>2, <1>3, <1>4, StoreOfZone DEF Becomes, new

LEMMA PutIn ==
  ASSUME NEW zs, ZoneOK(zs), NEW c \in DOMAIN zs.boxes, NEW i \in Serials, NEW it \in Item
  PROVE  Becomes(zs, Upsert(zs, c, i, it), DOMAIN zs.ground, DOMAIN zs.index \cup {i})
<1> DEFINE new == Upsert(zs, c, i, it)
<1>1. HasStore(zs) /\ Exact(zs)
  BY DEF ZoneOK, HasStore
<1>2. /\ Exact(new) /\ Beside(zs, new)
      /\ DOMAIN new.boxes = DOMAIN zs.boxes \cup {c}
      /\ DOMAIN new.index = DOMAIN zs.index \cup {i}
      /\ \A d \in DOMAIN new.boxes : \A j \in DOMAIN new.boxes[d] :
           Same(zs, new, d, j) \/ (d = c /\ j = i /\ new.boxes[d][j] = it)
  BY <1>1, UpsertExact
<1> HIDE DEF new
<1>3. \A d \in DOMAIN new.boxes : PartOf(new.boxes[d], Serials, Item)
  BY <1>2 DEF Same, In, PartOf, ZoneOK
<1>4. DOMAIN new.boxes = DOMAIN zs.boxes /\ DOMAIN new.boxes \subseteq Serials
  BY <1>2 DEF ZoneOK
<1> QED BY <1>2, <1>3, <1>4, StoreOfZone DEF Becomes, new

LEMMA Change ==
  ASSUME NEW zs, ZoneOK(zs), NEW c, NEW i, In(zs, c, i), NEW it \in Item
  PROVE  Becomes(zs, SetItem(zs, c, i, it), DOMAIN zs.ground, DOMAIN zs.index)
<1> DEFINE new == SetItem(zs, c, i, it)
<1>1. HasStore(zs) /\ Exact(zs)
  BY DEF ZoneOK, HasStore
<1>2. /\ Exact(new) /\ Beside(zs, new)
      /\ DOMAIN new.boxes = DOMAIN zs.boxes
      /\ new.index = zs.index
      /\ \A d \in DOMAIN new.boxes : \A j \in DOMAIN new.boxes[d] :
           Same(zs, new, d, j) \/ (d = c /\ j = i /\ new.boxes[d][j] = it)
  BY <1>1, SetItemExact
<1> HIDE DEF new
<1>3. \A d \in DOMAIN new.boxes : PartOf(new.boxes[d], Serials, Item)
  BY <1>2 DEF Same, In, PartOf, ZoneOK
<1>4. DOMAIN new.boxes \subseteq Serials
  BY <1>2 DEF ZoneOK
<1> QED BY <1>2, <1>3, <1>4, StoreOfZone DEF Becomes, new

LEMMA Relay ==
  ASSUME NEW zs, ZoneOK(zs), NEW g, PartOf(g, Serials, Item)
  PROVE  Becomes(zs, [zs EXCEPT !.ground = g], DOMAIN g, DOMAIN zs.index)
<1> DEFINE new == [zs EXCEPT !.ground = g]
<1>1. /\ DOMAIN new = {"ground", "boxes", "index"}
      /\ new.ground = g /\ new.boxes = zs.boxes /\ new.index = zs.index
  BY DEF ZoneOK
<1> HIDE DEF new
<1>2. Exact(new)
  BY <1>1 DEF ZoneOK, Exact, In
<1> QED BY <1>1, <1>2 DEF ZoneOK, Becomes, new

LEMMA MoreIsItem ==
  ASSUME NEW it \in Item, NEW h \in Held
  PROVE  More(it, h) \in Item
BY ItemsAssumption DEF More, Item, Held, Least

LEMMA BareIsItem ==
  ASSUME NEW h \in Held
  PROVE  Bare(h) \in Item
BY DEF Bare, Item, Held

LEMMA RestIsItem ==
  ASSUME NEW it \in Item, NEW n \in 1 .. MaxAmount, ~ (n >= it.amount)
  PROVE  Rest(it, n) \in Item
BY ItemsAssumption DEF Rest, Item

LEMMA IntoBecomes ==
  ASSUME NEW zs, ZoneOK(zs), NEW h \in Held, NEW c \in DOMAIN zs.boxes, NEW auto,
         NEW after \in Into(zs, h, c, auto)
  PROVE  \/ Becomes(zs, after, DOMAIN zs.ground, DOMAIN zs.index)
         \/ Becomes(zs, after, DOMAIN zs.ground, DOMAIN zs.index \cup {h.serial})
<1> DEFINE stacks == {j \in DOMAIN Content(zs, c) : auto /\ Alike(zs.boxes[c][j], h)}
<1>1. h.serial \in Serials
  BY DEF Held
<1>2. CASE stacks = {}
  <2>1. after = Upsert(zs, c, h.serial, Bare(h))
    BY <1>2 DEF Into
  <2> QED BY <1>1, <2>1, PutIn, BareIsItem, Zenon
<1>3. CASE stacks # {}
  <2>1. PICK j \in stacks : after = SetItem(zs, c, j, More(zs.boxes[c][j], h))
    BY <1>3 DEF Into
  <2>2. In(zs, c, j) /\ zs.boxes[c][j] \in Item
    BY DEF Content, In, ZoneOK, PartOf
  <2> QED BY <2>1, <2>2, Change, MoreIsItem, Zenon
<1> QED BY <1>2, <1>3

LEMMA OntoBecomes ==
  ASSUME NEW zs, ZoneOK(zs), NEW h \in Held, NEW t, NEW auto, NEW after \in Onto(zs, h, t, auto)
  PROVE  \/ Becomes(zs, after, DOMAIN zs.ground, DOMAIN zs.index)
         \/ Becomes(zs, after, DOMAIN zs.ground, DOMAIN zs.index \cup {h.serial})
<1>1. CASE t \in DOMAIN zs.boxes
  <2>1. after \in Into(zs, h, t, auto)
    BY <1>1 DEF Onto
  <2> QED BY <1>1, <2>1, IntoBecomes
<1>2. CASE t \notin DOMAIN zs.boxes /\ t \in DOMAIN zs.ground
  <2> DEFINE g == [zs.ground EXCEPT ![t] = More(@, h)]
  <2>1. after = [zs EXCEPT !.ground[t] = More(@, h)]
    BY <1>2 DEF Onto
  <2>2. after = [zs EXCEPT !.ground = g]
    BY <2>1
  <2>3. zs.ground[t] \in Item
    BY <1>2 DEF ZoneOK, PartOf
  <2>4. More(zs.ground[t], h) \in Item
    BY <2>3, MoreIsItem
  <2>5. PartOf(g, Serials, Item) /\ DOMAIN g = DOMAIN zs.ground
    BY <1>2, <2>4 DEF ZoneOK, PartOf
  <2> HIDE DEF g
  <2> QED BY <2>2, <2>5, Relay
<1>3. CASE t \notin DOMAIN zs.boxes \cup DOMAIN zs.ground /\ t \in DOMAIN zs.index
  <2> DEFINE c == zs.index[t]
  <2>1. In(zs, c, t) /\ zs.boxes[c][t] \in Item /\ c \in DOMAIN zs.boxes
    BY <1>3, IndexedIsSerial DEF In
  <2>2. CASE Alike(zs.boxes[c][t], h)
    <3>1. after = SetItem(zs, c, t, More(zs.boxes[c][t], h))
      BY <1>3, <2>2 DEF Onto
    <3> QED BY <2>1, <3>1, Change, MoreIsItem, Zenon
  <2>3. CASE ~ Alike(zs.boxes[c][t], h)
    <3>1. after \in Into(zs, h, c, auto)
      BY <1>3, <2>3 DEF Onto
    <3> QED BY <2>1, <3>1, IntoBecomes
  <2> QED BY <2>2, <2>3
<1>4. CASE t \notin DOMAIN zs.boxes \cup DOMAIN zs.ground \cup DOMAIN zs.index
  BY <1>4 DEF Onto
<1> QED BY <1>1, <1>2, <1>3, <1>4

-----------------------------------------------------------------------------
(* Where everything is *)

Ways  == {"ground", "box", "worn", "cursor", "back"}
Sites == Zones \cup Players

\* The item i is at x in the way k.
At(i, k, x) ==
  \/ k = "ground" /\ x \in Zones /\ i \in Ground(x)
  \/ k = "box" /\ x \in Zones /\ i \in DOMAIN zone[x].index
  \/ k = "worn" /\ x \in Players /\ i \in DOMAIN worn[x]
  \/ k = "cursor" /\ x \in Players /\ Holds(x, i)
  \/ k = "back" /\ x \in Players /\ Returns(x, i)

\* The zone of a site.
Here(k, x) == IF k \in {"ground", "box"} THEN x ELSE place[x]

Stores == DOMAIN zone = Zones /\ \A z \in Zones : ZoneOK(zone[z])

Folk ==
  /\ scene \in Scenarios /\ lifts \in 0 .. scene.lifts
  /\ DOMAIN worn = Players /\ \A p \in Players : PartOf(worn[p], Serials, Worn)
  /\ place \in [Players -> Zones] /\ dead \in [Players -> BOOLEAN]
  /\ fresh \subseteq Serials /\ spent \subseteq Serials \ fresh
  /\ held \in [Players -> Held \cup {None}]
  /\ back \in [Players -> Back \cup {None}]

Corpses ==
  /\ DOMAIN corpse \subseteq Serials
  /\ \A cs \in DOMAIN corpse : /\ corpse[cs].owner \in Players /\ corpse[cs].zone \in Zones
                               /\ PartOf(corpse[cs].layers, Serials, Worn)

Sessions ==
  /\ online \in [Players -> BOOLEAN] /\ told \in [Players -> BOOLEAN]
  /\ news \in [Players -> BOOLEAN \cup {None}]

\* equipment_index is exact.
Wearers ==
  /\ PartOf(wearer, Serials, Players)
  /\ \A i \in DOMAIN wearer : i \in DOMAIN worn[wearer[i]]
  /\ \A p \in Players : \A i \in DOMAIN worn[p] : i \in DOMAIN wearer /\ wearer[i] = p

Single ==
  \A i \in Serials : \A k, l \in Ways : \A x, y \in Sites :
    At(i, k, x) /\ At(i, l, y) => k = l /\ x = y

Nowhere ==
  \A i \in fresh \cup spent : \A k \in Ways, x \in Sites : ~ At(i, k, x)

\* Every other item is somewhere, but for those a hang-up lost.
Kept ==
  \A i \in Serials \ (fresh \cup spent) :
    "hangup" \in scene.acts \/ \E k \in Ways, x \in Sites : At(i, k, x)

\* A container is in one zone, and so is the item it is.
RecordsHere ==
  \A z \in Zones : \A c \in Records(z) :
    /\ c \notin fresh
    /\ \A y \in Zones : c \in Records(y) => y = z
    /\ \A k \in Ways, x \in Sites : At(c, k, x) => Here(k, x) = z

IInv == /\ Stores /\ Folk /\ Corpses /\ Sessions /\ Wearers
        /\ Single /\ Nowhere /\ Kept /\ RecordsHere

-----------------------------------------------------------------------------
(* Steps that change one zone, and move a few items *)

\* The zone z has the items G on the ground and X in the index, as its containers and the other zones are.
ZoneGets(z, G, X) ==
  /\ Stores'
  /\ \A y \in Zones : /\ Records(y)' = Records(y)
                      /\ Ground(y)' = IF y = z THEN G ELSE Ground(y)
                      /\ DOMAIN zone'[y].index = IF y = z THEN X ELSE DOMAIN zone[y].index

LEMMA ZoneAct ==
  ASSUME Stores, NEW z \in Zones, NEW after, zone' = [zone EXCEPT ![z] = after],
         NEW G, NEW X, Becomes(zone[z], after, G, X)
  PROVE  ZoneGets(z, G, X)
<1>1. DOMAIN zone' = Zones /\ \A y \in Zones : zone'[y] = IF y = z THEN after ELSE zone[y]
  BY DEF Stores
<1> QED BY <1>1 DEF Becomes, ZoneGets, Stores, Records, Ground

LEMMA ZoneStays ==
  ASSUME Stores, UNCHANGED zone
  PROVE  Stores' /\ \A y \in Zones : Records(y)' = Records(y)
BY DEF Stores, Records

\* Only the items in S have moved; each is at one site, in the zone of what is in it, or is no more.
Moves(S) ==
  /\ UNCHANGED <<scene, place>> /\ \A z \in Zones : Records(z)' = Records(z)
  /\ fresh' \subseteq fresh
  /\ \A i \in Serials \ S :
       /\ i \in fresh \cup spent <=> i \in fresh' \cup spent'
       /\ \A k \in Ways, x \in Sites : At(i, k, x)' => At(i, k, x)
       /\ \A k \in Ways, x \in Sites : At(i, k, x) => At(i, k, x)'
  /\ \A i \in S :
       \/ /\ i \in fresh' \cup spent' \/ "hangup" \in scene.acts
          /\ \A k \in Ways, x \in Sites : ~ At(i, k, x)'
       \/ /\ i \notin fresh' \cup spent'
          /\ \E k \in Ways, x \in Sites :
               /\ At(i, k, x)' /\ \A l \in Ways, y \in Sites : At(i, l, y)' => l = k /\ y = x
               /\ \A z \in Zones : i \in Records(z) => Here(k, x) = z

\* The same without what concerns containers.
Shifts(S) ==
  /\ UNCHANGED scene /\ fresh' \subseteq fresh
  /\ \A i \in Serials \ S :
       /\ i \in fresh \cup spent <=> i \in fresh' \cup spent'
       /\ \A k \in Ways, x \in Sites : At(i, k, x)' <=> At(i, k, x)
  /\ \A i \in S :
       \/ /\ i \in fresh' \cup spent' \/ "hangup" \in scene.acts
          /\ \A k \in Ways, x \in Sites : ~ At(i, k, x)'
       \/ /\ i \notin fresh' \cup spent'
          /\ \E k \in Ways, x \in Sites :
               At(i, k, x)' /\ \A l \in Ways, y \in Sites : At(i, l, y)' => l = k /\ y = x

LEMMA Shifted ==
  ASSUME IInv, NEW S \in SUBSET Serials, Shifts(S), (fresh \cup spent)' \subseteq Serials
  PROVE  Single' /\ Nowhere' /\ Kept'
<1>1. Single'
  <2> SUFFICES ASSUME NEW i \in Serials, NEW k \in Ways, NEW l \in Ways, NEW x \in Sites, NEW y \in Sites,
                      At(i, k, x)', At(i, l, y)'
               PROVE  k = l /\ x = y
    BY Zenon DEF Single
  <2>1. CASE i \in S
    BY <2>1 DEF Shifts
  <2>2. CASE i \notin S
    BY <2>2 DEF Shifts, IInv, Single
  <2> QED BY <2>1, <2>2
<1>2. Nowhere'
  <2> SUFFICES ASSUME NEW i \in (fresh \cup spent)', NEW k \in Ways, NEW x \in Sites, At(i, k, x)'
               PROVE  FALSE
    BY Zenon DEF Nowhere
  <2>1. CASE i \in S
    BY <2>1 DEF Shifts
  <2>2. CASE i \notin S
    BY <2>2 DEF Shifts, IInv, Nowhere
  <2> QED BY <2>1, <2>2
<1>3. Kept'
  <2> SUFFICES ASSUME NEW i \in Serials \ (fresh \cup spent)', "hangup" \notin scene.acts
               PROVE  \E k \in Ways, x \in Sites : At(i, k, x)'
    BY Zenon DEF Kept, Shifts
  <2>1. CASE i \in S
    BY <2>1 DEF Shifts
  <2>2. CASE i \notin S
    BY <2>2 DEF Shifts, IInv, Kept
  <2> QED BY <2>1, <2>2
<1> QED BY <1>1, <1>2, <1>3

LEMMA Moved ==
  ASSUME IInv, NEW S \in SUBSET Serials, Moves(S), (fresh \cup spent)' \subseteq Serials, Stores'
  PROVE  Single' /\ Nowhere' /\ Kept' /\ RecordsHere'
<1>1. Shifts(S)
  BY DEF Moves, Shifts
<1>4. RecordsHere'
  <2> SUFFICES ASSUME NEW z \in Zones, NEW c \in Records(z)'
               PROVE  /\ c \notin fresh'
                      /\ \A y \in Zones : c \in Records(y)' => y = z
                      /\ \A k \in Ways, x \in Sites : At(c, k, x)' => Here(k, x)' = z
    BY Zenon DEF RecordsHere
  <2>1. c \in Records(z) /\ c \in Serials
    BY DEF Moves, IInv, Stores, ZoneOK, Records
  <2>2. c \notin fresh' /\ \A y \in Zones : c \in Records(y)' => y = z
    BY <2>1 DEF Moves, IInv, RecordsHere
  <2>3. ASSUME NEW k \in Ways, NEW x \in Sites, At(c, k, x)' PROVE Here(k, x)' = z
    <3>1. Here(k, x)' = Here(k, x)
      BY DEF Moves, Here
    <3>2. CASE c \in S
      BY <2>1, <2>3, <3>1, <3>2 DEF Moves
    <3>3. CASE c \notin S
      BY <2>1, <2>3, <3>1, <3>3 DEF Moves, IInv, RecordsHere
    <3> QED BY <3>2, <3>3
  <2> QED BY <2>2, <2>3
<1> QED BY <1>1, <1>4, Shifted

LEMMA HeldAct ==
  ASSUME Folk, NEW p \in Players, NEW h \in Held \cup {None}, held' = [held EXCEPT ![p] = h]
  PROVE  /\ held' \in [Players -> Held \cup {None}]
         /\ \A q \in Players : \A i : Holds(q, i)' <=> IF q = p THEN h # None /\ h.serial = i ELSE Holds(q, i)
BY DEF Folk, Holds

LEMMA BackAct ==
  ASSUME Folk, NEW p \in Players, NEW b \in Back \cup {None}, back' = [back EXCEPT ![p] = b]
  PROVE  /\ back' \in [Players -> Back \cup {None}]
         /\ \A q \in Players : \A i :
              Returns(q, i)' <=> IF q = p THEN b # None /\ b.item.serial = i ELSE Returns(q, i)
BY DEF Folk, Returns, Busy

LEMMA SitesStay ==
  ASSUME TRUE
  PROVE  /\ UNCHANGED held => \A q \in Players : \A i : Holds(q, i)' <=> Holds(q, i)
         /\ UNCHANGED back => \A q \in Players : \A i : Returns(q, i)' <=> Returns(q, i)
BY DEF Holds, Returns, Busy

\* A new serial is the next of those that are left.
LEMMA FreshIsNew ==
  ASSUME IInv, fresh # {}
  PROVE  /\ Next1(fresh) \in fresh /\ Next1(fresh) \in Serials
         /\ \A k \in Ways, x \in Sites : ~ At(Next1(fresh), k, x)
         /\ \A z \in Zones : Next1(fresh) \notin Records(z)
BY NextIsOne, ItemsAssumption DEF IInv, Folk, Nowhere, RecordsHere

LEMMA SessionsStay ==
  ASSUME Sessions, UNCHANGED session
  PROVE  Sessions'
BY DEF Sessions, session

LEMMA Calm ==
  ASSUME IInv, UNCHANGED <<scene, gear, body>>, Sessions', lifts' \in 0 .. scene.lifts,
         held' \in [Players -> Held \cup {None}], back' \in [Players -> Back \cup {None}],
         fresh' \subseteq Serials, spent' \subseteq Serials \ fresh',
         Stores', NEW S \in SUBSET Serials, Moves(S)
  PROVE  IInv'
<1>1. Folk' /\ Corpses' /\ Wearers'
  BY DEF IInv, gear, body, Folk, Corpses, Wearers
<1>2. Single' /\ Nowhere' /\ Kept' /\ RecordsHere'
  BY Moved
<1> QED BY <1>1, <1>2 DEF IInv

\* The item i comes to x in the way k, and the item j to y in the way l; all others stay.
Goes(i, k, x, j, l, y) ==
  \A o \in Serials, m \in Ways, w \in Sites :
    At(o, m, w)' <=> IF o = i THEN m = k /\ w = x ELSE IF o = j THEN m = l /\ w = y ELSE At(o, m, w)

\* The item i is nowhere any more.
Vanishes(i) == \A o \in Serials, m \in Ways, w \in Sites : At(o, m, w)' <=> o # i /\ At(o, m, w)

LEMMA GoesMoves ==
  ASSUME IInv, UNCHANGED <<scene, place, spent>>, \A z \in Zones : Records(z)' = Records(z),
         NEW i \in Serials, NEW k \in Ways, NEW x \in Sites, NEW j \in Serials, NEW l \in Ways, NEW y \in Sites,
         Goes(i, k, x, j, l, y),
         NEW k0 \in Ways, NEW x0 \in Sites, At(i, k0, x0), Here(k0, x0) = Here(k, x),
         NEW l0 \in Ways, NEW y0 \in Sites,
         \/ UNCHANGED fresh /\ At(j, l0, y0) /\ Here(l0, y0) = Here(l, y)
         \/ fresh # {} /\ j = Next1(fresh) /\ fresh' = fresh \ {j}
  PROVE  Moves({i, j})
<1>1. i \notin fresh \cup spent /\ \A z \in Zones : i \in Records(z) => Here(k, x) = z
  BY DEF IInv, Nowhere, RecordsHere
<1>2. /\ fresh' \subseteq fresh /\ j \notin fresh' \cup spent'
      /\ \A z \in Zones : j \in Records(z) => Here(l, y) = z
      /\ fresh' \cup {j} = fresh \cup {j}
  <2>1. fresh # {} => Next1(fresh) \in fresh
    BY NextIsOne, ItemsAssumption DEF IInv, Folk
  <2> QED BY <2>1 DEF IInv, Nowhere, Folk, RecordsHere
<1>3. \A o \in Serials \ {i, j} :
        /\ o \in fresh \cup spent <=> o \in fresh' \cup spent'
        /\ \A m \in Ways, w \in Sites : At(o, m, w)' => At(o, m, w)
        /\ \A m \in Ways, w \in Sites : At(o, m, w) => At(o, m, w)'
  BY <1>2 DEF Goes
<1>4. ASSUME NEW o \in {i, j}
      PROVE  /\ o \notin fresh' \cup spent'
             /\ \E m \in Ways, w \in Sites :
                  /\ At(o, m, w)' /\ \A n \in Ways, v \in Sites : At(o, n, v)' => n = m /\ v = w
                  /\ \A z \in Zones : o \in Records(z) => Here(m, w) = z
  BY <1>1, <1>2 DEF Goes
<1> QED BY <1>2, <1>3, <1>4 DEF Moves

LEMMA OneMoves ==
  ASSUME IInv, UNCHANGED <<scene, place, fresh, spent>>, \A z \in Zones : Records(z)' = Records(z),
         NEW i \in Serials, NEW k \in Ways, NEW x \in Sites, Goes(i, k, x, i, k, x),
         NEW k0 \in Ways, NEW x0 \in Sites, At(i, k0, x0), Here(k0, x0) = Here(k, x)
  PROVE  Moves({i})
BY GoesMoves, {i, i} = {i}

LEMMA VanishMoves ==
  ASSUME IInv, UNCHANGED <<scene, place, fresh>>, \A z \in Zones : Records(z)' = Records(z),
         NEW i \in Serials, Vanishes(i), i \notin fresh, spent' \in {spent, spent \cup {i}},
         spent' = spent \cup {i} \/ "hangup" \in scene.acts
  PROVE  Moves({i})
BY DEF Vanishes, Moves, IInv, Folk, Nowhere

LEMMA StayMoves ==
  ASSUME IInv, UNCHANGED <<scene, place, fresh, spent>>, \A z \in Zones : Records(z)' = Records(z),
         \A o \in Serials, m \in Ways, w \in Sites : At(o, m, w)' <=> At(o, m, w)
  PROVE  Moves({})
BY DEF Moves

-----------------------------------------------------------------------------
(* Items are lifted *)

\* What all lifts share: the item i goes from (k, x) to the cursor of p, in the zone z = place[p].
LEMMA LiftKeeps ==
  ASSUME IInv, NEW p \in Players, NEW i \in Serials, NEW k \in {"ground", "box"}, At(i, k, place[p]),
         held[p] = None, UNCHANGED <<scene, gear, body, spent, session, back>>, lifts' \in 0 .. scene.lifts,
         NEW h \in Held, h.serial = i, held' = [held EXCEPT ![p] = h],
         \/ /\ UNCHANGED fresh
            /\ ZoneGets(place[p], Ground(place[p]) \ {i}, DOMAIN zone[place[p]].index \ {i})
         \/ /\ fresh # {} /\ fresh' = fresh \ {Next1(fresh)} /\ k = "ground"
            /\ ZoneGets(place[p], (Ground(place[p]) \ {i}) \cup {Next1(fresh)}, DOMAIN zone[place[p]].index)
         \/ /\ fresh # {} /\ fresh' = fresh \ {Next1(fresh)} /\ k = "box"
            /\ ZoneGets(place[p], Ground(place[p]), (DOMAIN zone[place[p]].index \ {i}) \cup {Next1(fresh)})
  PROVE  IInv'
<1> DEFINE z == place[p]
           f == Next1(fresh)
<1>1. z \in Zones /\ z \in Sites /\ p \in Sites /\ k \in Ways
  BY DEF IInv, Folk, Sites, Ways
<1>2. /\ held' \in [Players -> Held \cup {None}]
      /\ \A q \in Players : \A j : Holds(q, j)' <=> IF q = p THEN j = i ELSE Holds(q, j)
  BY HeldAct, ItemsAssumption DEF IInv
<1>3. /\ \A q \in Players : \A j : Returns(q, j)' <=> Returns(q, j)
      /\ \A j : ~ Holds(p, j)
  BY SitesStay DEF Holds
<1>4. \A l \in Ways, x \in Sites : At(i, l, x) => l = k /\ x = z
  BY <1>1 DEF IInv, Single
<1>5. /\ \A y \in Zones : i \notin Ground(y) \/ (k = "ground" /\ y = z)
      /\ \A y \in Zones : i \notin DOMAIN zone[y].index \/ (k = "box" /\ y = z)
      /\ \A q \in Players : i \notin DOMAIN worn[q] /\ ~ Holds(q, i) /\ ~ Returns(q, i)
  BY <1>4 DEF At, Ways, Sites
<1>6. UNCHANGED <<scene, place, spent>> /\ "cursor" \in Ways /\ Here("cursor", p) = z /\ Here(k, z) = z
  BY DEF body, Ways, Here
<1>9. Sessions'
  BY SessionsStay DEF IInv
<1>7. CASE /\ UNCHANGED fresh
           /\ ZoneGets(z, Ground(z) \ {i}, DOMAIN zone[z].index \ {i})
  <2>1. Stores' /\ \A y \in Zones :
               /\ Records(y)' = Records(y)
               /\ Ground(y)' = IF y = z THEN Ground(z) \ {i} ELSE Ground(y)
               /\ DOMAIN zone'[y].index = IF y = z THEN DOMAIN zone[z].index \ {i} ELSE DOMAIN zone[y].index
    BY <1>7 DEF ZoneGets
  <2>2. Goes(i, "cursor", p, i, "cursor", p)
    BY <1>1, <1>2, <1>3, <1>5, <2>1 DEF Goes, At, gear
  <2>3. Moves({i})
    BY <1>1, <1>6, <1>7, <2>1, <2>2, OneMoves
  <2> QED BY <1>1, <1>2, <1>7, <1>9, <2>1, <2>3, Calm DEF IInv, Folk
<1>8. CASE /\ fresh # {} /\ fresh' = fresh \ {f}
           /\ \/ k = "ground" /\ ZoneGets(z, (Ground(z) \ {i}) \cup {f}, DOMAIN zone[z].index)
              \/ k = "box" /\ ZoneGets(z, Ground(z), (DOMAIN zone[z].index \ {i}) \cup {f})
  <2> DEFINE G == IF k = "ground" THEN (Ground(z) \ {i}) \cup {f} ELSE Ground(z)
             X == IF k = "box" THEN (DOMAIN zone[z].index \ {i}) \cup {f} ELSE DOMAIN zone[z].index
  <2>1. Stores' /\ \A y \in Zones : /\ Records(y)' = Records(y)
                                    /\ Ground(y)' = IF y = z THEN G ELSE Ground(y)
                                    /\ DOMAIN zone'[y].index = IF y = z THEN X ELSE DOMAIN zone[y].index
    BY <1>8 DEF ZoneGets
  <2>2. /\ f # i /\ f \in Serials
        /\ \A y \in Zones : f \notin Ground(y) /\ f \notin DOMAIN zone[y].index
        /\ \A q \in Players : f \notin DOMAIN worn[q] /\ ~ Holds(q, f) /\ ~ Returns(q, f)
    <3>1. f \in Serials /\ \A l \in Ways, x \in Sites : ~ At(f, l, x)
      BY <1>8, FreshIsNew
    <3>2. f # i
      BY <1>1, <3>1
    <3> HIDE DEF f
    <3> QED BY <3>1, <3>2 DEF At, Ways, Sites
  <2>3. Goes(i, "cursor", p, f, k, z)
    <3> HIDE DEF f
    <3> QED BY <1>1, <1>2, <1>3, <1>5, <2>1, <2>2 DEF Goes, At, gear
  <2>4. Moves({i, f})
    BY <1>1, <1>6, <1>8, <2>1, <2>2, <2>3, GoesMoves
  <2>5. fresh' \subseteq Serials /\ spent' \subseteq Serials \ fresh'
    BY <1>8 DEF IInv, Folk
  <2> QED BY <1>1, <1>2, <1>9, <2>1, <2>2, <2>4, <2>5, Calm DEF IInv, Folk
<1> QED BY <1>7, <1>8

LEMMA OnCursorIsHeld ==
  ASSUME NEW i \in Serials, NEW it \in Item, NEW n \in 1 .. MaxAmount, NEW from \in {"ground", "box", "worn"}
  PROVE  OnCursor(i, it, n, from) \in Held /\ OnCursor(i, it, n, from).serial = i
BY ItemsAssumption DEF OnCursor, Held, Item, Least

LEMMA MayLiftCounts ==
  ASSUME IInv, NEW p, MayLift(p)
  PROVE  held[p] = None /\ lifts' \in 0 .. scene.lifts
<1>1. scene.lifts \in Nat
  <2>1. scene \in Scenarios
    BY DEF IInv, Folk
  <2>2. Orderly(scene)
    BY <2>1, ItemsAssumption
  <2> QED BY <2>2 DEF Orderly
<1>2. lifts \in 0 .. scene.lifts
  BY DEF IInv, Folk
<1> QED BY <1>1, <1>2 DEF MayLift

LEMMA LiftFromGroundKeeps ==
  ASSUME IInv, NEW p \in Players, NEW i \in Serials, NEW n \in 1 .. MaxAmount, LiftFromGround(p, i, n)
  PROVE  IInv'
<1> DEFINE z == place[p]
           it == zone[z].ground[i]
           g == Without(zone[z].ground, {i})
           f == Next1(fresh)
           h == OnCursor(i, it, n, "ground")
           X == DOMAIN zone[z].index
<1>1. /\ z \in Zones /\ i \in Ground(z) /\ held[p] = None /\ lifts' \in 0 .. scene.lifts
      /\ UNCHANGED <<scene, gear, body, spent, session, back>>
      /\ held' = [held EXCEPT ![p] = h]
  <2>1. z \in Zones
    BY DEF IInv, Folk
  <2>2. MayLift(p)
    BY DEF LiftFromGround
  <2> QED BY <2>1, <2>2, MayLiftCounts DEF LiftFromGround
<1>2. ZoneOK(zone[z]) /\ it \in Item
  BY <1>1 DEF IInv, Stores, ZoneOK, PartOf, Ground
<1>3. h \in Held /\ h.serial = i
  BY <1>2, OnCursorIsHeld
<1>4. PartOf(g, Serials, Item) /\ DOMAIN g = Ground(z) \ {i}
  BY <1>2 DEF ZoneOK, PartOf, Without, Ground
<1>5. At(i, "ground", place[p]) /\ i \notin X
  <2>1. At(i, "ground", place[p])
    BY <1>1 DEF At
  <2>2. At(i, "box", place[p]) => FALSE
    BY <1>1, <2>1 DEF IInv, Single, Ways, Sites
  <2> QED BY <1>1, <2>1, <2>2 DEF At
<1>6. CASE n >= it.amount
  <2>1. zone' = [zone EXCEPT ![z] = [zone[z] EXCEPT !.ground = g]] /\ fresh' = fresh
    BY <1>6 DEF LiftFromGround
  <2>2. Becomes(zone[z], [zone[z] EXCEPT !.ground = g], DOMAIN g, X)
    BY <1>2, <1>4, Relay, Zenon
  <2>3. ZoneGets(z, Ground(z) \ {i}, X)
    BY <1>1, <1>4, <2>1, <2>2, ZoneAct, Zenon DEF IInv
  <2>4. X = X \ {i}
    BY <1>5
  <2> HIDE DEF g, h, it, X
  <2> QED BY <1>1, <1>3, <1>5, <2>1, <2>3, <2>4, LiftKeeps DEF X
<1>7. CASE ~ (n >= it.amount)
  <2> DEFINE g2 == Put(g, f, Rest(it, n))
  <2>1. /\ zone' = [zone EXCEPT ![z] = [zone[z] EXCEPT !.ground = g2]]
        /\ fresh # {} /\ fresh' = fresh \ {f}
    BY <1>7 DEF LiftFromGround
  <2>2. Rest(it, n) \in Item /\ f \in Serials
    BY <1>2, <1>7, <2>1, RestIsItem, FreshIsNew
  <2>3. PartOf(g2, Serials, Item) /\ DOMAIN g2 = (Ground(z) \ {i}) \cup {f}
    BY <1>4, <2>2 DEF PartOf, Put
  <2>4. Becomes(zone[z], [zone[z] EXCEPT !.ground = g2], DOMAIN g2, X)
    BY <1>2, <2>3, Relay, Zenon
  <2>5. ZoneGets(z, (Ground(z) \ {i}) \cup {f}, X)
    BY <1>1, <2>1, <2>3, <2>4, ZoneAct, Zenon DEF IInv
  <2> HIDE DEF g, g2, h, it, f, X
  <2> QED BY <1>1, <1>3, <1>5, <2>1, <2>5, LiftKeeps DEF X, f
<1> QED BY <1>6, <1>7

LEMMA LiftFromBoxKeeps ==
  ASSUME IInv, NEW p \in Players, NEW i \in Serials, NEW n \in 1 .. MaxAmount, LiftFromBox(p, i, n)
  PROVE  IInv'
<1> DEFINE z == place[p]
           c == zone[z].index[i]
           it == zone[z].boxes[c][i]
           left == RemoveFrom(zone[z], c, i)
           f == Next1(fresh)
           h == OnCursor(i, it, n, "box")
           X == DOMAIN zone[z].index
<1>1. /\ z \in Zones /\ i \in X /\ held[p] = None /\ lifts' \in 0 .. scene.lifts
      /\ UNCHANGED <<scene, gear, body, spent, session, back>>
      /\ held' = [held EXCEPT ![p] = h]
  <2>1. z \in Zones
    BY DEF IInv, Folk
  <2>2. MayLift(p)
    BY DEF LiftFromBox
  <2> QED BY <2>1, <2>2, MayLiftCounts DEF LiftFromBox
<1>2. ZoneOK(zone[z]) /\ it \in Item /\ c \in DOMAIN zone[z].boxes
  BY <1>1, IndexedIsSerial DEF IInv, Stores, In
<1>3. h \in Held /\ h.serial = i
  BY <1>2, OnCursorIsHeld
<1>4. Becomes(zone[z], left, Ground(z), X \ {i})
  BY <1>1, <1>2, TakeOut DEF Ground
<1>5. At(i, "box", place[p]) /\ i \notin Ground(z)
  BY <1>1 DEF At, LiftFromBox
<1>6. CASE n >= it.amount
  <2>1. zone' = [zone EXCEPT ![z] = left] /\ fresh' = fresh
    BY <1>6 DEF LiftFromBox
  <2>2. ZoneGets(z, Ground(z), X \ {i})
    BY <1>1, <1>4, <2>1, ZoneAct, Zenon DEF IInv
  <2>3. Ground(z) = Ground(z) \ {i}
    BY <1>5
  <2> HIDE DEF h, it, left, c
  <2> QED BY <1>1, <1>3, <1>5, <2>1, <2>2, <2>3, LiftKeeps
<1>7. CASE ~ (n >= it.amount)
  <2> DEFINE after == Upsert(left, c, f, Rest(it, n))
  <2>1. /\ zone' = [zone EXCEPT ![z] = after]
        /\ fresh # {} /\ fresh' = fresh \ {f}
    BY <1>7 DEF LiftFromBox
  <2>2. Rest(it, n) \in Item /\ f \in Serials
    BY <1>2, <1>7, <2>1, RestIsItem, FreshIsNew
  <2>3. /\ ZoneOK(left) /\ c \in DOMAIN left.boxes /\ DOMAIN left.boxes = DOMAIN zone[z].boxes
        /\ DOMAIN left.ground = Ground(z) /\ DOMAIN left.index = X \ {i}
    BY <1>2, <1>4 DEF Becomes
  <2>4. Becomes(left, after, Ground(z), (X \ {i}) \cup {f})
    <3> DEFINE r == Rest(it, n)
    <3>1. r \in Item /\ f \in Serials
      BY <2>2
    <3> HIDE DEF left, c, r, f
    <3>2. Becomes(left, Upsert(left, c, f, r), DOMAIN left.ground, DOMAIN left.index \cup {f})
      BY <2>3, <3>1, PutIn
    <3> HIDE DEF X
    <3> QED BY <2>3, <3>2, Zenon DEF r
  <2> HIDE DEF left
  <2> HIDE DEF after
  <2>5. Becomes(zone[z], after, Ground(z), (X \ {i}) \cup {f})
    BY <2>3, <2>4 DEF Becomes
  <2>6. ZoneGets(z, Ground(z), (X \ {i}) \cup {f})
    BY <1>1, <2>1, <2>5, ZoneAct, Zenon DEF IInv
  <2> HIDE DEF h, it, c, f, X
  <2> QED BY <1>1, <1>3, <1>5, <2>1, <2>6, LiftKeeps DEF X, f
<1> QED BY <1>6, <1>7

LEMMA LiftWornKeeps ==
  ASSUME IInv, NEW p \in Players, NEW i \in Serials, LiftWorn(p, i)
  PROVE  IInv'
<1> DEFINE h == [serial |-> i, kind |-> worn[p][i].kind, amount |-> 1, from |-> "worn"]
<1>1. /\ i \in DOMAIN worn[p] /\ held[p] = None /\ lifts' \in 0 .. scene.lifts
      /\ UNCHANGED <<scene, zone, body, fresh, spent, session, back>>
      /\ held' = [held EXCEPT ![p] = h]
      /\ worn' = [worn EXCEPT ![p] = Without(worn[p], {i})] /\ wearer' = Without(wearer, {i})
  <2>1. MayLift(p)
    BY DEF LiftWorn
  <2> QED BY <2>1, MayLiftCounts DEF LiftWorn
<1>2. h \in Held /\ h.serial = i
  BY <1>1, ItemsAssumption DEF IInv, Folk, PartOf, Worn, Held
<1> HIDE DEF h
<1>13. h # None /\ \A j : ~ Holds(p, j)
  BY <1>1, <1>2, ItemsAssumption DEF Holds
<1>3. /\ held' \in [Players -> Held \cup {None}]
      /\ \A q \in Players : \A j : Holds(q, j)' <=> IF q = p THEN j = i ELSE Holds(q, j)
      /\ \A q \in Players : \A j : Returns(q, j)' <=> Returns(q, j)
      /\ \A j : ~ Holds(p, j)
  BY <1>1, <1>2, <1>13, HeldAct, SitesStay DEF IInv
<1>4. /\ DOMAIN worn' = Players
      /\ \A q \in Players : DOMAIN worn'[q] = IF q = p THEN DOMAIN worn[p] \ {i} ELSE DOMAIN worn[q]
      /\ \A q \in Players : PartOf(worn'[q], Serials, Worn)
  BY <1>1 DEF IInv, Folk, PartOf, Without
<1>5. Wearers'
  BY <1>1, <1>4 DEF IInv, Wearers, PartOf, Without
<1>6. Stores' /\ Folk' /\ Corpses' /\ Sessions'
  BY <1>1, <1>3, <1>4, ZoneStays DEF IInv, Folk, Corpses, Sessions, session, body
<1>7. p \in Sites /\ "worn" \in Ways /\ "cursor" \in Ways /\ At(i, "worn", p) /\ Here("worn", p) = Here("cursor", p)
  BY <1>1 DEF Sites, Ways, At, Here
<1>8. \A l \in Ways, x \in Sites : At(i, l, x) => l = "worn" /\ x = p
  BY <1>7 DEF IInv, Single
<1>14. /\ \A y \in Zones : i \notin Ground(y) /\ i \notin DOMAIN zone[y].index
       /\ \A q \in Players : /\ q # p => i \notin DOMAIN worn[q]
                             /\ ~ Holds(q, i) /\ ~ Returns(q, i)
  BY <1>8 DEF At, Ways, Sites
<1>15. \A y \in Zones : Ground(y)' = Ground(y) /\ DOMAIN zone'[y].index = DOMAIN zone[y].index
  BY <1>1 DEF Ground
<1>16. p \in Sites
  BY DEF Sites
<1>9. Goes(i, "cursor", p, i, "cursor", p)
  BY <1>3, <1>4, <1>14, <1>15, <1>16 DEF Goes, At
<1>10. UNCHANGED <<scene, place, spent>> /\ \A y \in Zones : Records(y)' = Records(y)
  BY <1>1 DEF body, Records
<1>11. Moves({i})
  BY <1>1, <1>7, <1>9, <1>10, <1>16, OneMoves
<1>12. Single' /\ Nowhere' /\ Kept' /\ RecordsHere'
  BY <1>1, <1>6, <1>11, Moved DEF IInv, Folk
<1> QED BY <1>5, <1>6, <1>12 DEF IInv

-----------------------------------------------------------------------------
(* Items are dropped *)

\* What all drops share: the item i comes from p to the zone place[p], or becomes part of a stack there.
LEMMA SettleKeeps ==
  ASSUME IInv, NEW p \in Players, NEW h \in Held, NEW k \in {"cursor", "back"}, At(h.serial, k, p),
         UNCHANGED <<scene, gear, body, fresh>>, lifts' \in 0 .. scene.lifts, Sessions',
         held' \in [Players -> Held \cup {None}], back' \in [Players -> Back \cup {None}],
         \A q \in Players : \A j : Holds(q, j)' <=> Holds(q, j) /\ ~ (k = "cursor" /\ q = p),
         \A q \in Players : \A j : Returns(q, j)' <=> Returns(q, j) /\ ~ (k = "back" /\ q = p),
         NEW after, Settles(h, place[p], after),
         \/ Becomes(zone[place[p]], after, Ground(place[p]) \cup {h.serial}, DOMAIN zone[place[p]].index)
         \/ Becomes(zone[place[p]], after, Ground(place[p]), DOMAIN zone[place[p]].index \cup {h.serial})
         \/ Becomes(zone[place[p]], after, Ground(place[p]), DOMAIN zone[place[p]].index)
  PROVE  IInv'
<1> DEFINE z == place[p]
           i == h.serial
           idx == DOMAIN zone[z].index
<1>1. z \in Zones /\ z \in Sites /\ p \in Sites /\ k \in Ways /\ i \in Serials /\ i \notin fresh \cup spent
  BY DEF IInv, Folk, Sites, Ways, Held, Nowhere
<1>2. \A l \in Ways, x \in Sites : At(i, l, x) => l = k /\ x = p
  BY <1>1 DEF IInv, Single
<1>3. /\ \A y \in Zones : i \notin Ground(y) /\ i \notin DOMAIN zone[y].index
      /\ \A q \in Players : /\ i \notin DOMAIN worn[q]
                            /\ ~ Holds(q, i) \/ (k = "cursor" /\ q = p)
                            /\ ~ Returns(q, i) \/ (k = "back" /\ q = p)
  BY <1>2 DEF At, Ways, Sites
<1>4. \A j : (k = "cursor" /\ Holds(p, j)) \/ (k = "back" /\ Returns(p, j)) => j = i
  BY DEF At, Holds, Returns
<1>5. /\ zone' = [zone EXCEPT ![z] = after]
      /\ spent' = IF i \in DOMAIN after.ground \cup DOMAIN after.index THEN spent ELSE spent \cup {i}
  BY DEF Settles
<1>6. /\ UNCHANGED <<scene, place, fresh>> /\ Here(k, p) = z /\ Here("ground", z) = z /\ Here("box", z) = z
      /\ At(i, k, p) /\ "ground" \in Ways /\ "box" \in Ways
  BY DEF body, Here, Ways
<1> HIDE DEF i, idx
<1>7. CASE Becomes(zone[z], after, Ground(z) \cup {i}, idx)
  <2>1. ZoneGets(z, Ground(z) \cup {i}, idx)
    BY <1>1, <1>5, <1>7, ZoneAct, Zenon DEF IInv
  <2>2. Stores' /\ \A y \in Zones : /\ Records(y)' = Records(y)
                                    /\ Ground(y)' = IF y = z THEN Ground(z) \cup {i} ELSE Ground(y)
                                    /\ DOMAIN zone'[y].index = DOMAIN zone[y].index
    BY <2>1 DEF ZoneGets, idx
  <2>3. spent' = spent
    BY <1>5, <1>7 DEF Becomes
  <2>4. Goes(i, "ground", z, i, "ground", z)
    BY <1>1, <1>3, <1>4, <2>2 DEF Goes, At, gear
  <2>5. Moves({i})
    BY <1>1, <1>6, <2>2, <2>3, <2>4, OneMoves
  <2> QED BY <1>1, <2>2, <2>3, <2>5, Calm DEF IInv, Folk
<1>8. CASE Becomes(zone[z], after, Ground(z), idx \cup {i})
  <2>1. ZoneGets(z, Ground(z), idx \cup {i})
    BY <1>1, <1>5, <1>8, ZoneAct, Zenon DEF IInv
  <2>2. Stores' /\ \A y \in Zones : /\ Records(y)' = Records(y)
                                    /\ Ground(y)' = Ground(y)
                                    /\ DOMAIN zone'[y].index = IF y = z THEN idx \cup {i} ELSE DOMAIN zone[y].index
    BY <2>1 DEF ZoneGets
  <2>3. spent' = spent
    BY <1>5, <1>8 DEF Becomes
  <2>4. Goes(i, "box", z, i, "box", z)
    BY <1>1, <1>3, <1>4, <2>2 DEF Goes, At, gear, idx
  <2>5. Moves({i})
    BY <1>1, <1>6, <2>2, <2>3, <2>4, OneMoves
  <2> QED BY <1>1, <2>2, <2>3, <2>5, Calm DEF IInv, Folk
<1>9. CASE Becomes(zone[z], after, Ground(z), idx)
  <2>1. ZoneGets(z, Ground(z), idx)
    BY <1>1, <1>5, <1>9, ZoneAct, Zenon DEF IInv
  <2>2. Stores' /\ \A y \in Zones : /\ Records(y)' = Records(y)
                                    /\ Ground(y)' = Ground(y)
                                    /\ DOMAIN zone'[y].index = DOMAIN zone[y].index
    BY <2>1 DEF ZoneGets, idx
  <2>3. spent' = spent \cup {i}
    BY <1>1, <1>3, <1>5, <1>9 DEF Becomes, idx
  <2>4. Vanishes(i)
    BY <1>1, <1>3, <1>4, <2>2 DEF Vanishes, At, gear
  <2>5. Moves({i})
    BY <1>1, <1>6, <2>2, <2>3, <2>4, VanishMoves
  <2> QED BY <1>1, <2>2, <2>3, <2>5, Calm DEF IInv, Folk
<1> QED BY <1>7, <1>8, <1>9 DEF i, idx

LEMMA LaidBecomes ==
  ASSUME NEW zs, ZoneOK(zs), NEW h \in Held
  PROVE  Becomes(zs, Laid(zs, h), DOMAIN zs.ground \cup {h.serial}, DOMAIN zs.index)
<1> DEFINE g == Put(zs.ground, h.serial, Bare(h))
<1>1. PartOf(g, Serials, Item) /\ DOMAIN g = DOMAIN zs.ground \cup {h.serial}
  BY BareIsItem DEF PartOf, Put, ZoneOK, Held
<1>2. Laid(zs, h) = [zs EXCEPT !.ground = g]
  BY Zenon DEF Laid
<1> HIDE DEF g
<1> QED BY <1>1, <1>2, Relay

LEMMA HandIsHeld ==
  ASSUME Folk, NEW p \in Players
  PROVE  /\ held[p] # None => held[p] \in Held /\ At(held[p].serial, "cursor", p)
         /\ Busy(p) => /\ back[p] \in Back /\ back[p].item \in Held /\ back[p].stage \in {"look", "pack", "feet"}
                       /\ At(back[p].item.serial, "back", p)
<1>1. held[p] # None => held[p] \in Held /\ At(held[p].serial, "cursor", p)
  BY DEF Folk, At, Holds
<1>2. Busy(p) => back[p] \in Back
  BY DEF Folk, Busy
<1>3. back[p] \in Back => back[p].item \in Held /\ back[p].stage \in {"look", "pack", "feet"}
  BY DEF Back
<1>4. Busy(p) => At(back[p].item.serial, "back", p)
  BY DEF At, Returns
<1> QED BY <1>1, <1>2, <1>3, <1>4

\* The cursor, or the way back, becomes empty.
LEMMA LetGo ==
  ASSUME Folk, NEW p \in Players
  PROVE  /\ held' = [held EXCEPT ![p] = None] =>
              /\ held' \in [Players -> Held \cup {None}]
              /\ \A q \in Players : \A j : Holds(q, j)' <=> Holds(q, j) /\ q # p
         /\ back' = [back EXCEPT ![p] = None] =>
              /\ back' \in [Players -> Back \cup {None}]
              /\ \A q \in Players : \A j : Returns(q, j)' <=> Returns(q, j) /\ q # p
         /\ UNCHANGED held =>
              /\ held' \in [Players -> Held \cup {None}]
              /\ \A q \in Players : \A j : Holds(q, j)' <=> Holds(q, j)
         /\ UNCHANGED back =>
              /\ back' \in [Players -> Back \cup {None}]
              /\ \A q \in Players : \A j : Returns(q, j)' <=> Returns(q, j)
<1>1. None \in Held \cup {None} /\ None \in Back \cup {None}
  OBVIOUS
<1> QED BY <1>1, HeldAct, BackAct, SitesStay DEF Folk

LEMMA DropOnGroundKeeps ==
  ASSUME IInv, NEW p \in Players, DropOnGround(p)
  PROVE  IInv'
<1> DEFINE h == held[p]
<1>1. /\ h # None /\ Settles(h, place[p], Laid(zone[place[p]], h))
      /\ held' = [held EXCEPT ![p] = None]
      /\ UNCHANGED <<scene, lifts, gear, body, fresh, session, back>>
  BY DEF DropOnGround
<1>2. h \in Held /\ At(h.serial, "cursor", p) /\ ZoneOK(zone[place[p]])
  BY <1>1, HandIsHeld DEF IInv, Stores, Folk
<1>3. lifts' \in 0 .. scene.lifts /\ Sessions'
  BY <1>1, SessionsStay DEF IInv, Folk
<1> HIDE DEF h
<1>4. Becomes(zone[place[p]], Laid(zone[place[p]], h), Ground(place[p]) \cup {h.serial}, DOMAIN zone[place[p]].index)
  BY <1>2, LaidBecomes DEF Ground
<1>5. /\ held' \in [Players -> Held \cup {None}] /\ back' \in [Players -> Back \cup {None}]
      /\ \A q \in Players : \A j : Holds(q, j)' <=> Holds(q, j) /\ q # p
      /\ \A q \in Players : \A j : Returns(q, j)' <=> Returns(q, j)
  BY <1>1, LetGo DEF IInv
<1> QED BY <1>1, <1>2, <1>3, <1>4, <1>5, SettleKeeps

LEMMA DropOnEntityKeeps ==
  ASSUME IInv, NEW p \in Players, NEW t, NEW auto, DropOnEntity(p, t, auto)
  PROVE  IInv'
<1> DEFINE h == held[p]
<1>1. /\ h # None /\ held' = [held EXCEPT ![p] = None]
      /\ UNCHANGED <<scene, lifts, gear, body, fresh, session, back>>
  BY DEF DropOnEntity
<1>2. h \in Held /\ At(h.serial, "cursor", p) /\ ZoneOK(zone[place[p]])
  BY <1>1, HandIsHeld DEF IInv, Stores, Folk
<1>3. lifts' \in 0 .. scene.lifts /\ Sessions'
  BY <1>1, SessionsStay DEF IInv, Folk
<1>4. PICK after \in Onto(zone[place[p]], h, t, auto) : Settles(h, place[p], after)
  BY DEF DropOnEntity
<1> HIDE DEF h
<1>5. \/ Becomes(zone[place[p]], after, Ground(place[p]), DOMAIN zone[place[p]].index)
      \/ Becomes(zone[place[p]], after, Ground(place[p]), DOMAIN zone[place[p]].index \cup {h.serial})
  BY <1>2, <1>4, OntoBecomes DEF Ground
<1>6. /\ held' \in [Players -> Held \cup {None}] /\ back' \in [Players -> Back \cup {None}]
      /\ \A q \in Players : \A j : Holds(q, j)' <=> Holds(q, j) /\ q # p
      /\ \A q \in Players : \A j : Returns(q, j)' <=> Returns(q, j)
  BY <1>1, LetGo DEF IInv
<1> QED BY <1>1, <1>2, <1>3, <1>4, <1>5, <1>6, SettleKeeps

LEMMA ReturnToFeetKeeps ==
  ASSUME IInv, NEW p \in Players, ReturnToFeet(p)
  PROVE  IInv'
<1> DEFINE h == back[p].item
<1>1. /\ Busy(p) /\ Settles(h, place[p], Laid(zone[place[p]], h))
      /\ back' = [back EXCEPT ![p] = None]
      /\ UNCHANGED <<scene, lifts, gear, body, fresh, session, held>>
  BY DEF ReturnToFeet
<1>2. h \in Held /\ At(h.serial, "back", p) /\ ZoneOK(zone[place[p]])
  BY <1>1, HandIsHeld DEF IInv, Stores, Folk
<1>3. lifts' \in 0 .. scene.lifts /\ Sessions'
  BY <1>1, SessionsStay DEF IInv, Folk
<1> HIDE DEF h
<1>4. Becomes(zone[place[p]], Laid(zone[place[p]], h), Ground(place[p]) \cup {h.serial}, DOMAIN zone[place[p]].index)
  BY <1>2, LaidBecomes DEF Ground
<1>5. /\ held' \in [Players -> Held \cup {None}] /\ back' \in [Players -> Back \cup {None}]
      /\ \A q \in Players : \A j : Holds(q, j)' <=> Holds(q, j)
      /\ \A q \in Players : \A j : Returns(q, j)' <=> Returns(q, j) /\ q # p
  BY <1>1, LetGo DEF IInv
<1> QED BY <1>1, <1>2, <1>3, <1>4, <1>5, SettleKeeps

LEMMA DisconnectKeeps ==
  ASSUME IInv, NEW p \in Players, Disconnect(p)
  PROVE  IInv'
<1> DEFINE h == held[p]
<1>1. /\ held' = [held EXCEPT ![p] = None]
      /\ UNCHANGED <<scene, lifts, gear, body, fresh, back>>
  BY DEF Disconnect, SessionEnds
<1>2. lifts' \in 0 .. scene.lifts
  BY <1>1 DEF IInv, Folk
<1>3. Sessions'
  BY DEF Disconnect, SessionEnds, IInv, Sessions
<1>4. /\ held' \in [Players -> Held \cup {None}] /\ back' \in [Players -> Back \cup {None}]
      /\ \A q \in Players : \A j : Holds(q, j)' <=> Holds(q, j) /\ q # p
      /\ \A q \in Players : \A j : Returns(q, j)' <=> Returns(q, j)
  BY <1>1, LetGo DEF IInv
<1>5. CASE h # None
  <2>1. Settles(h, place[p], Laid(zone[place[p]], h))
    BY <1>5 DEF Disconnect
  <2>2. h \in Held /\ At(h.serial, "cursor", p) /\ ZoneOK(zone[place[p]])
    BY <1>5, HandIsHeld DEF IInv, Stores, Folk
  <2> HIDE DEF h
  <2>3. Becomes(zone[place[p]], Laid(zone[place[p]], h), Ground(place[p]) \cup {h.serial}, DOMAIN zone[place[p]].index)
    BY <2>2, LaidBecomes DEF Ground
  <2> QED BY <1>1, <1>2, <1>3, <1>4, <2>1, <2>2, <2>3, SettleKeeps
<1>6. CASE h = None
  <2>1. UNCHANGED <<zone, spent>>
    BY <1>6 DEF Disconnect
  <2>2. Stores' /\ \A y \in Zones : /\ Records(y)' = Records(y)
                                    /\ Ground(y)' = Ground(y) /\ DOMAIN zone'[y].index = DOMAIN zone[y].index
    BY <2>1, ZoneStays DEF IInv, Ground
  <2>3. \A j : ~ Holds(p, j)
    BY <1>6 DEF Holds
  <2>4. \A o \in Serials, m \in Ways, w \in Sites : At(o, m, w)' <=> At(o, m, w)
    BY <1>1, <1>4, <2>2, <2>3 DEF At, gear
  <2>5. Moves({})
    BY <1>1, <2>1, <2>2, <2>4, StayMoves DEF body
  <2> QED BY <1>1, <1>2, <1>3, <1>4, <2>1, <2>2, <2>5, Calm DEF IInv, Folk
<1> QED BY <1>5, <1>6

LEMMA HangUpKeeps ==
  ASSUME IInv, NEW p \in Players, HangUp(p)
  PROVE  IInv'
<1>1. /\ held' = [held EXCEPT ![p] = None] /\ "hangup" \in scene.acts
      /\ UNCHANGED <<scene, lifts, gear, body, fresh, back, zone, spent>>
  BY DEF HangUp, SessionEnds
<1>2. lifts' \in 0 .. scene.lifts
  BY <1>1 DEF IInv, Folk
<1>3. Sessions'
  BY DEF HangUp, SessionEnds, IInv, Sessions
<1>4. /\ held' \in [Players -> Held \cup {None}] /\ back' \in [Players -> Back \cup {None}]
      /\ \A q \in Players : \A j : Holds(q, j)' <=> Holds(q, j) /\ q # p
      /\ \A q \in Players : \A j : Returns(q, j)' <=> Returns(q, j)
  BY <1>1, LetGo DEF IInv
<1>5. Stores' /\ \A y \in Zones : /\ Records(y)' = Records(y)
                                  /\ Ground(y)' = Ground(y) /\ DOMAIN zone'[y].index = DOMAIN zone[y].index
  BY <1>1, ZoneStays DEF IInv, Ground
<1>6. PICK S \in SUBSET Serials : Moves(S)
  <2>1. CASE held[p] = None
    <3>1. \A j : ~ Holds(p, j)
      BY <2>1 DEF Holds
    <3>2. \A o \in Serials, m \in Ways, w \in Sites : At(o, m, w)' <=> At(o, m, w)
      BY <1>1, <1>4, <1>5, <3>1 DEF At, gear
    <3> QED BY <1>1, <1>5, <3>2, StayMoves DEF body
  <2>2. CASE held[p] # None
    <3> DEFINE i == held[p].serial
    <3>1. i \in Serials /\ At(i, "cursor", p) /\ p \in Sites /\ "cursor" \in Ways
      BY <2>2, HandIsHeld DEF IInv, Held, Sites, Ways
    <3>2. (\A j : Holds(p, j) <=> j = i) /\ i \notin fresh
      BY <2>2, <3>1 DEF Holds, IInv, Nowhere
    <3> HIDE DEF i
    <3>3. \A l \in Ways, x \in Sites : At(i, l, x) => l = "cursor" /\ x = p
      BY <3>1 DEF IInv, Single
    <3>4. Vanishes(i)
      BY <1>1, <1>4, <1>5, <3>2, <3>3 DEF Vanishes, At, gear
    <3> QED BY <1>1, <1>5, <3>1, <3>2, <3>4, VanishMoves DEF body
  <2> QED BY <2>1, <2>2
<1> QED BY <1>1, <1>2, <1>3, <1>4, <1>5, <1>6, Calm DEF IInv, Folk

\* Steps that leave every item where it is.
LEMMA IdleKeeps ==
  ASSUME IInv, UNCHANGED <<scene, lifts, zone, gear, body, fresh, spent>>, Sessions',
         held' \in [Players -> Held \cup {None}], back' \in [Players -> Back \cup {None}],
         \A q \in Players : \A j : Holds(q, j)' <=> Holds(q, j),
         \A q \in Players : \A j : Returns(q, j)' <=> Returns(q, j)
  PROVE  IInv'
<1>1. Stores' /\ \A y \in Zones : /\ Records(y)' = Records(y)
                                  /\ Ground(y)' = Ground(y) /\ DOMAIN zone'[y].index = DOMAIN zone[y].index
  BY ZoneStays DEF IInv, Ground
<1>2. \A o \in Serials, m \in Ways, w \in Sites : At(o, m, w)' <=> At(o, m, w)
  BY <1>1 DEF At, gear
<1>3. Moves({})
  BY <1>1, <1>2, StayMoves DEF body
<1> QED BY <1>1, <1>3, Calm DEF IInv, Folk

LEMMA DropRejectedKeeps ==
  ASSUME IInv, NEW p \in Players, DropRejected(p)
  PROVE  IInv'
<1> DEFINE h == held[p]
           b == [item |-> h, pack |-> None, stage |-> IF h.from = "ground" THEN "feet" ELSE "look"]
<1>1. /\ h # None /\ Handles(p) /\ held' = [held EXCEPT ![p] = None]
      /\ back' = [back EXCEPT ![p] = b]
      /\ UNCHANGED <<scene, lifts, zone, gear, body, fresh, spent, session>>
  BY DEF DropRejected
<1>2. h \in Held /\ At(h.serial, "cursor", p) /\ h.serial \in Serials
  BY <1>1, HandIsHeld DEF IInv, Held
<1>3. b \in Back /\ b.item.serial = h.serial
  BY <1>2 DEF Back
<1>4. b # None
  BY <1>3, ItemsAssumption
<1> HIDE DEF b
<1>5. /\ held' \in [Players -> Held \cup {None}]
      /\ \A q \in Players : \A j : Holds(q, j)' <=> Holds(q, j) /\ q # p
  BY <1>1, LetGo DEF IInv
<1>6. /\ back' \in [Players -> Back \cup {None}]
      /\ \A q \in Players : \A j : Returns(q, j)' <=> IF q = p THEN j = h.serial ELSE Returns(q, j)
  BY <1>1, <1>3, <1>4, BackAct DEF IInv
<1>7. /\ \A j : Holds(p, j) <=> j = h.serial
      /\ \A j : ~ Returns(p, j)
  BY <1>1 DEF Holds, Returns, Handles
<1>8. Stores' /\ \A y \in Zones : /\ Records(y)' = Records(y)
                                  /\ Ground(y)' = Ground(y) /\ DOMAIN zone'[y].index = DOMAIN zone[y].index
  BY <1>1, ZoneStays DEF IInv, Ground
<1>9. p \in Sites /\ "cursor" \in Ways /\ "back" \in Ways /\ Here("cursor", p) = Here("back", p)
  BY DEF Sites, Ways, Here
<1>10. \A l \in Ways, x \in Sites : At(h.serial, l, x) => l = "cursor" /\ x = p
  BY <1>2, <1>9 DEF IInv, Single
<1> HIDE DEF h
<1>11. Goes(h.serial, "back", p, h.serial, "back", p)
  BY <1>1, <1>5, <1>6, <1>7, <1>8, <1>9, <1>10 DEF Goes, At, gear
<1>12. Moves({h.serial})
  BY <1>1, <1>2, <1>8, <1>9, <1>11, OneMoves DEF body
<1>13. Sessions' /\ lifts' \in 0 .. scene.lifts
  BY <1>1, SessionsStay DEF IInv, Folk
<1> QED BY <1>1, <1>2, <1>5, <1>6, <1>8, <1>12, <1>13, Calm DEF IInv, Folk

\* What becomes of the way back of p.
LEMMA StageKeeps ==
  ASSUME IInv, NEW p \in Players, Busy(p), NEW b \in Back, b.item = back[p].item, back' = [back EXCEPT ![p] = b],
         UNCHANGED <<scene, lifts, zone, gear, body, fresh, spent, session, held>>
  PROVE  IInv'
<1>1. /\ back' \in [Players -> Back \cup {None}]
      /\ \A q \in Players : \A j : Returns(q, j)' <=> IF q = p THEN j = b.item.serial ELSE Returns(q, j)
  BY ItemsAssumption, BackAct DEF IInv
<1>2. \A q \in Players : \A j : Returns(q, j)' <=> Returns(q, j)
  BY <1>1 DEF Returns
<1>3. \A q \in Players : \A j : Holds(q, j)' <=> Holds(q, j)
  BY SitesStay
<1> QED BY <1>1, <1>2, <1>3, IdleKeeps, SessionsStay DEF IInv, Folk

LEMMA LookForPackKeeps ==
  ASSUME IInv, NEW p \in Players, LookForPack(p)
  PROVE  IInv'
<1>1. /\ Busy(p) /\ back[p] \in Back /\ back[p].item \in Held
      /\ UNCHANGED <<scene, lifts, zone, gear, body, fresh, spent, session, held>>
  BY HandIsHeld DEF LookForPack, IInv
<1>2. CASE Pack(p) = {}
  <2> DEFINE b == [back[p] EXCEPT !.stage = "feet"]
  <2>1. b \in Back /\ b.item = back[p].item
    BY <1>1 DEF Back
  <2>2. back' = [back EXCEPT ![p] = b]
    BY <1>2 DEF LookForPack
  <2> HIDE DEF b
  <2> QED BY <1>1, <2>1, <2>2, StageKeeps
<1>3. CASE Pack(p) # {}
  <2>1. PICK c \in Pack(p) : back' = [back EXCEPT ![p].stage = "pack", ![p].pack = c]
    BY <1>3 DEF LookForPack
  <2> DEFINE b == [back[p] EXCEPT !.stage = "pack", !.pack = c]
  <2>2. c \in Serials
    BY DEF Pack, IInv, Folk, PartOf
  <2>3. b \in Back /\ b.item = back[p].item
    BY <1>1, <2>2 DEF Back
  <2>4. back' = [back EXCEPT ![p] = b]
    BY <2>1 DEF IInv, Folk
  <2> HIDE DEF b
  <2> QED BY <1>1, <2>3, <2>4, StageKeeps
<1> QED BY <1>2, <1>3

LEMMA ReturnToPackKeeps ==
  ASSUME IInv, NEW p \in Players, ReturnToPack(p)
  PROVE  IInv'
<1> DEFINE h == back[p].item
           afters == Onto(zone[place[p]], h, back[p].pack, TRUE)
<1>1. Busy(p) /\ UNCHANGED <<scene, lifts, gear, body, fresh, session, held>>
  BY DEF ReturnToPack
<1>2. h \in Held /\ At(h.serial, "back", p) /\ ZoneOK(zone[place[p]]) /\ back[p] \in Back
  BY <1>1, HandIsHeld DEF IInv, Stores, Folk
<1>3. lifts' \in 0 .. scene.lifts /\ Sessions'
  BY <1>1, SessionsStay DEF IInv, Folk
<1>4. ASSUME NEW after \in afters, Settles(h, place[p], after), back' = [back EXCEPT ![p] = None]
      PROVE  IInv'
  <2> HIDE DEF h
  <2>1. \/ Becomes(zone[place[p]], after, Ground(place[p]), DOMAIN zone[place[p]].index)
        \/ Becomes(zone[place[p]], after, Ground(place[p]), DOMAIN zone[place[p]].index \cup {h.serial})
    BY <1>2, <1>4, OntoBecomes DEF Ground
  <2>2. /\ held' \in [Players -> Held \cup {None}] /\ back' \in [Players -> Back \cup {None}]
        /\ \A q \in Players : \A j : Holds(q, j)' <=> Holds(q, j)
        /\ \A q \in Players : \A j : Returns(q, j)' <=> Returns(q, j) /\ q # p
    BY <1>1, <1>4, LetGo DEF IInv
  <2> QED BY <1>1, <1>2, <1>3, <1>4, <2>1, <2>2, SettleKeeps
<1>5. ASSUME back' = [back EXCEPT ![p].stage = "feet"], UNCHANGED <<zone, spent>>
      PROVE  IInv'
  <2> DEFINE b == [back[p] EXCEPT !.stage = "feet"]
  <2>1. b \in Back /\ b.item = back[p].item
    BY <1>2 DEF Back
  <2>2. back' = [back EXCEPT ![p] = b]
    BY <1>5
  <2> HIDE DEF b
  <2> QED BY <1>1, <1>5, <2>1, <2>2, StageKeeps
<1> QED BY <1>4, <1>5 DEF ReturnToPack

LEMMA LearnKeeps ==
  ASSUME IInv, NEW p \in Players, Learn(p) \/ Login(p)
  PROVE  IInv'
<1>1. UNCHANGED <<scene, lifts, zone, gear, body, fresh, spent, held, back>>
  BY DEF Learn, Login
<1>2. Sessions'
  BY ItemsAssumption DEF Learn, Login, IInv, Sessions
<1> QED BY <1>1, <1>2, LetGo, IdleKeeps DEF IInv

-----------------------------------------------------------------------------
(* Items are worn, and used up *)

LEMMA Assemble ==
  ASSUME IInv, Stores', Folk', Corpses', Sessions', Wearers', NEW S \in SUBSET Serials, Moves(S)
  PROVE  IInv'
<1>1. (fresh \cup spent)' \subseteq Serials
  BY DEF Folk
<1> QED BY <1>1, Moved DEF IInv

LEMMA WearKeeps ==
  ASSUME IInv, NEW p \in Players, NEW layer \in Layers, Wear(p, layer)
  PROVE  IInv'
<1> DEFINE h == held[p]
           i == h.serial
           thing == [layer |-> layer, kind |-> h.kind]
           under == {j \in DOMAIN worn[p] : worn[p][j].layer = layer}
<1>1. h # None /\ UNCHANGED <<scene, lifts, zone, body, fresh, spent, session, back>>
  BY DEF Wear
<1>2. h \in Held /\ At(i, "cursor", p) /\ i \in Serials /\ thing \in Worn
  BY <1>1, HandIsHeld DEF IInv, Held, Worn
<1>3. /\ p \in Sites /\ "cursor" \in Ways /\ "worn" \in Ways
      /\ Here("cursor", p) = place[p] /\ Here("worn", p) = place[p]
  BY DEF Sites, Ways, Here
<1>4. /\ \A y \in Zones : i \notin Ground(y) /\ i \notin DOMAIN zone[y].index
      /\ \A q \in Players : i \notin DOMAIN worn[q] /\ ~ Returns(q, i) /\ (Holds(q, i) => q = p)
  <2>1. \A l \in Ways, x \in Sites : At(i, l, x) => l = "cursor" /\ x = p
    BY <1>2, <1>3 DEF IInv, Single
  <2> HIDE DEF i
  <2> QED BY <2>1 DEF At, Ways, Sites
<1>5. Stores' /\ \A y \in Zones : /\ Records(y)' = Records(y)
                                  /\ Ground(y)' = Ground(y) /\ DOMAIN zone'[y].index = DOMAIN zone[y].index
  BY <1>1, ZoneStays DEF IInv, Ground
<1>6. Sessions' /\ Corpses' /\ \A q \in Players : \A j : Returns(q, j)' <=> Returns(q, j)
  BY <1>1, SessionsStay, SitesStay DEF IInv, Corpses, body
<1>7. \A j : Holds(p, j) <=> j = i
  BY <1>1 DEF Holds
<1>8. UNCHANGED <<scene, place, spent, fresh>>
  BY <1>1 DEF body
<1>9. CASE /\ held' = [held EXCEPT ![p] = None]
           /\ worn' = [worn EXCEPT ![p] = Put(worn[p], i, thing)]
           /\ wearer' = Put(wearer, i, p)
  <2>1. /\ held' \in [Players -> Held \cup {None}]
        /\ \A q \in Players : \A j : Holds(q, j)' <=> Holds(q, j) /\ q # p
    BY <1>9, LetGo DEF IInv
  <2> HIDE DEF i, thing
  <2>2. /\ DOMAIN worn' = Players
        /\ \A q \in Players : DOMAIN worn'[q] = IF q = p THEN DOMAIN worn[p] \cup {i} ELSE DOMAIN worn[q]
        /\ \A q \in Players : PartOf(worn'[q], Serials, Worn)
    BY <1>2, <1>9 DEF IInv, Folk, PartOf, Put
  <2>3. Wearers'
    BY <1>2, <1>4, <1>9, <2>2 DEF IInv, Wearers, PartOf, Put
  <2>4. Folk'
    BY <1>1, <2>1, <2>2 DEF IInv, Folk, body
  <2>5. Goes(i, "worn", p, i, "worn", p)
    BY <1>3, <1>4, <1>5, <1>6, <1>7, <2>1, <2>2 DEF Goes, At
  <2>6. Moves({i})
    BY <1>2, <1>3, <1>5, <1>8, <2>5, OneMoves
  <2> QED BY <1>2, <1>5, <1>6, <2>3, <2>4, <2>6, Assemble
<1>10. ASSUME NEW j \in under,
              held' = [held EXCEPT ![p] = [serial |-> j, kind |-> worn[p][j].kind, amount |-> 1, from |-> "worn"]],
              worn' = [worn EXCEPT ![p] = Put(Without(worn[p], {j}), i, thing)],
              wearer' = Put(Without(wearer, {j}), i, p)
       PROVE  IInv'
  <2> DEFINE h2 == [serial |-> j, kind |-> worn[p][j].kind, amount |-> 1, from |-> "worn"]
  <2>1. h2 \in Held /\ h2.serial = j /\ j \in Serials /\ At(j, "worn", p) /\ j # i /\ j \in DOMAIN worn[p]
    BY <1>4, ItemsAssumption DEF IInv, Folk, PartOf, Worn, Held, At
  <2>2. h2 # None
    BY <2>1, ItemsAssumption
  <2>3. held' = [held EXCEPT ![p] = h2]
    BY <1>10
  <2> HIDE DEF h2, i, thing, under
  <2>4. /\ held' \in [Players -> Held \cup {None}]
        /\ \A q \in Players : \A k : Holds(q, k)' <=> IF q = p THEN k = j ELSE Holds(q, k)
    BY <2>1, <2>2, <2>3, HeldAct DEF IInv
  <2>5. /\ \A y \in Zones : j \notin Ground(y) /\ j \notin DOMAIN zone[y].index
        /\ \A q \in Players : (j \in DOMAIN worn[q] => q = p) /\ ~ Returns(q, j) /\ ~ Holds(q, j)
    <3>1. \A l \in Ways, x \in Sites : At(j, l, x) => l = "worn" /\ x = p
      BY <1>3, <2>1 DEF IInv, Single
    <3> QED BY <3>1 DEF At, Ways, Sites
  <2>6. /\ DOMAIN worn' = Players
        /\ \A q \in Players : DOMAIN worn'[q] = IF q = p THEN (DOMAIN worn[p] \ {j}) \cup {i} ELSE DOMAIN worn[q]
        /\ \A q \in Players : PartOf(worn'[q], Serials, Worn)
    BY <1>2, <1>10 DEF IInv, Folk, PartOf, Put, Without
  <2>7. Wearers'
    BY <1>2, <1>4, <1>10, <2>1, <2>5, <2>6 DEF IInv, Wearers, PartOf, Put, Without
  <2>8. Folk'
    BY <1>1, <2>4, <2>6 DEF IInv, Folk, body
  <2>9. Goes(i, "worn", p, j, "cursor", p)
    BY <1>3, <1>4, <1>5, <1>6, <1>7, <2>1, <2>4, <2>5, <2>6 DEF Goes, At
  <2>10. Moves({i, j})
    BY <1>2, <1>3, <1>5, <1>8, <2>1, <2>9, GoesMoves
  <2> QED BY <1>2, <1>5, <1>6, <2>1, <2>7, <2>8, <2>10, Assemble
<1> QED BY <1>9, <1>10 DEF Wear

LEMMA ConsumeKeeps ==
  ASSUME IInv, NEW z \in Zones, NEW i \in Serials, NEW n \in 1 .. MaxAmount, Consume(z, i, n)
  PROVE  IInv'
<1> DEFINE zs == zone[z]
           boxed == i \in DOMAIN zs.index
           c == zs.index[i]
           it == IF boxed THEN zs.boxes[c][i] ELSE zs.ground[i]
           after == IF n >= it.amount
                      THEN IF boxed THEN RemoveFrom(zs, c, i)
                                    ELSE [zs EXCEPT !.ground = Without(@, {i})]
                      ELSE IF boxed THEN SetItem(zs, c, i, Rest(it, n))
                                    ELSE [zs EXCEPT !.ground[i] = Rest(it, n)]
<1>1. /\ boxed \/ i \in Ground(z)
      /\ zone' = [zone EXCEPT ![z] = after]
      /\ spent' = IF n >= it.amount THEN spent \cup {i} ELSE spent
      /\ UNCHANGED <<scene, lifts, gear, body, fresh, session, held, back>>
  BY DEF Consume
<1>2. ZoneOK(zs) /\ it \in Item /\ (boxed => In(zs, c, i))
  <2>1. ZoneOK(zs)
    BY DEF IInv, Stores
  <2>2. boxed => it \in Item /\ In(zs, c, i)
    BY <2>1, IndexedIsSerial
  <2>3. ~ boxed => it \in Item
    BY <1>1, <2>1 DEF ZoneOK, PartOf, Ground
  <2> QED BY <2>1, <2>2, <2>3
<1>3. /\ held' \in [Players -> Held \cup {None}] /\ back' \in [Players -> Back \cup {None}]
      /\ \A q \in Players : \A j : Holds(q, j)' <=> Holds(q, j)
      /\ \A q \in Players : \A j : Returns(q, j)' <=> Returns(q, j)
      /\ Sessions' /\ lifts' \in 0 .. scene.lifts /\ UNCHANGED <<scene, place, fresh>>
  BY <1>1, SitesStay, SessionsStay DEF IInv, Folk, body
<1>4. PICK k \in {"ground", "box"} : At(i, k, z) /\ (k = "box" <=> boxed)
  BY <1>1 DEF At
<1>5. /\ \A y \in Zones : /\ i \notin Ground(y) \/ (k = "ground" /\ y = z)
                          /\ i \notin DOMAIN zone[y].index \/ (k = "box" /\ y = z)
      /\ \A q \in Players : i \notin DOMAIN worn[q] /\ ~ Holds(q, i) /\ ~ Returns(q, i)
      /\ i \notin fresh \cup spent
  <2>1. k \in Ways /\ z \in Sites
    BY DEF Ways, Sites
  <2>2. \A l \in Ways, x \in Sites : At(i, l, x) => l = k /\ x = z
    BY <1>4, <2>1 DEF IInv, Single
  <2>3. i \notin fresh \cup spent
    BY <1>4, <2>1 DEF IInv, Nowhere
  <2> QED BY <2>2, <2>3 DEF At, Ways, Sites
<1>8. UNCHANGED worn
  BY <1>1 DEF gear
<1>6. CASE n >= it.amount
  <2>1. Becomes(zs, after, DOMAIN zs.ground \ {i}, DOMAIN zs.index \ {i})
    <3>1. CASE boxed
      <4>1. after = RemoveFrom(zs, c, i) /\ DOMAIN zs.ground \ {i} = DOMAIN zs.ground
        BY <1>4, <1>5, <1>6, <3>1 DEF Ground
      <4> HIDE DEF after
      <4> QED BY <1>2, <3>1, <4>1, TakeOut
    <3>2. CASE ~ boxed
      <4> DEFINE g == Without(zs.ground, {i})
      <4>1. after = [zs EXCEPT !.ground = g] /\ DOMAIN zs.index \ {i} = DOMAIN zs.index
        BY <1>6, <3>2
      <4>2. PartOf(g, Serials, Item) /\ DOMAIN g = DOMAIN zs.ground \ {i}
        BY <1>2 DEF PartOf, Without, ZoneOK
      <4> HIDE DEF g, after
      <4> QED BY <1>2, <4>1, <4>2, Relay
    <3> QED BY <3>1, <3>2
  <2> DEFINE G == Ground(z) \ {i}
             X == DOMAIN zone[z].index \ {i}
  <2>2. ZoneGets(z, G, X)
    <3>1. Becomes(zs, after, G, X) /\ zone' = [zone EXCEPT ![z] = after] /\ Stores
      BY <1>1, <2>1 DEF Ground, IInv
    <3> HIDE DEF after, G, X
    <3> QED BY <3>1, ZoneAct
  <2>3. Stores' /\ \A y \in Zones : /\ Records(y)' = Records(y)
                                    /\ Ground(y)' = Ground(y) \ {i}
                                    /\ DOMAIN zone'[y].index = DOMAIN zone[y].index \ {i}
    BY <1>5, <2>2 DEF ZoneGets
  <2>4. spent' = spent \cup {i}
    BY <1>1, <1>6
  <2>5. Vanishes(i)
    BY <1>3, <1>5, <1>8, <2>3 DEF Vanishes, At
  <2>6. Moves({i})
    BY <1>3, <1>5, <2>3, <2>4, <2>5, VanishMoves
  <2> QED BY <1>1, <1>3, <1>5, <2>3, <2>4, <2>6, Calm DEF IInv, Folk
<1>7. CASE ~ (n >= it.amount)
  <2> DEFINE r == Rest(it, n)
  <2>1. r \in Item
    BY <1>2, <1>7, RestIsItem
  <2>2. Becomes(zs, after, DOMAIN zs.ground, DOMAIN zs.index)
    <3>1. CASE boxed
      <4>1. after = SetItem(zs, c, i, r)
        BY <1>7, <3>1
      <4> HIDE DEF after, r, c
      <4> QED BY <1>2, <2>1, <3>1, <4>1, Change DEF c
    <3>2. CASE ~ boxed
      <4> DEFINE g == [zs.ground EXCEPT ![i] = r]
      <4>1. after = [zs EXCEPT !.ground = g]
        BY <1>7, <3>2
      <4> HIDE DEF r
      <4>2. PartOf(g, Serials, Item) /\ DOMAIN g = DOMAIN zs.ground
        BY <1>2, <2>1 DEF PartOf, ZoneOK
      <4> HIDE DEF g, after
      <4> QED BY <1>2, <4>1, <4>2, Relay
    <3> QED BY <3>1, <3>2
  <2> HIDE DEF r
  <2> DEFINE G == Ground(z)
             X == DOMAIN zone[z].index
  <2>3. ZoneGets(z, G, X)
    <3>1. Becomes(zs, after, G, X) /\ zone' = [zone EXCEPT ![z] = after] /\ Stores
      BY <1>1, <2>2 DEF Ground, IInv
    <3> HIDE DEF after, G, X
    <3> QED BY <3>1, ZoneAct
  <2>4. Stores' /\ \A y \in Zones : /\ Records(y)' = Records(y)
                                    /\ Ground(y)' = Ground(y) /\ DOMAIN zone'[y].index = DOMAIN zone[y].index
    BY <2>3 DEF ZoneGets
  <2>5. spent' = spent
    BY <1>1, <1>7
  <2>6. \A o \in Serials, m \in Ways, w \in Sites : At(o, m, w)' <=> At(o, m, w)
    BY <1>3, <1>8, <2>4 DEF At
  <2>7. Moves({})
    BY <1>3, <2>4, <2>5, <2>6, StayMoves
  <2> QED BY <1>1, <1>3, <2>4, <2>5, <2>7, Calm DEF IInv, Folk
<1> QED BY <1>6, <1>7

-----------------------------------------------------------------------------
(* Death *)

\* A zone with a new container cs and the items X in the index, of which none was there.
Gains(zs, new, cs, X) ==
  /\ ZoneOK(new) /\ DOMAIN new.ground = DOMAIN zs.ground
  /\ DOMAIN new.boxes = DOMAIN zs.boxes \cup {cs} /\ DOMAIN new.index = DOMAIN zs.index \cup X

LEMMA LootGains ==
  ASSUME NEW zs, ZoneOK(zs), NEW cs \in Serials \ DOMAIN zs.boxes,
         NEW take, PartOf(take, Serials, Item), DOMAIN take \cap DOMAIN zs.index = {},
         NEW b, NEW kept \in SUBSET DOMAIN Content(zs, b)
  PROVE  LET packed == Content(zs, b) IN
         Gains(zs, Insert(Rewrite(zs, b, Without(packed, DOMAIN packed \ kept)), cs, Over(take, Without(packed, kept))),
               cs, DOMAIN take)
<1> DEFINE packed == Content(zs, b)
           stay == Without(packed, DOMAIN packed \ kept)
           loot == Over(take, Without(packed, kept))
           new == Insert(Rewrite(zs, b, stay), cs, loot)
<1>1. HasStore(zs) /\ Exact(zs)
  BY DEF ZoneOK, HasStore
<1>2. PartOf(packed, Serials, Item) /\ DOMAIN packed \subseteq DOMAIN zs.index
  <2>1. CASE b \in DOMAIN zs.boxes
    BY <2>1 DEF Content, ZoneOK, Exact
  <2>2. CASE b \notin DOMAIN zs.boxes
    BY <2>2 DEF Content, Empty, PartOf
  <2> QED BY <2>1, <2>2
<1>6. kept \subseteq DOMAIN packed
  OBVIOUS
<1> HIDE DEF packed
<1>3. /\ DOMAIN stay = kept /\ PartOf(stay, Serials, Item)
      /\ DOMAIN loot = DOMAIN take \cup (DOMAIN packed \ kept) /\ PartOf(loot, Serials, Item)
  BY <1>2, <1>6 DEF Without, Over, PartOf
<1> HIDE DEF stay, loot
<1>4. /\ DOMAIN stay \subseteq DOMAIN Content(zs, b)
      /\ DOMAIN loot \cap DOMAIN zs.index = DOMAIN Content(zs, b) \ DOMAIN stay
  BY <1>2, <1>3, <1>6 DEF packed
<1>5. /\ Exact(new) /\ Beside(zs, new)
      /\ DOMAIN new.boxes = DOMAIN zs.boxes \cup {cs}
      /\ DOMAIN new.index = DOMAIN zs.index \cup DOMAIN loot
      /\ \A d \in DOMAIN new.boxes : new.boxes[d] = IF d = cs THEN loot ELSE IF d = b THEN stay ELSE zs.boxes[d]
  BY <1>1, <1>4, LootExact
<1> HIDE DEF new
<1>7. \A d \in DOMAIN new.boxes : PartOf(new.boxes[d], Serials, Item)
  BY <1>3, <1>5 DEF ZoneOK
<1>8. ZoneOK(new) /\ new.ground = zs.ground
  BY <1>5, <1>7, StoreOfZone DEF ZoneOK
<1>9. DOMAIN new.index = DOMAIN zs.index \cup DOMAIN take
  BY <1>2, <1>3, <1>5
<1> QED BY <1>5, <1>8, <1>9 DEF Gains, new, loot, stay, packed

LEMMA InsertGains ==
  ASSUME NEW zs, ZoneOK(zs), NEW cs \in Serials \ DOMAIN zs.boxes,
         NEW loot, PartOf(loot, Serials, Item), DOMAIN loot \cap DOMAIN zs.index = {}
  PROVE  Gains(zs, Insert(zs, cs, loot), cs, DOMAIN loot)
<1> DEFINE new == Insert(zs, cs, loot)
<1>1. HasStore(zs) /\ Exact(zs)
  BY DEF ZoneOK, HasStore
<1>2. new = Added(zs, cs, loot, DOMAIN loot)
  BY Zenon DEF Insert, Added, SetStore
<1> HIDE DEF new
<1>3. /\ \A i \in DOMAIN zs.index \ DOMAIN loot : In(zs, zs.index[i], i)
      /\ \A d \in DOMAIN zs.boxes \ {cs} : \A i \in DOMAIN zs.boxes[d] :
           i \notin DOMAIN loot /\ i \in DOMAIN zs.index /\ zs.index[i] = d
  BY <1>1 DEF Exact
<1>4. /\ Exact(new) /\ Beside(zs, new)
      /\ DOMAIN new.boxes = DOMAIN zs.boxes \cup {cs}
      /\ DOMAIN new.index = DOMAIN zs.index \cup DOMAIN loot
      /\ \A d \in DOMAIN new.boxes : new.boxes[d] = IF d = cs THEN loot ELSE zs.boxes[d]
  BY <1>1, <1>2, <1>3, AddExact
<1>5. \A d \in DOMAIN new.boxes : PartOf(new.boxes[d], Serials, Item)
  BY <1>4 DEF ZoneOK
<1>6. ZoneOK(new) /\ new.ground = zs.ground
  BY <1>4, <1>5, StoreOfZone DEF ZoneOK
<1> QED BY <1>4, <1>6 DEF Gains, new

LEMMA TwoFresh ==
  ASSUME IInv, Cardinality(fresh) >= 2
  PROVE  LET cs == Next1(fresh)  shroud == Next1(fresh \ {cs}) IN
         cs \in fresh /\ shroud \in fresh /\ shroud # cs
<1> DEFINE cs == Next1(fresh)
<1>1. IsFiniteSet(fresh) /\ fresh \subseteq Nat
  BY FS_Subset, ItemsAssumption DEF IInv, Folk
<1>2. fresh # {}
  BY FS_EmptySet
<1>3. cs \in fresh
  BY <1>1, <1>2, NextIsOne
<1> HIDE DEF cs
<1>4. fresh \ {cs} # {}
  <2>1. Cardinality(fresh \ {cs}) = Cardinality(fresh) - 1
    BY <1>1, <1>3, FS_RemoveElement
  <2>2. Cardinality(fresh) \in Nat
    BY <1>1, FS_CardinalityType
  <2> QED BY <2>1, <2>2, FS_EmptySet
<1>5. Next1(fresh \ {cs}) \in fresh \ {cs}
  BY <1>1, <1>4, NextIsOne
<1> QED BY <1>3, <1>5 DEF cs

\* The zone in which p dies: what p loses of what it wore is in the corpse.
LEMMA KillZone ==
  ASSUME IInv, NEW p \in Players, Kill(p)
  PROVE  LET z == place[p]
             cs == Next1(fresh)
             looted == {i \in DOMAIN worn[p] : worn[p][i].layer # "backpack" /\ worn[p][i].kind \notin Newbie} IN
         /\ Stores'
         /\ \A y \in Zones : /\ Records(y)' = IF y = z THEN Records(y) \cup {cs} ELSE Records(y)
                             /\ Ground(y)' = IF y = z THEN Ground(y) \cup {cs} ELSE Ground(y)
                             /\ DOMAIN zone'[y].index =
                                  IF y = z THEN DOMAIN zone[y].index \cup looted ELSE DOMAIN zone[y].index
<1> DEFINE z == place[p]
           zs == zone[z]
           cs == Next1(fresh)
           looted == {i \in DOMAIN worn[p] : worn[p][i].layer # "backpack" /\ worn[p][i].kind \notin Newbie}
           take == [i \in looted |-> [kind |-> worn[p][i].kind, amount |-> 1]]
           packed == IF Pack(p) = {} THEN Empty ELSE Content(zs, CHOOSE b \in Pack(p) : TRUE)
           kept == {i \in DOMAIN packed : packed[i].kind \in Newbie}
           loot == Over(take, Without(packed, kept))
           robbed == IF Pack(p) = {} THEN zs
                     ELSE Rewrite(zs, CHOOSE b \in Pack(p) : TRUE, Without(packed, DOMAIN packed \ kept))
           body0 == [kind |-> "corpse", amount |-> MaxAmount]
           new == Insert(robbed, cs, loot)
           after == [new EXCEPT !.ground = Put(@, cs, body0)]
<1>1. z \in Zones /\ ZoneOK(zs) /\ DOMAIN zone = Zones
  BY DEF IInv, Folk, Stores
<1>2. cs \in fresh /\ cs \in Serials /\ cs \notin DOMAIN zs.boxes
  BY <1>1, TwoFresh DEF Kill, IInv, Folk, RecordsHere, Records
<1>3. zone' = [zone EXCEPT ![z] = after]
  BY Zenon DEF Kill
<1>4. PartOf(take, Serials, Item) /\ DOMAIN take = looted /\ DOMAIN take \cap DOMAIN zs.index = {}
  <2>1. \A i \in looted : i \in Serials /\ worn[p][i].kind \in Kinds /\ At(i, "worn", p)
    BY DEF IInv, Folk, PartOf, Worn, At
  <2>2. \A i \in DOMAIN zs.index : At(i, "box", z)
    BY <1>1 DEF At
  <2>3. looted \cap DOMAIN zs.index = {}
    <3> HIDE DEF looted, zs
    <3> QED BY <1>1, <2>1, <2>2 DEF IInv, Single, Ways, Sites
  <2> QED BY <2>1, <2>3, ItemsAssumption DEF PartOf, Item
<1>5. Gains(zs, new, cs, looted)
  <2>1. CASE Pack(p) = {}
    <3>1. packed = Empty /\ robbed = zs
      BY <2>1
    <3>2. DOMAIN loot = DOMAIN take /\ PartOf(loot, Serials, Item)
      <4> HIDE DEF take, packed, kept
      <4>1. DOMAIN packed = {}
        BY <3>1 DEF Empty
      <4> QED BY <1>4, <4>1 DEF Over, Without, PartOf
    <3> HIDE DEF loot, robbed, take, looted, zs, cs
    <3>3. Gains(zs, Insert(zs, cs, loot), cs, DOMAIN loot)
      BY <1>1, <1>2, <1>4, <3>2, InsertGains
    <3> QED BY <1>4, <3>1, <3>2, <3>3
  <2>2. CASE Pack(p) # {}
    <3> DEFINE b == CHOOSE x \in Pack(p) : TRUE
    <3>1. /\ packed = Content(zs, b)
          /\ robbed = Rewrite(zs, b, Without(packed, DOMAIN packed \ kept))
      BY <2>2
    <3>2. kept \subseteq DOMAIN packed
      OBVIOUS
    <3> HIDE DEF take, looted, zs, cs, b, kept, packed, robbed
    <3>3. Gains(zs, Insert(Rewrite(zs, b, Without(packed, DOMAIN packed \ kept)), cs,
                           Over(take, Without(packed, kept))),
                cs, DOMAIN take)
      BY <1>1, <1>2, <1>4, <3>1, <3>2, LootGains
    <3> QED BY <1>4, <3>1, <3>3
  <2> QED BY <2>1, <2>2
<1> HIDE DEF new, looted, zs, cs
<1>6. Becomes(new, after, DOMAIN zs.ground \cup {cs}, DOMAIN zs.index \cup looted)
  <2> DEFINE g == Put(new.ground, cs, body0)
  <2>1. body0 \in Item
    BY ItemsAssumption DEF Item
  <2> HIDE DEF body0
  <2>2. PartOf(g, Serials, Item) /\ DOMAIN g = DOMAIN zs.ground \cup {cs} /\ ZoneOK(new)
    BY <1>2, <1>5, <2>1 DEF Gains, ZoneOK, PartOf, Put
  <2>3. after = [new EXCEPT !.ground = g]
    BY Zenon
  <2> HIDE DEF g, after
  <2>4. Becomes(new, after, DOMAIN g, DOMAIN new.index)
    BY <2>2, <2>3, Relay
  <2>5. DOMAIN new.index = DOMAIN zs.index \cup looted
    BY <1>5 DEF Gains
  <2> QED BY <2>2, <2>4, <2>5
<1> HIDE DEF after
<1>7. DOMAIN zone' = Zones /\ \A y \in Zones : zone'[y] = IF y = z THEN after ELSE zone[y]
  BY <1>1, <1>3
<1>8. /\ ZoneOK(after) /\ DOMAIN after.boxes = DOMAIN zs.boxes \cup {cs}
      /\ DOMAIN after.ground = DOMAIN zs.ground \cup {cs} /\ DOMAIN after.index = DOMAIN zs.index \cup looted
  BY <1>5, <1>6 DEF Becomes, Gains
<1>9. Stores'
  BY <1>7, <1>8 DEF Stores, IInv
<1>10. \A y \in Zones : /\ Records(y)' = IF y = z THEN Records(y) \cup {cs} ELSE Records(y)
                        /\ Ground(y)' = IF y = z THEN Ground(y) \cup {cs} ELSE Ground(y)
                        /\ DOMAIN zone'[y].index =
                             IF y = z THEN DOMAIN zone[y].index \cup looted ELSE DOMAIN zone[y].index
  BY <1>7, <1>8 DEF Records, Ground, zs
<1> QED BY <1>9, <1>10 DEF looted, cs

LEMMA KillKeeps ==
  ASSUME IInv, NEW p \in Players, Kill(p)
  PROVE  IInv'
<1> DEFINE z == place[p]
           cs == Next1(fresh)
           shroud == Next1(fresh \ {cs})
           looted == {i \in DOMAIN worn[p] : worn[p][i].layer # "backpack" /\ worn[p][i].kind \notin Newbie}
           robe == [layer |-> "robe", kind |-> "shroud"]
<1>1. /\ worn' = [worn EXCEPT ![p] = Put(Without(worn[p], looted), shroud, robe)]
      /\ wearer' = Put(Without(wearer, looted), shroud, p)
      /\ fresh' = fresh \ {cs, shroud}
      /\ corpse' = Put(corpse, cs, [owner |-> p, zone |-> z, layers |-> [i \in looted |-> worn[p][i]]])
      /\ dead' = [dead EXCEPT ![p] = TRUE]
      /\ news' = [news EXCEPT ![p] = IF online[p] THEN TRUE ELSE @]
      /\ UNCHANGED <<scene, lifts, place, spent, online, told, held, back>>
  BY Zenon DEF Kill
<1>2. /\ Stores'
      /\ \A y \in Zones : /\ Records(y)' = IF y = z THEN Records(y) \cup {cs} ELSE Records(y)
                          /\ Ground(y)' = IF y = z THEN Ground(y) \cup {cs} ELSE Ground(y)
                          /\ DOMAIN zone'[y].index =
                               IF y = z THEN DOMAIN zone[y].index \cup looted ELSE DOMAIN zone[y].index
  BY KillZone
<1>3. /\ cs \in fresh /\ shroud \in fresh /\ cs # shroud /\ cs \in Serials /\ shroud \in Serials
      /\ cs \notin spent /\ shroud \notin spent
  BY TwoFresh DEF Kill, IInv, Folk
<1>4. /\ z \in Zones /\ z \in Sites /\ p \in Sites /\ "worn" \in Ways /\ "box" \in Ways /\ "ground" \in Ways
      /\ Here("worn", p) = z /\ Here("box", z) = z /\ robe \in Worn /\ looted \subseteq DOMAIN worn[p]
      /\ looted \subseteq Serials
  BY ItemsAssumption DEF IInv, Folk, Sites, Ways, Here, Worn, PartOf
<1>5. Corpses'
  <2> DEFINE props == [owner |-> p, zone |-> z, layers |-> [i \in looted |-> worn[p][i]]]
  <2>1. props.owner \in Players /\ props.zone \in Zones /\ PartOf(props.layers, Serials, Worn)
    BY <1>4 DEF IInv, Folk, PartOf
  <2>2. corpse' = Put(corpse, cs, props)
    BY <1>1
  <2> HIDE DEF props, cs
  <2> QED BY <1>3, <2>1, <2>2 DEF IInv, Corpses, Put
<1> HIDE DEF cs, shroud, looted, robe
<1>6. /\ DOMAIN worn' = Players
      /\ \A q \in Players : DOMAIN worn'[q] = IF q = p THEN (DOMAIN worn[p] \ looted) \cup {shroud} ELSE DOMAIN worn[q]
      /\ \A q \in Players : PartOf(worn'[q], Serials, Worn)
  BY <1>1, <1>3, <1>4 DEF IInv, Folk, PartOf, Put, Without
<1>7. \A q \in Players : \A j : /\ Holds(q, j)' <=> Holds(q, j)
                                /\ Returns(q, j)' <=> Returns(q, j)
  BY <1>1, SitesStay
<1>8. \A j \in {cs, shroud} :
        /\ \A y \in Zones : j \notin Ground(y) /\ j \notin DOMAIN zone[y].index /\ j \notin Records(y)
        /\ \A q \in Players : j \notin DOMAIN worn[q] /\ ~ Holds(q, j) /\ ~ Returns(q, j)
  <2>1. \A j \in {cs, shroud} : \A l \in Ways, x \in Sites : ~ At(j, l, x)
    BY <1>3 DEF IInv, Nowhere
  <2>2. \A j \in {cs, shroud} : \A y \in Zones : j \notin Records(y)
    BY <1>3 DEF IInv, RecordsHere
  <2> QED BY <2>1, <2>2 DEF At, Ways, Sites
<1>9. \A j \in looted :
        /\ j \notin fresh \cup spent
        /\ \A y \in Zones : j \notin Ground(y) /\ j \notin DOMAIN zone[y].index
        /\ \A q \in Players : (j \in DOMAIN worn[q] => q = p) /\ ~ Holds(q, j) /\ ~ Returns(q, j)
        /\ \A y \in Zones : j \in Records(y) => y = z
  <2>1. \A j \in looted : At(j, "worn", p)
    BY <1>4 DEF At
  <2>2. \A j \in looted : \A l \in Ways, x \in Sites : At(j, l, x) => l = "worn" /\ x = p
    BY <1>4, <2>1 DEF IInv, Single
  <2>3. \A j \in looted : j \notin fresh \cup spent /\ \A y \in Zones : j \in Records(y) => y = z
    BY <1>4, <2>1 DEF IInv, Nowhere, RecordsHere
  <2> QED BY <2>2, <2>3 DEF At, Ways, Sites
<1>10. Wearers'
  BY <1>1, <1>3, <1>4, <1>6, <1>8 DEF IInv, Wearers, PartOf, Put, Without
<1>11. Sessions'
  BY <1>1, ItemsAssumption DEF IInv, Sessions
<1>12. Folk'
  BY <1>1, <1>3, <1>6 DEF IInv, Folk
<1>13. \A o \in Serials, m \in Ways, w \in Sites :
         At(o, m, w)' <=> IF o = cs THEN m = "ground" /\ w = z
                          ELSE IF o = shroud THEN m = "worn" /\ w = p
                          ELSE IF o \in looted THEN m = "box" /\ w = z
                          ELSE At(o, m, w)
  <2>1. z \in Zones /\ cs # shroud /\ looted \subseteq DOMAIN worn[p]
    BY <1>3, <1>4
  <2> HIDE DEF z
  <2> SUFFICES ASSUME NEW o \in Serials, NEW m \in Ways, NEW w \in Sites
               PROVE  At(o, m, w)' <=> IF o = cs THEN m = "ground" /\ w = z
                                       ELSE IF o = shroud THEN m = "worn" /\ w = p
                                       ELSE IF o \in looted THEN m = "box" /\ w = z
                                       ELSE At(o, m, w)
    OBVIOUS
  <2>2. CASE o \in {cs, shroud}
    <3>1. o \notin looted
      BY <1>8, <2>1, <2>2
    <3>2. \A y \in Zones : o \in Ground(y)' <=> o = cs /\ y = z
      BY <1>2, <1>8, <2>1, <2>2
    <3>3. \A y \in Zones : o \notin DOMAIN zone'[y].index
      BY <1>2, <1>8, <2>2, <3>1
    <3>4. \A q \in Players : o \in DOMAIN worn'[q] <=> o = shroud /\ q = p
      BY <1>6, <1>8, <2>1, <2>2
    <3>5. \A q \in Players : ~ Holds(q, o)' /\ ~ Returns(q, o)'
      BY <1>7, <1>8, <2>2
    <3> QED BY <2>1, <2>2, <3>1, <3>2, <3>3, <3>4, <3>5 DEF At
  <2>3. CASE o \in looted
    <3>1. o # cs /\ o # shroud
      BY <1>8, <2>1, <2>3
    <3>2. \A y \in Zones : o \notin Ground(y)'
      <4>1. \A y \in Zones : o \notin Ground(y)
        BY <1>9, <2>3
      <4>2. \A y \in Zones : Ground(y)' \subseteq Ground(y) \cup {cs}
        BY <1>2
      <4> QED BY <3>1, <4>1, <4>2
    <3>5. \A y \in Zones : o \in DOMAIN zone'[y].index <=> y = z
      BY <1>2, <1>9, <2>1, <2>3
    <3>3. \A q \in Players : o \notin DOMAIN worn'[q]
      BY <1>6, <1>9, <2>3, <3>1
    <3>4. \A q \in Players : ~ Holds(q, o)' /\ ~ Returns(q, o)'
      BY <1>7, <1>9, <2>3
    <3> QED BY <2>1, <2>3, <3>1, <3>2, <3>3, <3>4, <3>5 DEF At
  <2>4. CASE o \notin looted \cup {cs, shroud}
    BY <1>2, <1>6, <1>7, <2>4 DEF At
  <2> QED BY <2>2, <2>3, <2>4
<1> DEFINE S == looted \cup {cs, shroud}
<1>14. Shifts(S)
  <2>1. \A i \in Serials \ S :
          /\ i \in fresh \cup spent <=> i \in fresh' \cup spent'
          /\ \A k \in Ways, x \in Sites : At(i, k, x)' <=> At(i, k, x)
    BY <1>1, <1>13
  <2>2. ASSUME NEW i \in S
        PROVE  /\ i \notin fresh' \cup spent'
               /\ \E k \in Ways, x \in Sites :
                    At(i, k, x)' /\ \A l \in Ways, y \in Sites : At(i, l, y)' => l = k /\ y = x
    <3>1. i \notin fresh' \cup spent' /\ i \in Serials
      BY <1>1, <1>3, <1>4, <1>9
    <3> QED BY <1>4, <1>13, <3>1
  <2> HIDE DEF S
  <2> QED BY <1>1, <2>1, <2>2 DEF Shifts
<1>15. S \in SUBSET Serials /\ (fresh \cup spent)' \subseteq Serials
  BY <1>3, <1>4, <1>12 DEF Folk
<1>16. Single' /\ Nowhere' /\ Kept'
  <2> HIDE DEF S
  <2> QED BY <1>14, <1>15, Shifted
<1>17. RecordsHere'
  <2> SUFFICES ASSUME NEW y \in Zones, NEW c \in Records(y)'
               PROVE  /\ c \notin fresh'
                      /\ \A v \in Zones : c \in Records(v)' => v = y
                      /\ \A k \in Ways, x \in Sites : At(c, k, x)' => Here(k, x)' = y
    BY Zenon DEF RecordsHere
  <2>1. \A k, x : Here(k, x)' = Here(k, x)
    BY <1>1 DEF Here
  <2>2. CASE c = cs
    <3>1. y = z /\ c \notin fresh' /\ \A v \in Zones : c \in Records(v)' => v = y
      BY <1>1, <1>2, <1>8, <2>2
    <3> QED BY <1>3, <1>4, <1>13, <2>1, <2>2, <3>1 DEF Here
  <2>3. CASE c # cs
    <3>0. c \in Records(y)
      BY <1>2, <2>3
    <3>1. c \in Records(y) /\ c \in Serials /\ c # shroud
      BY <1>8, <3>0 DEF IInv, Stores, ZoneOK, Records
    <3>4. c \notin fresh' /\ \A v \in Zones : c \in Records(v) => v = y
      BY <1>1, <3>1 DEF IInv, RecordsHere
    <3>2. c \notin fresh' /\ \A v \in Zones : c \in Records(v)' => v = y
      BY <1>2, <2>3, <3>4
    <3>3. ASSUME NEW k \in Ways, NEW x \in Sites, At(c, k, x)' PROVE Here(k, x) = y
      <4>1. CASE c \in looted
        BY <1>4, <1>9, <1>13, <2>3, <3>1, <3>3, <4>1
      <4>2. CASE c \notin looted
        BY <1>13, <2>3, <3>1, <3>3, <4>2 DEF IInv, RecordsHere
      <4> QED BY <4>1, <4>2
    <3> QED BY <2>1, <3>2, <3>3
  <2> QED BY <2>2, <2>3
<1> QED BY <1>2, <1>5, <1>10, <1>11, <1>12, <1>16, <1>17 DEF IInv

-----------------------------------------------------------------------------
(* Resurrection *)

\* Nobody leaves a container behind, or is resurrected without a backpack.
Gentle == \A s \in Scenarios : s.acts \cap {"carry", "barepack"} = {}

LEMMA EntryGone ==
  ASSUME NEW zs, ZoneOK(zs), NEW cs
  PROVE  LET new == RemoveEntry(zs, cs) IN
         /\ ZoneOK(new) /\ DOMAIN new.ground = DOMAIN zs.ground /\ new.ground = zs.ground
         /\ DOMAIN new.boxes = DOMAIN zs.boxes \ {cs}
         /\ DOMAIN new.index = DOMAIN zs.index \ DOMAIN Content(zs, cs)
<1> DEFINE new == RemoveEntry(zs, cs)
<1>1. HasStore(zs) /\ Exact(zs)
  BY DEF ZoneOK, HasStore
<1>2. /\ Exact(new) /\ Beside(zs, new)
      /\ DOMAIN new.boxes = DOMAIN zs.boxes \ {cs}
      /\ DOMAIN new.index = DOMAIN zs.index \ DOMAIN Content(zs, cs)
      /\ \A d \in DOMAIN new.boxes : new.boxes[d] = zs.boxes[d]
  BY <1>1, RemoveEntryExact
<1> HIDE DEF new
<1>3. \A d \in DOMAIN new.boxes : PartOf(new.boxes[d], Serials, Item)
  BY <1>2 DEF ZoneOK
<1>4. ZoneOK(new) /\ new.ground = zs.ground
  BY <1>2, <1>3, StoreOfZone DEF ZoneOK
<1> QED BY <1>2, <1>4 DEF new

LEMMA PackGains ==
  ASSUME NEW zs, ZoneOK(zs), NEW b \in Serials, NEW items, PartOf(items, Serials, Item),
         DOMAIN items \cap DOMAIN zs.index = {}
  PROVE  Gains(zs, UpsertAll(zs, b, items), b, DOMAIN items)
<1> DEFINE new == UpsertAll(zs, b, items)
<1>1. HasStore(zs) /\ Exact(zs)
  BY DEF ZoneOK, HasStore
<1>2. /\ Exact(new) /\ Beside(zs, new)
      /\ DOMAIN new.boxes = DOMAIN zs.boxes \cup {b}
      /\ DOMAIN new.index = DOMAIN zs.index \cup DOMAIN items
      /\ \A d \in DOMAIN new.boxes : \A j \in DOMAIN new.boxes[d] :
           Same(zs, new, d, j) \/ (d = b /\ j \in DOMAIN items /\ new.boxes[d][j] = items[j])
  BY <1>1, UpsertAllExact
<1> HIDE DEF new
<1>3. \A d \in DOMAIN new.boxes : PartOf(new.boxes[d], Serials, Item)
  BY <1>2 DEF Same, In, PartOf, ZoneOK
<1>4. ZoneOK(new) /\ new.ground = zs.ground
  BY <1>2, <1>3, StoreOfZone DEF ZoneOK
<1> QED BY <1>2, <1>4 DEF Gains, new

\* What p puts on again.
Again(p, cs) ==
  IF cs = None THEN Empty
  ELSE [i \in DOMAIN Content(zone[place[p]], cs) \cap DOMAIN corpse[cs].layers |-> corpse[cs].layers[i]]

\* The zone in which p is resurrected: what p puts on again is no longer in a container of it.
LEMMA ResurrectZone ==
  ASSUME IInv, Gentle, NEW p \in Players, NEW cs, Resurrect(p, cs)
  PROVE  LET z == place[p] IN
         /\ Stores'
         /\ DOMAIN Again(p, cs) \subseteq DOMAIN zone[z].index
         /\ \A y \in Zones :
              /\ Records(y)' \subseteq (IF y = z THEN (Records(y) \ {cs}) \cup Pack(p) ELSE Records(y))
              /\ Ground(y)' = IF y = z THEN Ground(y) \ {cs} ELSE Ground(y)
              /\ DOMAIN zone'[y].index = IF y = z THEN DOMAIN zone[y].index \ DOMAIN Again(p, cs)
                                         ELSE DOMAIN zone[y].index
<1> DEFINE z == place[p]
           zs == zone[z]
           items == IF cs = None THEN Empty ELSE Content(zs, cs)
           again == IF cs = None THEN Empty
                    ELSE [i \in DOMAIN items \cap DOMAIN corpse[cs].layers |-> corpse[cs].layers[i]]
           loose == Without(items, DOMAIN again)
           gone == RemoveEntry(zs, cs)
           emptied == [gone EXCEPT !.ground = Without(@, {cs})]
           b == CHOOSE x \in Pack(p) : TRUE
           after == IF cs = None THEN zs ELSE IF Pack(p) = {} \/ loose = Empty THEN emptied
                    ELSE UpsertAll(emptied, b, loose)
<1>1. z \in Zones /\ ZoneOK(zs) /\ DOMAIN zone = Zones
  BY DEF IInv, Folk, Stores
<1>2. /\ zone' = [zone EXCEPT ![z] = after]
      /\ "barepack" \in scene.acts \/ Pack(p) # {} \/ loose = Empty
  BY Zenon DEF Resurrect
<1>3. Pack(p) # {} \/ loose = Empty
  BY <1>2 DEF Gentle, IInv, Folk
<1>4. /\ DOMAIN again = DOMAIN Again(p, cs)
      /\ DOMAIN again \subseteq DOMAIN items /\ DOMAIN items \subseteq DOMAIN zs.index
      /\ PartOf(items, Serials, Item)
  <2>1. DOMAIN items \subseteq DOMAIN zs.index /\ PartOf(items, Serials, Item)
    BY <1>1 DEF Content, Empty, ZoneOK, Exact, PartOf
  <2>2. again = Again(p, cs)
    BY Zenon DEF Again
  <2>3. DOMAIN again \subseteq DOMAIN items
    BY DEF Empty
  <2> QED BY <2>1, <2>2, <2>3
<1>5. DOMAIN loose = DOMAIN items \ DOMAIN again /\ PartOf(loose, Serials, Item)
  <2> HIDE DEF items, again
  <2> QED BY <1>4 DEF Without, PartOf
<1>6. ASSUME cs # None
      PROVE  /\ ZoneOK(emptied) /\ DOMAIN emptied.ground = DOMAIN zs.ground \ {cs}
             /\ DOMAIN emptied.boxes = DOMAIN zs.boxes \ {cs}
             /\ DOMAIN emptied.index = DOMAIN zs.index \ DOMAIN items
  <2>1. items = Content(zs, cs)
    BY <1>6
  <2> HIDE DEF items, zs
  <2>2. /\ ZoneOK(gone) /\ gone.ground = zs.ground /\ DOMAIN gone.boxes = DOMAIN zs.boxes \ {cs}
        /\ DOMAIN gone.index = DOMAIN zs.index \ DOMAIN items
    BY <1>1, <2>1, EntryGone
  <2> HIDE DEF gone
  <2> DEFINE g == Without(gone.ground, {cs})
  <2>3. emptied = [gone EXCEPT !.ground = g]
    BY Zenon
  <2>4. PartOf(g, Serials, Item) /\ DOMAIN g = DOMAIN zs.ground \ {cs}
    BY <2>2 DEF Without, PartOf, ZoneOK
  <2> HIDE DEF g, emptied
  <2>5. Becomes(gone, emptied, DOMAIN g, DOMAIN gone.index)
    BY <2>2, <2>3, <2>4, Relay
  <2> QED BY <2>2, <2>4, <2>5 DEF Becomes
<1>7. /\ ZoneOK(after) /\ DOMAIN after.ground = DOMAIN zs.ground \ {cs}
      /\ DOMAIN after.boxes \subseteq (DOMAIN zs.boxes \ {cs}) \cup Pack(p)
      /\ DOMAIN after.index = DOMAIN zs.index \ DOMAIN again
  <2>1. CASE cs = None
    <3>1. after = zs /\ DOMAIN again = {}
      BY <2>1 DEF Empty
    <3>2. cs \notin DOMAIN zs.ground \cup DOMAIN zs.boxes
      BY <1>1, <2>1, ItemsAssumption DEF ZoneOK, PartOf
    <3> HIDE DEF after, again, zs
    <3> QED BY <1>1, <3>1, <3>2
  <2>2. CASE cs # None /\ loose = Empty
    <3>1. after = emptied /\ DOMAIN loose = {}
      BY <2>2 DEF Empty
    <3> HIDE DEF after, again, zs, items, emptied, loose
    <3> QED BY <1>4, <1>5, <1>6, <2>2, <3>1
  <2>3. CASE cs # None /\ loose # Empty
    <3>1. after = UpsertAll(emptied, b, loose) /\ b \in Pack(p)
      BY <1>3, <2>3
    <3>2. b \in Serials
      BY <3>1 DEF Pack, IInv, Folk, PartOf
    <3> HIDE DEF after, again, zs, items, emptied, loose, b
    <3>3. DOMAIN loose \cap DOMAIN emptied.index = {}
      BY <1>5, <1>6, <2>3
    <3>4. Gains(emptied, after, b, DOMAIN loose)
      BY <1>5, <1>6, <2>3, <3>1, <3>2, <3>3, PackGains
    <3> QED BY <1>4, <1>5, <1>6, <2>3, <3>1, <3>4 DEF Gains
  <2> QED BY <2>1, <2>2, <2>3
<1> HIDE DEF after, again, loose, items
<1>8. DOMAIN zone' = Zones /\ \A y \in Zones : zone'[y] = IF y = z THEN after ELSE zone[y]
  BY <1>1, <1>2
<1>9. Stores'
  BY <1>7, <1>8 DEF Stores, IInv
<1>10. ASSUME NEW y \in Zones
       PROVE  /\ Records(y)' \subseteq (IF y = z THEN (Records(y) \ {cs}) \cup Pack(p) ELSE Records(y))
              /\ Ground(y)' = IF y = z THEN Ground(y) \ {cs} ELSE Ground(y)
              /\ DOMAIN zone'[y].index = IF y = z THEN DOMAIN zone[y].index \ DOMAIN Again(p, cs)
                                         ELSE DOMAIN zone[y].index
  <2>1. CASE y = z
    BY <1>4, <1>7, <1>8, <2>1 DEF Records, Ground
  <2>2. CASE y # z
    BY <1>8, <2>2 DEF Records, Ground
  <2> QED BY <2>1, <2>2
<1> HIDE DEF z
<1> QED BY <1>4, <1>9, <1>10 DEF z

Shrouds(p) == {i \in DOMAIN worn[p] : worn[p][i] = [layer |-> "robe", kind |-> "shroud"]}

LEMMA ResurrectKeeps ==
  ASSUME IInv, Gentle, NEW p \in Players, NEW cs \in DOMAIN corpse \cup {None}, Resurrect(p, cs)
  PROVE  IInv'
<1> DEFINE z == place[p]
           again == Again(p, cs)
           A == DOMAIN again
           shrouds == Shrouds(p)
           lost == {cs} \ {None}
<1>1. /\ worn' = [worn EXCEPT ![p] = Over(Without(worn[p], shrouds), again)]
      /\ wearer' = Over([i \in DOMAIN again |-> p], Without(wearer, shrouds))
      /\ corpse' = Without(corpse, {cs})
      /\ spent' = spent \cup shrouds \cup lost
      /\ dead' = [dead EXCEPT ![p] = FALSE]
      /\ news' = [news EXCEPT ![p] = IF online[p] THEN FALSE ELSE @]
      /\ UNCHANGED <<scene, lifts, place, fresh, online, told, held, back>>
      /\ cs # None => cs \in DOMAIN corpse /\ cs \in Records(z) \cap Ground(z)
  BY Zenon DEF Resurrect, Again, Shrouds
<1>2. /\ Stores' /\ A \subseteq DOMAIN zone[z].index
      /\ \A y \in Zones :
           /\ Records(y)' \subseteq (IF y = z THEN (Records(y) \ {cs}) \cup Pack(p) ELSE Records(y))
           /\ Ground(y)' = IF y = z THEN Ground(y) \ {cs} ELSE Ground(y)
           /\ DOMAIN zone'[y].index = IF y = z THEN DOMAIN zone[y].index \ A ELSE DOMAIN zone[y].index
  BY ResurrectZone
<1>3. /\ z \in Zones /\ z \in Sites /\ p \in Sites /\ "worn" \in Ways /\ "box" \in Ways /\ "ground" \in Ways
      /\ Here("worn", p) = z /\ Here("box", z) = z /\ shrouds \subseteq DOMAIN worn[p]
      /\ shrouds \subseteq Serials
  BY DEF IInv, Folk, Sites, Ways, Here, PartOf, Shrouds
<1>4. A \subseteq Serials /\ PartOf(again, Serials, Worn)
  <2>1. CASE cs = None
    BY <2>1 DEF Again, Empty, PartOf
  <2>2. CASE cs # None
    <3>1. PartOf(corpse[cs].layers, Serials, Worn)
      BY <1>1, <2>2 DEF IInv, Corpses
    <3> QED BY <2>2, <3>1 DEF Again, PartOf
  <2> QED BY <2>1, <2>2 DEF PartOf
<1>5. lost \subseteq Serials /\ \A o \in lost : o = cs /\ o \in Ground(z) /\ o \in Serials
  BY <1>1 DEF IInv, Corpses
<1> HIDE DEF again, A, shrouds, lost, z
<1>6. \A o \in A : At(o, "box", z)
  BY <1>2, <1>3 DEF At
<1>7. \A o \in shrouds : At(o, "worn", p)
  BY <1>3 DEF At
<1>8. \A o \in lost : At(o, "ground", z)
  BY <1>3, <1>5 DEF At
<1>9. \A o \in A : \A l \in Ways, x \in Sites : At(o, l, x) => l = "box" /\ x = z
  BY <1>3, <1>4, <1>6 DEF IInv, Single
<1>10. \A o \in shrouds : \A l \in Ways, x \in Sites : At(o, l, x) => l = "worn" /\ x = p
  BY <1>3, <1>7 DEF IInv, Single
<1>11. \A o \in lost : \A l \in Ways, x \in Sites : At(o, l, x) => l = "ground" /\ x = z
  BY <1>3, <1>5, <1>8 DEF IInv, Single
<1>12. \A o \in A \cup shrouds \cup lost : o \notin fresh \cup spent
  BY <1>3, <1>6, <1>7, <1>8 DEF IInv, Nowhere
<1>13. \A o \in A : o \notin shrouds /\ o \notin lost
  BY <1>3, <1>6, <1>10, <1>11
<1>14. \A o \in shrouds : o \notin lost
  BY <1>3, <1>7, <1>11
<1>15. /\ DOMAIN worn' = Players
       /\ \A q \in Players : DOMAIN worn'[q] = IF q = p THEN (DOMAIN worn[p] \ shrouds) \cup A ELSE DOMAIN worn[q]
       /\ \A q \in Players : PartOf(worn'[q], Serials, Worn)
  <2> DEFINE now == Over(Without(worn[p], shrouds), again)
  <2>1. DOMAIN worn = Players /\ \A q \in Players : PartOf(worn[q], Serials, Worn)
    BY DEF IInv, Folk
  <2>2. DOMAIN now = (DOMAIN worn[p] \ shrouds) \cup A /\ PartOf(now, Serials, Worn)
    BY <1>4, <2>1 DEF Over, Without, PartOf, A
  <2>3. worn' = [worn EXCEPT ![p] = now]
    BY <1>1
  <2> HIDE DEF now
  <2> QED BY <2>1, <2>2, <2>3
<1>16. \A q \in Players : \A j : /\ Holds(q, j)' <=> Holds(q, j)
                                 /\ Returns(q, j)' <=> Returns(q, j)
  BY <1>1, SitesStay
<1>17. \A o \in Serials, m \in Ways, w \in Sites :
         At(o, m, w)' <=> IF o \in A THEN m = "worn" /\ w = p
                          ELSE o \notin shrouds \cup lost /\ At(o, m, w)
  <2> SUFFICES ASSUME NEW o \in Serials, NEW m \in Ways, NEW w \in Sites
               PROVE  At(o, m, w)' <=> IF o \in A THEN m = "worn" /\ w = p
                                       ELSE o \notin shrouds \cup lost /\ At(o, m, w)
    OBVIOUS
  <2>1. CASE o \in A
    <3>1. /\ \A y \in Zones : o \notin Ground(y) /\ (o \in DOMAIN zone[y].index => y = z)
          /\ \A q \in Players : o \notin DOMAIN worn[q] /\ ~ Holds(q, o) /\ ~ Returns(q, o)
      BY <1>9, <2>1 DEF At, Ways, Sites
    <3>2. /\ \A y \in Zones : o \notin Ground(y)' /\ o \notin DOMAIN zone'[y].index
          /\ \A q \in Players : (o \in DOMAIN worn'[q] <=> q = p) /\ ~ Holds(q, o)' /\ ~ Returns(q, o)'
      BY <1>2, <1>15, <1>16, <2>1, <3>1
    <3> QED BY <2>1, <3>2 DEF At
  <2>2. CASE o \in shrouds
    <3>1. /\ \A y \in Zones : o \notin Ground(y) /\ o \notin DOMAIN zone[y].index
          /\ \A q \in Players : (o \in DOMAIN worn[q] => q = p) /\ ~ Holds(q, o) /\ ~ Returns(q, o)
      BY <1>10, <2>2 DEF At, Ways, Sites
    <3>2. /\ \A y \in Zones : o \notin Ground(y)' /\ o \notin DOMAIN zone'[y].index
          /\ \A q \in Players : o \notin DOMAIN worn'[q] /\ ~ Holds(q, o)' /\ ~ Returns(q, o)'
      BY <1>2, <1>13, <1>15, <1>16, <2>2, <3>1
    <3> QED BY <1>13, <2>2, <3>2 DEF At
  <2>3. CASE o \in lost
    <3>1. /\ \A y \in Zones : (o \in Ground(y) => y = z) /\ o \notin DOMAIN zone[y].index
          /\ \A q \in Players : o \notin DOMAIN worn[q] /\ ~ Holds(q, o) /\ ~ Returns(q, o)
      BY <1>11, <2>3 DEF At, Ways, Sites
    <3>2. /\ \A y \in Zones : o \notin Ground(y)' /\ o \notin DOMAIN zone'[y].index
          /\ \A q \in Players : o \notin DOMAIN worn'[q] /\ ~ Holds(q, o)' /\ ~ Returns(q, o)'
      BY <1>2, <1>5, <1>13, <1>15, <1>16, <2>3, <3>1
    <3> QED BY <1>13, <2>3, <3>2 DEF At
  <2>4. CASE o \notin A \cup shrouds \cup lost
    <3>1. \A y \in Zones : o \in Ground(y)' <=> o \in Ground(y)
      <4>1. o # cs \/ \A y \in Zones : o \notin Ground(y)
        <5>1. CASE cs = None
          BY <5>1, ItemsAssumption
        <5>2. CASE cs # None
          BY <5>2, <2>4 DEF lost
        <5> QED BY <5>1, <5>2
      <4> QED BY <1>2, <4>1
    <3>2. /\ \A y \in Zones : o \in DOMAIN zone'[y].index <=> o \in DOMAIN zone[y].index
          /\ \A q \in Players : o \in DOMAIN worn'[q] <=> o \in DOMAIN worn[q]
      BY <1>2, <1>15, <2>4
    <3> QED BY <1>16, <2>4, <3>1, <3>2 DEF At
  <2> QED BY <2>1, <2>2, <2>3, <2>4
<1> DEFINE S == A \cup shrouds \cup lost
<1>18. S \in SUBSET Serials
  BY <1>3, <1>4, <1>5
<1>19. Shifts(S)
  <2>1. \A i \in Serials \ S :
          /\ i \in fresh \cup spent <=> i \in fresh' \cup spent'
          /\ \A k \in Ways, x \in Sites : At(i, k, x)' <=> At(i, k, x)
    BY <1>1, <1>17
  <2>2. ASSUME NEW i \in A
        PROVE  /\ i \notin fresh' \cup spent'
               /\ \E k \in Ways, x \in Sites :
                    At(i, k, x)' /\ \A l \in Ways, y \in Sites : At(i, l, y)' => l = k /\ y = x
    BY <1>1, <1>3, <1>4, <1>12, <1>13, <1>17
  <2>3. ASSUME NEW i \in shrouds \cup lost
        PROVE  i \in fresh' \cup spent' /\ \A k \in Ways, x \in Sites : ~ At(i, k, x)'
    BY <1>1, <1>13, <1>17, <1>18
  <2>4. S = A \cup (shrouds \cup lost) /\ UNCHANGED scene /\ fresh' \subseteq fresh
    BY <1>1
  <2> HIDE DEF S
  <2> QED BY <2>1, <2>2, <2>3, <2>4 DEF Shifts
<1>20. Folk'
  BY <1>1, <1>3, <1>5, <1>12, <1>15 DEF IInv, Folk
<1>21. Corpses'
  BY <1>1 DEF IInv, Corpses, Without
<1>22. Sessions'
  BY <1>1, ItemsAssumption DEF IInv, Sessions
<1>23. Wearers'
  <2>1. /\ DOMAIN wearer' = A \cup (DOMAIN wearer \ shrouds)
        /\ \A i \in DOMAIN wearer' : wearer'[i] = IF i \in A THEN p ELSE wearer[i]
    BY <1>1 DEF Over, Without, A
  <2>2. \A i \in A : \A q \in Players : i \notin DOMAIN worn[q]
    BY <1>9 DEF At, Ways, Sites
  <2>3. PartOf(wearer', Serials, Players)
    BY <1>4, <2>1 DEF IInv, Wearers, PartOf
  <2>4. \A i \in DOMAIN wearer' : i \in DOMAIN worn'[wearer'[i]]
    BY <1>15, <2>1 DEF IInv, Wearers, PartOf
  <2>5. \A q \in Players : \A i \in DOMAIN worn'[q] : i \in DOMAIN wearer' /\ wearer'[i] = q
    <3> SUFFICES ASSUME NEW q \in Players, NEW i \in DOMAIN worn'[q]
                 PROVE  i \in DOMAIN wearer' /\ wearer'[i] = q
      OBVIOUS
    <3>1. CASE i \in A
      BY <1>15, <2>1, <2>2, <3>1
    <3>2. CASE i \notin A
      <4>1. i \in DOMAIN worn[q] /\ (q = p => i \notin shrouds)
        BY <1>15, <3>2
      <4>2. i \in DOMAIN wearer /\ wearer[i] = q
        BY <4>1 DEF IInv, Wearers
      <4>3. i \notin shrouds
        <5>1. ASSUME i \in shrouds PROVE q = p
          BY <1>3, <4>2, <5>1 DEF IInv, Wearers
        <5> QED BY <4>1, <5>1
      <4> QED BY <2>1, <3>2, <4>2, <4>3
    <3> QED BY <3>1, <3>2
  <2> QED BY <2>3, <2>4, <2>5 DEF Wearers
<1>24. Single' /\ Nowhere' /\ Kept'
  <2>1. (fresh \cup spent)' \subseteq Serials
    BY <1>20 DEF Folk
  <2> HIDE DEF S
  <2> QED BY <1>18, <1>19, <2>1, Shifted
<1>25. RecordsHere'
  <2> SUFFICES ASSUME NEW y \in Zones, NEW c \in Records(y)'
               PROVE  /\ c \notin fresh'
                      /\ \A v \in Zones : c \in Records(v)' => v = y
                      /\ \A k \in Ways, x \in Sites : At(c, k, x)' => Here(k, x)' = y
    BY Zenon DEF RecordsHere
  <2>1. \A k, x : Here(k, x)' = Here(k, x)
    BY <1>1 DEF Here
  <2>2. c \in Serials
    BY <1>2 DEF Stores, ZoneOK, Records
  <2>3. \A b \in Pack(p) : At(b, "worn", p) /\ b \in Serials
    BY <1>3 DEF Pack, At, IInv, Folk, PartOf
  <2>4. ASSUME NEW v \in Zones, c \in Records(v)' PROVE c \in Records(v) \/ (v = z /\ c \in Pack(p))
    BY <1>2, <2>4
  <2>5. ASSUME NEW v \in Zones, c \in Records(v), c \in Pack(p) PROVE v = z
    <3>1. At(c, "worn", p)
      BY <2>3, <2>5
    <3> QED BY <1>3, <2>5, <3>1 DEF IInv, RecordsHere
  <2>6. c \notin fresh'
    <3>1. CASE c \in Records(y)
      BY <1>1, <3>1 DEF IInv, RecordsHere
    <3>2. CASE c \in Pack(p)
      BY <1>1, <1>3, <2>3, <3>2 DEF IInv, Nowhere
    <3> QED BY <2>4, <3>1, <3>2
  <2>7. ASSUME NEW v \in Zones, c \in Records(v)' PROVE v = y
    <3>1. c \in Records(v) /\ c \in Records(y) => v = y
      BY DEF IInv, RecordsHere
    <3> QED BY <2>4, <2>5, <2>7, <3>1
  <2>8. ASSUME NEW k \in Ways, NEW x \in Sites, At(c, k, x)' PROVE Here(k, x) = y
    <3>1. CASE c \in Records(y)
      <4>1. \A l \in Ways, w \in Sites : At(c, l, w) => Here(l, w) = y
        BY <3>1 DEF IInv, RecordsHere
      <4>2. CASE c \in A
        <5>1. y = z
          BY <1>3, <1>6, <4>1, <4>2
        <5> QED BY <1>3, <1>17, <2>2, <2>8, <4>2, <5>1
      <4>3. CASE c \notin A
        BY <1>17, <2>2, <2>8, <4>1, <4>3
      <4> QED BY <4>2, <4>3
    <3>2. CASE y = z /\ c \in Pack(p)
      <4>1. At(c, "worn", p)
        BY <2>3, <3>2
      <4>2. \A l \in Ways, w \in Sites : At(c, l, w) => l = "worn" /\ w = p
        BY <1>3, <2>2, <4>1 DEF IInv, Single
      <4>3. k = "worn" /\ x = p
        BY <1>17, <2>2, <2>8, <4>2
      <4> QED BY <1>3, <3>2, <4>3
    <3> QED BY <2>4, <3>1, <3>2
  <2> QED BY <2>1, <2>6, <2>7, <2>8
<1> QED BY <1>2, <1>20, <1>21, <1>22, <1>23, <1>24, <1>25 DEF IInv

-----------------------------------------------------------------------------
(* Transfer *)

\* The containers that go along are closed, and each but the backpack is in another of them.
LEMMA CarriedIsClosed ==
  ASSUME NEW p
  PROVE  LET z == place[p] IN
         /\ Carried(p) \subseteq Records(z)
         /\ \A c \in Carried(p) : DOMAIN zone[z].boxes[c] \cap Records(z) \subseteq Carried(p)
         /\ \A c \in Carried(p) : c \in Pack(p) \/ \E d \in Carried(p) : c \in DOMAIN zone[z].boxes[d]
<1> DEFINE z == place[p]
           Within(S) == \A c \in S \cap Records(z) : DOMAIN zone[z].boxes[c] \cap Records(z) \subseteq S
           start == IF Pack(p) = {} THEN {} ELSE {CHOOSE b \in Pack(p) : TRUE}
           M == Carried(p)
           T == {x \in Records(z) : x \in start \/ \E d \in M : x \in DOMAIN zone[z].boxes[d]}
<1>1. \A c : c \in M <=> /\ c \in Records(z)
                         /\ \A S \in SUBSET Records(z) : start \cap Records(z) \subseteq S /\ Within(S) => c \in S
  BY Zenon DEF Carried
<1>2. start \subseteq Pack(p)
  OBVIOUS
<1> HIDE DEF M, start, z
<1>3. M \subseteq Records(z) /\ start \cap Records(z) \subseteq M
  BY <1>1
<1>4. ASSUME NEW c \in M, NEW d \in DOMAIN zone[z].boxes[c] \cap Records(z) PROVE d \in M
  <2> SUFFICES ASSUME NEW S \in SUBSET Records(z), start \cap Records(z) \subseteq S, Within(S) PROVE d \in S
    BY <1>1
  <2>1. c \in S /\ c \in Records(z)
    BY <1>1
  <2> QED BY <2>1
<1>5. T \in SUBSET Records(z) /\ start \cap Records(z) \subseteq T
  OBVIOUS
<1>6. T \subseteq M
  BY <1>3, <1>4
<1>7. Within(T)
  BY <1>6
<1>8. M \subseteq T
  <2> HIDE DEF T, Within
  <2> QED BY <1>1, <1>5, <1>7
<1> QED BY <1>2, <1>3, <1>4, <1>8 DEF M, z

\* Containers go from the zone zs to the zone ts, with the things in them.
Inside(zs, moved)  == UNION {DOMAIN zs.boxes[c] : c \in moved}
Emptier(zs, moved) == [zs EXCEPT !.boxes = Without(@, moved), !.index = Without(@, Inside(zs, moved))]
Fuller(ts, zs, moved) ==
  [ts EXCEPT !.boxes = Over([c \in moved |-> zs.boxes[c]], @),
             !.index = Over([i \in Inside(zs, moved) |-> zs.index[i]], @)]

LEMMA ContainersGo ==
  ASSUME NEW zs, ZoneOK(zs), NEW ts, ZoneOK(ts), NEW moved \in SUBSET DOMAIN zs.boxes,
         moved \cap DOMAIN ts.boxes = {}, DOMAIN zs.index \cap DOMAIN ts.index = {}
  PROVE  LET things == Inside(zs, moved)
             zn == Emptier(zs, moved)
             tn == Fuller(ts, zs, moved) IN
         /\ ZoneOK(zn) /\ DOMAIN zn.ground = DOMAIN zs.ground
         /\ DOMAIN zn.boxes = DOMAIN zs.boxes \ moved /\ DOMAIN zn.index = DOMAIN zs.index \ things
         /\ ZoneOK(tn) /\ DOMAIN tn.ground = DOMAIN ts.ground
         /\ DOMAIN tn.boxes = DOMAIN ts.boxes \cup moved /\ DOMAIN tn.index = DOMAIN ts.index \cup things
         /\ things \subseteq DOMAIN zs.index
<1> DEFINE things == Inside(zs, moved)
           zn == Emptier(zs, moved)
           tn == Fuller(ts, zs, moved)
<1>1. /\ things \subseteq DOMAIN zs.index
      /\ \A i \in things : zs.index[i] \in moved
      /\ \A i \in DOMAIN zs.index : zs.index[i] \in moved => i \in things
      /\ \A c \in DOMAIN zs.boxes \ moved : \A i \in DOMAIN zs.boxes[c] : i \notin things
  BY DEF ZoneOK, Exact, In, Inside
<1>2. /\ DOMAIN zn = {"ground", "boxes", "index"} /\ zn.ground = zs.ground
      /\ zn.boxes = Without(zs.boxes, moved) /\ zn.index = Without(zs.index, things)
  BY DEF ZoneOK, Emptier
<1>3. /\ DOMAIN tn = {"ground", "boxes", "index"} /\ tn.ground = ts.ground
      /\ tn.boxes = Over([c \in moved |-> zs.boxes[c]], ts.boxes)
      /\ tn.index = Over([i \in things |-> zs.index[i]], ts.index)
  BY DEF ZoneOK, Fuller
<1> HIDE DEF zn, tn, things
<1>4. /\ DOMAIN zn.boxes = DOMAIN zs.boxes \ moved /\ \A c \in DOMAIN zn.boxes : zn.boxes[c] = zs.boxes[c]
      /\ DOMAIN zn.index = DOMAIN zs.index \ things /\ \A i \in DOMAIN zn.index : zn.index[i] = zs.index[i]
  BY <1>2 DEF Without
<1>5. /\ DOMAIN tn.boxes = DOMAIN ts.boxes \cup moved
      /\ \A c \in DOMAIN tn.boxes : tn.boxes[c] = IF c \in moved THEN zs.boxes[c] ELSE ts.boxes[c]
      /\ DOMAIN tn.index = DOMAIN ts.index \cup things
      /\ \A i \in DOMAIN tn.index : tn.index[i] = IF i \in things THEN zs.index[i] ELSE ts.index[i]
  BY <1>3 DEF Over
<1>6. ZoneOK(zn)
  <2>1. Exact(zn)
    BY <1>1, <1>4 DEF ZoneOK, Exact, In
  <2> QED BY <1>2, <1>4, <2>1 DEF ZoneOK
<1>7. ZoneOK(tn)
  <2>1. \A i \in DOMAIN tn.index : In(tn, tn.index[i], i)
    <3> SUFFICES ASSUME NEW i \in DOMAIN tn.index PROVE In(tn, tn.index[i], i)
      OBVIOUS
    <3>1. CASE i \in things
      BY <1>1, <1>5, <3>1 DEF ZoneOK, Exact, In
    <3>2. CASE i \notin things
      <4>1. i \in DOMAIN ts.index /\ tn.index[i] = ts.index[i] /\ In(ts, ts.index[i], i)
        BY <1>5, <3>2 DEF ZoneOK, Exact
      <4> QED BY <1>5, <4>1 DEF In
    <3> QED BY <3>1, <3>2
  <2>2. \A c \in DOMAIN tn.boxes : \A i \in DOMAIN tn.boxes[c] : i \in DOMAIN tn.index /\ tn.index[i] = c
    <3> SUFFICES ASSUME NEW c \in DOMAIN tn.boxes, NEW i \in DOMAIN tn.boxes[c]
                 PROVE  i \in DOMAIN tn.index /\ tn.index[i] = c
      OBVIOUS
    <3>1. CASE c \in moved
      <4>1. i \in things /\ zs.index[i] = c
        BY <1>5, <3>1 DEF ZoneOK, Exact, things, Inside
      <4> QED BY <1>5, <4>1
    <3>2. CASE c \notin moved
      <4>1. i \in DOMAIN ts.index /\ ts.index[i] = c
        BY <1>5, <3>2 DEF ZoneOK, Exact
      <4>2. i \notin things
        BY <1>1, <4>1
      <4> QED BY <1>5, <4>1, <4>2
    <3> QED BY <3>1, <3>2
  <2>3. DOMAIN tn.boxes \subseteq Serials /\ \A c \in DOMAIN tn.boxes : PartOf(tn.boxes[c], Serials, Item)
    BY <1>5 DEF ZoneOK
  <2> QED BY <1>3, <2>1, <2>2, <2>3 DEF ZoneOK, Exact
<1> QED BY <1>1, <1>2, <1>3, <1>4, <1>5, <1>6, <1>7 DEF zn, tn, things

LEMMA TransferKeeps ==
  ASSUME IInv, Gentle, NEW p \in Players, NEW to \in Zones, Transfer(p, to)
  PROVE  IInv'
<1> DEFINE z == place[p]
           moved == Carried(p)
           things == Inside(zone[z], moved)
           zn == Emptier(zone[z], moved)
           tn == Fuller(zone[to], zone[z], moved)
<1>1. /\ ~ Busy(p) /\ to # z
      /\ "carry" \in scene.acts \/ LeftBehind(p) = {}
      /\ place' = [place EXCEPT ![p] = to]
      /\ corpse' = [cs \in DOMAIN corpse |->
                     IF cs \in things \cup DOMAIN worn[p] /\ corpse[cs].zone = z
                       THEN [corpse[cs] EXCEPT !.zone = to] ELSE corpse[cs]]
      /\ UNCHANGED <<scene, lifts, gear, dead, fresh, spent, session, held, back>>
  BY Zenon DEF Transfer, Inside
<1>2. z \in Zones /\ z \in Sites /\ p \in Sites /\ to \in Sites /\ "worn" \in Ways /\ "box" \in Ways
  BY DEF IInv, Folk, Sites, Ways
<1>3. zone' = [zone EXCEPT ![z] = zn, ![to] = tn]
  BY Zenon DEF Transfer, Emptier, Fuller, Inside
<1>4. LeftBehind(p) = {}
  BY <1>1 DEF Gentle, IInv, Folk
<1>5. /\ moved \subseteq Records(z)
      /\ \A c \in moved : DOMAIN zone[z].boxes[c] \cap Records(z) \subseteq moved
      /\ \A c \in moved : c \in Pack(p) \/ \E d \in moved : c \in DOMAIN zone[z].boxes[d]
  BY CarriedIsClosed
<1>6. \A o \in Serials : \A y, v \in Zones : o \in DOMAIN zone[y].index /\ o \in DOMAIN zone[v].index => y = v
  <2>1. \A o \in Serials : \A y, v \in Zones : At(o, "box", y) /\ At(o, "box", v) => y = v
    BY <1>2 DEF IInv, Single, Sites
  <2> QED BY <2>1 DEF At
<1>7. /\ ZoneOK(zn) /\ DOMAIN zn.ground = DOMAIN zone[z].ground
      /\ DOMAIN zn.boxes = DOMAIN zone[z].boxes \ moved /\ DOMAIN zn.index = DOMAIN zone[z].index \ things
      /\ ZoneOK(tn) /\ DOMAIN tn.ground = DOMAIN zone[to].ground
      /\ DOMAIN tn.boxes = DOMAIN zone[to].boxes \cup moved
      /\ DOMAIN tn.index = DOMAIN zone[to].index \cup things
      /\ things \subseteq DOMAIN zone[z].index
  <2>1. ZoneOK(zone[z]) /\ ZoneOK(zone[to])
    BY <1>2 DEF IInv, Stores
  <2>2. moved \in SUBSET DOMAIN zone[z].boxes
    BY <1>5 DEF Records
  <2>3. moved \cap DOMAIN zone[to].boxes = {}
    BY <1>1, <1>2, <1>5 DEF Records, IInv, RecordsHere
  <2>4. DOMAIN zone[z].index \cap DOMAIN zone[to].index = {}
    BY <1>1, <1>2, <1>6, <2>1 DEF ZoneOK, PartOf, Exact, In
  <2> HIDE DEF moved, z
  <2> QED BY <2>1, <2>2, <2>3, <2>4, ContainersGo
<1>8. \A c \in Records(z) : c \in things => c \in moved
  BY <1>5 DEF Inside
<1> HIDE DEF moved, zn, tn
<1>9. things \subseteq Serials
  <2>1. things \subseteq DOMAIN zone[z].index
    BY <1>7
  <2>2. DOMAIN zone[z].index \subseteq Serials
    BY <1>2, IndexedIsSerial DEF IInv, Stores
  <2> QED BY <2>1, <2>2
<1> HIDE DEF things
<1>10. DOMAIN zone' = Zones /\ \A y \in Zones : zone'[y] = IF y = to THEN tn ELSE IF y = z THEN zn ELSE zone[y]
  BY <1>1, <1>2, <1>3 DEF IInv, Stores
<1>11. Stores'
  BY <1>7, <1>10 DEF IInv, Stores
<1>12. \A y \in Zones :
         /\ Ground(y)' = Ground(y)
         /\ Records(y)' = IF y = to THEN Records(y) \cup moved ELSE IF y = z THEN Records(y) \ moved ELSE Records(y)
         /\ DOMAIN zone'[y].index = IF y = to THEN DOMAIN zone[y].index \cup things
                                    ELSE IF y = z THEN DOMAIN zone[y].index \ things ELSE DOMAIN zone[y].index
  <2>1. ASSUME NEW y \in Zones
        PROVE  /\ Ground(y)' = Ground(y)
               /\ Records(y)' = IF y = to THEN Records(y) \cup moved
                                ELSE IF y = z THEN Records(y) \ moved ELSE Records(y)
               /\ DOMAIN zone'[y].index = IF y = to THEN DOMAIN zone[y].index \cup things
                                          ELSE IF y = z THEN DOMAIN zone[y].index \ things ELSE DOMAIN zone[y].index
    <3>1. CASE y = to
      BY <1>7, <1>10, <3>1 DEF Ground, Records
    <3>2. CASE y = z
      BY <1>1, <1>7, <1>10, <3>2 DEF Ground, Records
    <3>3. CASE y # to /\ y # z
      BY <1>10, <3>3 DEF Ground, Records
    <3> QED BY <3>1, <3>2, <3>3
  <2> QED BY <2>1
<1>13. \A q \in Players : \A j : /\ Holds(q, j)' <=> Holds(q, j)
                                 /\ Returns(q, j)' <=> Returns(q, j)
  BY <1>1, SitesStay
<1> HIDE DEF z
<1>14. \A o \in things : At(o, "box", z) /\ \A l \in Ways, x \in Sites : At(o, l, x) => l = "box" /\ x = z
  <2>1. \A o \in things : At(o, "box", z)
    BY <1>2, <1>7 DEF At
  <2> QED BY <1>2, <1>9, <2>1 DEF IInv, Single
<1>15. \A o \in Serials, m \in Ways, w \in Sites :
         At(o, m, w)' <=> IF o \in things THEN m = "box" /\ w = to ELSE At(o, m, w)
  <2> SUFFICES ASSUME NEW o \in Serials, NEW m \in Ways, NEW w \in Sites
               PROVE  At(o, m, w)' <=> IF o \in things THEN m = "box" /\ w = to ELSE At(o, m, w)
    OBVIOUS
  <2>0. \A q \in Players : o \in DOMAIN worn'[q] <=> o \in DOMAIN worn[q]
    BY <1>1 DEF gear
  <2>1. CASE o \in things
    <3>1. /\ \A y \in Zones : o \notin Ground(y) /\ (o \in DOMAIN zone[y].index => y = z)
          /\ \A q \in Players : o \notin DOMAIN worn[q] /\ ~ Holds(q, o) /\ ~ Returns(q, o)
      BY <1>14, <2>1 DEF At, Ways, Sites
    <3>2. /\ \A y \in Zones : o \notin Ground(y)' /\ (o \in DOMAIN zone'[y].index <=> y = to)
          /\ \A q \in Players : o \notin DOMAIN worn'[q] /\ ~ Holds(q, o)' /\ ~ Returns(q, o)'
      BY <1>1, <1>2, <1>12, <1>13, <2>0, <2>1, <3>1
    <3> QED BY <2>1, <3>2 DEF At
  <2>2. CASE o \notin things
    <3>1. \A y \in Zones : o \in DOMAIN zone'[y].index <=> o \in DOMAIN zone[y].index
      BY <1>12, <2>2
    <3> QED BY <1>12, <1>13, <2>0, <2>2, <3>1 DEF At
  <2> QED BY <2>1, <2>2
<1>16. Folk'
  BY <1>1 DEF IInv, Folk, gear
<1>17. Corpses'
  <2>1. DOMAIN corpse' = DOMAIN corpse
    BY <1>1
  <2>2. ASSUME NEW cs \in DOMAIN corpse
        PROVE  /\ corpse'[cs].owner \in Players /\ corpse'[cs].zone \in Zones
               /\ PartOf(corpse'[cs].layers, Serials, Worn)
    <3>1. /\ corpse[cs].owner \in Players /\ corpse[cs].zone \in Zones
          /\ PartOf(corpse[cs].layers, Serials, Worn)
      BY DEF IInv, Corpses
    <3>2. corpse'[cs] = corpse[cs] \/ corpse'[cs] = [corpse[cs] EXCEPT !.zone = to]
      BY <1>1
    <3>3. CASE corpse'[cs] = corpse[cs]
      BY <3>1, <3>3
    <3>4. CASE corpse'[cs] = [corpse[cs] EXCEPT !.zone = to]
      <4>1. /\ corpse'[cs].owner = corpse[cs].owner /\ corpse'[cs].layers = corpse[cs].layers
            /\ corpse'[cs].zone = to \/ corpse'[cs].zone = corpse[cs].zone
        BY <3>4
      <4> QED BY <3>1, <4>1
    <3> QED BY <3>2, <3>3, <3>4
  <2> QED BY <2>1, <2>2, <1>1 DEF IInv, Corpses
<1>18. Sessions' /\ Wearers'
  BY <1>1 DEF IInv, Sessions, session, Wearers, gear
<1>19. Single' /\ Nowhere' /\ Kept'
  <2>1. Shifts(things)
    <3>1. \A i \in things : i \notin fresh' \cup spent'
      BY <1>1, <1>2, <1>9, <1>14 DEF IInv, Nowhere
    <3> QED BY <1>1, <1>2, <1>9, <1>15, <3>1 DEF Shifts
  <2> QED BY <1>9, <1>16, <2>1, Shifted DEF Folk
<1>20. RecordsHere'
  <2> SUFFICES ASSUME NEW y \in Zones, NEW c \in Records(y)'
               PROVE  /\ c \notin fresh'
                      /\ \A v \in Zones : c \in Records(v)' => v = y
                      /\ \A k \in Ways, x \in Sites : At(c, k, x)' => Here(k, x)' = y
    BY Zenon DEF RecordsHere
  <2>1. PICK y0 \in Zones : c \in Records(y0) /\ IF c \in moved THEN y0 = z /\ y = to ELSE y0 = y
    <3>1. CASE c \in moved
      <4>1. c \in Records(z)
        BY <1>5, <3>1
      <4>2. y = to
        <5>1. y # to => c \in Records(y) /\ y # z
          BY <1>12, <3>1
        <5> QED BY <1>2, <4>1, <5>1 DEF IInv, RecordsHere
      <4> QED BY <1>2, <3>1, <4>1, <4>2
    <3>2. CASE c \notin moved
      <4>1. c \in Records(y)
        BY <1>12, <3>2
      <4> QED BY <3>2, <4>1
    <3> QED BY <3>1, <3>2
  <2>2. /\ c \in Serials /\ c \notin fresh'
        /\ \A v \in Zones : c \in Records(v) => v = y0
        /\ \A k \in Ways, x \in Sites : At(c, k, x) => Here(k, x) = y0
    BY <1>1, <2>1 DEF IInv, RecordsHere, Stores, ZoneOK, Records
  <2>3. ASSUME NEW v \in Zones, c \in Records(v)' PROVE v = y
    <3>1. CASE c \in moved
      <4>1. v # to => c \in Records(v) /\ v # z
        BY <1>12, <2>3, <3>1
      <4> QED BY <2>1, <2>2, <3>1, <4>1
    <3>2. CASE c \notin moved
      BY <1>12, <2>1, <2>2, <2>3, <3>2
    <3> QED BY <3>1, <3>2
  <2>4. ASSUME NEW k \in Ways, NEW x \in Sites, At(c, k, x)' PROVE Here(k, x)' = y
    <3>0. Here(k, x)' = IF k \notin {"ground", "box"} /\ x = p THEN to ELSE Here(k, x)
      <4>1. k \notin {"ground", "box"} => x \in Players
        BY <2>4 DEF At
      <4> QED BY <1>1, <4>1 DEF Here, IInv, Folk
    <3>1. CASE c \in things
      <4>1. c \in moved /\ k = "box" /\ x = to
        <5>1. y0 = z
          BY <1>2, <1>14, <2>2, <3>1 DEF Here
        <5> QED BY <1>8, <1>15, <2>1, <2>2, <2>4, <3>1, <5>1
      <4> QED BY <2>1, <4>1 DEF Here
    <3>2. CASE c \notin things /\ c \in moved
      <4>1. c \in Pack(p)
        BY <1>5, <3>2 DEF things, Inside
      <4>2. At(c, "worn", p)
        BY <4>1 DEF Pack, At
      <4>3. k = "worn" /\ x = p
        BY <1>2, <1>15, <2>2, <2>4, <3>2, <4>2 DEF IInv, Single
      <4> QED BY <2>1, <3>0, <3>2, <4>3
    <3>3. CASE c \notin things /\ c \notin moved
      <4>1. At(c, k, x) /\ Here(k, x) = y
        BY <1>15, <2>1, <2>2, <2>4, <3>3
      <4>2. ASSUME k \notin {"ground", "box"}, x = p PROVE FALSE
        <5>1. c \in Records(z) \ Carried(p)
          BY <2>1, <3>3, <4>1, <4>2 DEF Here, z, moved
        <5>2. c \notin DOMAIN worn[p] /\ ~ Holds(p, c)
          BY <1>4, <5>1 DEF LeftBehind, Holds, z
        <5>3. ~ Returns(p, c)
          BY <1>1 DEF Returns
        <5> QED BY <4>1, <4>2, <5>2, <5>3 DEF At
      <4> QED BY <3>0, <4>1, <4>2
    <3> QED BY <3>1, <3>2, <3>3
  <2> QED BY <2>2, <2>3, <2>4
<1> QED BY <1>11, <1>16, <1>17, <1>18, <1>19, <1>20 DEF IInv

-----------------------------------------------------------------------------
(* The start *)

LEMMA RestsIs ==
  ASSUME NEW ground, NEW boxes, NEW wears, NEW i
  PROVE  LET at == Rests(ground, boxes, wears, i) IN
         /\ \A z \in Zones : i \in DOMAIN ground[z] => <<"ground", z>> \in at
         /\ \A z \in Zones : \A c \in DOMAIN boxes[z] : i \in DOMAIN boxes[z][c] => <<"box", z, c>> \in at
         /\ \A p \in Players : i \in DOMAIN wears[p] => <<"worn", p>> \in at
         /\ \A x \in at : \/ \E z \in Zones : i \in DOMAIN ground[z] /\ x = <<"ground", z>>
                          \/ \E z \in Zones : \E c \in DOMAIN boxes[z] : i \in DOMAIN boxes[z][c] /\ x = <<"box", z, c>>
                          \/ \E p \in Players : i \in DOMAIN wears[p] /\ x = <<"worn", p>>
<1> DEFINE G == {<<"ground", z>> : z \in {y \in Zones : i \in DOMAIN ground[y]}}
           B(z) == {<<"box", z, c>> : c \in {d \in DOMAIN boxes[z] : i \in DOMAIN boxes[z][d]}}
           W == {<<"worn", p>> : p \in {q \in Players : i \in DOMAIN wears[q]}}
<1>1. Rests(ground, boxes, wears, i) = G \cup (UNION {B(z) : z \in Zones}) \cup W
  BY Zenon DEF Rests
<1>2. /\ \A z \in Zones : i \in DOMAIN ground[z] => <<"ground", z>> \in G
      /\ \A x \in G : \E z \in Zones : i \in DOMAIN ground[z] /\ x = <<"ground", z>>
  BY Zenon
<1>3. \A z \in Zones :
         /\ \A c \in DOMAIN boxes[z] : i \in DOMAIN boxes[z][c] => <<"box", z, c>> \in B(z)
         /\ \A x \in B(z) : \E c \in DOMAIN boxes[z] : i \in DOMAIN boxes[z][c] /\ x = <<"box", z, c>>
  BY Zenon
<1>4. /\ \A p \in Players : i \in DOMAIN wears[p] => <<"worn", p>> \in W
      /\ \A x \in W : \E p \in Players : i \in DOMAIN wears[p] /\ x = <<"worn", p>>
  BY Zenon
<1> DEFINE A == Rests(ground, boxes, wears, i)
<1> HIDE DEF G, B, W, A
<1>5. \A z \in Zones : i \in DOMAIN ground[z] => <<"ground", z>> \in A
  BY <1>1, <1>2 DEF A
<1>6. \A z \in Zones : \A c \in DOMAIN boxes[z] : i \in DOMAIN boxes[z][c] => <<"box", z, c>> \in A
  BY <1>1, <1>3 DEF A
<1>7. \A p \in Players : i \in DOMAIN wears[p] => <<"worn", p>> \in A
  BY <1>1, <1>4 DEF A
<1>8. ASSUME NEW x \in A
      PROVE  \/ \E z \in Zones : i \in DOMAIN ground[z] /\ x = <<"ground", z>>
             \/ \E z \in Zones : \E c \in DOMAIN boxes[z] : i \in DOMAIN boxes[z][c] /\ x = <<"box", z, c>>
             \/ \E p \in Players : i \in DOMAIN wears[p] /\ x = <<"worn", p>>
  <2>1. x \in G \/ (\E z \in Zones : x \in B(z)) \/ x \in W
    BY <1>1 DEF A
  <2>2. CASE x \in G
    BY <1>2, <2>2
  <2>3. CASE \E z \in Zones : x \in B(z)
    BY <1>3, <2>3
  <2>4. CASE x \in W
    BY <1>4, <2>4
  <2> QED BY <2>1, <2>2, <2>3, <2>4
<1> QED BY <1>5, <1>6, <1>7, <1>8, Zenon DEF A

LEMMA TuplesDiffer ==
  ASSUME NEW a, NEW b, NEW c, NEW x, NEW y, NEW z
  PROVE  /\ <<"ground", a>> = <<"ground", x>> => a = x
         /\ <<"worn", a>> = <<"worn", x>> => a = x
         /\ <<"box", a, b>> = <<"box", x, y>> => a = x /\ b = y
         /\ <<"ground", a>> # <<"worn", x>> /\ <<"ground", a>> # <<"box", x, y>> /\ <<"worn", a>> # <<"box", x, y>>
OBVIOUS

LEMMA InitIInv ==
  ASSUME Init
  PROVE  IInv
<1> DEFINE at(i) == Rests(scene.ground, scene.boxes, scene.worn, i)
<1>1. scene \in Scenarios /\ Orderly(scene)
  BY ItemsAssumption DEF Init
<1>2. /\ scene.lifts \in Nat /\ scene.fresh \subseteq Serials /\ scene.spent \subseteq Serials \ scene.fresh
      /\ scene.place \in [Players -> Zones]
      /\ DOMAIN scene.ground = Zones /\ DOMAIN scene.boxes = Zones /\ DOMAIN scene.worn = Players
      /\ \A z \in Zones : /\ PartOf(scene.ground[z], Serials, Item) /\ DOMAIN scene.boxes[z] \subseteq Serials
                          /\ \A c \in DOMAIN scene.boxes[z] : PartOf(scene.boxes[z][c], Serials, Item)
      /\ \A p \in Players : PartOf(scene.worn[p], Serials, Worn)
  BY <1>1, Zenon DEF Orderly
<1>3. \A i \in Serials : /\ at(i) = {} <=> i \in scene.fresh \cup scene.spent
                         /\ \A x, y \in at(i) : x = y
  BY <1>1, Zenon DEF Orderly
<1>4. \A z \in Zones : \A c \in DOMAIN scene.boxes[z] :
        /\ c \notin scene.fresh
        /\ \A y \in Zones \ {z} : /\ c \notin DOMAIN scene.boxes[y] \cup DOMAIN scene.ground[y]
                                  /\ \A d \in DOMAIN scene.boxes[y] : c \notin DOMAIN scene.boxes[y][d]
        /\ \A p \in Players : c \in DOMAIN scene.worn[p] => scene.place[p] = z
  BY <1>1, Zenon DEF Orderly
<1>5. /\ lifts = 0 /\ worn = scene.worn /\ place = scene.place /\ dead = [p \in Players |-> FALSE]
      /\ corpse = Empty /\ fresh = scene.fresh /\ spent = scene.spent
      /\ online = [p \in Players |-> TRUE] /\ news = [p \in Players |-> None] /\ told = [p \in Players |-> FALSE]
      /\ held = [p \in Players |-> None] /\ back = [p \in Players |-> None]
      /\ wearer = [i \in UNION {DOMAIN worn[p] : p \in Players} |-> CHOOSE p \in Players : i \in DOMAIN worn[p]]
      /\ zone = [z \in Zones |-> [ground |-> scene.ground[z], boxes |-> scene.boxes[z],
                                  index |-> Indexed(scene.boxes[z])]]
  BY Zenon DEF Init
<1>6. \A i : /\ \A z \in Zones : i \in DOMAIN scene.ground[z] => <<"ground", z>> \in at(i)
             /\ \A z \in Zones : \A c \in DOMAIN scene.boxes[z] :
                  i \in DOMAIN scene.boxes[z][c] => <<"box", z, c>> \in at(i)
             /\ \A p \in Players : i \in DOMAIN scene.worn[p] => <<"worn", p>> \in at(i)
             /\ \A x \in at(i) :
                  \/ \E z \in Zones : i \in DOMAIN scene.ground[z] /\ x = <<"ground", z>>
                  \/ \E z \in Zones : \E c \in DOMAIN scene.boxes[z] :
                       i \in DOMAIN scene.boxes[z][c] /\ x = <<"box", z, c>>
                  \/ \E p \in Players : i \in DOMAIN scene.worn[p] /\ x = <<"worn", p>>
  <2> SUFFICES ASSUME NEW i
               PROVE  /\ \A z \in Zones : i \in DOMAIN scene.ground[z] => <<"ground", z>> \in at(i)
                      /\ \A z \in Zones : \A c \in DOMAIN scene.boxes[z] :
                           i \in DOMAIN scene.boxes[z][c] => <<"box", z, c>> \in at(i)
                      /\ \A p \in Players : i \in DOMAIN scene.worn[p] => <<"worn", p>> \in at(i)
                      /\ \A x \in at(i) :
                           \/ \E z \in Zones : i \in DOMAIN scene.ground[z] /\ x = <<"ground", z>>
                           \/ \E z \in Zones : \E c \in DOMAIN scene.boxes[z] :
                                i \in DOMAIN scene.boxes[z][c] /\ x = <<"box", z, c>>
                           \/ \E p \in Players : i \in DOMAIN scene.worn[p] /\ x = <<"worn", p>>
    OBVIOUS
  <2> DEFINE g == scene.ground
             b == scene.boxes
             w == scene.worn
  <2> HIDE DEF g, b, w
  <2>1. LET a == Rests(g, b, w, i) IN
        /\ \A z \in Zones : i \in DOMAIN g[z] => <<"ground", z>> \in a
        /\ \A z \in Zones : \A c \in DOMAIN b[z] : i \in DOMAIN b[z][c] => <<"box", z, c>> \in a
        /\ \A p \in Players : i \in DOMAIN w[p] => <<"worn", p>> \in a
        /\ \A x \in a : \/ \E z \in Zones : i \in DOMAIN g[z] /\ x = <<"ground", z>>
                        \/ \E z \in Zones : \E c \in DOMAIN b[z] : i \in DOMAIN b[z][c] /\ x = <<"box", z, c>>
                        \/ \E p \in Players : i \in DOMAIN w[p] /\ x = <<"worn", p>>
    BY RestsIs
  <2> QED BY <2>1, Zenon DEF g, b, w
<1> HIDE DEF at
<1>7. ASSUME NEW z \in Zones, NEW c \in DOMAIN scene.boxes[z], NEW i \in DOMAIN scene.boxes[z][c]
      PROVE  /\ i \in Serials
             /\ \A y \in Zones : i \notin DOMAIN scene.ground[y]
             /\ \A p \in Players : i \notin DOMAIN scene.worn[p]
             /\ \A y \in Zones : \A d \in DOMAIN scene.boxes[y] : i \in DOMAIN scene.boxes[y][d] => y = z /\ d = c
  <2>1. i \in Serials
    BY <1>2 DEF PartOf
  <2>2. <<"box", z, c>> \in at(i) /\ \A x \in at(i) : x = <<"box", z, c>>
    BY <1>3, <1>6, <2>1
  <2>3. \A y \in Zones : i \notin DOMAIN scene.ground[y]
    BY <1>6, <2>2, TuplesDiffer
  <2>4. \A p \in Players : i \notin DOMAIN scene.worn[p]
    BY <1>6, <2>2, TuplesDiffer
  <2>5. ASSUME NEW y \in Zones, NEW d \in DOMAIN scene.boxes[y], i \in DOMAIN scene.boxes[y][d]
        PROVE  y = z /\ d = c
    <3>1. <<"box", y, d>> = <<"box", z, c>>
      BY <1>6, <2>2, <2>5
    <3> QED BY <3>1
  <2> QED BY <2>1, <2>3, <2>4, <2>5
<1>8. ASSUME NEW p \in Players, NEW i \in DOMAIN scene.worn[p]
      PROVE  /\ i \in Serials
             /\ \A y \in Zones : i \notin DOMAIN scene.ground[y]
             /\ \A q \in Players : i \in DOMAIN scene.worn[q] => q = p
  <2>1. i \in Serials
    BY <1>2 DEF PartOf
  <2>2. <<"worn", p>> \in at(i) /\ \A x \in at(i) : x = <<"worn", p>>
    BY <1>3, <1>6, <2>1
  <2> QED BY <1>6, <2>1, <2>2, TuplesDiffer
<1>9. ASSUME NEW z \in Zones, NEW i \in DOMAIN scene.ground[z]
      PROVE  i \in Serials /\ \A y \in Zones : i \in DOMAIN scene.ground[y] => y = z
  <2>1. i \in Serials
    BY <1>2 DEF PartOf
  <2>2. <<"ground", z>> \in at(i) /\ \A x \in at(i) : x = <<"ground", z>>
    BY <1>3, <1>6, <2>1
  <2> QED BY <1>6, <2>1, <2>2, TuplesDiffer
<1>10. ASSUME NEW z \in Zones
       PROVE  LET zs == zone[z] IN
              /\ DOMAIN zs = {"ground", "boxes", "index"}
              /\ zs.ground = scene.ground[z] /\ zs.boxes = scene.boxes[z] /\ zs.index = Indexed(scene.boxes[z])
  BY <1>5
<1>11. ASSUME NEW z \in Zones
       PROVE  LET x == Indexed(scene.boxes[z]) IN
              /\ DOMAIN x = UNION {DOMAIN scene.boxes[z][c] : c \in DOMAIN scene.boxes[z]}
              /\ \A c \in DOMAIN scene.boxes[z] : \A i \in DOMAIN scene.boxes[z][c] : x[i] = c
  <2> DEFINE B == scene.boxes[z]
  <2>1. DOMAIN Indexed(B) = UNION {DOMAIN B[c] : c \in DOMAIN B}
    BY DEF Indexed
  <2>2. ASSUME NEW c \in DOMAIN B, NEW i \in DOMAIN B[c] PROVE Indexed(B)[i] = c
    <3>1. Indexed(B)[i] = CHOOSE d \in DOMAIN B : i \in DOMAIN B[d]
      BY DEF Indexed
    <3>2. Indexed(B)[i] \in DOMAIN B /\ i \in DOMAIN B[Indexed(B)[i]]
      BY <3>1
    <3> QED BY <1>7, <3>2
  <2> QED BY <2>1, <2>2
<1>12. Stores
  <2>1. ASSUME NEW z \in Zones PROVE ZoneOK(zone[z])
    <3>1. Exact(zone[z])
      <4> DEFINE b == scene.boxes[z]
                 x == zone[z].index
      <4>1. zone[z].boxes = b /\ x = Indexed(b)
        BY <1>10
      <4>2. DOMAIN x = UNION {DOMAIN b[c] : c \in DOMAIN b}
        BY <1>11, <4>1
      <4>3. \A c \in DOMAIN b : \A i \in DOMAIN b[c] : x[i] = c
        <5>1. \A c \in DOMAIN b : \A i \in DOMAIN b[c] : Indexed(b)[i] = c
          BY <1>11, Zenon
        <5> HIDE DEF b, x
        <5> QED BY <4>1, <5>1
      <4> HIDE DEF b, x
      <4>4. \A i \in DOMAIN x : x[i] \in DOMAIN b /\ i \in DOMAIN b[x[i]]
        BY <4>2, <4>3
      <4> QED BY <4>1, <4>2, <4>3, <4>4 DEF Exact, In, x
    <3> QED BY <1>2, <1>10, <3>1 DEF ZoneOK
  <2> QED BY <1>5, <2>1 DEF Stores
<1>13. Folk
  <2>1. held \in [Players -> Held \cup {None}] /\ back \in [Players -> Back \cup {None}]
    BY <1>5
  <2>2. lifts \in 0 .. scene.lifts /\ dead \in [Players -> BOOLEAN]
    BY <1>2, <1>5
  <2> QED BY <1>1, <1>2, <1>5, <2>1, <2>2 DEF Folk
<1>14. Corpses
  BY <1>5 DEF Corpses, Empty
<1>15. Sessions
  BY <1>5 DEF Sessions
<1>16. Wearers
  <2>1. /\ DOMAIN wearer = UNION {DOMAIN worn[p] : p \in Players}
        /\ \A i \in DOMAIN wearer : wearer[i] = CHOOSE p \in Players : i \in DOMAIN worn[p]
    BY <1>5
  <2>2. \A i \in DOMAIN wearer : wearer[i] \in Players /\ i \in DOMAIN worn[wearer[i]]
    BY <2>1
  <2> QED BY <1>5, <1>8, <2>1, <2>2 DEF Wearers, PartOf
<1>17. \A i, k, x : At(i, k, x) <=>
         \/ k = "ground" /\ x \in Zones /\ i \in DOMAIN scene.ground[x]
         \/ k = "box" /\ x \in Zones /\ \E c \in DOMAIN scene.boxes[x] : i \in DOMAIN scene.boxes[x][c]
         \/ k = "worn" /\ x \in Players /\ i \in DOMAIN scene.worn[x]
  <2>1. \A q \in Players : held[q] = None /\ back[q] = None
    BY <1>5
  <2>2. \A q \in Players : \A i : ~ Holds(q, i) /\ ~ Returns(q, i)
    BY <2>1 DEF Holds, Returns, Busy
  <2>3. ASSUME NEW x \in Zones, NEW i
        PROVE  /\ i \in Ground(x) <=> i \in DOMAIN scene.ground[x]
               /\ i \in DOMAIN zone[x].index <=>
                    \E c \in DOMAIN scene.boxes[x] : i \in DOMAIN scene.boxes[x][c]
    <3>1. zone[x].ground = scene.ground[x] /\ zone[x].index = Indexed(scene.boxes[x])
      BY <1>10
    <3>2. DOMAIN Indexed(scene.boxes[x]) = UNION {DOMAIN scene.boxes[x][c] : c \in DOMAIN scene.boxes[x]}
      BY <1>11
    <3> QED BY <3>1, <3>2 DEF Ground
  <2>4. worn = scene.worn
    BY <1>5
  <2>5. ASSUME NEW i, NEW k, NEW x
        PROVE  At(i, k, x) <=>
                 \/ k = "ground" /\ x \in Zones /\ i \in DOMAIN scene.ground[x]
                 \/ k = "box" /\ x \in Zones /\ \E c \in DOMAIN scene.boxes[x] : i \in DOMAIN scene.boxes[x][c]
                 \/ k = "worn" /\ x \in Players /\ i \in DOMAIN scene.worn[x]
    BY <2>2, <2>3, <2>4 DEF At
  <2> QED BY <2>5, Zenon
<1>18. Single
  BY <1>7, <1>8, <1>9, <1>17 DEF Single
<1>19. Nowhere
  <2> SUFFICES ASSUME NEW i \in fresh \cup spent, NEW k \in Ways, NEW x \in Sites, At(i, k, x) PROVE FALSE
    BY Zenon DEF Nowhere
  <2>1. at(i) = {}
    BY <1>2, <1>3, <1>5
  <2> QED BY <1>6, <1>17, <2>1
<1>20. Kept
  <2> SUFFICES ASSUME NEW i \in Serials \ (fresh \cup spent) PROVE \E k \in Ways, x \in Sites : At(i, k, x)
    BY Zenon DEF Kept
  <2>1. at(i) # {}
    BY <1>3, <1>5
  <2> QED BY <1>6, <1>17, <2>1 DEF Ways, Sites
<1>21. RecordsHere
  <2> SUFFICES ASSUME NEW z \in Zones, NEW c \in Records(z)
               PROVE  /\ c \notin fresh
                      /\ \A y \in Zones : c \in Records(y) => y = z
                      /\ \A k \in Ways, x \in Sites : At(c, k, x) => Here(k, x) = z
    BY Zenon DEF RecordsHere
  <2>1. \A y \in Zones : Records(y) = DOMAIN scene.boxes[y]
    BY <1>10 DEF Records
  <2>2. c \in DOMAIN scene.boxes[z]
    BY <2>1
  <2>3. \A k, x : At(c, k, x) => Here(k, x) = z
    BY <1>4, <1>5, <1>17, <2>2 DEF Here
  <2> QED BY <1>4, <1>5, <2>1, <2>2, <2>3
<1> QED BY <1>12, <1>13, <1>14, <1>15, <1>16, <1>18, <1>19, <1>20, <1>21 DEF IInv

-----------------------------------------------------------------------------
(* The theorems *)

LEMMA NextKeeps ==
  ASSUME IInv, Gentle, [Next]_vars
  PROVE  IInv'
<1>1. ASSUME NEW p \in Players, NEW i \in Serials, LiftWorn(p, i) PROVE IInv'
  BY <1>1, LiftWornKeeps
<1>2. ASSUME NEW p \in Players, NEW i \in Serials, NEW n \in 1 .. MaxAmount,
             LiftFromGround(p, i, n) \/ LiftFromBox(p, i, n) PROVE IInv'
  BY <1>2, LiftFromGroundKeeps, LiftFromBoxKeeps
<1>3. ASSUME NEW p \in Players, DropOnGround(p) \/ DropRejected(p) PROVE IInv'
  BY <1>3, DropOnGroundKeeps, DropRejectedKeeps
<1>4. ASSUME NEW p \in Players, NEW t \in Serials, NEW auto \in BOOLEAN, DropOnEntity(p, t, auto) PROVE IInv'
  BY <1>4, DropOnEntityKeeps
<1>5. ASSUME NEW p \in Players, LookForPack(p) \/ ReturnToPack(p) \/ ReturnToFeet(p) PROVE IInv'
  BY <1>5, LookForPackKeeps, ReturnToPackKeeps, ReturnToFeetKeeps
<1>6. ASSUME NEW p \in Players, NEW layer \in Layers, Wear(p, layer) PROVE IInv'
  BY <1>6, WearKeeps
<1>7. ASSUME NEW p \in Players, Kill(p) PROVE IInv'
  BY <1>7, KillKeeps
<1>8. ASSUME NEW p \in Players, NEW cs \in DOMAIN corpse \cup {None}, Resurrect(p, cs) PROVE IInv'
  BY <1>8, ResurrectKeeps
<1>9. ASSUME NEW p \in Players, NEW to \in Zones, Transfer(p, to) PROVE IInv'
  BY <1>9, TransferKeeps
<1>10. ASSUME NEW p \in Players, Learn(p) \/ Login(p) PROVE IInv'
  BY <1>10, LearnKeeps
<1>11. ASSUME NEW p \in Players, Disconnect(p) \/ HangUp(p) PROVE IInv'
  BY <1>11, DisconnectKeeps, HangUpKeeps
<1>12. ASSUME NEW z \in Zones, NEW i \in Serials, NEW n \in 1 .. MaxAmount, Consume(z, i, n) PROVE IInv'
  BY <1>12, ConsumeKeeps
<1>13. CASE UNCHANGED vars
  <2>1. UNCHANGED <<scene, lifts, zone, gear, body, fresh, spent, held, back>> /\ UNCHANGED session
    BY <1>13 DEF vars, gear, body, session
  <2>2. /\ held' \in [Players -> Held \cup {None}] /\ back' \in [Players -> Back \cup {None}]
        /\ Sessions'
    BY <2>1, SessionsStay DEF IInv, Folk
  <2>3. /\ \A q \in Players : \A j : Holds(q, j)' <=> Holds(q, j)
        /\ \A q \in Players : \A j : Returns(q, j)' <=> Returns(q, j)
    BY <2>1, SitesStay
  <2> QED BY <2>1, <2>2, <2>3, IdleKeeps
<1> QED BY <1>1, <1>2, <1>3, <1>4, <1>5, <1>6, <1>7, <1>8, <1>9, <1>10, <1>11, <1>12, <1>13, Zenon DEF Next

\* The invariant holds as long as nobody changes zones with a container outside the backpack, and
\* nobody is resurrected without one: the two cases transfer_entity and handle_resurrect do not cover.
THEOREM InvariantHolds ==
  ASSUME Gentle
  PROVE  Spec => []IInv
<1>1. Init => IInv
  BY InitIInv
<1>2. IInv /\ [Next]_vars => IInv'
  BY NextKeeps
<1> QED BY <1>1, <1>2, PTL DEF Spec

\* Every item, container, mobile and session is of its type, item_index leads to records, and nothing
\* a command does makes it otherwise.
THEOREM TypesHold ==
  ASSUME Gentle
  PROVE  Spec => []TypeOK
<1>1. IInv => TypeOK
  <2> SUFFICES ASSUME IInv PROVE TypeOK
    OBVIOUS
  <2>1. \A z \in Zones : /\ DOMAIN zone[z] = {"ground", "boxes", "index"} /\ PartOf(zone[z].ground, Serials, Item)
                         /\ Records(z) \subseteq Serials
                         /\ \A c \in Records(z) : PartOf(zone[z].boxes[c], Serials, Item)
    BY DEF IInv, Stores, ZoneOK, Records
  <2>2. \A z \in Zones : PartOf(zone[z].index, Serials, Records(z))
    <3> SUFFICES ASSUME NEW z \in Zones PROVE PartOf(zone[z].index, Serials, Records(z))
      OBVIOUS
    <3>1. ZoneOK(zone[z])
      BY DEF IInv, Stores
    <3>2. \A i \in DOMAIN zone[z].index : i \in Serials /\ zone[z].index[i] \in Records(z)
      BY <3>1, IndexedIsSerial DEF In, Records
    <3> QED BY <3>2 DEF PartOf
  <2>3. /\ DOMAIN zone = Zones /\ DOMAIN worn = Players
        /\ \A p \in Players : PartOf(worn[p], Serials, Worn)
        /\ PartOf(wearer, Serials, Players)
        /\ fresh \subseteq Serials /\ spent \subseteq Serials
    BY DEF IInv, Stores, Folk, Wearers
  <2>4. /\ scene \in Scenarios /\ lifts \in 0 .. scene.lifts
        /\ place \in [Players -> Zones] /\ dead \in [Players -> BOOLEAN]
        /\ held \in [Players -> Held \cup {None}] /\ back \in [Players -> Back \cup {None}]
    BY DEF IInv, Folk
  <2> HIDE DEF IInv
  <2>5. Corpses /\ Sessions
    BY DEF IInv
  <2> QED BY <2>1, <2>2, <2>3, <2>4, <2>5 DEF TypeOK, Corpses, Sessions
<1> QED BY <1>1, InvariantHolds, PTL

\* item_index and equipment_index find each item where it is, for any number of zones and players, after
\* every command of item_ops.rs and kill_ops.rs and every transfer.
THEOREM IndexesHold ==
  ASSUME Gentle
  PROVE  Spec => []IndexesExact
<1>1. IInv => IndexesExact
  BY DEF IInv, Stores, ZoneOK, Wearers, IndexesExact
<1> QED BY <1>1, InvariantHolds, PTL

\* A container and what is in it stay in one zone, whoever carries it and wherever: transfer.rs:37.
THEOREM ContentsStayTogether ==
  ASSUME Gentle
  PROVE  Spec => []ContentsFollow
<1>1. IInv => ContentsFollow
  <2> SUFFICES ASSUME IInv, NEW z \in Zones, NEW c \in Records(z), NEW y \in ZonesOf(c) PROVE y = z
    BY Zenon DEF ContentsFollow
  <2>1. \A k \in Ways, x \in Sites : At(c, k, x) => Here(k, x) = z
    BY DEF IInv, RecordsHere
  <2>2. \/ y \in Zones /\ (c \in Ground(y) \/ \E d \in Records(y) : In(zone[y], d, c))
        \/ \E p \in Players : y = place[p] /\ (c \in DOMAIN worn[p] \/ Holds(p, c) \/ Returns(p, c))
    BY DEF ZonesOf
  <2>3. CASE y \in Zones /\ (c \in Ground(y) \/ \E d \in Records(y) : In(zone[y], d, c))
    <3>1. c \in Ground(y) \/ c \in DOMAIN zone[y].index
      BY <2>3 DEF IInv, Stores, ZoneOK, Exact, In, Records
    <3>2. At(c, "ground", y) \/ At(c, "box", y)
      BY <2>3, <3>1 DEF At
    <3> QED BY <2>1, <2>3, <3>2 DEF Here, Ways, Sites
  <2>4. CASE \E p \in Players : y = place[p] /\ (c \in DOMAIN worn[p] \/ Holds(p, c) \/ Returns(p, c))
    <3>1. PICK p \in Players : y = place[p] /\ (c \in DOMAIN worn[p] \/ Holds(p, c) \/ Returns(p, c))
      BY <2>4
    <3>2. At(c, "worn", p) \/ At(c, "cursor", p) \/ At(c, "back", p)
      BY <3>1 DEF At
    <3> QED BY <2>1, <3>1, <3>2 DEF Here, Ways, Sites
  <2> QED BY <2>2, <2>3, <2>4
<1> QED BY <1>1, InvariantHolds, PTL

\* What is known of an item by At is known by Whereabouts.
LEMMA WhereaboutsIs ==
  ASSUME IInv, NEW i \in Serials
  PROVE  /\ \A k \in Ways, x \in Sites : At(i, k, x) => Whereabouts(i) # {}
         /\ \A w \in Whereabouts(i) : \E k \in Ways, x \in Sites :
              At(i, k, x) /\ w = IF k = "box" THEN <<k, x, zone[x].index[i]>> ELSE <<k, x>>
<1> DEFINE ground == [z \in Zones |-> zone[z].ground]
           boxes  == [z \in Zones |-> zone[z].boxes]
           at     == Rests(ground, boxes, worn, i)
           C == {<<"cursor", p>> : p \in {q \in Players : Holds(q, i)}}
           R == {<<"back", p>> : p \in {q \in Players : Returns(q, i)}}
<1>1. Whereabouts(i) = at \cup C \cup R
  BY Zenon DEF Whereabouts
<1>2. /\ \A z \in Zones : i \in DOMAIN zone[z].ground => <<"ground", z>> \in at
      /\ \A z \in Zones : \A c \in DOMAIN zone[z].boxes : i \in DOMAIN zone[z].boxes[c] => <<"box", z, c>> \in at
      /\ \A p \in Players : i \in DOMAIN worn[p] => <<"worn", p>> \in at
      /\ \A x \in at : \/ \E z \in Zones : i \in DOMAIN zone[z].ground /\ x = <<"ground", z>>
                       \/ \E z \in Zones : \E c \in DOMAIN zone[z].boxes :
                            i \in DOMAIN zone[z].boxes[c] /\ x = <<"box", z, c>>
                       \/ \E p \in Players : i \in DOMAIN worn[p] /\ x = <<"worn", p>>
  <2>1. \A z \in Zones : ground[z] = zone[z].ground /\ boxes[z] = zone[z].boxes
    OBVIOUS
  <2> HIDE DEF ground, boxes
  <2>2. /\ \A z \in Zones : i \in DOMAIN ground[z] => <<"ground", z>> \in at
        /\ \A z \in Zones : \A c \in DOMAIN boxes[z] : i \in DOMAIN boxes[z][c] => <<"box", z, c>> \in at
        /\ \A p \in Players : i \in DOMAIN worn[p] => <<"worn", p>> \in at
        /\ \A x \in at : \/ \E z \in Zones : i \in DOMAIN ground[z] /\ x = <<"ground", z>>
                         \/ \E z \in Zones : \E c \in DOMAIN boxes[z] :
                              i \in DOMAIN boxes[z][c] /\ x = <<"box", z, c>>
                         \/ \E p \in Players : i \in DOMAIN worn[p] /\ x = <<"worn", p>>
    BY RestsIs
  <2> HIDE DEF at
  <2> QED BY <2>1, <2>2
<1>3. /\ \A p \in Players : Holds(p, i) => <<"cursor", p>> \in C
      /\ \A x \in C : \E p \in Players : Holds(p, i) /\ x = <<"cursor", p>>
  BY Zenon
<1>4. /\ \A p \in Players : Returns(p, i) => <<"back", p>> \in R
      /\ \A x \in R : \E p \in Players : Returns(p, i) /\ x = <<"back", p>>
  BY Zenon
<1> HIDE DEF at, C, R
<1>5. \A z \in Zones : Exact(zone[z])
  BY DEF IInv, Stores, ZoneOK
<1>6. ASSUME NEW k \in Ways, NEW x \in Sites, At(i, k, x) PROVE Whereabouts(i) # {}
  <2>1. CASE k = "box"
    <3>1. x \in Zones /\ i \in DOMAIN zone[x].index
      BY <1>6, <2>1 DEF At
    <3>2. zone[x].index[i] \in DOMAIN zone[x].boxes /\ i \in DOMAIN zone[x].boxes[zone[x].index[i]]
      BY <1>5, <3>1 DEF Exact, In
    <3> QED BY <1>1, <1>2, <3>1, <3>2
  <2>2. CASE k # "box"
    BY <1>1, <1>2, <1>3, <1>4, <1>6, <2>2 DEF At, Ground
  <2> QED BY <2>1, <2>2
<1>7. ASSUME NEW w \in Whereabouts(i)
      PROVE  \E k \in Ways, x \in Sites :
               At(i, k, x) /\ w = IF k = "box" THEN <<k, x, zone[x].index[i]>> ELSE <<k, x>>
  <2>1. CASE \E z \in Zones : i \in DOMAIN zone[z].ground /\ w = <<"ground", z>>
    BY <2>1 DEF At, Ways, Sites, Ground
  <2>2. CASE \E z \in Zones : \E c \in DOMAIN zone[z].boxes : i \in DOMAIN zone[z].boxes[c] /\ w = <<"box", z, c>>
    <3>1. PICK z \in Zones : \E c \in DOMAIN zone[z].boxes : i \in DOMAIN zone[z].boxes[c] /\ w = <<"box", z, c>>
      BY <2>2
    <3>2. PICK c \in DOMAIN zone[z].boxes : i \in DOMAIN zone[z].boxes[c] /\ w = <<"box", z, c>>
      BY <3>1
    <3>3. i \in DOMAIN zone[z].index /\ zone[z].index[i] = c
      BY <1>5, <3>2 DEF Exact
    <3> QED BY <3>2, <3>3 DEF At, Ways, Sites
  <2>3. CASE \E p \in Players : i \in DOMAIN worn[p] /\ w = <<"worn", p>>
    BY <2>3 DEF At, Ways, Sites
  <2>4. CASE \E p \in Players : Holds(p, i) /\ w = <<"cursor", p>>
    BY <2>4 DEF At, Ways, Sites
  <2>5. CASE \E p \in Players : Returns(p, i) /\ w = <<"back", p>>
    BY <2>5 DEF At, Ways, Sites
  <2>6. w \in at \/ w \in C \/ w \in R
    BY <1>1
  <2> QED BY <1>2, <1>3, <1>4, <2>1, <2>2, <2>3, <2>4, <2>5, <2>6
<1> QED BY <1>6, <1>7

\* However many players lift, drop, wear, die, travel and leave: an item is in one place, never in two, and
\* none is lost but by a session that ends with a failed send.
THEOREM NothingDoubledOrLost ==
  ASSUME Gentle
  PROVE  Spec => []ExactlyOnePlace
<1>1. IInv => ExactlyOnePlace
  <2> SUFFICES ASSUME IInv, NEW i \in Serials
               PROVE  LET n == Cardinality(Whereabouts(i)) IN
                      IF i \in fresh \cup spent THEN n = 0 ELSE n = 1 \/ (n = 0 /\ "hangup" \in scene.acts)
    BY Zenon DEF ExactlyOnePlace
  <2>1. \A v, w \in Whereabouts(i) : v = w
    <3>1. \A k, l \in Ways : \A x, y \in Sites : At(i, k, x) /\ At(i, l, y) => k = l /\ x = y
      BY DEF IInv, Single
    <3> QED BY <3>1, WhereaboutsIs
  <2>2. CASE Whereabouts(i) = {}
    <3>1. Cardinality(Whereabouts(i)) = 0
      BY <2>2, FS_EmptySet
    <3>2. i \notin fresh \cup spent => "hangup" \in scene.acts
      BY <2>2, WhereaboutsIs DEF IInv, Kept
    <3> QED BY <3>1, <3>2
  <2>3. CASE Whereabouts(i) # {}
    <3>1. PICK w : w \in Whereabouts(i)
      BY <2>3
    <3>2. Whereabouts(i) = {w}
      BY <2>1, <3>1
    <3>3. Cardinality(Whereabouts(i)) = 1
      BY <3>2, FS_Singleton
    <3>4. i \notin fresh \cup spent
      BY <3>1, WhereaboutsIs DEF IInv, Nowhere
    <3> QED BY <3>3, <3>4
  <2> QED BY <2>2, <2>3
<1> QED BY <1>1, InvariantHolds, PTL

-----------------------------------------------------------------------------
(* What there is of every item *)

Dress(w) == [kind |-> w.kind, amount |-> 1]

\* The item i is in the zone, as `it`.
Lies(zs, i, it) ==
  \/ i \in DOMAIN zs.ground /\ it = zs.ground[i]
  \/ \E c \in DOMAIN zs.boxes : i \in DOMAIN zs.boxes[c] /\ it = zs.boxes[c][i]

HasZone(i, it) == \E z \in Zones : Lies(zone[z], i, it)
HasBody(i, it) ==
  \E p \in Players : \/ i \in DOMAIN worn[p] /\ it = Dress(worn[p][i])
                     \/ Holds(p, i) /\ it = Bare(held[p])
                     \/ Returns(p, i) /\ it = Bare(back[p].item)
\* The item i is somewhere, as `it`.
Has(i, it) == HasZone(i, it) \/ HasBody(i, it)

\* The same by the way in which it is there, and its address.
IsAt(i, k, x, it) ==
  /\ k = "ground" => it = zone[x].ground[i]
  /\ k = "box" => it = zone[x].boxes[zone[x].index[i]][i]
  /\ k = "worn" => it = Dress(worn[x][i])
  /\ k = "cursor" => it = Bare(held[x])
  /\ k = "back" => it = Bare(back[x].item)
Address(i, k, x) == IF k = "box" THEN <<k, x, zone[x].index[i]>> ELSE <<k, x>>

LEMMA ZoneIsAt ==
  ASSUME IInv, NEW i \in Serials, NEW z \in Zones
  PROVE  /\ i \in DOMAIN zone[z].ground => At(i, "ground", z) /\ zone[z].ground[i] \in Item
         /\ \A c \in DOMAIN zone[z].boxes : i \in DOMAIN zone[z].boxes[c] =>
              At(i, "box", z) /\ zone[z].index[i] = c /\ zone[z].boxes[c][i] \in Item
         /\ i \in DOMAIN zone[z].index => In(zone[z], zone[z].index[i], i)
<1>1. ZoneOK(zone[z])
  BY DEF IInv, Stores
<1>2. Exact(zone[z]) /\ PartOf(zone[z].ground, Serials, Item)
        /\ \A c \in DOMAIN zone[z].boxes : PartOf(zone[z].boxes[c], Serials, Item)
  BY <1>1 DEF ZoneOK
<1>3. i \in DOMAIN zone[z].ground => At(i, "ground", z) /\ zone[z].ground[i] \in Item
  BY <1>2 DEF At, Ground, PartOf
<1>4. ASSUME NEW c \in DOMAIN zone[z].boxes, i \in DOMAIN zone[z].boxes[c]
      PROVE  At(i, "box", z) /\ zone[z].index[i] = c /\ zone[z].boxes[c][i] \in Item
  <2>1. i \in DOMAIN zone[z].index /\ zone[z].index[i] = c
    BY <1>2, <1>4 DEF Exact
  <2> QED BY <1>2, <1>4, <2>1 DEF At, PartOf
<1>5. i \in DOMAIN zone[z].index => In(zone[z], zone[z].index[i], i)
  BY <1>2 DEF Exact
<1> QED BY <1>3, <1>4, <1>5

LEMMA HeldIsItem ==
  ASSUME NEW h \in Held
  PROVE  Bare(h) \in Item /\ Bare(h).kind = h.kind /\ Bare(h).amount = h.amount
BY DEF Bare, Item, Held

LEMMA DressIsItem ==
  ASSUME NEW w \in Worn
  PROVE  Dress(w) \in Item /\ Dress(w).kind = w.kind /\ Dress(w).amount = 1
BY ItemsAssumption DEF Dress, Item, Worn

\* What is somewhere is at a site.
LEMMA HasSite ==
  ASSUME IInv, NEW i \in Serials, NEW it, Has(i, it)
  PROVE  it \in Item /\ \E k \in Ways, x \in Sites : At(i, k, x) /\ IsAt(i, k, x, it)
<1>1. CASE HasZone(i, it)
  <2>1. PICK z \in Zones : Lies(zone[z], i, it)
    BY <1>1 DEF HasZone
  <2>2. CASE i \in DOMAIN zone[z].ground /\ it = zone[z].ground[i]
    BY <2>2, ZoneIsAt DEF IsAt, Ways, Sites
  <2>3. CASE \E c \in DOMAIN zone[z].boxes : i \in DOMAIN zone[z].boxes[c] /\ it = zone[z].boxes[c][i]
    <3>1. PICK c \in DOMAIN zone[z].boxes : i \in DOMAIN zone[z].boxes[c] /\ it = zone[z].boxes[c][i]
      BY <2>3
    <3>2. At(i, "box", z) /\ zone[z].index[i] = c /\ it \in Item
      BY <3>1, ZoneIsAt
    <3> QED BY <3>1, <3>2 DEF IsAt, Ways, Sites
  <2> QED BY <2>1, <2>2, <2>3 DEF Lies
<1>2. CASE HasBody(i, it)
  <2>1. PICK p \in Players : \/ i \in DOMAIN worn[p] /\ it = Dress(worn[p][i])
                             \/ Holds(p, i) /\ it = Bare(held[p])
                             \/ Returns(p, i) /\ it = Bare(back[p].item)
    BY <1>2 DEF HasBody
  <2>2. /\ PartOf(worn[p], Serials, Worn) /\ held[p] \in Held \cup {None} /\ back[p] \in Back \cup {None}
    BY DEF IInv, Folk
  <2>3. CASE i \in DOMAIN worn[p] /\ it = Dress(worn[p][i])
    BY <2>2, <2>3, DressIsItem DEF At, IsAt, Ways, Sites, PartOf
  <2>4. CASE Holds(p, i) /\ it = Bare(held[p])
    BY <2>2, <2>4, HeldIsItem DEF At, IsAt, Ways, Sites, Holds
  <2>5. CASE Returns(p, i) /\ it = Bare(back[p].item)
    <3>1. back[p].item \in Held
      BY <2>2, <2>5 DEF Returns, Busy, Back
    <3> QED BY <2>5, <3>1, HeldIsItem DEF At, IsAt, Ways, Sites
  <2> QED BY <2>1, <2>3, <2>4, <2>5
<1> QED BY <1>1, <1>2 DEF Has

LEMMA SiteHas ==
  ASSUME IInv, NEW i \in Serials, NEW k \in Ways, NEW x \in Sites, At(i, k, x)
  PROVE  \E it : IsAt(i, k, x, it) /\ Has(i, it)
<1>1. CASE k = "ground"
  BY <1>1 DEF At, IsAt, Has, HasZone, Lies, Ground
<1>2. CASE k = "box"
  <2>1. x \in Zones /\ In(zone[x], zone[x].index[i], i)
    BY <1>2, ZoneIsAt DEF At
  <2> QED BY <1>2, <2>1 DEF IsAt, Has, HasZone, Lies, In
<1>3. CASE k = "worn"
  BY <1>3 DEF At, IsAt, Has, HasBody
<1>4. CASE k = "cursor"
  BY <1>4 DEF At, IsAt, Has, HasBody
<1>5. CASE k = "back"
  BY <1>5 DEF At, IsAt, Has, HasBody
<1> QED BY <1>1, <1>2, <1>3, <1>4, <1>5 DEF Ways

LEMMA HasOne ==
  ASSUME IInv, NEW i \in Serials, NEW it, Has(i, it), NEW was, Has(i, was)
  PROVE  it = was
<1>1. PICK k \in Ways, x \in Sites : At(i, k, x) /\ IsAt(i, k, x, it)
  BY HasSite
<1>2. PICK l \in Ways, y \in Sites : At(i, l, y) /\ IsAt(i, l, y, was)
  BY HasSite
<1>3. k = l /\ x = y
  BY <1>1, <1>2 DEF IInv, Single
<1> QED BY <1>1, <1>2, <1>3 DEF IsAt, Ways

\* How many pieces that is.
Count(it) == IF it.kind \in Stackable THEN it.amount ELSE 0
Purse == [i \in Serials |-> IF \E it : Has(i, it) THEN Count(CHOOSE it : Has(i, it)) ELSE 0]

LEMMA CountIs ==
  ASSUME NEW it \in Item
  PROVE  /\ Count(it) \in 0 .. MaxAmount
         /\ it.amount \in 1 .. MaxAmount
         /\ Count(it) # 0 => it.kind \in Stackable /\ Count(it) = it.amount
BY ItemsAssumption DEF Count, Item

PurseOK ==
  /\ Purse \in [Serials -> 0 .. MaxAmount]
  /\ \A i \in Serials : /\ \A it : Has(i, it) => it \in Item /\ Purse[i] = Count(it)
                        /\ (\A it : ~ Has(i, it)) => Purse[i] = 0

LEMMA PurseIs ==
  IInv => PurseOK
<1> SUFFICES ASSUME IInv PROVE PurseOK
  OBVIOUS
<1>1. ASSUME NEW i \in Serials, NEW it, Has(i, it)
      PROVE  it \in Item /\ Purse[i] = Count(it)
  <2>1. Has(i, CHOOSE was : Has(i, was))
    BY <1>1
  <2>2. it = CHOOSE was : Has(i, was)
    BY <1>1, <2>1, HasOne
  <2> QED BY <1>1, <2>2, HasSite DEF Purse
<1>2. ASSUME NEW i \in Serials, \A it : ~ Has(i, it)
      PROVE  Purse[i] = 0
  BY <1>2 DEF Purse
<1>3. ASSUME NEW i \in Serials PROVE Purse[i] \in 0 .. MaxAmount
  <2>1. CASE \E it : Has(i, it)
    BY <1>1, <2>1, CountIs
  <2>2. CASE ~ \E it : Has(i, it)
    BY <1>2, <2>2, ItemsAssumption
  <2> QED BY <2>1, <2>2
<1>4. Purse = [i \in Serials |-> Purse[i]]
  BY DEF Purse
<1>5. Purse \in [Serials -> 0 .. MaxAmount]
  BY <1>3, <1>4
<1> QED BY <1>1, <1>2, <1>5 DEF PurseOK

LEMMA PurseIsAfter ==
  IInv' => PurseOK'
BY PurseIs, PTL

-----------------------------------------------------------------------------
(* Piece by piece *)

Pieces(f) == {u \in Serials \X (1 .. MaxAmount) : u[2] <= f[u[1]]}

LEMMA PiecesFinite ==
  ASSUME NEW f
  PROVE  IsFiniteSet(Pieces(f)) /\ Cardinality(Pieces(f)) \in Nat
<1>1. IsFiniteSet(1 .. MaxAmount)
  BY FS_Interval, ItemsAssumption
<1>2. IsFiniteSet(Serials \X (1 .. MaxAmount))
  BY <1>1, FS_Product, ItemsAssumption
<1>3. Pieces(f) \in SUBSET (Serials \X (1 .. MaxAmount))
  BY DEF Pieces
<1>4. IsFiniteSet(Pieces(f))
  BY <1>2, <1>3, FS_Subset
<1> QED BY <1>4, FS_CardinalityType

\* Fewer of each is fewer in all.
LEMMA PiecesFewer ==
  ASSUME NEW f \in [Serials -> 0 .. MaxAmount], NEW g \in [Serials -> 0 .. MaxAmount],
         \A i \in Serials : g[i] <= f[i]
  PROVE  Cardinality(Pieces(g)) <= Cardinality(Pieces(f))
<1>1. ASSUME NEW u \in Pieces(g) PROVE u \in Pieces(f)
  <2>1. u[1] \in Serials /\ u[2] \in 1 .. MaxAmount /\ u[2] <= g[u[1]] /\ u \in Serials \X (1 .. MaxAmount)
    BY DEF Pieces
  <2>2. f[u[1]] \in 0 .. MaxAmount /\ g[u[1]] \in 0 .. MaxAmount /\ g[u[1]] <= f[u[1]]
    BY <2>1
  <2>3. u[2] <= f[u[1]]
    BY <2>1, <2>2
  <2> QED BY <2>1, <2>3 DEF Pieces
<1>2. Pieces(g) \in SUBSET Pieces(f)
  BY <1>1
<1> QED BY <1>2, PiecesFinite, FS_Subset

\* What i has too much comes from j.
LEMMA PiecesShared ==
  ASSUME NEW f \in [Serials -> 0 .. MaxAmount], NEW g \in [Serials -> 0 .. MaxAmount],
         NEW i \in Serials, NEW j \in Serials, i # j,
         \A o \in Serials \ {i} : g[o] <= f[o], g[i] + g[j] <= f[i] + f[j]
  PROVE  Cardinality(Pieces(g)) <= Cardinality(Pieces(f))
<1> DEFINE Spare(u) == u[1] = i /\ u[2] > f[i]
           Now(u) == <<j, g[j] + u[2] - f[i]>>
           h == [u \in Pieces(g) |-> IF Spare(u) THEN Now(u) ELSE u]
<1>1. /\ f[i] \in 0 .. MaxAmount /\ g[i] \in 0 .. MaxAmount /\ f[j] \in 0 .. MaxAmount
      /\ g[j] \in 0 .. MaxAmount /\ MaxAmount \in Nat
  BY ItemsAssumption
<1>2. ASSUME NEW u \in Pieces(g)
      PROVE  u[1] \in Serials /\ u[2] \in 1 .. MaxAmount /\ u = <<u[1], u[2]>> /\ u[2] <= g[u[1]]
  BY DEF Pieces
<1>3. ASSUME NEW u \in Pieces(g), Spare(u)
      PROVE  /\ Now(u) \in Pieces(f)
             /\ g[j] + u[2] - f[i] \in Int /\ g[j] + u[2] - f[i] > g[j]
  <2>1. u[2] \in 1 .. MaxAmount /\ u[2] <= g[i] /\ u[2] > f[i]
    BY <1>2, <1>3
  <2>2. g[j] + u[2] - f[i] <= f[j] /\ g[j] + u[2] - f[i] \in 1 .. MaxAmount /\ g[j] + u[2] - f[i] > g[j]
    BY <1>1, <2>1
  <2> QED BY <2>2 DEF Pieces
<1>4. ASSUME NEW u \in Pieces(g), ~ Spare(u) PROVE u \in Pieces(f)
  <2>1. u[2] <= f[u[1]]
    <3>1. CASE u[1] = i
      BY <1>1, <1>2, <1>4, <3>1
    <3>2. CASE u[1] # i
      <4>1. g[u[1]] <= f[u[1]] /\ g[u[1]] \in 0 .. MaxAmount /\ f[u[1]] \in 0 .. MaxAmount
        BY <1>2, <3>2
      <4> QED BY <1>2, <4>1
    <3> QED BY <3>1, <3>2
  <2> QED BY <1>2, <2>1 DEF Pieces
<1>5. h \in [Pieces(g) -> Pieces(f)]
  BY <1>3, <1>4
<1>6. ASSUME NEW u \in Pieces(g), NEW v \in Pieces(g), h[u] = h[v] PROVE u = v
  <2>1. CASE Spare(u) /\ Spare(v)
    <3>1. g[j] + u[2] - f[i] = g[j] + v[2] - f[i] /\ u[1] = v[1]
      BY <1>6, <2>1
    <3>2. u[2] = v[2]
      BY <1>1, <1>2, <3>1
    <3> QED BY <1>2, <3>1, <3>2
  <2>2. CASE Spare(u) /\ ~ Spare(v)
    <3>1. v[1] = j /\ v[2] = g[j] + u[2] - f[i]
      BY <1>6, <2>2
    <3>2. v[2] <= g[j]
      BY <1>2, <3>1
    <3> QED BY <1>1, <1>2, <1>3, <2>2, <3>1, <3>2
  <2>3. CASE ~ Spare(u) /\ Spare(v)
    <3>1. u[1] = j /\ u[2] = g[j] + v[2] - f[i]
      BY <1>6, <2>3
    <3>2. u[2] <= g[j]
      BY <1>2, <3>1
    <3> QED BY <1>1, <1>2, <1>3, <2>3, <3>1, <3>2
  <2>4. CASE ~ Spare(u) /\ ~ Spare(v)
    BY <1>6, <2>4
  <2> QED BY <2>1, <2>2, <2>3, <2>4
<1> HIDE DEF h
<1>7. h \in Injection(Pieces(g), Pieces(f))
  BY <1>5, <1>6 DEF Injection, IsInjective
<1> QED BY <1>7, PiecesFinite, FS_Injection

\* A piece is of an item that is somewhere, and at its address.
Coined(c, i, n) ==
  \E k \in Ways, x \in Sites : \E it :
    /\ At(i, k, x) /\ IsAt(i, k, x, it) /\ Has(i, it) /\ it.kind \in Stackable /\ n \in 1 .. it.amount
    /\ c = <<<<i, Address(i, k, x)>>, n>>

LEMMA UnitsAre ==
  ASSUME NEW it, NEW i, NEW at, NEW c
  PROVE  c \in Units(it, i, at) <=>
           it.kind \in Stackable /\ \E n \in 1 .. it.amount : c = <<<<i, at>>, n>>
BY DEF Units

LEMMA InCoins ==
  ASSUME NEW c
  PROVE  c \in Coins <=>
           \/ \E z \in Zones : c \in OnGround(z) \/ \E b \in Records(z) : c \in InBox(z, b)
           \/ \E p \in Players : c \in OnBody(p) \/ c \in OnHand(p) \/ c \in OnItsWay(p)
<1>1. \A z \in Zones : c \in InZone(z) <=> c \in OnGround(z) \/ \E b \in Records(z) : c \in InBox(z, b)
  BY DEF InZone
<1>2. \A p \in Players : c \in OnPlayer(p) <=> c \in OnBody(p) \/ c \in OnHand(p) \/ c \in OnItsWay(p)
  BY DEF OnPlayer
<1>3. c \in Coins <=> (\E z \in Zones : c \in InZone(z)) \/ \E p \in Players : c \in OnPlayer(p)
  BY DEF Coins
<1> QED BY <1>1, <1>2, <1>3

LEMMA CoinsAre ==
  ASSUME IInv, NEW c \in Coins
  PROVE  \E i \in Serials, n \in Nat : Coined(c, i, n)
<1>1. \/ \E z \in Zones : c \in OnGround(z) \/ \E b \in Records(z) : c \in InBox(z, b)
      \/ \E p \in Players : c \in OnBody(p) \/ c \in OnHand(p) \/ c \in OnItsWay(p)
  BY InCoins
<1>2. ASSUME NEW i \in Serials, NEW k \in Ways, NEW x \in Sites, NEW it, NEW of, At(i, k, x),
             IsAt(i, k, x, it), Has(i, it), of.kind = it.kind, of.amount = it.amount,
             c \in Units(of, i, Address(i, k, x))
      PROVE  \E n \in Nat : Coined(c, i, n)
  <2>1. PICK n \in 1 .. it.amount : c = <<<<i, Address(i, k, x)>>, n>>
    BY <1>2, UnitsAre
  <2>2. it.kind \in Stackable
    BY <1>2, UnitsAre
  <2>3. it.amount \in Nat
    BY <1>2, HasSite, CountIs, ItemsAssumption
  <2>4. n \in Nat
    BY <2>1, <2>3
  <2> QED BY <1>2, <2>1, <2>2, <2>4 DEF Coined
<1>3. ASSUME NEW z \in Zones, c \in OnGround(z) PROVE \E i \in Serials, n \in Nat : Coined(c, i, n)
  <2>1. PICK i \in DOMAIN zone[z].ground : c \in Units(zone[z].ground[i], i, <<"ground", z>>)
    BY <1>3 DEF OnGround, Ground
  <2>2. i \in Serials
    BY DEF IInv, Stores, ZoneOK, PartOf
  <2>3. At(i, "ground", z)
    BY <2>1, <2>2, ZoneIsAt
  <2>4. Has(i, zone[z].ground[i]) /\ IsAt(i, "ground", z, zone[z].ground[i])
    BY <2>1 DEF Has, HasZone, Lies, IsAt
  <2>5. "ground" \in Ways /\ z \in Sites /\ Address(i, "ground", z) = <<"ground", z>>
    BY DEF Ways, Sites, Address
  <2> QED BY <1>2, <2>1, <2>2, <2>3, <2>4, <2>5
<1>4. ASSUME NEW z \in Zones, NEW b \in Records(z), c \in InBox(z, b)
      PROVE  \E i \in Serials, n \in Nat : Coined(c, i, n)
  <2>1. PICK i \in DOMAIN zone[z].boxes[b] : c \in Units(zone[z].boxes[b][i], i, <<"box", z, b>>)
    BY <1>4 DEF InBox
  <2>2. b \in DOMAIN zone[z].boxes
    BY DEF Records
  <2>3. i \in Serials
    BY <2>2 DEF IInv, Stores, ZoneOK, PartOf
  <2>4. At(i, "box", z) /\ zone[z].index[i] = b
    BY <2>1, <2>2, <2>3, ZoneIsAt
  <2>5. Has(i, zone[z].boxes[b][i]) /\ IsAt(i, "box", z, zone[z].boxes[b][i])
    BY <2>1, <2>2, <2>4 DEF Has, HasZone, Lies, IsAt
  <2>6. "box" \in Ways /\ z \in Sites /\ Address(i, "box", z) = <<"box", z, b>>
    BY <2>4 DEF Ways, Sites, Address
  <2> QED BY <1>2, <2>1, <2>3, <2>4, <2>5, <2>6
<1>5. ASSUME NEW p \in Players, c \in OnBody(p) PROVE \E i \in Serials, n \in Nat : Coined(c, i, n)
  <2>1. PICK i \in DOMAIN worn[p] : c \in Units(Dress(worn[p][i]), i, <<"worn", p>>)
    BY <1>5 DEF OnBody, Dress
  <2>2. i \in Serials
    BY DEF IInv, Folk, PartOf
  <2>3. At(i, "worn", p) /\ Has(i, Dress(worn[p][i])) /\ IsAt(i, "worn", p, Dress(worn[p][i]))
    BY DEF At, Has, HasBody, IsAt
  <2>4. "worn" \in Ways /\ p \in Sites /\ Address(i, "worn", p) = <<"worn", p>>
    BY DEF Ways, Sites, Address
  <2> QED BY <1>2, <2>1, <2>2, <2>3, <2>4
<1>6. ASSUME NEW p \in Players, c \in OnHand(p) PROVE \E i \in Serials, n \in Nat : Coined(c, i, n)
  <2> DEFINE i == held[p].serial
  <2>1. held[p] # None /\ c \in Units(held[p], i, <<"cursor", p>>)
    BY <1>6 DEF OnHand
  <2>2. held[p] \in Held /\ i \in Serials
    BY <2>1 DEF IInv, Folk, Held
  <2>3. At(i, "cursor", p) /\ Has(i, Bare(held[p])) /\ IsAt(i, "cursor", p, Bare(held[p]))
    BY <2>1 DEF At, Has, HasBody, IsAt, Holds
  <2>4. "cursor" \in Ways /\ p \in Sites /\ Address(i, "cursor", p) = <<"cursor", p>>
    BY DEF Ways, Sites, Address
  <2> QED BY <1>2, <2>1, <2>2, <2>3, <2>4, HeldIsItem
<1>7. ASSUME NEW p \in Players, c \in OnItsWay(p) PROVE \E i \in Serials, n \in Nat : Coined(c, i, n)
  <2> DEFINE i == back[p].item.serial
  <2>1. Busy(p) /\ c \in Units(back[p].item, i, <<"back", p>>)
    BY <1>7 DEF OnItsWay
  <2>2. back[p].item \in Held /\ i \in Serials
    BY <2>1 DEF IInv, Folk, Held, Back, Busy
  <2>3. At(i, "back", p) /\ Has(i, Bare(back[p].item)) /\ IsAt(i, "back", p, Bare(back[p].item))
    BY <2>1 DEF At, Has, HasBody, IsAt, Returns
  <2>4. "back" \in Ways /\ p \in Sites /\ Address(i, "back", p) = <<"back", p>>
    BY DEF Ways, Sites, Address
  <2> QED BY <1>2, <2>1, <2>2, <2>3, <2>4, HeldIsItem
<1> QED BY <1>1, <1>3, <1>4, <1>5, <1>6, <1>7

LEMMA CoinedIsCoin ==
  ASSUME IInv, NEW i \in Serials, NEW n \in Nat, NEW c, Coined(c, i, n)
  PROVE  c \in Coins
<1>0. PICK k \in Ways, x \in Sites : \E it :
        /\ At(i, k, x) /\ IsAt(i, k, x, it) /\ Has(i, it) /\ it.kind \in Stackable /\ n \in 1 .. it.amount
        /\ c = <<<<i, Address(i, k, x)>>, n>>
  BY DEF Coined
<1>1. PICK it :
        /\ At(i, k, x) /\ IsAt(i, k, x, it) /\ Has(i, it) /\ it.kind \in Stackable /\ n \in 1 .. it.amount
        /\ c = <<<<i, Address(i, k, x)>>, n>>
  BY <1>0
<1>2. \A of : of.kind = it.kind /\ of.amount = it.amount => c \in Units(of, i, Address(i, k, x))
  BY <1>1, UnitsAre
<1>3. CASE k = "ground"
  <2>1. x \in Zones /\ i \in DOMAIN zone[x].ground /\ it = zone[x].ground[i] /\ Address(i, k, x) = <<"ground", x>>
    BY <1>1, <1>3 DEF At, IsAt, Ground, Address
  <2>2. c \in OnGround(x)
    BY <1>2, <2>1 DEF OnGround, Ground
  <2> QED BY <2>1, <2>2, InCoins
<1>4. CASE k = "box"
  <2> DEFINE b == zone[x].index[i]
  <2>1. x \in Zones /\ i \in DOMAIN zone[x].index /\ it = zone[x].boxes[b][i] /\ Address(i, k, x) = <<"box", x, b>>
    BY <1>1, <1>4 DEF At, IsAt, Address
  <2>2. b \in Records(x) /\ i \in DOMAIN zone[x].boxes[b]
    BY <2>1, ZoneIsAt DEF In, Records
  <2>3. c \in InBox(x, b)
    BY <1>2, <2>1, <2>2 DEF InBox
  <2> QED BY <2>1, <2>2, <2>3, InCoins
<1>5. CASE k = "worn"
  <2>1. x \in Players /\ i \in DOMAIN worn[x] /\ it = Dress(worn[x][i]) /\ Address(i, k, x) = <<"worn", x>>
    BY <1>1, <1>5 DEF At, IsAt, Address
  <2>2. c \in OnBody(x)
    BY <1>2, <2>1 DEF OnBody, Dress
  <2> QED BY <2>1, <2>2, InCoins
<1>6. CASE k = "cursor"
  <2>1. x \in Players /\ Holds(x, i) /\ it = Bare(held[x]) /\ Address(i, k, x) = <<"cursor", x>>
    BY <1>1, <1>6 DEF At, IsAt, Address
  <2>2. held[x] \in Held /\ held[x] # None /\ held[x].serial = i
    BY <2>1 DEF Holds, IInv, Folk
  <2>3. c \in OnHand(x)
    BY <1>2, <2>1, <2>2, HeldIsItem DEF OnHand
  <2> QED BY <2>1, <2>3, InCoins
<1>7. CASE k = "back"
  <2>1. x \in Players /\ Returns(x, i) /\ it = Bare(back[x].item) /\ Address(i, k, x) = <<"back", x>>
    BY <1>1, <1>7 DEF At, IsAt, Address
  <2>2. back[x].item \in Held /\ Busy(x) /\ back[x].item.serial = i
    BY <2>1 DEF Returns, IInv, Folk, Back, Busy
  <2>3. c \in OnItsWay(x)
    BY <1>2, <2>1, <2>2, HeldIsItem DEF OnItsWay
  <2> QED BY <2>1, <2>3, InCoins
<1> QED BY <1>3, <1>4, <1>5, <1>6, <1>7 DEF Ways

\* The pieces counted where they are, and counted by item, are as many.
WealthOK == Wealth = Cardinality(Pieces(Purse))

LEMMA WealthIs ==
  IInv => WealthOK
<1> SUFFICES ASSUME IInv PROVE Wealth = Cardinality(Pieces(Purse))
  BY DEF WealthOK
<1> DEFINE h == [c \in Coins |-> <<c[1][1], c[2]>>]
<1>1. ASSUME NEW c \in Coins, NEW i \in Serials, NEW n \in Nat, Coined(c, i, n)
      PROVE  h[c] = <<i, n>> /\ <<i, n>> \in Pieces(Purse)
  <2>0. PICK k \in Ways, x \in Sites : \E it :
          /\ Has(i, it) /\ it.kind \in Stackable /\ n \in 1 .. it.amount
          /\ c = <<<<i, Address(i, k, x)>>, n>>
    BY <1>1 DEF Coined
  <2>1. PICK it :
          /\ Has(i, it) /\ it.kind \in Stackable /\ n \in 1 .. it.amount
          /\ c = <<<<i, Address(i, k, x)>>, n>>
    BY <2>0
  <2>2. it \in Item /\ Purse[i] = Count(it)
    BY <2>1, PurseIs DEF PurseOK
  <2>3. Count(it) = it.amount /\ it.amount \in 1 .. MaxAmount
    BY <2>1, <2>2, CountIs DEF Count
  <2>4. n \in 1 .. MaxAmount /\ n <= Purse[i]
    BY <2>1, <2>2, <2>3, ItemsAssumption
  <2> QED BY <2>1, <2>4 DEF Pieces
<1>2. ASSUME NEW c \in Coins, NEW d \in Coins, h[c] = h[d] PROVE c = d
  <2> HIDE DEF h
  <2>1. PICK i \in Serials, n \in Nat : Coined(c, i, n)
    BY CoinsAre
  <2>2. PICK j \in Serials, m \in Nat : Coined(d, j, m)
    BY CoinsAre
  <2>3. i = j /\ n = m
    <3>1. h[c] = <<i, n>>
      BY <1>1, <2>1
    <3>2. h[d] = <<j, m>>
      BY <1>1, <2>2
    <3>3. <<i, n>> = <<j, m>>
      BY <1>2, <3>1, <3>2
    <3> QED BY <3>3
  <2>4. PICK k \in Ways, x \in Sites : At(i, k, x) /\ c = <<<<i, Address(i, k, x)>>, n>>
    BY <2>1 DEF Coined
  <2>5. PICK l \in Ways, y \in Sites : At(i, l, y) /\ d = <<<<i, Address(i, l, y)>>, n>>
    BY <2>2, <2>3 DEF Coined
  <2>6. k = l /\ x = y
    BY <2>4, <2>5 DEF IInv, Single
  <2> QED BY <2>4, <2>5, <2>6
<1>3. ASSUME NEW u \in Pieces(Purse) PROVE \E c \in Coins : h[c] = u
  <2> DEFINE i == u[1]
             n == u[2]
  <2>1. i \in Serials /\ n \in 1 .. MaxAmount /\ u = <<i, n>> /\ n <= Purse[i] /\ n \in Nat
    BY ItemsAssumption DEF Pieces
  <2>2. Purse[i] # 0
    BY <2>1, ItemsAssumption
  <2>3. PICK it : Has(i, it)
    BY <2>1, <2>2, PurseIs DEF PurseOK
  <2>4. it \in Item /\ Purse[i] = Count(it)
    BY <2>1, <2>3, PurseIs DEF PurseOK
  <2>5. it.kind \in Stackable /\ it.amount = Purse[i] /\ it.amount \in 1 .. MaxAmount
    BY <2>2, <2>4, CountIs
  <2>6. PICK k \in Ways, x \in Sites : At(i, k, x) /\ IsAt(i, k, x, it)
    BY <2>1, <2>3, HasSite
  <2>7. n \in 1 .. it.amount
    BY <2>1, <2>5, ItemsAssumption
  <2> DEFINE c == <<<<i, Address(i, k, x)>>, n>>
  <2>8. Coined(c, i, n)
    BY <2>3, <2>5, <2>6, <2>7 DEF Coined
  <2>9. c \in Coins
    BY <2>1, <2>8, CoinedIsCoin
  <2> QED BY <2>1, <2>9
<1>4. h \in [Coins -> Pieces(Purse)]
  <2>1. ASSUME NEW c \in Coins PROVE h[c] \in Pieces(Purse)
    BY <1>1, CoinsAre
  <2> QED BY <2>1
<1> HIDE DEF h
<1>5. h \in Injection(Coins, Pieces(Purse)) /\ h \in Surjection(Coins, Pieces(Purse))
  BY <1>2, <1>3, <1>4 DEF Injection, IsInjective, Surjection
<1>6. Cardinality(Coins) = Cardinality(Pieces(Purse))
  BY <1>5, PiecesFinite, FS_Injection
<1> QED BY <1>6 DEF Wealth

LEMMA WealthIsAfter ==
  IInv' => WealthOK'
BY WealthIs, PTL

-----------------------------------------------------------------------------
(* What a step makes of the items *)

Less(it, was) == it.kind = was.kind /\ it.amount <= was.amount

\* The item i is no more than it was, and of the same kind.
Lasts(i) == \A it : Has(i, it)' => \E was : Has(i, was) /\ Less(it, was)

LEMMA LastsPurse ==
  ASSUME IInv, IInv', NEW i \in Serials,
         Lasts(i) \/ \A it : Has(i, it)' => it.kind \notin Stackable
  PROVE  Purse'[i] <= Purse[i]
<1>1. PurseOK /\ PurseOK'
  BY PurseIs, PurseIsAfter
<1>2. Purse[i] \in 0 .. MaxAmount
  BY <1>1 DEF PurseOK
<1>3. CASE \A it : ~ Has(i, it)'
  <2>1. Purse'[i] = 0
    BY <1>1, <1>3 DEF PurseOK
  <2> QED BY <1>2, <2>1, ItemsAssumption
<1>4. ASSUME NEW it, Has(i, it)' PROVE Purse'[i] <= Purse[i]
  <2>1. it \in Item /\ Purse'[i] = Count(it)
    BY <1>1, <1>4 DEF PurseOK
  <2>2. CASE it.kind \notin Stackable
    BY <1>2, <2>1, <2>2, ItemsAssumption DEF Count
  <2>3. CASE Lasts(i)
    <3>1. PICK was : Has(i, was) /\ Less(it, was)
      BY <1>4, <2>3 DEF Lasts
    <3>2. was \in Item /\ Purse[i] = Count(was)
      BY <1>1, <3>1 DEF PurseOK
    <3>3. it.amount \in 1 .. MaxAmount /\ was.amount \in 1 .. MaxAmount
      BY <2>1, <3>2, CountIs
    <3> QED BY <2>1, <3>1, <3>2, <3>3, ItemsAssumption DEF Less, Count
  <2> QED BY <1>4, <2>2, <2>3
<1> QED BY <1>3, <1>4

Poorer == Wealth' <= Wealth

LEMMA PoorerByPurse ==
  ASSUME IInv, IInv', Cardinality(Pieces(Purse')) <= Cardinality(Pieces(Purse))
  PROVE  Poorer
<1>1. WealthOK /\ WealthOK'
  BY WealthIs, WealthIsAfter
<1> QED BY <1>1 DEF Poorer, WealthOK, Pieces

\* Nothing grows.
LEMMA AllLast ==
  ASSUME IInv, IInv',
         \A i \in Serials : Lasts(i) \/ \A it : Has(i, it)' => it.kind \notin Stackable
  PROVE  Poorer
<1>1. \A i \in Serials : Purse'[i] <= Purse[i]
  BY LastsPurse
<1>2. Purse \in [Serials -> 0 .. MaxAmount] /\ Purse' \in [Serials -> 0 .. MaxAmount]
  BY PurseIs, PurseIsAfter DEF PurseOK
<1>3. Cardinality(Pieces(Purse')) <= Cardinality(Pieces(Purse))
  BY <1>1, <1>2, PiecesFewer
<1> QED BY <1>3, PoorerByPurse

LEMMA PurseShared ==
  ASSUME IInv, IInv', NEW i \in Serials, NEW j \in Serials, i # j,
         \A o \in Serials \ {i, j} : Lasts(o),
         Purse'[j] <= Purse[j], Purse'[i] + Purse'[j] <= Purse[i] + Purse[j]
  PROVE  Poorer
<1>1. \A o \in Serials \ {i} : Purse'[o] <= Purse[o]
  BY LastsPurse
<1>2. Purse \in [Serials -> 0 .. MaxAmount] /\ Purse' \in [Serials -> 0 .. MaxAmount]
  BY PurseIs, PurseIsAfter DEF PurseOK
<1>3. Cardinality(Pieces(Purse')) <= Cardinality(Pieces(Purse))
  BY <1>1, <1>2, PiecesShared
<1> QED BY <1>3, PoorerByPurse

\* The stack `was` of i has become two: `it`, which is still i, and `rest`, which is j.
LEMMA Splits ==
  ASSUME IInv, IInv', NEW i \in Serials, NEW j \in Serials, i # j,
         \A o \in Serials \ {i, j} : Lasts(o),
         NEW was, Has(i, was), NEW it, Has(i, it)', NEW rest, Has(j, rest)',
         it.kind = was.kind, rest.kind = was.kind, it.amount + rest.amount <= was.amount
  PROVE  Poorer
<1>1. PurseOK /\ PurseOK'
  BY PurseIs, PurseIsAfter
<1>2. /\ was \in Item /\ Purse[i] = Count(was) /\ it \in Item /\ Purse'[i] = Count(it)
      /\ rest \in Item /\ Purse'[j] = Count(rest) /\ Purse[j] \in 0 .. MaxAmount
  BY <1>1 DEF PurseOK
<1>3. /\ was.amount \in 1 .. MaxAmount /\ it.amount \in 1 .. MaxAmount /\ rest.amount \in 1 .. MaxAmount
  BY <1>2, CountIs
<1>4. Purse'[i] <= Purse[i] /\ Purse'[j] + Purse'[i] <= Purse[j] + Purse[i]
  BY <1>2, <1>3, ItemsAssumption DEF Count
<1> QED BY <1>4, PurseShared

\* The stack `lot` of j is no more, and i has become at most what both were.
LEMMA Merges ==
  ASSUME IInv, IInv', NEW i \in Serials, NEW j \in Serials, i # j,
         \A o \in Serials \ {i, j} : Lasts(o),
         NEW was, Has(i, was), NEW lot, Has(j, lot), \A it : ~ Has(j, it)',
         was.kind = lot.kind,
         \A it : Has(i, it)' => it.kind = was.kind /\ it.amount <= was.amount + lot.amount
  PROVE  Poorer
<1>1. PurseOK /\ PurseOK'
  BY PurseIs, PurseIsAfter
<1>2. /\ was \in Item /\ Purse[i] = Count(was) /\ lot \in Item /\ Purse[j] = Count(lot)
      /\ Purse'[j] = 0
  BY <1>1 DEF PurseOK
<1>3. was.amount \in 1 .. MaxAmount /\ lot.amount \in 1 .. MaxAmount
  BY <1>2, CountIs
<1>4. Purse'[i] <= Purse[i] + Purse[j]
  <2>1. CASE \A it : ~ Has(i, it)'
    <3>1. Purse'[i] = 0
      BY <1>1, <2>1 DEF PurseOK
    <3> QED BY <1>2, <1>3, <3>1, ItemsAssumption DEF Count
  <2>2. ASSUME NEW it, Has(i, it)' PROVE Purse'[i] <= Purse[i] + Purse[j]
    <3>1. it \in Item /\ Purse'[i] = Count(it)
      BY <1>1, <2>2 DEF PurseOK
    <3>2. it.kind = was.kind /\ it.amount <= was.amount + lot.amount
      BY <2>2
    <3>3. it.amount \in 1 .. MaxAmount
      BY <3>1, CountIs
    <3> QED BY <1>2, <1>3, <3>1, <3>2, <3>3, ItemsAssumption DEF Count
  <2> QED BY <2>1, <2>2
<1>5. Purse'[j] <= Purse[j] /\ Purse'[i] + Purse'[j] <= Purse[i] + Purse[j]
  <2>1. Purse[i] \in 0 .. MaxAmount /\ Purse'[i] \in 0 .. MaxAmount /\ Purse[j] \in 0 .. MaxAmount
    BY <1>1 DEF PurseOK
  <2> QED BY <1>2, <1>4, <2>1, ItemsAssumption
<1> QED BY <1>5, PurseShared

-----------------------------------------------------------------------------
(* The layers a corpse remembers are of the items as they are *)

Known ==
  \A cs \in DOMAIN corpse : \A i \in DOMAIN corpse[cs].layers :
    /\ i \notin fresh
    /\ \A it : Has(i, it) => it.kind = corpse[cs].layers[i].kind

\* An item stays what it is, however many of it are left.
SameKind(i) == \A it : Has(i, it)' => \E was : Has(i, was) /\ it.kind = was.kind

\* No corpse learns a layer.
SameLayers == \A cs \in DOMAIN corpse' : cs \in DOMAIN corpse /\ corpse'[cs].layers = corpse[cs].layers

LEMMA KnownStays ==
  ASSUME IInv, Known, fresh' \subseteq fresh, \A i \in Serials \ fresh : SameKind(i), SameLayers
  PROVE  Known'
<1> SUFFICES ASSUME NEW cs \in DOMAIN corpse', NEW i \in DOMAIN corpse'[cs].layers
             PROVE  /\ i \notin fresh'
                    /\ \A it : Has(i, it)' => it.kind = corpse'[cs].layers[i].kind
  BY Zenon DEF Known
<1>1. cs \in DOMAIN corpse /\ corpse'[cs].layers = corpse[cs].layers /\ i \in DOMAIN corpse[cs].layers
  BY DEF SameLayers
<1>2. i \in Serials
  BY <1>1 DEF IInv, Corpses, PartOf
<1>3. i \notin fresh /\ \A it : Has(i, it) => it.kind = corpse[cs].layers[i].kind
  BY <1>1 DEF Known
<1> QED BY <1>1, <1>2, <1>3 DEF SameKind

\* What a step keeps to.
Honest == Known' /\ Poorer

LEMMA LastingIsHonest ==
  ASSUME IInv, IInv', Known, fresh' \subseteq fresh, SameLayers, \A i \in Serials : Lasts(i)
  PROVE  Honest
<1>1. \A i \in Serials \ fresh : SameKind(i)
  BY DEF Lasts, Less, SameKind
<1>2. Known'
  BY <1>1, KnownStays
<1>3. Poorer
  BY AllLast
<1> QED BY <1>2, <1>3 DEF Honest

OneEach == \A i \in Serials : \A it, was : Has(i, it) /\ Has(i, was) => it = was

LEMMA OneEachHolds ==
  IInv => OneEach
BY HasOne DEF OneEach

LEMMA OneEachAfter ==
  IInv' => OneEach'
BY OneEachHolds, PTL

-----------------------------------------------------------------------------
(* The parts a step changes *)

LEMMA ZoneHas ==
  ASSUME Stores, NEW z \in Zones, NEW after, zone' = [zone EXCEPT ![z] = after], NEW j, NEW x
  PROVE  /\ HasZone(j, x)' => Lies(after, j, x) \/ HasZone(j, x)
         /\ Lies(after, j, x) => HasZone(j, x)'
         /\ Lies(zone[z], j, x) => HasZone(j, x)
<1>1. \A y \in Zones : zone'[y] = IF y = z THEN after ELSE zone[y]
  BY DEF Stores
<1>2. HasZone(j, x)' <=> \E y \in Zones : Lies(zone'[y], j, x)
  BY DEF HasZone, Lies
<1> QED BY <1>1, <1>2 DEF HasZone

LEMMA ZoneHasStill ==
  ASSUME UNCHANGED zone, NEW j, NEW x
  PROVE  HasZone(j, x)' <=> HasZone(j, x)
BY DEF HasZone, Lies

\* The item j is worn, on the cursor or on its way back.
Bears(w, h, b, j, x) ==
  \/ j \in DOMAIN w /\ x = Dress(w[j])
  \/ h # None /\ h.serial = j /\ x = Bare(h)
  \/ b # None /\ b.item.serial = j /\ x = Bare(b.item)

LEMMA BodyIs ==
  ASSUME NEW j, NEW x
  PROVE  /\ HasBody(j, x) <=> \E p \in Players : Bears(worn[p], held[p], back[p], j, x)
         /\ HasBody(j, x)' <=> \E p \in Players : Bears(worn'[p], held'[p], back'[p], j, x)
<1>1. HasBody(j, x) <=> \E p \in Players : Bears(worn[p], held[p], back[p], j, x)
  BY DEF HasBody, Bears, Holds, Returns, Busy
<1>2. HasBody(j, x)' <=> \E p \in Players : Bears(worn'[p], held'[p], back'[p], j, x)
  BY DEF HasBody, Bears, Holds, Returns, Busy
<1> QED BY <1>1, <1>2

LEMMA BodyHas ==
  ASSUME NEW p \in Players,
         \A q \in Players \ {p} : worn'[q] = worn[q] /\ held'[q] = held[q] /\ back'[q] = back[q],
         NEW j, NEW x
  PROVE  /\ HasBody(j, x)' => Bears(worn'[p], held'[p], back'[p], j, x) \/ HasBody(j, x)
         /\ Bears(worn'[p], held'[p], back'[p], j, x) => HasBody(j, x)'
         /\ Bears(worn[p], held[p], back[p], j, x) => HasBody(j, x)
<1> HIDE DEF Bears
<1> QED BY BodyIs

LEMMA BodyHasStill ==
  ASSUME UNCHANGED <<worn, held, back>>, NEW j, NEW x
  PROVE  HasBody(j, x)' <=> HasBody(j, x)
BY DEF HasBody, Holds, Returns, Busy

-----------------------------------------------------------------------------
(* What the operations of a zone do to the items in it *)

LEMMA GroundLies ==
  ASSUME NEW zs, ZoneOK(zs), NEW g, NEW j, NEW x, Lies([zs EXCEPT !.ground = g], j, x)
  PROVE  \/ j \in DOMAIN g /\ x = g[j]
         \/ \E c \in DOMAIN zs.boxes : j \in DOMAIN zs.boxes[c] /\ x = zs.boxes[c][j]
<1> DEFINE new == [zs EXCEPT !.ground = g]
<1>1. new.ground = g /\ new.boxes = zs.boxes
  BY DEF ZoneOK
<1> HIDE DEF new
<1>2. Lies(new, j, x)
  BY DEF new
<1> QED BY <1>1, <1>2 DEF Lies

LEMMA LaidLies ==
  ASSUME NEW zs, ZoneOK(zs), NEW h, NEW j, NEW x, Lies(Laid(zs, h), j, x)
  PROVE  Lies(zs, j, x) \/ (j = h.serial /\ x = Bare(h))
<1> DEFINE g == Put(zs.ground, h.serial, Bare(h))
<1>1. Laid(zs, h) = [zs EXCEPT !.ground = g]
  BY DEF Laid
<1>2. j \in DOMAIN g /\ x = g[j] => (j = h.serial /\ x = Bare(h)) \/ (j \in DOMAIN zs.ground /\ x = zs.ground[j])
  BY DEF Put
<1> HIDE DEF g
<1> QED BY <1>1, <1>2, GroundLies DEF Lies

\* What holds of each item of each container of a store holds of what lies in the zone.
LEMMA StoreLies ==
  ASSUME NEW zs, ZoneOK(zs), NEW new, Beside(zs, new), NEW i, NEW it,
         \A d \in DOMAIN new.boxes : \A j \in DOMAIN new.boxes[d] :
           Same(zs, new, d, j) \/ (j = i /\ new.boxes[d][j] = it),
         NEW j, NEW x, Lies(new, j, x)
  PROVE  Lies(zs, j, x) \/ (j = i /\ x = it)
<1>1. new.ground = zs.ground
  BY DEF Beside, ZoneOK
<1> QED BY <1>1 DEF Lies, Same, In

LEMMA RemoveLies ==
  ASSUME NEW zs, ZoneOK(zs), NEW i \in DOMAIN zs.index, NEW j, NEW x,
         Lies(RemoveFrom(zs, zs.index[i], i), j, x)
  PROVE  Lies(zs, j, x)
<1> DEFINE new == RemoveFrom(zs, zs.index[i], i)
<1>1. HasStore(zs) /\ Exact(zs)
  BY DEF ZoneOK, HasStore
<1>2. /\ Beside(zs, new)
      /\ \A d \in DOMAIN new.boxes : \A k \in DOMAIN new.boxes[d] : Same(zs, new, d, k)
  BY <1>1, RemoveFromExact
<1> HIDE DEF new
<1>3. new.ground = zs.ground
  BY <1>2 DEF Beside, ZoneOK
<1>4. Lies(new, j, x)
  BY DEF new
<1> QED BY <1>2, <1>3, <1>4 DEF Lies, Same, In

LEMMA UpsertLies ==
  ASSUME NEW zs, ZoneOK(zs), NEW c, NEW i, NEW it
  PROVE  /\ \A j, x : Lies(Upsert(zs, c, i, it), j, x) => Lies(zs, j, x) \/ (j = i /\ x = it)
         /\ Lies(Upsert(zs, c, i, it), i, it)
<1> DEFINE new == Upsert(zs, c, i, it)
<1>1. HasStore(zs) /\ Exact(zs)
  BY DEF ZoneOK, HasStore
<1>2. /\ Beside(zs, new)
      /\ \A d \in DOMAIN new.boxes : \A j \in DOMAIN new.boxes[d] :
           Same(zs, new, d, j) \/ (d = c /\ j = i /\ new.boxes[d][j] = it)
  BY <1>1, UpsertExact
<1>3. c \in DOMAIN new.boxes /\ i \in DOMAIN new.boxes[c] /\ new.boxes[c][i] = it
  BY DEF ZoneOK, Upsert, Put
<1> HIDE DEF new
<1>4. ASSUME NEW j, NEW x, Lies(new, j, x) PROVE Lies(zs, j, x) \/ (j = i /\ x = it)
  BY <1>2, <1>4, StoreLies
<1>5. Lies(new, i, it)
  BY <1>3 DEF Lies
<1> QED BY <1>4, <1>5 DEF new

LEMMA SetItemLies ==
  ASSUME NEW zs, ZoneOK(zs), NEW c, NEW i, In(zs, c, i), NEW it
  PROVE  \A j, x : Lies(SetItem(zs, c, i, it), j, x) => Lies(zs, j, x) \/ (j = i /\ x = it)
<1> DEFINE new == SetItem(zs, c, i, it)
<1>1. HasStore(zs) /\ Exact(zs)
  BY DEF ZoneOK, HasStore
<1>2. /\ Beside(zs, new)
      /\ \A d \in DOMAIN new.boxes : \A j \in DOMAIN new.boxes[d] :
           Same(zs, new, d, j) \/ (d = c /\ j = i /\ new.boxes[d][j] = it)
  BY <1>1, SetItemExact
<1> HIDE DEF new
<1>3. ASSUME NEW j, NEW x, Lies(new, j, x) PROVE Lies(zs, j, x) \/ (j = i /\ x = it)
  BY <1>2, <1>3, StoreLies
<1> QED BY <1>3 DEF new

-----------------------------------------------------------------------------
(* Lifts *)

\* The zone after the item i was lifted from it, as h: what stays of the stack `it` is the new item f.
AllLifted(zs, after, it, h) ==
  /\ UNCHANGED fresh /\ Bare(h).amount <= it.amount
  /\ \A j, x : Lies(after, j, x) => Lies(zs, j, x)
PartLifted(zs, after, i, it, h) ==
  \E f \in fresh \ {i} : \E rest :
    /\ fresh' = fresh \ {f} /\ rest.kind = it.kind /\ Bare(h).amount + rest.amount <= it.amount
    /\ \A j, x : Lies(after, j, x) => Lies(zs, j, x) \/ (j = f /\ x = rest)
    /\ Lies(after, f, rest)

\* What is on the cursor of p comes from the stack `it` of i.
LEMMA LiftIsHonest ==
  ASSUME IInv, IInv', Known, NEW p \in Players, NEW i \in Serials, NEW it, Has(i, it),
         NEW h, h.serial = i, h # None, held' = [held EXCEPT ![p] = h], UNCHANGED <<worn, back, corpse>>,
         NEW z \in Zones, NEW after, zone' = [zone EXCEPT ![z] = after], Bare(h).kind = it.kind,
         AllLifted(zone[z], after, it, h) \/ PartLifted(zone[z], after, i, it, h)
  PROVE  Honest
<1>1. Stores /\ Folk /\ fresh \subseteq Serials
  BY DEF IInv, Folk
<1>2. \A q \in Players \ {p} : worn'[q] = worn[q] /\ held'[q] = held[q] /\ back'[q] = back[q]
  BY <1>1 DEF Folk
<1>3. held'[p] = h /\ worn'[p] = worn[p] /\ back'[p] = back[p]
  BY <1>1 DEF Folk
<1>4. ASSUME NEW j, NEW x, HasBody(j, x)' PROVE HasBody(j, x) \/ (j = i /\ x = Bare(h))
  <2>1. Bears(worn'[p], held'[p], back'[p], j, x) => Bears(worn[p], held[p], back[p], j, x) \/ (j = i /\ x = Bare(h))
    BY <1>3 DEF Bears
  <2> QED BY <1>2, <1>4, <2>1, BodyHas
<1>5. Has(i, Bare(h))'
  <2>1. Bears(worn'[p], held'[p], back'[p], i, Bare(h))
    BY <1>3 DEF Bears
  <2> QED BY <1>2, <2>1, BodyHas DEF Has
<1>6. \A x : Has(i, x)' => x = Bare(h)
  BY <1>5, OneEachAfter DEF OneEach
<1>7. SameLayers
  BY DEF SameLayers
<1>8. CASE AllLifted(zone[z], after, it, h)
  <2>0. /\ UNCHANGED fresh /\ Bare(h).amount <= it.amount
        /\ \A j, x : Lies(after, j, x) => Lies(zone[z], j, x)
    BY <1>8 DEF AllLifted
  <2>1. ASSUME NEW j \in Serials PROVE Lasts(j)
    <3> SUFFICES ASSUME NEW x, Has(j, x)' PROVE \E was : Has(j, was) /\ Less(x, was)
      BY DEF Lasts
    <3>1. CASE j = i
      BY <1>6, <2>0, <3>1 DEF Less
    <3>2. CASE j # i
      <4>1. HasZone(j, x)' => HasZone(j, x)
        BY <1>1, <2>0, ZoneHas
      <4>2. Has(j, x)
        BY <1>4, <3>2, <4>1 DEF Has
      <4>3. x \in Item
        BY <4>2, HasSite
      <4>4. x.amount <= x.amount
        BY <4>3, CountIs, ItemsAssumption
      <4> QED BY <4>2, <4>4 DEF Less
    <3> QED BY <3>1, <3>2
  <2> QED BY <1>7, <2>0, <2>1, LastingIsHonest
<1>9. CASE PartLifted(zone[z], after, i, it, h)
  <2>0. PICK f \in fresh \ {i} : \E rest :
             /\ fresh' = fresh \ {f} /\ rest.kind = it.kind /\ Bare(h).amount + rest.amount <= it.amount
             /\ \A j, x : Lies(after, j, x) => Lies(zone[z], j, x) \/ (j = f /\ x = rest)
             /\ Lies(after, f, rest)
    BY <1>9 DEF PartLifted
  <2>1. PICK rest :
             /\ fresh' = fresh \ {f} /\ rest.kind = it.kind /\ Bare(h).amount + rest.amount <= it.amount
             /\ \A j, x : Lies(after, j, x) => Lies(zone[z], j, x) \/ (j = f /\ x = rest)
             /\ Lies(after, f, rest)
    BY <2>0
  <2>2. ASSUME NEW j \in Serials \ {i, f} PROVE Lasts(j)
    <3> SUFFICES ASSUME NEW x, Has(j, x)' PROVE \E was : Has(j, was) /\ Less(x, was)
      BY DEF Lasts
    <3>1. HasZone(j, x)' => HasZone(j, x)
      BY <1>1, <2>1, ZoneHas
    <3>2. Has(j, x)
      BY <1>4, <3>1 DEF Has
    <3>3. x \in Item
      BY <3>2, HasSite
    <3>4. x.amount <= x.amount
      BY <3>3, CountIs, ItemsAssumption
    <3> QED BY <3>2, <3>4 DEF Less
  <2>3. Has(f, rest)'
    BY <1>1, <2>1, ZoneHas DEF Has
  <2>4. f \in Serials /\ i # f
    BY <1>1, <2>1
  <2>5. Poorer
    BY <1>5, <2>1, <2>2, <2>3, <2>4, Splits
  <2>6. \A j \in Serials \ fresh : SameKind(j)
    <3> SUFFICES ASSUME NEW j \in Serials \ fresh PROVE SameKind(j)
      OBVIOUS
    <3>1. CASE j = i
      BY <1>6, <3>1 DEF SameKind
    <3>2. CASE j # i
      BY <2>1, <2>2, <3>2 DEF SameKind, Lasts, Less
    <3> QED BY <3>1, <3>2
  <2>7. Known'
    BY <1>7, <2>1, <2>6, KnownStays
  <2> QED BY <2>5, <2>7 DEF Honest
<1> QED BY <1>8, <1>9

LEMMA ItselfLess ==
  ASSUME IInv, NEW j \in Serials, NEW x, Has(j, x)
  PROVE  Less(x, x)
<1>1. x \in Item
  BY HasSite
<1> QED BY <1>1, CountIs, ItemsAssumption DEF Less

LEMMA OnCursorIs ==
  ASSUME NEW i \in Serials, NEW it \in Item, NEW n \in 1 .. MaxAmount, NEW from
  PROVE  LET h == OnCursor(i, it, n, from) IN
         /\ h.serial = i /\ Bare(h).kind = it.kind
         /\ Bare(h).amount = IF n <= it.amount THEN n ELSE it.amount
         /\ ~ (n >= it.amount) => /\ Rest(it, n).kind = it.kind
                                  /\ Bare(h).amount + Rest(it, n).amount = it.amount
<1>1. it.amount \in 1 .. MaxAmount
  BY CountIs
<1> QED BY <1>1, ItemsAssumption DEF OnCursor, Bare, Least, Rest, Item

\* Lifting a part of a stack, or all of it, from the ground: item_ops.rs.
LEMMA LiftFromGroundHonest ==
  ASSUME IInv, IInv', Known, NEW p \in Players, NEW i \in Serials, NEW n \in 1 .. MaxAmount, LiftFromGround(p, i, n)
  PROVE  Honest
<1> DEFINE z == place[p]
           it == zone[z].ground[i]
           g == Without(zone[z].ground, {i})
           f == Next1(fresh)
           h == OnCursor(i, it, n, "ground")
<1>1. /\ z \in Zones /\ i \in Ground(z) /\ held' = [held EXCEPT ![p] = h]
      /\ UNCHANGED <<worn, back, corpse>>
  BY DEF IInv, Folk, LiftFromGround, gear, body
<1>2. ZoneOK(zone[z]) /\ it \in Item /\ Has(i, it)
  BY <1>1 DEF IInv, Stores, ZoneOK, PartOf, Ground, Has, HasZone, Lies
<1>3. /\ h.serial = i /\ h # None /\ Bare(h).kind = it.kind
      /\ Bare(h).amount <= it.amount
      /\ ~ (n >= it.amount) => Rest(it, n).kind = it.kind /\ Bare(h).amount + Rest(it, n).amount <= it.amount
  <2>1. it.amount \in 1 .. MaxAmount
    BY <1>2, CountIs
  <2>2. h \in Held
    BY <1>2, OnCursorIsHeld
  <2>3. /\ h.serial = i /\ Bare(h).kind = it.kind
        /\ Bare(h).amount = IF n <= it.amount THEN n ELSE it.amount
        /\ ~ (n >= it.amount) => /\ Rest(it, n).kind = it.kind
                                 /\ Bare(h).amount + Rest(it, n).amount = it.amount
    BY <1>2, OnCursorIs
  <2> HIDE DEF h, it
  <2> QED BY <2>1, <2>2, <2>3, ItemsAssumption
<1>4. \A j, x : j \in DOMAIN g /\ x = g[j] => Lies(zone[z], j, x)
  BY DEF Without, Lies
<1>5. \A j, x : (\E c \in DOMAIN zone[z].boxes : j \in DOMAIN zone[z].boxes[c] /\ x = zone[z].boxes[c][j])
                  => Lies(zone[z], j, x)
  BY DEF Lies
<1>6. CASE n >= it.amount
  <2> DEFINE after == [zone[z] EXCEPT !.ground = g]
  <2>1. zone' = [zone EXCEPT ![z] = after] /\ fresh' = fresh
    BY <1>6 DEF LiftFromGround
  <2> HIDE DEF g, h, it, z
  <2>2. \A j, x : Lies(after, j, x) => Lies(zone[z], j, x)
    BY <1>2, <1>4, <1>5, GroundLies
  <2>3. AllLifted(zone[z], after, it, h)
    BY <1>3, <2>1, <2>2 DEF AllLifted
  <2> HIDE DEF after
  <2> QED BY <1>1, <1>2, <1>3, <2>1, <2>3, LiftIsHonest
<1>7. CASE ~ (n >= it.amount)
  <2> DEFINE rest == Rest(it, n)
             g2 == Put(g, f, rest)
             after == [zone[z] EXCEPT !.ground = g2]
  <2>1. zone' = [zone EXCEPT ![z] = after] /\ fresh # {} /\ fresh' = fresh \ {f}
    BY <1>7 DEF LiftFromGround
  <2>2. f \in fresh /\ f # i
    <3>1. f \in fresh /\ \A k \in Ways, x \in Sites : ~ At(f, k, x)
      BY <2>1, FreshIsNew
    <3>2. At(i, "ground", z)
      BY <1>1 DEF At
    <3> HIDE DEF f
    <3> QED BY <1>1, <3>1, <3>2 DEF Ways, Sites
  <2>3. /\ \A j, x : j \in DOMAIN g2 /\ x = g2[j] => (j \in DOMAIN g /\ x = g[j]) \/ (j = f /\ x = rest)
        /\ f \in DOMAIN g2 /\ g2[f] = rest
    <3> HIDE DEF g, f, rest
    <3> QED BY DEF Put
  <2>4. after.ground = g2
    BY <1>2 DEF ZoneOK
  <2> HIDE DEF g, g2, h, it, z, f, rest
  <2>5. \A j, x : Lies(after, j, x) => Lies(zone[z], j, x) \/ (j = f /\ x = rest)
    BY <1>2, <1>4, <1>5, <2>3, GroundLies
  <2>6. Lies(after, f, rest)
    BY <2>3, <2>4 DEF Lies
  <2> HIDE DEF after
  <2>7. rest.kind = it.kind /\ Bare(h).amount + rest.amount <= it.amount
    BY <1>3, <1>7 DEF rest
  <2>8. PartLifted(zone[z], after, i, it, h)
    BY <2>1, <2>2, <2>5, <2>6, <2>7 DEF PartLifted
  <2> QED BY <1>1, <1>2, <1>3, <2>1, <2>8, LiftIsHonest
<1> QED BY <1>6, <1>7

\* The same out of a container.
LEMMA LiftFromBoxHonest ==
  ASSUME IInv, IInv', Known, NEW p \in Players, NEW i \in Serials, NEW n \in 1 .. MaxAmount, LiftFromBox(p, i, n)
  PROVE  Honest
<1> DEFINE z == place[p]
           c == zone[z].index[i]
           it == zone[z].boxes[c][i]
           left == RemoveFrom(zone[z], c, i)
           f == Next1(fresh)
           h == OnCursor(i, it, n, "box")
<1>1. /\ z \in Zones /\ i \in DOMAIN zone[z].index /\ held' = [held EXCEPT ![p] = h]
      /\ UNCHANGED <<worn, back, corpse>>
  BY DEF IInv, Folk, LiftFromBox, gear, body
<1>2. ZoneOK(zone[z]) /\ it \in Item /\ c \in DOMAIN zone[z].boxes /\ i \in DOMAIN zone[z].boxes[c]
  BY <1>1, IndexedIsSerial DEF IInv, Stores, In
<1>3. Has(i, it)
  BY <1>1, <1>2 DEF Has, HasZone, Lies
<1>4. /\ h.serial = i /\ h # None /\ Bare(h).kind = it.kind
      /\ Bare(h).amount <= it.amount
      /\ ~ (n >= it.amount) => Rest(it, n).kind = it.kind /\ Bare(h).amount + Rest(it, n).amount <= it.amount
  <2>0. it \in Item
    BY <1>2
  <2> HIDE DEF it
  <2>1. it.amount \in 1 .. MaxAmount
    BY <2>0, CountIs
  <2>2. h \in Held
    BY <2>0, OnCursorIsHeld
  <2>3. /\ h.serial = i /\ Bare(h).kind = it.kind
        /\ Bare(h).amount = IF n <= it.amount THEN n ELSE it.amount
        /\ ~ (n >= it.amount) => /\ Rest(it, n).kind = it.kind
                                 /\ Bare(h).amount + Rest(it, n).amount = it.amount
    BY <2>0, OnCursorIs
  <2> HIDE DEF h
  <2> QED BY <2>1, <2>2, <2>3, ItemsAssumption
<1>5. \A j, x : Lies(left, j, x) => Lies(zone[z], j, x)
  BY <1>1, <1>2, RemoveLies
<1>6. CASE n >= it.amount
  <2>1. zone' = [zone EXCEPT ![z] = left] /\ fresh' = fresh
    BY <1>6 DEF LiftFromBox
  <2> HIDE DEF left, h, it, z
  <2>2. AllLifted(zone[z], left, it, h)
    BY <1>4, <1>5, <2>1 DEF AllLifted
  <2> QED BY <1>1, <1>3, <1>4, <2>1, <2>2, LiftIsHonest
<1>7. CASE ~ (n >= it.amount)
  <2> DEFINE rest == Rest(it, n)
             after == Upsert(left, c, f, rest)
  <2>1. zone' = [zone EXCEPT ![z] = after] /\ fresh # {} /\ fresh' = fresh \ {f}
    BY <1>7 DEF LiftFromBox
  <2>2. f \in fresh /\ f # i
    <3>1. f \in fresh /\ \A k \in Ways, x \in Sites : ~ At(f, k, x)
      BY <2>1, FreshIsNew
    <3>2. At(i, "box", z)
      BY <1>1 DEF At
    <3> HIDE DEF f
    <3> QED BY <1>1, <3>1, <3>2 DEF Ways, Sites
  <2>3. ZoneOK(left)
    BY <1>1, <1>2, TakeOut DEF Becomes
  <2> HIDE DEF left, h, it, z, c, f, rest
  <2>4. /\ \A j, x : Lies(after, j, x) => Lies(left, j, x) \/ (j = f /\ x = rest)
        /\ Lies(after, f, rest)
    BY <2>3, UpsertLies
  <2> HIDE DEF after
  <2>5. \A j, x : Lies(after, j, x) => Lies(zone[z], j, x) \/ (j = f /\ x = rest)
    BY <1>5, <2>4
  <2>6. rest.kind = it.kind /\ Bare(h).amount + rest.amount <= it.amount
    BY <1>4, <1>7 DEF rest
  <2>7. PartLifted(zone[z], after, i, it, h)
    BY <2>1, <2>2, <2>4, <2>5, <2>6 DEF PartLifted
  <2> QED BY <1>1, <1>3, <1>4, <2>1, <2>7, LiftIsHonest
<1> QED BY <1>6, <1>7

-----------------------------------------------------------------------------
(* Steps that change what a player has about it, and no zone *)

\* What p has after the step is at most what somebody had before it.
LEMMA BodyIsHonest ==
  ASSUME IInv, IInv', Known, NEW p \in Players, UNCHANGED <<zone, fresh, corpse>>,
         \A q \in Players \ {p} : worn'[q] = worn[q] /\ held'[q] = held[q] /\ back'[q] = back[q],
         \A j \in Serials : \A x : Bears(worn'[p], held'[p], back'[p], j, x) =>
           \E was : Bears(worn[p], held[p], back[p], j, was) /\ Less(x, was)
  PROVE  Honest
<1>1. ASSUME NEW j \in Serials PROVE Lasts(j)
  <2> SUFFICES ASSUME NEW x, Has(j, x)' PROVE \E was : Has(j, was) /\ Less(x, was)
    BY DEF Lasts
  <2> HIDE DEF Bears
  <2>1. CASE HasZone(j, x)'
    <3>1. Has(j, x)
      BY <2>1, ZoneHasStill DEF Has
    <3> QED BY <3>1, ItselfLess
  <2>2. CASE HasBody(j, x)'
    <3>1. CASE HasBody(j, x)
      <4>1. Has(j, x)
        BY <3>1 DEF Has
      <4> QED BY <4>1, ItselfLess
    <3>2. CASE Bears(worn'[p], held'[p], back'[p], j, x)
      <4>1. PICK was : Bears(worn[p], held[p], back[p], j, was) /\ Less(x, was)
        BY <3>2
      <4>2. Has(j, was)
        BY <4>1, BodyIs DEF Has
      <4> QED BY <4>1, <4>2
    <3> QED BY <2>2, <3>1, <3>2, BodyHas
  <2> QED BY <2>1, <2>2 DEF Has
<1>2. SameLayers
  BY DEF SameLayers
<1> QED BY <1>1, <1>2, LastingIsHonest

LEMMA BareLess ==
  ASSUME NEW h \in Held
  PROVE  Less(Bare(h), Bare(h)) /\ \A k : k = Bare(h).kind => Less([kind |-> k, amount |-> 1], Bare(h))
BY ItemsAssumption DEF Bare, Less, Held

LEMMA DressLess ==
  ASSUME NEW w
  PROVE  Less(Dress(w), Dress(w))
BY DEF Dress, Less

\* What p has about it is of its type.
LEMMA BodyTyped ==
  ASSUME IInv, NEW p \in Players
  PROVE  /\ held[p] \in Held \cup {None} /\ back[p] \in Back \cup {None} /\ PartOf(worn[p], Serials, Worn)
         /\ back[p] # None => back[p].item \in Held
         /\ None \notin Held \cup Back
BY ItemsAssumption DEF IInv, Folk, Back

LEMMA LiftWornHonest ==
  ASSUME IInv, IInv', Known, NEW p \in Players, NEW i \in Serials, LiftWorn(p, i)
  PROVE  Honest
<1> DEFINE h == [serial |-> i, kind |-> worn[p][i].kind, amount |-> 1, from |-> "worn"]
<1>1. /\ UNCHANGED <<zone, fresh, corpse, back>> /\ i \in DOMAIN worn[p]
      /\ worn' = [worn EXCEPT ![p] = Without(@, {i})] /\ held' = [held EXCEPT ![p] = h]
      /\ DOMAIN worn = Players /\ DOMAIN held = Players
  BY DEF LiftWorn, MayLift, body, IInv, Folk
<1>2. /\ worn'[p] = Without(worn[p], {i}) /\ held'[p] = h /\ back'[p] = back[p]
      /\ \A q \in Players \ {p} : worn'[q] = worn[q] /\ held'[q] = held[q] /\ back'[q] = back[q]
  BY <1>1
<1>3. h.serial = i /\ Bare(h) = Dress(worn[p][i])
  BY DEF Bare, Dress
<1> HIDE DEF h
<1>4. ASSUME NEW j \in Serials, NEW x, Bears(worn'[p], held'[p], back'[p], j, x)
      PROVE  \E was : Bears(worn[p], held[p], back[p], j, was) /\ Less(x, was)
  <2>1. CASE j \in DOMAIN worn'[p] /\ x = Dress(worn'[p][j])
    <3>1. j \in DOMAIN worn[p] /\ x = Dress(worn[p][j])
      BY <1>2, <2>1 DEF Without
    <3> QED BY <3>1, DressLess DEF Bears
  <2>2. CASE held'[p] # None /\ held'[p].serial = j /\ x = Bare(held'[p])
    <3>1. j \in DOMAIN worn[p] /\ x = Dress(worn[p][j])
      BY <1>1, <1>2, <1>3, <2>2
    <3> QED BY <3>1, DressLess DEF Bears
  <2>3. CASE back'[p] # None /\ back'[p].item.serial = j /\ x = Bare(back'[p].item)
    BY <1>2, <2>3, BodyTyped, BareLess DEF Bears
  <2> QED BY <1>4, <2>1, <2>2, <2>3 DEF Bears
<1> QED BY <1>1, <1>2, <1>4, BodyIsHonest

LEMMA DropRejectedHonest ==
  ASSUME IInv, IInv', Known, NEW p \in Players, DropRejected(p)
  PROVE  Honest
<1>1. /\ UNCHANGED <<zone, fresh, corpse, worn>> /\ DOMAIN held = Players /\ DOMAIN back = Players
      /\ held[p] # None /\ held' = [held EXCEPT ![p] = None]
      /\ back' = [back EXCEPT ![p] = [item |-> held[p], pack |-> None,
                                      stage |-> IF held[p].from = "ground" THEN "feet" ELSE "look"]]
  BY DEF DropRejected, body, gear, IInv, Folk
<1>2. /\ worn'[p] = worn[p] /\ held'[p] = None /\ back'[p].item = held[p]
      /\ \A q \in Players \ {p} : worn'[q] = worn[q] /\ held'[q] = held[q] /\ back'[q] = back[q]
  BY <1>1
<1>3. ASSUME NEW j \in Serials, NEW x, Bears(worn'[p], held'[p], back'[p], j, x)
      PROVE  \E was : Bears(worn[p], held[p], back[p], j, was) /\ Less(x, was)
  <2>1. CASE j \in DOMAIN worn'[p] /\ x = Dress(worn'[p][j])
    BY <1>2, <2>1, DressLess DEF Bears
  <2>2. CASE back'[p] # None /\ back'[p].item.serial = j /\ x = Bare(back'[p].item)
    <3>1. held[p].serial = j /\ x = Bare(held[p]) /\ held[p] \in Held
      BY <1>1, <1>2, <2>2, BodyTyped
    <3> QED BY <1>1, <3>1, BareLess DEF Bears
  <2> QED BY <1>2, <1>3, <2>1, <2>2 DEF Bears
<1> QED BY <1>1, <1>2, <1>3, BodyIsHonest

LEMMA LookForPackHonest ==
  ASSUME IInv, IInv', Known, NEW p \in Players, LookForPack(p)
  PROVE  Honest
<1>1. /\ UNCHANGED <<zone, fresh, corpse, worn, held>> /\ DOMAIN back = Players
      /\ back[p] # None /\ back[p] \in Back
      /\ \/ back' = [back EXCEPT ![p].stage = "feet"]
         \/ \E b \in Pack(p) : back' = [back EXCEPT ![p].stage = "pack", ![p].pack = b]
  BY BodyTyped DEF LookForPack, Busy, body, gear, IInv, Folk
<1>2. /\ worn'[p] = worn[p] /\ held'[p] = held[p] /\ back'[p].item = back[p].item
      /\ \A q \in Players \ {p} : worn'[q] = worn[q] /\ held'[q] = held[q] /\ back'[q] = back[q]
  <2>1. CASE back' = [back EXCEPT ![p].stage = "feet"]
    BY <1>1, <2>1 DEF Back
  <2>2. CASE \E b \in Pack(p) : back' = [back EXCEPT ![p].stage = "pack", ![p].pack = b]
    <3>1. PICK b \in Pack(p) : back' = [back EXCEPT ![p].stage = "pack", ![p].pack = b]
      BY <2>2
    <3> QED BY <1>1, <3>1 DEF Back
  <2> QED BY <1>1, <2>1, <2>2
<1>3. ASSUME NEW j \in Serials, NEW x, Bears(worn'[p], held'[p], back'[p], j, x)
      PROVE  \E was : Bears(worn[p], held[p], back[p], j, was) /\ Less(x, was)
  <2>1. CASE j \in DOMAIN worn'[p] /\ x = Dress(worn'[p][j])
    BY <1>2, <2>1, DressLess DEF Bears
  <2>2. CASE held'[p] # None /\ held'[p].serial = j /\ x = Bare(held'[p])
    <3>1. held[p] \in Held
      BY <1>2, <2>2, BodyTyped
    <3> QED BY <1>2, <2>2, <3>1, BareLess DEF Bears
  <2>3. CASE back'[p] # None /\ back'[p].item.serial = j /\ x = Bare(back'[p].item)
    <3>1. back[p].item \in Held
      BY <1>1, BodyTyped
    <3> QED BY <1>1, <1>2, <2>3, <3>1, BareLess DEF Bears
  <2> QED BY <1>3, <2>1, <2>2, <2>3 DEF Bears
<1> QED BY <1>1, <1>2, <1>3, BodyIsHonest

-----------------------------------------------------------------------------
(* Drops *)

\* The item i has come to rest in the zone as `lot`, or it has become part of another item there.
Rested(zs, after, i, lot) ==
  \A j, x : Lies(after, j, x) => Lies(zs, j, x) \/ (j = i /\ x = lot)
Blended(zs, after, i, lot) ==
  \E t \in Serials \ {i} : \E was :
    /\ Lies(zs, t, was) /\ was.kind = lot.kind
    /\ \A j, x : Lies(after, j, x) =>
         IF j = t THEN x.kind = was.kind /\ x.amount <= was.amount + lot.amount ELSE Lies(zs, j, x)

\* What a player has about it is nowhere else.
LEMMA BodyAlone ==
  ASSUME IInv, NEW p \in Players, NEW i \in Serials, NEW lot, Bears(worn[p], held[p], back[p], i, lot)
  PROVE  /\ \A x : ~ HasZone(i, x)
         /\ \A q \in Players \ {p} : \A x : ~ Bears(worn[q], held[q], back[q], i, x)
<1>1. ASSUME NEW q \in Players, NEW x, Bears(worn[q], held[q], back[q], i, x)
      PROVE  \E k \in {"worn", "cursor", "back"} : At(i, k, q)
  BY <1>1 DEF Bears, At, Holds, Returns, Busy
<1>2. ASSUME NEW x, HasZone(i, x)
      PROVE  \E k \in {"ground", "box"}, z \in Zones : At(i, k, z)
  BY <1>2, ZoneIsAt DEF HasZone, Lies
<1>3. PICK k \in {"worn", "cursor", "back"} : At(i, k, p)
  BY <1>1
<1>4. \A l \in Ways, y \in Sites : At(i, l, y) => l = k /\ y = p
  BY <1>3 DEF IInv, Single, Ways, Sites
<1>5. \A x : ~ HasZone(i, x)
  BY <1>2, <1>4 DEF Ways, Sites
<1>6. \A q \in Players \ {p} : \A x : ~ Bears(worn[q], held[q], back[q], i, x)
  BY <1>1, <1>4 DEF Ways, Sites
<1> QED BY <1>5, <1>6

\* What p lets go of, the zone has.
LEMMA SettleIsHonest ==
  ASSUME IInv, IInv', Known, NEW p \in Players, NEW i \in Serials, NEW lot,
         Bears(worn[p], held[p], back[p], i, lot), UNCHANGED <<fresh, corpse>>,
         \A q \in Players \ {p} : worn'[q] = worn[q] /\ held'[q] = held[q] /\ back'[q] = back[q],
         \A j \in Serials : \A x : Bears(worn'[p], held'[p], back'[p], j, x) =>
           j # i /\ Bears(worn[p], held[p], back[p], j, x),
         NEW z \in Zones, NEW after, zone' = [zone EXCEPT ![z] = after],
         Rested(zone[z], after, i, lot) \/ Blended(zone[z], after, i, lot)
  PROVE  Honest
<1> HIDE DEF Bears
<1>1. Stores
  BY DEF IInv
<1>2. SameLayers
  BY DEF SameLayers
<1>3. Has(i, lot)
  BY BodyIs DEF Has
<1>4. ASSUME NEW j \in Serials, NEW x, HasBody(j, x)' PROVE j # i /\ HasBody(j, x)
  <2>1. PICK q \in Players : Bears(worn'[q], held'[q], back'[q], j, x)
    BY <1>4, BodyIs
  <2>2. CASE q = p
    BY <2>1, <2>2, BodyIs
  <2>3. CASE q # p
    <3>1. Bears(worn[q], held[q], back[q], j, x)
      BY <2>1, <2>3
    <3>2. j # i
      BY <2>3, <3>1, BodyAlone
    <3> QED BY <3>1, <3>2, BodyIs
  <2> QED BY <2>2, <2>3
<1>5. CASE Rested(zone[z], after, i, lot)
  <2>1. ASSUME NEW j \in Serials PROVE Lasts(j)
    <3> SUFFICES ASSUME NEW x, Has(j, x)' PROVE \E was : Has(j, was) /\ Less(x, was)
      BY DEF Lasts
    <3>1. HasZone(j, x)' => HasZone(j, x) \/ (j = i /\ x = lot)
      <4>1. HasZone(j, x)' => Lies(after, j, x) \/ HasZone(j, x)
        BY <1>1, ZoneHas
      <4>2. Lies(zone[z], j, x) => HasZone(j, x)
        BY DEF HasZone
      <4> QED BY <1>5, <4>1, <4>2 DEF Rested
    <3>2. Has(j, x)
      BY <1>3, <1>4, <3>1 DEF Has
    <3> QED BY <3>2, ItselfLess
  <2> QED BY <1>2, <2>1, LastingIsHonest
<1>6. CASE Blended(zone[z], after, i, lot)
  <2>0. PICK t \in Serials \ {i} : \E was :
          /\ Lies(zone[z], t, was) /\ was.kind = lot.kind
          /\ \A j, x : Lies(after, j, x) =>
               IF j = t THEN x.kind = was.kind /\ x.amount <= was.amount + lot.amount ELSE Lies(zone[z], j, x)
    BY <1>6 DEF Blended
  <2>1. PICK was :
          /\ Lies(zone[z], t, was) /\ was.kind = lot.kind
          /\ \A j, x : Lies(after, j, x) =>
               IF j = t THEN x.kind = was.kind /\ x.amount <= was.amount + lot.amount ELSE Lies(zone[z], j, x)
    BY <2>0
  <2>2. Has(t, was)
    BY <2>1 DEF Has, HasZone
  <2>3. ASSUME NEW j \in Serials \ {t}, NEW x, Has(j, x)' PROVE j # i /\ Has(j, x)
    <3>1. CASE HasBody(j, x)'
      BY <1>4, <3>1 DEF Has
    <3>2. CASE HasZone(j, x)'
      <4>1. Lies(after, j, x) \/ HasZone(j, x)
        BY <1>1, <3>2, ZoneHas
      <4>2. HasZone(j, x)
        BY <2>1, <4>1 DEF HasZone
      <4> QED BY <4>2, BodyAlone DEF Has
    <3> QED BY <2>3, <3>1, <3>2 DEF Has
  <2>4. ASSUME NEW x, Has(t, x)' PROVE x.kind = was.kind /\ x.amount <= was.amount + lot.amount
    <3>1. was \in Item /\ lot \in Item
      BY <1>3, <2>2, HasSite
    <3>2. was.amount \in 1 .. MaxAmount /\ lot.amount \in 1 .. MaxAmount
      BY <3>1, CountIs
    <3>3. CASE Has(t, x)
      <4>1. x = was
        BY <2>2, <3>3, HasOne
      <4> QED BY <3>2, <4>1, ItemsAssumption
    <3>4. CASE Lies(after, t, x)
      BY <2>1, <3>4
    <3>5. Has(t, x) \/ Lies(after, t, x)
      <4>1. HasBody(t, x)' => HasBody(t, x)
        BY <1>4
      <4>2. HasZone(t, x)' => Lies(after, t, x) \/ HasZone(t, x)
        BY <1>1, ZoneHas
      <4> QED BY <2>4, <4>1, <4>2 DEF Has
    <3> QED BY <3>3, <3>4, <3>5
  <2>5. \A o \in Serials \ {t, i} : Lasts(o)
    BY <2>3, ItselfLess DEF Lasts
  <2>6. Poorer
    BY <1>3, <2>1, <2>2, <2>3, <2>4, <2>5, Merges
  <2>7. \A o \in Serials : SameKind(o)
    BY <2>2, <2>3, <2>4 DEF SameKind
  <2>8. Known'
    BY <1>2, <2>7, KnownStays
  <2> QED BY <2>6, <2>8 DEF Honest
<1> QED BY <1>5, <1>6

LEMMA MoreIs ==
  ASSUME NEW it \in Item, NEW h \in Held, Alike(it, h)
  PROVE  /\ it.kind = Bare(h).kind /\ More(it, h).kind = it.kind
         /\ More(it, h).amount <= it.amount + Bare(h).amount
         /\ it.amount <= it.amount + Bare(h).amount
BY ItemsAssumption DEF Alike, Bare, More, Least, Item, Held

\* No item of the zone is both on the ground and in a container.
Apart(zs) == DOMAIN zs.ground \cap DOMAIN zs.index = {}

LEMMA SetItemBlends ==
  ASSUME NEW zs, ZoneOK(zs), Apart(zs), NEW h \in Held, NEW c, NEW t, In(zs, c, t), t # h.serial,
         Alike(zs.boxes[c][t], h)
  PROVE  Blended(zs, SetItem(zs, c, t, More(zs.boxes[c][t], h)), h.serial, Bare(h))
<1> DEFINE was == zs.boxes[c][t]
           new == More(was, h)
           after == SetItem(zs, c, t, new)
<1>1. was \in Item /\ t \in Serials
  BY DEF ZoneOK, PartOf, In
<1>2. Lies(zs, t, was)
  BY DEF Lies, In
<1>3. Alike(was, h)
  OBVIOUS
<1> HIDE DEF was
<1>4. /\ was.kind = Bare(h).kind /\ new.kind = was.kind
      /\ new.amount <= was.amount + Bare(h).amount /\ was.amount <= was.amount + Bare(h).amount
  BY <1>1, <1>3, MoreIs
<1> HIDE DEF new
<1>5. \A j, x : Lies(after, j, x) => Lies(zs, j, x) \/ (j = t /\ x = new)
  BY SetItemLies
<1> HIDE DEF after
<1>6. \A x : Lies(zs, t, x) => x = was
  <2>1. t \in DOMAIN zs.index /\ zs.index[t] = c
    BY DEF ZoneOK, Exact, In
  <2>2. t \notin DOMAIN zs.ground
    BY <2>1 DEF Apart
  <2> QED BY <2>1, <2>2 DEF Lies, ZoneOK, Exact, was
<1>7. ASSUME NEW j, NEW x, Lies(after, j, x)
      PROVE  IF j = t THEN x.kind = was.kind /\ x.amount <= was.amount + Bare(h).amount ELSE Lies(zs, j, x)
  BY <1>4, <1>5, <1>6, <1>7
<1>8. Blended(zs, after, h.serial, Bare(h))
  BY <1>1, <1>2, <1>4, <1>7 DEF Blended
<1> QED BY <1>8 DEF after, new, was

\* drop_into_container and drop_on_entity: the item lands there, or a stack takes it in.
LEMMA IntoRests ==
  ASSUME NEW zs, ZoneOK(zs), Apart(zs), NEW h \in Held, h.serial \notin DOMAIN zs.index,
         NEW c \in DOMAIN zs.boxes, NEW auto, NEW after \in Into(zs, h, c, auto)
  PROVE  Rested(zs, after, h.serial, Bare(h)) \/ Blended(zs, after, h.serial, Bare(h))
<1> DEFINE stacks == {j \in DOMAIN Content(zs, c) : auto /\ Alike(zs.boxes[c][j], h)}
<1>1. CASE stacks = {}
  <2>1. after = Upsert(zs, c, h.serial, Bare(h))
    BY <1>1 DEF Into
  <2> QED BY <2>1, UpsertLies DEF Rested
<1>2. CASE stacks # {}
  <2>1. PICK j \in stacks : after = SetItem(zs, c, j, More(zs.boxes[c][j], h))
    BY <1>2 DEF Into
  <2>2. In(zs, c, j) /\ Alike(zs.boxes[c][j], h)
    BY DEF Content, In
  <2>3. j # h.serial
    BY <2>2 DEF ZoneOK, Exact, In
  <2> QED BY <2>1, <2>2, <2>3, SetItemBlends
<1> QED BY <1>1, <1>2

LEMMA OntoRests ==
  ASSUME NEW zs, ZoneOK(zs), Apart(zs), NEW h \in Held, h.serial \notin DOMAIN zs.index \cup DOMAIN zs.ground,
         NEW t, NEW auto, NEW after \in Onto(zs, h, t, auto)
  PROVE  Rested(zs, after, h.serial, Bare(h)) \/ Blended(zs, after, h.serial, Bare(h))
<1>1. CASE t \in DOMAIN zs.boxes
  <2>1. after \in Into(zs, h, t, auto)
    BY <1>1 DEF Onto
  <2> QED BY <1>1, <2>1, IntoRests
<1>2. CASE t \notin DOMAIN zs.boxes /\ t \in DOMAIN zs.ground
  <2> DEFINE was == zs.ground[t]
             g == [zs.ground EXCEPT ![t] = More(was, h)]
  <2>1. after = [zs EXCEPT !.ground = g] /\ Alike(was, h)
    BY <1>2 DEF Onto
  <2>2. was \in Item /\ t \in Serials /\ t # h.serial
    BY <1>2 DEF ZoneOK, PartOf
  <2>3. Lies(zs, t, was)
    BY <1>2 DEF Lies
  <2>4. \A j, x : j \in DOMAIN g /\ x = g[j] => IF j = t THEN x = More(was, h) ELSE Lies(zs, j, x)
    BY <1>2 DEF Lies
  <2>5. ~ \E c \in DOMAIN zs.boxes : t \in DOMAIN zs.boxes[c]
    BY <1>2 DEF Apart, ZoneOK, Exact
  <2> HIDE DEF was, g
  <2>6. /\ was.kind = Bare(h).kind /\ More(was, h).kind = was.kind
        /\ More(was, h).amount <= was.amount + Bare(h).amount
    BY <2>1, <2>2, MoreIs
  <2>7. ASSUME NEW j, NEW x, Lies(after, j, x)
        PROVE  IF j = t THEN x.kind = was.kind /\ x.amount <= was.amount + Bare(h).amount ELSE Lies(zs, j, x)
    <3>1. CASE j \in DOMAIN g /\ x = g[j]
      BY <2>4, <2>6, <3>1
    <3>2. CASE \E c \in DOMAIN zs.boxes : j \in DOMAIN zs.boxes[c] /\ x = zs.boxes[c][j]
      BY <2>5, <3>2 DEF Lies
    <3> QED BY <2>1, <2>7, <3>1, <3>2, GroundLies
  <2> QED BY <2>2, <2>3, <2>6, <2>7 DEF Blended
<1>3. CASE t \notin DOMAIN zs.boxes \cup DOMAIN zs.ground /\ t \in DOMAIN zs.index
  <2> DEFINE c == zs.index[t]
  <2>1. In(zs, c, t) /\ c \in DOMAIN zs.boxes /\ t # h.serial
    BY <1>3, IndexedIsSerial DEF In
  <2>2. CASE Alike(zs.boxes[c][t], h)
    <3>1. after = SetItem(zs, c, t, More(zs.boxes[c][t], h))
      BY <1>3, <2>2 DEF Onto
    <3> QED BY <2>1, <2>2, <3>1, SetItemBlends
  <2>3. CASE ~ Alike(zs.boxes[c][t], h)
    <3>1. after \in Into(zs, h, c, auto)
      BY <1>3, <2>3 DEF Onto
    <3> QED BY <2>1, <3>1, IntoRests
  <2> QED BY <2>2, <2>3
<1>4. CASE t \notin DOMAIN zs.boxes \cup DOMAIN zs.ground \cup DOMAIN zs.index
  BY <1>4 DEF Onto
<1> QED BY <1>1, <1>2, <1>3, <1>4

LEMMA ZoneApart ==
  ASSUME IInv, NEW z \in Zones
  PROVE  ZoneOK(zone[z]) /\ Apart(zone[z])
<1>1. ZoneOK(zone[z])
  BY DEF IInv, Stores
<1>2. ASSUME NEW i \in DOMAIN zone[z].ground \cap DOMAIN zone[z].index PROVE FALSE
  <2>1. i \in Serials
    BY <1>1 DEF ZoneOK, PartOf
  <2>2. At(i, "ground", z) /\ At(i, "box", z)
    BY DEF At, Ground
  <2> QED BY <2>1, <2>2 DEF IInv, Single, Ways, Sites
<1> QED BY <1>1, <1>2 DEF Apart

\* The item that p lets go of lands in the zone of p.
LEMMA LandingIsHonest ==
  ASSUME IInv, IInv', Known, NEW p \in Players, NEW h \in Held,
         Bears(worn[p], held[p], back[p], h.serial, Bare(h)), UNCHANGED <<fresh, corpse>>,
         \A q \in Players \ {p} : worn'[q] = worn[q] /\ held'[q] = held[q] /\ back'[q] = back[q],
         \A j \in Serials : \A x : Bears(worn'[p], held'[p], back'[p], j, x) =>
           j # h.serial /\ Bears(worn[p], held[p], back[p], j, x),
         NEW after, Settles(h, place[p], after),
         after = Laid(zone[place[p]], h) \/ \E t, auto : after \in Onto(zone[place[p]], h, t, auto)
  PROVE  Honest
<1> HIDE DEF Bears
<1> DEFINE z == place[p]
           i == h.serial
           lot == Bare(h)
<1>1. z \in Zones /\ i \in Serials /\ zone' = [zone EXCEPT ![z] = after]
  BY DEF IInv, Folk, Held, Settles
<1>2. ZoneOK(zone[z]) /\ Apart(zone[z])
  BY <1>1, ZoneApart
<1>3. i \notin DOMAIN zone[z].index \cup DOMAIN zone[z].ground
  <2>1. \A x : ~ HasZone(i, x)
    BY <1>1, BodyAlone
  <2>2. \A x : ~ Lies(zone[z], i, x)
    BY <1>1, <2>1 DEF HasZone
  <2>3. i \notin DOMAIN zone[z].ground
    BY <2>2 DEF Lies
  <2>4. i \notin DOMAIN zone[z].index
    BY <1>1, <2>2, ZoneIsAt DEF Lies, In
  <2> QED BY <2>3, <2>4
<1>4. Rested(zone[z], after, i, lot) \/ Blended(zone[z], after, i, lot)
  <2>1. CASE after = Laid(zone[z], h)
    BY <1>2, <2>1, LaidLies DEF Rested
  <2>2. CASE \E t, auto : after \in Onto(zone[z], h, t, auto)
    BY <1>2, <1>3, <2>2, OntoRests
  <2> QED BY <2>1, <2>2
<1> HIDE DEF z, i, lot
<1>5. /\ Bears(worn[p], held[p], back[p], i, lot)
      /\ \A j \in Serials : \A x : Bears(worn'[p], held'[p], back'[p], j, x) =>
           j # i /\ Bears(worn[p], held[p], back[p], j, x)
  BY DEF i, lot
<1> QED BY <1>1, <1>4, <1>5, SettleIsHonest

\* What is on the cursor, or on its way back, is not also elsewhere about the player.
LEMMA HandAlone ==
  ASSUME IInv, NEW p \in Players, held[p] # None
  PROVE  /\ held[p] \in Held
         /\ Bears(worn[p], held[p], back[p], held[p].serial, Bare(held[p]))
         /\ \A j, x : Bears(worn[p], None, back[p], j, x) =>
              j # held[p].serial /\ Bears(worn[p], held[p], back[p], j, x)
<1>1. held[p] \in Held /\ held[p].serial \in Serials
  BY BodyTyped DEF Held
<1>2. Bears(worn[p], held[p], back[p], held[p].serial, Bare(held[p]))
  BY DEF Bears
<1>3. At(held[p].serial, "cursor", p)
  BY DEF At, Holds
<1>4. ~ At(held[p].serial, "worn", p) /\ ~ At(held[p].serial, "back", p)
  BY <1>1, <1>3 DEF IInv, Single, Ways, Sites
<1>5. ASSUME NEW j, NEW x, Bears(worn[p], None, back[p], j, x)
      PROVE  j # held[p].serial /\ Bears(worn[p], held[p], back[p], j, x)
  <2>1. At(j, "worn", p) \/ At(j, "back", p)
    BY <1>5 DEF Bears, At, Returns, Busy
  <2>2. j # held[p].serial
    BY <1>4, <2>1
  <2> QED BY <1>5, <2>2 DEF Bears
<1> QED BY <1>1, <1>2, <1>5

LEMMA BackAlone ==
  ASSUME IInv, NEW p \in Players, back[p] # None
  PROVE  /\ back[p].item \in Held
         /\ Bears(worn[p], held[p], back[p], back[p].item.serial, Bare(back[p].item))
         /\ \A j, x : Bears(worn[p], held[p], None, j, x) =>
              j # back[p].item.serial /\ Bears(worn[p], held[p], back[p], j, x)
<1>1. back[p].item \in Held /\ back[p].item.serial \in Serials
  BY BodyTyped DEF Held
<1>2. Bears(worn[p], held[p], back[p], back[p].item.serial, Bare(back[p].item))
  BY DEF Bears
<1>3. At(back[p].item.serial, "back", p)
  BY DEF At, Returns, Busy
<1>4. ~ At(back[p].item.serial, "worn", p) /\ ~ At(back[p].item.serial, "cursor", p)
  BY <1>1, <1>3 DEF IInv, Single, Ways, Sites
<1>5. ASSUME NEW j, NEW x, Bears(worn[p], held[p], None, j, x)
      PROVE  j # back[p].item.serial /\ Bears(worn[p], held[p], back[p], j, x)
  <2>1. At(j, "worn", p) \/ At(j, "cursor", p)
    BY <1>5 DEF Bears, At, Holds
  <2>2. j # back[p].item.serial
    BY <1>4, <2>1
  <2> QED BY <1>5, <2>2 DEF Bears
<1> QED BY <1>1, <1>2, <1>5

\* What was on the cursor lands.
LEMMA HandLands ==
  ASSUME IInv, IInv', Known, NEW p \in Players, held[p] # None,
         held' = [held EXCEPT ![p] = None], UNCHANGED <<worn, back, fresh, corpse>>,
         NEW after, Settles(held[p], place[p], after),
         after = Laid(zone[place[p]], held[p]) \/ \E t, auto : after \in Onto(zone[place[p]], held[p], t, auto)
  PROVE  Honest
<1>1. /\ worn'[p] = worn[p] /\ held'[p] = None /\ back'[p] = back[p]
      /\ \A q \in Players \ {p} : worn'[q] = worn[q] /\ held'[q] = held[q] /\ back'[q] = back[q]
  BY DEF IInv, Folk
<1> HIDE DEF Bears
<1>2. \A j \in Serials : \A x : Bears(worn'[p], held'[p], back'[p], j, x) =>
        j # held[p].serial /\ Bears(worn[p], held[p], back[p], j, x)
  BY <1>1, HandAlone
<1> DEFINE h == held[p]
<1>3. /\ h \in Held /\ Bears(worn[p], held[p], back[p], h.serial, Bare(h))
      /\ Settles(h, place[p], after)
      /\ after = Laid(zone[place[p]], h) \/ \E t, auto : after \in Onto(zone[place[p]], h, t, auto)
      /\ \A j \in Serials : \A x : Bears(worn'[p], held'[p], back'[p], j, x) =>
           j # h.serial /\ Bears(worn[p], held[p], back[p], j, x)
  BY <1>2, HandAlone
<1> HIDE DEF h
<1> QED BY <1>1, <1>3, LandingIsHonest

\* What was on its way back lands.
LEMMA BackLands ==
  ASSUME IInv, IInv', Known, NEW p \in Players, back[p] # None,
         back' = [back EXCEPT ![p] = None], UNCHANGED <<worn, held, fresh, corpse>>,
         NEW after, Settles(back[p].item, place[p], after),
         \/ after = Laid(zone[place[p]], back[p].item)
         \/ \E t, auto : after \in Onto(zone[place[p]], back[p].item, t, auto)
  PROVE  Honest
<1>1. /\ worn'[p] = worn[p] /\ held'[p] = held[p] /\ back'[p] = None
      /\ \A q \in Players \ {p} : worn'[q] = worn[q] /\ held'[q] = held[q] /\ back'[q] = back[q]
  BY DEF IInv, Folk
<1> HIDE DEF Bears
<1>2. \A j \in Serials : \A x : Bears(worn'[p], held'[p], back'[p], j, x) =>
        j # back[p].item.serial /\ Bears(worn[p], held[p], back[p], j, x)
  BY <1>1, BackAlone
<1> DEFINE h == back[p].item
<1>3. /\ h \in Held /\ Bears(worn[p], held[p], back[p], h.serial, Bare(h))
      /\ Settles(h, place[p], after)
      /\ after = Laid(zone[place[p]], h) \/ \E t, auto : after \in Onto(zone[place[p]], h, t, auto)
      /\ \A j \in Serials : \A x : Bears(worn'[p], held'[p], back'[p], j, x) =>
           j # h.serial /\ Bears(worn[p], held[p], back[p], j, x)
  BY <1>2, BackAlone
<1> HIDE DEF h
<1> QED BY <1>1, <1>3, LandingIsHonest

LEMMA DropOnGroundHonest ==
  ASSUME IInv, IInv', Known, NEW p \in Players, DropOnGround(p)
  PROVE  Honest
<1>1. /\ held[p] # None /\ held' = [held EXCEPT ![p] = None] /\ UNCHANGED <<worn, back, fresh, corpse>>
      /\ Settles(held[p], place[p], Laid(zone[place[p]], held[p]))
  BY DEF DropOnGround, gear, body
<1> DEFINE after == Laid(zone[place[p]], held[p])
<1>2. Settles(held[p], place[p], after) /\ after = Laid(zone[place[p]], held[p])
  BY <1>1
<1> HIDE DEF after
<1> QED BY <1>1, <1>2, HandLands

LEMMA DropOnEntityHonest ==
  ASSUME IInv, IInv', Known, NEW p \in Players, NEW t, NEW auto, DropOnEntity(p, t, auto)
  PROVE  Honest
<1>1. /\ held[p] # None /\ held' = [held EXCEPT ![p] = None] /\ UNCHANGED <<worn, back, fresh, corpse>>
  BY DEF DropOnEntity, gear, body
<1>2. PICK after \in Onto(zone[place[p]], held[p], t, auto) : Settles(held[p], place[p], after)
  BY DEF DropOnEntity
<1>3. \E u, a : after \in Onto(zone[place[p]], held[p], u, a)
  OBVIOUS
<1> QED BY <1>1, <1>2, <1>3, HandLands

LEMMA ReturnToFeetHonest ==
  ASSUME IInv, IInv', Known, NEW p \in Players, ReturnToFeet(p)
  PROVE  Honest
<1>1. /\ back[p] # None /\ back' = [back EXCEPT ![p] = None] /\ UNCHANGED <<worn, held, fresh, corpse>>
      /\ Settles(back[p].item, place[p], Laid(zone[place[p]], back[p].item))
  BY DEF ReturnToFeet, gear, body, Busy
<1> DEFINE after == Laid(zone[place[p]], back[p].item)
<1>2. Settles(back[p].item, place[p], after) /\ after = Laid(zone[place[p]], back[p].item)
  BY <1>1
<1> HIDE DEF after
<1> QED BY <1>1, <1>2, BackLands

LEMMA ReturnToPackHonest ==
  ASSUME IInv, IInv', Known, NEW p \in Players, ReturnToPack(p)
  PROVE  Honest
<1>1. /\ back[p] # None /\ UNCHANGED <<worn, held, fresh, corpse>> /\ DOMAIN back = Players
  BY DEF ReturnToPack, gear, body, Busy, IInv, Folk
<1>2. CASE /\ \E after \in Onto(zone[place[p]], back[p].item, back[p].pack, TRUE) :
                Settles(back[p].item, place[p], after)
           /\ back' = [back EXCEPT ![p] = None]
  <2>1. PICK after \in Onto(zone[place[p]], back[p].item, back[p].pack, TRUE) :
               Settles(back[p].item, place[p], after)
    BY <1>2
  <2>2. \E u, a : after \in Onto(zone[place[p]], back[p].item, u, a)
    OBVIOUS
  <2> QED BY <1>1, <1>2, <2>1, <2>2, BackLands
<1>3. CASE back' = [back EXCEPT ![p].stage = "feet"] /\ UNCHANGED <<zone, spent>>
  <2>1. back[p] \in Back
    BY <1>1, BodyTyped
  <2>2. /\ worn'[p] = worn[p] /\ held'[p] = held[p] /\ back'[p].item = back[p].item
        /\ \A q \in Players \ {p} : worn'[q] = worn[q] /\ held'[q] = held[q] /\ back'[q] = back[q]
    BY <1>1, <1>3, <2>1 DEF Back
  <2>3. ASSUME NEW j \in Serials, NEW x, Bears(worn'[p], held'[p], back'[p], j, x)
        PROVE  Bears(worn[p], held[p], back[p], j, x)
    BY <1>1, <2>2, <2>3 DEF Bears
  <2>4. ASSUME NEW j \in Serials, NEW x, Bears(worn'[p], held'[p], back'[p], j, x)
        PROVE  \E was : Bears(worn[p], held[p], back[p], j, was) /\ Less(x, was)
    <3> HIDE DEF Bears
    <3>1. Bears(worn[p], held[p], back[p], j, x)
      BY <2>3, <2>4
    <3>2. Has(j, x)
      BY <3>1, BodyIs DEF Has
    <3> QED BY <3>1, <3>2, ItselfLess
  <2> HIDE DEF Bears
  <2> QED BY <1>1, <1>3, <2>2, <2>4, BodyIsHonest
<1> QED BY <1>2, <1>3 DEF ReturnToPack

\* A cursor is emptied, and what was on it is no more.
LEMMA LettingGoIsHonest ==
  ASSUME IInv, IInv', Known, NEW p \in Players, held' = [held EXCEPT ![p] = None],
         UNCHANGED <<zone, worn, back, fresh, corpse>>
  PROVE  Honest
<1>1. /\ worn'[p] = worn[p] /\ held'[p] = None /\ back'[p] = back[p]
      /\ \A q \in Players \ {p} : worn'[q] = worn[q] /\ held'[q] = held[q] /\ back'[q] = back[q]
  BY DEF IInv, Folk
<1>2. ASSUME NEW j \in Serials, NEW x, Bears(worn'[p], held'[p], back'[p], j, x)
      PROVE  Bears(worn[p], held[p], back[p], j, x)
  BY <1>1, <1>2 DEF Bears
<1> HIDE DEF Bears
<1>3. ASSUME NEW j \in Serials, NEW x, Bears(worn'[p], held'[p], back'[p], j, x)
      PROVE  \E was : Bears(worn[p], held[p], back[p], j, was) /\ Less(x, was)
  <2>1. Bears(worn[p], held[p], back[p], j, x)
    BY <1>2, <1>3
  <2>2. Has(j, x)
    BY <2>1, BodyIs DEF Has
  <2> QED BY <2>1, <2>2, ItselfLess
<1> QED BY <1>1, <1>3, BodyIsHonest

LEMMA DisconnectHonest ==
  ASSUME IInv, IInv', Known, NEW p \in Players, Disconnect(p)
  PROVE  Honest
<1>1. held' = [held EXCEPT ![p] = None] /\ UNCHANGED <<worn, back, fresh, corpse>>
  BY DEF Disconnect, SessionEnds, gear, body
<1>2. CASE held[p] # None
  <2> DEFINE after == Laid(zone[place[p]], held[p])
  <2>1. Settles(held[p], place[p], after) /\ after = Laid(zone[place[p]], held[p])
    BY <1>2 DEF Disconnect
  <2> HIDE DEF after
  <2> QED BY <1>1, <1>2, <2>1, HandLands
<1>3. CASE held[p] = None
  <2>1. UNCHANGED zone
    BY <1>3 DEF Disconnect
  <2> QED BY <1>1, <2>1, LettingGoIsHonest
<1> QED BY <1>2, <1>3

LEMMA HangUpHonest ==
  ASSUME IInv, IInv', Known, NEW p \in Players, HangUp(p)
  PROVE  Honest
<1>1. held' = [held EXCEPT ![p] = None] /\ UNCHANGED <<zone, worn, back, fresh, corpse>>
  BY DEF HangUp, SessionEnds, gear, body
<1> QED BY <1>1, LettingGoIsHonest

\* A step that moves no item.
LEMMA StillIsHonest ==
  ASSUME IInv, IInv', Known, UNCHANGED <<zone, worn, held, back, fresh, corpse>>
  PROVE  Honest
<1>1. ASSUME NEW i \in Serials PROVE Lasts(i)
  BY ZoneHasStill, BodyHasStill, ItselfLess DEF Lasts, Has
<1>2. SameLayers
  BY DEF SameLayers
<1> QED BY <1>1, <1>2, LastingIsHonest

-----------------------------------------------------------------------------
(* Equipment, consumption, travel *)

LEMMA WearHonest ==
  ASSUME IInv, IInv', Known, NEW p \in Players, NEW layer \in Layers, Wear(p, layer)
  PROVE  Honest
<1> DEFINE h == held[p]
           thing == [layer |-> layer, kind |-> h.kind]
<1>1. /\ h # None /\ UNCHANGED <<zone, fresh, corpse, back>>
      /\ DOMAIN worn = Players /\ DOMAIN held = Players /\ h \in Held
  BY BodyTyped DEF Wear, body, IInv, Folk
<1>2. Dress(thing) = [kind |-> h.kind, amount |-> 1] /\ Bare(h).kind = h.kind
  BY DEF Dress, Bare
<1>3. Less(Dress(thing), Bare(h))
  BY <1>1, <1>2, BareLess
<1>4. Bears(worn[p], h, back[p], h.serial, Bare(h))
  BY <1>1 DEF Bears
<1>5. ASSUME NEW j \in Serials, NEW x, back[p] # None, back[p].item.serial = j, x = Bare(back[p].item)
      PROVE  \E was : Bears(worn[p], held[p], back[p], j, was) /\ Less(x, was)
  BY <1>5, BodyTyped, BareLess DEF Bears
<1>6. CASE held' = [held EXCEPT ![p] = None] /\ worn' = [worn EXCEPT ![p] = Put(worn[p], h.serial, thing)]
  <2> HIDE DEF thing
  <2>1. /\ worn'[p] = Put(worn[p], h.serial, thing) /\ held'[p] = None /\ back'[p] = back[p]
        /\ \A q \in Players \ {p} : worn'[q] = worn[q] /\ held'[q] = held[q] /\ back'[q] = back[q]
    BY <1>1, <1>6
  <2>2. ASSUME NEW j \in Serials, NEW x, Bears(worn'[p], held'[p], back'[p], j, x)
        PROVE  \E was : Bears(worn[p], held[p], back[p], j, was) /\ Less(x, was)
    <3>1. CASE j \in DOMAIN worn'[p] /\ x = Dress(worn'[p][j])
      <4>1. CASE j = h.serial
        <5>1. x = Dress(thing)
          BY <2>1, <3>1, <4>1 DEF Put
        <5> QED BY <1>3, <1>4, <4>1, <5>1
      <4>2. CASE j # h.serial
        <5>1. j \in DOMAIN worn[p] /\ x = Dress(worn[p][j])
          BY <2>1, <3>1, <4>2 DEF Put
        <5> QED BY <5>1, DressLess DEF Bears
      <4> QED BY <4>1, <4>2
    <3>2. CASE back'[p] # None /\ back'[p].item.serial = j /\ x = Bare(back'[p].item)
      BY <1>5, <2>1, <3>2
    <3> QED BY <2>1, <2>2, <3>1, <3>2 DEF Bears
  <2> HIDE DEF Bears
  <2> QED BY <1>1, <2>1, <2>2, BodyIsHonest
<1>7. ASSUME NEW j \in DOMAIN worn[p],
             held' = [held EXCEPT ![p] = [serial |-> j, kind |-> worn[p][j].kind, amount |-> 1, from |-> "worn"]],
             worn' = [worn EXCEPT ![p] = Put(Without(worn[p], {j}), h.serial, thing)]
      PROVE  Honest
  <2> DEFINE h2 == [serial |-> j, kind |-> worn[p][j].kind, amount |-> 1, from |-> "worn"]
  <2>1. h2.serial = j /\ Bare(h2) = Dress(worn[p][j])
    BY DEF Bare, Dress
  <2>2. held' = [held EXCEPT ![p] = h2]
    BY <1>7
  <2> HIDE DEF thing, h2
  <2>3. /\ worn'[p] = Put(Without(worn[p], {j}), h.serial, thing) /\ held'[p] = h2 /\ back'[p] = back[p]
        /\ \A q \in Players \ {p} : worn'[q] = worn[q] /\ held'[q] = held[q] /\ back'[q] = back[q]
    BY <1>1, <1>7, <2>2
  <2>4. ASSUME NEW k \in Serials, NEW x, Bears(worn'[p], held'[p], back'[p], k, x)
        PROVE  \E was : Bears(worn[p], held[p], back[p], k, was) /\ Less(x, was)
    <3>1. CASE k \in DOMAIN worn'[p] /\ x = Dress(worn'[p][k])
      <4>1. CASE k = h.serial
        <5>1. x = Dress(thing)
          BY <2>3, <3>1, <4>1 DEF Put
        <5> QED BY <1>3, <1>4, <4>1, <5>1
      <4>2. CASE k # h.serial
        <5>1. k \in DOMAIN worn[p] /\ x = Dress(worn[p][k])
          BY <2>3, <3>1, <4>2 DEF Put, Without
        <5> QED BY <5>1, DressLess DEF Bears
      <4> QED BY <4>1, <4>2
    <3>2. CASE back'[p] # None /\ back'[p].item.serial = k /\ x = Bare(back'[p].item)
      BY <1>5, <2>3, <3>2
    <3>3. CASE held'[p] # None /\ held'[p].serial = k /\ x = Bare(held'[p])
      <4>1. k \in DOMAIN worn[p] /\ x = Dress(worn[p][k])
        BY <2>1, <2>3, <3>3
      <4> QED BY <4>1, DressLess DEF Bears
    <3> QED BY <2>4, <3>1, <3>2, <3>3 DEF Bears
  <2> HIDE DEF Bears
  <2> QED BY <1>1, <2>3, <2>4, BodyIsHonest
<1> QED BY <1>6, <1>7 DEF Wear

\* A step in one zone alone.
LEMMA ZoneIsHonest ==
  ASSUME IInv, IInv', Known, UNCHANGED <<worn, held, back, fresh, corpse>>,
         NEW z \in Zones, NEW after, zone' = [zone EXCEPT ![z] = after],
         \A j \in Serials : \A x : Lies(after, j, x) => \E was : Lies(zone[z], j, was) /\ Less(x, was)
  PROVE  Honest
<1>1. ASSUME NEW j \in Serials PROVE Lasts(j)
  <2> SUFFICES ASSUME NEW x, Has(j, x)' PROVE \E was : Has(j, was) /\ Less(x, was)
    BY DEF Lasts
  <2>1. CASE HasBody(j, x)'
    <3>1. Has(j, x)
      BY <2>1, BodyHasStill DEF Has
    <3> QED BY <3>1, ItselfLess
  <2>2. CASE HasZone(j, x)'
    <3>0. Stores
      BY DEF IInv
    <3>1. CASE HasZone(j, x)
      <4>1. Has(j, x)
        BY <3>1 DEF Has
      <4> QED BY <4>1, ItselfLess
    <3>2. CASE Lies(after, j, x)
      <4>1. PICK was : Lies(zone[z], j, was) /\ Less(x, was)
        BY <3>2
      <4>2. Has(j, was)
        BY <4>1 DEF Has, HasZone
      <4> QED BY <4>1, <4>2
    <3> QED BY <2>2, <3>0, <3>1, <3>2, ZoneHas
  <2> QED BY <2>1, <2>2 DEF Has
<1>2. SameLayers
  BY DEF SameLayers
<1> QED BY <1>1, <1>2, LastingIsHonest

LEMMA RestLess ==
  ASSUME NEW it \in Item, NEW n \in 1 .. MaxAmount
  PROVE  Less(Rest(it, n), it)
<1>1. it.amount \in 1 .. MaxAmount
  BY CountIs
<1> QED BY <1>1, ItemsAssumption DEF Less, Rest, Item

LEMMA ConsumeHonest ==
  ASSUME IInv, IInv', Known, NEW z \in Zones, NEW i \in Serials, NEW n \in 1 .. MaxAmount, Consume(z, i, n)
  PROVE  Honest
<1> DEFINE zs == zone[z]
           boxed == i \in DOMAIN zs.index
           c == zs.index[i]
           it == IF boxed THEN zs.boxes[c][i] ELSE zs.ground[i]
           after == IF n >= it.amount
                      THEN IF boxed THEN RemoveFrom(zs, c, i)
                                    ELSE [zs EXCEPT !.ground = Without(@, {i})]
                      ELSE IF boxed THEN SetItem(zs, c, i, Rest(it, n))
                                    ELSE [zs EXCEPT !.ground[i] = Rest(it, n)]
<1>1. /\ boxed \/ i \in DOMAIN zs.ground
      /\ zone' = [zone EXCEPT ![z] = after]
      /\ UNCHANGED <<worn, held, back, fresh, corpse>>
  BY DEF Consume, Ground, gear, body
<1>2. ZoneOK(zs) /\ it \in Item /\ (boxed => In(zs, c, i))
  <2>1. ZoneOK(zs)
    BY DEF IInv, Stores
  <2>2. boxed => it \in Item /\ In(zs, c, i)
    BY <2>1, IndexedIsSerial
  <2>3. ~ boxed => it \in Item
    BY <1>1, <2>1 DEF ZoneOK, PartOf
  <2> QED BY <2>1, <2>2, <2>3
<1>3. Lies(zs, i, it)
  BY <1>1, <1>2 DEF Lies, In
<1>4. \A j \in Serials : \A x : Lies(zs, j, x) => Less(x, x)
  BY ItselfLess DEF Has, HasZone
<1>5. ASSUME NEW j \in Serials, NEW x, Lies(after, j, x)
      PROVE  Lies(zs, j, x) \/ (j = i /\ x = Rest(it, n))
  <2>1. CASE boxed /\ n >= it.amount
    <3>1. after = RemoveFrom(zs, zs.index[i], i)
      BY <2>1
    <3> HIDE DEF after, zs
    <3> QED BY <1>2, <1>5, <2>1, <3>1, RemoveLies
  <2>2. CASE boxed /\ ~ (n >= it.amount)
    <3> DEFINE r == Rest(it, n)
    <3>1. after = SetItem(zs, c, i, r)
      BY <2>2
    <3> HIDE DEF after, zs, c, r
    <3>2. In(zs, c, i)
      BY <1>2, <2>2 DEF c
    <3>3. Lies(zs, j, x) \/ (j = i /\ x = r)
      BY <1>2, <1>5, <3>1, <3>2, SetItemLies
    <3> QED BY <3>3 DEF r
  <2>3. CASE ~ boxed /\ n >= it.amount
    <3> DEFINE g == Without(zs.ground, {i})
    <3>1. after = [zs EXCEPT !.ground = g]
      BY <2>3
    <3>2. j \in DOMAIN g /\ x = g[j] => j \in DOMAIN zs.ground /\ x = zs.ground[j]
      BY DEF Without
    <3> HIDE DEF after, zs, g
    <3> QED BY <1>2, <1>5, <3>1, <3>2, GroundLies DEF Lies
  <2>4. CASE ~ boxed /\ ~ (n >= it.amount)
    <3> DEFINE r == Rest(it, n)
               g == [zs.ground EXCEPT ![i] = r]
    <3>1. after = [zs EXCEPT !.ground = g]
      BY <2>4
    <3> HIDE DEF r
    <3>2. j \in DOMAIN g /\ x = g[j] => (j \in DOMAIN zs.ground /\ x = zs.ground[j]) \/ (j = i /\ x = r)
      OBVIOUS
    <3> HIDE DEF after, zs, g
    <3>3. Lies(zs, j, x) \/ (j = i /\ x = r)
      BY <1>2, <1>5, <3>1, <3>2, GroundLies DEF Lies
    <3> QED BY <3>3 DEF r
  <2> QED BY <2>1, <2>2, <2>3, <2>4
<1>6. Less(Rest(it, n), it)
  <2> HIDE DEF it
  <2> QED BY <1>2, RestLess
<1> HIDE DEF after, it
<1>7. ASSUME NEW j \in Serials, NEW x, Lies(after, j, x)
      PROVE  \E was : Lies(zone[z], j, was) /\ Less(x, was)
  BY <1>3, <1>4, <1>5, <1>6, <1>7
<1> QED BY <1>1, <1>7, ZoneIsHonest

\* Containers that go to another zone take along what is in them, and nothing else.
LEMMA ContainersTake ==
  ASSUME NEW zs, ZoneOK(zs), NEW ts, ZoneOK(ts), NEW moved, moved \subseteq DOMAIN zs.boxes, NEW j, NEW x
  PROVE  /\ Lies(Emptier(zs, moved), j, x) => Lies(zs, j, x)
         /\ Lies(Fuller(ts, zs, moved), j, x) => Lies(ts, j, x) \/ Lies(zs, j, x)
<1> DEFINE zn == Emptier(zs, moved)
           tn == Fuller(ts, zs, moved)
<1>1. zn.ground = zs.ground /\ zn.boxes = Without(zs.boxes, moved)
  BY DEF ZoneOK, Emptier
<1>2. tn.ground = ts.ground /\ tn.boxes = Over([c \in moved |-> zs.boxes[c]], ts.boxes)
  BY DEF ZoneOK, Fuller
<1> HIDE DEF zn, tn
<1>3. \A c \in DOMAIN zn.boxes : c \in DOMAIN zs.boxes /\ zn.boxes[c] = zs.boxes[c]
  BY <1>1 DEF Without
<1>4. \A c \in DOMAIN tn.boxes : \/ c \in DOMAIN zs.boxes /\ tn.boxes[c] = zs.boxes[c]
                                 \/ c \in DOMAIN ts.boxes /\ tn.boxes[c] = ts.boxes[c]
  BY <1>2 DEF Over
<1>5. Lies(zn, j, x) => Lies(zs, j, x)
  BY <1>1, <1>3 DEF Lies
<1>6. Lies(tn, j, x) => Lies(ts, j, x) \/ Lies(zs, j, x)
  BY <1>2, <1>4 DEF Lies
<1> QED BY <1>5, <1>6 DEF zn, tn

LEMMA TransferHonest ==
  ASSUME IInv, IInv', Known, NEW p \in Players, NEW to \in Zones, Transfer(p, to)
  PROVE  Honest
<1> DEFINE z == place[p]
           moved == Carried(p)
           things == Inside(zone[z], moved)
           zn == Emptier(zone[z], moved)
           tn == Fuller(zone[to], zone[z], moved)
<1>1. /\ to # z
      /\ corpse' = [cs \in DOMAIN corpse |->
                     IF cs \in things \cup DOMAIN worn[p] /\ corpse[cs].zone = z
                       THEN [corpse[cs] EXCEPT !.zone = to] ELSE corpse[cs]]
      /\ UNCHANGED <<gear, fresh, held, back>>
  BY Zenon DEF Transfer, Inside
<1>2. zone' = [zone EXCEPT ![z] = zn, ![to] = tn]
  BY Zenon DEF Transfer, Emptier, Fuller, Inside
<1>3. z \in Zones /\ ZoneOK(zone[z]) /\ ZoneOK(zone[to]) /\ moved \subseteq DOMAIN zone[z].boxes
  BY CarriedIsClosed DEF IInv, Folk, Stores, Records
<1>4. \A y \in Zones : zone'[y] = IF y = to THEN tn ELSE IF y = z THEN zn ELSE zone[y]
  <2> HIDE DEF zn, tn
  <2> QED BY <1>1, <1>2, <1>3 DEF IInv, Stores
<1>5. \A j, x : /\ Lies(zn, j, x) => Lies(zone[z], j, x)
                /\ Lies(tn, j, x) => Lies(zone[to], j, x) \/ Lies(zone[z], j, x)
  <2> HIDE DEF moved
  <2> QED BY <1>3, ContainersTake
<1> HIDE DEF zn, tn
<1>6. ASSUME NEW j \in Serials PROVE Lasts(j)
  <2> SUFFICES ASSUME NEW x, Has(j, x)' PROVE \E was : Has(j, was) /\ Less(x, was)
    BY DEF Lasts
  <2>1. Has(j, x)
    <3>1. CASE HasBody(j, x)'
      BY <1>1, <3>1, BodyHasStill DEF Has, gear
    <3>2. CASE HasZone(j, x)'
      <4>1. PICK y \in Zones : Lies(zone'[y], j, x)
        BY <3>2 DEF HasZone, Lies
      <4>2. \E v \in Zones : Lies(zone[v], j, x)
        BY <1>3, <1>4, <1>5, <4>1
      <4> QED BY <4>2 DEF Has, HasZone
    <3> QED BY <3>1, <3>2 DEF Has
  <2> QED BY <2>1, ItselfLess
<1>7. SameLayers
  <2> SUFFICES ASSUME NEW cs \in DOMAIN corpse'
               PROVE  cs \in DOMAIN corpse /\ corpse'[cs].layers = corpse[cs].layers
    BY DEF SameLayers
  <2> HIDE DEF things
  <2>1. cs \in DOMAIN corpse
    BY <1>1
  <2>2. corpse'[cs] = corpse[cs] \/ corpse'[cs] = [corpse[cs] EXCEPT !.zone = to]
    BY <1>1, <2>1
  <2>3. CASE corpse'[cs] = [corpse[cs] EXCEPT !.zone = to]
    <3>1. corpse'[cs].layers = corpse[cs].layers
      BY <2>3
    <3> QED BY <2>1, <3>1
  <2> QED BY <2>1, <2>2, <2>3
<1>8. fresh' \subseteq fresh
  BY <1>1
<1> QED BY <1>6, <1>7, <1>8, LastingIsHonest

-----------------------------------------------------------------------------
(* Death and resurrection *)

HasParts(zs) == DOMAIN zs = {"ground", "boxes", "index"}

\* Containers that are made, written or emptied hold what they are given, or what they held.
LEMMA InsertLies ==
  ASSUME NEW zs, HasParts(zs), NEW c, NEW items, NEW j, NEW x, Lies(Insert(zs, c, items), j, x)
  PROVE  Lies(zs, j, x) \/ (j \in DOMAIN items /\ x = items[j])
<1> DEFINE new == Insert(zs, c, items)
<1>1. new.ground = zs.ground /\ new.boxes = Put(zs.boxes, c, items) /\ Lies(new, j, x)
  BY DEF HasParts, Insert
<1> HIDE DEF new
<1>2. \A d \in DOMAIN new.boxes : new.boxes[d] = items \/ (d \in DOMAIN zs.boxes /\ new.boxes[d] = zs.boxes[d])
  BY <1>1 DEF Put
<1> QED BY <1>1, <1>2 DEF Lies

LEMMA RewriteLies ==
  ASSUME NEW zs, HasParts(zs), NEW c, NEW items
  PROVE  /\ HasParts(Rewrite(zs, c, items))
         /\ \A j, x : Lies(Rewrite(zs, c, items), j, x) => Lies(zs, j, x) \/ (j \in DOMAIN items /\ x = items[j])
<1> DEFINE new == Rewrite(zs, c, items)
<1>1. /\ new.ground = zs.ground /\ DOMAIN new = DOMAIN zs
      /\ new.boxes = IF c \in DOMAIN zs.boxes THEN Put(zs.boxes, c, items) ELSE zs.boxes
  BY DEF HasParts, Rewrite
<1> HIDE DEF new
<1>2. \A d \in DOMAIN new.boxes : new.boxes[d] = items \/ (d \in DOMAIN zs.boxes /\ new.boxes[d] = zs.boxes[d])
  BY <1>1 DEF Put
<1>3. \A j, x : Lies(new, j, x) => Lies(zs, j, x) \/ (j \in DOMAIN items /\ x = items[j])
  BY <1>1, <1>2 DEF Lies
<1> QED BY <1>1, <1>3 DEF new, HasParts

LEMMA RemoveEntryLies ==
  ASSUME NEW zs, HasParts(zs), NEW c
  PROVE  /\ HasParts(RemoveEntry(zs, c))
         /\ \A j, x : Lies(RemoveEntry(zs, c), j, x) => Lies(zs, j, x)
<1> DEFINE new == RemoveEntry(zs, c)
<1>1. new.ground = zs.ground /\ DOMAIN new = DOMAIN zs /\ new.boxes = Without(zs.boxes, {c})
  BY DEF HasParts, RemoveEntry
<1> HIDE DEF new
<1>2. \A d \in DOMAIN new.boxes : d \in DOMAIN zs.boxes /\ new.boxes[d] = zs.boxes[d]
  BY <1>1 DEF Without
<1>3. \A j, x : Lies(new, j, x) => Lies(zs, j, x)
  BY <1>1, <1>2 DEF Lies
<1> QED BY <1>1, <1>3 DEF new, HasParts

LEMMA ContentLies ==
  ASSUME NEW zs, NEW c, NEW j \in DOMAIN Content(zs, c)
  PROVE  Lies(zs, j, Content(zs, c)[j])
BY DEF Content, Empty, Lies

LEMMA UpsertAllLies ==
  ASSUME NEW zs, HasParts(zs), NEW c, NEW items, NEW j, NEW x, Lies(UpsertAll(zs, c, items), j, x)
  PROVE  Lies(zs, j, x) \/ (j \in DOMAIN items /\ x = items[j])
<1> DEFINE new == UpsertAll(zs, c, items)
           got == Over(items, Content(zs, c))
<1>1. new.ground = zs.ground /\ new.boxes = Put(zs.boxes, c, got) /\ Lies(new, j, x)
  BY DEF HasParts, UpsertAll
<1>2. j \in DOMAIN got /\ x = got[j] =>
        (j \in DOMAIN items /\ x = items[j]) \/ (j \in DOMAIN Content(zs, c) /\ x = Content(zs, c)[j])
  BY DEF Over
<1> HIDE DEF new, got
<1>3. \A d \in DOMAIN new.boxes : new.boxes[d] = got \/ (d \in DOMAIN zs.boxes /\ new.boxes[d] = zs.boxes[d])
  BY <1>1 DEF Put
<1>4. (j \in DOMAIN got /\ x = got[j]) \/ Lies(zs, j, x)
  BY <1>1, <1>3 DEF Lies
<1> QED BY <1>2, <1>4, ContentLies

LEMMA RegroundLies ==
  ASSUME NEW zs, HasParts(zs), NEW g, NEW j, NEW x, Lies([zs EXCEPT !.ground = g], j, x)
  PROVE  (j \in DOMAIN g /\ x = g[j]) \/ Lies(zs, j, x)
<1> DEFINE new == [zs EXCEPT !.ground = g]
<1>1. new.ground = g /\ new.boxes = zs.boxes /\ Lies(new, j, x)
  BY DEF HasParts
<1> HIDE DEF new
<1> QED BY <1>1 DEF Lies

\* What is new is a corpse and a shroud; the rest is as it was.
Anew(cs, shroud) ==
  \A j \in Serials : \A x : Has(j, x)' => Has(j, x) \/ (j \in {cs, shroud} /\ x.kind \notin Stackable)

\* What p wore and carried is in the corpse as it was.
LEMMA KillMakes ==
  ASSUME IInv, IInv', NEW p \in Players, Kill(p)
  PROVE  LET cs == Next1(fresh) IN Anew(cs, Next1(fresh \ {cs}))
<1> DEFINE z == place[p]
           zs == zone[z]
           cs == Next1(fresh)
           shroud == Next1(fresh \ {cs})
           looted == {i \in DOMAIN worn[p] : worn[p][i].layer # "backpack" /\ worn[p][i].kind \notin Newbie}
           b == CHOOSE k \in Pack(p) : TRUE
           packed == IF Pack(p) = {} THEN Empty ELSE Content(zs, b)
           kept == {i \in DOMAIN packed : packed[i].kind \in Newbie}
           take == [i \in looted |-> [kind |-> worn[p][i].kind, amount |-> 1]]
           stay == Without(packed, DOMAIN packed \ kept)
           loot == Over(take, Without(packed, kept))
           robbed == IF Pack(p) = {} THEN zs ELSE Rewrite(zs, b, stay)
           body1 == [kind |-> "corpse", amount |-> MaxAmount]
           robe == [layer |-> "robe", kind |-> "shroud"]
           filled == Insert(robbed, cs, loot)
           g == Put(filled.ground, cs, body1)
           after == [filled EXCEPT !.ground = g]
<1>1. zone' = [zone EXCEPT ![z] = after]
  BY Zenon DEF Kill
<1>2. /\ worn' = [worn EXCEPT ![p] = Put(Without(worn[p], looted), shroud, robe)]
      /\ UNCHANGED <<held, back>>
  BY Zenon DEF Kill
<1>3. z \in Zones /\ HasParts(zs) /\ Stores /\ DOMAIN worn = Players
  BY DEF IInv, Folk, Stores, ZoneOK, HasParts
<1>4. \A j \in DOMAIN packed : Lies(zs, j, packed[j])
  BY ContentLies DEF Empty
<1>5. /\ \A j \in DOMAIN stay : Lies(zs, j, stay[j])
      /\ \A j \in DOMAIN loot : (j \in looted /\ loot[j] = Dress(worn[p][j])) \/ Lies(zs, j, loot[j])
  <2>1. \A j \in looted : take[j] = Dress(worn[p][j])
    BY DEF Dress
  <2>2. DOMAIN take = looted
    OBVIOUS
  <2> HIDE DEF packed, kept, take, zs, looted
  <2> QED BY <1>4, <2>1, <2>2 DEF Without, Over
<1>6. HasParts(robbed) /\ \A j, x : Lies(robbed, j, x) => Lies(zs, j, x)
  <2>1. CASE Pack(p) = {}
    BY <1>3, <2>1
  <2>2. CASE Pack(p) # {}
    <3>1. robbed = Rewrite(zs, b, stay)
      BY <2>2
    <3> HIDE DEF robbed, zs, b, stay
    <3> QED BY <1>3, <1>5, <3>1, RewriteLies
  <2> QED BY <2>1, <2>2
<1>7. HasParts(filled) /\ filled.ground = robbed.ground
  <2> HIDE DEF robbed, loot, cs
  <2> QED BY <1>6 DEF Insert, HasParts
<1>8. ASSUME NEW j, NEW x, Lies(after, j, x)
      PROVE  \/ Lies(zs, j, x)
             \/ j = cs /\ x = body1
             \/ j \in looted /\ x = Dress(worn[p][j])
  <2> HIDE DEF robbed, loot, cs, zs, looted, body1
  <2>1. CASE j \in DOMAIN g /\ x = g[j]
    <3>1. (j = cs /\ x = body1) \/ (j \in DOMAIN robbed.ground /\ x = robbed.ground[j])
      BY <1>7, <2>1 DEF Put
    <3> QED BY <1>6, <3>1 DEF Lies
  <2>2. CASE Lies(filled, j, x)
    <3>1. Lies(robbed, j, x) \/ (j \in DOMAIN loot /\ x = loot[j])
      BY <1>6, <2>2, InsertLies
    <3> QED BY <1>5, <1>6, <3>1
  <2>3. (j \in DOMAIN g /\ x = g[j]) \/ Lies(filled, j, x)
    <3> HIDE DEF filled, g
    <3> QED BY <1>7, <1>8, RegroundLies
  <2> QED BY <2>1, <2>2, <2>3
<1>9. body1.kind \notin Stackable /\ Dress(robe).kind \notin Stackable
  BY ItemsAssumption DEF Dress
<1>10. looted \subseteq DOMAIN worn[p]
  OBVIOUS
<1> HIDE DEF after, looted, body1, robe, cs, shroud, zs
<1>11. /\ worn'[p] = Put(Without(worn[p], looted), shroud, robe) /\ held'[p] = held[p] /\ back'[p] = back[p]
       /\ \A q \in Players \ {p} : worn'[q] = worn[q] /\ held'[q] = held[q] /\ back'[q] = back[q]
  BY <1>2, <1>3
<1>12. ASSUME NEW j \in Serials, NEW x, Has(j, x)'
       PROVE  Has(j, x) \/ (j \in {cs, shroud} /\ x.kind \notin Stackable)
  <2>1. CASE HasZone(j, x)'
    <3>1. Lies(after, j, x) \/ HasZone(j, x)
      BY <1>1, <1>3, <2>1, ZoneHas
    <3>2. CASE Lies(after, j, x)
      <4>1. CASE Lies(zs, j, x)
        BY <1>3, <4>1 DEF zs, Has, HasZone
      <4>2. CASE j = cs /\ x = body1
        BY <1>9, <4>2
      <4>3. CASE j \in looted /\ x = Dress(worn[p][j])
        BY <1>10, <4>3 DEF Has, HasBody
      <4> QED BY <1>8, <3>2, <4>1, <4>2, <4>3
    <3> QED BY <3>1, <3>2 DEF Has
  <2>2. CASE HasBody(j, x)'
    <3>1. CASE Bears(worn'[p], held'[p], back'[p], j, x)
      <4>1. Bears(worn[p], held[p], back[p], j, x) \/ (j = shroud /\ x = Dress(robe))
        BY <1>11, <3>1 DEF Bears, Put, Without
      <4> HIDE DEF Bears
      <4> QED BY <1>9, <4>1, BodyIs DEF Has
    <3> HIDE DEF Bears
    <3> QED BY <1>11, <2>2, <3>1, BodyHas DEF Has
  <2> QED BY <1>12, <2>1, <2>2 DEF Has
<1> QED BY <1>12 DEF Anew, cs, shroud

LEMMA FreshHasNot ==
  ASSUME IInv, NEW i \in fresh, NEW x
  PROVE  ~ Has(i, x)
BY HasSite DEF IInv, Nowhere, Folk

LEMMA KillHonest ==
  ASSUME IInv, IInv', Known, NEW p \in Players, Kill(p)
  PROVE  Honest
<1> DEFINE cs == Next1(fresh)
           shroud == Next1(fresh \ {cs})
           looted == {i \in DOMAIN worn[p] : worn[p][i].layer # "backpack" /\ worn[p][i].kind \notin Newbie}
           props == [owner |-> p, zone |-> place[p], layers |-> [i \in looted |-> worn[p][i]]]
<1>1. cs \in fresh /\ shroud \in fresh
  BY TwoFresh DEF Kill
<1>2. corpse' = Put(corpse, cs, props) /\ fresh' = fresh \ {cs, shroud}
  BY Zenon DEF Kill
<1>3. Anew(cs, shroud)
  BY KillMakes
<1>4. DOMAIN props.layers = looted /\ \A i \in looted : props.layers[i] = worn[p][i]
  OBVIOUS
<1>5. looted \subseteq DOMAIN worn[p]
  OBVIOUS
<1> HIDE DEF cs, shroud, looted, props
<1>6. ASSUME NEW i \in Serials PROVE Lasts(i) \/ \A it : Has(i, it)' => it.kind \notin Stackable
  <2>1. CASE i \in {cs, shroud}
    BY <1>1, <1>3, <2>1, FreshHasNot DEF Anew
  <2>2. CASE i \notin {cs, shroud}
    <3>1. \A it : Has(i, it)' => Has(i, it)
      BY <1>3, <2>2 DEF Anew
    <3>2. Lasts(i)
      BY <3>1, ItselfLess DEF Lasts
    <3> QED BY <3>2
  <2> QED BY <2>1, <2>2
<1>7. Poorer
  BY <1>6, AllLast
<1>8. ASSUME NEW i \in Serials, i \notin fresh, NEW it, Has(i, it)' PROVE Has(i, it)
  BY <1>1, <1>3, <1>8 DEF Anew
<1>9. Known'
  <2> SUFFICES ASSUME NEW c \in DOMAIN corpse', NEW i \in DOMAIN corpse'[c].layers
               PROVE  /\ i \notin fresh'
                      /\ \A it : Has(i, it)' => it.kind = corpse'[c].layers[i].kind
    BY Zenon DEF Known
  <2>1. CASE c = cs
    <3>1. corpse'[c] = props
      BY <1>2, <2>1 DEF Put
    <3>2. i \in looted /\ corpse'[c].layers[i] = worn[p][i]
      BY <1>4, <3>1
    <3>3. i \in DOMAIN worn[p] /\ i \in Serials
      BY <1>5, <3>2 DEF IInv, Folk, PartOf
    <3>4. Has(i, Dress(worn[p][i]))
      BY <3>3 DEF Has, HasBody
    <3>5. i \notin fresh
      BY <3>4, FreshHasNot
    <3>6. ASSUME NEW it, Has(i, it)' PROVE it.kind = worn[p][i].kind
      <4>1. it = Dress(worn[p][i])
        BY <1>8, <3>3, <3>4, <3>5, <3>6, HasOne
      <4> QED BY <4>1 DEF Dress
    <3> QED BY <1>2, <3>2, <3>5, <3>6
  <2>2. CASE c # cs
    <3>1. c \in DOMAIN corpse /\ corpse'[c] = corpse[c]
      BY <1>2, <2>2 DEF Put
    <3>2. i \in Serials
      BY <3>1 DEF IInv, Corpses, PartOf
    <3>3. i \notin fresh /\ \A it : Has(i, it) => it.kind = corpse[c].layers[i].kind
      BY <3>1 DEF Known
    <3> QED BY <1>2, <1>8, <3>1, <3>2, <3>3
  <2> QED BY <2>1, <2>2
<1> QED BY <1>7, <1>9 DEF Honest

\* What the corpse gives back was in it, and is what the corpse remembers of it.
LEMMA ResurrectHonest ==
  ASSUME IInv, IInv', Known, NEW p \in Players, NEW cs, Resurrect(p, cs)
  PROVE  Honest
<1> DEFINE z == place[p]
           zs == zone[z]
           items == IF cs = None THEN Empty ELSE Content(zs, cs)
           again == IF cs = None THEN Empty
                    ELSE [i \in DOMAIN items \cap DOMAIN corpse[cs].layers |-> corpse[cs].layers[i]]
           loose == Without(items, DOMAIN again)
           shrouds == {i \in DOMAIN worn[p] : worn[p][i] = [layer |-> "robe", kind |-> "shroud"]}
           gone == RemoveEntry(zs, cs)
           g == Without(gone.ground, {cs})
           emptied == [gone EXCEPT !.ground = g]
           b == CHOOSE x \in Pack(p) : TRUE
           after == IF cs = None THEN zs ELSE IF Pack(p) = {} \/ loose = Empty THEN emptied
                    ELSE UpsertAll(emptied, b, loose)
<1>1. zone' = [zone EXCEPT ![z] = after]
  BY Zenon DEF Resurrect
<1>2. /\ worn' = [worn EXCEPT ![p] = Over(Without(worn[p], shrouds), again)]
      /\ corpse' = Without(corpse, {cs}) /\ UNCHANGED <<fresh, held, back>>
      /\ cs # None => cs \in DOMAIN corpse
  BY Zenon DEF Resurrect
<1>3. z \in Zones /\ HasParts(zs) /\ Stores /\ DOMAIN worn = Players
  BY DEF IInv, Folk, Stores, ZoneOK, HasParts
<1>4. \A j \in DOMAIN items : Lies(zs, j, items[j])
  BY ContentLies DEF Empty
<1>5. \A j \in DOMAIN loose : j \in DOMAIN items /\ loose[j] = items[j]
  <2> HIDE DEF items, again
  <2> QED BY DEF Without
<1>6. \A j \in DOMAIN again : /\ cs \in DOMAIN corpse /\ j \in DOMAIN items
                              /\ j \in DOMAIN corpse[cs].layers /\ again[j] = corpse[cs].layers[j]
  <2>1. CASE cs = None
    BY <2>1 DEF Empty
  <2>2. CASE cs # None
    <3> HIDE DEF items
    <3> QED BY <1>2, <2>2
  <2> QED BY <2>1, <2>2
<1>7. HasParts(gone) /\ \A j, x : Lies(gone, j, x) => Lies(zs, j, x)
  <2> HIDE DEF zs
  <2> QED BY <1>3, RemoveEntryLies
<1>8. HasParts(emptied) /\ \A j, x : Lies(emptied, j, x) => Lies(zs, j, x)
  <2>1. \A j, x : j \in DOMAIN g /\ x = g[j] => Lies(gone, j, x)
    <3> HIDE DEF gone
    <3> QED BY DEF Without, Lies
  <2> HIDE DEF gone, g, zs
  <2>2. HasParts(emptied)
    BY <1>7 DEF HasParts
  <2>3. ASSUME NEW j, NEW x, Lies(emptied, j, x) PROVE Lies(zs, j, x)
    BY <1>7, <2>1, <2>3, RegroundLies
  <2> QED BY <2>2, <2>3
<1> HIDE DEF zs, items, again, emptied, loose, b
<1>9. ASSUME NEW j, NEW x, Lies(after, j, x) PROVE Lies(zs, j, x)
  <2>1. CASE after = zs
    BY <1>9, <2>1
  <2>2. CASE after = emptied
    <3> HIDE DEF after
    <3> QED BY <1>8, <1>9, <2>2
  <2>3. CASE after = UpsertAll(emptied, b, loose)
    <3> HIDE DEF after
    <3>1. Lies(emptied, j, x) \/ (j \in DOMAIN loose /\ x = loose[j])
      BY <1>8, <1>9, <2>3, UpsertAllLies
    <3> QED BY <1>4, <1>5, <1>8, <3>1
  <2> QED BY <2>1, <2>2, <2>3
<1> HIDE DEF after, shrouds
<1>10. /\ worn'[p] = Over(Without(worn[p], shrouds), again) /\ held'[p] = held[p] /\ back'[p] = back[p]
       /\ \A q \in Players \ {p} : worn'[q] = worn[q] /\ held'[q] = held[q] /\ back'[q] = back[q]
  BY <1>2, <1>3
<1>11. ASSUME NEW j \in Serials, NEW x, j \in DOMAIN again, x = Dress(again[j])
       PROVE  \E was : Has(j, was) /\ Less(x, was)
  <2>1. Has(j, items[j])
    BY <1>3, <1>4, <1>6, <1>11 DEF Has, HasZone, zs
  <2>2. items[j].kind = corpse[cs].layers[j].kind
    BY <1>6, <1>11, <2>1 DEF Known
  <2>3. items[j] \in Item
    BY <2>1, HasSite
  <2>4. items[j].amount \in 1 .. MaxAmount
    BY <2>3, CountIs
  <2>5. x.kind = items[j].kind /\ x.amount = 1
    BY <1>6, <1>11, <2>2 DEF Dress
  <2>6. Less(x, items[j])
    BY <2>4, <2>5, ItemsAssumption DEF Less
  <2> QED BY <2>1, <2>6
<1>12. ASSUME NEW j \in Serials PROVE Lasts(j)
  <2> SUFFICES ASSUME NEW x, Has(j, x)' PROVE \E was : Has(j, was) /\ Less(x, was)
    BY DEF Lasts
  <2>1. Has(j, x) \/ (j \in DOMAIN again /\ x = Dress(again[j]))
    <3>1. CASE HasZone(j, x)'
      <4>1. Lies(after, j, x) \/ HasZone(j, x)
        BY <1>1, <1>3, <3>1, ZoneHas
      <4>2. Lies(after, j, x) => HasZone(j, x)
        BY <1>3, <1>9 DEF zs, HasZone
      <4> QED BY <4>1, <4>2 DEF Has
    <3>2. CASE HasBody(j, x)'
      <4>1. CASE Bears(worn'[p], held'[p], back'[p], j, x)
        <5>1. Bears(worn[p], held[p], back[p], j, x) \/ (j \in DOMAIN again /\ x = Dress(again[j]))
          BY <1>10, <4>1 DEF Bears, Over, Without
        <5> HIDE DEF Bears
        <5> QED BY <5>1, BodyIs DEF Has
      <4> HIDE DEF Bears
      <4> QED BY <1>10, <3>2, <4>1, BodyHas DEF Has
    <3> QED BY <3>1, <3>2 DEF Has
  <2> QED BY <1>11, <2>1, ItselfLess
<1>13. SameLayers /\ fresh' \subseteq fresh
  BY <1>2 DEF SameLayers, Without
<1> QED BY <1>12, <1>13, LastingIsHonest

-----------------------------------------------------------------------------
(* Nothing from nothing *)

LEMMA NextHonest ==
  ASSUME IInv, Gentle, Known, [Next]_vars
  PROVE  IInv' /\ Honest
<1>0. IInv'
  BY NextKeeps
<1>1. ASSUME NEW p \in Players, NEW i \in Serials, LiftWorn(p, i) PROVE Honest
  BY <1>0, <1>1, LiftWornHonest
<1>2. ASSUME NEW p \in Players, NEW i \in Serials, NEW n \in 1 .. MaxAmount,
             LiftFromGround(p, i, n) \/ LiftFromBox(p, i, n) PROVE Honest
  BY <1>0, <1>2, LiftFromGroundHonest, LiftFromBoxHonest
<1>3. ASSUME NEW p \in Players, DropOnGround(p) \/ DropRejected(p) PROVE Honest
  BY <1>0, <1>3, DropOnGroundHonest, DropRejectedHonest
<1>4. ASSUME NEW p \in Players, NEW t \in Serials, NEW auto \in BOOLEAN, DropOnEntity(p, t, auto) PROVE Honest
  BY <1>0, <1>4, DropOnEntityHonest
<1>5. ASSUME NEW p \in Players, LookForPack(p) \/ ReturnToPack(p) \/ ReturnToFeet(p) PROVE Honest
  BY <1>0, <1>5, LookForPackHonest, ReturnToPackHonest, ReturnToFeetHonest
<1>6. ASSUME NEW p \in Players, NEW layer \in Layers, Wear(p, layer) PROVE Honest
  BY <1>0, <1>6, WearHonest
<1>7. ASSUME NEW p \in Players, Kill(p) PROVE Honest
  BY <1>0, <1>7, KillHonest
<1>8. ASSUME NEW p \in Players, NEW cs \in DOMAIN corpse \cup {None}, Resurrect(p, cs) PROVE Honest
  BY <1>0, <1>8, ResurrectHonest
<1>9. ASSUME NEW p \in Players, NEW to \in Zones, Transfer(p, to) PROVE Honest
  BY <1>0, <1>9, TransferHonest
<1>10. ASSUME NEW p \in Players, Learn(p) \/ Login(p) PROVE Honest
  <2>1. UNCHANGED <<zone, worn, held, back, fresh, corpse>>
    BY <1>10 DEF Learn, Login, gear, body
  <2> QED BY <1>0, <2>1, StillIsHonest
<1>11. ASSUME NEW p \in Players, Disconnect(p) \/ HangUp(p) PROVE Honest
  BY <1>0, <1>11, DisconnectHonest, HangUpHonest
<1>12. ASSUME NEW z \in Zones, NEW i \in Serials, NEW n \in 1 .. MaxAmount, Consume(z, i, n) PROVE Honest
  BY <1>0, <1>12, ConsumeHonest
<1>13. CASE UNCHANGED vars
  <2>1. UNCHANGED <<zone, worn, held, back, fresh, corpse>>
    BY <1>13 DEF vars
  <2> QED BY <1>0, <2>1, StillIsHonest
<1>14. Honest
  BY <1>1, <1>2, <1>3, <1>4, <1>5, <1>6, <1>7, <1>8, <1>9, <1>10, <1>11, <1>12, <1>13, Zenon DEF Next
<1> QED BY <1>0, <1>14

\* No command makes more of what stacks (gold, say): a split keeps the sum, a merge loses what exceeds
\* MaxAmount, and the corpse gives back no more than went into it.
THEOREM NothingGained ==
  ASSUME Gentle
  PROVE  Spec => NothingFromNothing
<1>1. Init => IInv /\ Known
  <2>1. Init => Known
    BY DEF Init, Known, Empty
  <2> QED BY <2>1, InitIInv
<1>2. IInv /\ Known /\ [Next]_vars => IInv' /\ Known'
  BY NextHonest DEF Honest
<1>3. IInv /\ Known /\ [Next]_vars => [Wealth' <= Wealth]_vars
  BY NextHonest DEF Honest, Poorer
<1> QED BY <1>1, <1>2, <1>3, PTL DEF Spec, NothingFromNothing
=============================================================================
