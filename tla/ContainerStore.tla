--------------------------- MODULE ContainerStore ---------------------------
(***************************************************************************)
(* HashContainerStore (framework/src/continuum/container.rs): the          *)
(* containers of a zone, each with the items in it, and item_index, which  *)
(* finds the container of an item without a search.  A store is a record   *)
(* with (at least) the fields boxes and index.                             *)
(***************************************************************************)

Put(f, x, y)  == [k \in DOMAIN f \cup {x} |-> IF k = x THEN y ELSE f[k]]
Without(f, S) == [k \in DOMAIN f \ S |-> f[k]]
Over(f, g)    == [k \in DOMAIN f \cup DOMAIN g |-> IF k \in DOMAIN f THEN f[k] ELSE g[k]]
Empty         == [k \in {} |-> k]

Content(st, c) == IF c \in DOMAIN st.boxes THEN st.boxes[c] ELSE Empty
In(st, c, i)   == c \in DOMAIN st.boxes /\ i \in DOMAIN st.boxes[c]

\* The index says of each item where it is, and of nothing else.
Exact(st) ==
  /\ \A i \in DOMAIN st.index : In(st, st.index[i], i)
  /\ \A c \in DOMAIN st.boxes : \A i \in DOMAIN st.boxes[c] : i \in DOMAIN st.index /\ st.index[i] = c

\* remove_item_from.
RemoveFrom(st, c, i) ==
  [st EXCEPT !.boxes = [d \in DOMAIN @ |-> IF d = c THEN Without(@[d], {i}) ELSE @[d]],
             !.index = Without(@, {i})]

\* ingest_item_upsert, which takes the item out of another container.
Upsert(st, c, i, it) ==
  LET elsewhere == [d \in DOMAIN st.boxes |->
                      IF i \in DOMAIN st.index /\ st.index[i] = d /\ d # c
                        THEN Without(st.boxes[d], {i}) ELSE st.boxes[d]]
  IN  [st EXCEPT !.boxes = Put(elsewhere, c, Put(Content(st, c), i, it)),
                 !.index = Put(@, i, c)]

\* The same for several items that are in no other container, one after the other.
UpsertAll(st, c, items) ==
  [st EXCEPT !.boxes = Put(@, c, Over(items, Content(st, c))),
             !.index = Over([i \in DOMAIN items |-> c], @)]

\* (InsertPlain is a mutant: a HashMap::insert beside the index.)
InsertPlain(st, c, items) == [st EXCEPT !.boxes = Put(@, c, items)]
\* insert.
Insert(st, c, items) ==
  [st EXCEPT !.boxes = Put(@, c, items),
             !.index = Over([i \in DOMAIN items |-> c], @)]

\* (RemoveEntryOnly is a mutant: the index keeps the items.)
RemoveEntryOnly(st, c) == [st EXCEPT !.boxes = Without(@, {c})]
\* remove and remove_entry.
RemoveEntry(st, c) ==
  [st EXCEPT !.boxes = Without(@, {c}), !.index = Without(@, DOMAIN Content(st, c))]

\* What find_item_mut and get_mut are used for: the index stays as it is.
\* (RewriteNot is a mutant: what was taken out stays.)
RewriteNot(st, c, items) == st
SetItem(st, c, i, it)    == [st EXCEPT !.boxes[c][i] = it]
Rewrite(st, c, items)    == [st EXCEPT !.boxes = IF c \in DOMAIN @ THEN Put(@, c, items) ELSE @]
=============================================================================
