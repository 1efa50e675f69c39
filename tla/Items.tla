-------------------------------- MODULE Items --------------------------------
(***************************************************************************)
(* Items that players carry about: on the ground of a zone, in a           *)
(* container, worn, or on the cursor of a session.  The commands of the    *)
(* engine (common/uo_engine/handler/item_ops.rs, kill_ops.rs) are atomic;  *)
(* the session (demo-server/game_session/items.rs) sends one after the     *)
(* other and keeps what is on the cursor to itself.  Range, line of sight  *)
(* and access to a container are a choice: any command may be refused.     *)
(***************************************************************************)
EXTENDS ContainerStore, Integers, FiniteSets

CONSTANTS
  Players, Zones,
  Serials,              \* of items, a set of numbers
  Kinds, Stackable, Newbie, \* graphics; those that stack; those that death leaves alone
  Layers,
  MaxAmount,            \* 65535
  Scenarios,            \* what is where at the start, and what happens
  None

\* The mortals of a scenario die.  "travel": players change zones; "consume": scripts use
\* items up; "leave": clients disconnect.  What the code gives no protection from:
\* "hangup": a send to a client fails; "carry": a player changes zones with
\* a container outside the backpack; "barepack": a player without a backpack is resurrected.
Acts == {"travel", "consume", "leave", "hangup", "carry", "barepack"}

Item  == [kind : Kinds, amount : 1 .. MaxAmount]
Held  == [serial : Serials, kind : Kinds, amount : 1 .. MaxAmount, from : {"ground", "box", "worn"}]
Worn  == [layer : Layers, kind : Kinds]
Back  == [item : Held, pack : Serials \cup {None}, stage : {"look", "pack", "feet"}]

PartOf(f, D, R) == DOMAIN f \subseteq D /\ \A x \in DOMAIN f : f[x] \in R

\* Where an item lies or is worn.
Rests(ground, boxes, wears, i) ==
  {<<"ground", z>> : z \in {y \in Zones : i \in DOMAIN ground[y]}}
  \cup (UNION {{<<"box", z, c>> : c \in {d \in DOMAIN boxes[z] : i \in DOMAIN boxes[z][d]}} : z \in Zones})
  \cup {<<"worn", p>> : p \in {q \in Players : i \in DOMAIN wears[q]}}

\* A scenario starts with every item in one place, and every container in the zone of what is in it.
Orderly(s) ==
  /\ s.acts \subseteq Acts /\ s.mortals \subseteq Players /\ s.lifts \in Nat
  /\ s.fresh \subseteq Serials /\ s.spent \subseteq Serials \ s.fresh /\ s.place \in [Players -> Zones]
  /\ DOMAIN s.ground = Zones /\ DOMAIN s.boxes = Zones /\ DOMAIN s.worn = Players
  /\ \A z \in Zones : /\ PartOf(s.ground[z], Serials, Item) /\ DOMAIN s.boxes[z] \subseteq Serials
                     /\ \A c \in DOMAIN s.boxes[z] : PartOf(s.boxes[z][c], Serials, Item)
  /\ \A p \in Players : PartOf(s.worn[p], Serials, Worn)
  /\ \A i \in Serials : LET at == Rests(s.ground, s.boxes, s.worn, i) IN
       /\ at = {} <=> i \in s.fresh \cup s.spent
       /\ \A x, y \in at : x = y
  /\ \A z \in Zones : \A c \in DOMAIN s.boxes[z] :
       /\ c \notin s.fresh
       /\ \A y \in Zones \ {z} : /\ c \notin DOMAIN s.boxes[y] \cup DOMAIN s.ground[y]
                                 /\ \A d \in DOMAIN s.boxes[y] : c \notin DOMAIN s.boxes[y][d]
       /\ \A p \in Players : c \in DOMAIN s.worn[p] => s.place[p] = z

ASSUME ItemsAssumption ==
  /\ Serials \subseteq Nat /\ IsFiniteSet(Serials)
  /\ {"corpse", "shroud"} \subseteq Kinds
  /\ Stackable \subseteq Kinds \ {"corpse", "shroud"} /\ Newbie \subseteq Kinds
  /\ {"backpack", "robe"} \subseteq Layers
  /\ MaxAmount \in Nat \ {0}
  /\ \A s \in Scenarios : Orderly(s)
  /\ None \notin Serials \cup Held \cup Back \cup BOOLEAN

VARIABLES
  scene,
  lifts,
  zone,       \* per zone: the items on the ground, and the ContainerStore
  worn,       \* MobileData.items
  wearer,     \* equipment_index, one for all zones
  place, dead,   \* of each player's mobile
  corpse,     \* the props of a corpse: owner, zone and saved layers
  fresh,      \* serials alloc_item has still to give
  spent,      \* serials of items that are no more
  online,     \* is there a session
  news, told, \* PlayerDied or PlayerResurrected under way to it; infra.dead
  held,       \* held_item
  back        \* an item whose drop was rejected, on its way back
vars == <<scene, lifts, zone, worn, wearer, place, dead, corpse, fresh, spent, online, news, told, held, back>>
session == <<online, news, told>>
body    == <<place, dead, corpse>>
gear    == <<worn, wearer>>

Least(a, b) == IF a <= b THEN a ELSE b
Bare(h)     == [kind |-> h.kind, amount |-> h.amount]
Next1(S)    == CHOOSE n \in S : \A m \in S : n <= m
Ground(z)   == DOMAIN zone[z].ground
Records(z)  == DOMAIN zone[z].boxes
Pack(p)     == {i \in DOMAIN worn[p] : worn[p][i].layer = "backpack"}
Busy(p)     == back[p] # None
\* Packets of a session that does not know its player to be a ghost.
Handles(p)  == online[p] /\ ~ told[p] /\ ~ Busy(p)
\* rebuild_index.
Indexed(boxes) == [i \in UNION {DOMAIN boxes[c] : c \in DOMAIN boxes} |->
                     CHOOSE c \in DOMAIN boxes : i \in DOMAIN boxes[c]]

Init ==
  /\ scene \in Scenarios /\ lifts = 0
  /\ zone = [z \in Zones |-> [ground |-> scene.ground[z], boxes |-> scene.boxes[z],
                              index |-> Indexed(scene.boxes[z])]]
  /\ worn = scene.worn
  /\ wearer = [i \in UNION {DOMAIN worn[p] : p \in Players} |-> CHOOSE p \in Players : i \in DOMAIN worn[p]]
  /\ place = scene.place /\ dead = [p \in Players |-> FALSE]
  /\ corpse = Empty
  /\ fresh = scene.fresh /\ spent = scene.spent
  /\ online = [p \in Players |-> TRUE]
  /\ news = [p \in Players |-> None] /\ told = [p \in Players |-> FALSE]
  /\ held = [p \in Players |-> None] /\ back = [p \in Players |-> None]

-----------------------------------------------------------------------------
(* handle_pick_up and handle_pick_up_item *)

MayLift(p) == /\ Handles(p) /\ held[p] = None
              /\ lifts < scene.lifts /\ lifts' = lifts + 1

\* (OnCursorAsked is a mutant: the amount the client asked for is believed.)
OnCursorAsked(i, it, n, from) == [serial |-> i, kind |-> it.kind, amount |-> n, from |-> from]
OnCursor(i, it, n, from) == [serial |-> i, kind |-> it.kind, amount |-> Least(n, it.amount), from |-> from]
Rest(it, n) == [it EXCEPT !.amount = @ - n]

\* What is lifted keeps its serial; what stays of a stack gets a new one.
LiftFromGround(p, i, n) ==
  LET z == place[p]  it == zone[z].ground[i]  g == Without(zone[z].ground, {i}) IN
  /\ MayLift(p) /\ i \in Ground(z)
  /\ IF n >= it.amount
       THEN zone' = [zone EXCEPT ![z].ground = g] /\ UNCHANGED fresh
       ELSE /\ fresh # {} /\ fresh' = fresh \ {Next1(fresh)}
            /\ zone' = [zone EXCEPT ![z].ground = Put(g, Next1(fresh), Rest(it, n))]
  /\ held' = [held EXCEPT ![p] = OnCursor(i, it, n, "ground")]
  /\ UNCHANGED <<scene, gear, body, spent, session, back>>

LiftWorn(p, i) ==
  /\ MayLift(p) /\ i \notin Ground(place[p]) /\ i \in DOMAIN worn[p]
  /\ worn' = [worn EXCEPT ![p] = Without(@, {i})]
  /\ wearer' = Without(wearer, {i})
  /\ held' = [held EXCEPT ![p] = [serial |-> i, kind |-> worn[p][i].kind, amount |-> 1, from |-> "worn"]]
  /\ UNCHANGED <<scene, zone, body, fresh, spent, session, back>>

LiftFromBox(p, i, n) ==
  LET z == place[p]  c == zone[z].index[i]  it == zone[z].boxes[c][i]  left == RemoveFrom(zone[z], c, i) IN
  /\ MayLift(p) /\ i \notin Ground(z) \cup DOMAIN worn[p] /\ i \in DOMAIN zone[z].index
  /\ IF n >= it.amount
       THEN zone' = [zone EXCEPT ![z] = left] /\ UNCHANGED fresh
       ELSE /\ fresh # {} /\ fresh' = fresh \ {Next1(fresh)}
            /\ zone' = [zone EXCEPT ![z] = Upsert(left, c, Next1(fresh), Rest(it, n))]
  /\ held' = [held EXCEPT ![p] = OnCursor(i, it, n, "box")]
  /\ UNCHANGED <<scene, gear, body, spent, session, back>>

-----------------------------------------------------------------------------
(* handle_drop_item: the zones a drop can lead to, none if it is rejected *)

Laid(zs, h) == [zs EXCEPT !.ground = Put(@, h.serial, Bare(h))]

Alike(it, h)  == h.kind \in Stackable /\ it.kind = h.kind
More(it, h)   == [it EXCEPT !.amount = Least(@ + h.amount, MaxAmount)]

\* drop_into_container; auto: the coordinates are 0xFFFF.
Into(zs, h, c, auto) ==
  LET stacks == {j \in DOMAIN Content(zs, c) : auto /\ Alike(zs.boxes[c][j], h)} IN
  IF stacks = {} THEN {Upsert(zs, c, h.serial, Bare(h))}
  ELSE {SetItem(zs, c, j, More(zs.boxes[c][j], h)) : j \in stacks}

\* drop_on_entity.  An entity on the ground is a container when it has a record.
Onto(zs, h, t, auto) ==
  IF t \in DOMAIN zs.boxes THEN Into(zs, h, t, auto)
  ELSE IF t \in DOMAIN zs.ground
    THEN {[zs EXCEPT !.ground[t] = More(@, h)] : x \in {y \in {1} : Alike(zs.ground[t], h)}}
  ELSE IF t \in DOMAIN zs.index
    THEN LET c == zs.index[t] IN
         IF Alike(zs.boxes[c][t], h) THEN {SetItem(zs, c, t, More(zs.boxes[c][t], h))}
         ELSE Into(zs, h, c, auto)
  ELSE {}

\* The item is at rest in the zone z, or has become part of a stack there.
Settles(h, z, after) ==
  /\ zone' = [zone EXCEPT ![z] = after]
  /\ spent' = IF h.serial \in DOMAIN after.ground \cup DOMAIN after.index THEN spent
              ELSE spent \cup {h.serial}

-----------------------------------------------------------------------------
(* handle_drop *)

DropOnGround(p) ==
  /\ Handles(p) /\ held[p] # None
  /\ Settles(held[p], place[p], Laid(zone[place[p]], held[p]))
  /\ held' = [held EXCEPT ![p] = None]
  /\ UNCHANGED <<scene, lifts, gear, body, fresh, session, back>>

DropOnEntity(p, t, auto) ==
  /\ Handles(p) /\ held[p] # None
  /\ \E after \in Onto(zone[place[p]], held[p], t, auto) : Settles(held[p], place[p], after)
  /\ held' = [held EXCEPT ![p] = None]
  /\ UNCHANGED <<scene, lifts, gear, body, fresh, session, back>>

\* Rejected or RejectedNoLos: the item goes back, by further commands.
DropRejected(p) ==
  /\ Handles(p) /\ held[p] # None
  /\ held' = [held EXCEPT ![p] = None]
  /\ back' = [back EXCEPT ![p] = [item |-> held[p], pack |-> None,
                                  stage |-> IF held[p].from = "ground" THEN "feet" ELSE "look"]]
  /\ UNCHANGED <<scene, lifts, zone, gear, body, fresh, spent, session>>

\* bounce_item_to_backpack reads the player's entity, then drops into its backpack.
LookForPack(p) ==
  /\ Busy(p) /\ back[p].stage = "look"
  /\ IF Pack(p) = {} THEN back' = [back EXCEPT ![p].stage = "feet"]
     ELSE \E b \in Pack(p) : back' = [back EXCEPT ![p].stage = "pack", ![p].pack = b]
  /\ UNCHANGED <<scene, lifts, zone, gear, body, fresh, spent, session, held>>

ReturnToPack(p) ==
  LET afters == Onto(zone[place[p]], back[p].item, back[p].pack, TRUE) IN
  /\ Busy(p) /\ back[p].stage = "pack"
  /\ \/ /\ \E after \in afters : Settles(back[p].item, place[p], after)
        /\ back' = [back EXCEPT ![p] = None]
     \/ /\ afters = {}
        /\ back' = [back EXCEPT ![p].stage = "feet"]
        /\ UNCHANGED <<zone, spent>>
  /\ UNCHANGED <<scene, lifts, gear, body, fresh, session, held>>

ReturnToFeet(p) ==
  /\ Busy(p) /\ back[p].stage = "feet"
  /\ Settles(back[p].item, place[p], Laid(zone[place[p]], back[p].item))
  /\ back' = [back EXCEPT ![p] = None]
  /\ UNCHANGED <<scene, lifts, gear, body, fresh, session, held>>

-----------------------------------------------------------------------------
(* handle_wear: the first item on the layer comes off, onto the cursor *)

Wear(p, layer) ==
  LET h == held[p]  under == {j \in DOMAIN worn[p] : worn[p][j].layer = layer} IN
  /\ Handles(p) /\ h # None
  /\ \/ /\ under = {} /\ held' = [held EXCEPT ![p] = None]
        /\ worn' = [worn EXCEPT ![p] = Put(@, h.serial, [layer |-> layer, kind |-> h.kind])]
        /\ wearer' = Put(wearer, h.serial, p)
     \/ \E j \in under :
          /\ held' = [held EXCEPT ![p] = [serial |-> j, kind |-> worn[p][j].kind, amount |-> 1, from |-> "worn"]]
          /\ worn' = [worn EXCEPT ![p] = Put(Without(@, {j}), h.serial, [layer |-> layer, kind |-> h.kind])]
          /\ wearer' = Put(Without(wearer, {j}), h.serial, p)
  /\ UNCHANGED <<scene, lifts, zone, body, fresh, spent, session, back>>

-----------------------------------------------------------------------------
(* The engine's own commands *)

\* handle_consume_item: a container is looked at first.
Consume(z, i, n) ==
  /\ "consume" \in scene.acts /\ i \in DOMAIN zone[z].index \cup Ground(z)
  /\ LET boxed == i \in DOMAIN zone[z].index
         c  == zone[z].index[i]
         it == IF boxed THEN zone[z].boxes[c][i] ELSE zone[z].ground[i]
         after == IF n >= it.amount
                    THEN IF boxed THEN RemoveFrom(zone[z], c, i)
                                  ELSE [zone[z] EXCEPT !.ground = Without(@, {i})]
                    ELSE IF boxed THEN SetItem(zone[z], c, i, Rest(it, n))
                                  ELSE [zone[z] EXCEPT !.ground[i] = Rest(it, n)]
     IN  zone' = [zone EXCEPT ![z] = after] /\ spent' = IF n >= it.amount THEN spent \cup {i} ELSE spent
  /\ UNCHANGED <<scene, lifts, gear, body, fresh, session, held, back>>

\* handle_kill_player: what the player wears and carries goes to a corpse, but
\* for the backpack and newbie items; a shroud is put on the ghost.
Kill(p) ==
  LET z      == place[p]
      cs     == Next1(fresh)
      shroud == Next1(fresh \ {cs})
      looted == {i \in DOMAIN worn[p] : worn[p][i].layer # "backpack" /\ worn[p][i].kind \notin Newbie}
      packed == IF Pack(p) = {} THEN Empty ELSE Content(zone[z], CHOOSE b \in Pack(p) : TRUE)
      kept   == {i \in DOMAIN packed : packed[i].kind \in Newbie}
      loot   == Over([i \in looted |-> [kind |-> worn[p][i].kind, amount |-> 1]], Without(packed, kept))
      robbed == IF Pack(p) = {} THEN zone[z]
                ELSE Rewrite(zone[z], CHOOSE b \in Pack(p) : TRUE, Without(packed, DOMAIN packed \ kept))
  IN
  /\ p \in scene.mortals /\ ~ dead[p] /\ Cardinality(fresh) >= 2
  /\ fresh' = fresh \ {cs, shroud}
  /\ zone' = [zone EXCEPT ![z] = [Insert(robbed, cs, loot) EXCEPT
                                    !.ground = Put(@, cs, [kind |-> "corpse", amount |-> MaxAmount])]]
  /\ worn' = [worn EXCEPT ![p] = Put(Without(@, looted), shroud, [layer |-> "robe", kind |-> "shroud"])]
  /\ wearer' = Put(Without(wearer, looted), shroud, p)
  /\ corpse' = Put(corpse, cs, [owner |-> p, zone |-> z, layers |-> [i \in looted |-> worn[p][i]]])
  /\ dead' = [dead EXCEPT ![p] = TRUE]
  /\ news' = [news EXCEPT ![p] = IF online[p] THEN TRUE ELSE @]
  /\ UNCHANGED <<scene, lifts, place, spent, online, told, held, back>>

\* handle_resurrect: a corpse of the player nearby gives back what is in it.
Resurrect(p, cs) ==
  LET z     == place[p]
      items == IF cs = None THEN Empty ELSE Content(zone[z], cs)
      again == IF cs = None THEN Empty
               ELSE [i \in DOMAIN items \cap DOMAIN corpse[cs].layers |-> corpse[cs].layers[i]]
      loose == Without(items, DOMAIN again)
      shrouds == {i \in DOMAIN worn[p] : worn[p][i] = [layer |-> "robe", kind |-> "shroud"]}
      emptied == [RemoveEntry(zone[z], cs) EXCEPT !.ground = Without(@, {cs})]
  IN
  /\ dead[p]
  /\ "barepack" \in scene.acts \/ Pack(p) # {} \/ loose = Empty
  /\ cs # None => /\ cs \in DOMAIN corpse /\ corpse[cs].owner = p /\ corpse[cs].zone = z
                  /\ cs \in Records(z) \cap Ground(z)
  /\ zone' = [zone EXCEPT ![z] =
                IF cs = None THEN @
                ELSE IF Pack(p) = {} \/ loose = Empty THEN emptied
                ELSE UpsertAll(emptied, CHOOSE b \in Pack(p) : TRUE, loose)]
  /\ worn' = [worn EXCEPT ![p] = Over(Without(@, shrouds), again)]
  /\ wearer' = Over([i \in DOMAIN again |-> p], Without(wearer, shrouds))
  /\ corpse' = Without(corpse, {cs})
  /\ spent' = spent \cup shrouds \cup ({cs} \ {None})
  /\ dead' = [dead EXCEPT ![p] = FALSE]
  /\ news' = [news EXCEPT ![p] = IF online[p] THEN FALSE ELSE @]
  /\ UNCHANGED <<scene, lifts, place, fresh, online, told, held, back>>

-----------------------------------------------------------------------------
(* transfer_entity with collect_and_remove_containers *)

\* (CarriedFlat is a mutant: containers inside the backpack are forgotten.)
CarriedFlat(p) == Pack(p) \cap Records(place[p])
\* The containers of the backpack, and those inside them.
Carried(p) ==
  LET z == place[p]
      Within(S) == \A c \in S \cap Records(z) : DOMAIN zone[z].boxes[c] \cap Records(z) \subseteq S
      start == IF Pack(p) = {} THEN {} ELSE {CHOOSE b \in Pack(p) : TRUE}
  IN  {c \in Records(z) : \A S \in SUBSET Records(z) : start \cap Records(z) \subseteq S /\ Within(S) => c \in S}

\* Containers that go with the player and not with the transfer.
LeftBehind(p) == (DOMAIN worn[p] \cup (IF held[p] = None THEN {} ELSE {held[p].serial}))
                   \cap (Records(place[p]) \ Carried(p))

Transfer(p, to) ==
  LET z == place[p]  moved == Carried(p)
      things == UNION {DOMAIN zone[z].boxes[c] : c \in moved}
      boxes == [c \in moved |-> zone[z].boxes[c]] IN
  /\ "travel" \in scene.acts /\ online[p] /\ ~ Busy(p) /\ to # z
  /\ "carry" \in scene.acts \/ LeftBehind(p) = {}
  /\ zone' = [zone EXCEPT
       ![z]  = [zone[z] EXCEPT !.boxes = Without(@, moved), !.index = Without(@, things)],
       ![to] = [zone[to] EXCEPT !.boxes = Over(boxes, @), !.index = Over([i \in things |-> zone[z].index[i]], @)]]
  /\ place' = [place EXCEPT ![p] = to]
  /\ corpse' = [cs \in DOMAIN corpse |->
                  IF cs \in things \cup DOMAIN worn[p] /\ corpse[cs].zone = z
                    THEN [corpse[cs] EXCEPT !.zone = to] ELSE corpse[cs]]
  /\ UNCHANGED <<scene, lifts, gear, dead, fresh, spent, session, held, back>>

-----------------------------------------------------------------------------
(* The session *)

\* PlayerDied, PlayerResurrected.
Learn(p) ==
  /\ online[p] /\ ~ Busy(p) /\ news[p] # None
  /\ told' = [told EXCEPT ![p] = news[p]] /\ news' = [news EXCEPT ![p] = None]
  /\ UNCHANGED <<scene, lifts, zone, gear, body, fresh, spent, online, held, back>>

SessionEnds(p) ==
  /\ online' = [online EXCEPT ![p] = FALSE]
  /\ news' = [news EXCEPT ![p] = None] /\ told' = [told EXCEPT ![p] = FALSE]
  /\ held' = [held EXCEPT ![p] = None]
  /\ UNCHANGED <<scene, lifts, gear, body, fresh, back>>

\* drop_held_item_on_disconnect.
Disconnect(p) ==
  /\ "leave" \in scene.acts /\ online[p] /\ ~ Busy(p)
  /\ IF held[p] = None THEN UNCHANGED <<zone, spent>>
     ELSE Settles(held[p], place[p], Laid(zone[place[p]], held[p]))
  /\ SessionEnds(p)

\* A failed send leaves run_game_session by `?`.
HangUp(p) ==
  /\ "hangup" \in scene.acts /\ online[p] /\ ~ Busy(p)
  /\ SessionEnds(p) /\ UNCHANGED <<zone, spent>>

Login(p) ==
  /\ ~ online[p] /\ online' = [online EXCEPT ![p] = TRUE]
  /\ UNCHANGED <<scene, lifts, zone, gear, body, fresh, spent, news, told, held, back>>

Next ==
  \/ \E p \in Players :
       \/ \E i \in Serials : LiftWorn(p, i) \/ \E n \in 1 .. MaxAmount : LiftFromGround(p, i, n) \/ LiftFromBox(p, i, n)
       \/ DropOnGround(p) \/ DropRejected(p) \/ \E t \in Serials, auto \in BOOLEAN : DropOnEntity(p, t, auto)
       \/ LookForPack(p) \/ ReturnToPack(p) \/ ReturnToFeet(p)
       \/ \E layer \in Layers : Wear(p, layer)
       \/ Kill(p) \/ \E cs \in DOMAIN corpse \cup {None} : Resurrect(p, cs)
       \/ \E to \in Zones : Transfer(p, to)
       \/ Learn(p) \/ Disconnect(p) \/ HangUp(p) \/ Login(p)
  \/ \E z \in Zones, i \in Serials, n \in 1 .. MaxAmount : Consume(z, i, n)

Spec == Init /\ [][Next]_vars

-----------------------------------------------------------------------------
(* Properties *)

TypeOK ==
  /\ scene \in Scenarios /\ lifts \in 0 .. scene.lifts
  /\ DOMAIN zone = Zones /\ DOMAIN worn = Players
  /\ \A z \in Zones : /\ DOMAIN zone[z] = {"ground", "boxes", "index"} /\ PartOf(zone[z].ground, Serials, Item)
                     /\ Records(z) \subseteq Serials /\ PartOf(zone[z].index, Serials, Records(z))
                     /\ \A c \in Records(z) : PartOf(zone[z].boxes[c], Serials, Item)
  /\ \A p \in Players : PartOf(worn[p], Serials, Worn)
  /\ PartOf(wearer, Serials, Players)
  /\ place \in [Players -> Zones] /\ dead \in [Players -> BOOLEAN]
  /\ DOMAIN corpse \subseteq Serials
  /\ \A cs \in DOMAIN corpse : /\ corpse[cs].owner \in Players /\ corpse[cs].zone \in Zones
                              /\ PartOf(corpse[cs].layers, Serials, Worn)
  /\ fresh \subseteq Serials /\ spent \subseteq Serials
  /\ online \in [Players -> BOOLEAN] /\ told \in [Players -> BOOLEAN]
  /\ news \in [Players -> BOOLEAN \cup {None}]
  /\ held \in [Players -> Held \cup {None}]
  /\ back \in [Players -> Back \cup {None}]

Holds(p, i)   == held[p] # None /\ held[p].serial = i
Returns(p, i) == Busy(p) /\ back[p].item.serial = i

\* Everywhere an item is.
Whereabouts(i) ==
  Rests([z \in Zones |-> zone[z].ground], [z \in Zones |-> zone[z].boxes], worn, i)
  \cup {<<"cursor", p>> : p \in {q \in Players : Holds(q, i)}}
  \cup {<<"back", p>> : p \in {q \in Players : Returns(q, i)}}

\* Whatever the players do, an item that was made and not used up is in one place (a container counts as a
\* place wherever it is itself, even nowhere), never doubled, and lost
\* only with a session that ends by a failed send (the `?` of session_loop.rs:104).
ExactlyOnePlace ==
  \A i \in Serials : LET n == Cardinality(Whereabouts(i)) IN
    IF i \in fresh \cup spent THEN n = 0 ELSE n = 1 \/ (n = 0 /\ "hangup" \in scene.acts)

\* item_index and equipment_index find each item where it is, and nothing else, after every command, those
\* that write the items of a container past the index (kill_ops.rs:385) included.
IndexesExact ==
  /\ \A z \in Zones : Exact(zone[z])
  /\ \A i \in DOMAIN wearer : i \in DOMAIN worn[wearer[i]]
  /\ \A p \in Players : \A i \in DOMAIN worn[p] : i \in DOMAIN wearer /\ wearer[i] = p

ZonesOf(i) == {z \in Zones : i \in Ground(z) \/ \E c \in Records(z) : In(zone[z], c, i)}
              \cup {place[p] : p \in {q \in Players : i \in DOMAIN worn[q] \/ Holds(q, i) \/ Returns(q, i)}}

\* What is in a container is in the zone where the container is: transfer_entity moves entity, containers and
\* props "(no data loss, no race conditions)" (transfer.rs:37).
ContentsFollow == \A z \in Zones : \A c \in Records(z) : Content(zone[z], c) # Empty => ZonesOf(c) \subseteq {z}

\* Resurrection with the corpse in range "returns all corpse items (re-equipping using the saved layer map)
\* - and removes the corpse" (kill_ops.rs:561): what was in it is worn, or in a container of the zone.
CorpseReturns ==
  [][\A cs \in DOMAIN corpse \ DOMAIN corpse' :
       LET z == corpse[cs].zone IN
       \A i \in DOMAIN Content(zone[z], cs) :
         i \in DOMAIN worn'[corpse[cs].owner] \/ \E c \in DOMAIN zone'[z].boxes : In(zone'[z], c, i)]_vars

\* The pieces of the item i, which is `it` and in the place `at`, when it stacks.
Units(it, i, at) == IF it.kind \in Stackable THEN {<<i, at>>} \X (1 .. it.amount) ELSE {}
OnGround(z) == UNION {Units(zone[z].ground[i], i, <<"ground", z>>) : i \in Ground(z)}
InBox(z, c) == UNION {Units(zone[z].boxes[c][i], i, <<"box", z, c>>) : i \in DOMAIN zone[z].boxes[c]}
InZone(z)   == OnGround(z) \cup (UNION {InBox(z, c) : c \in Records(z)})
OnBody(p)   == UNION {Units([kind |-> worn[p][i].kind, amount |-> 1], i, <<"worn", p>>) : i \in DOMAIN worn[p]}
OnHand(p)   == IF held[p] = None THEN {} ELSE Units(held[p], held[p].serial, <<"cursor", p>>)
OnItsWay(p) == IF Busy(p) THEN Units(back[p].item, back[p].item.serial, <<"back", p>>) ELSE {}
OnPlayer(p) == OnBody(p) \cup OnHand(p) \cup OnItsWay(p)

\* Every single piece of what stacks, wherever it is.
Coins  == (UNION {InZone(z) : z \in Zones}) \cup (UNION {OnPlayer(p) : p \in Players})
Wealth == Cardinality(Coins)

\* No step makes more of what stacks: splitting, merging, dropping, dying and coming back keep the amounts or lose some.
NothingFromNothing == [][Wealth' <= Wealth]_vars
=============================================================================
