------------------------------ MODULE Observation ------------------------------
(***************************************************************************)
(* What a player's client sees of one zone of the demo server, and how it  *)
(* comes to know it.                                                       *)
(*                                                                         *)
(*   zone --bus--> registry --link--> session --packets--> client          *)
(*                    ^                  |                                 *)
(*                    +------ todo ------+                                 *)
(*                                                                         *)
(* The worker (continuum/worker.rs) runs the zone: it handles commands,    *)
(* and after a batch of them routes the events they published, one by one; *)
(* when no command waits it ticks the controllers and routes their events  *)
(* coalesced (uo_engine/base_handler.rs).  The registry (observer.rs)      *)
(* routes an event to a session by 8x8 blocks.  The session turns events   *)
(* into packets by its own view rectangle (world_events.rs), steps its     *)
(* character and, when the character has moved, tells the registry its new *)
(* view, which answers with the entities of the strips gained and lost.    *)
(*                                                                         *)
(* The session's socket is the only way to the client and is in order, so  *)
(* a packet takes effect on the client's picture where the session sends   *)
(* it.  The picture is that of diorama's session view: it forgets what is  *)
(* out of view when its centre moves, and ignores an update (0x77) of a    *)
(* mobile it does not know.                                                *)
(***************************************************************************)
EXTENDS TileRect, Sequences, SequencesExt

CONSTANTS Mobiles,        \* the other mobiles of the zone
          Me,             \* the player's own character
          Tiles,          \* the walkable tiles
          BlockSize,      \* BlockKey::BLOCK_SIZE, 8 in the code
          ViewRange,      \* the player's view range, in tiles
          LinkCapacity,   \* of the session's event channel, 4096 in the server
          Headings,       \* the offsets of a step; none is zero
          Scenarios,      \* what may happen besides the player joining
          KeepsTicking,   \* TRUE: some controller always asks for another tick
          Bound,          \* bound on events and commands under way
          None

ASSUME TilesAssumption == Tiles \subseteq Tile /\ None \notin Tile /\ None \notin Rect
ASSUME WhoAssumption == Me \notin Mobiles /\ IsFiniteSet(Mobiles)
ASSUME SizesAssumption == BlockSize \in Nat \ {0} /\ ViewRange \in Nat /\ LinkCapacity \in Nat
ASSUME ScenarioAssumption ==
  /\ Scenarios \subseteq
       SUBSET {"walk", "step", "teleport", "carry", "carry_joining", "spawn", "remove", "update",
              "throttle"}
  /\ KeepsTicking \in BOOLEAN

VARIABLES
  acts,    \* the scenario; never changes
  at,      \* zone store: tile of every mobile, None if not in the zone
  bus,     \* event_tx -> event_rx: published, not yet routed
  turn,    \* what the worker is doing
  wake,    \* next_tick_at() is Some
  watch,   \* the registry's rectangle for the session, None if not registered
  todo,    \* the session's commands in the worker's channel
  link,    \* the session's event channel
  phase,   \* the session is joining, awaits a step, or runs its select loop
  reply,   \* the oneshot channel of the command it awaits
  here,    \* player.x, player.y
  view,    \* player.view_rect
  lately,  \* keys of player.move_throttle: redrawn by a move, at some time
  self,    \* client: where it draws its own character
  shown    \* client: where it draws the others, None if it does not

worker  == <<at, bus, turn, wake, watch>>
session == <<phase, here, view, lately>>
client  == <<self, shown>>
vars    == <<acts, worker, todo, link, reply, session, client>>

Kinds == {"moved", "drawn", "removed"}
Event == [kind : Kinds, who : Mobiles \cup {Me}, from : Tiles, to : Tiles, teleport : BOOLEAN]
Moved(m, from, to, teleport) ==
  [kind |-> "moved", who |-> m, from |-> from, to |-> to, teleport |-> teleport]
\* EntitySpawned and EntityUpdated: both carry a snapshot and are drawn whole.
Drawn(m, t)   == [kind |-> "drawn", who |-> m, from |-> t, to |-> t, teleport |-> FALSE]
Removed(m, t) == [kind |-> "removed", who |-> m, from |-> t, to |-> t, teleport |-> FALSE]

Still == [x |-> 0, y |-> 0]             \* a turn in place
Onto(t, by) == [x |-> t.x + by.x, y |-> t.y + by.y]
ViewFrom(t) == FromView(t, ViewRange)

-------------------------------------------------------------------------------
(* Routing. *)

\* SpatialIndex: a rectangle is watched by whole blocks.
OnBlocksOf(r, t) ==
  /\ r.x_min \div BlockSize <= t.x \div BlockSize
  /\ t.x \div BlockSize <= r.x_max \div BlockSize
  /\ r.y_min \div BlockSize <= t.y \div BlockSize
  /\ t.y \div BlockSize <= r.y_max \div BlockSize

\* ObserverRegistry::deliver, for events in a row: what finds the channel full
\* is dropped.
Delivered(queue, events) ==
  LET all == queue \o events
  IN  IF Len(all) <= LinkCapacity THEN all ELSE SubSeq(all, 1, LinkCapacity)

\* ObserverRegistry::route_event: by the old and the new position, to a session
\* that watches the rectangle r.
\* Mutant: by the new position only.
RoutedByNew(r, event) == r # None /\ OnBlocksOf(r, event.to)

Routed(r, event) == r # None /\ (OnBlocksOf(r, event.from) \/ OnBlocksOf(r, event.to))

\* The events of a batch that the session gets.
RoutedOf(r, events) ==
  LET kept[n \in 0 .. Len(events)] ==
        IF n = 0 THEN <<>>
        ELSE IF Routed(r, events[n]) THEN Append(kept[n - 1], events[n]) ELSE kept[n - 1]
  IN  kept[Len(events)]

SameMove(d, e) == d.kind = "moved" /\ e.kind = "moved" /\ d.who = e.who

\* Mutant: the last move keeps its own old position.
MergedFromLast(first, last) ==
  [last EXCEPT !.teleport = first.teleport \/ last.teleport]

\* drain_and_route_events: one move per mobile, at the place of its first one,
\* from where that one started to where the last one ended, a teleport if any
\* was.  Events of other kinds keep their places.
Merged(first, last) ==
  [last EXCEPT !.from = first.from, !.teleport = first.teleport \/ last.teleport]
Noted(order, e) ==
  IF \E i \in DOMAIN order : SameMove(order[i], e)
  THEN [i \in DOMAIN order |-> IF SameMove(order[i], e) THEN Merged(order[i], e) ELSE order[i]]
  ELSE Append(order, e)
Coalesced(events) ==
  LET order[n \in 0 .. Len(events)] ==
        IF n = 0 THEN <<>> ELSE Noted(order[n - 1], events[n])
  IN  order[Len(events)]

\* The mobiles of the zone in a set of rectangles.
Within(rects) ==
  {m \in Mobiles : at[m] # None /\ \E r \in rects : ContainsPos(r, at[m])}

-------------------------------------------------------------------------------
(* The client's picture, and what the session makes of an event. *)

\* SessionView::update_view: what is outside the view of the new centre goes.
Evicted(pic, centre) ==
  [m \in Mobiles |-> IF pic[m] # None /\ ContainsPos(ViewFrom(centre), pic[m])
                     THEN pic[m] ELSE None]

\* --move-throttle is above 0: player.throttle_interval.
Throttling == "throttle" \in acts

\* DeleteObject (0x1D), and move_throttle_remove.
Deleted(s, m) == [s EXCEPT !.shown[m] = None, !.lately = @ \ {m}]

\* UpdateMobile (0x77), and move_throttle_insert.
Redrawn(s, m, t) ==
  [s EXCEPT !.shown[m] = IF @ = None THEN None ELSE t,
            !.lately   = IF s.throttling THEN @ \cup {m} ELSE @]

\* collect_world_event_packets.  The session's own moves were acknowledged
\* inline; a teleport snaps the client.  A move within the view v is 0x77, one
\* into it a full draw, one out of it a delete.  A move within the view is
\* skipped for good when it comes too soon after the last one that was sent.
\* No mobile is hidden (is_hidden_from_observer): all are drawn.
Applied(v, s, e, soon) ==
  LET was == ContainsPos(v, e.from)
      now == ContainsPos(v, e.to)
  IN  IF e.who = Me
      THEN IF e.kind = "moved" /\ e.teleport
           THEN [s EXCEPT !.here = e.to, !.self = e.to, !.shown = Evicted(s.shown, e.to)]
           ELSE s
      ELSE CASE e.kind = "drawn"                   -> [s EXCEPT !.shown[e.who] = e.to]
             [] e.kind = "removed"                 -> Deleted(s, e.who)
             [] e.kind = "moved" /\ was /\ now ->
                  IF soon /\ e.who \in s.lately THEN s ELSE Redrawn(s, e.who, e.to)
             [] e.kind = "moved" /\ ~ was /\ now   -> [s EXCEPT !.shown[e.who] = e.to]
             [] e.kind = "moved" /\ was /\ ~ now   -> Deleted(s, e.who)
             [] OTHER                              -> s

\* What the session and its client make of events, one after the other; the n-th
\* comes too soon when n is in `soon`.
AppliedAll(v, s, events, soon) ==
  LET after[n \in 0 .. Len(events)] ==
        IF n = 0 THEN s ELSE Applied(v, after[n - 1], events[n], n \in soon)
  IN  after[Len(events)]

\* drain_events and collect_infra_event_packets over all that waits in the link.
\* The clock is not modelled: any of the events may come too soon.
TakeLink ==
  \E soon \in SUBSET {n \in DOMAIN link : Throttling} :
    LET after == AppliedAll(view, [here |-> here, self |-> self, shown |-> shown, lately |-> lately,
                                   throttling |-> Throttling], link, soon)
    IN  /\ here'   = after.here
        /\ self'   = after.self
        /\ shown'  = after.shown
        /\ lately' = after.lately
        /\ link'   = <<>>

\* Mutant: the old view is kept, the new one is sent.
SyncViewForgetful ==
  LET new == ViewFrom(here')
  IN  /\ view' = view
      /\ todo' = IF new # view THEN Append(todo, [op |-> "view", rect |-> new]) ELSE todo

\* sync_view_rect, after here changed (or not).
SyncView ==
  LET new == ViewFrom(here')
  IN  /\ view' = new
      /\ todo' = IF new # view THEN Append(todo, [op |-> "view", rect |-> new]) ELSE todo

-------------------------------------------------------------------------------
(* The session has just sent RegisterObserver for a character in the zone. *)

Init ==
  /\ acts \in Scenarios
  /\ at \in [Mobiles \cup {Me} -> Tiles \cup {None}] /\ at[Me] # None
  /\ bus = <<>> /\ turn = "waiting" /\ wake = KeepsTicking
  /\ watch = None /\ link = <<>>
  /\ phase = "joining" /\ reply = <<>>
  /\ here = at[Me] /\ view = ViewFrom(here)
  /\ todo = <<[op |-> "register", rect |-> view]>>
  /\ self = at[Me] /\ shown = [m \in Mobiles |-> None] /\ lately = {}

\* The bound: nobody acts while this much is under way.
Room == Len(bus) + Len(link) + Len(todo) < Bound

(* The session. *)

\* The worker has streamed what is in view: the session drains it and is in.
Joined ==
  /\ phase = "joining" /\ reply # <<>>
  /\ TakeLink
  /\ phase' = "idle" /\ reply' = <<>>
  /\ UNCHANGED <<acts, worker, todo, view>>

\* handle_move, up to the await of the engine's answer.  A turn leaves the tile.
ClientStep(by) ==
  /\ "walk" \in acts
  /\ phase = "idle" /\ Onto(self, by) \in Tiles /\ Room
  /\ phase' = "stepping"
  /\ todo' = Append(todo, [op |-> "step", by |-> by])
  /\ UNCHANGED <<acts, worker, link, reply, here, view, lately, client>>

\* The rest of it: MoveAck lets the client finish its step, MoveReject puts it
\* where the session believes it is; then the post-packet hook syncs the view.
StepAnswered ==
  /\ phase = "stepping" /\ reply # <<>>
  /\ IF reply[1].to # None THEN /\ here' = reply[1].to
                                /\ self' = Onto(self, reply[1].by)
                           ELSE /\ here' = here /\ self' = here
  /\ shown' = Evicted(shown, self')
  /\ SyncView
  /\ phase' = "idle" /\ reply' = <<>>
  /\ UNCHANGED <<acts, worker, link, lately>>

\* handle_world_event_batch: the link is shorter than MAX_DRAIN + 1.
HandleEvents ==
  /\ phase = "idle" /\ link # <<>>
  /\ TakeLink
  /\ SyncView
  /\ UNCHANGED <<acts, worker, phase, reply>>

(* The worker: commands of the session. *)

TakeCommand(op) ==
  /\ turn \in {"waiting", "batch"} /\ turn' = "batch"
  /\ todo # <<>> /\ Head(todo).op = op
  /\ todo' = Tail(todo)

RegisterObserver ==
  /\ TakeCommand("register")
  /\ watch' = Head(todo).rect
  /\ link' = Delivered(link, SetToSeq({Drawn(m, at[m]) : m \in Within({Head(todo).rect})}))
  /\ reply' = <<None>>
  /\ UNCHANGED <<acts, at, bus, wake, session, client>>

\* The strips are sent at once, before the events published earlier in the batch.
UpdateObserverView ==
  /\ TakeCommand("view")
  /\ LET new     == Head(todo).rect
         added   == SetToSeq({Drawn(m, at[m]) : m \in Within(Difference(new, watch))})
         removed == SetToSeq({Removed(m, at[m]) : m \in Within(Difference(watch, new))})
     IN  /\ watch' = new
         /\ link' = Delivered(link, IF new = watch THEN <<>> ELSE added \o removed)
  /\ UNCHANGED <<acts, at, bus, wake, reply, session, client>>

\* MobileStep of the player; the map may refuse a step, never a turn.
StepMe ==
  /\ TakeCommand("step")
  /\ LET by == Head(todo).by
         to == Onto(at[Me], by)
     IN  \/ /\ to \in Tiles
            /\ at' = [at EXCEPT ![Me] = to]
            /\ bus' = Append(bus, Moved(Me, at[Me], to, FALSE))
            /\ reply' = <<[to |-> to, by |-> by]>>
         \/ /\ by # Still
            /\ reply' = <<[to |-> None, by |-> by]>>
            /\ UNCHANGED <<at, bus>>
  /\ UNCHANGED <<acts, wake, watch, link, session, client>>

(* The worker: what others do, by commands or from a controller in a tick. *)

Act(name, m, to, event) ==
  /\ name \in acts
  /\ Room
  /\ turn' = IF turn = "waiting" THEN "batch" ELSE turn
  /\ at' = [at EXCEPT ![m] = to]
  /\ bus' = Append(bus, event)
  /\ UNCHANGED <<acts, wake, watch, todo, link, reply, session, client>>

MobileStep(m, by) ==
  /\ at[m] # None /\ Onto(at[m], by) \in Tiles
  /\ Act("step", m, Onto(at[m], by), Moved(m, at[m], Onto(at[m], by), FALSE))
TeleportEntity(m, to) ==
  at[m] # None /\ Act("teleport", m, to, Moved(m, at[m], to, TRUE))
CarryMe(to) ==
  Act(IF phase = "joining" THEN "carry_joining" ELSE "carry", Me, to, Moved(Me, at[Me], to, TRUE))
\* Nobody gives the serial of what is removed back: m is another mobile when it
\* is spawned again, and what the former one published has been routed.  What is
\* removed or updated is in the zone; an update here changes looks, not the
\* position.
SpawnEntity(m, to) ==
  /\ at[m] = None /\ \A i \in DOMAIN bus : bus[i].who # m
  /\ Act("spawn", m, to, Drawn(m, to))
RemoveEntity(m) ==
  at[m] # None /\ Act("remove", m, None, Removed(m, at[m]))
UpdateEntity(m) ==
  at[m] # None /\ Act("update", m, at[m], Drawn(m, at[m]))

(* The worker's loop (run_adaptive): commands first, then ticks. *)

\* next_tick_at, asked at every turn of the loop.
AskForTick == wake' \in (IF KeepsTicking THEN {TRUE} ELSE BOOLEAN)

\* post_command: every event of the batch, in order.
FlushEvents ==
  /\ turn = "batch" /\ todo = <<>>
  /\ turn' = "waiting" /\ AskForTick
  /\ link' = Delivered(link, RoutedOf(watch, bus)) /\ bus' = <<>>
  /\ UNCHANGED <<acts, at, watch, todo, reply, session, client>>

\* sleep_until(next_tick_at) fires; `biased` prefers a command that waits.
TickBegins ==
  /\ turn = "waiting" /\ todo = <<>> /\ wake
  /\ turn' = "ticking"
  /\ UNCHANGED <<acts, at, bus, wake, watch, todo, link, reply, session, client>>

\* BaseHandler::tick, after the controllers ran.
TickRoutes ==
  /\ turn = "ticking"
  /\ turn' = "reacting"
  /\ link' = Delivered(link, RoutedOf(watch, Coalesced(bus))) /\ bus' = <<>>
  /\ UNCHANGED <<acts, at, wake, watch, todo, reply, session, client>>

\* ... and after the reactions to damage and the sweeps, which may publish too.
TickEnds ==
  /\ turn = "reacting"
  /\ turn' = "waiting" /\ AskForTick
  /\ UNCHANGED <<acts, at, bus, watch, todo, link, reply, session, client>>

SessionStep == \/ Joined \/ StepAnswered \/ HandleEvents
               \/ \E by \in Headings \cup {Still} : ClientStep(by)
WorkerStep  == \/ RegisterObserver \/ UpdateObserverView \/ StepMe
               \/ FlushEvents \/ TickBegins \/ TickRoutes \/ TickEnds
WorldStep   == \/ \E m \in Mobiles :
                    \/ \E by \in Headings \cup {Still} : MobileStep(m, by)
                    \/ \E t \in Tiles : TeleportEntity(m, t) \/ SpawnEntity(m, t)
                    \/ RemoveEntity(m) \/ UpdateEntity(m)
               \/ \E t \in Tiles : CarryMe(t)

Next == SessionStep \/ WorkerStep \/ WorldStep
Spec == Init /\ [][Next]_vars

\* The worker's loop and the session's loop run; the client may stop walking
\* and the others may stop acting.
Fairness == /\ WF_vars(WorkerStep)
            /\ WF_vars(Joined \/ StepAnswered) /\ WF_vars(HandleEvents)
FairSpec == Spec /\ Fairness

-------------------------------------------------------------------------------
(* Properties. *)

Command == [op : {"register", "view"}, rect : Rect] \cup [op : {"step"}, by : Headings \cup {Still}]

\* Every variable has the values its declaration promises.
TypeOK ==
  /\ acts \in Scenarios
  /\ at \in [Mobiles \cup {Me} -> Tiles \cup {None}]
  /\ bus \in Seq(Event) /\ link \in Seq(Event) /\ todo \in Seq(Command)
  /\ turn \in {"waiting", "batch", "ticking", "reacting"} /\ wake \in BOOLEAN
  /\ watch \in Rect \cup {None} /\ view \in Rect
  /\ phase \in {"joining", "idle", "stepping"} /\ Len(reply) <= 1
  /\ here \in Tiles /\ self \in Tiles
  /\ shown \in [Mobiles -> Tiles \cup {None}] /\ lately \subseteq Mobiles

\* Nothing is under way between the zone and the client.
Quiet == /\ bus = <<>> /\ link = <<>> /\ todo = <<>> /\ reply = <<>>
         /\ turn = "waiting" /\ phase = "idle"

\* The client draws a mobile on a tile in view when, and only when, it is there;
\* one whose moves are throttled, on some tile in view when, and only when, it
\* is in view: the move that was skipped is not sent later, against main.rs:157-159
\* ("the client sees only the final position after the throttle window").
InSight(p) == p # None /\ ContainsPos(view, p)
Exact(m)   == \A t \in Tiles : ContainsPos(view, t) => (shown[m] = t <=> at[m] = t)
PictureRight ==
  \A m \in Mobiles :
    IF m \in lately THEN InSight(shown[m]) <=> InSight(at[m]) ELSE Exact(m)

\* Whenever all events have arrived the player sees exactly the mobiles in
\* view, each where the zone has it unless its moves are throttled: whatever was coalesced, streamed in strips
\* or registered in between, nobody is missing, doubled or left behind
\* (drain_and_route_events, route_event, handle_base_command).  Not so when the
\* player is carried off, or walks among mobiles that move or are removed, or
\* when those that move are updated as well.
Tame ==
  /\ acts \cap {"carry", "carry_joining"} = {}
  /\ "walk" \in acts => acts \cap {"step", "teleport", "remove"} = {}
  /\ "update" \in acts => acts \cap {"step", "teleport"} = {}
QuietPictureAlways == Quiet => PictureRight
QuietPicture == Tame => QuietPictureAlways

\* Whenever all is quiet the registry watches for the session what the session
\* believes it sees, around the tile where it believes it stands
\* (sync_view_rect, update_view), and the zone, the session and the client agree
\* where the player stands ("Normal step: already handled inline via MoveAck"),
\* the latter not when a teleport by another overtakes a step of the player.
\* None of it where a teleport hits a player who is joining.
QuietAgreement ==
  Quiet /\ "carry_joining" \notin acts =>
    /\ watch = view /\ view = ViewFrom(here)
    /\ "carry" \notin acts => here = at[Me] /\ self = at[Me]

\* Once the world stands still the picture becomes right, and stays so: no event
\* is left in a queue nobody turns to (run_adaptive, handle_world_event_batch).
Converges == (<>[][FALSE]_at) => <>[]PictureRight
===============================================================================
