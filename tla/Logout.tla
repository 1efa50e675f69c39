------------------------------- MODULE Logout -------------------------------
(***************************************************************************)
(* The way of one character of a normal account between the worlds and the *)
(* storage zone of offline characters (demo-server/logout.rs, spawn.rs,    *)
(* infra.rs, Worker::transfer_entity, RestoreSnapshot, .save).             *)
(*                                                                         *)
(* The worker takes its commands from one queue, so what a command does is *)
(* done here when it is sent; what it answers is a copy its sender keeps.  *)
(* Between two steps of a session or of the reaper's timer anything else   *)
(* may happen.                                                             *)
(***************************************************************************)
EXTENDS Integers, FiniteSets, Sequences, SequencesExt

CONSTANTS
  Worlds,        \* map ids of the live worlds
  Places,        \* where players walk
  Bank,          \* the fallback: Britain bank, and (0, 0, 0) in storage
  Sessions,
  Races,         \* what the code does not exclude and an instance may allow:
                 \*   "expiry"    a timer expires while the player comes back
                 \*   "startup"   a login before the restored timers have run
                 \*   "overlap"   two sessions of one character
                 \*   "senderror" a session ends by a failed send
                 \*   "halfmoved" ... in the middle of a change of world
                 \*   "tornsave"  a .save in the middle of a return from the
                 \*               storage, or of a change of world
                 \*   "oldrecord" a restart where the world save and the
                 \*               record of the account are of two ages
  InboxSize,     \* capacity of the reaper's channel (256)
  None

LOGOUT_STORAGE_MAP == 254
Zones == Worlds \cup {LOGOUT_STORAGE_MAP}

VARIABLES
  zone,          \* per zone: where the character is, and its item_props there
  home,          \* CharacterRecord.world
  registry,      \* the observer registered under the character's serial
  inbox,         \* commands for the reaper
  timer,         \* the reaper's sub-task for the character
  session,       \* per session: what it is doing, and what it knows
  rearm,         \* per restored zone: the command its event still asks for
  saving,        \* the zones a .save has copied so far
  disk           \* world_save.json and accounts_save.json
vars == <<zone, home, registry, inbox, timer, session, rearm, saving, disk>>
server == <<rearm, saving, disk>>

Pcs == {"off", "cut off", "finding", "unmarking", "erasing", "searching", "unstoring", "fetching",
        "entering", "playing", "moved", "arming", "marking", "writing"}
Address == [world : Worlds, place : Places \cup {Bank}]
Props   == [pending : Address \cup {None}, back : Address \cup {None}]
Cell    == [place : Places \cup {Bank, None}, props : Props \cup {None}]
Observer == [session : Sessions, world : Worlds]
Cmd      == [op : {"cancel"}] \cup [op : {"arm"}, addr : Address, grace : BOOLEAN]
Timers   == [pc : {"asleep", "read", "written"}, addr : Address, grace : BOOLEAN]
Stages   == [pc : Pcs, world : Worlds, place : Places \cup {Bank, None}, props : Props \cup {None}]
Saves    == [zone : [Zones -> Cell], home : Worlds]
Blank    == [pending |-> None, back |-> None]
Empty    == [place |-> None, props |-> None]

ASSUME LogoutAssumption ==
  /\ Worlds \subseteq 0 .. 253 /\ 0 \in Worlds /\ IsFiniteSet(Worlds)
  /\ Bank \notin Places
  /\ None \notin Places \cup {Bank} \cup Address \cup Props \cup Observer \cup Timers \cup Saves
  /\ Races \subseteq {"expiry", "startup", "overlap", "senderror", "halfmoved", "tornsave", "oldrecord"}
  /\ InboxSize \in Nat \ {0}

Here(z) == zone[z].place # None
Lowest(z, S) == z \in S /\ \A y \in S : z <= y
Nothing == [z \in {} |-> Empty]
With(f, z, v) == [y \in DOMAIN f \cup {z} |-> IF y = z THEN v ELSE f[y]]
Without(f, z) == [y \in DOMAIN f \ {z} |-> f[y]]

Arm(world, place, grace) ==
  [op |-> "arm", addr |-> [world |-> world, place |-> place], grace |-> grace]
Cancel == [op |-> "cancel"]

-----------------------------------------------------------------------------
(* What the worker does. *)

\* Mutant: the entity is copied.
TransferCopies(from, to, place) ==
  zone' = [zone EXCEPT ![to] = [place |-> place, props |-> zone[from].props]]

\* Worker::transfer_entity, for an entity that is there; props that the source
\* does not have leave those of the destination alone.
Transfer(from, to, place) ==
  zone' = [zone EXCEPT
             ![from] = Empty,
             ![to]   = [place |-> place,
                        props |-> IF zone[from].props = None
                                  THEN zone[to].props ELSE zone[from].props]]

\* get_item_props(..).unwrap_or_default(), and set_item_props, which does not
\* ask whether the entity is there.
PropsOf(z)       == IF zone[z].props = None THEN Blank ELSE zone[z].props
SetProps(z, new) == zone' = [zone EXCEPT ![z].props = new]

-----------------------------------------------------------------------------
(* The races an instance may exclude. *)

Awake     == timer # None /\ timer.pc # "asleep"
Busy      == \E s \in Sessions : session[s].pc \notin {"off", "cut off", "playing"}
Marking   == \E s \in Sessions : session[s].pc \in {"arming", "marking", "writing"}
Restoring == \/ DOMAIN rearm # {}
             \/ timer # None /\ ~ timer.grace
             \/ \E i \in DOMAIN inbox : inbox[i].op = "arm" /\ ~ inbox[i].grace
Saving    == DOMAIN saving # {}
Allowed(race) == race \in Races

-----------------------------------------------------------------------------
Init ==
  \E s \in Sessions, w \in Worlds, p \in Places :
    /\ zone = [z \in Zones |-> IF z = w THEN [place |-> p, props |-> None] ELSE Empty]
    /\ home = w /\ registry = [session |-> s, world |-> w]
    /\ inbox = <<>> /\ timer = None /\ rearm = Nothing /\ saving = Nothing /\ disk = None
    /\ session = [t \in Sessions |->
         IF t = s THEN [pc |-> "playing", world |-> w, place |-> p, props |-> None]
                  ELSE [pc |-> "off", world |-> w, place |-> Bank, props |-> None]]

\* (SendUnbounded is a mutant: the channel has no capacity.)
Gone(s)       == session[s].pc \in {"off", "cut off"}
At(s, pc)     == session[s].pc = pc
Goto(s, pc)   == session' = [session EXCEPT ![s].pc = pc]
SendUnbounded(cmd) == inbox' = Append(inbox, cmd)
Send(cmd)     == Len(inbox) < InboxSize /\ inbox' = Append(inbox, cmd)
\* Case 3: no entity; the player is shown the bank of world 0.
FallBack(s)   == session' = [session EXCEPT ![s] =
                   [pc |-> "entering", world |-> 0, place |-> Bank, props |-> None]]

(* resolve_normal_account_spawn *)

\* The record is read and the timer cancelled.
Login(s) ==
  /\ Gone(s)
  /\ Allowed("overlap") \/ \A t \in Sessions : Gone(t)
  /\ Allowed("expiry")  \/ ~ Awake
  /\ Allowed("startup") \/ ~ Restoring
  /\ Send(Cancel)
  /\ session' = [session EXCEPT ![s].pc = "finding", ![s].world = home]
  /\ UNCHANGED <<zone, home, registry, timer, server>>

\* Case 1, mark_player and get_entity.
FindLive(s) ==
  /\ At(s, "finding")
  /\ session' = [session EXCEPT
       ![s].pc    = IF Here(session[s].world) THEN "unmarking" ELSE "searching",
       ![s].place = zone[session[s].world].place]
  /\ UNCHANGED <<zone, home, registry, inbox, timer, server>>

ReadMark(s) ==
  /\ At(s, "unmarking")
  /\ LET p == PropsOf(session[s].world)
     IN  session' = [session EXCEPT ![s].pc    = IF p.pending # None THEN "erasing" ELSE "entering",
                                    ![s].props = p]
  /\ UNCHANGED <<zone, home, registry, inbox, timer, server>>

EraseMark(s) ==
  /\ At(s, "erasing")
  /\ SetProps(session[s].world, [session[s].props EXCEPT !.pending = None])
  /\ Goto(s, "entering")
  /\ UNCHANGED <<home, registry, inbox, timer, server>>

\* Case 2: get_entity and, in a row, the two reads of its props.
FindStored(s) ==
  /\ At(s, "searching")
  /\ IF Here(LOGOUT_STORAGE_MAP)
     THEN LET p  == PropsOf(LOGOUT_STORAGE_MAP)
              to == IF p.back # None THEN p.back
                    ELSE [world |-> session[s].world, place |-> Bank]
          IN  session' = [session EXCEPT ![s] =
                [pc |-> "unstoring", world |-> to.world, place |-> to.place,
                 props |-> zone[LOGOUT_STORAGE_MAP].props]]
     ELSE FallBack(s)
  /\ UNCHANGED <<zone, home, registry, inbox, timer, server>>

EraseReturn(s) ==
  /\ At(s, "unstoring") /\ Goto(s, "fetching")
  /\ Allowed("tornsave") \/ ~ Saving
  /\ IF session[s].props = None THEN UNCHANGED zone
     ELSE SetProps(LOGOUT_STORAGE_MAP, [session[s].props EXCEPT !.back = None])
  /\ UNCHANGED <<home, registry, inbox, timer, server>>

Fetch(s) ==
  /\ At(s, "fetching")
  /\ IF Here(LOGOUT_STORAGE_MAP)
     THEN Transfer(LOGOUT_STORAGE_MAP, session[s].world, session[s].place) /\ Goto(s, "entering")
     ELSE UNCHANGED zone /\ FallBack(s)
  /\ UNCHANGED <<home, registry, inbox, timer, server>>

\* enter_world: RegisterObserver.
Enter(s) ==
  /\ At(s, "entering") /\ Goto(s, "playing")
  /\ registry' = [session |-> s, world |-> session[s].world]
  /\ UNCHANGED <<zone, home, inbox, timer, server>>

(* The player plays. *)

Walk(s, p) ==
  /\ At(s, "playing") /\ Here(session[s].world)
  /\ zone'    = [zone EXCEPT ![session[s].world].place = p]
  /\ session' = [session EXCEPT ![s].place = p]
  /\ UNCHANGED <<home, registry, inbox, timer, server>>

\* transfer_player: UnregisterObserver and the transfer.
ChangeWorld(s, w) ==
  LET old == session[s].world IN
  /\ At(s, "playing") /\ w # old
  /\ Allowed("tornsave") \/ ~ Saving
  /\ IF Here(old)
     THEN /\ Transfer(old, w, session[s].place)
          /\ session' = [session EXCEPT ![s].pc = "moved", ![s].world = w]
          /\ registry' = None
     ELSE registry' = [session |-> s, world |-> old] /\ UNCHANGED <<zone, session>>
  /\ UNCHANGED <<home, inbox, timer, server>>

\* Mutant: the record keeps the old world.
RecordWorldNot(s) ==
  /\ At(s, "moved") /\ Goto(s, "playing")
  /\ registry' = [session |-> s, world |-> session[s].world]
  /\ UNCHANGED <<zone, home, inbox, timer, server>>

\* ... SetMap is sent, the record updated and saved, the observer registered.
RecordWorld(s) ==
  /\ At(s, "moved") /\ Goto(s, "playing")
  /\ home' = session[s].world
  /\ disk' = IF disk = None THEN None ELSE [disk EXCEPT !.home = session[s].world]
  /\ registry' = [session |-> s, world |-> session[s].world]
  /\ UNCHANGED <<zone, inbox, timer, rearm, saving>>

\* A failed send leaves run_game_session by `?`, and nobody cleans up.
SendFails(s) ==
  /\ \/ Allowed("senderror") /\ session[s].pc \in {"entering", "playing"}
     \/ Allowed("halfmoved") /\ At(s, "moved")
  /\ Goto(s, "cut off")
  /\ UNCHANGED <<zone, home, registry, inbox, timer, server>>

(* cleanup_session *)

\* UnregisterObserver and get_entity: without an entity there is nothing to do.
Disconnect(s) ==
  /\ At(s, "playing")
  /\ Goto(s, IF Here(session[s].world) THEN "arming" ELSE "off")
  /\ registry' = None
  /\ UNCHANGED <<zone, home, inbox, timer, server>>

ArmReaper(s) ==
  /\ At(s, "arming") /\ Goto(s, "marking")
  /\ Send(Arm(session[s].world, session[s].place, TRUE))
  /\ UNCHANGED <<zone, home, registry, timer, server>>

ReadForMark(s) ==
  /\ At(s, "marking")
  /\ session' = [session EXCEPT ![s].pc = "writing", ![s].props = PropsOf(session[s].world)]
  /\ UNCHANGED <<zone, home, registry, inbox, timer, server>>

WriteMark(s) ==
  /\ At(s, "writing") /\ Goto(s, "off")
  /\ SetProps(session[s].world,
       [session[s].props EXCEPT
          !.pending = [world |-> session[s].world, place |-> session[s].place]])
  /\ UNCHANGED <<home, registry, inbox, timer, server>>

(* run_logout_reaper *)

TakeArm ==
  /\ inbox # <<>> /\ Head(inbox).op = "arm"
  /\ inbox' = Tail(inbox)
  /\ timer' = [pc |-> "asleep", addr |-> Head(inbox).addr, grace |-> Head(inbox).grace]
  /\ UNCHANGED <<zone, home, registry, session, server>>

\* Mutant: the handle is dropped, not aborted.
TakeCancelIgnored ==
  /\ inbox # <<>> /\ Head(inbox).op = "cancel" /\ inbox' = Tail(inbox)
  /\ UNCHANGED <<zone, home, registry, timer, session, server>>

TakeCancel ==
  /\ inbox # <<>> /\ Head(inbox).op = "cancel"
  /\ inbox' = Tail(inbox) /\ timer' = None
  /\ UNCHANGED <<zone, home, registry, session, server>>

\* The sleep ends and the props are read.  Twenty seconds outlast the rest of
\* a cleanup; nothing makes them miss the moment a player returns.
TimerEnds ==
  /\ timer # None /\ timer.pc = "asleep"
  /\ timer.grace => ~ Marking
  /\ Allowed("expiry") \/ (~ Busy /\ inbox = <<>>)
  /\ timer' = [timer EXCEPT !.pc = "read"]
  /\ UNCHANGED <<zone, home, registry, inbox, session, server>>

\* Mutant: the mark is removed, the return address forgotten.
TimerSwapsHalf ==
  /\ timer # None /\ timer.pc = "read"
  /\ SetProps(timer.addr.world, Blank)
  /\ timer' = [timer EXCEPT !.pc = "written"]
  /\ UNCHANGED <<home, registry, inbox, session, server>>

\* META_LOGOUT_PENDING becomes META_LOGOUT_RETURN; of what was read only these
\* two are modelled, and both are written.
TimerSwaps ==
  /\ timer # None /\ timer.pc = "read"
  /\ SetProps(timer.addr.world, [pending |-> None, back |-> timer.addr])
  /\ timer' = [timer EXCEPT !.pc = "written"]
  /\ UNCHANGED <<home, registry, inbox, session, server>>

TimerStores ==
  /\ timer # None /\ timer.pc = "written"
  /\ IF Here(timer.addr.world) THEN Transfer(timer.addr.world, LOGOUT_STORAGE_MAP, Bank)
                               ELSE UNCHANGED zone
  /\ timer' = None
  /\ UNCHANGED <<home, registry, inbox, session, server>>

(* .save and a restart with --load. *)

\* handle_save asks one zone after the other, the storage last.
SaveZone ==
  /\ Allowed("tornsave") \/ \A s \in Sessions : ~ At(s, "fetching")
  /\ \E z \in Zones :
       /\ Lowest(z, Zones \ DOMAIN saving)
       /\ LET copy == With(saving, z, zone[z])
          IN  IF DOMAIN copy = Zones
              THEN saving' = Nothing /\ disk' = [zone |-> copy, home |-> home]
              ELSE saving' = copy /\ disk' = disk
  /\ UNCHANGED <<zone, home, registry, inbox, timer, session, rearm>>

Marked(z) == disk.zone[z].props # None /\ disk.zone[z].props.pending # None
\* Mutant: only those that were mid-logout are looked for.
ToRearmMarked == {z \in Zones : Marked(z)}

\* RestoreSnapshot (crash_recovery): a character mid-logout is armed where its
\* mark says, one that was online where it stood.
ToRearm == {z \in Zones : Marked(z) \/ (z # LOGOUT_STORAGE_MAP /\ disk.zone[z].place # None)}
Rearmed(z) ==
  LET cell == disk.zone[z]
  IN  IF Marked(z) THEN Arm(cell.props.pending.world, cell.props.pending.place, FALSE)
                   ELSE Arm(z, cell.place, FALSE)

\* The record on disk names the world that the saved character is in, or
\* returns to.
RecordAgrees ==
  /\ \A w \in Worlds : disk.zone[w].place # None => disk.home = w
  /\ LET p == disk.zone[LOGOUT_STORAGE_MAP].props
     IN  p # None /\ p.back # None => disk.home = p.back.world

Restart ==
  /\ disk # None
  /\ Allowed("oldrecord") \/ RecordAgrees
  /\ zone' = disk.zone /\ home' = disk.home
  /\ registry' = None /\ inbox' = <<>> /\ timer' = None /\ saving' = Nothing
  /\ session' = [s \in Sessions |-> [session[s] EXCEPT !.pc = "off"]]
  /\ rearm' = [z \in ToRearm |-> Rearmed(z)]
  /\ UNCHANGED disk

RestoreTask ==
  /\ \E z \in Zones : /\ Lowest(z, DOMAIN rearm)
                     /\ Send(rearm[z]) /\ rearm' = Without(rearm, z)
  /\ UNCHANGED <<zone, home, registry, timer, session, saving, disk>>

SessionStep(s) ==
  \/ FindLive(s) \/ ReadMark(s) \/ EraseMark(s) \/ FindStored(s) \/ EraseReturn(s)
  \/ Fetch(s) \/ Enter(s) \/ RecordWorld(s)
  \/ ArmReaper(s) \/ ReadForMark(s) \/ WriteMark(s)
Player(s) ==
  \/ Login(s) \/ Disconnect(s) \/ SendFails(s)
  \/ \E p \in Places : Walk(s, p)
  \/ \E w \in Worlds : ChangeWorld(s, w)
Reaper == TakeArm \/ TakeCancel
Timer  == TimerEnds \/ TimerSwaps \/ TimerStores

Next == \/ \E s \in Sessions : SessionStep(s) \/ Player(s)
        \/ Reaper \/ Timer \/ SaveZone \/ Restart \/ RestoreTask
Spec == Init /\ [][Next]_vars

\* Every task runs on; players, saves and restarts are free.
Fairness == /\ \A s \in Sessions : WF_vars(SessionStep(s))
            /\ WF_vars(Reaper) /\ WF_vars(Timer) /\ WF_vars(RestoreTask)
            /\ WF_vars(Saving /\ SaveZone)
FairSpec == Spec /\ Fairness

-----------------------------------------------------------------------------
(* Properties. *)

\* Every variable has the values its declaration promises.
TypeOK ==
  /\ zone \in [Zones -> Cell] /\ home \in Worlds
  /\ registry \in Observer \cup {None}
  /\ inbox \in Seq(Cmd) /\ Len(inbox) <= InboxSize
  /\ timer \in Timers \cup {None}
  /\ session \in [Sessions -> Stages]
  /\ DOMAIN rearm \subseteq Zones /\ rearm \in [DOMAIN rearm -> Cmd]
  /\ DOMAIN saving \subseteq Zones /\ saving \in [DOMAIN saving -> Cell]
  /\ disk \in Saves \cup {None}

\* Somebody is on the way to store the character from world w.
ToBeStored(w) ==
  \/ timer # None /\ timer.addr.world = w
  \/ \E i \in DOMAIN inbox : inbox[i].op = "arm" /\ inbox[i].addr.world = w
  \/ \E z \in DOMAIN rearm : rearm[z].addr.world = w

\* The character is somewhere, in one world at most, and in the storage as well
\* only after a restart from a .save that met it on its way there, until the
\* restore task has it stored again (transfer_entity, handle_save,
\* RestoreSnapshot).
OneCharacter ==
  /\ \E z \in Zones : Here(z)
  /\ \A v, w \in Worlds : Here(v) /\ Here(w) => v = w
  /\ Here(LOGOUT_STORAGE_MAP) => \A w \in Worlds : Here(w) => ToBeStored(w)

\* A login that does not find the character in the world of its record finds it
\* in the storage, whatever changes of world, failed sends, expired timers, saves
\* and restarts came before it: nobody is shown the bank of world 0 without a
\* body (resolve_normal_account_spawn, Case 3).  A timer that expires in the
\* middle of a login is not among them: that is the race "expiry", with which
\* the character may lose its address, return to another world than its record
\* names, and not be found by a later login.  Neither is a restart from a record
\* and a save of two ages ("oldrecord"), nor a change of world cut short by a
\* failed send ("halfmoved").
FoundAtLogin ==
  \A s \in Sessions : session[s].pc \in {"searching", "unstoring", "fetching"} => Here(LOGOUT_STORAGE_MAP)

\* A player in the world has a body there, the registry sends it what happens,
\* and no timer runs that would take the body away (logout.rs: "If the player
\* reconnects before the timer fires, Cancel aborts the sub-task").
PlayersAreHome ==
  \A s \in Sessions : At(s, "playing") =>
    /\ Here(session[s].world) /\ zone[session[s].world].place = session[s].place
    /\ registry = [session |-> s, world |-> session[s].world]
    /\ timer # None => \E i \in DOMAIN inbox : inbox[i] = Cancel

\* What lies in the storage knows where to return, until a login that takes it
\* out has read it (META_LOGOUT_RETURN); and the mark a .save keeps, and a
\* restart goes by, names the place where the character stands: none is left
\* over from an earlier logout (META_LOGOUT_PENDING).
KnowsItsWay ==
  /\ Here(LOGOUT_STORAGE_MAP) =>
       \/ PropsOf(LOGOUT_STORAGE_MAP).back # None
       \/ \E s \in Sessions : At(s, "fetching")
  /\ \A w \in Worlds : Here(w) /\ PropsOf(w).pending # None =>
       PropsOf(w).pending = [world |-> w, place |-> zone[w].place]

\* A character whose player stays away, of a server that stays up, ends in the
\* storage and only there, whatever was saved, restored or cancelled before,
\* unless a failed send ended its last session.
Stored == Here(LOGOUT_STORAGE_MAP) /\ \A w \in Worlds : ~ Here(w)
EndsInStorage ==
  <>[](\A s \in Sessions : At(s, "off")) /\ <>[][~ Restart]_vars => <>[]Stored
=============================================================================
