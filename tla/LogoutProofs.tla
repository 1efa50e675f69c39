---------------------------- MODULE LogoutProofs ----------------------------
(***************************************************************************)
(* Proofs about Logout, for any number of worlds, places and sessions and  *)
(* any capacity of the reaper's channel, where the races the code does not *)
(* exclude do not happen (a failed send may end any session).              *)
(***************************************************************************)
EXTENDS Logout, SequenceTheorems, TLAPS

Calm == Races \subseteq {"senderror"}

-----------------------------------------------------------------------------
(* The inductive invariant.                                                *)

\* The reaper's timer once it has read its inbox.
Idle == IF inbox = <<>> THEN timer = None ELSE inbox[Len(inbox)].op = "cancel"
Due  == IF inbox = <<>> THEN timer ELSE inbox[Len(inbox)]
Armed(w) == ~ Idle /\ Due.addr.world = w

Embodied == {"unmarking", "erasing", "entering", "playing", "moved", "arming", "marking", "writing"}
Unmarked == {"entering", "playing", "moved", "arming", "marking", "writing"}
Leaving  == {"marking", "writing"}
Homeward == {"finding", "searching", "unstoring", "fetching"}
AllGone  == \A s \in Sessions : Gone(s)

\* What a session has read it has.
Read ==
  \A s \in Sessions :
    /\ session[s].pc \in Embodied \cup {"unstoring", "fetching"} => session[s].place # None
    /\ session[s].pc \in {"erasing", "writing"} => session[s].props # None
OneSession == \A s, t \in Sessions : Gone(s) \/ Gone(t) \/ s = t

\* Props are of a body; a mark is of the place where the body stands.
CellOK(z, cell) ==
  /\ cell.place = None => cell.props = None
  /\ cell.props # None => cell.props.pending \in {None, [world |-> z, place |-> cell.place]}
HasReturn(cell) == cell.props # None /\ cell.props.back # None

Cells == \A z \in Zones : CellOK(z, zone[z])
OneBody ==
  /\ \E z \in Zones : Here(z)
  /\ \A v, w \in Worlds : Here(v) /\ Here(w) => v = w
\* A body in a world and one in the storage: the first will be stored.
Doubled ==
  \A w \in Worlds : Here(w) /\ Here(LOGOUT_STORAGE_MAP) =>
    AllGone /\ (w \in DOMAIN rearm \/ (Armed(w) /\ ~ Due.grace))
HomeIsWhere ==
  \A w \in Worlds : Here(w) => home = w \/ \E s \in Sessions : At(s, "moved")
ReturnsHome ==
  HasReturn(zone[LOGOUT_STORAGE_MAP]) /\ zone[LOGOUT_STORAGE_MAP].props.back.world = home
Returns ==
  Here(LOGOUT_STORAGE_MAP) => ReturnsHome \/ \E s \in Sessions : At(s, "fetching")

\* What a session knows is so.
Knows(s) ==
  /\ session[s].pc \in Homeward => session[s].world = home
  /\ session[s].pc \in Homeward \ {"finding"} =>
       Here(LOGOUT_STORAGE_MAP) /\ \A w \in Worlds : ~ Here(w)
  /\ session[s].pc = "unstoring" => session[s].props = zone[LOGOUT_STORAGE_MAP].props
  /\ session[s].pc \in Embodied => zone[session[s].world].place = session[s].place
  /\ session[s].pc \in Unmarked => PropsOf(session[s].world).pending = None
  /\ session[s].pc = "playing" => registry = [session |-> s, world |-> session[s].world]
Knowledge == \A s \in Sessions : Knows(s)

\* The reaper has nothing to do for a player, and is armed for one who leaves.
Attended(s) ==
  ~ Gone(s) =>
    /\ DOMAIN rearm = {} /\ ~ Awake
    /\ session[s].pc \notin Leaving => Idle
    /\ session[s].pc \in Leaving => Armed(session[s].world) /\ Due.grace
\* Nothing is asked of a timer that has expired, ...
TimerOK ==
  /\ Awake => inbox = <<>> /\ DOMAIN rearm = {}
  /\ timer # None /\ timer.pc = "written" =>
       zone[timer.addr.world].props = [pending |-> None, back |-> timer.addr]
\* ... and a restored world asks for the timer of a body it has.
RearmOK ==
  /\ DOMAIN rearm # {} => inbox = <<>> /\ timer = None
  /\ \A z \in DOMAIN rearm :
       z \in Worlds /\ Here(z) /\ rearm[z].op = "arm" /\ ~ rearm[z].grace /\ rearm[z].addr.world = z
ReaperOK ==
  /\ \A w \in Worlds : Armed(w) => Here(w)
  /\ \A s \in Sessions : Attended(s)
  /\ TimerOK /\ RearmOK

\* The zones a .save has copied miss nothing, and what it completed is whole.
SavingOK ==
  /\ DOMAIN saving \subseteq Worlds
  /\ Saving => \A s \in Sessions : ~ At(s, "fetching")
  /\ \A v \in DOMAIN saving :
       /\ CellOK(v, saving[v])
       /\ Here(v) => saving[v].place # None
       /\ saving[v].place # None =>
            /\ \A w \in Worlds : Here(w) => w = v
            /\ \A w \in DOMAIN saving : saving[w].place # None => w = v
DiskOK ==
  disk # None =>
    /\ \A z \in Zones : CellOK(z, disk.zone[z])
    /\ \E z \in Zones : disk.zone[z].place # None
    /\ \A v, w \in Worlds : disk.zone[v].place # None /\ disk.zone[w].place # None => v = w
    /\ disk.zone[LOGOUT_STORAGE_MAP].place # None => HasReturn(disk.zone[LOGOUT_STORAGE_MAP])

Typing == TypeOK /\ Read
Bodies == Cells /\ OneBody /\ Doubled /\ HomeIsWhere /\ Returns
IInv   == Typing /\ OneSession /\ Bodies /\ Knowledge /\ ReaperOK /\ SavingOK /\ DiskOK

-----------------------------------------------------------------------------
(* Type correctness.                                                       *)

LEMMA StorageIsNoWorld ==
  /\ LOGOUT_STORAGE_MAP \in Zones /\ LOGOUT_STORAGE_MAP \notin Worlds
  /\ \A w \in Worlds : w \in Zones /\ w \in Int /\ w < LOGOUT_STORAGE_MAP
BY LogoutAssumption DEF LOGOUT_STORAGE_MAP, Zones

LEMMA Stage ==
  ASSUME TypeOK, NEW s \in Sessions
  PROVE  /\ session[s] \in Stages /\ session[s].pc \in Pcs /\ session[s].world \in Worlds
         /\ session[s].place \in Places \cup {Bank, None}
         /\ session[s].props \in Props \cup {None}
BY DEF TypeOK, Stages

LEMMA CellTyped ==
  ASSUME TypeOK, NEW z \in Zones
  PROVE  /\ zone[z] \in Cell /\ zone[z].place \in Places \cup {Bank, None}
         /\ zone[z].props \in Props \cup {None} /\ PropsOf(z) \in Props
BY DEF TypeOK, Cell, PropsOf, Blank, Props

LEMMA Sets ==
  ASSUME TypeOK, NEW z \in Zones, NEW p \in Props \cup {None}, SetProps(z, p)
  PROVE  zone' \in [Zones -> Cell]
BY CellTyped DEF TypeOK, SetProps, Cell

LEMMA Transfers ==
  ASSUME TypeOK, NEW v \in Zones, NEW w \in Zones, NEW p \in Places \cup {Bank, None},
         Transfer(v, w, p)
  PROVE  zone' \in [Zones -> Cell]
BY CellTyped DEF TypeOK, Transfer, Cell, Empty

LEMMA Sends ==
  ASSUME TypeOK, NEW cmd \in Cmd, Send(cmd)
  PROVE  inbox' \in Seq(Cmd) /\ Len(inbox') <= InboxSize
<1>1. inbox \in Seq(Cmd) /\ Len(inbox) < InboxSize /\ InboxSize \in Nat
  BY LogoutAssumption DEF TypeOK, Send
<1>2. inbox' = Append(inbox, cmd)
  BY DEF Send
<1> QED  BY <1>1, <1>2, AppendProperties

\* An action that leaves the sequence of commands alone, and the rest typed.
LEMMA StageSet ==
  ASSUME TypeOK, NEW s \in Sessions, NEW new \in Stages, session' = [session EXCEPT ![s] = new]
  PROVE  /\ session' \in [Sessions -> Stages] /\ session'[s] = new
         /\ \A t \in Sessions : t # s => session'[t] = session[t]
BY DEF TypeOK

\* What Read promises of a session in stage x.
Reads(x) ==
  /\ x.pc \in Embodied \cup {"unstoring", "fetching"} => x.place # None
  /\ x.pc \in {"erasing", "writing"} => x.props # None

LEMMA OneStep ==
  ASSUME Typing, NEW s \in Sessions, NEW new \in Stages, Reads(new),
         session' = [session EXCEPT ![s] = new]
  PROVE  session' \in [Sessions -> Stages] /\ Read'
BY StageSet DEF Typing, Read, Reads

LEMMA TypeLogin ==
  ASSUME Typing, NEW s \in Sessions, Login(s)
  PROVE  Typing'
<1> DEFINE new == [session[s] EXCEPT !.pc = "finding", !.world = home]
<1>1. new \in Stages /\ Reads(new) /\ session' = [session EXCEPT ![s] = new]
  BY Stage DEF Login, Typing, TypeOK, Stages, Pcs, Reads, Embodied
<1>2. session' \in [Sessions -> Stages] /\ Read'
  BY <1>1, OneStep
<1>3. inbox' \in Seq(Cmd) /\ Len(inbox') <= InboxSize
  BY Sends DEF Login, Typing, Cancel, Cmd
<1> QED  BY <1>2, <1>3 DEF Login, Typing, TypeOK, server

LEMMA TypeFindLive ==
  ASSUME Typing, NEW s \in Sessions, FindLive(s)
  PROVE  Typing'
<1> DEFINE new == [session[s] EXCEPT
       !.pc = IF Here(session[s].world) THEN "unmarking" ELSE "searching",
       !.place = zone[session[s].world].place]
<1>1. session[s] \in Stages /\ session[s].world \in Zones
  BY Stage, StorageIsNoWorld DEF Typing
<1>2. new \in Stages /\ Reads(new)
  BY <1>1, CellTyped DEF Stages, Pcs, Reads, Embodied, Here, Typing
<1>3. session' = [session EXCEPT ![s] = new]
  BY DEF FindLive, Typing, TypeOK
<1> QED  BY <1>2, <1>3, OneStep DEF FindLive, Typing, TypeOK, server

LEMMA TypeReadMark ==
  ASSUME Typing, NEW s \in Sessions, ReadMark(s)
  PROVE  Typing'
<1> DEFINE p == PropsOf(session[s].world)
           new == [session[s] EXCEPT !.pc = IF p.pending # None THEN "erasing" ELSE "entering",
                                     !.props = p]
<1>1. session[s] \in Stages /\ p \in Props /\ p # None /\ Reads(session[s]) /\ session[s].pc = "unmarking"
  BY Stage, StorageIsNoWorld, CellTyped, LogoutAssumption DEF Typing, Read, Reads, ReadMark, At
<1>2. new \in Stages /\ Reads(new)
  BY <1>1 DEF Stages, Pcs, Reads, Embodied
<1>3. session' = [session EXCEPT ![s] = new]
  BY DEF ReadMark, Typing, TypeOK
<1> QED  BY <1>2, <1>3, OneStep DEF ReadMark, Typing, TypeOK, server

LEMMA GoesOn ==
  ASSUME Typing, NEW s \in Sessions, NEW pc \in Pcs, Goto(s, pc),
         Reads([session[s] EXCEPT !.pc = pc])
  PROVE  session' \in [Sessions -> Stages] /\ Read'
<1> DEFINE new == [session[s] EXCEPT !.pc = pc]
<1>1. new \in Stages /\ session' = [session EXCEPT ![s] = new]
  BY Stage DEF Goto, Typing, TypeOK, Stages
<1> QED  BY <1>1, OneStep

LEMMA TypeEraseMark ==
  ASSUME Typing, NEW s \in Sessions, EraseMark(s)
  PROVE  Typing'
<1>1. session[s] \in Stages /\ Reads(session[s]) /\ session[s].pc = "erasing" /\ session[s].world \in Zones
  BY Stage, StorageIsNoWorld DEF Typing, Read, Reads, EraseMark, At
<1>2. [session[s].props EXCEPT !.pending = None] \in Props
  BY <1>1 DEF Stages, Props, Reads
<1>3. zone' \in [Zones -> Cell]
  BY <1>1, <1>2, Sets DEF EraseMark, Typing
<1>4. session' \in [Sessions -> Stages] /\ Read'
  BY <1>1, GoesOn DEF EraseMark, Reads, Stages, Pcs, Embodied
<1> QED  BY <1>3, <1>4 DEF EraseMark, Typing, TypeOK, server

LEMMA TypeFallBack ==
  ASSUME Typing, NEW s \in Sessions, FallBack(s)
  PROVE  session' \in [Sessions -> Stages] /\ Read'
<1> DEFINE new == [pc |-> "entering", world |-> 0, place |-> Bank, props |-> None]
<1>1. new \in Stages /\ Reads(new)
  BY LogoutAssumption DEF Stages, Pcs, Reads, Embodied
<1> QED  BY <1>1, OneStep DEF FallBack

LEMMA TypeFindStored ==
  ASSUME Typing, NEW s \in Sessions, FindStored(s)
  PROVE  Typing'
<1>1. session' \in [Sessions -> Stages] /\ Read'
  <2>1. CASE ~ Here(LOGOUT_STORAGE_MAP)
    BY <2>1, TypeFallBack DEF FindStored
  <2>2. CASE Here(LOGOUT_STORAGE_MAP)
    <3> DEFINE p   == PropsOf(LOGOUT_STORAGE_MAP)
               to  == IF p.back # None THEN p.back ELSE [world |-> session[s].world, place |-> Bank]
               new == [pc |-> "unstoring", world |-> to.world, place |-> to.place,
                       props |-> zone[LOGOUT_STORAGE_MAP].props]
    <3>1. p \in Props /\ zone[LOGOUT_STORAGE_MAP].props \in Props \cup {None}
      BY CellTyped, StorageIsNoWorld DEF Typing
    <3>2. to \in Address
      BY <3>1, Stage DEF Props, Address, Typing
    <3>3. new \in Stages /\ Reads(new)
      BY <3>1, <3>2, LogoutAssumption DEF Stages, Pcs, Address, Reads, Embodied
    <3>4. session' = [session EXCEPT ![s] = new]
      BY <2>2 DEF FindStored
    <3> QED  BY <3>3, <3>4, OneStep
  <2> QED  BY <2>1, <2>2
<1> QED  BY <1>1 DEF FindStored, Typing, TypeOK, server

LEMMA TypeEraseReturn ==
  ASSUME Typing, NEW s \in Sessions, EraseReturn(s)
  PROVE  Typing'
<1>1. session[s] \in Stages /\ Reads(session[s]) /\ session[s].pc = "unstoring"
  BY Stage DEF Typing, Read, Reads, EraseReturn, At
<1>2. zone' \in [Zones -> Cell]
  <2>1. CASE session[s].props = None
    BY <2>1 DEF EraseReturn, Typing, TypeOK
  <2>2. CASE session[s].props # None
    <3>1. [session[s].props EXCEPT !.back = None] \in Props
      BY <1>1, <2>2 DEF Stages, Props
    <3> QED  BY <2>2, <3>1, Sets, StorageIsNoWorld DEF EraseReturn, Typing
  <2> QED  BY <2>1, <2>2
<1>3. session' \in [Sessions -> Stages] /\ Read'
  BY <1>1, GoesOn DEF EraseReturn, Reads, Stages, Pcs, Embodied
<1> QED  BY <1>2, <1>3 DEF EraseReturn, Typing, TypeOK, server

LEMMA TypeFetch ==
  ASSUME Typing, NEW s \in Sessions, Fetch(s)
  PROVE  Typing'
<1>1. session[s] \in Stages /\ Reads(session[s]) /\ session[s].pc = "fetching"
  BY Stage DEF Typing, Read, Reads, Fetch, At
<1>2. CASE Here(LOGOUT_STORAGE_MAP)
  <2>1. zone' \in [Zones -> Cell]
    BY <1>1, <1>2, Transfers, StorageIsNoWorld DEF Fetch, Typing, Stages
  <2>2. session' \in [Sessions -> Stages] /\ Read'
    BY <1>1, <1>2, GoesOn DEF Fetch, Reads, Stages, Pcs, Embodied
  <2> QED  BY <2>1, <2>2 DEF Fetch, Typing, TypeOK, server
<1>3. CASE ~ Here(LOGOUT_STORAGE_MAP)
  BY <1>3, TypeFallBack DEF Fetch, Typing, TypeOK, server
<1> QED  BY <1>2, <1>3

LEMMA TypeEnter ==
  ASSUME Typing, NEW s \in Sessions, Enter(s)
  PROVE  Typing'
<1>1. session[s] \in Stages /\ Reads(session[s]) /\ session[s].pc = "entering"
  BY Stage DEF Typing, Read, Reads, Enter, At
<1>2. session' \in [Sessions -> Stages] /\ Read'
  BY <1>1, GoesOn DEF Enter, Reads, Stages, Pcs, Embodied
<1> QED  BY <1>1, <1>2 DEF Enter, Typing, TypeOK, server, Observer, Stages

LEMMA TypeWalk ==
  ASSUME Typing, NEW s \in Sessions, NEW p \in Places, Walk(s, p)
  PROVE  Typing'
<1> DEFINE new == [session[s] EXCEPT !.place = p]
<1>1. session[s] \in Stages /\ Reads(session[s]) /\ session[s].pc = "playing" /\ session[s].world \in Zones
  BY Stage, StorageIsNoWorld DEF Typing, Read, Reads, Walk, At
<1>2. new \in Stages /\ Reads(new)
  BY <1>1, LogoutAssumption DEF Stages, Reads, Embodied
<1>3. session' = [session EXCEPT ![s] = new]
  BY DEF Walk, Typing, TypeOK
<1>4. zone' \in [Zones -> Cell]
  BY <1>1 DEF Walk, Typing, TypeOK, Cell
<1> QED  BY <1>2, <1>3, <1>4, OneStep DEF Walk, Typing, TypeOK, server

LEMMA TypeChangeWorld ==
  ASSUME Typing, NEW s \in Sessions, NEW w \in Worlds, ChangeWorld(s, w)
  PROVE  Typing'
<1> DEFINE new == [session[s] EXCEPT !.pc = "moved", !.world = w]
<1>1. /\ session[s] \in Stages /\ Reads(session[s]) /\ session[s].pc = "playing"
      /\ session[s].world \in Worlds /\ session[s].world \in Zones /\ w \in Zones
  BY Stage, StorageIsNoWorld DEF Typing, Read, Reads, ChangeWorld, At
<1>2. CASE Here(session[s].world)
  <2>1. zone' \in [Zones -> Cell]
    BY <1>1, <1>2, Transfers DEF ChangeWorld, Typing, Stages
  <2>2. new \in Stages /\ Reads(new)
    BY <1>1 DEF Stages, Pcs, Reads, Embodied
  <2>3. session' = [session EXCEPT ![s] = new]
    BY <1>2 DEF ChangeWorld, Typing, TypeOK
  <2> QED  BY <1>2, <2>1, <2>2, <2>3, OneStep DEF ChangeWorld, Typing, TypeOK, server
<1>3. CASE ~ Here(session[s].world)
  BY <1>1, <1>3 DEF ChangeWorld, Typing, TypeOK, server, Observer, Read
<1> QED  BY <1>2, <1>3

LEMMA TypeRecordWorld ==
  ASSUME Typing, NEW s \in Sessions, RecordWorld(s)
  PROVE  Typing'
<1>1. /\ session[s] \in Stages /\ Reads(session[s]) /\ session[s].pc = "moved"
      /\ session[s].world \in Worlds
  BY Stage DEF Typing, Read, Reads, RecordWorld, At
<1>2. session' \in [Sessions -> Stages] /\ Read'
  BY <1>1, GoesOn DEF RecordWorld, Reads, Stages, Pcs, Embodied
<1>3. disk' \in Saves \cup {None}
  BY <1>1 DEF RecordWorld, Typing, TypeOK, Saves
<1> QED  BY <1>1, <1>2, <1>3 DEF RecordWorld, Typing, TypeOK, Observer

LEMMA TypeSendFails ==
  ASSUME Typing, NEW s \in Sessions, SendFails(s)
  PROVE  Typing'
<1>1. session' \in [Sessions -> Stages] /\ Read'
  BY GoesOn DEF SendFails, Reads, Pcs, Embodied, Typing, TypeOK, Stages
<1> QED  BY <1>1 DEF SendFails, Typing, TypeOK, server

LEMMA TypeDisconnect ==
  ASSUME Typing, NEW s \in Sessions, Disconnect(s)
  PROVE  Typing'
<1> DEFINE pc == IF Here(session[s].world) THEN "arming" ELSE "off"
<1>1. session[s] \in Stages /\ Reads(session[s]) /\ session[s].pc = "playing"
  BY Stage DEF Typing, Read, Reads, Disconnect, At
<1>2. pc \in Pcs /\ Reads([session[s] EXCEPT !.pc = pc])
  BY <1>1 DEF Stages, Pcs, Reads, Embodied
<1>3. session' \in [Sessions -> Stages] /\ Read'
  BY <1>2, GoesOn DEF Disconnect
<1> QED  BY <1>3 DEF Disconnect, Typing, TypeOK, server

LEMMA TypeArmReaper ==
  ASSUME Typing, NEW s \in Sessions, ArmReaper(s)
  PROVE  Typing'
<1>1. session[s] \in Stages /\ Reads(session[s]) /\ session[s].pc = "arming"
  BY Stage DEF Typing, Read, Reads, ArmReaper, At
<1>2. Arm(session[s].world, session[s].place, TRUE) \in Cmd
  BY <1>1 DEF Arm, Cmd, Address, Stages, Reads, Embodied
<1>3. inbox' \in Seq(Cmd) /\ Len(inbox') <= InboxSize
  BY <1>2, Sends DEF ArmReaper, Typing
<1>4. session' \in [Sessions -> Stages] /\ Read'
  BY <1>1, GoesOn DEF ArmReaper, Reads, Stages, Pcs, Embodied
<1> QED  BY <1>3, <1>4 DEF ArmReaper, Typing, TypeOK, server

LEMMA TypeReadForMark ==
  ASSUME Typing, NEW s \in Sessions, ReadForMark(s)
  PROVE  Typing'
<1> DEFINE p == PropsOf(session[s].world)
           new == [session[s] EXCEPT !.pc = "writing", !.props = p]
<1>1. session[s] \in Stages /\ p \in Props /\ p # None /\ Reads(session[s]) /\ session[s].pc = "marking"
  BY Stage, StorageIsNoWorld, CellTyped, LogoutAssumption DEF Typing, Read, Reads, ReadForMark, At
<1>2. new \in Stages /\ Reads(new)
  BY <1>1 DEF Stages, Pcs, Reads, Embodied
<1>3. session' = [session EXCEPT ![s] = new]
  BY DEF ReadForMark, Typing, TypeOK
<1> QED  BY <1>2, <1>3, OneStep DEF ReadForMark, Typing, TypeOK, server

LEMMA TypeWriteMark ==
  ASSUME Typing, NEW s \in Sessions, WriteMark(s)
  PROVE  Typing'
<1> DEFINE mark == [world |-> session[s].world, place |-> session[s].place]
<1>1. session[s] \in Stages /\ Reads(session[s]) /\ session[s].pc = "writing" /\ session[s].world \in Zones
  BY Stage, StorageIsNoWorld DEF Typing, Read, Reads, WriteMark, At
<1>2. [session[s].props EXCEPT !.pending = mark] \in Props
  BY <1>1 DEF Stages, Props, Reads, Address, Embodied
<1>3. zone' \in [Zones -> Cell]
  BY <1>1, <1>2, Sets DEF WriteMark, Typing
<1>4. session' \in [Sessions -> Stages] /\ Read'
  BY <1>1, GoesOn DEF WriteMark, Reads, Stages, Pcs, Embodied
<1> QED  BY <1>3, <1>4 DEF WriteMark, Typing, TypeOK, server

LEMMA Takes ==
  ASSUME TypeOK, inbox # <<>>
  PROVE  /\ Head(inbox) \in Cmd /\ Tail(inbox) \in Seq(Cmd)
         /\ Len(Tail(inbox)) = Len(inbox) - 1 /\ Len(inbox) \in Nat \ {0}
         /\ Len(Tail(inbox)) <= InboxSize
<1>1. inbox \in Seq(Cmd) /\ Len(inbox) <= InboxSize /\ InboxSize \in Nat
  BY LogoutAssumption DEF TypeOK
<1> QED  BY <1>1, HeadTailProperties

LEMMA TypeTakeArm ==
  ASSUME Typing, TakeArm
  PROVE  Typing'
<1>1. inbox' \in Seq(Cmd) /\ Len(inbox') <= InboxSize /\ Head(inbox) \in Cmd /\ Head(inbox).op = "arm"
  BY Takes DEF TakeArm, Typing
<1>2. timer' \in Timers
  BY <1>1 DEF TakeArm, Cmd, Timers
<1> QED  BY <1>1, <1>2 DEF TakeArm, Typing, TypeOK, Read, server

LEMMA TypeTakeCancel ==
  ASSUME Typing, TakeCancel
  PROVE  Typing'
<1>1. inbox' \in Seq(Cmd) /\ Len(inbox') <= InboxSize
  BY Takes DEF TakeCancel, Typing
<1> QED  BY <1>1 DEF TakeCancel, Typing, TypeOK, Read, server

LEMMA TypeTimerEnds ==
  ASSUME Typing, TimerEnds
  PROVE  Typing'
<1>1. timer' \in Timers
  BY DEF TimerEnds, Typing, TypeOK, Timers
<1> QED  BY <1>1 DEF TimerEnds, Typing, TypeOK, Read, server

LEMMA TypeTimerSwaps ==
  ASSUME Typing, TimerSwaps
  PROVE  Typing'
<1>1. timer \in Timers /\ timer' \in Timers
  BY DEF TimerSwaps, Typing, TypeOK, Timers
<1>2. timer.addr \in Address /\ timer.addr.world \in Zones
  BY <1>1, StorageIsNoWorld DEF Timers, Address
<1>3. [pending |-> None, back |-> timer.addr] \in Props
  BY <1>2 DEF Props
<1>4. zone' \in [Zones -> Cell]
  BY <1>2, <1>3, Sets DEF TimerSwaps, Typing
<1> QED  BY <1>1, <1>4 DEF TimerSwaps, Typing, TypeOK, Read, server

LEMMA TypeTimerStores ==
  ASSUME Typing, TimerStores
  PROVE  Typing'
<1>1. timer \in Timers /\ timer.addr \in Address /\ timer.addr.world \in Zones
  BY StorageIsNoWorld DEF TimerStores, Typing, TypeOK, Timers, Address
<1>2. zone' \in [Zones -> Cell]
  <2>1. CASE Here(timer.addr.world)
    BY <1>1, <2>1, Transfers, StorageIsNoWorld DEF TimerStores, Typing
  <2>2. CASE ~ Here(timer.addr.world)
    BY <2>2 DEF TimerStores, Typing, TypeOK
  <2> QED  BY <2>1, <2>2
<1> QED  BY <1>2 DEF TimerStores, Typing, TypeOK, Read, server

LEMMA TypeSaveZone ==
  ASSUME Typing, SaveZone
  PROVE  Typing'
<1>1. PICK z \in Zones :
        LET copy == With(saving, z, zone[z])
        IN  IF DOMAIN copy = Zones
            THEN saving' = Nothing /\ disk' = [zone |-> copy, home |-> home]
            ELSE saving' = copy /\ disk' = disk
  BY DEF SaveZone
<1> DEFINE copy == With(saving, z, zone[z])
<1>2. DOMAIN copy \subseteq Zones /\ copy \in [DOMAIN copy -> Cell]
  BY CellTyped DEF With, Typing, TypeOK
<1>3. DOMAIN Nothing = {} /\ Nothing \in [DOMAIN Nothing -> Cell]
  BY DEF Nothing
<1> HIDE DEF copy
<1>4. CASE DOMAIN copy = Zones
  <2>1. saving' = Nothing /\ disk' = [zone |-> copy, home |-> home]
    BY <1>1, <1>4 DEF copy
  <2>2. disk' \in Saves
    BY <1>2, <1>4, <2>1 DEF Saves, Typing, TypeOK
  <2> QED  BY <1>3, <2>1, <2>2 DEF SaveZone, Typing, TypeOK, Read
<1>5. CASE DOMAIN copy # Zones
  <2>1. saving' = copy /\ disk' = disk
    BY <1>1, <1>5 DEF copy
  <2> QED  BY <1>2, <2>1 DEF SaveZone, Typing, TypeOK, Read
<1> QED  BY <1>4, <1>5

LEMMA TypeRestart ==
  ASSUME Typing, Restart
  PROVE  Typing'
<1>1. disk \in Saves
  BY DEF Restart, Typing, TypeOK
<1>2. zone' \in [Zones -> Cell] /\ home' \in Worlds
  BY <1>1 DEF Restart, Saves
<1>3. /\ inbox' \in Seq(Cmd) /\ Len(inbox') <= InboxSize
      /\ DOMAIN saving' = {} /\ saving' \in [DOMAIN saving' -> Cell]
  BY LogoutAssumption, EmptySeq DEF Restart, Nothing
<1>4. session' \in [Sessions -> Stages] /\ Read'
  BY Stage DEF Restart, Stages, Pcs, Read, Embodied, Typing, TypeOK
<1>5. \A z \in ToRearm : z \in Zones /\ Rearmed(z) \in Cmd
  <2> TAKE z \in ToRearm
  <2>1. z \in Zones /\ disk.zone[z] \in Cell
    BY <1>1 DEF ToRearm, Saves
  <2>2. CASE Marked(z)
    BY <2>1, <2>2 DEF Rearmed, Marked, Arm, Cmd, Cell, Props, Address
  <2>3. CASE ~ Marked(z)
    BY <2>1, <2>3 DEF ToRearm, Rearmed, Zones, Arm, Cmd, Cell, Address
  <2> QED  BY <2>2, <2>3
<1>6. DOMAIN rearm' \subseteq Zones /\ rearm' \in [DOMAIN rearm' -> Cmd]
  BY <1>5 DEF Restart
<1> QED  BY <1>2, <1>3, <1>4, <1>6 DEF Restart, Typing, TypeOK

LEMMA TypeRestoreTask ==
  ASSUME Typing, RestoreTask
  PROVE  Typing'
<1>1. PICK z \in Zones : z \in DOMAIN rearm /\ Send(rearm[z]) /\ rearm' = Without(rearm, z)
  BY DEF RestoreTask, Lowest
<1>2. rearm[z] \in Cmd
  BY <1>1 DEF Typing, TypeOK
<1>3. inbox' \in Seq(Cmd) /\ Len(inbox') <= InboxSize
  BY <1>1, <1>2, Sends DEF Typing
<1>4. DOMAIN rearm' \subseteq Zones /\ rearm' \in [DOMAIN rearm' -> Cmd]
  BY <1>1 DEF Without, Typing, TypeOK
<1> QED  BY <1>3, <1>4 DEF RestoreTask, Typing, TypeOK, Read

LEMMA TypeInit == Init => Typing
<1> SUFFICES ASSUME Init PROVE Typing
  OBVIOUS
<1>1. PICK s \in Sessions, w \in Worlds, p \in Places :
        /\ zone = [z \in Zones |-> IF z = w THEN [place |-> p, props |-> None] ELSE Empty]
        /\ home = w /\ registry = [session |-> s, world |-> w]
        /\ inbox = <<>> /\ timer = None /\ rearm = Nothing /\ saving = Nothing /\ disk = None
        /\ session = [t \in Sessions |->
             IF t = s THEN [pc |-> "playing", world |-> w, place |-> p, props |-> None]
                      ELSE [pc |-> "off", world |-> w, place |-> Bank, props |-> None]]
  BY DEF Init
<1>2. session \in [Sessions -> Stages] /\ Read
  BY <1>1, LogoutAssumption DEF Stages, Pcs, Read, Embodied
<1>3. zone \in [Zones -> Cell] /\ registry \in Observer
  BY <1>1 DEF Cell, Empty, Observer
<1>4. inbox \in Seq(Cmd) /\ Len(inbox) <= InboxSize
  BY <1>1, LogoutAssumption, EmptySeq
<1> QED  BY <1>1, <1>2, <1>3, <1>4 DEF Typing, TypeOK, Nothing

LEMMA TypeNext == Typing /\ [Next]_vars => Typing'
<1> SUFFICES ASSUME Typing, [Next]_vars PROVE Typing'
  OBVIOUS
<1>1. ASSUME NEW s \in Sessions, SessionStep(s) PROVE Typing'
  BY <1>1, TypeFindLive, TypeReadMark, TypeEraseMark, TypeFindStored, TypeEraseReturn, TypeFetch,
     TypeEnter, TypeRecordWorld, TypeArmReaper, TypeReadForMark, TypeWriteMark DEF SessionStep
<1>2. ASSUME NEW s \in Sessions, Player(s) PROVE Typing'
  BY <1>2, TypeLogin, TypeDisconnect, TypeSendFails, TypeWalk, TypeChangeWorld DEF Player
<1>3. CASE Reaper \/ Timer
  BY <1>3, TypeTakeArm, TypeTakeCancel, TypeTimerEnds, TypeTimerSwaps, TypeTimerStores DEF Reaper, Timer
<1>4. CASE UNCHANGED vars
  BY <1>4 DEF vars, Typing, TypeOK, Read
<1> QED  BY <1>1, <1>2, <1>3, <1>4, TypeSaveZone, TypeRestart, TypeRestoreTask DEF Next

\* Every variable keeps its type, whatever races happen: addresses name live
\* worlds, the channel keeps its capacity, and no session and no timer goes on
\* with props or a place it has not read (TypeOK of logout.rs, spawn.rs,
\* infra.rs, transfer.rs).
THEOREM LogoutTyped == Spec => []TypeOK
<1>1. Typing => TypeOK
  BY DEF Typing
<1> QED  BY <1>1, TypeInit, TypeNext, PTL DEF Spec
-----------------------------------------------------------------------------
(* The invariant is inductive where the races do not happen.               *)

\* What holds while a session is on.
LEMMA Active ==
  ASSUME IInv, NEW s \in Sessions, ~ Gone(s)
  PROVE  /\ \A t \in Sessions : Gone(t) <=> t # s
         /\ DOMAIN rearm = {} /\ ~ Awake /\ ~ AllGone
         /\ \A w \in Worlds : Here(w) => ~ Here(LOGOUT_STORAGE_MAP)
         /\ \A v, w \in Zones : Here(v) /\ Here(w) => v = w
         /\ session[s].pc \notin Leaving => Idle /\ \A w \in Worlds : ~ Armed(w)
         /\ session[s].pc \in Leaving => Armed(session[s].world) /\ Due.grace
         /\ \A w \in Worlds : Here(w) /\ session[s].pc # "moved" => home = w
         /\ Here(LOGOUT_STORAGE_MAP) /\ session[s].pc # "fetching" => ReturnsHome
         /\ Knows(s)
<1>1. \A t \in Sessions : Gone(t) <=> t # s
  BY DEF IInv, OneSession
<1>2. \A w \in Worlds : Here(w) => ~ Here(LOGOUT_STORAGE_MAP)
  BY DEF IInv, Bodies, Doubled, AllGone
<1>3. \A v, w \in Zones : Here(v) /\ Here(w) => v = w
  BY <1>2 DEF IInv, Bodies, OneBody, Zones
<1>4. /\ \A w \in Worlds : Here(w) /\ session[s].pc # "moved" => home = w
      /\ Here(LOGOUT_STORAGE_MAP) /\ session[s].pc # "fetching" => ReturnsHome
  BY <1>1 DEF IInv, Bodies, HomeIsWhere, Returns, At, Gone
<1> QED  BY <1>1, <1>2, <1>3, <1>4 DEF IInv, AllGone, ReaperOK, Attended, Knowledge, Armed

LEMMA SameReaper ==
  ASSUME inbox' = inbox, timer' = timer
  PROVE  /\ (Idle' <=> Idle) /\ Due' = Due /\ (Awake' <=> Awake)
         /\ \A w : Armed(w)' <=> Armed(w)
BY DEF Idle, Due, Awake, Armed

\* A session goes on.
LEMMA Continues ==
  ASSUME IInv, Typing', NEW s \in Sessions, ~ Gone(s), ~ Gone(s)',
         NEW new \in Stages, session' = [session EXCEPT ![s] = new],
         UNCHANGED <<inbox, timer, rearm>>,
         Bodies', SavingOK', DiskOK', Knows(s)',
         \A w \in Worlds : Armed(w) => Here(w)',
         new.pc \in Leaving <=> session[s].pc \in Leaving,
         new.pc \in Leaving => new.world = session[s].world
  PROVE  IInv'
<1>1. session'[s] = new /\ \A t \in Sessions : t # s => session'[t] = session[t]
  BY StageSet DEF IInv, Typing
<1>2. \A t \in Sessions : Gone(t)' <=> Gone(t)
  BY <1>1 DEF Gone
<1>3. OneSession'
  BY <1>2 DEF IInv, OneSession
<1>4. Knowledge'
  <2>1. ASSUME NEW t \in Sessions, t # s PROVE Knows(t)'
    BY <2>1, <1>1, Active DEF Knows, Gone, Homeward, Embodied, Unmarked
  <2> QED  BY <2>1 DEF Knowledge
<1>5. ReaperOK'
  <2>1. \A w \in Worlds : Armed(w)' => Here(w)'
    BY SameReaper DEF IInv, ReaperOK
  <2>2. Attended(s)'
    BY <1>1, Active, SameReaper DEF Attended
  <2>3. \A t \in Sessions : t # s => Attended(t)'
    BY <1>2, Active DEF Attended
  <2>4. TimerOK' /\ RearmOK'
    BY Active, SameReaper DEF TimerOK, RearmOK, Awake
  <2> QED  BY <2>1, <2>2, <2>3, <2>4 DEF ReaperOK
<1> QED  BY <1>3, <1>4, <1>5 DEF IInv

\* ... and the character stays in its zone.
LEMMA Onward ==
  ASSUME IInv, Typing', NEW s \in Sessions, ~ Gone(s), ~ Gone(s)',
         NEW new \in Stages, session' = [session EXCEPT ![s] = new],
         UNCHANGED <<home, inbox, timer, rearm, saving, disk>>,
         \A z \in Zones : Here(z)' <=> Here(z),
         Cells', Returns', Knows(s)',
         new.pc \in Leaving <=> session[s].pc \in Leaving,
         new.pc \in Leaving => new.world = session[s].world,
         session[s].pc # "moved", new.pc # "moved", new.pc = "fetching" => ~ Saving
  PROVE  IInv'
<1>1. session'[s] = new /\ \A t \in Sessions : t # s => session'[t] = session[t]
  BY StageSet DEF IInv, Typing
<1>2. OneBody' /\ Doubled'
  BY Active, StorageIsNoWorld DEF IInv, Bodies, OneBody, Doubled, Zones
<1>3. HomeIsWhere'
  BY <1>1, StorageIsNoWorld, Active DEF IInv, Bodies, HomeIsWhere, At, Gone
<1>4. SavingOK'
  BY <1>1, Active, StorageIsNoWorld DEF IInv, SavingOK, Saving, At, Gone
<1>5. DiskOK' /\ \A w \in Worlds : Armed(w) => Here(w)'
  BY StorageIsNoWorld DEF IInv, DiskOK, ReaperOK
<1> QED  BY <1>2, <1>3, <1>4, <1>5, Continues DEF Bodies

LEMMA SetsCell ==
  ASSUME Typing, NEW z \in Zones, NEW p \in Props, SetProps(z, p)
  PROVE  /\ zone'[z].place = zone[z].place /\ zone'[z].props = p /\ p # None
         /\ \A y \in Zones : y # z => zone'[y] = zone[y]
         /\ \A y \in Zones : Here(y)' <=> Here(y)
<1>1. zone'[z] = [zone[z] EXCEPT !.props = p] /\ \A y \in Zones : y # z => zone'[y] = zone[y]
  BY DEF SetProps, Typing, TypeOK
<1>2. zone[z] \in Cell /\ p # None
  BY CellTyped, LogoutAssumption DEF Typing
<1> QED  BY <1>1, <1>2 DEF Cell, Here

LEMMA SafeFindLive ==
  ASSUME IInv, Typing', NEW s \in Sessions, FindLive(s)
  PROVE  IInv'
<1> DEFINE new == [session[s] EXCEPT
       !.pc = IF Here(session[s].world) THEN "unmarking" ELSE "searching",
       !.place = zone[session[s].world].place]
<1>1. session[s].pc = "finding" /\ ~ Gone(s)
  BY DEF FindLive, At, Gone
<1>2. session[s] \in Stages /\ session[s].world = home /\ home \in Worlds
  BY <1>1, Stage, Active DEF IInv, Typing, TypeOK, Knows, Homeward
<1>3. new \in Stages /\ session' = [session EXCEPT ![s] = new] /\ session'[s] = new
  BY <1>2, CellTyped, StorageIsNoWorld DEF Stages, Pcs, FindLive, IInv, Typing, TypeOK
<1>4. ~ Here(home) => Here(LOGOUT_STORAGE_MAP) /\ \A w \in Worlds : ~ Here(w)
  BY <1>1, Active DEF IInv, Bodies, OneBody, Zones
<1>5. Knows(s)'
  <2>1. /\ session'[s].world = home /\ session'[s].place = zone[home].place
        /\ session'[s].pc = IF Here(home) THEN "unmarking" ELSE "searching"
    BY <1>2, <1>3 DEF Stages
  <2>2. zone' = zone /\ home' = home
    BY DEF FindLive
  <2> QED  BY <1>4, <2>1, <2>2 DEF Knows, Homeward, Embodied, Unmarked, Here
<1>6. Cells' /\ Returns' /\ \A z \in Zones : Here(z)' <=> Here(z)
  BY <1>1, Active DEF FindLive, IInv, Bodies, Cells, CellOK, Returns, ReturnsHome, HasReturn, Here
<1>7. new.pc \notin Leaving \cup {"moved", "fetching", "off", "cut off"}
  BY <1>2 DEF Leaving, Stages
<1> QED  BY <1>1, <1>3, <1>5, <1>6, <1>7, Onward DEF FindLive, server, Gone, Leaving

LEMMA SafeReadMark ==
  ASSUME IInv, Typing', NEW s \in Sessions, ReadMark(s)
  PROVE  IInv'
<1> DEFINE p   == PropsOf(session[s].world)
           new == [session[s] EXCEPT !.pc = IF p.pending # None THEN "erasing" ELSE "entering",
                                     !.props = p]
<1>1. session[s].pc = "unmarking" /\ ~ Gone(s) /\ session[s] \in Stages /\ session[s].world \in Worlds
  BY Stage DEF ReadMark, At, Gone, IInv, Typing
<1>2. p \in Props
  BY <1>1, CellTyped, StorageIsNoWorld DEF IInv, Typing
<1>3. new \in Stages /\ session' = [session EXCEPT ![s] = new] /\ session'[s] = new
  <2>1. session \in [Sessions -> Stages]
    BY DEF IInv, Typing, TypeOK
  <2>2. session' = [session EXCEPT ![s] = new]
    BY <2>1 DEF ReadMark
  <2>3. new \in Stages
    BY <1>1, <1>2 DEF Stages, Pcs
  <2> QED  BY <2>1, <2>2, <2>3
<1>4. Knows(s)'
  <2>1. /\ session'[s].world = session[s].world /\ session'[s].place = session[s].place
        /\ session'[s].pc = IF p.pending # None THEN "erasing" ELSE "entering"
    BY <1>1, <1>3 DEF Stages
  <2>2. zone' = zone /\ zone[session[s].world].place = session[s].place
    BY <1>1, Active DEF ReadMark, Knows, Embodied
  <2> QED  BY <2>1, <2>2 DEF Knows, Homeward, Embodied, Unmarked, PropsOf
<1>5. Cells' /\ Returns' /\ \A z \in Zones : Here(z)' <=> Here(z)
  BY <1>1, Active DEF ReadMark, IInv, Bodies, Cells, CellOK, Returns, ReturnsHome, HasReturn, Here
<1>6. new.pc \notin Leaving \cup {"moved", "fetching", "off", "cut off"}
  BY <1>1 DEF Leaving, Stages
<1> QED  BY <1>1, <1>3, <1>4, <1>5, <1>6, Onward DEF ReadMark, server, Gone, Leaving

LEMMA SafeEraseMark ==
  ASSUME IInv, Typing', NEW s \in Sessions, EraseMark(s)
  PROVE  IInv'
<1> DEFINE new == [session[s] EXCEPT !.pc = "entering"]
           w   == session[s].world
           p   == [session[s].props EXCEPT !.pending = None]
<1>1. /\ session[s].pc = "erasing" /\ ~ Gone(s) /\ session[s] \in Stages
      /\ w \in Worlds /\ w \in Zones
  BY Stage, StorageIsNoWorld DEF EraseMark, At, Gone, IInv, Typing
<1>2. p \in Props /\ p.pending = None
  BY <1>1 DEF IInv, Typing, Read, Stages, Props
<1>3. /\ new \in Stages /\ session' = [session EXCEPT ![s] = new] /\ session'[s] = new
      /\ new.pc = "entering" /\ new.world = w /\ new.place = session[s].place
  BY <1>1 DEF Stages, Pcs, EraseMark, Goto, IInv, Typing, TypeOK
<1>4. zone[w].place = session[s].place /\ session[s].place # None
  BY <1>1, Active DEF Knows, Embodied, IInv, Typing, Read
<1>5. /\ zone'[w].place = zone[w].place /\ zone'[w].props = p /\ p # None
      /\ \A y \in Zones : y # w => zone'[y] = zone[y]
      /\ \A y \in Zones : Here(y)' <=> Here(y)
  BY <1>1, <1>2, SetsCell DEF EraseMark, IInv
<1> HIDE DEF new, p, w
<1>6. Knows(s)'
  BY <1>2, <1>3, <1>4, <1>5 DEF Knows, Homeward, Embodied, Unmarked, PropsOf
<1>7. Cells'
  BY <1>2, <1>4, <1>5 DEF IInv, Bodies, Cells, CellOK
<1>8. Returns'
  BY <1>1, <1>5, Active, StorageIsNoWorld DEF EraseMark, Returns, ReturnsHome, HasReturn, Here
<1> QED  BY <1>1, <1>3, <1>5, <1>6, <1>7, <1>8, Onward DEF EraseMark, server, Gone, Leaving

LEMMA SafeFindStored ==
  ASSUME IInv, Typing', NEW s \in Sessions, FindStored(s)
  PROVE  IInv'
<1> DEFINE p   == PropsOf(LOGOUT_STORAGE_MAP)
           new == [pc |-> "unstoring", world |-> p.back.world, place |-> p.back.place,
                   props |-> zone[LOGOUT_STORAGE_MAP].props]
<1>1. session[s].pc = "searching" /\ ~ Gone(s)
  BY DEF FindStored, At, Gone
<1>2. /\ Here(LOGOUT_STORAGE_MAP) /\ \A w \in Worlds : ~ Here(w)
      /\ ReturnsHome
  BY <1>1, Active DEF Knows, Homeward
<1>3. p \in Props /\ p = zone[LOGOUT_STORAGE_MAP].props /\ p.back \in Address /\ p.back.world = home
  BY <1>2, CellTyped, StorageIsNoWorld DEF IInv, Typing, PropsOf, ReturnsHome, HasReturn, Props
<1>4. /\ new \in Stages /\ session' = [session EXCEPT ![s] = new] /\ session'[s] = new
      /\ new.pc = "unstoring" /\ new.world = home /\ new.props = zone[LOGOUT_STORAGE_MAP].props
  BY <1>2, <1>3 DEF Stages, Pcs, Address, FindStored, IInv, Typing, TypeOK, ReturnsHome, HasReturn
<1> HIDE DEF new
<1>5. zone' = zone /\ home' = home
  BY DEF FindStored
<1>6. Knows(s)'
  BY <1>2, <1>3, <1>4, <1>5 DEF Knows, Homeward, Embodied, Unmarked, Here
<1>7. Cells' /\ Returns' /\ \A z \in Zones : Here(z)' <=> Here(z)
  BY <1>2, <1>5 DEF IInv, Bodies, Cells, CellOK, Returns, ReturnsHome, HasReturn, Here
<1> QED  BY <1>1, <1>4, <1>6, <1>7, Onward DEF FindStored, server, Gone, Leaving

LEMMA SafeEraseReturn ==
  ASSUME Calm, IInv, Typing', NEW s \in Sessions, EraseReturn(s)
  PROVE  IInv'
<1> DEFINE new == [session[s] EXCEPT !.pc = "fetching"]
           p   == [session[s].props EXCEPT !.back = None]
           z   == LOGOUT_STORAGE_MAP
<1>1. session[s].pc = "unstoring" /\ ~ Gone(s) /\ session[s] \in Stages /\ ~ Saving
  BY Stage DEF EraseReturn, At, Gone, IInv, Typing, Calm, Allowed
<1>2. /\ Here(z) /\ \A w \in Worlds : ~ Here(w)
      /\ ReturnsHome /\ session[s].props = zone[z].props /\ session[s].world = home
      /\ session[s].props \in Props
  BY <1>1, Active, CellTyped, StorageIsNoWorld DEF Knows, Homeward, IInv, Typing, ReturnsHome, HasReturn
<1>3. p \in Props /\ p.pending = zone[z].props.pending /\ session[s].props # None
  BY <1>2, LogoutAssumption DEF Props
<1>4. /\ new \in Stages /\ session' = [session EXCEPT ![s] = new] /\ session'[s] = new
      /\ new.pc = "fetching" /\ new.world = home
  BY <1>1, <1>2 DEF Stages, Pcs, EraseReturn, Goto, IInv, Typing, TypeOK
<1>5. /\ zone'[z].place = zone[z].place /\ zone'[z].props = p /\ p # None
      /\ \A y \in Zones : y # z => zone'[y] = zone[y]
      /\ \A y \in Zones : Here(y)' <=> Here(y)
  BY <1>3, SetsCell, StorageIsNoWorld DEF EraseReturn, IInv
<1> HIDE DEF new, p, z
<1>6. Knows(s)'
  BY <1>2, <1>4, <1>5, StorageIsNoWorld DEF EraseReturn, Knows, Homeward, Embodied, Unmarked, z
<1>7. Cells'
  BY <1>2, <1>3, <1>5, StorageIsNoWorld DEF IInv, Bodies, Cells, CellOK, Here, z
<1>8. Returns'
  BY <1>4 DEF Returns, At
<1> QED  BY <1>1, <1>4, <1>5, <1>6, <1>7, <1>8, Onward DEF EraseReturn, server, Gone, Leaving

LEMMA SafeEnter ==
  ASSUME IInv, Typing', NEW s \in Sessions, Enter(s)
  PROVE  IInv'
<1> DEFINE new == [session[s] EXCEPT !.pc = "playing"]
<1>1. session[s].pc = "entering" /\ ~ Gone(s) /\ session[s] \in Stages
  BY Stage DEF Enter, At, Gone, IInv, Typing
<1>2. /\ new \in Stages /\ session' = [session EXCEPT ![s] = new] /\ session'[s] = new
      /\ new.pc = "playing" /\ new.world = session[s].world /\ new.place = session[s].place
  BY <1>1 DEF Stages, Pcs, Enter, Goto, IInv, Typing, TypeOK
<1> HIDE DEF new
<1>3. zone' = zone /\ home' = home /\ registry' = [session |-> s, world |-> session[s].world]
  BY DEF Enter
<1>4. Knows(s)'
  BY <1>1, <1>2, <1>3, Active DEF Knows, Homeward, Embodied, Unmarked, PropsOf
<1>5. Cells' /\ Returns' /\ \A z \in Zones : Here(z)' <=> Here(z)
  BY <1>1, <1>3, Active DEF IInv, Bodies, Cells, CellOK, Returns, ReturnsHome, HasReturn, Here
<1> QED  BY <1>1, <1>2, <1>4, <1>5, Onward DEF Enter, server, Gone, Leaving

LEMMA SafeWalk ==
  ASSUME IInv, Typing', NEW s \in Sessions, NEW p \in Places, Walk(s, p)
  PROVE  IInv'
<1> DEFINE new == [session[s] EXCEPT !.place = p]
           w   == session[s].world
<1>1. /\ session[s].pc = "playing" /\ ~ Gone(s) /\ session[s] \in Stages
      /\ w \in Worlds /\ w \in Zones /\ zone[w] \in Cell /\ p # None
  BY Stage, StorageIsNoWorld, CellTyped, LogoutAssumption DEF Walk, At, Gone, IInv, Typing
<1>2. /\ new \in Stages /\ session' = [session EXCEPT ![s] = new] /\ session'[s] = new
      /\ new.pc = "playing" /\ new.world = w /\ new.place = p
  BY <1>1 DEF Stages, Walk, IInv, Typing, TypeOK
<1>3. /\ zone'[w] = [zone[w] EXCEPT !.place = p]
      /\ \A z \in Zones : z # w => zone'[z] = zone[z]
  BY <1>1 DEF Walk, IInv, Typing, TypeOK
<1>4. zone'[w].place = p /\ zone'[w].props = zone[w].props
  BY <1>1, <1>3 DEF Cell
<1> HIDE DEF new, w
<1>5. \A z \in Zones : Here(z)' <=> Here(z)
  BY <1>1, <1>3, <1>4 DEF Walk, Here, w
<1>6. /\ PropsOf(w).pending = None /\ registry = [session |-> s, world |-> w]
      /\ home' = home /\ registry' = registry
  BY <1>1, Active DEF Knows, Unmarked, w, Walk
<1>7. Knows(s)'
  BY <1>1, <1>2, <1>4, <1>6, Active DEF Knows, Homeward, Embodied, Unmarked, PropsOf
<1>8. Cells'
  BY <1>1, <1>3, <1>4, <1>6 DEF IInv, Bodies, Cells, CellOK, PropsOf
<1>9. Returns'
  BY <1>1, <1>3, <1>6, Active, StorageIsNoWorld DEF Returns, ReturnsHome, HasReturn, Here
<1> QED  BY <1>1, <1>2, <1>5, <1>7, <1>8, <1>9, Onward DEF Walk, server, Gone, Leaving

LEMMA SafeReadForMark ==
  ASSUME IInv, Typing', NEW s \in Sessions, ReadForMark(s)
  PROVE  IInv'
<1> DEFINE p   == PropsOf(session[s].world)
           new == [session[s] EXCEPT !.pc = "writing", !.props = p]
<1>1. session[s].pc = "marking" /\ ~ Gone(s) /\ session[s] \in Stages /\ session[s].world \in Worlds
  BY Stage DEF ReadForMark, At, Gone, IInv, Typing
<1>2. p \in Props
  BY <1>1, CellTyped, StorageIsNoWorld DEF IInv, Typing
<1>3. /\ new \in Stages /\ session' = [session EXCEPT ![s] = new] /\ session'[s] = new
      /\ new.pc = "writing" /\ new.world = session[s].world /\ new.place = session[s].place
  BY <1>1, <1>2 DEF Stages, Pcs, ReadForMark, IInv, Typing, TypeOK
<1> HIDE DEF new
<1>4. zone' = zone /\ home' = home
  BY DEF ReadForMark
<1>5. Knows(s)'
  BY <1>1, <1>3, <1>4, Active DEF Knows, Homeward, Embodied, Unmarked, PropsOf
<1>6. Cells' /\ Returns' /\ \A z \in Zones : Here(z)' <=> Here(z)
  BY <1>1, <1>4, Active DEF IInv, Bodies, Cells, CellOK, Returns, ReturnsHome, HasReturn, Here
<1> QED  BY <1>1, <1>3, <1>5, <1>6, Onward DEF ReadForMark, server, Gone, Leaving

\* A session ends, and the character stays in its zone.
LEMMA Ends ==
  ASSUME IInv, Typing', NEW s \in Sessions, ~ Gone(s), Gone(s)', NEW pc \in Pcs, Goto(s, pc),
         UNCHANGED <<home, inbox, timer, rearm, saving, disk>>,
         \A z \in Zones : Here(z)' <=> Here(z),
         Cells', Returns', session[s].pc # "moved"
  PROVE  IInv'
<1>1. \A t \in Sessions : session'[t].pc \in {"off", "cut off"} /\ Gone(t)'
  BY Active DEF Goto, Gone, IInv, Typing, TypeOK
<1>2. OneSession' /\ Knowledge'
  BY <1>1 DEF OneSession, Knowledge, Knows, Homeward, Embodied, Unmarked
<1>3. OneBody' /\ Doubled' /\ HomeIsWhere'
  BY Active, StorageIsNoWorld DEF IInv, Bodies, OneBody, Doubled, HomeIsWhere, Zones
<1>4. ReaperOK'
  <2>1. \A w \in Worlds : Armed(w)' => Here(w)'
    BY SameReaper, StorageIsNoWorld DEF IInv, ReaperOK
  <2>2. \A t \in Sessions : Attended(t)'
    BY <1>1 DEF Attended
  <2>3. TimerOK' /\ RearmOK'
    BY Active, SameReaper DEF TimerOK, RearmOK, Awake
  <2> QED  BY <2>1, <2>2, <2>3 DEF ReaperOK
<1>5. SavingOK'
  BY <1>1, StorageIsNoWorld DEF IInv, SavingOK, Saving, At
<1> QED  BY <1>2, <1>3, <1>4, <1>5 DEF IInv, Bodies, DiskOK

LEMMA SafeSendFails ==
  ASSUME Calm, IInv, Typing', NEW s \in Sessions, SendFails(s)
  PROVE  IInv'
<1>1. session[s].pc \in {"entering", "playing"} /\ ~ Gone(s) /\ "cut off" \in Pcs
  BY DEF SendFails, At, Gone, Calm, Allowed, Pcs
<1>2. zone' = zone /\ home' = home
  BY DEF SendFails
<1>3. Cells' /\ Returns' /\ \A z \in Zones : Here(z)' <=> Here(z)
  BY <1>1, <1>2, Active DEF IInv, Bodies, Cells, CellOK, Returns, ReturnsHome, HasReturn, Here
<1>4. Gone(s)'
  BY Stage DEF SendFails, Goto, Gone, IInv, Typing, TypeOK, Stages
<1> QED  BY <1>1, <1>3, <1>4, Ends DEF SendFails, server

LEMMA SafeWriteMark ==
  ASSUME IInv, Typing', NEW s \in Sessions, WriteMark(s)
  PROVE  IInv'
<1> DEFINE w    == session[s].world
           mark == [world |-> w, place |-> session[s].place]
           p    == [session[s].props EXCEPT !.pending = mark]
<1>1. /\ session[s].pc = "writing" /\ ~ Gone(s) /\ session[s] \in Stages /\ "off" \in Pcs
      /\ w \in Worlds /\ w \in Zones
  BY Stage, StorageIsNoWorld DEF WriteMark, At, Gone, Pcs, IInv, Typing
<1>2. zone[w].place = session[s].place /\ session[s].place # None /\ session[s].props # None
  BY <1>1, Active DEF Knows, Embodied, IInv, Typing, Read
<1>3. p \in Props /\ p.pending = [world |-> w, place |-> zone[w].place]
  BY <1>1, <1>2 DEF Stages, Props, Address
<1>4. /\ zone'[w].place = zone[w].place /\ zone'[w].props = p /\ p # None
      /\ \A y \in Zones : y # w => zone'[y] = zone[y]
      /\ \A y \in Zones : Here(y)' <=> Here(y)
  BY <1>1, <1>3, SetsCell DEF WriteMark, IInv
<1> HIDE DEF w, mark, p
<1>5. Cells'
  BY <1>2, <1>3, <1>4 DEF IInv, Bodies, Cells, CellOK
<1>6. Returns'
  BY <1>1, <1>4, Active, StorageIsNoWorld DEF WriteMark, Returns, ReturnsHome, HasReturn, Here
<1>7. Gone(s)'
  BY DEF WriteMark, Goto, Gone, IInv, Typing, TypeOK
<1> QED  BY <1>1, <1>4, <1>5, <1>6, <1>7, Ends DEF WriteMark, server

LEMMA SafeDisconnect ==
  ASSUME IInv, Typing', NEW s \in Sessions, Disconnect(s)
  PROVE  IInv'
<1> DEFINE new == [session[s] EXCEPT !.pc = "arming"]
<1>1. session[s].pc = "playing" /\ ~ Gone(s) /\ session[s] \in Stages /\ session[s].place # None
  BY Stage DEF Disconnect, At, Gone, IInv, Typing, Read, Embodied
<1>2. Here(session[s].world)
  BY <1>1, Active DEF Knows, Embodied, Here
<1>3. /\ new \in Stages /\ session' = [session EXCEPT ![s] = new] /\ session'[s] = new
      /\ new.pc = "arming" /\ new.world = session[s].world /\ new.place = session[s].place
  BY <1>1, <1>2 DEF Stages, Pcs, Disconnect, Goto, IInv, Typing, TypeOK
<1> HIDE DEF new
<1>4. zone' = zone /\ home' = home
  BY DEF Disconnect
<1>5. Knows(s)'
  BY <1>1, <1>3, <1>4, Active DEF Knows, Homeward, Embodied, Unmarked, PropsOf
<1>6. Cells' /\ Returns' /\ \A z \in Zones : Here(z)' <=> Here(z)
  BY <1>1, <1>4, Active DEF IInv, Bodies, Cells, CellOK, Returns, ReturnsHome, HasReturn, Here
<1> QED  BY <1>1, <1>3, <1>5, <1>6, Onward DEF Disconnect, server, Gone, Leaving

LEMMA TransfersCell ==
  ASSUME Typing, NEW v \in Zones, NEW w \in Zones, v # w, NEW p \in Places \cup {Bank, None},
         Transfer(v, w, p), zone[w].props = None
  PROVE  /\ zone'[v].place = None /\ zone'[v].props = None
         /\ zone'[w].place = p /\ zone'[w].props = zone[v].props
         /\ \A y \in Zones \ {v, w} : zone'[y] = zone[y]
BY DEF Transfer, Typing, TypeOK, Empty

\* ... or is taken to another world.
LEMMA Moves ==
  ASSUME IInv, Typing', NEW s \in Sessions, ~ Gone(s),
         NEW new \in Stages, session' = [session EXCEPT ![s] = new],
         UNCHANGED <<home, inbox, timer, rearm, saving, disk>>, ~ Saving,
         NEW v \in Zones, NEW w \in Worlds, v # w, Here(v), PropsOf(v).pending = None,
         Transfer(v, w, new.place), new.place # None, new.world = w,
         session[s].pc \notin Leaving, new.pc \in {"moved", "entering"}, new.pc = "entering" => home = w
  PROVE  IInv'
<1>1. session'[s] = new /\ \A t \in Sessions : t # s => session'[t] = session[t]
  BY StageSet DEF IInv, Typing
<1>2. w \in Zones /\ ~ Here(w) /\ zone[w].props = None
  BY Active, StorageIsNoWorld DEF IInv, Bodies, Cells, CellOK, Here
<1>3. /\ zone'[v].place = None /\ zone'[v].props = None
      /\ zone'[w].place = new.place /\ zone'[w].props = zone[v].props
      /\ \A y \in Zones \ {v, w} : zone'[y] = zone[y]
  BY <1>2, TransfersCell DEF IInv, Stages
<1>4. \A y \in Zones : Here(y)' <=> y = w
  BY <1>2, <1>3, Active DEF Here
<1>5. Cells'
  BY <1>2, <1>3 DEF IInv, Bodies, Cells, CellOK, PropsOf
<1>6. OneBody' /\ Doubled' /\ Returns'
  BY <1>2, <1>4, StorageIsNoWorld DEF OneBody, Doubled, Returns
<1>7. HomeIsWhere'
  BY <1>1, <1>4, StorageIsNoWorld DEF HomeIsWhere, At
<1>8. Knows(s)'
  BY <1>1, <1>3 DEF Knows, Homeward, Embodied, Unmarked, PropsOf, Blank
<1>9. SavingOK' /\ DiskOK'
  BY DEF IInv, SavingOK, DiskOK, Saving
<1>10. \A x \in Worlds : ~ Armed(x)
  BY Active
<1> QED  BY <1>1, <1>5, <1>6, <1>7, <1>8, <1>9, <1>10, Continues DEF Bodies, Gone, Leaving

LEMMA SafeFetch ==
  ASSUME IInv, Typing', NEW s \in Sessions, Fetch(s)
  PROVE  IInv'
<1> DEFINE new == [session[s] EXCEPT !.pc = "entering"]
           z   == LOGOUT_STORAGE_MAP
<1>1. session[s].pc = "fetching" /\ ~ Gone(s) /\ session[s] \in Stages /\ session[s].place # None
  BY Stage DEF Fetch, At, Gone, IInv, Typing, Read
<1>2. Here(z) /\ session[s].world = home /\ home \in Worlds
  BY <1>1, Active DEF Knows, Homeward, IInv, Typing, TypeOK
<1>3. /\ new \in Stages /\ session' = [session EXCEPT ![s] = new] /\ new.pc = "entering"
      /\ new.world = home /\ new.place = session[s].place
  BY <1>1, <1>2 DEF Stages, Pcs, Fetch, Goto, IInv, Typing, TypeOK
<1>4. ~ Saving
  BY <1>1 DEF IInv, SavingOK, At
<1>5. PropsOf(z).pending = None
  <2>1. zone[z].props # None => zone[z].props.pending \in {None, [world |-> z, place |-> zone[z].place]}
    BY StorageIsNoWorld DEF IInv, Bodies, Cells, CellOK
  <2>2. zone[z].props # None /\ zone[z].props.pending # None => zone[z].props.pending.world \in Worlds
    BY CellTyped, StorageIsNoWorld DEF IInv, Typing, Props, Address
  <2> QED  BY <2>1, <2>2, StorageIsNoWorld DEF PropsOf, Blank
<1>6. Transfer(z, home, new.place)
  BY <1>2, <1>3 DEF Fetch
<1> HIDE DEF new
<1> QED  BY <1>1, <1>2, <1>3, <1>4, <1>5, <1>6, Moves, StorageIsNoWorld DEF Fetch, server, Leaving

LEMMA SafeChangeWorld ==
  ASSUME Calm, IInv, Typing', NEW s \in Sessions, NEW w \in Worlds, ChangeWorld(s, w)
  PROVE  IInv'
<1> DEFINE new == [session[s] EXCEPT !.pc = "moved", !.world = w]
           v   == session[s].world
<1>1. /\ session[s].pc = "playing" /\ ~ Gone(s) /\ session[s] \in Stages /\ session[s].place # None
      /\ v \in Zones /\ v # w /\ ~ Saving
  BY Stage, StorageIsNoWorld
  DEF ChangeWorld, At, Gone, IInv, Typing, Read, Embodied, Calm, Allowed
<1>2. Here(v) /\ PropsOf(v).pending = None
  BY <1>1, Active DEF Knows, Embodied, Unmarked, Here
<1>3. /\ new \in Stages /\ session' = [session EXCEPT ![s] = new] /\ new.pc = "moved"
      /\ new.world = w /\ new.place = session[s].place
  BY <1>1, <1>2 DEF Stages, Pcs, ChangeWorld, IInv, Typing, TypeOK
<1>4. Transfer(v, w, new.place)
  BY <1>2, <1>3 DEF ChangeWorld
<1> HIDE DEF new, v
<1> QED  BY <1>1, <1>2, <1>3, <1>4, Moves DEF ChangeWorld, server, Leaving

LEMMA SafeRecordWorld ==
  ASSUME IInv, Typing', NEW s \in Sessions, RecordWorld(s)
  PROVE  IInv'
<1> DEFINE new == [session[s] EXCEPT !.pc = "playing"]
           w   == session[s].world
<1>1. /\ session[s].pc = "moved" /\ ~ Gone(s) /\ session[s] \in Stages /\ session[s].place # None
      /\ w \in Worlds
  BY Stage DEF RecordWorld, At, Gone, IInv, Typing, Read, Embodied
<1>2. /\ new \in Stages /\ session' = [session EXCEPT ![s] = new] /\ session'[s] = new
      /\ new.pc = "playing" /\ new.world = w /\ new.place = session[s].place
  BY <1>1 DEF Stages, Pcs, RecordWorld, Goto, IInv, Typing, TypeOK
<1> HIDE DEF new
<1>3. /\ zone' = zone /\ home' = w /\ registry' = [session |-> s, world |-> w]
      /\ saving' = saving /\ inbox' = inbox /\ timer' = timer /\ rearm' = rearm
  BY DEF RecordWorld
<1>4. /\ zone[w].place = session[s].place /\ PropsOf(w).pending = None /\ Here(w)
  BY <1>1, Active DEF Knows, Embodied, Unmarked, Here
<1>5. \A y \in Zones : (Here(y)' <=> Here(y)) /\ (Here(y) <=> y = w)
  BY <1>1, <1>3, <1>4, Active, StorageIsNoWorld DEF Here
<1>6. Cells'
  BY <1>3 DEF IInv, Bodies, Cells, CellOK
<1>7. OneBody' /\ Doubled' /\ HomeIsWhere' /\ Returns'
  BY <1>1, <1>3, <1>5, StorageIsNoWorld DEF OneBody, Doubled, HomeIsWhere, Returns
<1>8. Knows(s)'
  BY <1>2, <1>3, <1>4 DEF Knows, Homeward, Embodied, Unmarked, PropsOf
<1>9. SavingOK'
  <2>1. \A t \in Sessions : At(t, "fetching")' <=> At(t, "fetching")
    BY <1>1, <1>2, StageSet DEF At, IInv, Typing
  <2> QED  BY <1>3, <1>5, <2>1, StorageIsNoWorld DEF IInv, SavingOK, Saving
<1>10. DiskOK'
  <2>1. CASE disk = None
    BY <2>1 DEF RecordWorld, DiskOK
  <2>2. CASE disk # None
    <3>1. disk'.zone = disk.zone
      BY <2>2 DEF RecordWorld, IInv, Typing, TypeOK, Saves
    <3> QED  BY <2>2, <3>1 DEF IInv, DiskOK
  <2> QED  BY <2>1, <2>2
<1>11. \A x \in Worlds : ~ Armed(x)
  BY <1>1, Active DEF Leaving
<1> QED  BY <1>1, <1>2, <1>3, <1>6, <1>7, <1>8, <1>9, <1>10, <1>11, Continues DEF Bodies, Gone, Leaving

\* A command that is sent is the last the reaper will take.
LEMMA SendsLast ==
  ASSUME TypeOK, NEW cmd \in Cmd, Send(cmd)
  PROVE  inbox' # <<>> /\ (Idle' <=> cmd.op = "cancel") /\ Due' = cmd
<1>1. inbox \in Seq(Cmd) /\ inbox' = Append(inbox, cmd)
  BY DEF TypeOK, Send
<1>2. Len(inbox') = Len(inbox) + 1 /\ inbox'[Len(inbox')] = cmd /\ Len(inbox) \in Nat
  BY <1>1, AppendProperties
<1>3. inbox' # <<>>
  BY <1>2
<1> QED  BY <1>2, <1>3 DEF Idle, Due

LEMMA SafeArmReaper ==
  ASSUME IInv, Typing', NEW s \in Sessions, ArmReaper(s)
  PROVE  IInv'
<1> DEFINE new == [session[s] EXCEPT !.pc = "marking"]
           w   == session[s].world
           cmd == Arm(w, session[s].place, TRUE)
<1>1. /\ session[s].pc = "arming" /\ ~ Gone(s) /\ session[s] \in Stages /\ session[s].place # None
      /\ w \in Worlds
  BY Stage DEF ArmReaper, At, Gone, IInv, Typing, Read, Embodied
<1>2. /\ new \in Stages /\ session' = [session EXCEPT ![s] = new] /\ session'[s] = new
      /\ new.pc = "marking" /\ new.world = w /\ new.place = session[s].place
  BY <1>1 DEF Stages, Pcs, ArmReaper, Goto, IInv, Typing, TypeOK
<1>3. cmd \in Cmd /\ cmd.op = "arm" /\ cmd.grace = TRUE /\ cmd.addr.world = w
  BY <1>1 DEF Arm, Cmd, Address, Stages
<1>4. ~ Idle' /\ Due' = cmd
  BY <1>3, SendsLast DEF ArmReaper, IInv, Typing
<1> HIDE DEF new, cmd
<1>5. zone' = zone /\ home' = home /\ timer' = timer /\ rearm' = rearm /\ saving' = saving /\ disk' = disk
  BY DEF ArmReaper, server
<1>6. /\ \A t \in Sessions : t # s => session'[t] = session[t]
      /\ \A t \in Sessions : Gone(t)' <=> Gone(t)
      /\ \A t \in Sessions : At(t, "moved")' <=> At(t, "moved")
      /\ \A t \in Sessions : At(t, "fetching")' <=> At(t, "fetching")
  BY <1>1, <1>2, StageSet DEF Gone, At, IInv, Typing
<1>7. Knows(s)'
  BY <1>1, <1>2, <1>5, Active DEF Knows, Homeward, Embodied, Unmarked, PropsOf
<1>8. Knowledge'
  <2>1. ASSUME NEW t \in Sessions, t # s PROVE Knows(t)'
    <3>1. session'[t].pc \in {"off", "cut off"}
      BY <2>1, <1>1, <1>6, Active DEF Gone
    <3> QED  BY <3>1 DEF Knows, Homeward, Embodied, Unmarked
  <2> QED  BY <1>7, <2>1 DEF Knowledge
<1>9. zone'[w].place # None
  BY <1>1, <1>5, Active DEF Knows, Embodied, Here
<1>10. ReaperOK'
  <2>1. ASSUME NEW x \in Worlds, Armed(x)' PROVE Here(x)'
    <3>1. x = w
      BY <2>1, <1>3, <1>4 DEF Armed
    <3> QED  BY <3>1, <1>9 DEF Here
  <2>2. Attended(s)'
    BY <1>1, <1>2, <1>3, <1>4, <1>5, Active DEF Attended, Armed, Leaving, Awake
  <2>3. \A t \in Sessions : t # s => Attended(t)'
    BY <1>1, <1>6, Active DEF Attended
  <2>4. TimerOK' /\ RearmOK'
    BY <1>1, <1>5, Active DEF TimerOK, RearmOK, Awake
  <2> QED  BY <2>1, <2>2, <2>3, <2>4 DEF ReaperOK
<1>11. OneSession'
  BY <1>6 DEF OneSession, IInv
<1>12. Cells' /\ OneBody' /\ HomeIsWhere' /\ Returns'
  BY <1>5, <1>6 DEF IInv, Bodies, Cells, CellOK, OneBody, HomeIsWhere, Returns, ReturnsHome, HasReturn, Here
<1>13. Doubled'
  BY <1>1, <1>5, Active DEF Doubled, Here
<1>14. SavingOK' /\ DiskOK'
  BY <1>5, <1>6 DEF IInv, SavingOK, Saving, DiskOK, Here
<1> QED  BY <1>8, <1>10, <1>11, <1>12, <1>13, <1>14 DEF IInv, Bodies

LEMMA SafeLogin ==
  ASSUME Calm, IInv, Typing', NEW s \in Sessions, Login(s)
  PROVE  IInv'
<1> DEFINE new == [session[s] EXCEPT !.pc = "finding", !.world = home]
<1>1. /\ AllGone /\ ~ Awake /\ ~ Restoring
      /\ zone' = zone /\ home' = home /\ timer' = timer /\ rearm' = rearm /\ saving' = saving /\ disk' = disk
  BY DEF Login, Calm, Allowed, AllGone, server
<1>2. /\ session' = [session EXCEPT ![s] = new] /\ session'[s] = new
      /\ new.pc = "finding" /\ new.world = home
  BY Stage DEF Login, IInv, Typing, TypeOK, Stages
<1> HIDE DEF new
<1>3. /\ \A t \in Sessions : t # s => session'[t] = session[t]
      /\ \A t \in Sessions : t # s => Gone(t)'
      /\ \A t \in Sessions : At(t, "moved")' <=> At(t, "moved")
      /\ \A t \in Sessions : At(t, "fetching")' <=> At(t, "fetching")
  BY <1>1, <1>2 DEF Gone, AllGone, At, IInv, Typing, TypeOK
<1>4. Idle' /\ DOMAIN rearm' = {} /\ ~ Awake'
  <2>1. Cancel \in Cmd /\ Cancel.op = "cancel"
    BY DEF Cancel, Cmd
  <2> QED  BY <1>1, <2>1, SendsLast DEF Login, IInv, Typing, Restoring, Awake
<1>5. \A w \in Worlds : Here(w) => ~ Here(LOGOUT_STORAGE_MAP)
  <2>1. ~ Idle => Due.grace
    <3>1. CASE inbox = <<>>
      BY <1>1, <3>1 DEF Idle, Due, Restoring, IInv, Typing, TypeOK, Timers
    <3>2. CASE inbox # <<>>
      <4>1. Len(inbox) \in DOMAIN inbox /\ inbox[Len(inbox)] \in Cmd
        BY <3>2, Takes, LenProperties, ElementOfSeq DEF IInv, Typing, TypeOK
      <4>2. inbox[Len(inbox)].op \in {"cancel", "arm"}
        BY <4>1 DEF Cmd
      <4>3. inbox[Len(inbox)].op = "arm" => inbox[Len(inbox)].grace
        BY <1>1, <4>1 DEF Restoring
      <4> QED  BY <3>2, <4>2, <4>3 DEF Idle, Due
    <3> QED  BY <3>1, <3>2
  <2>2. DOMAIN rearm = {}
    BY <1>1 DEF Restoring
  <2> QED  BY <2>1, <2>2 DEF IInv, Bodies, Doubled, Armed
<1>6. Knowledge'
  BY <1>1, <1>2, <1>3 DEF Knowledge, Knows, Gone, Homeward, Embodied, Unmarked
<1>7. ReaperOK'
  <2>1. \A t \in Sessions : Attended(t)'
    BY <1>2, <1>3, <1>4 DEF Attended, Leaving
  <2> QED  BY <1>4, <2>1 DEF ReaperOK, TimerOK, RearmOK, Armed, Awake
<1>8. OneSession'
  BY <1>3 DEF OneSession
<1>9. Cells' /\ OneBody' /\ HomeIsWhere' /\ Returns'
  BY <1>1, <1>3 DEF IInv, Bodies, Cells, CellOK, OneBody, HomeIsWhere, Returns, ReturnsHome, HasReturn, Here
<1>10. Doubled'
  BY <1>1, <1>5 DEF Doubled, Here
<1>11. SavingOK' /\ DiskOK'
  BY <1>1, <1>3 DEF IInv, SavingOK, Saving, DiskOK, Here
<1> QED  BY <1>6, <1>7, <1>8, <1>9, <1>10, <1>11 DEF IInv, Bodies

\* Taking a command changes nothing of what the reaper will come to.
LEMMA Reading ==
  ASSUME TypeOK, TakeArm \/ TakeCancel
  PROVE  /\ Idle' <=> Idle
         /\ ~ Idle => Due'.grace = Due.grace /\ Due'.addr = Due.addr
<1>1. /\ inbox # <<>> /\ inbox \in Seq(Cmd) /\ inbox' = Tail(inbox) /\ inbox' \in Seq(Cmd)
      /\ Len(inbox') = Len(inbox) - 1 /\ Len(inbox) \in Nat \ {0}
  BY Takes DEF TakeArm, TakeCancel, TypeOK
<1>2. CASE Len(inbox) = 1
  <2>1. inbox' = <<>> /\ inbox[Len(inbox)] = Head(inbox)
    BY <1>1, <1>2, EmptySeq, HeadTailProperties
  <2>2. CASE TakeArm
    <3>1. /\ timer' # None /\ timer'.addr = Head(inbox).addr /\ timer'.grace = Head(inbox).grace
          /\ Head(inbox).op = "arm"
      BY <2>2, Takes, LogoutAssumption DEF TakeArm, Cmd, Timers
    <3> QED  BY <1>1, <2>1, <3>1 DEF Idle, Due
  <2>3. CASE TakeCancel
    BY <1>1, <2>1, <2>3 DEF TakeCancel, Idle
  <2> QED  BY <2>2, <2>3
<1>3. CASE Len(inbox) # 1
  <2>1. Len(inbox') \in Nat \ {0} /\ inbox' # <<>>
    <3>1. Len(inbox') \in Nat \ {0}
      BY <1>1, <1>3
    <3>2. Len(<<>>) = 0
      BY EmptySeq
    <3> QED  BY <3>1, <3>2
  <2>2. inbox'[Len(inbox')] = inbox[Len(inbox)]
    BY <1>1, <2>1, HeadTailProperties
  <2> QED  BY <1>1, <2>1, <2>2 DEF Idle, Due
<1> QED  BY <1>2, <1>3

\* A step of the reaper or of a timer that moves nobody.
LEMMA ReaperSteps ==
  ASSUME IInv, Typing', UNCHANGED <<home, registry, session, rearm, saving, disk>>,
         Cells', \A z \in Zones : Here(z)' <=> Here(z),
         zone'[LOGOUT_STORAGE_MAP] = zone[LOGOUT_STORAGE_MAP],
         Idle' <=> Idle, ~ Idle => Due'.grace = Due.grace /\ Due'.addr = Due.addr,
         AllGone \/ (zone' = zone /\ ~ Awake'),
         TimerOK', RearmOK'
  PROVE  IInv'
<1>1. \A w \in Worlds : Armed(w)' <=> Armed(w)
  BY DEF Armed
<1>2. \A t \in Sessions : Gone(t)' <=> Gone(t)
  BY DEF Gone
<1>3. OneSession'
  BY DEF IInv, OneSession, Gone
<1>4. OneBody' /\ HomeIsWhere' /\ Returns'
  BY StorageIsNoWorld
  DEF IInv, Bodies, OneBody, HomeIsWhere, Returns, ReturnsHome, HasReturn, Here, At
<1>5. Doubled'
  BY <1>1, <1>2, StorageIsNoWorld DEF IInv, Bodies, Doubled, AllGone, Armed
<1>6. Knowledge'
  <2>1. CASE AllGone
    BY <2>1 DEF AllGone, Gone, Knowledge, Knows, Homeward, Embodied, Unmarked
  <2>2. CASE zone' = zone
    BY <2>2 DEF IInv, Knowledge, Knows, Here, PropsOf
  <2> QED  BY <2>1, <2>2
<1>7. ReaperOK'
  <2>1. \A w \in Worlds : Armed(w)' => Here(w)'
    BY <1>1, StorageIsNoWorld DEF IInv, ReaperOK
  <2>2. ASSUME NEW t \in Sessions PROVE Attended(t)'
    <3>1. CASE AllGone
      BY <3>1, <1>2 DEF AllGone, Attended
    <3>2. CASE ~ Awake'
      <4>1. Attended(t)
        BY DEF IInv, ReaperOK
      <4>2. Armed(session[t].world)' <=> Armed(session[t].world)
        BY DEF Armed
      <4> QED  BY <4>1, <4>2, <3>2, <1>2 DEF Attended, Armed
    <3> QED  BY <3>1, <3>2
  <2> QED  BY <2>1, <2>2 DEF ReaperOK
<1>8. SavingOK' /\ DiskOK'
  BY StorageIsNoWorld DEF IInv, SavingOK, Saving, At, DiskOK
<1> QED  BY <1>3, <1>4, <1>5, <1>6, <1>7, <1>8 DEF IInv, Bodies

LEMMA SafeReaper ==
  ASSUME IInv, Typing', Reaper
  PROVE  IInv'
<1>1. /\ zone' = zone /\ inbox # <<>> /\ ~ Awake' /\ rearm' = rearm
      /\ UNCHANGED <<home, registry, session, saving, disk>>
  <2>1. TakeArm => timer'.pc = "asleep"
    BY DEF TakeArm
  <2>2. TakeCancel => timer' = None
    BY DEF TakeCancel
  <2>3. TakeCancel => ~ Awake
    BY DEF TakeCancel, IInv, ReaperOK, TimerOK
  <2> QED  BY <2>1, <2>2, <2>3 DEF Reaper, TakeArm, TakeCancel, server, Awake
<1>2. DOMAIN rearm = {}
  BY <1>1 DEF IInv, ReaperOK, RearmOK
<1>3. TimerOK' /\ RearmOK'
  BY <1>1, <1>2 DEF TimerOK, RearmOK, Awake
<1>4. Cells' /\ \A z \in Zones : Here(z)' <=> Here(z)
  BY <1>1 DEF IInv, Bodies, Cells, CellOK, Here
<1> QED  BY <1>1, <1>3, <1>4, Reading, ReaperSteps DEF Reaper, IInv, Typing

\* A timer that has no command to wait for.
LEMMA Alone ==
  ASSUME IInv, timer # None, inbox = <<>>
  PROVE  /\ ~ Idle /\ Due = timer /\ timer \in Timers /\ timer.addr \in Address
         /\ timer.addr.world \in Worlds /\ Here(timer.addr.world) /\ DOMAIN rearm = {}
<1>1. ~ Idle /\ Due = timer /\ timer \in Timers
  BY DEF Idle, Due, IInv, Typing, TypeOK
<1>2. timer.addr \in Address /\ timer.addr.world \in Worlds
  BY <1>1 DEF Timers, Address
<1>3. Here(timer.addr.world) /\ DOMAIN rearm = {}
  BY <1>1, <1>2 DEF IInv, ReaperOK, Armed, RearmOK
<1> QED  BY <1>1, <1>2, <1>3

LEMMA SafeTimerEnds ==
  ASSUME Calm, IInv, Typing', TimerEnds
  PROVE  IInv'
<1>1. timer # None /\ inbox = <<>> /\ ~ Busy /\ timer' = [timer EXCEPT !.pc = "read"]
  BY DEF TimerEnds, Calm, Allowed
<1>2. ~ Idle /\ Due = timer /\ timer \in Timers /\ DOMAIN rearm = {}
  BY <1>1, Alone
<1>3. AllGone
  <2>1. ASSUME NEW s \in Sessions, ~ Gone(s) PROVE FALSE
    <3>1. session[s].pc = "playing"
      BY <1>1, <2>1 DEF Busy, Gone
    <3> QED  BY <3>1, <2>1, <1>2, Active DEF Leaving
  <2> QED  BY <2>1 DEF AllGone
<1>4. /\ timer' \in Timers /\ timer'.pc = "read" /\ timer'.addr = timer.addr /\ timer'.grace = timer.grace
      /\ timer' # None
  BY <1>1, <1>2, LogoutAssumption DEF Timers
<1>5. zone' = zone /\ inbox' = <<>> /\ rearm' = rearm
  BY <1>1 DEF TimerEnds, server
<1>6. ~ Idle' /\ Due' = timer'
  BY <1>4, <1>5 DEF Idle, Due
<1>7. TimerOK' /\ RearmOK'
  BY <1>2, <1>4, <1>5 DEF TimerOK, RearmOK
<1>8. Cells' /\ \A z \in Zones : Here(z)' <=> Here(z)
  BY <1>5 DEF IInv, Bodies, Cells, CellOK, Here
<1> QED  BY <1>2, <1>3, <1>4, <1>5, <1>6, <1>7, <1>8, ReaperSteps DEF TimerEnds, server

LEMMA SafeTimerSwaps ==
  ASSUME IInv, Typing', TimerSwaps
  PROVE  IInv'
<1> DEFINE w == timer.addr.world
           p == [pending |-> None, back |-> timer.addr]
<1>1. timer # None /\ timer.pc = "read" /\ inbox = <<>> /\ inbox' = <<>> /\ rearm' = rearm
  BY DEF TimerSwaps, server, IInv, ReaperOK, TimerOK, Awake
<1>2. ~ Idle /\ Due = timer /\ timer \in Timers /\ DOMAIN rearm = {} /\ timer.addr \in Address
      /\ w \in Worlds /\ w \in Zones /\ Here(w)
  BY <1>1, Alone, StorageIsNoWorld
<1>3. AllGone
  BY <1>1, Active DEF AllGone, Awake
<1>4. /\ timer' \in Timers /\ timer'.pc = "written" /\ timer'.addr = timer.addr /\ timer'.grace = timer.grace
      /\ timer' # None
  BY <1>2, LogoutAssumption DEF TimerSwaps, Timers
<1>5. p \in Props /\ p.pending = None
  BY <1>2 DEF Props
<1>6. /\ zone'[w].place = zone[w].place /\ zone'[w].props = p /\ p # None
      /\ \A y \in Zones : y # w => zone'[y] = zone[y]
      /\ \A y \in Zones : Here(y)' <=> Here(y)
  BY <1>2, <1>5, SetsCell DEF TimerSwaps, IInv
<1>7. ~ Idle' /\ Due' = timer'
  BY <1>1, <1>4 DEF Idle, Due
<1>8. TimerOK' /\ RearmOK'
  BY <1>1, <1>2, <1>4, <1>6 DEF TimerOK, RearmOK
<1>9. zone'[LOGOUT_STORAGE_MAP] = zone[LOGOUT_STORAGE_MAP]
  BY <1>2, <1>6, StorageIsNoWorld
<1>10. Cells'
  BY <1>2, <1>5, <1>6 DEF IInv, Bodies, Cells, CellOK, Here
<1> QED  BY <1>2, <1>3, <1>4, <1>6, <1>7, <1>8, <1>9, <1>10, ReaperSteps DEF TimerSwaps, server

LEMMA SafeTimerStores ==
  ASSUME IInv, Typing', TimerStores
  PROVE  IInv'
<1> DEFINE w == timer.addr.world
           z == LOGOUT_STORAGE_MAP
<1>1. timer # None /\ timer.pc = "written" /\ inbox = <<>> /\ inbox' = <<>> /\ rearm' = rearm /\ timer' = None
  BY DEF TimerStores, server, IInv, ReaperOK, TimerOK, Awake
<1>2. DOMAIN rearm = {} /\ w \in Worlds /\ w \in Zones /\ Here(w) /\ w # z /\ z \in Zones
  BY <1>1, Alone, StorageIsNoWorld
<1>3. AllGone /\ AllGone' /\ session' = session /\ home' = home /\ saving' = saving /\ disk' = disk
  BY <1>1, Active DEF AllGone, Awake, TimerStores, server, Gone
<1>4. zone[w].props = [pending |-> None, back |-> timer.addr] /\ zone[w].props # None
  <2>1. zone[w].props = [pending |-> None, back |-> timer.addr]
    BY <1>1 DEF IInv, ReaperOK, TimerOK
  <2>2. [pending |-> None, back |-> timer.addr] \in Props
    BY <1>1, Alone DEF Props
  <2> QED  BY <2>1, <2>2, LogoutAssumption
<1>5. /\ zone'[w].place = None /\ zone'[w].props = None
      /\ zone'[z].place = Bank /\ zone'[z].props = zone[w].props
      /\ \A y \in Zones \ {w, z} : zone'[y] = zone[y]
  BY <1>2, <1>4 DEF TimerStores, Transfer, Empty, IInv, Typing, TypeOK
<1>6. home = w
  BY <1>2, <1>3 DEF IInv, Bodies, HomeIsWhere, AllGone, At, Gone
<1>7. \A v \in Worlds : ~ Here(v)'
  BY <1>2, <1>5, StorageIsNoWorld DEF IInv, Bodies, OneBody, Here
<1>8. Bank # None /\ timer.addr # None
  BY <1>1, Alone, LogoutAssumption
<1> HIDE DEF w
<1>9. Cells'
  BY <1>2, <1>4, <1>5, <1>8 DEF IInv, Bodies, Cells, CellOK
<1>10. OneBody' /\ Doubled' /\ HomeIsWhere' /\ Returns'
  <2>1. Here(z)'
    BY <1>5, <1>8 DEF Here
  <2>2. ReturnsHome'
    <3>1. timer.addr.world = home'
      BY <1>3, <1>6 DEF w
    <3> QED  BY <1>4, <1>5, <1>8, <3>1 DEF ReturnsHome, HasReturn
  <2> QED  BY <1>2, <1>7, <2>1, <2>2 DEF OneBody, Doubled, HomeIsWhere, Returns
<1>11. OneSession' /\ Knowledge'
  BY <1>3 DEF AllGone, Gone, OneSession, Knowledge, Knows, Homeward, Embodied, Unmarked
<1>12. ReaperOK'
  <2>1. Idle' /\ ~ Awake'
    BY <1>1 DEF Idle, Awake
  <2> QED  BY <1>1, <1>2, <1>3, <2>1 DEF ReaperOK, Armed, Attended, AllGone, TimerOK, RearmOK
<1>13. SavingOK' /\ DiskOK'
  BY <1>3, <1>7 DEF IInv, SavingOK, Saving, At, AllGone, Gone, DiskOK
<1> QED  BY <1>9, <1>10, <1>11, <1>12, <1>13 DEF IInv, Bodies

LEMMA SafeSaveZone ==
  ASSUME Calm, IInv, Typing', SaveZone
  PROVE  IInv'
<1>1. PICK z \in Zones :
        /\ Lowest(z, Zones \ DOMAIN saving)
        /\ LET copy == With(saving, z, zone[z])
           IN  IF DOMAIN copy = Zones
               THEN saving' = Nothing /\ disk' = [zone |-> copy, home |-> home]
               ELSE saving' = copy /\ disk' = disk
  BY DEF SaveZone
<1> DEFINE copy == With(saving, z, zone[z])
           m    == LOGOUT_STORAGE_MAP
<1>2. /\ DOMAIN copy = DOMAIN saving \cup {z} /\ copy[z] = zone[z]
      /\ \A v \in DOMAIN saving : v # z => copy[v] = saving[v]
      /\ z \notin DOMAIN saving /\ \A y \in Zones \ DOMAIN saving : z <= y
  BY <1>1 DEF With, Lowest
<1>3. \A s \in Sessions : ~ At(s, "fetching")
  BY DEF SaveZone, Calm, Allowed
<1>4. /\ DOMAIN copy = Zones => saving' = Nothing /\ disk' = [zone |-> copy, home |-> home]
      /\ DOMAIN copy # Zones => saving' = copy /\ disk' = disk
  BY <1>1
<1>5. /\ zone' = zone /\ home' = home /\ registry' = registry /\ inbox' = inbox
      /\ timer' = timer /\ session' = session /\ rearm' = rearm
  BY DEF SaveZone
<1> HIDE DEF copy
<1>6. DOMAIN saving \subseteq Worlds /\ m \notin Worlds /\ Zones = Worlds \cup {m}
  BY StorageIsNoWorld DEF IInv, SavingOK, Zones
<1>7. OneSession' /\ Bodies' /\ Knowledge' /\ ReaperOK'
  <2>1. Bodies'
    BY <1>5, SameReaper DEF IInv, Bodies, Cells, CellOK, OneBody, Doubled, HomeIsWhere, Returns,
       ReturnsHome, HasReturn, Here, At, AllGone, Gone
  <2>2. OneSession' /\ Knowledge'
    BY <1>5 DEF IInv, OneSession, Knowledge, Knows, Gone, Here, PropsOf
  <2>3. \A s \in Sessions : Attended(s)'
    BY <1>5, SameReaper DEF IInv, ReaperOK, Attended, Gone
  <2>4. (\A w \in Worlds : Armed(w)' => Here(w)') /\ TimerOK' /\ RearmOK'
    BY <1>5, SameReaper DEF IInv, ReaperOK, TimerOK, RearmOK, Awake, Here
  <2> QED  BY <2>1, <2>2, <2>3, <2>4 DEF ReaperOK
<1>8. /\ \A v \in DOMAIN copy : CellOK(v, copy[v])
      /\ \A v \in DOMAIN copy : v \in Worlds /\ Here(v) => copy[v].place # None
      /\ \A v \in DOMAIN copy : v \in Worlds /\ copy[v].place # None =>
           /\ \A w \in Worlds : Here(w) => w = v
           /\ \A w \in DOMAIN copy : w \in Worlds /\ copy[w].place # None => w = v
  <2>1. CellOK(z, copy[z]) /\ (Here(z) <=> copy[z].place # None)
    BY <1>2 DEF IInv, Bodies, Cells, Here
  <2>2. \A v \in DOMAIN copy : CellOK(v, copy[v])
    BY <1>2, <2>1 DEF IInv, SavingOK
  <2>3. \A v \in DOMAIN copy : v \in Worlds /\ Here(v) => copy[v].place # None
    BY <1>2, <2>1 DEF IInv, SavingOK
  <2>4. \A v \in DOMAIN copy : v \in Worlds /\ copy[v].place # None => \A w \in Worlds : Here(w) => w = v
    BY <1>2, <2>1 DEF IInv, SavingOK, Bodies, OneBody
  <2>5. ASSUME NEW v \in DOMAIN copy, v \in Worlds, copy[v].place # None,
               NEW w \in DOMAIN copy, w \in Worlds, copy[w].place # None
        PROVE  w = v
    <3>1. CASE v = z \/ w = z
      BY <2>1, <2>4, <2>5, <3>1
    <3>2. CASE v # z /\ w # z
      BY <1>2, <2>5, <3>2 DEF IInv, SavingOK
    <3> QED  BY <3>1, <3>2
  <2> QED  BY <2>2, <2>3, <2>4, <2>5
<1>9. CASE DOMAIN copy = Zones
  <2>1. saving' = Nothing /\ disk'.zone = copy /\ z = m
    BY <1>2, <1>4, <1>6, <1>9
  <2>2. SavingOK'
    BY <2>1 DEF SavingOK, Saving, Nothing
  <2>3. \E y \in Zones : copy[y].place # None
    <3>1. PICK y \in Zones : Here(y)
      BY DEF IInv, Bodies, OneBody
    <3> QED  BY <1>2, <1>6, <1>8, <1>9, <2>1, <3>1 DEF Here
  <2>4. copy[m].place # None => HasReturn(copy[m])
    BY <1>2, <1>3, <2>1 DEF IInv, Bodies, Returns, ReturnsHome, Here
  <2>5. DiskOK'
    BY <1>6, <1>8, <1>9, <2>1, <2>3, <2>4 DEF DiskOK
  <2> QED  BY <1>7, <2>2, <2>5 DEF IInv
<1>10. CASE DOMAIN copy # Zones
  <2>1. z \in Worlds
    <3> SUFFICES ASSUME z = m PROVE FALSE
      BY <1>6
    <3>1. \A w \in Worlds : w \in DOMAIN saving
      BY <1>2, StorageIsNoWorld DEF LOGOUT_STORAGE_MAP
    <3> QED  BY <1>2, <1>6, <1>10, <3>1
  <2>2. saving' = copy /\ disk' = disk /\ DOMAIN copy \subseteq Worlds
    BY <1>2, <1>4, <1>6, <1>10, <2>1
  <2>3. SavingOK' /\ DiskOK'
    BY <1>3, <1>5, <1>8, <2>2 DEF IInv, SavingOK, DiskOK, At, Here
  <2> QED  BY <1>7, <2>3 DEF IInv
<1> QED  BY <1>9, <1>10

LEMMA SafeRestart ==
  ASSUME Calm, IInv, Typing', Restart
  PROVE  IInv'
<1> DEFINE m == LOGOUT_STORAGE_MAP
<1>1. /\ disk \in Saves /\ disk # None /\ RecordAgrees /\ disk' = disk
      /\ zone' = disk.zone /\ home' = disk.home /\ inbox' = <<>> /\ timer' = None
      /\ DOMAIN saving' = {} /\ rearm' = [z \in ToRearm |-> Rearmed(z)]
  BY DEF Restart, IInv, Typing, TypeOK, Calm, Allowed, Nothing
<1>2. AllGone' /\ \A s \in Sessions : session'[s].pc = "off"
  BY Stage DEF Restart, AllGone, Gone, IInv, Typing, TypeOK, Stages
<1>3. Cells' /\ OneBody' /\ DiskOK'
  BY <1>1, StorageIsNoWorld DEF IInv, DiskOK, Cells, CellOK, OneBody, Here
<1>4. HomeIsWhere' /\ Returns'
  <2>1. \A w \in Worlds : Here(w)' => home' = w
    BY <1>1 DEF RecordAgrees, Here
  <2>2. Here(m)' => ReturnsHome'
    BY <1>1 DEF IInv, DiskOK, RecordAgrees, ReturnsHome, HasReturn, Here
  <2> QED  BY <2>1, <2>2 DEF HomeIsWhere, Returns
<1>5. Doubled'
  <2>1. \A w \in Worlds : Here(w)' => w \in DOMAIN rearm'
    BY <1>1, StorageIsNoWorld DEF ToRearm, Here
  <2> QED  BY <1>2, <2>1 DEF Doubled
<1>6. OneSession' /\ Knowledge'
  BY <1>2 DEF AllGone, OneSession, Knowledge, Knows, Homeward, Embodied, Unmarked
<1>7. SavingOK'
  BY <1>1 DEF SavingOK, Saving
<1>8. ASSUME NEW z \in ToRearm
      PROVE  /\ z \in Worlds /\ Here(z)'
             /\ Rearmed(z).op = "arm" /\ ~ Rearmed(z).grace /\ Rearmed(z).addr.world = z
  <2>1. z \in Zones /\ disk.zone[z] \in Cell /\ CellOK(z, disk.zone[z])
    BY <1>1 DEF ToRearm, Saves, IInv, DiskOK
  <2>2. CASE Marked(z)
    <3>1. /\ disk.zone[z].props \in Props /\ disk.zone[z].props.pending \in Address
          /\ disk.zone[z].props.pending = [world |-> z, place |-> disk.zone[z].place]
      BY <2>1, <2>2 DEF Marked, Cell, Props, CellOK
    <3>2. z \in Worlds /\ disk.zone[z].place # None
      BY <2>1, <2>2, <3>1 DEF Marked, CellOK, Address
    <3> QED  BY <1>1, <2>2, <3>1, <3>2 DEF Rearmed, Arm, Here
  <2>3. CASE ~ Marked(z)
    <3>1. z \in Worlds /\ disk.zone[z].place # None
      BY <2>1, <2>3 DEF ToRearm, Zones
    <3> QED  BY <1>1, <2>3, <3>1 DEF Rearmed, Arm, Here
  <2> QED  BY <2>2, <2>3
<1>9. ReaperOK'
  <2>1. Idle' /\ ~ Awake'
    BY <1>1 DEF Idle, Awake
  <2>2. RearmOK'
    BY <1>1, <1>8 DEF RearmOK, Here
  <2> QED  BY <1>1, <1>2, <2>1, <2>2 DEF ReaperOK, Armed, Attended, AllGone, TimerOK
<1> QED  BY <1>3, <1>4, <1>5, <1>6, <1>7, <1>9 DEF IInv, Bodies

LEMMA SafeRestoreTask ==
  ASSUME IInv, Typing', RestoreTask
  PROVE  IInv'
<1>1. PICK z \in Zones : z \in DOMAIN rearm /\ Send(rearm[z]) /\ rearm' = Without(rearm, z)
  BY DEF RestoreTask, Lowest
<1>2. /\ zone' = zone /\ home' = home /\ registry' = registry /\ timer' = timer
      /\ session' = session /\ saving' = saving /\ disk' = disk
  BY DEF RestoreTask
<1>3. /\ z \in Worlds /\ Here(z) /\ timer = None
      /\ rearm[z] \in Cmd /\ rearm[z].op = "arm" /\ ~ rearm[z].grace /\ rearm[z].addr.world = z
  BY <1>1 DEF IInv, ReaperOK, RearmOK, Typing, TypeOK
<1>4. \A w \in Worlds : Here(w) => w = z
  BY <1>3 DEF IInv, Bodies, OneBody
<1>5. DOMAIN rearm' = {}
  <2>1. \A y \in DOMAIN rearm : y = z
    BY <1>4 DEF IInv, ReaperOK, RearmOK
  <2> QED  BY <1>1, <2>1 DEF Without
<1>6. AllGone /\ AllGone'
  BY <1>1, <1>2, Active DEF AllGone, Gone
<1>7. ~ Idle' /\ Due' = rearm[z] /\ ~ Awake'
  BY <1>1, <1>2, <1>3, SendsLast DEF IInv, Typing, Awake
<1>8. \A w \in Worlds : Armed(w)' <=> w = z
  BY <1>3, <1>7 DEF Armed
<1>9. ReaperOK'
  BY <1>2, <1>3, <1>5, <1>6, <1>7, <1>8 DEF ReaperOK, Attended, AllGone, TimerOK, RearmOK, Awake, Here
<1>10. Doubled'
  BY <1>2, <1>3, <1>4, <1>6, <1>7, <1>8 DEF Doubled, Here
<1>11. Cells' /\ OneBody' /\ HomeIsWhere' /\ Returns'
  BY <1>2 DEF IInv, Bodies, Cells, CellOK, OneBody, HomeIsWhere, Returns,
     ReturnsHome, HasReturn, Here, At
<1>12. OneSession' /\ Knowledge'
  BY <1>2 DEF IInv, OneSession, Knowledge, Knows, Gone, Here, PropsOf
<1>13. SavingOK' /\ DiskOK'
  BY <1>2 DEF IInv, SavingOK, Saving, DiskOK, At, Here
<1> QED  BY <1>9, <1>10, <1>11, <1>12, <1>13 DEF IInv, Bodies

LEMMA SafeInit == Init => IInv
<1> SUFFICES ASSUME Init PROVE IInv
  OBVIOUS
<1>1. PICK s \in Sessions, w \in Worlds, p \in Places :
        /\ zone = [z \in Zones |-> IF z = w THEN [place |-> p, props |-> None] ELSE Empty]
        /\ home = w /\ registry = [session |-> s, world |-> w]
        /\ inbox = <<>> /\ timer = None /\ rearm = Nothing /\ saving = Nothing /\ disk = None
        /\ session = [t \in Sessions |->
             IF t = s THEN [pc |-> "playing", world |-> w, place |-> p, props |-> None]
                      ELSE [pc |-> "off", world |-> w, place |-> Bank, props |-> None]]
  BY DEF Init
<1>2. /\ session[s].pc = "playing" /\ session[s].world = w /\ session[s].place = p
      /\ \A t \in Sessions : t # s => session[t].pc = "off"
  BY <1>1
<1>3. /\ w \in Zones /\ zone[w].place = p /\ p # None /\ \A z \in Zones : zone[z].props = None
      /\ \A z \in Zones : Here(z) <=> z = w
  BY <1>1, StorageIsNoWorld, LogoutAssumption DEF Here, Empty
<1>4. /\ DOMAIN rearm = {} /\ DOMAIN saving = {} /\ Idle /\ ~ Awake
  BY <1>1 DEF Nothing, Idle, Awake
<1>5. Cells /\ OneBody /\ Doubled /\ HomeIsWhere /\ Returns
  BY <1>1, <1>3, StorageIsNoWorld DEF Cells, CellOK, OneBody, Doubled, HomeIsWhere, Returns
<1>6. OneSession
  BY <1>2 DEF OneSession, Gone
<1>7. Knowledge
  BY <1>1, <1>2, <1>3 DEF Knowledge, Knows, Homeward, Embodied, Unmarked, PropsOf, Blank
<1>8. ReaperOK
  BY <1>2, <1>4 DEF ReaperOK, Armed, Attended, Leaving, TimerOK, RearmOK, Awake
<1>9. SavingOK /\ DiskOK
  BY <1>1, <1>4 DEF SavingOK, Saving, DiskOK
<1> QED  BY TypeInit, <1>5, <1>6, <1>7, <1>8, <1>9 DEF IInv, Bodies

LEMMA SafeStutter ==
  ASSUME IInv, UNCHANGED vars
  PROVE  IInv'
<1>1. Typing'
  BY TypeNext DEF IInv
<1>2. OneSession' /\ Bodies' /\ Knowledge'
  BY SameReaper DEF vars, IInv, OneSession, Bodies, Cells, CellOK, OneBody, Doubled, HomeIsWhere,
     Returns, ReturnsHome, HasReturn, Knowledge, Knows, Here, At, AllGone, Gone, PropsOf
<1>3. ReaperOK'
  BY SameReaper DEF vars, IInv, ReaperOK, Attended, TimerOK, RearmOK, Awake, Gone, Here
<1>4. SavingOK' /\ DiskOK'
  BY DEF vars, IInv, SavingOK, Saving, DiskOK, At, Here
<1> QED  BY <1>1, <1>2, <1>3, <1>4 DEF IInv

LEMMA SafeNext == Calm /\ IInv /\ [Next]_vars => IInv'
<1> SUFFICES ASSUME Calm, IInv, [Next]_vars PROVE IInv'
  OBVIOUS
<1>1. Typing'
  BY TypeNext DEF IInv
<1>2. ASSUME NEW s \in Sessions, SessionStep(s) PROVE IInv'
  BY <1>1, <1>2, SafeFindLive, SafeReadMark, SafeEraseMark, SafeFindStored, SafeEraseReturn, SafeFetch,
     SafeEnter, SafeRecordWorld, SafeArmReaper, SafeReadForMark, SafeWriteMark DEF SessionStep
<1>3. ASSUME NEW s \in Sessions, Player(s) PROVE IInv'
  BY <1>1, <1>3, SafeLogin, SafeDisconnect, SafeSendFails, SafeWalk, SafeChangeWorld DEF Player
<1>4. CASE Timer
  BY <1>1, <1>4, SafeTimerEnds, SafeTimerSwaps, SafeTimerStores DEF Timer
<1> QED  BY <1>1, <1>2, <1>3, <1>4, SafeReaper, SafeSaveZone, SafeRestart, SafeRestoreTask, SafeStutter
         DEF Next

\* What is known of a character's way, where the races do not happen.
THEOREM Inductive == Calm => (Spec => []IInv)
<1> SUFFICES ASSUME Calm PROVE Spec => []IInv
  OBVIOUS
<1>1. IInv /\ [Next]_vars => IInv'
  BY SafeNext
<1> QED  BY <1>1, SafeInit, PTL DEF Spec

-----------------------------------------------------------------------------
(* What follows from it.                                                   *)

LEMMA MeansOneCharacter == IInv => OneCharacter
<1> SUFFICES ASSUME IInv PROVE OneCharacter
  OBVIOUS
<1>1. ASSUME NEW w \in Worlds, Here(w), Here(LOGOUT_STORAGE_MAP) PROVE ToBeStored(w)
  <2>1. CASE w \in DOMAIN rearm
    BY <2>1 DEF IInv, ReaperOK, RearmOK, ToBeStored
  <2>2. CASE Armed(w)
    <3>1. CASE inbox = <<>>
      BY <2>2, <3>1 DEF Armed, Idle, Due, ToBeStored
    <3>2. CASE inbox # <<>>
      <4>1. Len(inbox) \in DOMAIN inbox /\ inbox[Len(inbox)] \in Cmd
        BY <3>2, Takes, LenProperties, ElementOfSeq DEF IInv, Typing, TypeOK
      <4>2. inbox[Len(inbox)].op = "arm" /\ inbox[Len(inbox)].addr.world = w
        BY <2>2, <3>2, <4>1 DEF Armed, Idle, Due, Cmd
      <4> QED  BY <4>1, <4>2 DEF ToBeStored
    <3> QED  BY <3>1, <3>2
  <2> QED  BY <1>1, <2>1, <2>2 DEF IInv, Bodies, Doubled
<1> QED  BY <1>1 DEF IInv, Bodies, OneBody, OneCharacter

\* Where no race happens, whatever the players, the saves and the restarts do,
\* the character is in one zone, and in two only between a restart and the
\* timer it has started (transfer_entity, handle_save, RestoreSnapshot).
THEOREM CharacterIsOne == Calm => (Spec => []OneCharacter)
<1> SUFFICES ASSUME Calm PROVE Spec => []OneCharacter
  OBVIOUS
<1>1. Spec => []IInv
  BY Inductive
<1> QED  BY <1>1, MeansOneCharacter, PTL

\* ... and a login that has to look for it in the storage finds it there
\* (resolve_normal_account_spawn).
THEOREM CharacterIsFound == Calm => (Spec => []FoundAtLogin)
<1> SUFFICES ASSUME Calm PROVE Spec => []FoundAtLogin
  OBVIOUS
<1>1. Spec => []IInv
  BY Inductive
<1>2. IInv => FoundAtLogin
  BY DEF IInv, Knowledge, Knows, Homeward, FoundAtLogin
<1> QED  BY <1>1, <1>2, PTL

\* ... a player who is in the world has a body, hears of it, and no timer takes
\* it away: what the reaper was told last is to cancel (logout.rs).
THEOREM PlayersStay == Calm => (Spec => []PlayersAreHome)
<1> SUFFICES ASSUME Calm PROVE Spec => []PlayersAreHome
  OBVIOUS
<1>1. Spec => []IInv
  BY Inductive
<1>2. IInv => PlayersAreHome
  <2> SUFFICES ASSUME IInv, NEW s \in Sessions, At(s, "playing")
               PROVE  /\ Here(session[s].world) /\ zone[session[s].world].place = session[s].place
                      /\ registry = [session |-> s, world |-> session[s].world]
                      /\ timer # None => \E i \in DOMAIN inbox : inbox[i] = Cancel
    BY DEF PlayersAreHome
  <2>1. session[s].pc = "playing" /\ ~ Gone(s) /\ session[s].place # None
    BY DEF At, Gone, IInv, Typing, Read, Embodied
  <2>2. /\ zone[session[s].world].place = session[s].place
        /\ registry = [session |-> s, world |-> session[s].world] /\ Idle
    BY <2>1, Active DEF Knows, Embodied, Leaving
  <2>3. ASSUME timer # None PROVE \E i \in DOMAIN inbox : inbox[i] = Cancel
    <3>1. inbox # <<>>
      BY <2>2, <2>3 DEF Idle
    <3>2. Len(inbox) \in DOMAIN inbox /\ inbox[Len(inbox)] \in Cmd
      BY <3>1, Takes, LenProperties, ElementOfSeq DEF IInv, Typing, TypeOK
    <3>3. inbox[Len(inbox)] = Cancel
      BY <2>2, <3>1, <3>2 DEF Idle, Cmd, Cancel
    <3> QED  BY <3>2, <3>3
  <2> QED  BY <2>1, <2>2, <2>3 DEF Here
<1> QED  BY <1>1, <1>2, PTL

\* ... and what is in the storage knows where to return (META_LOGOUT_RETURN),
\* and a mark is that of the place where the character stands
\* (META_LOGOUT_PENDING).
THEOREM WayIsKnown == Calm => (Spec => []KnowsItsWay)
<1> SUFFICES ASSUME Calm PROVE Spec => []KnowsItsWay
  OBVIOUS
<1>1. Spec => []IInv
  BY Inductive
<1>2. IInv => KnowsItsWay
  <2> SUFFICES ASSUME IInv PROVE KnowsItsWay
    OBVIOUS
  <2>1. Here(LOGOUT_STORAGE_MAP) => \/ PropsOf(LOGOUT_STORAGE_MAP).back # None
                                   \/ \E s \in Sessions : At(s, "fetching")
    BY DEF IInv, Bodies, Returns, ReturnsHome, HasReturn, PropsOf
  <2>2. \A w \in Worlds : Here(w) /\ PropsOf(w).pending # None =>
          PropsOf(w).pending = [world |-> w, place |-> zone[w].place]
    BY StorageIsNoWorld DEF IInv, Bodies, Cells, CellOK, PropsOf, Blank
  <2> QED  BY <2>1, <2>2 DEF KnowsItsWay
<1> QED  BY <1>1, <1>2, PTL
=============================================================================
