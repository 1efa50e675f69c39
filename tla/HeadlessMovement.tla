-------------------------- MODULE HeadlessMovement --------------------------
(***************************************************************************)
(* The movement path of a headless session (examples/rpc-proxy): clients   *)
(* and a bot submit steps, MoveArbiter gives them server-side numbers,     *)
(* PacedSender delays them, the server answers over FIFO links.  Every     *)
(* branch of the select! loop of run_headless_session is one action: the   *)
(* loop finishes a handler before it takes the next event.                 *)
(***************************************************************************)
EXTENDS MoveArbiter, SequencesExt

CONSTANTS
  MaxWaiting,    \* PacedSender::max_waiting
  LoginPos,      \* where the server put the character before 0x55
  SnapTargets,   \* tiles the server may move the character to by itself
  Rejecting,     \* may the server refuse a step?
  Silent,        \* may the server leave a step unanswered?
  CalmSnaps,     \* do snaps and resyncs overlap with no step?
  Timed,         \* does the clock run?  (if not, no stall deadline passes)
  MaxSteps, MaxUpsets   \* bounds of a run: steps asked for, snaps and
                        \* client resyncs

ASSUME SessionAssumption ==
  /\ MaxWaiting \in Nat
  /\ LoginPos \in Position /\ LoginPos.ready
  /\ SnapTargets \subseteq Coords
  /\ {Rejecting, Silent, CalmSnaps, Timed} \subseteq BOOLEAN
  /\ {MaxSteps, MaxUpsets} \subseteq Nat
  /\ NoView \notin Position

VARIABLES
  mover, pos,                   \* MoveArbiter
  outbound, waiting, predicted, \* PacedSender
  resyncPending,                \* locals of run_headless_session ...
  age, heard,                   \* ... and what its stall deadline depends on
  clientState, sent,            \* the clients, and the steps each submitted
  answer, view,                 \* what the clients were told
  c2s, s2c, srv,                \* the links and the server
  steps, upsets                 \* counters of the bounds

arbiterVars == <<mover, pos>>
pacedVars   == <<outbound, waiting, predicted>>
stallVars   == <<age, heard>>
clientVars  == <<clientState, sent, answer, view>>
countVars   == <<steps, upsets>>
vars == <<arbiterVars, pacedVars, resyncPending, stallVars, clientVars,
          c2s, s2c, srv, countVars>>

Kinds     == {"none", "ack", "reject"}
StepIds   == 1 .. MaxSteps
Listening == {c \in Clients : clientState[c] = "attached"}
Idle      == /\ mover.pending = << >> /\ outbound = << >>
             /\ c2s = << >> /\ s2c = << >>

\* The assumption CalmSnaps makes of clients and server: nobody steps while a
\* resync or the Draw that ends it is on its way.
MayStep ==
  CalmSnaps => /\ \A i \in DOMAIN c2s : c2s[i].type # "resync"
               /\ \A i \in DOMAIN s2c : s2c[i].type # "draw"

\* The messages.  On the wire a step has no origin: in a message it is a ghost,
\* that only properties read.
Move(e)      == [type |-> "move", step |-> e]
ResyncMsg    == [type |-> "resync"]
AckMsg(e)    == [type |-> "ack", seq |-> e.seq, of |-> e.origin]
RejectMsg(e) == [type |-> "reject", seq |-> e.seq, at |-> srv]
DrawMsg(p)   == [type |-> "draw", at |-> p]

\* The position packets of the login went to the observer only: the arbiter
\* and the paced sender enter the main loop with their defaults.
Init ==
  /\ mover = NewMover /\ pos = Unset
  /\ outbound = << >> /\ waiting = << >> /\ predicted = Unset
  /\ resyncPending = FALSE
  /\ age = "none" /\ heard = FALSE
  /\ clientState = [c \in Clients |-> "new"]
  /\ sent   = [c \in Clients |-> 0]
  /\ answer = [c \in Clients |-> [n \in StepIds |-> "none"]]
  /\ view   = [c \in Clients |-> NoView]
  /\ c2s = << >> /\ s2c = << >>
  /\ srv = LoginPos
  /\ steps = 0 /\ upsets = 0
-----------------------------------------------------------------------------
(* Clients come and go.  Identifiers are never reused (next_client_id).    *)

AttachClient(c) ==
  /\ clientState[c] = "new"
  /\ clientState' = [clientState EXCEPT ![c] = "attached"]
  /\ UNCHANGED <<arbiterVars, pacedVars, resyncPending, stallVars, sent,
                 answer, view, c2s, s2c, srv, countVars>>

\* The steps of the client stay queued; its answers find no sink.
DetachClient(c) ==
  /\ clientState[c] = "attached"
  /\ clientState' = [clientState EXCEPT ![c] = "gone"]
  /\ UNCHANGED <<arbiterVars, pacedVars, resyncPending, stallVars, sent,
                 answer, view, c2s, s2c, srv, countVars>>

\* dispatch_c2s, 0x02: into the arbiter, else into the waiting queue, else
\* rejected on the spot.
ClientMoveRequest(c, h) ==
  LET o == [client |-> c, their |-> sent[c] + 1]
      m == Enqueued(mover, h, o)
  IN
  /\ clientState[c] = "attached" /\ MayStep
  /\ steps < MaxSteps /\ steps' = steps + 1
  /\ sent' = [sent EXCEPT ![c] = @ + 1]
  /\ \/ /\ CanEnqueue(mover)
        /\ mover' = m
        /\ outbound' = Append(outbound, Entry(m.nextSeq, h, o))
        /\ UNCHANGED <<waiting, answer, view>>
     \/ /\ ~CanEnqueue(mover)
        /\ Len(waiting) < MaxWaiting
        /\ waiting' = Append(waiting, [heading |-> h, origin |-> o])
        /\ UNCHANGED <<mover, outbound, answer, view>>
     \/ /\ ~CanEnqueue(mover)
        /\ Len(waiting) >= MaxWaiting
        /\ answer' = Answered(answer, {o}, {c}, "reject")
        /\ view' = Redrawn(view, {c}, pos)
        /\ UNCHANGED <<mover, outbound, waiting>>
  /\ UNCHANGED <<pos, predicted, resyncPending, stallVars, clientState,
                 c2s, s2c, srv, upsets>>

\* ClientCommand::Step and the step dot-commands: silently dropped when full.
\* The number in the origin is a ghost, StepOrigin::Internal has none.
BotStep(h) ==
  LET o == [client |-> Bot, their |-> steps + 1]
      m == Enqueued(mover, h, o)
  IN
  /\ MayStep
  /\ steps < MaxSteps /\ steps' = steps + 1
  /\ IF CanEnqueue(mover)
     THEN /\ mover' = m
          /\ outbound' = Append(outbound, Entry(m.nextSeq, h, o))
     ELSE UNCHANGED <<mover, outbound>>
  /\ UNCHANGED <<pos, waiting, predicted, resyncPending, stallVars, clientVars,
                 c2s, s2c, srv, upsets>>

Restarted == IF Timed THEN "fresh" ELSE "none"

FlushOutbound ==
  /\ outbound # << >>
  /\ outbound' = Tail(outbound)
  /\ predicted' = Step(predicted, Head(outbound).heading)
  /\ c2s' = Append(c2s, Move(Head(outbound)))
  /\ age' = IF heard THEN age ELSE Restarted
  /\ UNCHANGED <<arbiterVars, waiting, resyncPending, heard, clientVars,
                 s2c, srv, countVars>>
-----------------------------------------------------------------------------
(* Packets from the server.                                                *)

\* replay_waiting_steps: the entries that find room, numbered in order.
SeqFrom(s, k)  == IF s + k <= MaxSeq THEN s + k ELSE s + k - MaxSeq
NthSeq(m, i)   == IF m.resetPending THEN SeqFrom(0, i - 1)
                  ELSE SeqFrom(m.nextSeq, i)
Room(m)        == MaxPending - Len(m.pending)
Replayable(m)  == IF Len(waiting) <= Room(m) THEN Len(waiting) ELSE Room(m)
Replayed(m)    == [i \in 1 .. Replayable(m) |->
                     Entry(NthSeq(m, i), waiting[i].heading, waiting[i].origin)]
Refilled(m)    ==
  IF Replayable(m) = 0 THEN m
  ELSE [pending      |-> m.pending \o Replayed(m),
        nextSeq      |-> NthSeq(m, Replayable(m)),
        resetPending |-> FALSE]

ReplayWaiting(m) ==
  /\ mover'    = Refilled(m)
  /\ outbound' = outbound \o Replayed(m)
  /\ waiting'  = SubSeq(waiting, Replayable(m) + 1, Len(waiting))

\* Mutant: the steps still waiting are dropped without a word.
DropWithoutWaiting(m, p) ==
  /\ mover' = Cleared(m)
  /\ pos' = p /\ predicted' = p
  /\ outbound' = << >> /\ waiting' = << >>
  /\ answer' = Answered(answer, ClientSteps(m.pending), Listening, "reject")
  /\ view' = Redrawn(view, Listening, p)

\* Mutant: sync_predicted is not called after reset.
DropUnsynced(m, p) ==
  /\ mover' = Cleared(m)
  /\ pos' = p
  /\ outbound' = << >> /\ waiting' = << >>
  /\ answer' = Answered(answer, ClientSteps(m.pending) \cup ClientSteps(waiting),
                        Listening, "reject")
  /\ view' = Redrawn(view, Listening, p)
  /\ UNCHANGED predicted

\* Every exit that empties both queues: the steps still pending (m) and the
\* steps still waiting are rejected, all clients are redrawn at p.
DropMovement(m, p) ==
  /\ mover' = Cleared(m)
  /\ pos' = p /\ predicted' = p
  /\ outbound' = << >> /\ waiting' = << >>
  /\ answer' = Answered(answer, ClientSteps(m.pending) \cup ClientSteps(waiting),
                        Listening, "reject")
  /\ view' = Redrawn(view, Listening, p)

\* initiate_resync (and the client's own 0x22).
SendResync ==
  /\ resyncPending' = TRUE
  /\ c2s' = Append(c2s, ResyncMsg)

Received(type) ==
  /\ s2c # << >> /\ Head(s2c).type = type
  /\ s2c' = Tail(s2c)
  /\ UNCHANGED <<srv, clientState, sent, countVars>>

HeardServer == age' = Restarted /\ heard' = Timed

\* 0x22 while a resync is pending is ignored.
IgnoreAck ==
  /\ Received("ack")
  /\ resyncPending
  /\ UNCHANGED <<arbiterVars, pacedVars, resyncPending, stallVars, answer,
                 view, c2s>>

MatchAck ==
  LET ack  == Head(s2c)
      step == Head(mover.pending)
  IN
  /\ Received("ack")
  /\ ~resyncPending
  /\ Matches(mover, ack.seq)
  /\ HeardServer
  /\ pos' = StepAndResolveZ(pos, step.heading)
  /\ answer' = Answered(answer, {step.origin}, Listening, "ack")
  /\ view' = Confirmed(view, Listening, step, pos')
  /\ ReplayWaiting(Acked(mover, ack.seq))
  /\ UNCHANGED <<predicted, resyncPending, c2s>>

\* A desync that rejects nobody (only the bot's steps were pending, or none
\* at all) goes on as after an acknowledgement.
SilentDesync ==
  /\ Received("ack")
  /\ ~resyncPending
  /\ ~Matches(mover, Head(s2c).seq)
  /\ DesyncRejects(mover) = {}
  /\ HeardServer
  /\ view' = Redrawn(view, Listening, pos)
  /\ ReplayWaiting(Acked(mover, Head(s2c).seq))
  /\ UNCHANGED <<pos, predicted, resyncPending, answer, c2s>>

DesyncAndResync ==
  /\ Received("ack")
  /\ ~resyncPending
  /\ ~Matches(mover, Head(s2c).seq)
  /\ DesyncRejects(mover) # {}
  /\ HeardServer
  /\ DropMovement(mover, pos)
  /\ SendResync

\* 0x21: the position snaps to the server's, whatever step was refused.
ReceiveReject ==
  /\ Received("reject")
  /\ HeardServer
  /\ DropMovement(mover, ApplyReject(pos, Head(s2c).at))
  /\ UNCHANGED <<resyncPending, c2s>>

\* Mutant: the Draw that answers a resync does not end it.
DrawKeepsResync ==
  /\ Received("draw")
  /\ HeardServer
  /\ DropMovement(mover, ApplyDraw(pos, Head(s2c).at))
  /\ UNCHANGED <<resyncPending, c2s>>

\* 0x20: the authoritative answer to a resync, or a snap of the server's own.
ReceiveDraw ==
  /\ Received("draw")
  /\ HeardServer
  /\ DropMovement(mover, ApplyDraw(pos, Head(s2c).at))
  /\ resyncPending' = FALSE
  /\ UNCHANGED c2s
-----------------------------------------------------------------------------
(* Resyncs that no packet of the server causes.                            *)

\* dispatch_c2s, 0x22 from a client.
ClientResync(c) ==
  /\ clientState[c] = "attached"
  /\ upsets < MaxUpsets /\ upsets' = upsets + 1
  /\ CalmSnaps => Idle
  /\ DropMovement(mover, pos)
  /\ SendResync
  /\ UNCHANGED <<stallVars, clientState, sent, s2c, srv,
                 steps>>

\* Thirty seconds pass since the instant the stall deadline counts from.
ThirtySecondsPass ==
  /\ Timed
  /\ age = "fresh"
  /\ age' = "old"
  /\ UNCHANGED <<arbiterVars, pacedVars, resyncPending, heard, clientVars,
                 c2s, s2c, srv, countVars>>

\* Mutant: a stall is only looked for once the server has said something.
StallAfterAnswer ==
  /\ age = "old" /\ heard
  /\ ~resyncPending
  /\ mover.pending # << >>
  /\ DropMovement(mover, pos)
  /\ SendResync
  /\ UNCHANGED <<stallVars, clientState, sent, s2c, srv, countVars>>

StallTimeout ==
  /\ age = "old"
  /\ ~resyncPending
  /\ mover.pending # << >>
  /\ DropMovement(mover, pos)
  /\ SendResync
  /\ UNCHANGED <<stallVars, clientState, sent, s2c, srv, countVars>>
-----------------------------------------------------------------------------
(* The server (demo-server): it looks at a step, not at its number, and    *)
(* answers a resync with a Draw.                                           *)

ServerTakes(type) ==
  /\ c2s # << >> /\ Head(c2s).type = type
  /\ c2s' = Tail(c2s)
  /\ UNCHANGED <<arbiterVars, pacedVars, resyncPending, stallVars, clientVars,
                 countVars>>

ServerAccept ==
  LET e == Head(c2s).step
  IN
  /\ ServerTakes("move")
  /\ srv' = StepAndResolveZ(srv, e.heading)
  /\ s2c' = Append(s2c, AckMsg(e))

ServerRefuse ==
  LET e == Head(c2s).step
  IN
  /\ Rejecting
  /\ ServerTakes("move")
  /\ ~IsTurn(srv, e.heading)
  /\ s2c' = Append(s2c, RejectMsg(e))
  /\ UNCHANGED srv

\* The engine dropped the request: handle_move returns without an answer.
ServerIgnore ==
  /\ Silent
  /\ ServerTakes("move")
  /\ UNCHANGED <<srv, s2c>>

ServerResync ==
  /\ ServerTakes("resync")
  /\ s2c' = Append(s2c, DrawMsg(srv))
  /\ UNCHANGED srv

\* A teleport, a recall, a ship: the server moves the character by itself.
ServerSnap(x) ==
  /\ upsets < MaxUpsets /\ upsets' = upsets + 1
  /\ CalmSnaps => Idle
  /\ srv' = [srv EXCEPT !.x = x, !.z = Ground[x]]
  /\ s2c' = Append(s2c, DrawMsg(srv'))
  /\ UNCHANGED <<arbiterVars, pacedVars, resyncPending, stallVars, clientVars,
                 c2s, steps>>
-----------------------------------------------------------------------------
Next ==
  \/ \E c \in Clients :
       \/ AttachClient(c) \/ DetachClient(c) \/ ClientResync(c)
       \/ \E h \in Headings : ClientMoveRequest(c, h)
  \/ \E h \in Headings : BotStep(h)
  \/ FlushOutbound
  \/ IgnoreAck \/ MatchAck \/ SilentDesync \/ DesyncAndResync
  \/ ReceiveReject \/ ReceiveDraw
  \/ ThirtySecondsPass \/ StallTimeout
  \/ ServerAccept \/ ServerRefuse \/ ServerIgnore \/ ServerResync
  \/ \E x \in SnapTargets : ServerSnap(x)

Spec == Init /\ [][Next]_vars
-----------------------------------------------------------------------------
(* Properties.                                                             *)

TypeOK ==
  /\ mover \in [pending : Seq([seq : Seqs, heading : Headings, origin : Origins]),
                nextSeq : Seqs, resetPending : BOOLEAN]
  /\ pos \in Position /\ predicted \in Position /\ srv \in Position
  /\ outbound \in Seq([seq : Seqs, heading : Headings, origin : Origins])
  /\ waiting \in Seq([heading : Headings, origin : Origins])
  /\ resyncPending \in BOOLEAN /\ heard \in BOOLEAN
  /\ age \in {"none", "fresh", "old"}
  /\ clientState \in [Clients -> {"new", "attached", "gone"}]
  /\ sent \in [Clients -> 0 .. MaxSteps]
  /\ answer \in [Clients -> [StepIds -> Kinds]]
  /\ view \in [Clients -> Position \cup {NoView}]

\* A step is held back only while the arbiter is full, so no later step can
\* be numbered before it (replay_waiting_steps refills as slots come free).
WaitingOnlyWhenFull ==
  waiting # << >> => Len(mover.pending) = MaxPending

\* The numbers of the pending steps are distinct, across the wrap-around that
\* skips 0: an acknowledgement can match one pending step at most.
PendingSeqsDistinct ==
  \A i, j \in DOMAIN mover.pending :
    mover.pending[i].seq = mover.pending[j].seq => i = j

\* Every step a listening client submitted is in one place: answered, pending
\* in the arbiter, or waiting.  None is lost, none can be answered twice.
Holding(q, o) == {i \in DOMAIN q : q[i].origin = o}
StepsAccountedFor ==
  \A c \in Listening, n \in StepIds :
    LET o == [client |-> c, their |-> n]
    IN  Cardinality(Holding(mover.pending, o)) + Cardinality(Holding(waiting, o))
        = IF n <= sent[c] /\ answer[c][n] = "none" THEN 1 ELSE 0

\* The clients see a StepService.
Service == INSTANCE StepService
ImplementsStepService == Service!ServiceSpec

\* Whatever the server does, all clients display the arbiter's position.
ViewsAgree ==
  \A c \in Listening : view[c] # NoView => view[c] = pos

\* Once a position is known and nothing is under way, the arbiter, the paced
\* sender and the server agree on where the character stands.
AgreeWhenIdle ==
  Idle /\ ~resyncPending /\ pos.ready => pos = srv /\ predicted = srv

-----------------------------------------------------------------------------
(* Fairness: the session task is scheduled whenever an event is ready, the *)
(* paced timer and the clock run on, and the server answers what it gets.  *)

Session ==
  \/ IgnoreAck \/ MatchAck \/ SilentDesync \/ DesyncAndResync
  \/ ReceiveReject \/ ReceiveDraw
Server == ServerAccept \/ ServerRefuse \/ ServerIgnore \/ ServerResync

FairSpec ==
  /\ Spec
  /\ WF_vars(Session) /\ WF_vars(Server) /\ WF_vars(FlushOutbound)
  /\ WF_vars(ThirtySecondsPass) /\ WF_vars(StallTimeout)

\* A client that stays gets an answer to every step, stale acknowledgements
\* and lost pending steps notwithstanding.
EveryStepAnswered ==
  \A c \in Clients, n \in StepIds :
    sent[c] >= n ~> answer[c][n] # "none" \/ clientState[c] = "gone"

\* A resync ends: the session does not ignore acknowledgements for ever.
ResyncEnds == resyncPending ~> ~resyncPending
=============================================================================
