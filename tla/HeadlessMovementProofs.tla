------------------------ MODULE HeadlessMovementProofs ------------------------
(***************************************************************************)
(* Theorems about HeadlessMovement, for any number of clients, any length  *)
(* of the queues and any behaviour of the server.                          *)
(***************************************************************************)
EXTENDS HeadlessMovement, SequenceTheorems, TLAPS

Steps       == [seq : Seqs, heading : Headings, origin : Origins]
WaitingStep == [heading : Headings, origin : Origins]
ToServer    == [type : {"move"}, step : Steps] \cup [type : {"resync"}]
FromServer  == [type : {"ack"}, seq : Seqs, of : Origins]
               \cup [type : {"reject"}, seq : Seqs, at : Position]
               \cup [type : {"draw"}, at : Position]

MoverRec == [pending : Seq(Steps), nextSeq : Seqs, resetPending : BOOLEAN]

MoverType ==
  /\ mover \in MoverRec
  /\ Len(mover.pending) <= MaxPending
PositionType == pos \in Position /\ predicted \in Position /\ srv \in Position
QueueType ==
  /\ outbound \in Seq(Steps) /\ waiting \in Seq(WaitingStep)
  /\ c2s \in Seq(ToServer) /\ s2c \in Seq(FromServer)
LocalType ==
  /\ resyncPending \in BOOLEAN /\ heard \in BOOLEAN
  /\ age \in {"none", "fresh", "old"}
ClientType ==
  /\ clientState \in [Clients -> {"new", "attached", "gone"}]
  /\ sent \in [Clients -> Nat] /\ steps \in 0 .. MaxSteps
  /\ \A c \in Clients : sent[c] <= steps
  /\ answer \in [Clients -> [StepIds -> Kinds]]
  /\ view \in [Clients -> Position \cup {NoView}]

\* TypeOK, strengthened by the types of the messages in flight.
Typing == MoverType /\ PositionType /\ QueueType /\ LocalType /\ ClientType
-----------------------------------------------------------------------------
(* The operators the model is built from keep their types.                 *)

\* Steps and turns stay on the map.
LEMMA StepType ==
  ASSUME NEW p \in Position, NEW h \in Headings
  PROVE  Step(p, h) \in Position /\ StepAndResolveZ(p, h) \in Position
<1> DEFINE x == IF IsTurn(p, h) THEN p.x ELSE Clamp(p.x + Delta(h))
<1>a. x \in Coords
  BY MapAssumption DEF IsTurn, Position, Coords, Clamp, Delta
<1>b. Step(p, h) = [p EXCEPT !.heading = h, !.x = x]
  BY DEF Step
<1> HIDE DEF x
<1>1. Step(p, h) \in Position
  BY <1>a, <1>b DEF Position
<1>2. StepAndResolveZ(p, h) \in Position
  BY <1>1, MapAssumption DEF StepAndResolveZ, Position, Coords
<1> QED BY <1>1, <1>2

LEMMA ApplyType ==
  ASSUME NEW p \in Position, NEW d \in Position
  PROVE  ApplyDraw(p, d) \in Position /\ ApplyReject(p, d) \in Position
BY DEF ApplyDraw, ApplyReject, Position

LEMMA ConstantTypes ==
  Unset \in Position /\ NewMover \in MoverRec
BY MapAssumption, MoverAssumption
DEF MoverRec, Unset, Position, Coords, Headings, NewMover, Seqs

\* try_enqueue gives a number in range.
LEMMA EnqueuedType ==
  ASSUME NEW m \in MoverRec,
         NEW h \in Headings, NEW o \in Origins
  PROVE  /\ Enqueued(m, h, o) \in MoverRec
         /\ Entry(Enqueued(m, h, o).nextSeq, h, o) \in Steps
         /\ Len(Enqueued(m, h, o).pending) = Len(m.pending) + 1
<1> DEFINE s == AssignedSeq(m)
<1>1. s \in Seqs
  BY MoverAssumption DEF AssignedSeq, SeqAfter, Seqs, MoverRec
<1>2. Entry(s, h, o) \in Steps
  BY <1>1 DEF Entry, Steps
<1>3. /\ Append(m.pending, Entry(s, h, o)) \in Seq(Steps)
      /\ Len(Append(m.pending, Entry(s, h, o))) = Len(m.pending) + 1
  BY <1>2 DEF MoverRec
<1> HIDE DEF s
<1>4. Enqueued(m, h, o) = [pending |-> Append(m.pending, Entry(s, h, o)),
                           nextSeq |-> s, resetPending |-> FALSE]
  BY DEF Enqueued, s
<1> QED BY <1>1, <1>2, <1>3, <1>4 DEF MoverRec

\* The steps replayed from the waiting queue fit into the mover.
LEMMA NthSeqType ==
  ASSUME NEW m \in MoverRec, NEW i \in 1 .. MaxPending
  PROVE  NthSeq(m, i) \in Seqs
BY MoverAssumption DEF NthSeq, SeqFrom, MoverRec, Seqs

LEMMA ReplayType ==
  ASSUME NEW m \in MoverRec, Len(m.pending) <= MaxPending,
         waiting \in Seq(WaitingStep)
  PROVE  /\ Replayable(m) \in 0 .. Room(m) /\ Replayable(m) <= Len(waiting)
         /\ Replayed(m) \in Seq(Steps) /\ Len(Replayed(m)) = Replayable(m)
         /\ Refilled(m) \in MoverRec
         /\ Len(Refilled(m).pending) = Len(m.pending) + Replayable(m)
         /\ SubSeq(waiting, Replayable(m) + 1, Len(waiting)) \in Seq(WaitingStep)
<1>1. /\ m.pending \in Seq(Steps) /\ m.nextSeq \in Seqs /\ Len(m.pending) \in Nat
      /\ Len(waiting) \in Nat
  BY DEF MoverRec
<1>2. Room(m) \in 0 .. MaxPending
  BY <1>1, MoverAssumption DEF Room
<1>3. Replayable(m) \in 0 .. Room(m) /\ Replayable(m) <= Len(waiting)
  BY <1>1, <1>2 DEF Replayable
<1>4. \A i \in 1 .. Replayable(m) :
        Entry(NthSeq(m, i), waiting[i].heading, waiting[i].origin) \in Steps
  <2> TAKE i \in 1 .. Replayable(m)
  <2>1. i \in 1 .. MaxPending /\ i \in 1 .. Len(waiting)
    BY <1>1, <1>2, <1>3, MoverAssumption
  <2>2. waiting[i] \in WaitingStep
    BY <2>1
  <2>3. NthSeq(m, i) \in Seqs
    BY <2>1, NthSeqType
  <2> QED BY <2>2, <2>3 DEF Entry, Steps, WaitingStep
<1>5. Replayed(m) \in Seq(Steps) /\ Len(Replayed(m)) = Replayable(m)
  <2>1. Replayable(m) \in Nat
    BY <1>2, <1>3
  <2> QED BY <1>4, <2>1 DEF Replayed
<1>6. m.pending \o Replayed(m) \in Seq(Steps)
      /\ Len(m.pending \o Replayed(m)) = Len(m.pending) + Replayable(m)
  BY <1>1, <1>5, ConcatProperties
<1>7. /\ Refilled(m) \in MoverRec
      /\ Len(Refilled(m).pending) = Len(m.pending) + Replayable(m)
  <2>1. CASE Replayable(m) = 0
    BY <2>1, <1>1 DEF Refilled
  <2>2. CASE Replayable(m) # 0
    <3>1. NthSeq(m, Replayable(m)) \in Seqs
      BY <2>2, <1>2, <1>3, NthSeqType, MoverAssumption
    <3> QED BY <2>2, <3>1, <1>6 DEF Refilled, MoverRec
  <2> QED BY <2>1, <2>2
<1>8. SubSeq(waiting, Replayable(m) + 1, Len(waiting)) \in Seq(WaitingStep)
  BY <1>1, <1>2, <1>3, SubSeqProperties
<1> QED BY <1>3, <1>5, <1>7, <1>8
-----------------------------------------------------------------------------
(* Type correctness: one step per action.                                  *)

\* Answers and views keep their types whoever is told what.
LEMMA AnsweredType ==
  ASSUME NEW S, NEW listening, NEW kind \in Kinds,
         answer \in [Clients -> [StepIds -> Kinds]]
  PROVE  Answered(answer, S, listening, kind) \in [Clients -> [StepIds -> Kinds]]
BY DEF Answered

LEMMA RedrawnType ==
  ASSUME NEW listening, NEW p \in Position,
         view \in [Clients -> Position \cup {NoView}]
  PROVE  Redrawn(view, listening, p) \in [Clients -> Position \cup {NoView}]
BY DEF Redrawn

\* Every exit that empties the queues keeps the types.
LEMMA DropType ==
  ASSUME Typing, NEW p \in Position, DropMovement(mover, p)
  PROVE  /\ MoverType'
         /\ pos' \in Position /\ predicted' \in Position
         /\ outbound' \in Seq(Steps) /\ waiting' \in Seq(WaitingStep)
         /\ answer' \in [Clients -> [StepIds -> Kinds]]
         /\ view' \in [Clients -> Position \cup {NoView}]
<1>1. MoverType'
  <2>1. Cleared(mover) \in MoverRec /\ Cleared(mover).pending = << >>
    <3>1. << >> \in Seq(Steps) /\ mover \in MoverRec
      BY EmptySeq DEF Typing, MoverType
    <3> QED BY <3>1 DEF Cleared, MoverRec
  <2>2. mover' = Cleared(mover)
    BY DEF DropMovement
  <2> QED BY <2>1, <2>2, MoverAssumption DEF MoverType
<1>2. outbound' \in Seq(Steps) /\ waiting' \in Seq(WaitingStep)
  BY DEF DropMovement
<1>3. answer' \in [Clients -> [StepIds -> Kinds]]
  BY AnsweredType DEF DropMovement, Typing, ClientType, Kinds
<1>4. view' \in [Clients -> Position \cup {NoView}]
  BY RedrawnType DEF DropMovement, Typing, ClientType
<1> QED BY <1>1, <1>2, <1>3, <1>4 DEF DropMovement

\* Replaying keeps the types, from any mover with room.
LEMMA ReplayStepType ==
  ASSUME Typing, NEW m \in MoverRec, Len(m.pending) <= MaxPending, ReplayWaiting(m)
  PROVE  MoverType' /\ outbound' \in Seq(Steps) /\ waiting' \in Seq(WaitingStep)
<1>1. waiting \in Seq(WaitingStep) /\ outbound \in Seq(Steps)
  BY DEF Typing, QueueType
<1>2. /\ Replayable(m) \in 0 .. Room(m)
      /\ Replayed(m) \in Seq(Steps)
      /\ Refilled(m) \in MoverRec
      /\ Len(Refilled(m).pending) = Len(m.pending) + Replayable(m)
      /\ SubSeq(waiting, Replayable(m) + 1, Len(waiting)) \in Seq(WaitingStep)
  BY <1>1, ReplayType
<1>3. Len(m.pending) \in Nat
  BY DEF MoverRec
<1>4. MoverType'
  BY <1>2, <1>3, MoverAssumption DEF ReplayWaiting, MoverType, Room
<1>5. outbound' \in Seq(Steps)
  BY <1>1, <1>2, ConcatProperties DEF ReplayWaiting
<1> QED BY <1>2, <1>4, <1>5 DEF ReplayWaiting

\* on_ack leaves a mover that is no longer than before.
LEMMA AckedType ==
  ASSUME NEW m \in MoverRec, NEW s
  PROVE  Acked(m, s) \in MoverRec /\ Len(Acked(m, s).pending) <= Len(m.pending)
<1>1. CASE Matches(m, s)
  <2>1. /\ Tail(m.pending) \in Seq(Steps)
        /\ Len(Tail(m.pending)) = Len(m.pending) - 1
    BY <1>1, HeadTailProperties DEF Matches, MoverRec
  <2>2. Acked(m, s) = [m EXCEPT !.pending = Tail(m.pending)]
    BY <1>1 DEF Acked
  <2>3. Acked(m, s) \in MoverRec /\ Acked(m, s).pending = Tail(m.pending)
    BY <2>1, <2>2 DEF MoverRec
  <2>4. Len(m.pending) \in Nat
    BY DEF MoverRec
  <2> QED BY <2>1, <2>3, <2>4
<1>2. CASE ~Matches(m, s)
  <2>1. << >> \in Seq(Steps) /\ Len(<< >>) = 0 /\ Len(m.pending) \in Nat
    BY EmptySeq DEF MoverRec
  <2>2. Acked(m, s) = [m EXCEPT !.pending = << >>]
    BY <1>2 DEF Acked
  <2>3. Acked(m, s) \in MoverRec /\ Acked(m, s).pending = << >>
    BY <2>1, <2>2 DEF MoverRec
  <2> QED BY <2>1, <2>3
<1> QED BY <1>1, <1>2

\* What a packet from the server carries.
LEMMA ReceivedType ==
  ASSUME Typing, NEW type, Received(type)
  PROVE  /\ Head(s2c) \in FromServer /\ Head(s2c).type = type
         /\ s2c' \in Seq(FromServer)
         /\ srv' = srv /\ clientState' = clientState /\ sent' = sent
         /\ steps' = steps /\ upsets' = upsets
BY HeadTailProperties DEF Received, Typing, QueueType, countVars

LEMMA InitTyping == Init => Typing
<1> SUFFICES ASSUME Init PROVE Typing
  OBVIOUS
<1>1. MoverType
  BY ConstantTypes, MoverAssumption DEF Init, MoverType, NewMover
<1>2. PositionType
  BY ConstantTypes, SessionAssumption DEF Init, PositionType
<1>3. QueueType
  BY EmptySeq DEF Init, QueueType
<1>4. ClientType
  BY SessionAssumption DEF Init, ClientType, StepIds, Kinds
<1> QED BY <1>1, <1>2, <1>3, <1>4 DEF Init, Typing, LocalType

LEMMA ClientMoveRequestTyping ==
  ASSUME Typing, NEW c \in Clients, NEW h \in Headings, ClientMoveRequest(c, h)
  PROVE  Typing'
<1> DEFINE o == [client |-> c, their |-> sent[c] + 1]
           m == Enqueued(mover, h, o)
<1>1. o \in Origins /\ [heading |-> h, origin |-> o] \in WaitingStep
  BY DEF Typing, ClientType, Origins, WaitingStep
<1>2. /\ m \in MoverRec /\ Entry(m.nextSeq, h, o) \in Steps
      /\ Len(m.pending) = Len(mover.pending) + 1
  BY <1>1, EnqueuedType DEF Typing, MoverType
<1>3. MoverType'
  <2>1. CASE mover' = mover
    BY <2>1 DEF Typing, MoverType
  <2>2. CASE CanEnqueue(mover) /\ mover' = m
    <3>1. Len(mover.pending) \in Nat
      BY DEF Typing, MoverType, MoverRec
    <3> QED BY <2>2, <1>2, <3>1, MoverAssumption DEF CanEnqueue, MoverType
  <2> QED BY <2>1, <2>2 DEF ClientMoveRequest
<1>4. outbound' \in Seq(Steps)
  <2>1. outbound \in Seq(Steps) /\ Append(outbound, Entry(m.nextSeq, h, o)) \in Seq(Steps)
    BY <1>2 DEF Typing, QueueType
  <2> QED BY <2>1 DEF ClientMoveRequest
<1>5. waiting' \in Seq(WaitingStep)
  <2>1. waiting \in Seq(WaitingStep)
        /\ Append(waiting, [heading |-> h, origin |-> o]) \in Seq(WaitingStep)
    BY <1>1 DEF Typing, QueueType
  <2> QED BY <2>1 DEF ClientMoveRequest
<1>6. answer' \in [Clients -> [StepIds -> Kinds]]
  BY AnsweredType DEF ClientMoveRequest, Typing, ClientType, Kinds
<1>7. view' \in [Clients -> Position \cup {NoView}]
  BY RedrawnType DEF ClientMoveRequest, Typing, ClientType, PositionType
<1>8. /\ sent' \in [Clients -> Nat] /\ steps' \in 0 .. MaxSteps
      /\ \A d \in Clients : sent'[d] <= steps'
  BY SessionAssumption DEF ClientMoveRequest, Typing, ClientType
<1> QED BY <1>3, <1>4, <1>5, <1>6, <1>7, <1>8
        DEF ClientMoveRequest, Typing, PositionType, QueueType, LocalType,
            ClientType, stallVars

LEMMA BotStepTyping ==
  ASSUME Typing, NEW h \in Headings, BotStep(h)
  PROVE  Typing'
<1> DEFINE o == [client |-> Bot, their |-> steps + 1]
           m == Enqueued(mover, h, o)
<1>1. o \in Origins
  BY SessionAssumption DEF Typing, ClientType, Origins
<1>2. /\ m \in MoverRec /\ Entry(m.nextSeq, h, o) \in Steps
      /\ Len(m.pending) = Len(mover.pending) + 1
  BY <1>1, EnqueuedType DEF Typing, MoverType
<1>3. MoverType'
  <2>1. CASE mover' = mover
    BY <2>1 DEF Typing, MoverType
  <2>2. CASE CanEnqueue(mover) /\ mover' = m
    <3>1. Len(mover.pending) \in Nat
      BY DEF Typing, MoverType, MoverRec
    <3> QED BY <2>2, <1>2, <3>1, MoverAssumption DEF CanEnqueue, MoverType
  <2> QED BY <2>1, <2>2 DEF BotStep
<1>4. outbound' \in Seq(Steps)
  <2>1. outbound \in Seq(Steps) /\ Append(outbound, Entry(m.nextSeq, h, o)) \in Seq(Steps)
    BY <1>2 DEF Typing, QueueType
  <2> QED BY <2>1 DEF BotStep
<1>5. /\ steps' \in 0 .. MaxSteps
      /\ \A d \in Clients : sent'[d] <= steps'
  BY SessionAssumption DEF BotStep, Typing, ClientType, clientVars
<1> QED BY <1>3, <1>4, <1>5
        DEF BotStep, Typing, PositionType, QueueType, LocalType,
            ClientType, stallVars, clientVars

LEMMA FlushOutboundTyping ==
  ASSUME Typing, FlushOutbound
  PROVE  Typing'
<1>1. /\ Head(outbound) \in Steps /\ Tail(outbound) \in Seq(Steps)
  BY HeadTailProperties DEF FlushOutbound, Typing, QueueType
<1>2. predicted' \in Position
  BY <1>1, StepType DEF FlushOutbound, Typing, PositionType, Steps
<1>3. c2s' \in Seq(ToServer)
  <2>1. Move(Head(outbound)) \in ToServer
    BY <1>1 DEF Move, ToServer
  <2> QED BY <2>1 DEF FlushOutbound, Typing, QueueType
<1>4. age' \in {"none", "fresh", "old"}
  BY DEF FlushOutbound, Restarted, Typing, LocalType
<1> QED BY <1>1, <1>2, <1>3, <1>4
        DEF FlushOutbound, Typing, MoverType, PositionType, QueueType, LocalType,
            ClientType, arbiterVars, clientVars, countVars

LEMMA HeardType ==
  ASSUME HeardServer
  PROVE  age' \in {"none", "fresh", "old"} /\ heard' \in BOOLEAN
BY SessionAssumption DEF HeardServer, Restarted

LEMMA MatchAckTyping ==
  ASSUME Typing, MatchAck
  PROVE  Typing'
<1> DEFINE ack  == Head(s2c)
           step == Head(mover.pending)
<1>1. /\ s2c' \in Seq(FromServer) /\ srv' = srv /\ clientState' = clientState
      /\ sent' = sent /\ steps' = steps
  BY ReceivedType DEF MatchAck
<1>2. step \in Steps
  BY HeadTailProperties DEF MatchAck, Matches, Typing, MoverType, MoverRec
<1>3. pos' \in Position
  BY <1>2, StepType DEF MatchAck, Typing, PositionType, Steps
<1>4. answer' \in [Clients -> [StepIds -> Kinds]]
  BY AnsweredType DEF MatchAck, Typing, ClientType, Kinds
<1>5. view' \in [Clients -> Position \cup {NoView}]
  <2>1. \A p \in Position : StepAndResolveZ(p, step.heading) \in Position
    BY <1>2, StepType DEF Steps
  <2> HIDE DEF step
  <2>2. view' = Confirmed(view, Listening, step, pos')
    BY DEF MatchAck, step
  <2> QED BY <1>3, <2>1, <2>2 DEF Confirmed, Typing, ClientType
<1>6. MoverType' /\ outbound' \in Seq(Steps) /\ waiting' \in Seq(WaitingStep)
  <2>1. mover \in MoverRec /\ Len(mover.pending) <= MaxPending
    BY DEF Typing, MoverType
  <2>2. /\ Acked(mover, ack.seq) \in MoverRec
        /\ Len(Acked(mover, ack.seq).pending) <= Len(mover.pending)
    BY <2>1, AckedType
  <2>3. Len(Acked(mover, ack.seq).pending) <= MaxPending
    BY <2>1, <2>2, MoverAssumption DEF MoverRec
  <2> QED BY <2>2, <2>3, ReplayStepType DEF MatchAck
<1> QED BY <1>1, <1>3, <1>4, <1>5, <1>6, HeardType
        DEF MatchAck, Typing, PositionType, QueueType, LocalType, ClientType

LEMMA SilentDesyncTyping ==
  ASSUME Typing, SilentDesync
  PROVE  Typing'
<1>1. /\ s2c' \in Seq(FromServer) /\ srv' = srv /\ clientState' = clientState
      /\ sent' = sent /\ steps' = steps
  BY ReceivedType DEF SilentDesync
<1>2. view' \in [Clients -> Position \cup {NoView}]
  BY RedrawnType DEF SilentDesync, Typing, ClientType, PositionType
<1>3. MoverType' /\ outbound' \in Seq(Steps) /\ waiting' \in Seq(WaitingStep)
  <2> DEFINE m == Acked(mover, Head(s2c).seq)
  <2>1. mover \in MoverRec /\ Len(mover.pending) <= MaxPending
    BY DEF Typing, MoverType
  <2>2. m \in MoverRec /\ Len(m.pending) <= Len(mover.pending)
    BY <2>1, AckedType
  <2>3. Len(m.pending) <= MaxPending
    BY <2>1, <2>2, MoverAssumption DEF MoverRec
  <2> QED BY <2>2, <2>3, ReplayStepType DEF SilentDesync
<1> QED BY <1>1, <1>2, <1>3, HeardType
        DEF SilentDesync, Typing, PositionType, QueueType, LocalType, ClientType

\* Packets that empty the queues.
LEMMA DropOnPacketTyping ==
  ASSUME Typing, DesyncAndResync \/ ReceiveReject \/ ReceiveDraw
  PROVE  Typing'
<1>1. CASE DesyncAndResync
  <2>1. /\ s2c' \in Seq(FromServer) /\ srv' = srv /\ clientState' = clientState
        /\ sent' = sent /\ steps' = steps
    BY <1>1, ReceivedType DEF DesyncAndResync
  <2>2. c2s' \in Seq(ToServer)
    BY <1>1 DEF DesyncAndResync, SendResync, ResyncMsg, ToServer, Typing, QueueType
  <2>3. DropMovement(mover, pos) /\ pos \in Position
    BY <1>1 DEF DesyncAndResync, Typing, PositionType
  <2> QED BY <1>1, <2>1, <2>2, <2>3, DropType, HeardType
          DEF DesyncAndResync, SendResync, Typing, PositionType, QueueType,
              LocalType, ClientType
<1>2. CASE ReceiveReject
  <2>1. /\ s2c' \in Seq(FromServer) /\ srv' = srv /\ clientState' = clientState
        /\ sent' = sent /\ steps' = steps
        /\ Head(s2c) \in FromServer /\ Head(s2c).type = "reject"
    BY <1>2, ReceivedType DEF ReceiveReject
  <2>2. Head(s2c).at \in Position
    BY <2>1 DEF FromServer
  <2>3. /\ DropMovement(mover, ApplyReject(pos, Head(s2c).at))
        /\ ApplyReject(pos, Head(s2c).at) \in Position
    BY <1>2, <2>2, ApplyType DEF ReceiveReject, Typing, PositionType
  <2> QED BY <1>2, <2>1, <2>3, DropType, HeardType
          DEF ReceiveReject, Typing, PositionType, QueueType, LocalType, ClientType
<1>3. CASE ReceiveDraw
  <2>1. /\ s2c' \in Seq(FromServer) /\ srv' = srv /\ clientState' = clientState
        /\ sent' = sent /\ steps' = steps
        /\ Head(s2c) \in FromServer /\ Head(s2c).type = "draw"
    BY <1>3, ReceivedType DEF ReceiveDraw
  <2>2. Head(s2c).at \in Position
    BY <2>1 DEF FromServer
  <2>3. /\ DropMovement(mover, ApplyDraw(pos, Head(s2c).at))
        /\ ApplyDraw(pos, Head(s2c).at) \in Position
    BY <1>3, <2>2, ApplyType DEF ReceiveDraw, Typing, PositionType
  <2> QED BY <1>3, <2>1, <2>3, DropType, HeardType
          DEF ReceiveDraw, Typing, PositionType, QueueType, LocalType, ClientType
<1> QED BY <1>1, <1>2, <1>3

\* Resyncs that no packet causes.
LEMMA OwnResyncTyping ==
  ASSUME Typing, StallTimeout \/ \E c \in Clients : ClientResync(c)
  PROVE  Typing'
<1>1. DropMovement(mover, pos) /\ SendResync /\ pos \in Position
  BY DEF StallTimeout, ClientResync, Typing, PositionType
<1>2. c2s' \in Seq(ToServer)
  BY <1>1 DEF SendResync, ResyncMsg, ToServer, Typing, QueueType
<1>3. UNCHANGED <<age, heard, clientState, sent, s2c, srv, steps>>
  BY DEF StallTimeout, ClientResync, stallVars, countVars
<1> QED BY <1>1, <1>2, <1>3, DropType
        DEF SendResync, Typing, PositionType, QueueType, LocalType, ClientType

LEMMA ServerTyping ==
  ASSUME Typing,
         \/ ServerAccept \/ ServerRefuse \/ ServerIgnore \/ ServerResync
         \/ \E x \in SnapTargets : ServerSnap(x)
  PROVE  Typing'
<1>1. CASE \E x \in SnapTargets : ServerSnap(x)
  <2> PICK x \in SnapTargets : ServerSnap(x)
    BY <1>1
  <2>1. srv' \in Position
    BY SessionAssumption, MapAssumption DEF ServerSnap, Typing, PositionType, Position, Coords
  <2>2. s2c' \in Seq(FromServer)
    <3>1. [type |-> "draw", at |-> srv'] \in FromServer
      BY <2>1 DEF FromServer
    <3>2. s2c' = Append(s2c, [type |-> "draw", at |-> srv']) /\ s2c \in Seq(FromServer)
      BY DEF ServerSnap, DrawMsg, Typing, QueueType
    <3> QED BY <3>1, <3>2
  <2> QED BY <2>1, <2>2
          DEF ServerSnap, Typing, MoverType, PositionType, QueueType, LocalType,
              ClientType, arbiterVars, pacedVars, stallVars, clientVars
<1>2. ASSUME NEW type, ServerTakes(type), srv' \in Position, s2c' \in Seq(FromServer)
      PROVE  Typing'
  <2>1. c2s' \in Seq(ToServer)
    BY <1>2, HeadTailProperties DEF ServerTakes, Typing, QueueType
  <2> QED BY <1>2, <2>1
          DEF ServerTakes, Typing, MoverType, PositionType, QueueType, LocalType,
              ClientType, arbiterVars, pacedVars, stallVars, clientVars, countVars
<1>3. ASSUME ServerTakes("move") PROVE Head(c2s).step \in Steps
  <2>1. Head(c2s) \in ToServer /\ Head(c2s).type = "move"
    BY <1>3, HeadTailProperties DEF ServerTakes, Typing, QueueType
  <2> QED BY <2>1 DEF ToServer
<1>4. CASE ServerAccept
  <2>1. Head(c2s).step \in Steps
    BY <1>3, <1>4 DEF ServerAccept
  <2>2. srv' \in Position
    BY <1>4, <2>1, StepType DEF ServerAccept, Typing, PositionType, Steps
  <2>3. AckMsg(Head(c2s).step) \in FromServer
    BY <2>1 DEF AckMsg, FromServer, Steps
  <2>4. s2c' \in Seq(FromServer)
    <3>1. s2c' = Append(s2c, AckMsg(Head(c2s).step)) /\ s2c \in Seq(FromServer)
      BY <1>4 DEF ServerAccept, Typing, QueueType
    <3> HIDE DEF FromServer
    <3> QED BY <2>3, <3>1
  <2> QED BY <1>2, <1>4, <2>2, <2>4 DEF ServerAccept
<1>5. CASE ServerRefuse
  <2>1. Head(c2s).step \in Steps
    BY <1>3, <1>5 DEF ServerRefuse
  <2>2. RejectMsg(Head(c2s).step) \in FromServer
    BY <2>1 DEF RejectMsg, FromServer, Steps, Typing, PositionType
  <2>3. s2c' \in Seq(FromServer) /\ srv' \in Position
    BY <1>5, <2>2 DEF ServerRefuse, Typing, QueueType, PositionType
  <2> QED BY <1>2, <1>5, <2>3 DEF ServerRefuse
<1>6. CASE ServerIgnore
  BY <1>2, <1>6 DEF ServerIgnore, Typing, QueueType, PositionType
<1>7. CASE ServerResync
  <2>1. DrawMsg(srv) \in FromServer
    BY DEF DrawMsg, FromServer, Typing, PositionType
  <2>2. s2c' \in Seq(FromServer) /\ srv' \in Position
    BY <1>7, <2>1 DEF ServerResync, Typing, QueueType, PositionType
  <2> QED BY <1>2, <1>7, <2>2 DEF ServerResync
<1> QED BY <1>1, <1>4, <1>5, <1>6, <1>7

LEMMA NextTyping == Typing /\ [Next]_vars => Typing'
<1> SUFFICES ASSUME Typing, [Next]_vars PROVE Typing'
  OBVIOUS
<1>1. ASSUME NEW c \in Clients, AttachClient(c) \/ DetachClient(c)
      PROVE  Typing'
  BY <1>1 DEF AttachClient, DetachClient, Typing, MoverType, PositionType, QueueType,
              LocalType, ClientType, arbiterVars, pacedVars, stallVars, countVars
<1>2. CASE IgnoreAck
  BY <1>2, ReceivedType
  DEF IgnoreAck, Typing, MoverType, PositionType, QueueType, LocalType, ClientType,
      arbiterVars, pacedVars, stallVars
<1>3. CASE ThirtySecondsPass
  BY <1>3
  DEF ThirtySecondsPass, Typing, MoverType, PositionType, QueueType, LocalType,
      ClientType, arbiterVars, pacedVars, clientVars, countVars
<1>4. CASE UNCHANGED vars
  BY <1>4
  DEF vars, Typing, MoverType, PositionType, QueueType, LocalType,
      ClientType, arbiterVars, pacedVars, stallVars, clientVars, countVars
<1> QED BY <1>1, <1>2, <1>3, <1>4, ClientMoveRequestTyping, BotStepTyping,
           FlushOutboundTyping, MatchAckTyping, SilentDesyncTyping,
           DropOnPacketTyping, OwnResyncTyping, ServerTyping DEF Next

\* Every variable of the session keeps its type, and no more steps are pending
\* than max_pending: the queue of ActiveMover is bounded whatever the server does.
THEOREM TypeCorrect == Spec => []TypeOK
<1>1. Init => Typing
  BY InitTyping
<1>2. Typing /\ [Next]_vars => Typing'
  BY NextTyping
<1>3. Typing => TypeOK
  <2> SUFFICES ASSUME Typing PROVE TypeOK
    OBVIOUS
  <2>1. sent \in [Clients -> 0 .. MaxSteps]
    <3>1. \A c \in Clients : sent[c] \in 0 .. MaxSteps
      BY SessionAssumption DEF Typing, ClientType
    <3> QED BY <3>1 DEF Typing, ClientType
  <2> QED BY <2>1
          DEF Typing, TypeOK, MoverType, PositionType, QueueType, LocalType,
              ClientType, MoverRec, Steps, WaitingStep
<1> QED BY <1>1, <1>2, <1>3, PTL DEF Spec
-----------------------------------------------------------------------------
(* Sequence numbers and the waiting queue.                                 *)

\* The pending steps carry consecutive numbers that end at next_seq.
Numbered(m) ==
  /\ m.resetPending => m.pending = << >>
  /\ m.pending # << >> => m.pending[Len(m.pending)].seq = m.nextSeq
  /\ \A i \in 1 .. Len(m.pending) - 1 :
       m.pending[i + 1].seq = SeqAfter(m.pending[i].seq)

Numbering == Numbered(mover)

\* Emptying the queue keeps it numbered, reset or not.
LEMMA EmptyNumbered ==
  ASSUME NEW m, m.pending = << >>
  PROVE  Numbered(m)
BY DEF Numbered

LEMMA AckedNumbered ==
  ASSUME NEW m \in MoverRec, Numbered(m), NEW s
  PROVE  Numbered(Acked(m, s))
<1>1. CASE Matches(m, s)
  <2> DEFINE q == m.pending
  <2>1. /\ q \in Seq(Steps) /\ q # << >> /\ Len(q) \in Nat
        /\ Tail(q) \in Seq(Steps) /\ Len(Tail(q)) = Len(q) - 1
        /\ \A i \in 1 .. Len(q) - 1 : Tail(q)[i] = q[i + 1]
    BY <1>1, HeadTailProperties, LenProperties DEF Matches, MoverRec
  <2>2. /\ Acked(m, s).pending = Tail(q) /\ Acked(m, s).nextSeq = m.nextSeq
        /\ Acked(m, s).resetPending = m.resetPending
    BY <1>1 DEF Acked, MoverRec
  <2>3. ~m.resetPending
    BY <2>1 DEF Numbered
  <2>4. Tail(q) # << >> => Tail(q)[Len(Tail(q))].seq = m.nextSeq
    <3> SUFFICES ASSUME Tail(q) # << >> PROVE Tail(q)[Len(Tail(q))].seq = m.nextSeq
      OBVIOUS
    <3>1. Len(q) - 1 \in 1 .. Len(q) - 1
      BY <2>1, EmptySeq
    <3>2. Tail(q)[Len(q) - 1] = q[Len(q)]
      BY <2>1, <3>1
    <3> QED BY <2>1, <3>2 DEF Numbered
  <2>5. \A i \in 1 .. Len(Tail(q)) - 1 : Tail(q)[i + 1].seq = SeqAfter(Tail(q)[i].seq)
    <3> TAKE i \in 1 .. Len(Tail(q)) - 1
    <3>1. /\ i \in 1 .. Len(q) - 1 /\ i + 1 \in 1 .. Len(q) - 1
      BY <2>1
    <3>2. q[(i + 1) + 1].seq = SeqAfter(q[i + 1].seq)
      BY <3>1 DEF Numbered
    <3> QED BY <2>1, <3>1, <3>2
  <2> QED BY <2>2, <2>3, <2>4, <2>5 DEF Numbered
<1>2. CASE ~Matches(m, s)
  <2>1. Acked(m, s).pending = << >>
    BY <1>2 DEF Acked, MoverRec
  <2> QED BY <2>1, EmptyNumbered
<1> QED BY <1>1, <1>2

\* One more step continues the numbers.
LEMMA EnqueuedNumbered ==
  ASSUME NEW m \in MoverRec, Numbered(m), NEW h \in Headings, NEW o \in Origins
  PROVE  Numbered(Enqueued(m, h, o))
<1> DEFINE q == m.pending
           s == AssignedSeq(m)
           e == Entry(s, h, o)
           r == Append(q, e)
<1>1. /\ q \in Seq(Steps) /\ Len(q) \in Nat /\ e \in Steps /\ e.seq = s
  BY EnqueuedType DEF MoverRec, Entry, Enqueued
<1>2. /\ r \in Seq(Steps) /\ Len(r) = Len(q) + 1 /\ r[Len(q) + 1] = e
      /\ \A i \in 1 .. Len(q) : r[i] = q[i]
  BY <1>1
<1>3. /\ Enqueued(m, h, o).pending = r /\ Enqueued(m, h, o).nextSeq = s
      /\ Enqueued(m, h, o).resetPending = FALSE
  BY DEF Enqueued
<1>4. ASSUME NEW i \in 1 .. Len(r) - 1
      PROVE  r[i + 1].seq = SeqAfter(r[i].seq)
  <2>1. CASE i = Len(q)
    <3>1. q # << >> /\ ~m.resetPending
      BY <1>1, <1>4, <2>1, EmptySeq DEF Numbered
    <3>2. q[i].seq = m.nextSeq /\ s = SeqAfter(m.nextSeq)
      BY <2>1, <3>1 DEF Numbered, AssignedSeq
    <3>3. i \in 1 .. Len(q)
      BY <1>1, <1>2, <1>4, <2>1
    <3> HIDE DEF r, s, e
    <3> QED BY <1>1, <1>2, <2>1, <3>2, <3>3
  <2>2. CASE i # Len(q)
    <3>1. i \in 1 .. Len(q) - 1 /\ i \in 1 .. Len(q) /\ i + 1 \in 1 .. Len(q)
      BY <1>1, <1>2, <2>2
    <3> HIDE DEF r, s, e
    <3> QED BY <1>2, <3>1 DEF Numbered
  <2> QED BY <2>1, <2>2
<1> HIDE DEF r, s, e
<1> QED BY <1>1, <1>2, <1>3, <1>4 DEF Numbered

\* The numbers of replayed steps are those try_enqueue would give in turn.
LEMMA NthSeqConsecutive ==
  ASSUME NEW m \in MoverRec, NEW i \in 1 .. MaxPending - 1
  PROVE  NthSeq(m, i + 1) = SeqAfter(NthSeq(m, i))
BY MoverAssumption DEF NthSeq, SeqFrom, SeqAfter, MoverRec, Seqs

LEMMA NthSeqFirst ==
  ASSUME NEW m \in MoverRec, ~m.resetPending
  PROVE  NthSeq(m, 1) = SeqAfter(m.nextSeq)
BY MoverAssumption DEF NthSeq, SeqFrom, SeqAfter, MoverRec, Seqs

LEMMA RefilledNumbered ==
  ASSUME NEW m \in MoverRec, Numbered(m), Len(m.pending) <= MaxPending,
         waiting \in Seq(WaitingStep)
  PROVE  Numbered(Refilled(m))
<1>1. CASE Replayable(m) = 0
  BY <1>1 DEF Refilled
<1>2. CASE Replayable(m) # 0
  <2> DEFINE q == m.pending
             k == Replayable(m)
             t == Replayed(m)
             r == q \o t
  <2>1. /\ q \in Seq(Steps) /\ Len(q) \in Nat /\ t \in Seq(Steps) /\ Len(t) = k
        /\ k \in 1 .. MaxPending /\ Len(q) + k <= MaxPending
    BY <1>2, ReplayType, MoverAssumption DEF MoverRec, Room
  <2>2. /\ r \in Seq(Steps) /\ Len(r) = Len(q) + k
        /\ \A i \in 1 .. Len(q) + k : r[i] = IF i <= Len(q) THEN q[i] ELSE t[i - Len(q)]
    BY <2>1, ConcatProperties
  <2>3. \A i \in 1 .. k : t[i].seq = NthSeq(m, i)
    BY <2>1 DEF Replayed, Entry
  <2>4. /\ Refilled(m).pending = r /\ Refilled(m).nextSeq = NthSeq(m, k)
        /\ Refilled(m).resetPending = FALSE
    BY <1>2 DEF Refilled
  <2> HIDE DEF t, k, r
  <2>5. r[Len(r)].seq = NthSeq(m, k)
    BY <2>1, <2>2, <2>3
  <2>6. ASSUME NEW i \in 1 .. Len(r) - 1
        PROVE  r[i + 1].seq = SeqAfter(r[i].seq)
    <3> DEFINE n == i + 1
    <3>0. /\ i \in 1 .. Len(q) + k /\ n \in 1 .. Len(q) + k
      BY <2>1, <2>2
    <3> HIDE DEF n
    <3>a. /\ r[i] = IF i <= Len(q) THEN q[i] ELSE t[i - Len(q)]
          /\ r[n] = IF n <= Len(q) THEN q[n] ELSE t[n - Len(q)]
      BY <2>2, <3>0
    <3>1. CASE i < Len(q)
      <4>1. i \in 1 .. Len(q) - 1
        BY <2>1, <3>1
      <4>2. q[i + 1].seq = SeqAfter(q[i].seq)
        BY <4>1 DEF Numbered
      <4>3. i <= Len(q) /\ n <= Len(q) /\ n = i + 1
        BY <2>1, <4>1 DEF n
      <4>4. r[i] = q[i] /\ r[n] = q[n]
        BY <3>a, <4>3
      <4> QED BY <4>2, <4>3, <4>4 DEF n
    <3>2. CASE i = Len(q)
      <4>1. q # << >> /\ ~m.resetPending
        BY <2>1, <3>2, EmptySeq DEF Numbered
      <4>2. r[i] = q[Len(q)] /\ r[i + 1] = t[1]
        BY <2>1, <3>a, <3>2 DEF n
      <4>3. t[1].seq = SeqAfter(m.nextSeq)
        BY <2>1, <2>3, <4>1, NthSeqFirst
      <4> QED BY <4>1, <4>2, <4>3 DEF Numbered
    <3>3. CASE i > Len(q)
      <4> DEFINE j == i - Len(q)
                 l == n - Len(q)
      <4>1. j \in 1 .. k /\ l \in 1 .. k /\ j \in 1 .. MaxPending - 1 /\ l = j + 1
        BY <2>1, <2>2, <3>0, <3>3, MoverAssumption DEF n
      <4>2. r[i] = t[j] /\ r[n] = t[l]
        BY <2>1, <3>0, <3>a, <3>3 DEF n
      <4> HIDE DEF j, l
      <4>3. t[j].seq = NthSeq(m, j) /\ t[l].seq = NthSeq(m, l)
        BY <2>3, <4>1
      <4>4. NthSeq(m, j + 1) = SeqAfter(NthSeq(m, j))
        BY <4>1, NthSeqConsecutive
      <4> QED BY <4>1, <4>2, <4>3, <4>4 DEF n
    <3> QED BY <2>1, <2>2, <3>1, <3>2, <3>3
  <2> QED BY <2>4, <2>5, <2>6 DEF Numbered
<1> QED BY <1>1, <1>2

\* After a replay a step is left waiting only if the mover is full again.
LEMMA RefilledFull ==
  ASSUME NEW m \in MoverRec, Len(m.pending) <= MaxPending,
         waiting \in Seq(WaitingStep), Replayable(m) # Len(waiting)
  PROVE  Len(Refilled(m).pending) = MaxPending
<1>1. Len(m.pending) \in Nat /\ Len(waiting) \in Nat
  BY DEF MoverRec
<1>2. Replayable(m) = Room(m) /\ Len(Refilled(m).pending) = Len(m.pending) + Replayable(m)
  BY <1>1, ReplayType DEF Replayable
<1> QED BY <1>1, <1>2, MoverAssumption DEF Room
-----------------------------------------------------------------------------
(* The inductive invariant of the two theorems that follow.                *)

Ordered == Numbering /\ WaitingOnlyWhenFull

LEMMA ReplayOrdered ==
  ASSUME Typing, NEW m \in MoverRec, Numbered(m), Len(m.pending) <= MaxPending,
         ReplayWaiting(m)
  PROVE  Ordered'
<1>1. waiting \in Seq(WaitingStep) /\ Len(waiting) \in Nat
  BY DEF Typing, QueueType
<1>2. Numbering'
  BY <1>1, RefilledNumbered DEF ReplayWaiting, Numbering, Numbered
<1>3. WaitingOnlyWhenFull'
  <2>1. CASE Replayable(m) = Len(waiting)
    BY <1>1, <2>1, SubSeqEmpty DEF ReplayWaiting, WaitingOnlyWhenFull
  <2>2. CASE Replayable(m) # Len(waiting)
    BY <1>1, <2>2, RefilledFull DEF ReplayWaiting, WaitingOnlyWhenFull
  <2> QED BY <2>1, <2>2
<1> QED BY <1>2, <1>3 DEF Ordered

LEMMA DropOrdered ==
  ASSUME NEW p, Typing, DropMovement(mover, p)
  PROVE  Ordered'
<1>1. mover'.pending = << >> /\ waiting' = << >>
  BY DEF DropMovement, Cleared, Typing, MoverType, MoverRec
<1> QED BY <1>1 DEF Ordered, Numbering, Numbered, WaitingOnlyWhenFull

LEMMA NextOrdered == Typing /\ Ordered /\ [Next]_vars => Ordered'
<1> SUFFICES ASSUME Typing, Ordered, [Next]_vars PROVE Ordered'
  OBVIOUS
<1>1. mover \in MoverRec /\ Numbered(mover) /\ Len(mover.pending) <= MaxPending
      /\ Len(mover.pending) \in Nat
  BY DEF Typing, MoverType, Ordered, Numbering, MoverRec
<1>2. CASE UNCHANGED <<mover, waiting>>
  BY <1>2 DEF Ordered, Numbering, Numbered, WaitingOnlyWhenFull
<1>3. ASSUME NEW h \in Headings, NEW o \in Origins,
             CanEnqueue(mover), mover' = Enqueued(mover, h, o), waiting' = waiting
      PROVE  Ordered'
  <2>1. Numbering'
    BY <1>1, <1>3, EnqueuedNumbered DEF Numbering, Numbered
  <2>2. waiting = << >>
    BY <1>1, <1>3, MoverAssumption DEF Ordered, WaitingOnlyWhenFull, CanEnqueue
  <2> QED BY <1>3, <2>1, <2>2 DEF Ordered, WaitingOnlyWhenFull
<1>4. ASSUME NEW c \in Clients, NEW h \in Headings, ClientMoveRequest(c, h)
      PROVE  Ordered'
  <2> DEFINE o == [client |-> c, their |-> sent[c] + 1]
  <2>1. o \in Origins
    BY DEF Typing, ClientType, Origins
  <2>2. CASE CanEnqueue(mover)
    BY <1>3, <1>4, <2>1, <2>2 DEF ClientMoveRequest
  <2>3. CASE ~CanEnqueue(mover)
    <3>1. mover' = mover /\ Len(mover.pending) = MaxPending
      BY <1>1, <1>4, <2>3, MoverAssumption DEF ClientMoveRequest, CanEnqueue
    <3> QED BY <3>1 DEF Ordered, Numbering, Numbered, WaitingOnlyWhenFull
  <2> QED BY <2>2, <2>3
<1>5. ASSUME NEW h \in Headings, BotStep(h)
      PROVE  Ordered'
  <2>1. [client |-> Bot, their |-> steps + 1] \in Origins /\ waiting' = waiting
    BY <1>5, SessionAssumption DEF BotStep, Typing, ClientType, Origins
  <2>2. CASE CanEnqueue(mover)
    BY <1>3, <1>5, <2>1, <2>2 DEF BotStep
  <2>3. CASE ~CanEnqueue(mover)
    BY <1>2, <1>5, <2>1, <2>3 DEF BotStep
  <2> QED BY <2>2, <2>3
<1>6. ASSUME NEW s, ReplayWaiting(Acked(mover, s))
      PROVE  Ordered'
  <2>1. /\ Acked(mover, s) \in MoverRec /\ Numbered(Acked(mover, s))
        /\ Len(Acked(mover, s).pending) <= Len(mover.pending)
    BY <1>1, AckedType, AckedNumbered
  <2>2. Len(Acked(mover, s).pending) <= MaxPending
    BY <1>1, <2>1, MoverAssumption DEF MoverRec
  <2> QED BY <1>6, <2>1, <2>2, ReplayOrdered
<1>7. CASE MatchAck \/ SilentDesync
  BY <1>6, <1>7 DEF MatchAck, SilentDesync
<1>8. CASE \/ DesyncAndResync \/ ReceiveReject \/ ReceiveDraw \/ StallTimeout
           \/ \E c \in Clients : ClientResync(c)
  BY <1>8, DropOrdered
  DEF DesyncAndResync, ReceiveReject, ReceiveDraw, StallTimeout, ClientResync
<1>9. CASE \/ \E c \in Clients : AttachClient(c) \/ DetachClient(c)
           \/ FlushOutbound \/ IgnoreAck \/ ThirtySecondsPass
           \/ ServerAccept \/ ServerRefuse \/ ServerIgnore \/ ServerResync
           \/ \E x \in SnapTargets : ServerSnap(x)
           \/ UNCHANGED vars
  BY <1>2, <1>9
  DEF AttachClient, DetachClient, FlushOutbound, IgnoreAck, ThirtySecondsPass,
      ServerAccept, ServerRefuse, ServerIgnore, ServerResync, ServerSnap, ServerTakes,
      arbiterVars, pacedVars, vars
<1> QED BY <1>4, <1>5, <1>7, <1>8, <1>9 DEF Next

LEMMA OrderedAlways == Spec => [](Typing /\ Ordered)
<1>1. Init => Typing /\ Ordered
  <2>1. Init => Ordered
    BY DEF Init, Ordered, Numbering, Numbered, NewMover, WaitingOnlyWhenFull
  <2> QED BY <2>1, InitTyping
<1>2. (Typing /\ Ordered) /\ [Next]_vars => (Typing /\ Ordered)'
  BY NextTyping, NextOrdered
<1> QED BY <1>1, <1>2, PTL DEF Spec

\* No later step can be numbered before one that waits for room: the waiting
\* queue is replayed at once when a slot of the arbiter comes free.
THEOREM WaitingIsFIFO == Spec => []WaitingOnlyWhenFull
BY OrderedAlways, PTL DEF Ordered

\* The cycle of numbers is longer than the queue.
LEMMA SeqAfterDistinct ==
  ASSUME NEW s \in Seqs
  PROVE  /\ SeqAfter(s) # s
         /\ SeqAfter(SeqAfter(s)) # s
         /\ SeqAfter(SeqAfter(SeqAfter(s))) # s
BY MoverAssumption DEF SeqAfter, Seqs

LEMMA NumberedDistinct ==
  ASSUME NEW m \in MoverRec, Numbered(m), Len(m.pending) <= MaxPending,
         NEW i \in 1 .. Len(m.pending), NEW j \in 1 .. Len(m.pending), i < j
  PROVE  m.pending[i].seq # m.pending[j].seq
<1> DEFINE q == m.pending
<1>1. q \in Seq(Steps) /\ Len(q) \in Nat /\ Len(q) <= 4
  BY MoverAssumption DEF MoverRec
<1>2. q[i].seq \in Seqs
  <2>1. q[i] \in Steps
    BY <1>1, ElementOfSeq
  <2> QED BY <2>1 DEF Steps
<1>3. \A k \in 1 .. Len(q) - 1 : q[k + 1].seq = SeqAfter(q[k].seq)
  BY DEF Numbered
<1> HIDE DEF q
<1>4. CASE j = i + 1
  <2>1. i \in 1 .. Len(q) - 1
    BY <1>1, <1>4 DEF q
  <2>2. q[j].seq = SeqAfter(q[i].seq)
    BY <1>3, <1>4, <2>1
  <2> QED BY <1>2, <2>2, SeqAfterDistinct DEF q
<1>5. CASE j = i + 2
  <2> DEFINE k == i + 1
  <2>1. i \in 1 .. Len(q) - 1 /\ k \in 1 .. Len(q) - 1 /\ j = k + 1
    BY <1>1, <1>5 DEF q
  <2>2. q[k].seq = SeqAfter(q[i].seq)
    BY <1>3, <2>1
  <2> HIDE DEF k
  <2>3. q[j].seq = SeqAfter(q[k].seq)
    BY <1>3, <2>1
  <2> QED BY <1>2, <2>2, <2>3, SeqAfterDistinct DEF q
<1>6. CASE j = i + 3
  <2> DEFINE k == i + 1
             l == i + 2
  <2>1. /\ i \in 1 .. Len(q) - 1 /\ k \in 1 .. Len(q) - 1 /\ l \in 1 .. Len(q) - 1
        /\ j = l + 1 /\ l = k + 1
    BY <1>1, <1>6 DEF q
  <2>2. q[k].seq = SeqAfter(q[i].seq)
    BY <1>3, <2>1
  <2> HIDE DEF k, l
  <2>3. q[l].seq = SeqAfter(q[k].seq) /\ q[j].seq = SeqAfter(q[l].seq)
    BY <1>3, <2>1
  <2> QED BY <1>2, <2>2, <2>3, SeqAfterDistinct DEF q
<1> QED BY <1>1, <1>4, <1>5, <1>6 DEF q

\* No two pending steps share a number, whatever the wrap-around: an
\* acknowledgement can never be ambiguous among them.
THEOREM DistinctNumbers == Spec => []PendingSeqsDistinct
<1>1. Typing /\ Ordered => PendingSeqsDistinct
  <2> SUFFICES ASSUME Typing, Ordered,
                      NEW i \in DOMAIN mover.pending, NEW j \in DOMAIN mover.pending,
                      mover.pending[i].seq = mover.pending[j].seq
               PROVE  i = j
    BY DEF PendingSeqsDistinct
  <2>1. mover \in MoverRec /\ Numbered(mover) /\ Len(mover.pending) <= MaxPending
    BY DEF Typing, MoverType, Ordered, Numbering
  <2>2. i \in 1 .. Len(mover.pending) /\ j \in 1 .. Len(mover.pending)
    BY <2>1, LenProperties DEF MoverRec
  <2>3. ~(i < j) /\ ~(j < i)
    BY <2>1, <2>2, NumberedDistinct
  <2> QED BY <2>2, <2>3
<1> QED BY <1>1, OrderedAlways, PTL
-----------------------------------------------------------------------------
(* What the clients display.                                               *)

Shown ==
  /\ \A c \in Clients : clientState[c] = "new" => view[c] = NoView
  /\ ViewsAgree

LEMMA NextShown == Typing /\ Shown /\ [Next]_vars => Shown'
<1> SUFFICES ASSUME Typing, Shown, [Next]_vars PROVE Shown'
  OBVIOUS
<1>1. view \in [Clients -> Position \cup {NoView}]
      /\ clientState \in [Clients -> {"new", "attached", "gone"}]
  BY DEF Typing, ClientType
<1>2. CASE UNCHANGED <<clientState, pos, view>>
  BY <1>2 DEF Shown, ViewsAgree, Listening
<1>3. ASSUME NEW p, clientState' = clientState, pos' = p, view' = Redrawn(view, Listening, p)
      PROVE  Shown'
  <2>1. \A c \in Clients : view'[c] = IF c \in Listening THEN p ELSE view[c]
    BY <1>1, <1>3 DEF Redrawn
  <2> QED BY <1>1, <1>3, <2>1 DEF Shown, ViewsAgree, Listening
<1>4. ASSUME NEW c \in Clients, AttachClient(c) \/ DetachClient(c)
      PROVE  Shown'
  BY <1>1, <1>4 DEF AttachClient, DetachClient, Shown, ViewsAgree, Listening, arbiterVars
<1>5. ASSUME NEW c \in Clients, NEW h \in Headings, ClientMoveRequest(c, h)
      PROVE  Shown'
  <2>1. pos' = pos /\ clientState' = clientState
    BY <1>5 DEF ClientMoveRequest
  <2>2. \A d \in Clients : view'[d] = view[d] \/ (d \in Listening /\ view'[d] = pos)
    BY <1>1, <1>5 DEF ClientMoveRequest, Redrawn, Listening
  <2> QED BY <1>1, <2>1, <2>2 DEF Shown, ViewsAgree, Listening
<1>6. CASE MatchAck
  <2> DEFINE step == Head(mover.pending)
  <2>1. /\ clientState' = clientState
        /\ pos' = StepAndResolveZ(pos, step.heading)
        /\ view' = Confirmed(view, Listening, step, pos')
    BY <1>6, ReceivedType DEF MatchAck
  <2> HIDE DEF step
  <2>2. \A c \in Clients \ Listening : view'[c] = view[c]
    BY <1>1, <2>1 DEF Confirmed
  <2>3. \A c \in Listening : view'[c] = pos' \/ view'[c] = NoView
    BY <1>1, <2>1 DEF Confirmed, Shown, ViewsAgree, Listening
  <2> QED BY <1>1, <2>1, <2>2, <2>3 DEF Shown, ViewsAgree, Listening
<1>7. CASE SilentDesync
  <2>1. clientState' = clientState /\ pos' = pos /\ view' = Redrawn(view, Listening, pos)
    BY <1>7, ReceivedType DEF SilentDesync
  <2> QED BY <1>3, <2>1
<1>8. ASSUME NEW p, DropMovement(mover, p), clientState' = clientState
      PROVE  Shown'
  BY <1>3, <1>8 DEF DropMovement
<1>9. CASE \/ DesyncAndResync \/ ReceiveReject \/ ReceiveDraw \/ StallTimeout
           \/ \E c \in Clients : ClientResync(c)
  BY <1>8, <1>9, ReceivedType
  DEF DesyncAndResync, ReceiveReject, ReceiveDraw, StallTimeout, ClientResync
<1>10. CASE \/ \E h \in Headings : BotStep(h)
            \/ FlushOutbound \/ IgnoreAck \/ ThirtySecondsPass
            \/ ServerAccept \/ ServerRefuse \/ ServerIgnore \/ ServerResync
            \/ \E x \in SnapTargets : ServerSnap(x)
            \/ UNCHANGED vars
  BY <1>2, <1>10, ReceivedType
  DEF BotStep, FlushOutbound, IgnoreAck, ThirtySecondsPass, ServerAccept, ServerRefuse,
      ServerIgnore, ServerResync, ServerSnap, ServerTakes, arbiterVars, pacedVars,
      clientVars, vars
<1> QED BY <1>4, <1>5, <1>6, <1>7, <1>9, <1>10 DEF Next

\* All clients of a session display one position: the arbiter's, whatever
\* they submit, the bot submits, or the server refuses.
THEOREM SamePosition == Spec => []ViewsAgree
<1>1. Init => Shown
  BY DEF Init, Shown, ViewsAgree, Listening
<1>2. Typing /\ Shown /\ [Next]_vars => Shown'
  BY NextShown
<1>3. Spec => []Typing
  BY InitTyping, NextTyping, PTL DEF Spec
<1>4. Shown => ViewsAgree
  BY DEF Shown
<1> QED BY <1>1, <1>2, <1>3, <1>4, PTL DEF Spec

-----------------------------------------------------------------------------
(* Where the arbiter, the paced sender and the server believe the          *)
(* character stands, as long as the server answers every step, refuses     *)
(* none, and moves the character by itself only when nothing is under way. *)

OnGround(p) == p.z = Ground[0]

\* The world of the theorem: flat ground, and the server as MaxUpsets and
\* CalmSnaps describe it.  The clock may run.
CalmServer ==
  /\ CalmSnaps /\ ~Rejecting /\ ~Silent
  /\ \A x \in Coords : Ground[x] = Ground[0]
  /\ OnGround(LoginPos)

\* The pending steps are, in order, those acknowledged on the link from the
\* server, those on the link to it, and those the paced sender holds.
LinedUp(p, a, c, o) ==
  /\ Len(p) = Len(a) + Len(c) + Len(o)
  /\ \A i \in 1 .. Len(a) : a[i].type = "ack" /\ a[i].seq = p[i].seq
  /\ \A i \in 1 .. Len(c) : c[i].type = "move" /\ c[i].step = p[Len(a) + i]
  /\ \A i \in 1 .. Len(o) : o[i] = p[Len(a) + Len(c) + i]

\* The first n steps of p lead from one position to another, past mid after
\* the first m.
Trail(p, n, from, m, mid, last) ==
  \E t \in [0 .. n -> Position] :
    /\ t[0] = from /\ t[m] = mid /\ t[n] = last
    /\ \A i \in 1 .. n : t[i] = Step(t[i - 1], p[i].heading)

InStep ==
  /\ ~resyncPending
  /\ LinedUp(mover.pending, s2c, c2s, outbound)
  /\ pos.ready => Trail(mover.pending, Len(s2c) + Len(c2s), pos, Len(s2c), srv, predicted)

NothingQueued == mover.pending = << >> /\ outbound = << >> /\ waiting = << >>

\* A resync is on its way to the server, behind every step sent.
AsksServer ==
  /\ resyncPending /\ NothingQueued
  /\ c2s # << >> /\ c2s[Len(c2s)].type = "resync"
  /\ \A i \in 1 .. Len(c2s) - 1 : c2s[i].type = "move"
  /\ \A i \in 1 .. Len(s2c) : s2c[i].type = "ack"

\* A Draw is on its way back, behind acknowledgements that will be ignored.
AwaitsDraw ==
  /\ NothingQueued
  /\ c2s = << >> /\ s2c # << >>
  /\ s2c[Len(s2c)].type = "draw" /\ s2c[Len(s2c)].at = srv
  /\ \A i \in 1 .. Len(s2c) - 1 : s2c[i].type = "ack"
  /\ resyncPending \/ Len(s2c) = 1

Grounded == srv.ready /\ OnGround(srv) /\ (pos.ready => OnGround(pos))

Agreement == Grounded /\ (InStep \/ AsksServer \/ AwaitsDraw)
-----------------------------------------------------------------------------
(* The line of steps under way.                                            *)

\* A step that is numbered joins the arbiter and the paced sender.
LEMMA LinedUpJoin ==
  ASSUME NEW p \in Seq(Steps), NEW a \in Seq(FromServer), NEW c \in Seq(ToServer),
         NEW o \in Seq(Steps), NEW r \in Seq(Steps), LinedUp(p, a, c, o)
  PROVE  LinedUp(p \o r, a, c, o \o r)
<1>1. /\ Len(p) \in Nat /\ Len(a) \in Nat /\ Len(c) \in Nat /\ Len(o) \in Nat /\ Len(r) \in Nat
      /\ Len(p) = Len(a) + Len(c) + Len(o)
  BY DEF LinedUp
<1> DEFINE q == p \o r
           s == o \o r
<1>2. /\ q \in Seq(Steps) /\ Len(q) = Len(p) + Len(r)
      /\ \A i \in 1 .. Len(p) + Len(r) : q[i] = IF i <= Len(p) THEN p[i] ELSE r[i - Len(p)]
  BY ConcatProperties
<1>3. /\ s \in Seq(Steps) /\ Len(s) = Len(o) + Len(r)
      /\ \A i \in 1 .. Len(o) + Len(r) : s[i] = IF i <= Len(o) THEN o[i] ELSE r[i - Len(o)]
  BY ConcatProperties
<1> HIDE DEF q, s
<1>4. Len(q) = Len(a) + Len(c) + Len(s)
  BY <1>1, <1>2, <1>3
<1>5. \A i \in 1 .. Len(a) : a[i].type = "ack" /\ a[i].seq = q[i].seq
  <2> TAKE i \in 1 .. Len(a)
  <2>1. q[i] = p[i]
    BY <1>1, <1>2
  <2> QED BY <2>1 DEF LinedUp
<1>6. \A i \in 1 .. Len(c) : c[i].type = "move" /\ c[i].step = q[Len(a) + i]
  <2> TAKE i \in 1 .. Len(c)
  <2>1. q[Len(a) + i] = p[Len(a) + i]
    BY <1>1, <1>2
  <2> QED BY <2>1 DEF LinedUp
<1>7. \A i \in 1 .. Len(s) : s[i] = q[Len(a) + Len(c) + i]
  <2> TAKE i \in 1 .. Len(s)
  <2> DEFINE j == Len(a) + Len(c) + i
  <2>1. j \in 1 .. Len(p) + Len(r) /\ i \in 1 .. Len(o) + Len(r)
    BY <1>1, <1>3
  <2>2. CASE i <= Len(o)
    <3>1. j <= Len(p) /\ i \in 1 .. Len(o)
      BY <1>1, <2>1, <2>2
    <3> QED BY <1>2, <1>3, <2>1, <2>2, <3>1 DEF LinedUp
  <2>3. CASE ~(i <= Len(o))
    <3>1. ~(j <= Len(p)) /\ j - Len(p) = i - Len(o)
      BY <1>1, <2>1, <2>3
    <3> HIDE DEF j
    <3>2. q[j] = r[j - Len(p)] /\ s[i] = r[i - Len(o)]
      BY <1>2, <1>3, <2>1, <2>3, <3>1
    <3> QED BY <3>1, <3>2 DEF j
  <2> QED BY <2>2, <2>3
<1> QED BY <1>4, <1>5, <1>6, <1>7 DEF LinedUp, q, s

\* The paced sender lets its oldest step go.
LEMMA LinedUpFlush ==
  ASSUME NEW p \in Seq(Steps), NEW a \in Seq(FromServer), NEW c \in Seq(ToServer),
         NEW o \in Seq(Steps), o # << >>, LinedUp(p, a, c, o)
  PROVE  /\ LinedUp(p, a, Append(c, Move(Head(o))), Tail(o))
         /\ Head(o) = p[Len(a) + Len(c) + 1] /\ Len(a) + Len(c) + 1 \in 1 .. Len(p)
<1>1. /\ Len(p) \in Nat /\ Len(a) \in Nat /\ Len(c) \in Nat /\ Len(o) \in Nat /\ Len(o) >= 1
      /\ Len(p) = Len(a) + Len(c) + Len(o)
  BY EmptySeq DEF LinedUp
<1> DEFINE d == Append(c, Move(Head(o)))
           s == Tail(o)
<1>2. /\ Len(d) = Len(c) + 1 /\ d[Len(c) + 1] = Move(Head(o))
      /\ \A i \in 1 .. Len(c) : d[i] = c[i]
  OBVIOUS
<1>3. /\ Len(s) = Len(o) - 1 /\ Head(o) = o[1]
      /\ \A i \in 1 .. Len(o) - 1 : s[i] = o[i + 1]
  BY <1>1
<1>4. Head(o) = p[Len(a) + Len(c) + 1]
  BY <1>1, <1>3 DEF LinedUp
<1> HIDE DEF d, s
<1>5. \A i \in 1 .. Len(d) : d[i].type = "move" /\ d[i].step = p[Len(a) + i]
  <2> TAKE i \in 1 .. Len(d)
  <2>1. CASE i = Len(c) + 1
    BY <1>1, <1>2, <1>4, <2>1 DEF Move
  <2>2. CASE i \in 1 .. Len(c)
    BY <1>2, <2>2 DEF LinedUp
  <2> QED BY <1>1, <1>2, <2>1, <2>2
<1>6. \A i \in 1 .. Len(s) : s[i] = p[Len(a) + Len(d) + i]
  <2> TAKE i \in 1 .. Len(s)
  <2>1. /\ i \in 1 .. Len(o) - 1 /\ i + 1 \in 1 .. Len(o)
        /\ Len(a) + Len(c) + (i + 1) = Len(a) + Len(d) + i
    BY <1>1, <1>2, <1>3
  <2>2. o[i + 1] = p[Len(a) + Len(c) + (i + 1)]
    BY <2>1 DEF LinedUp
  <2> QED BY <1>3, <2>1, <2>2
<1> QED BY <1>1, <1>2, <1>3, <1>4, <1>5, <1>6 DEF LinedUp, d, s

\* The server acknowledges the oldest step it has.
LEMMA LinedUpServe ==
  ASSUME NEW p \in Seq(Steps), NEW a \in Seq(FromServer), NEW c \in Seq(ToServer),
         NEW o \in Seq(Steps), c # << >>, LinedUp(p, a, c, o)
  PROVE  /\ LinedUp(p, Append(a, AckMsg(Head(c).step)), Tail(c), o)
         /\ Head(c).step = p[Len(a) + 1]
<1>1. /\ Len(p) \in Nat /\ Len(a) \in Nat /\ Len(c) \in Nat /\ Len(o) \in Nat /\ Len(c) >= 1
      /\ Len(p) = Len(a) + Len(c) + Len(o)
  BY EmptySeq DEF LinedUp
<1> DEFINE b == Append(a, AckMsg(Head(c).step))
           d == Tail(c)
<1>2. /\ Len(b) = Len(a) + 1 /\ b[Len(a) + 1] = AckMsg(Head(c).step)
      /\ \A i \in 1 .. Len(a) : b[i] = a[i]
  OBVIOUS
<1>3. /\ Len(d) = Len(c) - 1 /\ Head(c) = c[1]
      /\ \A i \in 1 .. Len(c) - 1 : d[i] = c[i + 1]
  BY <1>1
<1>4. Head(c).step = p[Len(a) + 1]
  BY <1>1, <1>3 DEF LinedUp
<1> HIDE DEF b, d
<1>5. \A i \in 1 .. Len(b) : b[i].type = "ack" /\ b[i].seq = p[i].seq
  <2> TAKE i \in 1 .. Len(b)
  <2>1. CASE i = Len(a) + 1
    BY <1>1, <1>2, <1>4, <2>1 DEF AckMsg
  <2>2. CASE i \in 1 .. Len(a)
    BY <1>2, <2>2 DEF LinedUp
  <2> QED BY <1>1, <1>2, <2>1, <2>2
<1>6. \A i \in 1 .. Len(d) : d[i].type = "move" /\ d[i].step = p[Len(b) + i]
  <2> TAKE i \in 1 .. Len(d)
  <2>1. /\ i \in 1 .. Len(c) - 1 /\ i + 1 \in 1 .. Len(c)
        /\ Len(a) + (i + 1) = Len(b) + i
    BY <1>1, <1>2, <1>3
  <2>2. c[i + 1].type = "move" /\ c[i + 1].step = p[Len(a) + (i + 1)]
    BY <2>1 DEF LinedUp
  <2> QED BY <1>3, <2>1, <2>2
<1>7. \A i \in 1 .. Len(o) : o[i] = p[Len(b) + Len(d) + i]
  <2>1. Len(b) + Len(d) = Len(a) + Len(c)
    BY <1>1, <1>2, <1>3
  <2> QED BY <2>1 DEF LinedUp
<1>8. Len(p) = Len(b) + Len(d) + Len(o)
  BY <1>1, <1>2, <1>3
<1> QED BY <1>4, <1>5, <1>6, <1>7, <1>8 DEF LinedUp, b, d

\* The oldest acknowledgement matches the oldest pending step and takes it.
LEMMA LinedUpAck ==
  ASSUME NEW p \in Seq(Steps), NEW a \in Seq(FromServer), NEW c \in Seq(ToServer),
         NEW o \in Seq(Steps), a # << >>, LinedUp(p, a, c, o)
  PROVE  /\ LinedUp(Tail(p), Tail(a), c, o)
         /\ p # << >> /\ Head(p).seq = Head(a).seq
<1>1. /\ Len(p) \in Nat /\ Len(a) \in Nat /\ Len(c) \in Nat /\ Len(o) \in Nat /\ Len(a) >= 1
      /\ Len(p) = Len(a) + Len(c) + Len(o)
  BY EmptySeq DEF LinedUp
<1> DEFINE q == Tail(p)
           b == Tail(a)
<1>2. /\ Len(b) = Len(a) - 1 /\ Head(a) = a[1]
      /\ \A i \in 1 .. Len(a) - 1 : b[i] = a[i + 1]
  BY <1>1
<1>3. /\ Len(q) = Len(p) - 1 /\ Head(p) = p[1] /\ p # << >>
      /\ \A i \in 1 .. Len(p) - 1 : q[i] = p[i + 1]
  <2>1. Len(p) >= 1
    BY <1>1
  <2>2. p # << >>
    BY <2>1, EmptySeq
  <2> QED BY <2>2, HeadTailProperties
<1>4. Head(p).seq = Head(a).seq
  BY <1>1, <1>2, <1>3 DEF LinedUp
<1> HIDE DEF b, q
<1>5. \A i \in 1 .. Len(b) : b[i].type = "ack" /\ b[i].seq = q[i].seq
  <2> TAKE i \in 1 .. Len(b)
  <2>1. i \in 1 .. Len(a) - 1 /\ i + 1 \in 1 .. Len(a) /\ i \in 1 .. Len(p) - 1
    BY <1>1, <1>2
  <2>2. a[i + 1].type = "ack" /\ a[i + 1].seq = p[i + 1].seq
    BY <2>1 DEF LinedUp
  <2> QED BY <1>2, <1>3, <2>1, <2>2
<1>6. \A i \in 1 .. Len(c) : c[i].type = "move" /\ c[i].step = q[Len(b) + i]
  <2> TAKE i \in 1 .. Len(c)
  <2> DEFINE j == Len(b) + i
  <2>1. j \in 1 .. Len(p) - 1 /\ j + 1 = Len(a) + i
    BY <1>1, <1>2
  <2> HIDE DEF j
  <2>2. q[j] = p[j + 1] /\ c[i].type = "move" /\ c[i].step = p[Len(a) + i]
    BY <1>3, <2>1 DEF LinedUp
  <2> QED BY <2>1, <2>2 DEF j
<1>7. \A i \in 1 .. Len(o) : o[i] = q[Len(b) + Len(c) + i]
  <2> TAKE i \in 1 .. Len(o)
  <2> DEFINE j == Len(b) + Len(c) + i
  <2>1. j \in 1 .. Len(p) - 1 /\ j + 1 = Len(a) + Len(c) + i
    BY <1>1, <1>2
  <2> HIDE DEF j
  <2>2. q[j] = p[j + 1] /\ o[i] = p[Len(a) + Len(c) + i]
    BY <1>3, <2>1 DEF LinedUp
  <2> QED BY <2>1, <2>2 DEF j
<1>8. Len(q) = Len(b) + Len(c) + Len(o)
  BY <1>1, <1>2, <1>3
<1> QED BY <1>3, <1>4, <1>5, <1>6, <1>7, <1>8 DEF LinedUp, b, q
-----------------------------------------------------------------------------
(* The trail of positions.                                                 *)

\* Only the headings of the steps already sent matter.
LEMMA TrailSame ==
  ASSUME NEW p, NEW q, NEW n \in Nat, NEW from, NEW m, NEW mid, NEW last,
         \A i \in 1 .. n : q[i] = p[i], Trail(p, n, from, m, mid, last)
  PROVE  Trail(q, n, from, m, mid, last)
BY DEF Trail

\* A step that is sent takes the predicted position along.
LEMMA TrailSent ==
  ASSUME NEW p, NEW n \in Nat, NEW from, NEW m \in 0 .. n, NEW mid, NEW last,
         p[n + 1].heading \in Headings, Trail(p, n, from, m, mid, last)
  PROVE  Trail(p, n + 1, from, m, mid, Step(last, p[n + 1].heading))
<1>1. PICK t \in [0 .. n -> Position] :
        /\ t[0] = from /\ t[m] = mid /\ t[n] = last
        /\ \A i \in 1 .. n : t[i] = Step(t[i - 1], p[i].heading)
  BY DEF Trail
<1> DEFINE w == Step(last, p[n + 1].heading)
           u == [i \in 0 .. n + 1 |-> IF i = n + 1 THEN w ELSE t[i]]
<1>2. w \in Position
  <2>1. last \in Position
    BY <1>1
  <2> QED BY <2>1, StepType
<1> HIDE DEF w
<1>3. u \in [0 .. n + 1 -> Position]
  BY <1>1, <1>2
<1>4. u[0] = from /\ u[m] = mid /\ u[n + 1] = w
  BY <1>1
<1>5. \A i \in 1 .. n + 1 : u[i] = Step(u[i - 1], p[i].heading)
  <2> TAKE i \in 1 .. n + 1
  <2>1. CASE i = n + 1
    <3>1. u[i] = w /\ u[i - 1] = t[n]
      BY <2>1
    <3> QED BY <1>1, <2>1, <3>1 DEF w
  <2>2. CASE i \in 1 .. n
    <3>1. u[i] = t[i] /\ u[i - 1] = t[i - 1]
      BY <2>2
    <3> QED BY <1>1, <2>2, <3>1
  <2> QED BY <2>1, <2>2
<1> HIDE DEF u
<1> QED BY <1>3, <1>4, <1>5 DEF Trail, w

\* The server takes the next step of the trail.
LEMMA TrailServed ==
  ASSUME NEW p, NEW n \in Nat, NEW from, NEW m \in 0 .. n - 1, NEW mid, NEW last,
         Trail(p, n, from, m, mid, last)
  PROVE  Trail(p, n, from, m + 1, Step(mid, p[m + 1].heading), last)
<1>1. m + 1 \in 1 .. n /\ (m + 1) - 1 = m
  OBVIOUS
<1> QED BY <1>1 DEF Trail

\* The arbiter takes the first.
LEMMA TrailConfirmed ==
  ASSUME NEW p \in Seq(Steps), NEW n \in 1 .. Len(p), NEW from, NEW m \in 1 .. n, NEW mid, NEW last,
         Trail(p, n, from, m, mid, last)
  PROVE  Trail(Tail(p), n - 1, Step(from, Head(p).heading), m - 1, mid, last)
<1>1. PICK t \in [0 .. n -> Position] :
        /\ t[0] = from /\ t[m] = mid /\ t[n] = last
        /\ \A i \in 1 .. n : t[i] = Step(t[i - 1], p[i].heading)
  BY DEF Trail
<1>2. /\ Len(p) \in Nat /\ Head(p) = p[1] /\ Len(Tail(p)) = Len(p) - 1
      /\ \A i \in 1 .. Len(p) - 1 : Tail(p)[i] = p[i + 1]
  OBVIOUS
<1> DEFINE u == [i \in 0 .. n - 1 |-> t[i + 1]]
<1>3. u \in [0 .. n - 1 -> Position]
  BY <1>1
<1>4. u[0] = Step(from, Head(p).heading) /\ u[m - 1] = mid /\ u[n - 1] = last
  <2>1. u[0] = t[1] /\ t[1] = Step(t[0], p[1].heading)
    BY <1>1
  <2>2. u[m - 1] = t[m] /\ u[n - 1] = t[n]
    OBVIOUS
  <2> QED BY <1>1, <1>2, <2>1, <2>2
<1>5. \A i \in 1 .. n - 1 : u[i] = Step(u[i - 1], Tail(p)[i].heading)
  <2> TAKE i \in 1 .. n - 1
  <2>1. u[i] = t[i + 1] /\ u[i - 1] = t[i]
    OBVIOUS
  <2>2. i + 1 \in 1 .. n /\ (i + 1) - 1 = i /\ i \in 1 .. Len(p) - 1
    BY <1>2
  <2>3. t[i + 1] = Step(t[i], p[i + 1].heading)
    BY <1>1, <2>2
  <2> QED BY <1>2, <2>1, <2>2, <2>3
<1> HIDE DEF u
<1> QED BY <1>3, <1>4, <1>5 DEF Trail

\* On flat ground the heights take no part.
LEMMA FlatStep ==
  ASSUME CalmServer, NEW p \in Position, NEW h \in Headings, OnGround(p)
  PROVE  StepAndResolveZ(p, h) = Step(p, h) /\ OnGround(Step(p, h))
<1>1. Step(p, h) \in Position /\ Step(p, h).z = p.z
  BY StepType DEF Step, Position
<1>2. Ground[Step(p, h).x] = Ground[0]
  BY <1>1 DEF CalmServer, Position
<1>3. [Step(p, h) EXCEPT !.z = Ground[Step(p, h).x]] = Step(p, h)
  BY <1>1, <1>2 DEF OnGround, Position
<1> QED BY <1>1, <1>3 DEF StepAndResolveZ, OnGround

LEMMA StepKeeps ==
  ASSUME NEW p \in Position, NEW h \in Headings
  PROVE  StepAndResolveZ(p, h).ready = p.ready
BY DEF StepAndResolveZ, Step, Position

-----------------------------------------------------------------------------
(* Every step keeps the agreement.                                         *)

LEMMA AgreeTypes ==
  ASSUME Typing
  PROVE  /\ mover \in MoverRec /\ mover.pending \in Seq(Steps) /\ outbound \in Seq(Steps)
         /\ waiting \in Seq(WaitingStep) /\ c2s \in Seq(ToServer) /\ s2c \in Seq(FromServer)
         /\ pos \in Position /\ srv \in Position /\ predicted \in Position
         /\ resyncPending \in BOOLEAN
         /\ Len(mover.pending) \in Nat /\ Len(c2s) \in Nat /\ Len(s2c) \in Nat
         /\ Len(outbound) \in Nat /\ Len(mover.pending) <= MaxPending
BY DEF Typing, MoverType, QueueType, PositionType, LocalType, MoverRec

\* What does not touch the line of steps keeps the agreement.
LEMMA AgreeUnmoved ==
  ASSUME Agreement, waiting' = waiting \/ InStep,
         UNCHANGED <<mover, pos, outbound, predicted, resyncPending, srv, c2s, s2c>>
  PROVE  Agreement'
<1>1. Grounded' /\ (InStep => InStep')
  BY DEF Agreement, Grounded, InStep
<1>2. waiting' = waiting => (AsksServer => AsksServer') /\ (AwaitsDraw => AwaitsDraw')
  BY DEF AsksServer, AwaitsDraw, NothingQueued
<1> QED BY <1>1, <1>2 DEF Agreement

\* Nobody steps into a resync.
LEMMA SteppersInStep ==
  ASSUME Typing, CalmServer, Agreement, MayStep
  PROVE  InStep
<1>1. /\ \A i \in DOMAIN c2s : c2s[i].type # "resync"
      /\ \A i \in DOMAIN s2c : s2c[i].type # "draw"
  BY DEF CalmServer, MayStep
<1>2. AsksServer => Len(c2s) \in DOMAIN c2s
  BY AgreeTypes, EmptySeq DEF AsksServer
<1>3. AwaitsDraw => Len(s2c) \in DOMAIN s2c
  BY AgreeTypes, EmptySeq DEF AwaitsDraw
<1> QED BY <1>1, <1>2, <1>3 DEF Agreement, AsksServer, AwaitsDraw

\* A new step takes its place at the end of the line.
LEMMA AgreeJoin ==
  ASSUME Typing, Grounded, InStep, NEW r \in Seq(Steps), mover'.pending = mover.pending \o r,
         outbound' = outbound \o r,
         UNCHANGED <<pos, predicted, resyncPending, srv, c2s, s2c>>
  PROVE  Agreement'
<1> DEFINE p == mover.pending
           n == Len(s2c) + Len(c2s)
<1>1. LinedUp(p, s2c, c2s, outbound)
  BY DEF InStep
<1>2. LinedUp(p \o r, s2c, c2s, outbound \o r)
  BY <1>1, AgreeTypes, LinedUpJoin
<1>3. \A i \in 1 .. n : (p \o r)[i] = p[i]
  <2>1. p \in Seq(Steps) /\ Len(p) \in Nat /\ Len(r) \in Nat /\ n \in Nat /\ n <= Len(p)
    BY <1>1, AgreeTypes DEF LinedUp
  <2> QED BY <2>1, ConcatProperties
<1>4. pos.ready => Trail(p \o r, n, pos, Len(s2c), srv, predicted)
  <2>1. n \in Nat
    BY AgreeTypes
  <2>2. pos.ready => Trail(p, n, pos, Len(s2c), srv, predicted)
    BY DEF InStep
  <2> HIDE DEF n, p
  <2> QED BY <1>3, <2>1, <2>2, TrailSame
<1>5. InStep'
  BY <1>2, <1>4 DEF InStep
<1> QED BY <1>5 DEF Agreement, Grounded

LEMMA AgreeEnqueue ==
  ASSUME Typing, CalmServer, Agreement, MayStep, NEW h \in Headings, NEW o \in Origins,
         CanEnqueue(mover),
         mover' = Enqueued(mover, h, o),
         outbound' = Append(outbound, Entry(mover'.nextSeq, h, o)),
         UNCHANGED <<pos, predicted, resyncPending, srv, c2s, s2c>>
  PROVE  Agreement'
<1> DEFINE e == Entry(AssignedSeq(mover), h, o)
<1>1. mover'.pending = Append(mover.pending, e) /\ outbound' = Append(outbound, e)
  BY DEF Enqueued
<1>2. e \in Steps
  <2>1. AssignedSeq(mover) \in Seqs
    BY AgreeTypes, MoverAssumption DEF AssignedSeq, SeqAfter, MoverRec, Seqs
  <2> QED BY <2>1 DEF Entry, Steps
<1> HIDE DEF e
<1>3. /\ Append(mover.pending, e) = mover.pending \o << e >>
      /\ Append(outbound, e) = outbound \o << e >>
  BY <1>2, AgreeTypes, AppendIsConcat
<1>4. << e >> \in Seq(Steps)
  BY <1>2
<1> QED BY <1>1, <1>3, <1>4, SteppersInStep, AgreeJoin DEF Agreement

LEMMA AgreeRequest ==
  ASSUME Typing, CalmServer, Agreement, NEW c \in Clients, NEW h \in Headings,
         ClientMoveRequest(c, h)
  PROVE  Agreement'
<1> DEFINE o == [client |-> c, their |-> sent[c] + 1]
<1>1. o \in Origins
  BY DEF Typing, ClientType, Origins
<1>2. MayStep /\ UNCHANGED <<pos, predicted, resyncPending, srv, c2s, s2c>>
  BY DEF ClientMoveRequest
<1>3. CASE CanEnqueue(mover)
  <2>1. /\ mover' = Enqueued(mover, h, o)
        /\ outbound' = Append(outbound, Entry(mover'.nextSeq, h, o))
    BY <1>3 DEF ClientMoveRequest
  <2> HIDE DEF o
  <2> QED BY <1>1, <1>2, <1>3, <2>1, AgreeEnqueue
<1>4. CASE ~CanEnqueue(mover)
  <2>1. UNCHANGED <<mover, outbound>>
    BY <1>4 DEF ClientMoveRequest
  <2> QED BY <1>2, <2>1, SteppersInStep, AgreeUnmoved
<1> QED BY <1>3, <1>4

LEMMA AgreeBotStep ==
  ASSUME Typing, CalmServer, Agreement, NEW h \in Headings, BotStep(h)
  PROVE  Agreement'
<1> DEFINE o == [client |-> Bot, their |-> steps + 1]
<1>1. o \in Origins
  BY SessionAssumption DEF Typing, ClientType, Origins
<1>2. MayStep /\ UNCHANGED <<pos, waiting, predicted, resyncPending, srv, c2s, s2c>>
  BY DEF BotStep
<1>3. CASE CanEnqueue(mover)
  <2>1. /\ mover' = Enqueued(mover, h, o)
        /\ outbound' = Append(outbound, Entry(mover'.nextSeq, h, o))
    BY <1>3 DEF BotStep
  <2> HIDE DEF o
  <2> QED BY <1>1, <1>2, <1>3, <2>1, AgreeEnqueue
<1>4. CASE ~CanEnqueue(mover)
  <2>1. UNCHANGED <<mover, outbound>>
    BY <1>4 DEF BotStep
  <2> QED BY <1>2, <2>1, AgreeUnmoved
<1> QED BY <1>3, <1>4

LEMMA AgreeFlush ==
  ASSUME Typing, CalmServer, Agreement, FlushOutbound
  PROVE  Agreement'
<1> DEFINE p == mover.pending
           n == Len(s2c) + Len(c2s)
           e == Head(outbound)
<1>1. InStep
  BY DEF FlushOutbound, Agreement, AsksServer, AwaitsDraw, NothingQueued
<1>2. /\ outbound # << >> /\ outbound' = Tail(outbound)
      /\ predicted' = Step(predicted, e.heading)
      /\ c2s' = Append(c2s, Move(e))
      /\ UNCHANGED <<mover, pos, resyncPending, srv, s2c>>
  BY DEF FlushOutbound, arbiterVars
<1>3. /\ LinedUp(p, s2c, c2s', outbound')
      /\ e = p[n + 1] /\ n + 1 \in 1 .. Len(p)
  BY <1>1, <1>2, AgreeTypes, LinedUpFlush DEF InStep
<1>4. n \in Nat /\ Len(s2c) \in 0 .. n /\ Len(c2s') = Len(c2s) + 1
      /\ Len(s2c) + (Len(c2s) + 1) = n + 1
  <2>1. Len(s2c) \in Nat /\ Len(c2s) \in Nat /\ c2s \in Seq(ToServer)
    BY AgreeTypes
  <2>2. Len(c2s') = Len(c2s) + 1
    BY <1>2, <2>1
  <2> QED BY <2>1, <2>2
<1>5. p[n + 1].heading \in Headings
  <2>1. p[n + 1] \in Steps
    BY <1>3, AgreeTypes
  <2> QED BY <2>1 DEF Steps
<1>6. pos.ready => Trail(p, n + 1, pos, Len(s2c), srv, predicted')
  BY <1>1, <1>2, <1>3, <1>4, <1>5, TrailSent DEF InStep
<1>7. InStep'
  BY <1>1, <1>2, <1>3, <1>4, <1>6 DEF InStep
<1> QED BY <1>2, <1>7 DEF Agreement, Grounded

\* The acknowledgement the arbiter gets is the one it expects.
LEMMA AgreeMatchAck ==
  ASSUME Typing, CalmServer, Agreement, MatchAck
  PROVE  Agreement'
<1> DEFINE p == mover.pending
           n == Len(s2c) + Len(c2s)
           m == Acked(mover, Head(s2c).seq)
           r == Replayed(m)
<1>1. /\ s2c # << >> /\ Head(s2c).type = "ack" /\ ~resyncPending
      /\ s2c' = Tail(s2c) /\ UNCHANGED <<srv, predicted, resyncPending, c2s>>
      /\ pos' = StepAndResolveZ(pos, Head(p).heading)
      /\ Matches(mover, Head(s2c).seq) /\ ReplayWaiting(m)
  BY DEF MatchAck, Received
<1>2. InStep
  <2>1. AwaitsDraw => Head(s2c) = s2c[Len(s2c)]
    BY <1>1, AgreeTypes DEF AwaitsDraw
  <2> QED BY <1>1, <2>1 DEF Agreement, AsksServer, AwaitsDraw
<1>3. /\ LinedUp(Tail(p), s2c', c2s, outbound)
      /\ p # << >> /\ Head(p) = p[1] /\ Tail(p) \in Seq(Steps) /\ Head(p) \in Steps
  <2>1. LinedUp(Tail(p), s2c', c2s, outbound) /\ p # << >>
    BY <1>1, <1>2, AgreeTypes, LinedUpAck DEF InStep
  <2>2. p \in Seq(Steps)
    BY AgreeTypes
  <2> QED BY <2>1, <2>2, HeadTailProperties
<1>4. m \in MoverRec /\ m.pending = Tail(p) /\ Len(m.pending) <= MaxPending
  <2>1. m \in MoverRec /\ Len(m.pending) <= Len(p)
    BY AgreeTypes, AckedType
  <2>2. m.pending = Tail(p)
    BY <1>1, AgreeTypes DEF Acked, MoverRec
  <2>3. Len(m.pending) \in Nat
    BY <2>1 DEF MoverRec
  <2> QED BY <2>1, <2>2, <2>3, AgreeTypes, MoverAssumption
<1> HIDE DEF m
<1>5. /\ r \in Seq(Steps) /\ mover'.pending = Tail(p) \o r /\ outbound' = outbound \o r
  <2>1. r \in Seq(Steps) /\ Len(r) = Replayable(m)
    BY <1>4, AgreeTypes, ReplayType
  <2>2. mover'.pending = Tail(p) \o r
    <3>1. CASE Replayable(m) = 0
      <4>1. r = << >>
        BY <2>1, <3>1, EmptySeq
      <4>2. mover'.pending = Tail(p)
        BY <1>1, <1>4, <3>1 DEF ReplayWaiting, Refilled
      <4> HIDE DEF r, p
      <4> QED BY <1>3, <4>1, <4>2, ConcatEmptySeq
    <3>2. CASE Replayable(m) # 0
      BY <1>1, <1>4, <3>2 DEF ReplayWaiting, Refilled
    <3> QED BY <3>1, <3>2
  <2> QED BY <1>1, <2>1, <2>2 DEF ReplayWaiting
<1> HIDE DEF r
<1>6. LinedUp(Tail(p) \o r, s2c', c2s, outbound \o r)
  <2>1. s2c' \in Seq(FromServer)
    BY <1>1, AgreeTypes, HeadTailProperties
  <2> QED BY <1>3, <1>5, <2>1, AgreeTypes, LinedUpJoin
<1>7. /\ Len(s2c) \in 1 .. n /\ n \in 1 .. Len(p) /\ Len(s2c') = Len(s2c) - 1
      /\ (Len(s2c) - 1) + Len(c2s) = n - 1 /\ n - 1 \in Nat
  <2>1. /\ Len(s2c) \in Nat /\ Len(c2s) \in Nat /\ Len(outbound) \in Nat
        /\ s2c \in Seq(FromServer)
    BY AgreeTypes
  <2>2. Len(s2c) >= 1 /\ Len(s2c') = Len(s2c) - 1
    BY <1>1, <2>1, EmptySeq, HeadTailProperties
  <2>3. Len(p) = Len(s2c) + Len(c2s) + Len(outbound)
    BY <1>2 DEF InStep, LinedUp
  <2> QED BY <2>1, <2>2, <2>3
<1>8. /\ pos \in Position /\ Head(p).heading \in Headings /\ pos'.ready = pos.ready
      /\ pos.ready => pos' = Step(pos, Head(p).heading) /\ OnGround(pos')
  <2>1. pos \in Position /\ Head(p).heading \in Headings
    BY <1>3, AgreeTypes DEF Steps
  <2> QED BY <1>1, <2>1, FlatStep, StepKeeps DEF Agreement, Grounded
<1>9. pos.ready => Trail(Tail(p) \o r, n - 1, pos', Len(s2c) - 1, srv, predicted)
  <2>1. SUFFICES ASSUME pos.ready PROVE Trail(Tail(p) \o r, n - 1, pos', Len(s2c) - 1, srv, predicted)
    OBVIOUS
  <2>2. Trail(p, n, pos, Len(s2c), srv, predicted) /\ p \in Seq(Steps)
    BY <1>2, <2>1, AgreeTypes DEF InStep
  <2> HIDE DEF n, p
  <2>3. Trail(Tail(p), n - 1, pos', Len(s2c) - 1, srv, predicted)
    BY <1>7, <1>8, <2>1, <2>2, TrailConfirmed
  <2>4. \A i \in 1 .. n - 1 : (Tail(p) \o r)[i] = Tail(p)[i]
    <3>1. Len(Tail(p)) = Len(p) - 1 /\ Len(p) \in Nat
      BY <1>3, <2>2, HeadTailProperties
    <3>2. \A i \in 1 .. n - 1 : i \in 1 .. Len(Tail(p)) + Len(r) /\ i <= Len(Tail(p))
      BY <1>5, <1>7, <3>1
    <3> QED BY <1>3, <1>5, <3>2, ConcatProperties
  <2> QED BY <1>7, <2>3, <2>4, TrailSame
<1>10. InStep'
  BY <1>1, <1>5, <1>6, <1>7, <1>8, <1>9 DEF InStep
<1> QED BY <1>1, <1>8, <1>10 DEF Agreement, Grounded

\* No acknowledgement is a surprise.
LEMMA AgreeNoDesync ==
  ASSUME Typing, Agreement, Received("ack"), ~resyncPending
  PROVE  Matches(mover, Head(s2c).seq)
<1>1. s2c # << >> /\ Head(s2c).type = "ack"
  BY DEF Received
<1>2. InStep
  <2>1. AwaitsDraw => Head(s2c) = s2c[Len(s2c)]
    BY <1>1, AgreeTypes DEF AwaitsDraw
  <2> QED BY <1>1, <2>1 DEF Agreement, AsksServer, AwaitsDraw
<1> QED BY <1>1, <1>2, AgreeTypes, LinedUpAck DEF InStep, Matches

\* Acknowledgements that a resync overtook are dropped.
LEMMA AgreeIgnoreAck ==
  ASSUME Typing, Agreement, IgnoreAck
  PROVE  Agreement'
<1>1. /\ s2c # << >> /\ Head(s2c).type = "ack" /\ s2c' = Tail(s2c) /\ resyncPending
      /\ UNCHANGED <<mover, pos, outbound, waiting, predicted, resyncPending, srv, c2s>>
  BY DEF IgnoreAck, Received, arbiterVars, pacedVars
<1>2. /\ s2c \in Seq(FromServer) /\ Len(s2c) \in Nat /\ Len(s2c) >= 1 /\ Head(s2c) = s2c[1]
      /\ Len(s2c') = Len(s2c) - 1 /\ \A i \in 1 .. Len(s2c) - 1 : s2c'[i] = s2c[i + 1]
  BY <1>1, AgreeTypes, EmptySeq, HeadTailProperties
<1>3. ~InStep
  BY <1>1 DEF InStep
<1>4. CASE AsksServer
  <2>1. \A i \in 1 .. Len(s2c') : s2c'[i].type = "ack"
    <3> TAKE i \in 1 .. Len(s2c')
    <3>1. i + 1 \in 1 .. Len(s2c) /\ i \in 1 .. Len(s2c) - 1
      BY <1>2
    <3> QED BY <1>2, <1>4, <3>1 DEF AsksServer
  <2>2. AsksServer'
    BY <1>1, <1>4, <2>1 DEF AsksServer, NothingQueued
  <2> QED BY <1>1, <2>2 DEF Agreement, Grounded
<1>5. CASE AwaitsDraw
  <2>1. Len(s2c) # 1
    BY <1>1, <1>2, <1>5 DEF AwaitsDraw
  <2>2. s2c' # << >>
    BY <1>2, <2>1, EmptySeq
  <2>3. s2c'[Len(s2c')] = s2c[Len(s2c)]
    <3>1. Len(s2c') \in 1 .. Len(s2c) - 1 /\ Len(s2c') + 1 = Len(s2c)
      BY <1>2, <2>1
    <3> QED BY <1>2, <3>1
  <2>4. \A i \in 1 .. Len(s2c') - 1 : s2c'[i].type = "ack"
    <3> TAKE i \in 1 .. Len(s2c') - 1
    <3>1. i + 1 \in 1 .. Len(s2c) - 1 /\ i \in 1 .. Len(s2c) - 1
      BY <1>2
    <3> QED BY <1>2, <1>5, <3>1 DEF AwaitsDraw
  <2>5. AwaitsDraw'
    BY <1>1, <1>5, <2>2, <2>3, <2>4 DEF AwaitsDraw, NothingQueued
  <2> QED BY <1>1, <2>5 DEF Agreement, Grounded
<1> QED BY <1>3, <1>4, <1>5 DEF Agreement

\* An exit with a resync leaves only the links filled.
LEMMA AgreeResync ==
  ASSUME Typing, Agreement, InStep, DropMovement(mover, pos), SendResync, UNCHANGED <<s2c, srv>>
  PROVE  Agreement'
<1>1. /\ NothingQueued' /\ pos' = pos /\ resyncPending' /\ c2s' = Append(c2s, ResyncMsg)
  BY AgreeTypes DEF NothingQueued, DropMovement, SendResync, Cleared, MoverRec
<1>2. c2s \in Seq(ToServer) /\ Len(c2s) \in Nat
  BY AgreeTypes
<1>3. /\ c2s' # << >> /\ c2s'[Len(c2s')].type = "resync"
      /\ \A i \in 1 .. Len(c2s') - 1 : c2s'[i].type = "move"
  <2>1. /\ Len(c2s') = Len(c2s) + 1 /\ c2s'[Len(c2s) + 1] = ResyncMsg
        /\ \A i \in 1 .. Len(c2s) : c2s'[i] = c2s[i]
    BY <1>1, <1>2
  <2>2. c2s' # << >>
    BY <1>2, <2>1, EmptySeq
  <2>3. \A i \in 1 .. Len(c2s) : c2s[i].type = "move"
    BY DEF InStep, LinedUp
  <2> QED BY <1>2, <2>1, <2>2, <2>3 DEF ResyncMsg
<1>4. AsksServer'
  BY <1>1, <1>3 DEF AsksServer, InStep, LinedUp
<1> QED BY <1>1, <1>4 DEF Agreement, Grounded

LEMMA AgreeOwnResync ==
  ASSUME Typing, CalmServer, Agreement, StallTimeout \/ \E c \in Clients : ClientResync(c)
  PROVE  Agreement'
<1>1. DropMovement(mover, pos) /\ SendResync /\ UNCHANGED <<s2c, srv>>
  BY DEF StallTimeout, ClientResync
<1>2. InStep
  BY DEF StallTimeout, ClientResync, CalmServer, Idle, Agreement, AsksServer, AwaitsDraw,
         NothingQueued
<1> QED BY <1>1, <1>2, AgreeResync

\* The Draw that ends a resync, or a snap, is the last word.
LEMMA AgreeReceiveDraw ==
  ASSUME Typing, Agreement, ReceiveDraw
  PROVE  Agreement'
<1>1. /\ s2c # << >> /\ Head(s2c).type = "draw" /\ s2c' = Tail(s2c) /\ resyncPending' = FALSE
      /\ DropMovement(mover, ApplyDraw(pos, Head(s2c).at)) /\ UNCHANGED <<srv, c2s>>
  BY DEF ReceiveDraw, Received
<1>2. s2c \in Seq(FromServer) /\ Len(s2c) \in Nat /\ Len(s2c) >= 1 /\ Head(s2c) = s2c[1]
  BY <1>1, AgreeTypes, EmptySeq
<1>3. AwaitsDraw /\ Len(s2c) = 1
  <2>1. ~InStep
    BY <1>1, <1>2 DEF InStep, LinedUp
  <2>2. ~AsksServer
    BY <1>1, <1>2 DEF AsksServer
  <2>3. AwaitsDraw
    BY <2>1, <2>2 DEF Agreement
  <2>4. Len(s2c) # 1 => 1 \in 1 .. Len(s2c) - 1
    <3>1. \A k \in Nat : k >= 1 /\ k # 1 => 1 \in 1 .. k - 1
      OBVIOUS
    <3> QED BY <1>2, <3>1
  <2>5. \A i \in 1 .. Len(s2c) - 1 : s2c[i].type = "ack"
    BY <2>3 DEF AwaitsDraw
  <2>6. s2c[1].type = "draw"
    BY <1>1, <1>2
  <2> QED BY <2>3, <2>4, <2>5, <2>6
<1>4. Head(s2c).at = srv /\ c2s = << >> /\ s2c' = << >>
  BY <1>1, <1>2, <1>3 DEF AwaitsDraw
<1>5. ApplyDraw(pos, srv) = srv
  BY AgreeTypes DEF ApplyDraw, Agreement, Grounded, Position
<1>6. /\ pos' = srv /\ predicted' = srv /\ outbound' = << >> /\ mover'.pending = << >>
  BY <1>1, <1>4, <1>5, AgreeTypes DEF DropMovement, Cleared, MoverRec
<1>7. Trail(<< >>, 0, srv, 0, srv, srv)
  <2> DEFINE t == [i \in 0 .. 0 |-> srv]
  <2>1. t \in [0 .. 0 -> Position] /\ t[0] = srv
    BY AgreeTypes
  <2> HIDE DEF t
  <2>2. \A i \in 1 .. 0 : t[i] = Step(t[i - 1], << >>[i].heading)
    OBVIOUS
  <2> QED BY <2>1, <2>2 DEF Trail
<1>8. LinedUp(<< >>, << >>, << >>, << >>)
  BY EmptySeq DEF LinedUp
<1>9. InStep'
  <2>0. c2s' = << >> /\ s2c' = << >>
    BY <1>1, <1>4
  <2>1. Len(s2c') = 0 /\ Len(c2s') = 0 /\ Len(s2c') + Len(c2s') = 0
    BY <2>0, EmptySeq
  <2> QED BY <1>1, <1>6, <1>7, <1>8, <2>0, <2>1 DEF InStep
<1> QED BY <1>1, <1>6, <1>9 DEF Agreement, Grounded

LEMMA AgreeNoReject ==
  ASSUME Typing, Agreement
  PROVE  ~ReceiveReject
<1> SUFFICES ASSUME ReceiveReject PROVE FALSE
  OBVIOUS
<1>1. s2c # << >> /\ Head(s2c).type = "reject"
  BY DEF ReceiveReject, Received
<1>2. Len(s2c) \in Nat /\ Len(s2c) >= 1 /\ Head(s2c) = s2c[1]
  BY <1>1, AgreeTypes, EmptySeq
<1>3. s2c[1].type \in {"ack", "draw"}
  <2>1. InStep \/ AsksServer => s2c[1].type = "ack"
    BY <1>2 DEF InStep, LinedUp, AsksServer
  <2>2. AwaitsDraw => s2c[1].type \in {"ack", "draw"}
    BY <1>2 DEF AwaitsDraw
  <2> QED BY <2>1, <2>2 DEF Agreement
<1> QED BY <1>1, <1>2, <1>3

-----------------------------------------------------------------------------
(* The server's side of the links.                                         *)

LEMMA AgreeServerAccept ==
  ASSUME Typing, CalmServer, Agreement, ServerAccept
  PROVE  Agreement'
<1> DEFINE p == mover.pending
           n == Len(s2c) + Len(c2s)
           e == Head(c2s).step
<1>1. /\ c2s # << >> /\ Head(c2s).type = "move" /\ c2s' = Tail(c2s)
      /\ srv' = StepAndResolveZ(srv, e.heading)
      /\ s2c' = Append(s2c, AckMsg(e))
      /\ UNCHANGED <<mover, pos, outbound, waiting, predicted, resyncPending>>
  BY DEF ServerAccept, ServerTakes, arbiterVars, pacedVars
<1>2. /\ c2s \in Seq(ToServer) /\ Len(c2s) \in Nat /\ Len(c2s) >= 1 /\ Head(c2s) = c2s[1]
      /\ Len(c2s') = Len(c2s) - 1 /\ \A i \in 1 .. Len(c2s) - 1 : c2s'[i] = c2s[i + 1]
      /\ Head(c2s) \in ToServer
  BY <1>1, AgreeTypes, EmptySeq, HeadTailProperties
<1>3. /\ s2c \in Seq(FromServer) /\ Len(s2c) \in Nat /\ Len(s2c') = Len(s2c) + 1
      /\ \A i \in 1 .. Len(s2c) : s2c'[i] = s2c[i]
      /\ s2c'[Len(s2c) + 1].type = "ack"
  BY <1>1, AgreeTypes DEF AckMsg
<1>4. e.heading \in Headings /\ srv \in Position
  BY <1>1, <1>2, AgreeTypes DEF ToServer, Steps
<1>5. srv' = Step(srv, e.heading) /\ Grounded'
  <2>1. OnGround(srv) /\ srv.ready
    BY DEF Agreement, Grounded
  <2>2. srv' = Step(srv, e.heading) /\ OnGround(srv') /\ srv'.ready = srv.ready
    BY <1>1, <1>4, <2>1, FlatStep, StepKeeps
  <2> QED BY <1>1, <2>1, <2>2 DEF Agreement, Grounded
<1>6. CASE InStep
  <2>1. LinedUp(p, s2c', c2s', outbound) /\ e = p[Len(s2c) + 1]
    BY <1>1, <1>6, AgreeTypes, LinedUpServe DEF InStep
  <2>2. /\ n \in Nat /\ Len(s2c) \in 0 .. n - 1 /\ (Len(s2c) + 1) + (Len(c2s) - 1) = n
    BY <1>2, <1>3
  <2>3. pos.ready => Trail(p, n, pos, Len(s2c) + 1, srv', predicted)
    <3>1. SUFFICES ASSUME pos.ready PROVE Trail(p, n, pos, Len(s2c) + 1, srv', predicted)
      OBVIOUS
    <3>2. Trail(p, n, pos, Len(s2c), srv, predicted)
      BY <1>6, <3>1 DEF InStep
    <3> HIDE DEF n, p, e
    <3> QED BY <1>5, <2>1, <2>2, <3>2, TrailServed
  <2>4. InStep'
    BY <1>1, <1>2, <1>3, <1>6, <2>1, <2>2, <2>3 DEF InStep
  <2> QED BY <1>5, <2>4 DEF Agreement
<1>7. CASE AsksServer
  <2>1. Len(c2s) # 1
    BY <1>1, <1>2, <1>7 DEF AsksServer
  <2>2. c2s' # << >>
    BY <1>2, <2>1, EmptySeq
  <2>3. c2s'[Len(c2s')] = c2s[Len(c2s)]
    <3>1. Len(c2s') \in 1 .. Len(c2s) - 1 /\ Len(c2s') + 1 = Len(c2s)
      BY <1>2, <2>1
    <3> QED BY <1>2, <3>1
  <2>4. \A i \in 1 .. Len(c2s') - 1 : c2s'[i].type = "move"
    <3> TAKE i \in 1 .. Len(c2s') - 1
    <3>1. i + 1 \in 1 .. Len(c2s) - 1 /\ i \in 1 .. Len(c2s) - 1
      BY <1>2
    <3> QED BY <1>2, <1>7, <3>1 DEF AsksServer
  <2>5. \A i \in 1 .. Len(s2c') : s2c'[i].type = "ack"
    <3> TAKE i \in 1 .. Len(s2c')
    <3>1. i = Len(s2c) + 1 \/ i \in 1 .. Len(s2c)
      BY <1>3
    <3> QED BY <1>3, <1>7, <3>1 DEF AsksServer
  <2>6. AsksServer'
    BY <1>1, <1>7, <2>2, <2>3, <2>4, <2>5 DEF AsksServer, NothingQueued
  <2> QED BY <1>5, <2>6 DEF Agreement
<1>8. ~AwaitsDraw
  BY <1>1 DEF AwaitsDraw
<1> QED BY <1>6, <1>7, <1>8 DEF Agreement

LEMMA AgreeServerResync ==
  ASSUME Typing, Agreement, ServerResync
  PROVE  Agreement'
<1>1. /\ c2s # << >> /\ Head(c2s).type = "resync" /\ c2s' = Tail(c2s) /\ srv' = srv
      /\ s2c' = Append(s2c, DrawMsg(srv))
      /\ UNCHANGED <<mover, pos, outbound, waiting, predicted, resyncPending>>
  BY DEF ServerResync, ServerTakes, arbiterVars, pacedVars
<1>2. /\ c2s \in Seq(ToServer) /\ Len(c2s) \in Nat /\ Len(c2s) >= 1 /\ Head(c2s) = c2s[1]
      /\ Len(c2s') = Len(c2s) - 1 /\ c2s' \in Seq(ToServer)
  BY <1>1, AgreeTypes, EmptySeq, HeadTailProperties
<1>3. /\ s2c \in Seq(FromServer) /\ Len(s2c) \in Nat /\ Len(s2c') = Len(s2c) + 1
      /\ s2c' # << >> /\ \A i \in 1 .. Len(s2c) : s2c'[i] = s2c[i]
      /\ s2c'[Len(s2c) + 1] = DrawMsg(srv)
  <2>1. s2c \in Seq(FromServer) /\ Len(s2c) \in Nat /\ DrawMsg(srv) \in FromServer
    BY AgreeTypes DEF DrawMsg, FromServer
  <2>2. /\ Len(s2c') = Len(s2c) + 1 /\ \A i \in 1 .. Len(s2c) : s2c'[i] = s2c[i]
        /\ s2c'[Len(s2c) + 1] = DrawMsg(srv)
    BY <1>1, <2>1
  <2>3. s2c' # << >>
    BY <2>1, <2>2, EmptySeq
  <2> QED BY <2>1, <2>2, <2>3
<1>4. AsksServer
  <2>1. ~InStep
    BY <1>1, <1>2 DEF InStep, LinedUp
  <2> QED BY <1>1, <2>1 DEF Agreement, AwaitsDraw
<1>5. Len(c2s) = 1 /\ c2s' = << >>
  <2>1. Len(c2s) # 1 => 1 \in 1 .. Len(c2s) - 1
    BY <1>2
  <2>2. \A i \in 1 .. Len(c2s) - 1 : c2s[i].type = "move"
    BY <1>4 DEF AsksServer
  <2>3. Len(c2s) = 1
    BY <1>1, <1>2, <2>1, <2>2
  <2> QED BY <1>2, <2>3, EmptySeq
<1>6. AwaitsDraw'
  <2>1. /\ s2c'[Len(s2c')].type = "draw" /\ s2c'[Len(s2c')].at = srv'
        /\ \A i \in 1 .. Len(s2c') - 1 : s2c'[i].type = "ack"
    BY <1>1, <1>3, <1>4 DEF AsksServer, DrawMsg
  <2> QED BY <1>1, <1>3, <1>4, <1>5, <2>1 DEF AwaitsDraw, AsksServer, NothingQueued
<1> QED BY <1>1, <1>6 DEF Agreement, Grounded

\* The server moves the character while nothing is under way.
LEMMA AgreeServerSnap ==
  ASSUME Typing, Ordered, CalmServer, Agreement, NEW x \in SnapTargets, ServerSnap(x)
  PROVE  Agreement'
<1>1. /\ Idle /\ srv' = [srv EXCEPT !.x = x, !.z = Ground[x]]
      /\ s2c' = Append(s2c, DrawMsg(srv'))
      /\ UNCHANGED <<mover, pos, outbound, waiting, predicted, resyncPending, c2s>>
  BY DEF ServerSnap, CalmServer, arbiterVars, pacedVars
<1>2. NothingQueued /\ c2s = << >> /\ s2c = << >>
  <2>1. waiting = << >>
    BY <1>1, EmptySeq, MoverAssumption DEF Idle, Ordered, WaitingOnlyWhenFull
  <2> QED BY <1>1, <2>1 DEF Idle, NothingQueued
<1>3. /\ srv' \in Position /\ srv'.ready = srv.ready /\ srv'.z = Ground[x] /\ Ground[x] = Ground[0]
  BY <1>1, AgreeTypes, SessionAssumption, MapAssumption DEF Position, Coords, CalmServer
<1>4. s2c' = << DrawMsg(srv') >> /\ Len(s2c') = 1 /\ s2c' # << >> /\ s2c'[Len(s2c')] = DrawMsg(srv')
  BY <1>1, <1>2
<1>5. AwaitsDraw'
  BY <1>1, <1>2, <1>4 DEF AwaitsDraw, NothingQueued, DrawMsg
<1> QED BY <1>1, <1>3, <1>5 DEF Agreement, Grounded, OnGround

LEMMA NextAgrees ==
  Typing /\ Ordered /\ CalmServer /\ Agreement /\ [Next]_vars => Agreement'
<1> SUFFICES ASSUME Typing, Ordered, CalmServer, Agreement, [Next]_vars PROVE Agreement'
  OBVIOUS
<1>1. CASE \/ \E c \in Clients : AttachClient(c) \/ DetachClient(c)
           \/ ThirtySecondsPass \/ UNCHANGED vars
  <2>1. UNCHANGED <<mover, pos, outbound, waiting, predicted, resyncPending, srv, c2s, s2c>>
    BY <1>1 DEF AttachClient, DetachClient, ThirtySecondsPass, vars, arbiterVars, pacedVars
  <2> QED BY <2>1, AgreeUnmoved
<1>2. CASE \/ \E c \in Clients, h \in Headings : ClientMoveRequest(c, h)
           \/ \E h \in Headings : BotStep(h)
  BY <1>2, AgreeRequest, AgreeBotStep
<1>3. CASE FlushOutbound \/ IgnoreAck \/ MatchAck
  BY <1>3, AgreeFlush, AgreeIgnoreAck, AgreeMatchAck
<1>4. CASE SilentDesync \/ DesyncAndResync
  BY <1>4, AgreeNoDesync DEF SilentDesync, DesyncAndResync
<1>5. CASE ReceiveReject \/ ReceiveDraw
  BY <1>5, AgreeNoReject, AgreeReceiveDraw
<1>6. CASE StallTimeout \/ \E c \in Clients : ClientResync(c)
  BY <1>6, AgreeOwnResync
<1>7. CASE ServerAccept \/ ServerResync \/ \E x \in SnapTargets : ServerSnap(x)
  BY <1>7, AgreeServerAccept, AgreeServerResync, AgreeServerSnap
<1>8. CASE ServerRefuse \/ ServerIgnore
  BY <1>8 DEF ServerRefuse, ServerIgnore, CalmServer
<1> QED BY <1>1, <1>2, <1>3, <1>4, <1>5, <1>6, <1>7, <1>8 DEF Next

\* On flat ground, with a server that answers every step and refuses none, and
\* that moves the character by itself only when nothing is under way, the
\* arbiter, the paced sender and the server agree once the links are empty.
\* Stall deadlines may pass and clients may resync: what they drop, the Draw
\* that answers them brings back.
THEOREM AgreeAtRest == CalmServer => (Spec => []AgreeWhenIdle)
<1> SUFFICES ASSUME CalmServer PROVE Spec => []AgreeWhenIdle
  OBVIOUS
<1>1. Init => Agreement
  <2> SUFFICES ASSUME Init PROVE Agreement
    OBVIOUS
  <2>1. Grounded
    BY SessionAssumption DEF Init, Grounded, CalmServer, Unset
  <2>2. LinedUp(mover.pending, s2c, c2s, outbound)
    BY EmptySeq DEF Init, NewMover, LinedUp
  <2>3. InStep
    BY <2>2 DEF Init, InStep, Unset
  <2> QED BY <2>1, <2>3 DEF Agreement
<1>2. Typing /\ Ordered /\ Agreement /\ [Next]_vars => Agreement'
  BY NextAgrees
<1>3. Typing /\ Agreement => AgreeWhenIdle
  <2> SUFFICES ASSUME Typing, Agreement, Idle, ~resyncPending, pos.ready
               PROVE  pos = srv /\ predicted = srv
    BY DEF AgreeWhenIdle
  <2>1. InStep /\ Len(s2c) = 0 /\ Len(c2s) = 0 /\ Len(s2c) + Len(c2s) = 0
    BY EmptySeq DEF Idle, Agreement, AsksServer, AwaitsDraw
  <2>2. Trail(mover.pending, 0, pos, 0, srv, predicted)
    BY <2>1 DEF InStep
  <2> QED BY <2>2 DEF Trail
<1> QED BY <1>1, <1>2, <1>3, OrderedAlways, PTL DEF Spec
=============================================================================
