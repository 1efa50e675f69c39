----------------------------- MODULE ActiveMover -----------------------------
(***************************************************************************)
(* ActiveMover over its PendingQueue (framework/src/rythmos): the bounded  *)
(* FIFO of steps sent for the server to acknowledge, and the sequence      *)
(* numbers given to them.  A mover is a record of the struct's fields; an  *)
(* operator returns the mover after the method of the same name.           *)
(***************************************************************************)
EXTENDS Integers, Sequences

CONSTANTS
  Clients,     \* identifiers of connected clients
  Bot,         \* StepOrigin::Internal
  MaxPending,  \* max_pending
  MaxSeq       \* the largest sequence number (255 in the code)

ASSUME MoverAssumption ==
  /\ Bot \notin Clients
  /\ MaxPending \in 1 .. 4            \* the assert of ActiveMover::new
  /\ MaxSeq \in Nat /\ MaxSeq >= 4

Seqs == 0 .. MaxSeq

\* StepOrigin: who asked for the step, and under which number of its own.
Origins == [client : Clients \cup {Bot}, their : Nat]

Entry(s, h, o) == [seq |-> s, heading |-> h, origin |-> o]

\* ActiveMover::new.
NewMover == [pending |-> << >>, nextSeq |-> 0, resetPending |-> TRUE]

CanEnqueue(m) == Len(m.pending) < MaxPending

\* Mutant: saturating_add(1).
SeqAfterSaturating(s) == IF s = MaxSeq THEN s ELSE s + 1

\* wrapping_add(1), then 0 is skipped.
SeqAfter(s) == IF s = MaxSeq THEN 1 ELSE s + 1

\* The number try_enqueue gives to the next step.
AssignedSeq(m) == IF m.resetPending THEN 0 ELSE SeqAfter(m.nextSeq)

\* try_enqueue, when CanEnqueue(m).
Enqueued(m, h, o) ==
  LET s == AssignedSeq(m)
  IN  [pending      |-> Append(m.pending, Entry(s, h, o)),
       nextSeq      |-> s,
       resetPending |-> FALSE]

\* PendingQueue::on_ack: the head matches and is popped, or all is drained.
Matches(m, s) == m.pending # << >> /\ Head(m.pending).seq = s
Acked(m, s)   == [m EXCEPT !.pending = IF Matches(m, s) THEN Tail(@) ELSE << >>]

\* on_reject and clear: everything is drained, the numbers start again at 0.
Cleared(m) == [m EXCEPT !.pending = << >>, !.resetPending = TRUE]

\* The client steps among queued entries (StepOrigin::External).
ClientSteps(q) == {q[i].origin : i \in {j \in DOMAIN q : q[j].origin.client # Bot}}
=============================================================================
