----------------------------- MODULE MoveArbiter -----------------------------
(***************************************************************************)
(* What MoveArbiter (framework/src/rythmos/move_arbiter.rs) makes of its   *)
(* ActiveMover and PositionTracker: which clients learn what from every    *)
(* event.  A step of a client ends in one Ack or one Reject; everybody     *)
(* else is redrawn.  `view' is the position a client displays: what the    *)
(* Draw packets sent to it say, advanced by its own acknowledged steps.    *)
(***************************************************************************)
EXTENDS PositionTracker, ActiveMover, FiniteSets

CONSTANT NoView      \* a client that was told no position yet

\* Mutant: clients that left are answered too.
AnsweredThoughGone(answer, S, listening, kind) ==
  [c \in DOMAIN answer |->
     [n \in DOMAIN answer[c] |->
        IF [client |-> c, their |-> n] \in S THEN kind ELSE answer[c][n]]]

\* ClientResponse::Ack / Reject, given to the steps of S that a listening
\* client asked for.
Answered(answer, S, listening, kind) ==
  [c \in DOMAIN answer |->
     [n \in DOMAIN answer[c] |->
        IF c \in listening /\ [client |-> c, their |-> n] \in S
        THEN kind ELSE answer[c][n]]]

\* A Draw (alone or inside a Reject) to every listening client.
Redrawn(view, listening, p) ==
  [c \in DOMAIN view |-> IF c \in listening THEN p ELSE view[c]]

\* Mutant: only the originator hears of a confirmed step.
ConfirmedToOriginOnly(view, listening, step, p) ==
  [c \in DOMAIN view |->
     IF c = step.origin.client /\ c \in listening /\ view[c] # NoView
     THEN StepAndResolveZ(view[c], step.heading) ELSE view[c]]

\* on_server_ack, AckOutcome::Matched: the originator takes its own step, the
\* other clients are redrawn at the position p the arbiter has moved to.
Confirmed(view, listening, step, p) ==
  [c \in DOMAIN view |->
     CASE c \notin listening                                -> view[c]
       [] c \in listening /\ c # step.origin.client          -> p
       [] c = step.origin.client /\ c \in listening
            -> IF view[c] = NoView THEN NoView
               ELSE StepAndResolveZ(view[c], step.heading)]

\* ClientResponse::Reject is part of the response to a desync exactly when a
\* drained step came from a client.
DesyncRejects(m) == ClientSteps(m.pending)
=============================================================================
