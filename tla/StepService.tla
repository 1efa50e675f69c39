----------------------------- MODULE StepService -----------------------------
(***************************************************************************)
(* What a session promises the clients that step through it, whatever the  *)
(* server, the timers and the other clients do: a step is answered at most *)
(* once, a confirmation goes to the oldest step of its client that is      *)
(* still open, a refusal of queued steps refuses all of them, and nobody   *)
(* who left is answered.                                                   *)
(***************************************************************************)
EXTENDS Naturals

CONSTANTS Clients, MaxSteps

VARIABLES clientState, sent, answer

serviceVars == <<clientState, sent, answer>>

Open(c) == {n \in 1 .. sent[c] : answer[c][n] = "none"}

ServiceInit ==
  /\ clientState = [c \in Clients |-> "new"]
  /\ sent   = [c \in Clients |-> 0]
  /\ answer = [c \in Clients |-> [n \in 1 .. MaxSteps |-> "none"]]

Attach(c) ==
  /\ clientState[c] = "new"
  /\ clientState' = [clientState EXCEPT ![c] = "attached"]
  /\ UNCHANGED <<sent, answer>>

Detach(c) ==
  /\ clientState[c] = "attached"
  /\ clientState' = [clientState EXCEPT ![c] = "gone"]
  /\ UNCHANGED <<sent, answer>>

Submit(c) ==
  /\ clientState[c] = "attached"
  /\ sent' = [sent EXCEPT ![c] = @ + 1]
  /\ UNCHANGED <<clientState, answer>>

\* There is no room: the new step is refused at once, the others stay open.
SubmitRefused(c) ==
  /\ clientState[c] = "attached"
  /\ sent' = [sent EXCEPT ![c] = @ + 1]
  /\ answer' = [answer EXCEPT ![c][sent[c] + 1] = "reject"]
  /\ UNCHANGED clientState

Confirm(c) ==
  \E n \in Open(c) :
    /\ clientState[c] = "attached"
    /\ \A k \in Open(c) : n <= k
    /\ answer' = [answer EXCEPT ![c][n] = "ack"]
    /\ UNCHANGED <<clientState, sent>>

RefuseAll ==
  /\ answer' = [c \in Clients |->
                  [n \in 1 .. MaxSteps |->
                     IF clientState[c] = "attached" /\ n \in Open(c)
                     THEN "reject" ELSE answer[c][n]]]
  /\ UNCHANGED <<clientState, sent>>

ServiceNext ==
  \/ \E c \in Clients : Attach(c) \/ Detach(c) \/ Submit(c)
                        \/ SubmitRefused(c) \/ Confirm(c)
  \/ RefuseAll

ServiceSpec == ServiceInit /\ [][ServiceNext]_serviceVars
=============================================================================
