-------------------------- MODULE StepServiceProofs --------------------------
(***************************************************************************)
(* HeadlessMovement implements StepService.  The argument follows one      *)
(* queue of origins: the steps pending in the arbiter, then those waiting  *)
(* for room.  Replaying moves a step from the second part to the first and *)
(* leaves that queue as it is, an acknowledgement takes its head, a        *)
(* request joins its tail, and every exit empties it.                      *)
(***************************************************************************)
EXTENDS HeadlessMovementProofs, FiniteSetTheorems

QueueOf(p, w) ==
  [i \in 1 .. Len(p) + Len(w) |->
     IF i <= Len(p) THEN p[i].origin ELSE w[i - Len(p)].origin]

Queue == QueueOf(mover.pending, waiting)

\* The queue holds exactly the open steps of the clients that listen, and the
\* steps of one client in the order it submitted them.
Ledger(q, state, number, reply) ==
  /\ \A i \in 1 .. Len(q) : q[i].client # Bot => q[i].their \in 1 .. number[q[i].client]
  /\ \A i, j \in 1 .. Len(q) :
       i < j /\ q[i].client = q[j].client /\ q[i].client # Bot => q[i].their < q[j].their
  /\ \A c \in Clients : state[c] = "attached" =>
       \A n \in 1 .. number[c] :
         reply[c][n] = "none" <=> \E i \in 1 .. Len(q) : q[i] = [client |-> c, their |-> n]
  /\ \A c \in Clients, n \in StepIds : n > number[c] => reply[c][n] = "none"
  /\ \A c \in Clients : state[c] = "new" => number[c] = 0

Accounted == Ledger(Queue, clientState, sent, answer)
-----------------------------------------------------------------------------
(* The queue of origins.                                                   *)

LEMMA QueueOrigins ==
  ASSUME NEW p \in Seq(Steps), NEW w \in Seq(WaitingStep)
  PROVE  /\ QueueOf(p, w) \in Seq(Origins)
         /\ Len(QueueOf(p, w)) = Len(p) + Len(w)
         /\ \A i \in 1 .. Len(p) : QueueOf(p, w)[i] = p[i].origin
         /\ \A i \in 1 .. Len(w) : QueueOf(p, w)[Len(p) + i] = w[i].origin
<1>1. Len(p) \in Nat /\ Len(w) \in Nat
  OBVIOUS
<1>2. \A i \in 1 .. Len(p) : p[i].origin \in Origins
  <2> TAKE i \in 1 .. Len(p)
  <2>1. p[i] \in Steps
    BY ElementOfSeq
  <2> QED BY <2>1 DEF Steps
<1>3. \A i \in 1 .. Len(w) : w[i].origin \in Origins
  <2> TAKE i \in 1 .. Len(w)
  <2>1. w[i] \in WaitingStep
    BY ElementOfSeq
  <2> QED BY <2>1 DEF WaitingStep
<1>4. \A i \in 1 .. Len(p) + Len(w) :
        (IF i <= Len(p) THEN p[i].origin ELSE w[i - Len(p)].origin) \in Origins
  <2> TAKE i \in 1 .. Len(p) + Len(w)
  <2>1. CASE i <= Len(p)
    BY <1>1, <1>2, <2>1
  <2>2. CASE ~(i <= Len(p))
    <3> DEFINE j == i - Len(p)
    <3>1. j \in 1 .. Len(w)
      BY <1>1, <2>2
    <3> HIDE DEF j
    <3>2. w[j].origin \in Origins
      BY <1>3, <3>1
    <3> QED BY <2>2, <3>2 DEF j
  <2> QED BY <2>1, <2>2
<1>5. QueueOf(p, w) \in Seq(Origins) /\ Len(QueueOf(p, w)) = Len(p) + Len(w)
  BY <1>1, <1>4 DEF QueueOf
<1>6. \A i \in 1 .. Len(p) : QueueOf(p, w)[i] = p[i].origin
  BY <1>1 DEF QueueOf
<1>7. \A i \in 1 .. Len(w) : QueueOf(p, w)[Len(p) + i] = w[i].origin
  BY <1>1 DEF QueueOf
<1> QED BY <1>5, <1>6, <1>7

\* Replaying leaves the queue as it is.
LEMMA ReplayKeepsQueue ==
  ASSUME NEW m \in MoverRec, Len(m.pending) <= MaxPending,
         waiting \in Seq(WaitingStep), ReplayWaiting(m)
  PROVE  Queue' = QueueOf(m.pending, waiting)
<1> DEFINE q == m.pending
           k == Replayable(m)
           t == Replayed(m)
           w == SubSeq(waiting, k + 1, Len(waiting))
<1>1. /\ q \in Seq(Steps) /\ Len(q) \in Nat /\ t \in Seq(Steps) /\ Len(t) = k
      /\ k \in Nat /\ k <= Len(waiting) /\ Len(waiting) \in Nat
  BY ReplayType, MoverAssumption DEF MoverRec, Room
<1>2. Refilled(m).pending = q \o t
  <2>1. CASE k = 0
    <3>1. t = << >>
      BY <1>1, <2>1, EmptySeq
    <3> QED BY <1>1, <2>1, <3>1, ConcatEmptySeq DEF Refilled
  <2>2. CASE k # 0
    BY <2>2 DEF Refilled
  <2> QED BY <2>1, <2>2
<1>4. \A i \in 1 .. k : t[i].origin = waiting[i].origin
  BY <1>1 DEF Replayed, Entry
<1>5. /\ w \in Seq(WaitingStep) /\ Len(w) = Len(waiting) - k
      /\ \A i \in 1 .. Len(waiting) - k : w[i] = waiting[k + i]
  <2>1. \A i \in k + 1 .. Len(waiting) : waiting[i] \in WaitingStep
    BY <1>1
  <2>2. /\ w \in Seq(WaitingStep)
        /\ Len(w) = IF k + 1 <= Len(waiting) THEN Len(waiting) - (k + 1) + 1 ELSE 0
        /\ \A i \in 1 .. Len(waiting) - (k + 1) + 1 : w[i] = waiting[(k + 1) + i - 1]
    BY <1>1, <2>1, SubSeqProperties
  <2> HIDE DEF w, k
  <2>3. Len(w) = Len(waiting) - k
    BY <1>1, <2>2
  <2>4. \A i \in 1 .. Len(waiting) - k : w[i] = waiting[k + i]
    <3> TAKE i \in 1 .. Len(waiting) - k
    <3>1. i \in 1 .. Len(waiting) - (k + 1) + 1 /\ (k + 1) + i - 1 = k + i
      BY <1>1
    <3> QED BY <2>2, <3>1
  <2> QED BY <2>2, <2>3, <2>4
<1>6. mover'.pending = q \o t /\ waiting' = w
  BY <1>2 DEF ReplayWaiting
<1> HIDE DEF t, k, w, q
<1>3. /\ q \o t \in Seq(Steps) /\ Len(q \o t) = Len(q) + k
      /\ \A i \in 1 .. Len(q) + k : (q \o t)[i] = IF i <= Len(q) THEN q[i] ELSE t[i - Len(q)]
  BY <1>1, ConcatProperties
<1>7. \A i \in 1 .. Len(q) + Len(waiting) :
        QueueOf(q \o t, w)[i] = QueueOf(q, waiting)[i]
  <2> TAKE i \in 1 .. Len(q) + Len(waiting)
  <2>0. i \in 1 .. Len(q \o t) + Len(w) /\ Len(q \o t) = Len(q) + k
    BY <1>1, <1>3, <1>5
  <2>a. /\ QueueOf(q \o t, w)[i] = IF i <= Len(q) + k THEN (q \o t)[i].origin
                                  ELSE w[i - (Len(q) + k)].origin
        /\ QueueOf(q, waiting)[i] = IF i <= Len(q) THEN q[i].origin
                                   ELSE waiting[i - Len(q)].origin
    BY <2>0 DEF QueueOf
  <2>1. CASE i <= Len(q)
    <3>1. i \in 1 .. Len(q) + k /\ i <= Len(q) + k
      BY <1>1, <2>1
    <3> QED BY <1>3, <2>1, <2>a, <3>1
  <2>2. CASE ~(i <= Len(q)) /\ i <= Len(q) + k
    <3> DEFINE j == i - Len(q)
    <3>1. j \in 1 .. k /\ i \in 1 .. Len(q) + k
      BY <1>1, <2>2
    <3>2. (q \o t)[i] = t[j]
      BY <1>3, <2>2, <3>1
    <3> HIDE DEF j
    <3>3. t[j].origin = waiting[j].origin
      BY <1>4, <3>1
    <3> QED BY <2>2, <2>a, <3>2, <3>3 DEF j
  <2>3. CASE ~(i <= Len(q) + k)
    <3> DEFINE j == i - (Len(q) + k)
    <3>1. j \in 1 .. Len(waiting) - k /\ k + j = i - Len(q) /\ ~(i <= Len(q))
      BY <1>1, <2>3
    <3> HIDE DEF j
    <3>2. w[j] = waiting[k + j]
      BY <1>5, <3>1
    <3> QED BY <2>3, <2>a, <3>1, <3>2 DEF j
  <2> QED BY <2>1, <2>2, <2>3
<1>8. /\ QueueOf(q \o t, w) \in Seq(Origins) /\ QueueOf(q, waiting) \in Seq(Origins)
      /\ Len(QueueOf(q \o t, w)) = Len(q) + Len(waiting)
      /\ Len(QueueOf(q, waiting)) = Len(q) + Len(waiting)
  <2>1. /\ QueueOf(q \o t, w) \in Seq(Origins)
        /\ Len(QueueOf(q \o t, w)) = (Len(q) + k) + (Len(waiting) - k)
    BY <1>3, <1>5, QueueOrigins
  <2>2. /\ QueueOf(q, waiting) \in Seq(Origins)
        /\ Len(QueueOf(q, waiting)) = Len(q) + Len(waiting)
    BY <1>1, QueueOrigins
  <2> QED BY <1>1, <2>1, <2>2
<1>9. QueueOf(q \o t, w) = QueueOf(q, waiting)
  BY <1>7, <1>8, SeqEqual
<1> QED BY <1>6, <1>9 DEF Queue, q
-----------------------------------------------------------------------------
(* How the queue and the answers change together.                          *)

Replies == [Clients -> [StepIds -> Kinds]]

\* A request joins the tail.
LEMMA LedgerSubmit ==
  ASSUME NEW q \in Seq(Origins), NEW state, NEW number \in [Clients -> Nat],
         NEW reply \in Replies, Ledger(q, state, number, reply),
         NEW c \in Clients, number[c] + 1 \in StepIds, state[c] # "new"
  PROVE  Ledger(Append(q, [client |-> c, their |-> number[c] + 1]), state,
                [number EXCEPT ![c] = @ + 1], reply)
<1> DEFINE o == [client |-> c, their |-> number[c] + 1]
           r == Append(q, o)
           k == [number EXCEPT ![c] = @ + 1]
<1>1. /\ o.client = c /\ o.their = number[c] + 1 /\ c # Bot /\ number[c] \in Nat
      /\ k[c] = number[c] + 1 /\ \A d \in Clients : d # c => k[d] = number[d]
  BY MoverAssumption
<1>2. /\ Len(q) \in Nat /\ Len(r) = Len(q) + 1 /\ r[Len(q) + 1] = o
      /\ \A i \in 1 .. Len(q) : r[i] = q[i] /\ q[i] \in Origins
  OBVIOUS
<1>3. \A d \in Clients : number[d] \in Nat
  OBVIOUS
<1> HIDE DEF r, k
<1>4. \A i \in 1 .. Len(r) : r[i].client # Bot => r[i].their \in 1 .. k[r[i].client]
  <2> SUFFICES ASSUME NEW i \in 1 .. Len(r), r[i].client # Bot
               PROVE  r[i].their \in 1 .. k[r[i].client]
    OBVIOUS
  <2>1. CASE i = Len(q) + 1
    BY <1>1, <1>2, <2>1
  <2>2. CASE i \in 1 .. Len(q)
    <3>1. r[i] = q[i] /\ q[i] \in Origins /\ q[i].their \in 1 .. number[q[i].client]
      BY <1>2, <2>2 DEF Ledger
    <3>2. q[i].client \in Clients
      BY <3>1 DEF Origins
    <3> QED BY <1>1, <1>3, <3>1, <3>2
  <2> QED BY <1>2, <2>1, <2>2
<1>5. \A i, j \in 1 .. Len(r) :
        i < j /\ r[i].client = r[j].client /\ r[i].client # Bot => r[i].their < r[j].their
  <2> SUFFICES ASSUME NEW i \in 1 .. Len(r), NEW j \in 1 .. Len(r),
                      i < j, r[i].client = r[j].client, r[i].client # Bot
               PROVE  r[i].their < r[j].their
    OBVIOUS
  <2>1. i \in 1 .. Len(q) /\ r[i] = q[i]
    BY <1>2
  <2>2. CASE j = Len(q) + 1
    <3>1. q[i].client = c /\ q[i].their \in 1 .. number[c] /\ r[j] = o
      BY <1>1, <1>2, <2>1, <2>2 DEF Ledger
    <3> QED BY <1>1, <2>1, <3>1
  <2>3. CASE j \in 1 .. Len(q)
    BY <1>2, <2>1, <2>3 DEF Ledger
  <2> QED BY <1>2, <2>2, <2>3
<1>6. \A d \in Clients : state[d] = "attached" =>
        \A n \in 1 .. k[d] :
          reply[d][n] = "none" <=> \E i \in 1 .. Len(r) : r[i] = [client |-> d, their |-> n]
  <2> SUFFICES ASSUME NEW d \in Clients, state[d] = "attached", NEW n \in 1 .. k[d]
               PROVE  reply[d][n] = "none"
                      <=> \E i \in 1 .. Len(r) : r[i] = [client |-> d, their |-> n]
    OBVIOUS
  <2>1. CASE d = c /\ n = number[c] + 1
    <3>1. r[Len(q) + 1] = [client |-> d, their |-> n] /\ Len(q) + 1 \in 1 .. Len(r)
      BY <1>2, <2>1
    <3>2. reply[d][n] = "none"
      BY <1>1, <2>1 DEF Ledger
    <3> QED BY <3>1, <3>2
  <2>2. CASE ~(d = c /\ n = number[c] + 1)
    <3>1. n \in 1 .. number[d]
      BY <1>1, <1>3, <2>2
    <3>2. reply[d][n] = "none" <=> \E i \in 1 .. Len(q) : q[i] = [client |-> d, their |-> n]
      BY <3>1 DEF Ledger
    <3>3. o # [client |-> d, their |-> n]
      BY <2>2
    <3>4. (\E i \in 1 .. Len(q) : q[i] = [client |-> d, their |-> n])
          <=> \E i \in 1 .. Len(r) : r[i] = [client |-> d, their |-> n]
      <4> HIDE DEF o
      <4>1. ASSUME NEW i \in 1 .. Len(q), q[i] = [client |-> d, their |-> n]
            PROVE  \E l \in 1 .. Len(r) : r[l] = [client |-> d, their |-> n]
        <5>1. i \in 1 .. Len(r) /\ r[i] = q[i]
          BY <1>2
        <5> QED BY <4>1, <5>1
      <4>2. ASSUME NEW i \in 1 .. Len(r), r[i] = [client |-> d, their |-> n]
            PROVE  \E l \in 1 .. Len(q) : q[l] = [client |-> d, their |-> n]
        <5>1. i # Len(q) + 1
          BY <1>2, <3>3, <4>2
        <5>2. i \in 1 .. Len(q) /\ r[i] = q[i]
          BY <1>2, <5>1
        <5> QED BY <4>2, <5>2
      <4> QED BY <4>1, <4>2
    <3> QED BY <3>2, <3>4
  <2> QED BY <2>1, <2>2
<1>7. \A d \in Clients, n \in StepIds : n > k[d] => reply[d][n] = "none"
  <2> TAKE d \in Clients, n \in StepIds
  <2>1. n > k[d] => n > number[d]
    BY <1>1, <1>3, SessionAssumption DEF StepIds
  <2> QED BY <2>1 DEF Ledger
<1>8. \A d \in Clients : state[d] = "new" => k[d] = 0
  BY <1>1 DEF Ledger
<1> HIDE DEF o
<1>9. Ledger(r, state, k, reply)
  BY <1>4, <1>5, <1>6, <1>7, <1>8 DEF Ledger
<1> QED BY <1>9 DEF r, k, o

\* A request that finds no room is answered at once.
LEMMA LedgerRefused ==
  ASSUME NEW q \in Seq(Origins), NEW state, NEW number \in [Clients -> Nat],
         NEW reply \in Replies, Ledger(q, state, number, reply),
         NEW c \in Clients, number[c] + 1 \in StepIds, state[c] # "new"
  PROVE  Ledger(q, state, [number EXCEPT ![c] = @ + 1],
                [reply EXCEPT ![c][number[c] + 1] = "reject"])
<1> DEFINE k == [number EXCEPT ![c] = @ + 1]
           a == [reply EXCEPT ![c][number[c] + 1] = "reject"]
<1>1. /\ \A d \in Clients : number[d] \in Nat /\ c # Bot
      /\ k[c] = number[c] + 1 /\ \A d \in Clients : d # c => k[d] = number[d]
  BY MoverAssumption
<1>2. /\ a[c][number[c] + 1] = "reject"
      /\ \A d \in Clients, n \in StepIds :
           ~(d = c /\ n = number[c] + 1) => a[d][n] = reply[d][n]
  BY DEF Replies
<1>3. \A i \in 1 .. Len(q) : q[i].client # Bot =>
        q[i].client \in Clients /\ q[i].their \in 1 .. number[q[i].client]
  <2> TAKE i \in 1 .. Len(q)
  <2>1. q[i] \in Origins
    BY ElementOfSeq
  <2> QED BY <2>1 DEF Origins, Ledger
<1> HIDE DEF k, a
<1>4. \A i \in 1 .. Len(q) : q[i].client # Bot => q[i].their \in 1 .. k[q[i].client]
  BY <1>1, <1>3
<1>5. \A d \in Clients : state[d] = "attached" =>
        \A n \in 1 .. k[d] :
          a[d][n] = "none" <=> \E i \in 1 .. Len(q) : q[i] = [client |-> d, their |-> n]
  <2> SUFFICES ASSUME NEW d \in Clients, state[d] = "attached", NEW n \in 1 .. k[d]
               PROVE  a[d][n] = "none"
                      <=> \E i \in 1 .. Len(q) : q[i] = [client |-> d, their |-> n]
    OBVIOUS
  <2>1. CASE d = c /\ n = number[c] + 1
    <3>1. \A i \in 1 .. Len(q) : q[i] # [client |-> d, their |-> n]
      BY <1>1, <1>3, <2>1
    <3> QED BY <1>2, <2>1, <3>1
  <2>2. CASE ~(d = c /\ n = number[c] + 1)
    <3>1. n \in 1 .. number[d]
      BY <1>1, <2>2
    <3>2. n \in StepIds \/ reply[d][n] = a[d][n]
      <4>1. CASE d = c
        BY <1>1, <3>1, <4>1, SessionAssumption DEF StepIds
      <4>2. CASE d # c
        BY <4>2 DEF a, Replies
      <4> QED BY <4>1, <4>2
    <3>3. a[d][n] = reply[d][n]
      BY <1>2, <2>2, <3>2
    <3> QED BY <3>1, <3>3 DEF Ledger
  <2> QED BY <2>1, <2>2
<1>6. \A d \in Clients, n \in StepIds : n > k[d] => a[d][n] = "none"
  <2> TAKE d \in Clients, n \in StepIds
  <2>1. n > k[d] => n > number[d] /\ ~(d = c /\ n = number[c] + 1)
    BY <1>1, SessionAssumption DEF StepIds
  <2> QED BY <1>2, <2>1 DEF Ledger
<1>7. \A d \in Clients : state[d] = "new" => k[d] = 0
  BY <1>1 DEF Ledger
<1>8. Ledger(q, state, k, a)
  BY <1>4, <1>5, <1>6, <1>7 DEF Ledger
<1> QED BY <1>8 DEF k, a

\* Steps of the bot are in nobody's account.
LEMMA LedgerBot ==
  ASSUME NEW q \in Seq(Origins), NEW state, NEW number, NEW reply,
         Ledger(q, state, number, reply), NEW o \in Origins, o.client = Bot
  PROVE  Ledger(Append(q, o), state, number, reply)
<1> DEFINE r == Append(q, o)
<1>1. /\ Len(q) \in Nat /\ Len(r) = Len(q) + 1 /\ r[Len(q) + 1] = o
      /\ \A i \in 1 .. Len(q) : r[i] = q[i]
  OBVIOUS
<1> HIDE DEF r
<1>2. \A i \in 1 .. Len(r) : r[i].client # Bot => i \in 1 .. Len(q)
  BY <1>1
<1>3. \A i \in 1 .. Len(r) : r[i].client # Bot => r[i].their \in 1 .. number[r[i].client]
  BY <1>1, <1>2 DEF Ledger
<1>4. \A i, j \in 1 .. Len(r) :
        i < j /\ r[i].client = r[j].client /\ r[i].client # Bot => r[i].their < r[j].their
  BY <1>1, <1>2 DEF Ledger
<1>5. \A d \in Clients : \A n :
        (\E i \in 1 .. Len(q) : q[i] = [client |-> d, their |-> n])
        <=> \E i \in 1 .. Len(r) : r[i] = [client |-> d, their |-> n]
  <2> TAKE d \in Clients
  <2> TAKE n
  <2>1. ASSUME NEW i \in 1 .. Len(q), q[i] = [client |-> d, their |-> n]
        PROVE  \E l \in 1 .. Len(r) : r[l] = [client |-> d, their |-> n]
    <3>1. i \in 1 .. Len(r) /\ r[i] = q[i]
      BY <1>1
    <3> QED BY <2>1, <3>1
  <2>2. ASSUME NEW i \in 1 .. Len(r), r[i] = [client |-> d, their |-> n]
        PROVE  \E l \in 1 .. Len(q) : q[l] = [client |-> d, their |-> n]
    <3>1. r[i].client # Bot
      BY <2>2, MoverAssumption
    <3>2. i \in 1 .. Len(q) /\ r[i] = q[i]
      BY <1>1, <1>2, <3>1
    <3> QED BY <2>2, <3>2
  <2> QED BY <2>1, <2>2
<1>6. \A d \in Clients : state[d] = "attached" =>
        \A n \in 1 .. number[d] :
          reply[d][n] = "none" <=> \E i \in 1 .. Len(r) : r[i] = [client |-> d, their |-> n]
  BY <1>5 DEF Ledger
<1>7. Ledger(r, state, number, reply)
  BY <1>3, <1>4, <1>6 DEF Ledger
<1> QED BY <1>7 DEF r

Attached(state) == {c \in Clients : state[c] = "attached"}

\* An acknowledgement takes the head, which is the oldest open step of its
\* client.
LEMMA LedgerConfirm ==
  ASSUME NEW q \in Seq(Origins), q # << >>, NEW state, NEW number \in [Clients -> 0 .. MaxSteps],
         NEW reply \in Replies, Ledger(q, state, number, reply)
  PROVE  Ledger(Tail(q), state, number, Answered(reply, {Head(q)}, Attached(state), "ack"))
<1> DEFINE o == Head(q)
           r == Tail(q)
           a == Answered(reply, {o}, Attached(state), "ack")
<1>1. /\ Len(q) \in Nat \ {0} /\ o = q[1] /\ r \in Seq(Origins) /\ Len(r) = Len(q) - 1
      /\ \A i \in 1 .. Len(q) - 1 : r[i] = q[i + 1]
  BY EmptySeq, HeadTailProperties
<1>2. \A d \in Clients, n \in StepIds :
        a[d][n] = IF state[d] = "attached" /\ [client |-> d, their |-> n] = o
                  THEN "ack" ELSE reply[d][n]
  BY DEF Answered, Attached, Replies
<1> HIDE DEF o, r, a
<1>3. \A i \in 1 .. Len(r) : i + 1 \in 1 .. Len(q) /\ r[i] = q[i + 1]
  BY <1>1
<1>4. \A i \in 1 .. Len(r) : r[i].client # Bot => r[i].their \in 1 .. number[r[i].client]
  <2> TAKE i \in 1 .. Len(r)
  <2> DEFINE j == i + 1
  <2>1. j \in 1 .. Len(q) /\ r[i] = q[j]
    BY <1>3
  <2> HIDE DEF j
  <2> QED BY <2>1 DEF Ledger
<1>5. \A i, j \in 1 .. Len(r) :
        i < j /\ r[i].client = r[j].client /\ r[i].client # Bot => r[i].their < r[j].their
  <2> TAKE i, j \in 1 .. Len(r)
  <2> DEFINE k == i + 1
             l == j + 1
  <2>1. k \in 1 .. Len(q) /\ l \in 1 .. Len(q) /\ r[i] = q[k] /\ r[j] = q[l] /\ (i < j => k < l)
    BY <1>3
  <2> HIDE DEF k, l
  <2> QED BY <2>1 DEF Ledger
<1>6. \A d \in Clients : state[d] = "attached" =>
        \A n \in 1 .. number[d] :
          a[d][n] = "none" <=> \E i \in 1 .. Len(r) : r[i] = [client |-> d, their |-> n]
  <2> SUFFICES ASSUME NEW d \in Clients, state[d] = "attached", NEW n \in 1 .. number[d]
               PROVE  a[d][n] = "none"
                      <=> \E i \in 1 .. Len(r) : r[i] = [client |-> d, their |-> n]
    OBVIOUS
  <2>0. n \in StepIds /\ n \in Nat /\ d # Bot
    BY SessionAssumption, MoverAssumption DEF StepIds
  <2>1. CASE [client |-> d, their |-> n] = o
    <3>1. a[d][n] # "none"
      BY <1>2, <2>0, <2>1
    <3>2. ASSUME NEW i \in 1 .. Len(r), r[i] = [client |-> d, their |-> n]
          PROVE  FALSE
      <4> DEFINE j == i + 1
      <4>1. j \in 1 .. Len(q) /\ q[j] = [client |-> d, their |-> n] /\ 1 < j /\ 1 \in 1 .. Len(q)
        BY <1>1, <1>3, <3>2
      <4>2. q[1] = [client |-> d, their |-> n]
        BY <1>1, <2>1
      <4> HIDE DEF j
      <4>3. q[1].their < q[j].their
        BY <2>0, <4>1, <4>2 DEF Ledger
      <4> QED BY <2>0, <4>1, <4>2, <4>3
    <3> QED BY <3>1, <3>2
  <2>2. CASE [client |-> d, their |-> n] # o
    <3>1. a[d][n] = reply[d][n]
      BY <1>2, <2>0, <2>2
    <3>2. reply[d][n] = "none" <=> \E i \in 1 .. Len(q) : q[i] = [client |-> d, their |-> n]
      BY DEF Ledger
    <3>3. ASSUME NEW i \in 1 .. Len(q), q[i] = [client |-> d, their |-> n]
          PROVE  \E l \in 1 .. Len(r) : r[l] = [client |-> d, their |-> n]
      <4> DEFINE l == i - 1
      <4>1. i # 1
        BY <1>1, <2>2, <3>3
      <4>2. l \in 1 .. Len(r) /\ l \in 1 .. Len(q) - 1 /\ l + 1 = i
        BY <1>1, <4>1
      <4> HIDE DEF l
      <4>3. r[l] = q[i]
        BY <1>1, <4>2
      <4> QED BY <3>3, <4>2, <4>3
    <3>4. ASSUME NEW i \in 1 .. Len(r), r[i] = [client |-> d, their |-> n]
          PROVE  \E l \in 1 .. Len(q) : q[l] = [client |-> d, their |-> n]
      BY <1>3, <3>4
    <3> QED BY <3>1, <3>2, <3>3, <3>4
  <2> QED BY <2>1, <2>2
<1>7. \A d \in Clients, n \in StepIds : n > number[d] => a[d][n] = "none"
  <2> SUFFICES ASSUME NEW d \in Clients, NEW n \in StepIds, n > number[d]
               PROVE  a[d][n] = "none"
    OBVIOUS
  <2>1. [client |-> d, their |-> n] # o
    <3> SUFFICES ASSUME [client |-> d, their |-> n] = o PROVE FALSE
      OBVIOUS
    <3>1. 1 \in 1 .. Len(q) /\ q[1].client = d /\ q[1].their = n
      BY <1>1
    <3>2. n \in 1 .. number[d]
      BY <3>1, MoverAssumption DEF Ledger
    <3> QED BY <3>2
  <2>2. reply[d][n] = "none"
    BY DEF Ledger
  <2> QED BY <1>2, <2>1, <2>2
<1>8. \A d \in Clients : state[d] = "new" => number[d] = 0
  BY DEF Ledger
<1>9. Ledger(r, state, number, a)
  BY <1>4, <1>5, <1>6, <1>7, <1>8 DEF Ledger
<1> QED BY <1>9 DEF r, a, o

\* An exit refuses every step of the queue.
LEMMA LedgerEmpty ==
  ASSUME NEW q \in Seq(Origins), NEW state, NEW number \in [Clients -> 0 .. MaxSteps],
         NEW reply \in Replies, Ledger(q, state, number, reply), NEW S,
         \A c \in Clients, n \in StepIds :
           [client |-> c, their |-> n] \in S
           <=> \E i \in 1 .. Len(q) : q[i] = [client |-> c, their |-> n]
  PROVE  Ledger(<< >>, state, number, Answered(reply, S, Attached(state), "reject"))
<1> DEFINE a == Answered(reply, S, Attached(state), "reject")
<1>1. \A d \in Clients, n \in StepIds :
        a[d][n] = IF state[d] = "attached" /\ [client |-> d, their |-> n] \in S
                  THEN "reject" ELSE reply[d][n]
  BY DEF Answered, Attached, Replies
<1> HIDE DEF a
<1>2. ASSUME NEW d \in Clients, state[d] = "attached", NEW n \in 1 .. number[d]
      PROVE  a[d][n] # "none"
  <2>1. n \in StepIds
    BY SessionAssumption DEF StepIds
  <2>2. [client |-> d, their |-> n] \in S <=> reply[d][n] = "none"
    BY <1>2, <2>1 DEF Ledger
  <2> QED BY <1>1, <1>2, <2>1, <2>2
<1>3. ASSUME NEW d \in Clients, NEW n \in StepIds, n > number[d]
      PROVE  a[d][n] = "none"
  <2>1. reply[d][n] = "none"
    BY <1>3 DEF Ledger
  <2>2. [client |-> d, their |-> n] \notin S
    <3> SUFFICES ASSUME NEW i \in 1 .. Len(q), q[i] = [client |-> d, their |-> n]
                 PROVE  FALSE
      OBVIOUS
    <3>1. n \in 1 .. number[d]
      BY MoverAssumption DEF Ledger
    <3> QED BY <1>3, <3>1
  <2> QED BY <1>1, <2>1, <2>2
<1>4. Len(<< >>) = 0 /\ \A d \in Clients : state[d] = "new" => number[d] = 0
  BY DEF Ledger
<1>5. Ledger(<< >>, state, number, a)
  BY <1>2, <1>3, <1>4 DEF Ledger
<1> QED BY <1>5 DEF a

\* Steps of the bot leave the head of the queue unnoticed.
LEMMA LedgerSkip ==
  ASSUME NEW q \in Seq(Origins), NEW k \in 0 .. Len(q), NEW r \in Seq(Origins),
         Len(r) = Len(q) - k, \A i \in 1 .. Len(r) : r[i] = q[k + i],
         \A i \in 1 .. k : q[i].client = Bot,
         NEW state, NEW number, NEW reply, Ledger(q, state, number, reply)
  PROVE  Ledger(r, state, number, reply)
<1>1. Len(q) \in Nat /\ Len(r) \in Nat /\ k \in Nat
  OBVIOUS
<1>2. \A i \in 1 .. Len(r) : k + i \in 1 .. Len(q) /\ r[i] = q[k + i]
  BY <1>1
<1>3. \A i \in 1 .. Len(r) : r[i].client # Bot => r[i].their \in 1 .. number[r[i].client]
  <2> TAKE i \in 1 .. Len(r)
  <2> DEFINE j == k + i
  <2>1. j \in 1 .. Len(q) /\ r[i] = q[j]
    BY <1>2
  <2> HIDE DEF j
  <2> QED BY <2>1 DEF Ledger
<1>4. \A i, j \in 1 .. Len(r) :
        i < j /\ r[i].client = r[j].client /\ r[i].client # Bot => r[i].their < r[j].their
  <2> TAKE i, j \in 1 .. Len(r)
  <2> DEFINE l == k + i
             m == k + j
  <2>1. l \in 1 .. Len(q) /\ m \in 1 .. Len(q) /\ r[i] = q[l] /\ r[j] = q[m] /\ (i < j => l < m)
    BY <1>1, <1>2
  <2> HIDE DEF l, m
  <2> QED BY <2>1 DEF Ledger
<1>5. ASSUME NEW d \in Clients, NEW n
      PROVE  (\E i \in 1 .. Len(q) : q[i] = [client |-> d, their |-> n])
             <=> \E i \in 1 .. Len(r) : r[i] = [client |-> d, their |-> n]
  <2>1. ASSUME NEW i \in 1 .. Len(q), q[i] = [client |-> d, their |-> n]
        PROVE  \E l \in 1 .. Len(r) : r[l] = [client |-> d, their |-> n]
    <3> DEFINE l == i - k
    <3>1. i \notin 1 .. k
      BY <2>1, MoverAssumption
    <3>2. l \in 1 .. Len(r) /\ k + l = i
      BY <1>1, <3>1
    <3> HIDE DEF l
    <3>3. r[l] = q[i]
      BY <1>2, <3>2
    <3> QED BY <2>1, <3>2, <3>3
  <2>2. ASSUME NEW i \in 1 .. Len(r), r[i] = [client |-> d, their |-> n]
        PROVE  \E l \in 1 .. Len(q) : q[l] = [client |-> d, their |-> n]
    BY <1>2, <2>2
  <2> QED BY <2>1, <2>2
<1>6. \A d \in Clients : state[d] = "attached" =>
        \A n \in 1 .. number[d] :
          reply[d][n] = "none" <=> \E i \in 1 .. Len(r) : r[i] = [client |-> d, their |-> n]
  BY <1>5 DEF Ledger
<1> QED BY <1>3, <1>4, <1>6 DEF Ledger

\* Who comes or goes has nothing to be answered, or is answered no more.
LEMMA LedgerComeOrGo ==
  ASSUME NEW q \in Seq(Origins), NEW state \in [Clients -> {"new", "attached", "gone"}],
         NEW number \in [Clients -> Nat], NEW reply, Ledger(q, state, number, reply),
         NEW c \in Clients,
         NEW s \in {"attached", "gone"}, state[c] = "attached" \/ s = "attached",
         state[c] # "gone"
  PROVE  Ledger(q, [state EXCEPT ![c] = s], number, reply)
<1> DEFINE t == [state EXCEPT ![c] = s]
<1>1. t[c] = s /\ \A d \in Clients : d # c => t[d] = state[d]
  OBVIOUS
<1> HIDE DEF t
<1>2. \A d \in Clients : t[d] = "attached" =>
        \A n \in 1 .. number[d] :
          reply[d][n] = "none" <=> \E i \in 1 .. Len(q) : q[i] = [client |-> d, their |-> n]
  <2> SUFFICES ASSUME NEW d \in Clients, t[d] = "attached", NEW n \in 1 .. number[d]
               PROVE  reply[d][n] = "none"
                      <=> \E i \in 1 .. Len(q) : q[i] = [client |-> d, their |-> n]
    OBVIOUS
  <2>1. CASE state[d] = "attached"
    BY <2>1 DEF Ledger
  <2>2. CASE state[d] = "new"
    BY <2>2 DEF Ledger
  <2> QED BY <1>1, <2>1, <2>2
<1>3. \A d \in Clients : t[d] = "new" => number[d] = 0
  BY <1>1 DEF Ledger
<1>4. Ledger(q, t, number, reply)
  BY <1>2, <1>3 DEF Ledger
<1> QED BY <1>4 DEF t
-----------------------------------------------------------------------------
(* What the operations of the session do to the queue.                     *)

LEMMA ClientStepsOf ==
  ASSUME NEW S, NEW q \in Seq(S), NEW c \in Clients, NEW n
  PROVE  [client |-> c, their |-> n] \in ClientSteps(q)
         <=> \E i \in 1 .. Len(q) : q[i].origin = [client |-> c, their |-> n]
<1> DEFINE o == [client |-> c, their |-> n]
<1>1. DOMAIN q = 1 .. Len(q) /\ o.client # Bot
  BY MoverAssumption
<1> HIDE DEF o
<1>2. o \in ClientSteps(q) <=> \E i \in 1 .. Len(q) : q[i].origin = o
  BY <1>1 DEF ClientSteps
<1> QED BY <1>2 DEF o

\* The steps an exit refuses are those of the queue.
LEMMA QueueMembers ==
  ASSUME NEW p \in Seq(Steps), NEW w \in Seq(WaitingStep), NEW c \in Clients, NEW n
  PROVE  [client |-> c, their |-> n] \in ClientSteps(p) \cup ClientSteps(w)
         <=> \E i \in 1 .. Len(QueueOf(p, w)) :
               QueueOf(p, w)[i] = [client |-> c, their |-> n]
<1> DEFINE o == [client |-> c, their |-> n]
           q == QueueOf(p, w)
<1>1. /\ Len(p) \in Nat /\ Len(w) \in Nat /\ Len(q) = Len(p) + Len(w)
      /\ \A i \in 1 .. Len(p) : q[i] = p[i].origin
      /\ \A i \in 1 .. Len(w) : q[Len(p) + i] = w[i].origin
  BY QueueOrigins
<1>2. /\ o \in ClientSteps(p) <=> \E i \in 1 .. Len(p) : p[i].origin = o
      /\ o \in ClientSteps(w) <=> \E i \in 1 .. Len(w) : w[i].origin = o
  BY ClientStepsOf
<1> HIDE DEF o, q
<1>3. ASSUME NEW i \in 1 .. Len(p), p[i].origin = o
      PROVE  \E l \in 1 .. Len(q) : q[l] = o
  <2>1. i \in 1 .. Len(q) /\ q[i] = o
    BY <1>1, <1>3
  <2> QED BY <2>1
<1>4. ASSUME NEW i \in 1 .. Len(w), w[i].origin = o
      PROVE  \E l \in 1 .. Len(q) : q[l] = o
  <2> DEFINE l == Len(p) + i
  <2>1. l \in 1 .. Len(q) /\ q[l] = o
    BY <1>1, <1>4
  <2> HIDE DEF l
  <2> QED BY <2>1
<1>5. ASSUME NEW l \in 1 .. Len(q), q[l] = o
      PROVE  o \in ClientSteps(p) \/ o \in ClientSteps(w)
  <2>1. CASE l <= Len(p)
    <3>1. l \in 1 .. Len(p) /\ p[l].origin = o
      BY <1>1, <1>5, <2>1
    <3> QED BY <1>2, <3>1
  <2>2. CASE ~(l <= Len(p))
    <3> DEFINE i == l - Len(p)
    <3>1. i \in 1 .. Len(w) /\ Len(p) + i = l
      BY <1>1, <2>2
    <3> HIDE DEF i
    <3>2. w[i].origin = o
      BY <1>1, <1>5, <3>1
    <3> QED BY <1>2, <3>1, <3>2
  <2> QED BY <2>1, <2>2
<1>6. o \in ClientSteps(p) \cup ClientSteps(w) <=> \E l \in 1 .. Len(q) : q[l] = o
  BY <1>2, <1>3, <1>4, <1>5
<1> QED BY <1>6 DEF o, q

LEMMA QueueAppendPending ==
  ASSUME NEW p \in Seq(Steps), NEW e \in Steps
  PROVE  QueueOf(Append(p, e), << >>) = Append(QueueOf(p, << >>), e.origin)
<1> DEFINE r == Append(p, e)
<1>1. /\ << >> \in Seq(WaitingStep) /\ Len(<< >>) = 0 /\ Len(p) \in Nat
      /\ r \in Seq(Steps) /\ Len(r) = Len(p) + 1 /\ r[Len(p) + 1] = e
      /\ \A i \in 1 .. Len(p) : r[i] = p[i]
  OBVIOUS
<1>2. e.origin \in Origins
  BY DEF Steps
<1> HIDE DEF r
<1>3. /\ QueueOf(p, << >>) \in Seq(Origins) /\ Len(QueueOf(p, << >>)) = Len(p)
      /\ \A i \in 1 .. Len(p) : QueueOf(p, << >>)[i] = p[i].origin
      /\ QueueOf(r, << >>) \in Seq(Origins) /\ Len(QueueOf(r, << >>)) = Len(p) + 1
      /\ \A i \in 1 .. Len(r) : QueueOf(r, << >>)[i] = r[i].origin
  <2>1. /\ QueueOf(p, << >>) \in Seq(Origins) /\ Len(QueueOf(p, << >>)) = Len(p) + 0
        /\ \A i \in 1 .. Len(p) : QueueOf(p, << >>)[i] = p[i].origin
    BY <1>1, QueueOrigins
  <2>2. /\ QueueOf(r, << >>) \in Seq(Origins) /\ Len(QueueOf(r, << >>)) = Len(r) + 0
        /\ \A i \in 1 .. Len(r) : QueueOf(r, << >>)[i] = r[i].origin
    BY <1>1, QueueOrigins
  <2> QED BY <1>1, <2>1, <2>2
<1> DEFINE q == QueueOf(p, << >>)
           t == QueueOf(r, << >>)
           a == Append(q, e.origin)
<1>4. /\ a \in Seq(Origins) /\ Len(a) = Len(p) + 1 /\ a[Len(p) + 1] = e.origin
      /\ \A i \in 1 .. Len(p) : a[i] = q[i]
  BY <1>1, <1>2, <1>3
<1>5. ASSUME NEW i \in 1 .. Len(p) + 1
      PROVE  t[i] = a[i]
  <2> HIDE DEF q, t, a
  <2>1. CASE i = Len(p) + 1
    BY <1>1, <1>3, <1>4, <2>1 DEF t
  <2>2. CASE i \in 1 .. Len(p)
    BY <1>1, <1>3, <1>4, <2>2 DEF t, q
  <2> QED BY <1>1, <2>1, <2>2
<1>6. t = a
  <2> HIDE DEF q, t, a
  <2>1. t \in Seq(Origins) /\ a \in Seq(Origins) /\ Len(t) = Len(a)
    BY <1>3, <1>4 DEF t
  <2> QED BY <1>4, <1>5, <2>1, SeqEqual
<1> QED BY <1>6 DEF r

LEMMA QueueAppendWaiting ==
  ASSUME NEW p \in Seq(Steps), NEW w \in Seq(WaitingStep), NEW e \in WaitingStep
  PROVE  QueueOf(p, Append(w, e)) = Append(QueueOf(p, w), e.origin)
<1> DEFINE v == Append(w, e)
           q == QueueOf(p, w)
           t == QueueOf(p, v)
           a == Append(q, e.origin)
<1>1. /\ Len(p) \in Nat /\ Len(w) \in Nat
      /\ v \in Seq(WaitingStep) /\ Len(v) = Len(w) + 1 /\ v[Len(w) + 1] = e
      /\ \A i \in 1 .. Len(w) : v[i] = w[i]
  OBVIOUS
<1>2. e.origin \in Origins
  BY DEF WaitingStep
<1> HIDE DEF v
<1>3. /\ q \in Seq(Origins) /\ Len(q) = Len(p) + Len(w)
      /\ \A i \in 1 .. Len(p) : q[i] = p[i].origin
      /\ \A i \in 1 .. Len(w) : q[Len(p) + i] = w[i].origin
  BY QueueOrigins
<1>4. /\ t \in Seq(Origins) /\ Len(t) = Len(p) + Len(v)
      /\ \A i \in 1 .. Len(p) : t[i] = p[i].origin
      /\ \A i \in 1 .. Len(v) : t[Len(p) + i] = v[i].origin
  BY <1>1, QueueOrigins
<1> HIDE DEF q, t
<1>5. /\ a \in Seq(Origins) /\ Len(a) = Len(q) + 1 /\ a[Len(q) + 1] = e.origin
      /\ \A i \in 1 .. Len(q) : a[i] = q[i]
  BY <1>2, <1>3
<1> HIDE DEF a
<1>6. ASSUME NEW i \in 1 .. Len(q) + 1
      PROVE  t[i] = a[i]
  <2>1. CASE i \in 1 .. Len(p)
    BY <1>1, <1>3, <1>4, <1>5, <2>1
  <2>2. CASE i \notin 1 .. Len(p)
    <3> DEFINE j == i - Len(p)
    <3>1. j \in 1 .. Len(w) + 1 /\ Len(p) + j = i
      BY <1>1, <1>3, <2>2
    <3> HIDE DEF j
    <3>2. t[i] = v[j].origin
      BY <1>1, <1>4, <3>1
    <3>3. CASE j = Len(w) + 1
      BY <1>1, <1>3, <1>5, <3>1, <3>2, <3>3
    <3>4. CASE j \in 1 .. Len(w)
      <4>1. a[i] = q[i]
        BY <1>1, <1>3, <1>5, <3>1, <3>4
      <4>2. q[i] = w[j].origin
        BY <1>3, <3>1, <3>4
      <4> QED BY <1>1, <3>2, <3>4, <4>1, <4>2
    <3> QED BY <1>1, <3>1, <3>3, <3>4
  <2> QED BY <2>1, <2>2
<1>7. Len(t) = Len(q) + 1
  BY <1>1, <1>3, <1>4
<1>8. t = a
  BY <1>3, <1>4, <1>5, <1>6, <1>7, SeqEqual
<1> QED BY <1>8 DEF t, a, v, q

\* Popping the pending head pops the queue.
LEMMA QueueTail ==
  ASSUME NEW p \in Seq(Steps), p # << >>, NEW w \in Seq(WaitingStep)
  PROVE  /\ QueueOf(p, w) # << >> /\ Head(QueueOf(p, w)) = Head(p).origin
         /\ QueueOf(Tail(p), w) = Tail(QueueOf(p, w))
<1> DEFINE r == Tail(p)
           q == QueueOf(p, w)
           t == QueueOf(r, w)
           a == Tail(q)
<1>1. /\ Len(p) \in Nat \ {0} /\ Len(w) \in Nat /\ Head(p) = p[1]
      /\ r \in Seq(Steps) /\ Len(r) = Len(p) - 1
      /\ \A i \in 1 .. Len(p) - 1 : r[i] = p[i + 1]
  BY EmptySeq, HeadTailProperties
<1>2. /\ q \in Seq(Origins) /\ Len(q) = Len(p) + Len(w)
      /\ \A i \in 1 .. Len(p) : q[i] = p[i].origin
      /\ \A i \in 1 .. Len(w) : q[Len(p) + i] = w[i].origin
  BY QueueOrigins
<1> HIDE DEF r
<1>3. /\ t \in Seq(Origins) /\ Len(t) = Len(r) + Len(w)
      /\ \A i \in 1 .. Len(r) : t[i] = r[i].origin
      /\ \A i \in 1 .. Len(w) : t[Len(r) + i] = w[i].origin
  BY <1>1, QueueOrigins
<1> HIDE DEF q, t
<1>4. q # << >>
  BY <1>1, <1>2, EmptySeq
<1>5. /\ Head(q) = q[1] /\ a \in Seq(Origins) /\ Len(a) = Len(q) - 1
      /\ \A i \in 1 .. Len(q) - 1 : a[i] = q[i + 1]
  BY <1>2, <1>4, HeadTailProperties
<1>6. q[1] = Head(p).origin
  BY <1>1, <1>2
<1> HIDE DEF a
<1>7. ASSUME NEW i \in 1 .. Len(q) - 1
      PROVE  t[i] = a[i]
  <2> DEFINE l == i + 1
  <2>1. l \in 1 .. Len(q) /\ a[i] = q[l]
    BY <1>1, <1>2, <1>5
  <2> HIDE DEF l
  <2>2. CASE i \in 1 .. Len(r)
    <3>1. l \in 1 .. Len(p) /\ r[i] = p[l]
      BY <1>1, <2>2 DEF l
    <3> QED BY <1>2, <1>3, <2>1, <2>2, <3>1
  <2>3. CASE i \notin 1 .. Len(r)
    <3> DEFINE j == i - Len(r)
    <3>1. j \in 1 .. Len(w) /\ Len(r) + j = i /\ Len(p) + j = l
      BY <1>1, <1>2, <2>3 DEF l
    <3> HIDE DEF j
    <3> QED BY <1>2, <1>3, <2>1, <3>1
  <2> QED BY <2>2, <2>3
<1>8. Len(t) = Len(q) - 1
  BY <1>1, <1>2, <1>3
<1>9. t = a
  BY <1>3, <1>5, <1>7, <1>8, SeqEqual
<1> QED BY <1>4, <1>5, <1>6, <1>9 DEF r, q, t, a

LEMMA QueueTyped ==
  ASSUME Typing
  PROVE  /\ mover.pending \in Seq(Steps) /\ waiting \in Seq(WaitingStep)
         /\ Queue \in Seq(Origins)
         /\ sent \in [Clients -> 0 .. MaxSteps] /\ answer \in Replies
         /\ clientState \in [Clients -> {"new", "attached", "gone"}]
         /\ Listening = Attached(clientState)
<1>1. mover.pending \in Seq(Steps) /\ waiting \in Seq(WaitingStep)
  BY DEF Typing, MoverType, MoverRec, QueueType
<1>2. Queue \in Seq(Origins)
  BY <1>1, QueueOrigins DEF Queue
<1>3. sent \in [Clients -> 0 .. MaxSteps]
  BY SessionAssumption DEF Typing, ClientType
<1> QED BY <1>1, <1>2, <1>3 DEF Typing, ClientType, Replies, Listening, Attached

LEMMA EmptyQueue == QueueOf(<< >>, << >>) = << >>
<1>1. << >> \in Seq(Steps) /\ << >> \in Seq(WaitingStep) /\ Len(<< >>) = 0
  OBVIOUS
<1>2. /\ QueueOf(<< >>, << >>) \in Seq(Origins)
      /\ Len(QueueOf(<< >>, << >>)) = Len(<< >>) + Len(<< >>)
  BY <1>1, QueueOrigins
<1> QED BY <1>1, <1>2, EmptySeq

\* An exit answers the whole queue and empties it.
LEMMA DropAccounted ==
  ASSUME Typing, Accounted, NEW p, DropMovement(mover, p),
         clientState' = clientState, sent' = sent
  PROVE  Accounted' /\ Service!RefuseAll
<1> DEFINE S == ClientSteps(mover.pending) \cup ClientSteps(waiting)
<1>1. Queue' = << >>
  <2>1. mover'.pending = << >> /\ waiting' = << >>
    BY DEF DropMovement, Cleared, Typing, MoverType, MoverRec
  <2> QED BY <2>1, EmptyQueue DEF Queue
<1>2. answer' = Answered(answer, S, Attached(clientState), "reject")
  BY QueueTyped DEF DropMovement
<1>3. \A c \in Clients : \A n :
        [client |-> c, their |-> n] \in S
        <=> \E i \in 1 .. Len(Queue) : Queue[i] = [client |-> c, their |-> n]
  BY QueueTyped, QueueMembers DEF Queue
<1> HIDE DEF S
<1>4. Accounted'
  <2>1. Ledger(Queue, clientState, sent, answer)
    BY DEF Accounted
  <2>2. Ledger(<< >>, clientState, sent, Answered(answer, S, Attached(clientState), "reject"))
    BY <1>3, <2>1, QueueTyped, LedgerEmpty
  <2> QED BY <1>1, <1>2, <2>2 DEF Accounted
<1>5. \A c \in Clients, n \in StepIds :
        clientState[c] = "attached" =>
          ([client |-> c, their |-> n] \in S <=> n \in Service!Open(c))
  <2> SUFFICES ASSUME NEW c \in Clients, NEW n \in StepIds, clientState[c] = "attached"
               PROVE  [client |-> c, their |-> n] \in S <=> n \in Service!Open(c)
    OBVIOUS
  <2>1. CASE n \in 1 .. sent[c]
    BY <1>3, <2>1 DEF Accounted, Ledger, Service!Open
  <2>2. CASE n \notin 1 .. sent[c]
    <3>1. \A i \in 1 .. Len(Queue) : Queue[i] # [client |-> c, their |-> n]
      BY <2>2, MoverAssumption DEF Accounted, Ledger
    <3> QED BY <1>3, <2>2, <3>1 DEF Service!Open
  <2> QED BY <2>1, <2>2
<1>6. answer' = [c \in Clients |->
                   [n \in 1 .. MaxSteps |->
                      IF clientState[c] = "attached" /\ n \in Service!Open(c)
                      THEN "reject" ELSE answer[c][n]]]
  <2>1. answer \in Replies
    BY QueueTyped
  <2>2. answer' = [c \in Clients |->
                     [n \in StepIds |->
                        IF c \in Attached(clientState) /\ [client |-> c, their |-> n] \in S
                        THEN "reject" ELSE answer[c][n]]]
    BY <1>2, <2>1 DEF Answered, Replies
  <2> QED BY <1>5, <2>2 DEF Attached, StepIds
<1> QED BY <1>4, <1>6 DEF Service!RefuseAll
-----------------------------------------------------------------------------
(* Every action is an action of the service, or none of its business.      *)

\* An acknowledgement confirms the oldest open step of its client; that of a
\* step of the bot, or of a client that left, changes nothing.
LEMMA ConfirmServes ==
  ASSUME NEW q \in Seq(Origins), q # << >>, Ledger(q, clientState, sent, answer),
         sent \in [Clients -> 0 .. MaxSteps], answer \in Replies,
         answer' = Answered(answer, {Head(q)}, Attached(clientState), "ack"),
         UNCHANGED <<clientState, sent>>
  PROVE  (\E c \in Clients : Service!Confirm(c)) \/ UNCHANGED Service!serviceVars
<1> DEFINE o == Head(q)
           Hit(c, n) == clientState[c] = "attached" /\ [client |-> c, their |-> n] = o
<1>1. /\ o \in Origins /\ o = q[1] /\ 1 \in 1 .. Len(q)
      /\ o = [client |-> o.client, their |-> o.their]
  <2>1. o \in Origins /\ o = q[1] /\ 1 \in 1 .. Len(q)
    BY EmptySeq, HeadTailProperties
  <2> HIDE DEF o
  <2> QED BY <2>1 DEF Origins
<1>2. answer' = [c \in Clients |->
                   [n \in StepIds |->
                      IF Hit(c, n) THEN "ack" ELSE answer[c][n]]]
  BY DEF Answered, Attached, Replies
<1> HIDE DEF o, Hit
<1>3. CASE o.client \in Clients /\ clientState[o.client] = "attached"
  <2> DEFINE c == o.client
             n == o.their
  <2>1. n \in 1 .. sent[c] /\ c # Bot /\ o = [client |-> c, their |-> n]
    BY <1>1, <1>3, MoverAssumption DEF Ledger
  <2>2. n \in Service!Open(c)
    BY <1>1, <1>3, <2>1 DEF Ledger, Service!Open
  <2>3. \A k \in Service!Open(c) : n <= k
    <3> SUFFICES ASSUME NEW k \in Service!Open(c) PROVE n <= k
      OBVIOUS
    <3>1. k \in 1 .. sent[c] /\ answer[c][k] = "none"
      BY DEF Service!Open
    <3>2. PICK i \in 1 .. Len(q) : q[i] = [client |-> c, their |-> k]
      BY <1>3, <3>1 DEF Ledger
    <3>3. CASE i = 1
      BY <1>1, <3>1, <3>2, <3>3
    <3>4. CASE 1 < i
      <4>1. q[1].their < q[i].their
        BY <1>1, <2>1, <3>2, <3>4 DEF Ledger
      <4> QED BY <1>1, <2>1, <3>1, <3>2, <4>1
    <3> QED BY <3>3, <3>4
  <2>4. answer' = [answer EXCEPT ![c][n] = "ack"]
    <3>1. n \in StepIds
      BY <1>3, <2>1, SessionAssumption DEF StepIds
    <3>2. \A d \in Clients, k \in StepIds :
            Hit(d, k) <=> (d = c /\ k = n)
      BY <1>3, <2>1 DEF Hit
    <3> HIDE DEF c, n
    <3>3. answer' = [d \in Clients |->
                       [k \in StepIds |-> IF d = c /\ k = n THEN "ack" ELSE answer[d][k]]]
      BY <1>2, <3>2
    <3>4. c \in Clients
      BY <1>3 DEF c
    <3> QED BY <3>1, <3>3, <3>4 DEF Replies
  <2> HIDE DEF n
  <2>5. Service!Confirm(c)
    BY <1>3, <2>2, <2>3, <2>4 DEF Service!Confirm
  <2> QED BY <1>3, <2>5
<1>4. CASE ~(o.client \in Clients /\ clientState[o.client] = "attached")
  <2>1. \A c \in Clients, n \in StepIds :
          ~Hit(c, n)
    BY <1>1, <1>4 DEF Hit
  <2>2. answer' = [c \in Clients |-> [n \in StepIds |-> answer[c][n]]]
    BY <1>2, <2>1
  <2>3. answer' = answer
    BY <2>2 DEF Replies
  <2> QED BY <2>3 DEF Service!serviceVars
<1> QED BY <1>3, <1>4

LEMMA MatchAckServes ==
  ASSUME Typing, Accounted, MatchAck
  PROVE  Accounted' /\ ((\E c \in Clients : Service!Confirm(c)) \/ UNCHANGED Service!serviceVars)
<1> DEFINE m == Acked(mover, Head(s2c).seq)
           step == Head(mover.pending)
<1>1. /\ mover.pending # << >> /\ ReplayWaiting(m) /\ UNCHANGED <<clientState, sent>>
      /\ answer' = Answered(answer, {step.origin}, Attached(clientState), "ack")
  BY QueueTyped DEF MatchAck, Matches, Received
<1>2. m.pending = Tail(mover.pending)
  BY DEF MatchAck, Acked, Typing, MoverType, MoverRec
<1>3. m \in MoverRec /\ Len(m.pending) <= MaxPending
  <2>1. mover \in MoverRec /\ Len(mover.pending) <= MaxPending /\ Len(mover.pending) \in Nat
    BY DEF Typing, MoverType, MoverRec
  <2>2. m \in MoverRec /\ Len(m.pending) <= Len(mover.pending)
    BY <2>1, AckedType
  <2>3. Len(m.pending) \in Nat
    BY <2>2 DEF MoverRec
  <2> HIDE DEF m
  <2> QED BY <2>1, <2>2, <2>3, MoverAssumption
<1> HIDE DEF m
<1>4. Queue' = QueueOf(m.pending, waiting)
  BY <1>1, <1>3, QueueTyped, ReplayKeepsQueue
<1>5. Queue # << >> /\ Head(Queue) = step.origin /\ Queue' = Tail(Queue)
  BY <1>1, <1>2, <1>4, QueueTyped, QueueTail DEF Queue
<1> HIDE DEF step
<1>6. Ledger(Queue, clientState, sent, answer)
  BY DEF Accounted
<1>7. Ledger(Tail(Queue), clientState, sent, answer')
  BY <1>1, <1>5, <1>6, QueueTyped, LedgerConfirm
<1>8. Accounted'
  BY <1>1, <1>5, <1>7 DEF Accounted
<1>9. (\E c \in Clients : Service!Confirm(c)) \/ UNCHANGED Service!serviceVars
  BY <1>1, <1>5, <1>6, QueueTyped, ConfirmServes
<1> QED BY <1>8, <1>9

\* A desync that drained only steps of the bot answers nobody.
LEMMA SilentDesyncServes ==
  ASSUME Typing, Accounted, SilentDesync
  PROVE  Accounted' /\ UNCHANGED Service!serviceVars
<1> DEFINE m == Acked(mover, Head(s2c).seq)
           p == mover.pending
           r == QueueOf(<< >>, waiting)
<1>1. /\ ReplayWaiting(m) /\ UNCHANGED <<clientState, sent, answer>>
      /\ ClientSteps(p) = {}
  BY DEF SilentDesync, Received, DesyncRejects
<1>2. m \in MoverRec /\ m.pending = << >> /\ Len(m.pending) <= MaxPending
  <2>1. m.pending = << >>
    BY DEF SilentDesync, Acked, Typing, MoverType, MoverRec
  <2>2. m \in MoverRec
    BY AckedType DEF Typing, MoverType
  <2> QED BY <2>1, <2>2, MoverAssumption
<1> HIDE DEF m
<1>3. Queue' = r
  BY <1>1, <1>2, QueueTyped, ReplayKeepsQueue
<1>4. p \in Seq(Steps) /\ Len(p) \in Nat /\ DOMAIN p = 1 .. Len(p) /\ Len(waiting) \in Nat
  BY QueueTyped
<1> HIDE DEF p
<1>5. \A i \in 1 .. Len(p) : p[i].origin.client = Bot
  BY <1>1, <1>4 DEF ClientSteps
<1>6. /\ Queue \in Seq(Origins) /\ Len(Queue) = Len(p) + Len(waiting)
      /\ \A i \in 1 .. Len(p) : Queue[i] = p[i].origin
      /\ \A i \in 1 .. Len(waiting) : Queue[Len(p) + i] = waiting[i].origin
  BY <1>4, QueueTyped, QueueOrigins DEF Queue, p
<1>7. /\ r \in Seq(Origins) /\ Len(r) = Len(waiting)
      /\ \A i \in 1 .. Len(waiting) : r[i] = waiting[i].origin
  <2>1. << >> \in Seq(Steps) /\ Len(<< >>) = 0 /\ waiting \in Seq(WaitingStep)
    BY QueueTyped
  <2>2. /\ r \in Seq(Origins) /\ Len(r) = 0 + Len(waiting)
        /\ \A i \in 1 .. Len(waiting) : r[0 + i] = waiting[i].origin
    BY <2>1, QueueOrigins
  <2> HIDE DEF r
  <2> QED BY <1>4, <2>2
<1> HIDE DEF r
<1>8. /\ Len(p) \in 0 .. Len(Queue) /\ Len(r) = Len(Queue) - Len(p)
      /\ \A i \in 1 .. Len(r) : r[i] = Queue[Len(p) + i]
      /\ \A i \in 1 .. Len(p) : Queue[i].client = Bot
  <2>1. Len(p) \in 0 .. Len(Queue) /\ Len(r) = Len(Queue) - Len(p)
    BY <1>4, <1>6, <1>7
  <2>2. \A i \in 1 .. Len(r) : r[i] = Queue[Len(p) + i]
    BY <1>6, <1>7
  <2>3. \A i \in 1 .. Len(p) : Queue[i].client = Bot
    BY <1>5, <1>6
  <2> QED BY <2>1, <2>2, <2>3
<1>9. Ledger(r, clientState, sent, answer)
  BY <1>6, <1>7, <1>8, LedgerSkip DEF Accounted
<1> QED BY <1>1, <1>3, <1>9 DEF Accounted, Service!serviceVars

\* A step that the arbiter takes joins the tail: nothing is waiting then.
LEMMA EnqueueJoins ==
  ASSUME Typing, Ordered, CanEnqueue(mover), NEW h \in Headings, NEW o \in Origins,
         mover' = Enqueued(mover, h, o), waiting' = waiting
  PROVE  Queue' = Append(Queue, o)
<1> DEFINE e == Entry(AssignedSeq(mover), h, o)
<1>1. waiting = << >>
  BY MoverAssumption DEF Typing, MoverType, MoverRec, Ordered, WaitingOnlyWhenFull, CanEnqueue
<1>2. e \in Steps /\ e.origin = o /\ mover'.pending = Append(mover.pending, e)
  BY EnqueuedType DEF Typing, MoverType, Enqueued, Entry
<1> HIDE DEF e
<1>3. QueueOf(Append(mover.pending, e), << >>) = Append(QueueOf(mover.pending, << >>), o)
  BY <1>2, QueueTyped, QueueAppendPending
<1> QED BY <1>1, <1>2, <1>3 DEF Queue

LEMMA SubmitServes ==
  ASSUME Typing, Ordered, Accounted, NEW c \in Clients, NEW h \in Headings,
         ClientMoveRequest(c, h)
  PROVE  Accounted' /\ (Service!Submit(c) \/ Service!SubmitRefused(c))
<1> DEFINE o == [client |-> c, their |-> sent[c] + 1]
<1>1. /\ clientState[c] = "attached" /\ clientState' = clientState
      /\ sent' = [sent EXCEPT ![c] = @ + 1]
      /\ sent[c] + 1 \in StepIds /\ o \in Origins
      /\ sent \in [Clients -> Nat]
  BY SessionAssumption DEF ClientMoveRequest, Typing, ClientType, StepIds, Origins
<1>2. Ledger(Queue, clientState, sent, answer) /\ Queue \in Seq(Origins) /\ answer \in Replies
  BY QueueTyped DEF Accounted
<1>3. ASSUME Queue' = Append(Queue, o), answer' = answer
      PROVE  Accounted' /\ Service!Submit(c)
  <2>1. Ledger(Append(Queue, o), clientState, [sent EXCEPT ![c] = @ + 1], answer)
    BY <1>1, <1>2, LedgerSubmit
  <2> QED BY <1>1, <1>3, <2>1 DEF Accounted, Service!Submit
<1>4. CASE CanEnqueue(mover)
  <2>1. mover' = Enqueued(mover, h, o) /\ UNCHANGED <<waiting, answer>>
    BY <1>4 DEF ClientMoveRequest
  <2> HIDE DEF o
  <2>2. Queue' = Append(Queue, o)
    BY <1>1, <1>4, <2>1, EnqueueJoins
  <2> QED BY <1>3, <2>1, <2>2
<1>5. CASE ~CanEnqueue(mover) /\ Len(waiting) < MaxWaiting
  <2> DEFINE e == [heading |-> h, origin |-> o]
  <2>1. waiting' = Append(waiting, e) /\ UNCHANGED <<mover, answer>> /\ e.origin = o
    BY <1>5, SessionAssumption, QueueTyped, LenProperties DEF ClientMoveRequest
  <2>2. e \in WaitingStep
    BY <1>1 DEF WaitingStep
  <2> HIDE DEF e, o
  <2>3. Queue' = Append(Queue, o)
    BY <2>1, <2>2, QueueTyped, QueueAppendWaiting DEF Queue
  <2> QED BY <1>3, <2>1, <2>3
<1>6. CASE ~CanEnqueue(mover) /\ ~(Len(waiting) < MaxWaiting)
  <2>1. /\ UNCHANGED <<mover, waiting>>
        /\ answer' = Answered(answer, {o}, {c}, "reject")
    BY <1>6 DEF ClientMoveRequest
  <2>2. Queue' = Queue
    BY <2>1 DEF Queue
  <2>3. answer' = [answer EXCEPT ![c][sent[c] + 1] = "reject"]
    <3> DEFINE n == sent[c] + 1
               Hit(d, k) == d \in {c} /\ [client |-> d, their |-> k] \in {o}
    <3>1. \A d \in Clients, k \in StepIds : Hit(d, k) <=> (d = c /\ k = n)
      OBVIOUS
    <3>2. answer' = [d \in Clients |->
                       [k \in StepIds |-> IF Hit(d, k) THEN "reject" ELSE answer[d][k]]]
      BY <1>2, <2>1 DEF Answered, Replies
    <3> HIDE DEF Hit, n
    <3>3. answer' = [d \in Clients |->
                       [k \in StepIds |-> IF d = c /\ k = n THEN "reject" ELSE answer[d][k]]]
      BY <3>1, <3>2
    <3>4. n \in StepIds
      BY <1>1 DEF n
    <3>5. answer' = [answer EXCEPT ![c][n] = "reject"]
      BY <1>2, <3>3, <3>4 DEF Replies
    <3> QED BY <3>5 DEF n
  <2>4. Ledger(Queue, clientState, [sent EXCEPT ![c] = @ + 1],
               [answer EXCEPT ![c][sent[c] + 1] = "reject"])
    BY <1>1, <1>2, LedgerRefused
  <2> QED BY <1>1, <2>2, <2>3, <2>4 DEF Accounted, Service!SubmitRefused
<1> QED BY <1>4, <1>5, <1>6

LEMMA BotStepServes ==
  ASSUME Typing, Ordered, Accounted, NEW h \in Headings, BotStep(h)
  PROVE  Accounted' /\ UNCHANGED Service!serviceVars
<1> DEFINE o == [client |-> Bot, their |-> steps + 1]
<1>1. UNCHANGED <<clientState, sent, answer, waiting>> /\ o \in Origins /\ o.client = Bot
  BY SessionAssumption DEF BotStep, clientVars, Typing, ClientType, Origins
<1>2. CASE CanEnqueue(mover)
  <2>1. mover' = Enqueued(mover, h, o)
    BY <1>2 DEF BotStep
  <2> HIDE DEF o
  <2>2. Queue' = Append(Queue, o)
    BY <1>1, <1>2, <2>1, EnqueueJoins
  <2>3. Ledger(Append(Queue, o), clientState, sent, answer)
    BY <1>1, QueueTyped, LedgerBot DEF Accounted
  <2> QED BY <1>1, <2>2, <2>3 DEF Accounted, Service!serviceVars
<1>3. CASE ~CanEnqueue(mover)
  <2>1. Queue' = Queue
    BY <1>1, <1>3 DEF BotStep, Queue
  <2> QED BY <1>1, <2>1 DEF Accounted, Service!serviceVars
<1> QED BY <1>2, <1>3

LEMMA ComeOrGoServes ==
  ASSUME Typing, Accounted, NEW c \in Clients, AttachClient(c) \/ DetachClient(c)
  PROVE  Accounted' /\ (Service!Attach(c) \/ Service!Detach(c))
<1>1. UNCHANGED <<mover, waiting, sent, answer>>
  BY DEF AttachClient, DetachClient, arbiterVars, pacedVars
<1>2. Queue' = Queue
  BY <1>1 DEF Queue
<1>3. sent \in [Clients -> Nat]
  BY DEF Typing, ClientType
<1>4. CASE AttachClient(c)
  <2>1. Ledger(Queue, [clientState EXCEPT ![c] = "attached"], sent, answer)
    BY <1>3, <1>4, QueueTyped, LedgerComeOrGo DEF Accounted, AttachClient
  <2> QED BY <1>1, <1>2, <1>4, <2>1 DEF Accounted, AttachClient, Service!Attach
<1>5. CASE DetachClient(c)
  <2>1. Ledger(Queue, [clientState EXCEPT ![c] = "gone"], sent, answer)
    BY <1>3, <1>5, QueueTyped, LedgerComeOrGo DEF Accounted, DetachClient
  <2> QED BY <1>1, <1>2, <1>5, <2>1 DEF Accounted, DetachClient, Service!Detach
<1> QED BY <1>4, <1>5

LEMMA NextServes ==
  Typing /\ Ordered /\ Accounted /\ [Next]_vars
    => Accounted' /\ [Service!ServiceNext]_(Service!serviceVars)
<1> SUFFICES ASSUME Typing, Ordered, Accounted, [Next]_vars
             PROVE  Accounted' /\ [Service!ServiceNext]_(Service!serviceVars)
  OBVIOUS
<1>1. ASSUME NEW p, DropMovement(mover, p), UNCHANGED <<clientState, sent>>
      PROVE  Accounted' /\ [Service!ServiceNext]_(Service!serviceVars)
  BY <1>1, DropAccounted DEF Service!ServiceNext
<1>2. ASSUME UNCHANGED <<mover, waiting, clientState, sent, answer>>
      PROVE  Accounted' /\ [Service!ServiceNext]_(Service!serviceVars)
  <2>1. Queue' = Queue
    BY <1>2 DEF Queue
  <2> QED BY <1>2, <2>1 DEF Accounted, Service!serviceVars
<1>3. ASSUME NEW c \in Clients, AttachClient(c) \/ DetachClient(c)
      PROVE  Accounted' /\ [Service!ServiceNext]_(Service!serviceVars)
  BY <1>3, ComeOrGoServes DEF Service!ServiceNext
<1>4. ASSUME NEW c \in Clients, ClientResync(c)
      PROVE  Accounted' /\ [Service!ServiceNext]_(Service!serviceVars)
  BY <1>1, <1>4 DEF ClientResync
<1>5. ASSUME NEW c \in Clients, NEW h \in Headings, ClientMoveRequest(c, h)
      PROVE  Accounted' /\ [Service!ServiceNext]_(Service!serviceVars)
  BY <1>5, SubmitServes DEF Service!ServiceNext
<1>6. ASSUME NEW h \in Headings, BotStep(h)
      PROVE  Accounted' /\ [Service!ServiceNext]_(Service!serviceVars)
  BY <1>6, BotStepServes
<1>7. CASE MatchAck
  BY <1>7, MatchAckServes DEF Service!ServiceNext
<1>8. CASE SilentDesync
  BY <1>8, SilentDesyncServes
<1>9. CASE DesyncAndResync \/ ReceiveReject \/ ReceiveDraw \/ StallTimeout
  BY <1>1, <1>9 DEF DesyncAndResync, ReceiveReject, ReceiveDraw, StallTimeout, Received
<1>10. CASE FlushOutbound \/ IgnoreAck \/ ThirtySecondsPass
  BY <1>2, <1>10 DEF FlushOutbound, IgnoreAck, ThirtySecondsPass, Received, arbiterVars,
                     pacedVars, clientVars
<1>11. CASE \/ ServerAccept \/ ServerRefuse \/ ServerIgnore \/ ServerResync
            \/ \E x \in SnapTargets : ServerSnap(x)
  BY <1>2, <1>11 DEF ServerAccept, ServerRefuse, ServerIgnore, ServerResync, ServerSnap,
                     ServerTakes, arbiterVars, pacedVars, clientVars
<1>12. CASE UNCHANGED vars
  BY <1>2, <1>12 DEF vars, arbiterVars, pacedVars, clientVars
<1> QED BY <1>3, <1>4, <1>5, <1>6, <1>7, <1>8, <1>9, <1>10, <1>11, <1>12 DEF Next

\* The ledger of open steps holds in every reachable state.
LEMMA AccountedAlways == Spec => [](Typing /\ Ordered /\ Accounted)
<1>1. Init => Accounted
  <2> SUFFICES ASSUME Init PROVE Accounted
    OBVIOUS
  <2>1. Queue = << >>
    BY EmptyQueue DEF Init, NewMover, Queue
  <2>2. Ledger(<< >>, clientState, sent, answer)
    BY DEF Init, Ledger
  <2> QED BY <2>1, <2>2 DEF Accounted
<1>2. Spec => [](Typing /\ Ordered)
  BY OrderedAlways
<1>3. Typing /\ Ordered /\ Accounted /\ [Next]_vars => Accounted'
  BY NextServes
<1> QED BY <1>1, <1>2, <1>3, PTL DEF Spec

\* Whatever the server, the clock and the other clients do, the session keeps
\* the promises of StepService: no step is answered twice, confirmations come
\* in the order of the steps, refusals leave no step behind, and nobody who
\* left is answered (the responses of MoveArbiter, delivered by
\* deliver_movement_responses).
THEOREM SessionServes == Spec => ImplementsStepService
<1>1. Init => Service!ServiceInit
  BY DEF Init, Service!ServiceInit, StepIds
<1>2. Typing /\ Ordered /\ Accounted /\ [Next]_vars
        => [Service!ServiceNext]_(Service!serviceVars)
  BY NextServes
<1> QED BY <1>1, <1>2, AccountedAlways, PTL DEF Spec, ImplementsStepService, Service!ServiceSpec
-----------------------------------------------------------------------------
(* Where every step of a listening client is.                              *)

\* The positions of an origin in the two parts of the queue are its positions
\* in the queue.
LEMMA HoldingParts ==
  ASSUME NEW p \in Seq(Steps), NEW w \in Seq(WaitingStep), NEW o
  PROVE  /\ IsFiniteSet(Holding(p, o)) /\ IsFiniteSet(Holding(w, o))
         /\ \A i \in Holding(p, o) : i \in 1 .. Len(QueueOf(p, w)) /\ QueueOf(p, w)[i] = o
         /\ \A i \in Holding(w, o) : /\ Len(p) + i \in 1 .. Len(QueueOf(p, w))
                                      /\ QueueOf(p, w)[Len(p) + i] = o
         /\ \A i \in 1 .. Len(QueueOf(p, w)) : QueueOf(p, w)[i] = o =>
              i \in Holding(p, o) \/ i - Len(p) \in Holding(w, o)
<1> DEFINE q == QueueOf(p, w)
<1>1. /\ Len(p) \in Nat /\ Len(w) \in Nat /\ Len(q) = Len(p) + Len(w)
      /\ DOMAIN p = 1 .. Len(p) /\ DOMAIN w = 1 .. Len(w)
      /\ \A i \in 1 .. Len(p) : q[i] = p[i].origin
      /\ \A i \in 1 .. Len(w) : q[Len(p) + i] = w[i].origin
  BY QueueOrigins
<1> HIDE DEF q
<1>2. IsFiniteSet(Holding(p, o)) /\ IsFiniteSet(Holding(w, o))
  <2>1. Holding(p, o) \in SUBSET (1 .. Len(p)) /\ Holding(w, o) \in SUBSET (1 .. Len(w))
    BY <1>1 DEF Holding
  <2>2. 1 \in Int /\ Len(p) \in Int /\ Len(w) \in Int
    BY <1>1
  <2>3. IsFiniteSet(1 .. Len(p)) /\ IsFiniteSet(1 .. Len(w))
    BY ONLY <2>2, FS_Interval
  <2> QED BY <2>1, <2>3, FS_Subset
<1>3. \A i \in Holding(p, o) : i \in 1 .. Len(q) /\ q[i] = o
  BY <1>1 DEF Holding
<1>4. \A i \in Holding(w, o) : Len(p) + i \in 1 .. Len(q) /\ q[Len(p) + i] = o
  BY <1>1 DEF Holding
<1>5. ASSUME NEW i \in 1 .. Len(q), q[i] = o
      PROVE  i \in Holding(p, o) \/ i - Len(p) \in Holding(w, o)
  <2>1. CASE i <= Len(p)
    BY <1>1, <1>5, <2>1 DEF Holding
  <2>2. CASE ~(i <= Len(p))
    <3> DEFINE j == i - Len(p)
    <3>1. j \in 1 .. Len(w) /\ Len(p) + j = i
      BY <1>1, <2>2
    <3> HIDE DEF j
    <3>2. w[j].origin = o
      BY <1>1, <1>5, <3>1
    <3>3. j \in Holding(w, o)
      BY <1>1, <3>1, <3>2 DEF Holding
    <3> QED BY <3>3 DEF j
  <2> QED BY <2>1, <2>2
<1> QED BY <1>2, <1>3, <1>4, <1>5 DEF q

\* A listening client's open step is in the queue once, any other not at all.
LEMMA OnceOrNot ==
  ASSUME Typing, Accounted, NEW c \in Listening, NEW n \in StepIds
  PROVE  LET o == [client |-> c, their |-> n]
         IN  /\ \A i, j \in 1 .. Len(Queue) : Queue[i] = o /\ Queue[j] = o => i = j
             /\ (\E i \in 1 .. Len(Queue) : Queue[i] = o)
                  <=> n <= sent[c] /\ answer[c][n] = "none"
<1> DEFINE o == [client |-> c, their |-> n]
<1>1. /\ c \in Clients /\ clientState[c] = "attached" /\ c # Bot
      /\ o.client = c /\ o.their = n /\ n \in Nat /\ n >= 1 /\ sent[c] \in Nat
  BY MoverAssumption, SessionAssumption DEF Listening, StepIds, Typing, ClientType
<1>2. Len(Queue) \in Nat
  BY QueueTyped
<1>3. ASSUME NEW i \in 1 .. Len(Queue), NEW j \in 1 .. Len(Queue), Queue[i] = o, Queue[j] = o
      PROVE  i = j
  <2>1. i < j => Queue[i].their < Queue[j].their
    BY <1>1, <1>3 DEF Accounted, Ledger
  <2>2. j < i => Queue[j].their < Queue[i].their
    BY <1>1, <1>3 DEF Accounted, Ledger
  <2>3. ~(n < n)
    BY <1>1
  <2> QED BY <1>1, <1>2, <1>3, <2>1, <2>2, <2>3
<1>4. ASSUME NEW i \in 1 .. Len(Queue), Queue[i] = o
      PROVE  n <= sent[c]
  BY <1>1, <1>4 DEF Accounted, Ledger
<1>5. n <= sent[c] =>
        (answer[c][n] = "none" <=> \E i \in 1 .. Len(Queue) : Queue[i] = o)
  <2>1. n <= sent[c] => n \in 1 .. sent[c]
    BY <1>1
  <2> QED BY <1>1, <2>1 DEF Accounted, Ledger
<1> QED BY <1>3, <1>4, <1>5

\* Every step a listening client submitted is in exactly one place: answered,
\* pending in the arbiter, or held back by the session until there is room
\* (the two queues that dispatch_c2s and replay_waiting_steps move it between).
THEOREM NoStepLost == Spec => []StepsAccountedFor
<1>1. ASSUME Typing, Accounted PROVE StepsAccountedFor
  <2> SUFFICES ASSUME NEW c \in Listening, NEW n \in StepIds
               PROVE  LET o == [client |-> c, their |-> n]
                      IN  Cardinality(Holding(mover.pending, o)) + Cardinality(Holding(waiting, o))
                          = IF n <= sent[c] /\ answer[c][n] = "none" THEN 1 ELSE 0
    BY DEF StepsAccountedFor
  <2> DEFINE o == [client |-> c, their |-> n]
             P == Holding(mover.pending, o)
             W == Holding(waiting, o)
             k == Len(mover.pending)
  <2>1. mover.pending \in Seq(Steps) /\ waiting \in Seq(WaitingStep) /\ k \in Nat
    BY <1>1, QueueTyped
  <2>2. /\ IsFiniteSet(P) /\ IsFiniteSet(W)
        /\ \A i \in P : i \in 1 .. Len(Queue) /\ Queue[i] = o
        /\ \A i \in W : k + i \in 1 .. Len(Queue) /\ Queue[k + i] = o
        /\ \A i \in 1 .. Len(Queue) : Queue[i] = o => i \in P \/ i - k \in W
    BY <2>1, HoldingParts DEF Queue
  <2>3. /\ \A i, j \in 1 .. Len(Queue) : Queue[i] = o /\ Queue[j] = o => i = j
        /\ (\E i \in 1 .. Len(Queue) : Queue[i] = o)
             <=> n <= sent[c] /\ answer[c][n] = "none"
    BY <1>1, OnceOrNot
  <2>4. P \subseteq 1 .. k /\ W \subseteq 1 .. Len(waiting) /\ Len(waiting) \in Nat
    BY <2>1 DEF Holding
  <2> HIDE DEF P, W, o, k
  <2>5. CASE ~\E i \in 1 .. Len(Queue) : Queue[i] = o
    <3>1. P = {} /\ W = {}
      BY <2>2, <2>5
    <3>2. Cardinality(P) = 0 /\ Cardinality(W) = 0
      BY <3>1, FS_EmptySet
    <3> QED BY <2>3, <2>5, <3>2 DEF P, W, o
  <2>6. CASE \E i \in 1 .. Len(Queue) : Queue[i] = o
    <3>1. PICK i \in 1 .. Len(Queue) : Queue[i] = o
      BY <2>6
    <3>2. Cardinality(P) + Cardinality(W) = 1
      <4>1. CASE i \in P
        <5>1. P = {i}
          BY <2>2, <2>3, <3>1, <4>1
        <5>2. W = {}
          <6>1. ASSUME NEW j \in W PROVE FALSE
            <7>1. k + j = i
              BY <2>2, <2>3, <3>1
            <7> QED BY <2>1, <2>4, <4>1, <7>1
          <6> QED BY <6>1
        <5>3. Cardinality(P) = 1 /\ Cardinality(W) = 0
          BY ONLY <5>1, <5>2, FS_EmptySet, FS_Singleton, Zenon
        <5> QED BY <5>3
      <4>2. CASE i \notin P
        <5>1. P = {}
          BY <2>2, <2>3, <3>1, <4>2
        <5>2. i - k \in W
          BY <2>2, <3>1, <4>2
        <5>3. W = {i - k}
          <6>1. ASSUME NEW j \in W PROVE j = i - k
            <7>1. k + j = i
              BY <2>2, <2>3, <3>1
            <7>2. j \in Int /\ k \in Int
              BY <2>1, <2>4
            <7> QED BY <7>1, <7>2
          <6> QED BY <5>2, <6>1
        <5>4. Cardinality(P) = 0 /\ Cardinality(W) = 1
          BY ONLY <5>1, <5>3, FS_EmptySet, FS_Singleton, Zenon
        <5> QED BY <5>4
      <4> QED BY <4>1, <4>2
    <3> QED BY <2>3, <2>6, <3>2 DEF P, W, o
  <2> QED BY <2>5, <2>6
<1> QED BY <1>1, AccountedAlways, PTL
=============================================================================
