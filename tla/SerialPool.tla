----------------------------- MODULE SerialPool -----------------------------
(***************************************************************************)
(* What the users of SerialAllocator rely on: a set of free serials, from  *)
(* which the lowest of a kind is taken and to which only a serial that is  *)
(* in use is given back.                                                   *)
(***************************************************************************)
EXTENDS Integers

CONSTANTS Serials, Kind   \* a function of the serials

VARIABLE available

Init == available = Serials

\* The lowest available serial of its kind goes to whoever asked.
Take(n) ==
  /\ n \in available
  /\ \A m \in available : Kind[m] = Kind[n] => n <= m
  /\ available' = available \ {n}

\* A serial comes back once.
Give(n) == n \in Serials \ available /\ available' = available \cup {n}

\* A serial found in use is no longer available.
Mark(n) == n \in available /\ available' = available \ {n}

\* All serials are available again, whoever uses them.
Reset == available' = Serials

Next == Reset \/ \E n \in Serials : Take(n) \/ Give(n) \/ Mark(n)
Spec == Init /\ [][Next]_available
=============================================================================
