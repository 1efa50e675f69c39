------------------------- MODULE MCHeadlessMovement -------------------------
(***************************************************************************)
(* Small instances of HeadlessMovement.                                    *)
(***************************************************************************)
EXTENDS HeadlessMovement, TLC

MCFlat == [i \in 0 .. MaxCoord |-> 0]
MCSlope == [i \in 0 .. MaxCoord |-> i]
MCLogin == [x |-> 1, z |-> Ground[1], heading |-> "east", ready |-> TRUE]
MCSnapTargets == {0}
MCSymmetry == Permutations(Clients)
=============================================================================
