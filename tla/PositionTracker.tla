--------------------------- MODULE PositionTracker ---------------------------
(***************************************************************************)
(* The player position kept by framework/src/rythmos/position_tracker.rs,  *)
(* on a one-dimensional strip of tiles: one axis and two headings are      *)
(* enough to tell a turn from a step, one step from another, and the edge  *)
(* of the map from its inside.  Body, hue and flags are left out; `ready'  *)
(* is the test serial # 0 of is_ready.                                     *)
(***************************************************************************)
EXTENDS Integers

CONSTANTS
  MaxCoord,   \* last tile of the strip (0x1FFF in the code)
  Ground      \* the standing height of every tile, what a ZResolver computes

ASSUME MapAssumption ==
  /\ MaxCoord \in Nat
  /\ Ground \in [0 .. MaxCoord -> Int]

Headings == {"east", "west"}
Coords == 0 .. MaxCoord

Position == [x : Coords, z : Int, heading : Headings, ready : BOOLEAN]

\* PositionTracker::default: the origin, no serial.
Unset == [x |-> 0, z |-> 0, heading |-> "east", ready |-> FALSE]

Delta(h) == IF h = "east" THEN 1 ELSE -1

\* Mutant: the lower edge is forgotten.
ClampAtTopOnly(i) == IF i > MaxCoord THEN MaxCoord ELSE i

Clamp(i) == IF i < 0 THEN 0 ELSE IF i > MaxCoord THEN MaxCoord ELSE i

\* A MoveRequest whose heading differs from the facing only turns.
IsTurn(p, h) == h # p.heading

\* PositionTracker::step.
Step(p, h) ==
  [p EXCEPT !.heading = h,
            !.x = IF IsTurn(p, h) THEN p.x ELSE Clamp(p.x + Delta(h))]

\* MoveArbiter::resolve_z, called only after a step that crossed a tile.
StepAndResolveZ(p, h) ==
  IF IsTurn(p, h) THEN Step(p, h)
  ELSE LET q == Step(p, h) IN [q EXCEPT !.z = Ground[q.x]]

\* apply_draw_game_player: every field, the serial included.
ApplyDraw(p, draw) == [draw EXCEPT !.ready = TRUE]

\* on_server_reject copies the coordinates and the direction, not the serial.
ApplyReject(p, rej) == [rej EXCEPT !.ready = p.ready]
=============================================================================
