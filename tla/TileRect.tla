------------------------------- MODULE TileRect -------------------------------
(***************************************************************************)
(* Rectangles of tiles (framework/src/ecumene/tile_rect.rs).  Coordinates  *)
(* are u16 in the code: they end at MaxCoord, and the constructor of a     *)
(* view saturates there.                                                   *)
(***************************************************************************)
EXTENDS Integers

CONSTANT MaxCoord                     \* u16::MAX
ASSUME MaxCoordAssumption == MaxCoord \in Nat

Coord == 0 .. MaxCoord
Tile  == [x : Coord, y : Coord]

\* Every rectangle the code builds is well formed: no minimum over its maximum.
Rect == {r \in [x_min : Coord, y_min : Coord, x_max : Coord, y_max : Coord] :
            r.x_min <= r.x_max /\ r.y_min <= r.y_max}

Lower(a, b)  == IF a <= b THEN a ELSE b
Higher(a, b) == IF a <= b THEN b ELSE a

\* Mutant: wrapping arithmetic at the western and northern edge.
FromViewUnclamped(t, range) ==
  [x_min |-> t.x - range, y_min |-> t.y - range,
   x_max |-> Lower(t.x + range, MaxCoord), y_max |-> Lower(t.y + range, MaxCoord)]

\* TileRect::from_view: the tiles at Chebyshev distance at most range.
FromView(t, range) ==
  [x_min |-> Higher(t.x - range, 0), y_min |-> Higher(t.y - range, 0),
   x_max |-> Lower(t.x + range, MaxCoord), y_max |-> Lower(t.y + range, MaxCoord)]

\* TileRect::contains_pos and contains_mpos.
ContainsPos(r, t) == /\ r.x_min <= t.x /\ t.x <= r.x_max
                  /\ r.y_min <= t.y /\ t.y <= r.y_max

Overlaps(a, b) == /\ a.x_min <= b.x_max /\ b.x_min <= a.x_max
                  /\ a.y_min <= b.y_max /\ b.y_min <= a.y_max

(***************************************************************************)
(* TileRect::difference: the rows of a above and below b at full width,    *)
(* then the columns left and right of b in the rows they share.  A strip   *)
(* is a set of at most one rectangle.                                      *)
(***************************************************************************)
Strip(x0, y0, x1, y1) == [x_min |-> x0, y_min |-> y0, x_max |-> x1, y_max |-> y1]
Top(a, b)    == Higher(a.y_min, b.y_min)
Bottom(a, b) == Lower(a.y_max, b.y_max)

Above(a, b) ==
  IF a.y_min < b.y_min THEN {Strip(a.x_min, a.y_min, a.x_max, b.y_min - 1)} ELSE {}
Below(a, b) ==
  IF a.y_max > b.y_max THEN {Strip(a.x_min, b.y_max + 1, a.x_max, a.y_max)} ELSE {}
LeftOf(a, b) ==
  IF a.x_min < b.x_min
  THEN {Strip(a.x_min, Top(a, b), b.x_min - 1, Bottom(a, b))} ELSE {}
RightOf(a, b) ==
  IF a.x_max > b.x_max
  THEN {Strip(b.x_max + 1, Top(a, b), a.x_max, Bottom(a, b))} ELSE {}

Difference(a, b) ==
  IF Overlaps(a, b) THEN Above(a, b) \cup Below(a, b) \cup LeftOf(a, b) \cup RightOf(a, b)
                    ELSE {a}
===============================================================================
