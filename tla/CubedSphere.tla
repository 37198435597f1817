---------------------------- MODULE CubedSphere ----------------------------
(***************************************************************************)
(* The six panels of the cubed sphere (src/src/exo3): where a MeshBlock      *)
(* lies, which MeshBlock it meets across each of its four sides, and the    *)
(* tables the two exchanges across panel edges are built from.              *)
(*                                                                         *)
(* The mesh is a rectangle of 2 x 3 panels, each of N x N MeshBlocks:        *)
(*                                                                         *)
(*            lx3 ->   panel 1   panel 3   panel 5                           *)
(*     lx2 |           panel 2   panel 4   panel 6                           *)
(*         v                                                                 *)
(*                                                                         *)
(* Most panel edges are not where the rectangle has them, so the neighbour   *)
(* across an edge is found by TransformOX, and the data that cross it are    *)
(* turned by tables of their own (dinv, tgbid, PackDataR0 .. R3).            *)
(***************************************************************************)
EXTENDS Integers, Sequences

CONSTANTS
  N,     \* MeshBlocks along a panel edge: bound_lim + 1
  Cells  \* cells along the edge of a MeshBlock

ASSUME PanelAssumption == N \in Nat \ {0} /\ Cells \in Nat \ {0}

bound_lim == N - 1

Panel == 1 .. 6
Block == [lx2 : 0 .. 2 * N - 1, lx3 : 0 .. 3 * N - 1]

Side == {"up", "down", "left", "right"}

\* The side's number in the tables and in the message tags (target_dir).
Number(s) == CASE s = "up" -> 0 [] s = "down" -> 1 [] s = "left" -> 2 [] OTHER -> 3

\* (ox2, ox3) of the neighbour across a side.
ox2(s) == CASE s = "up" -> -1 [] s = "down" -> 1 [] OTHER -> 0
ox3(s) == CASE s = "left" -> -1 [] s = "right" -> 1 [] OTHER -> 0

Opposite(s) ==
  CASE s = "up" -> "down" [] s = "down" -> "up"
    [] s = "left" -> "right" [] OTHER -> "left"

\* GetLocalIndex: the position of a block inside its panel.
local2(b) == b.lx2 % N
local3(b) == b.lx3 % N

FindBlockID(b) == 2 * (b.lx3 \div N) + (b.lx2 \div N) + 1

\* A side of a block that lies on an edge of its panel.
OnEdge(b, s) ==
  CASE s = "up"    -> local2(b) = 0
    [] s = "down"  -> local2(b) = bound_lim
    [] s = "left"  -> local3(b) = 0
    [] s = "right" -> local3(b) = bound_lim

\* The index of a block along one of its sides.
Along(b, s) == IF s \in {"up", "down"} THEN local3(b) ELSE local2(b)

-----------------------------------------------------------------------------
(* TransformOX.                                                             *)

Crossing(panel, side, reversed) == [to |-> panel, at |-> side, rev |-> reversed]

\* Mutant of Seam: the blocks between panels 3 and 5 are not counted backwards.
SeamStraight ==
  << [left  |-> Crossing(3, "up", FALSE),  up   |-> Crossing(6, "up", TRUE),
      right |-> Crossing(4, "up", TRUE)],
     [left  |-> Crossing(3, "right", FALSE), down |-> Crossing(5, "up", FALSE)],
     [left  |-> Crossing(6, "right", FALSE), up   |-> Crossing(1, "left", FALSE),
      down  |-> Crossing(5, "left", FALSE),  right |-> Crossing(2, "left", FALSE)],
     [up    |-> Crossing(1, "right", TRUE), down |-> Crossing(5, "right", FALSE)],
     [left  |-> Crossing(3, "down", TRUE),  right |-> Crossing(4, "down", FALSE),
      down  |-> Crossing(6, "down", TRUE),  up   |-> Crossing(2, "down", FALSE)],
     [up    |-> Crossing(1, "up", TRUE),    down |-> Crossing(5, "down", TRUE),
      right |-> Crossing(3, "left", FALSE)] >>

\* The panel edges the rectangle has in the wrong place: the panel across,
\* the side of it that is met and whether the blocks along it run backwards.
Seam ==
  << [left  |-> Crossing(3, "up", FALSE),  up   |-> Crossing(6, "up", TRUE),
      right |-> Crossing(4, "up", TRUE)],
     [left  |-> Crossing(3, "right", FALSE), down |-> Crossing(5, "up", FALSE)],
     [left  |-> Crossing(6, "right", FALSE), up   |-> Crossing(1, "left", FALSE),
      down  |-> Crossing(5, "left", TRUE),   right |-> Crossing(2, "left", FALSE)],
     [up    |-> Crossing(1, "right", TRUE), down |-> Crossing(5, "right", FALSE)],
     [left  |-> Crossing(3, "down", TRUE),  right |-> Crossing(4, "down", FALSE),
      down  |-> Crossing(6, "down", TRUE),  up   |-> Crossing(2, "down", FALSE)],
     [up    |-> Crossing(1, "up", TRUE),    down |-> Crossing(5, "down", TRUE),
      right |-> Crossing(3, "left", FALSE)] >>

Special(b, s) == OnEdge(b, s) /\ s \in DOMAIN Seam[FindBlockID(b)]

\* The block of a panel at a given index along one of its sides.
BlockAt(panel, s, a) ==
  [lx2 |-> N * ((panel - 1) % 2) +
             (CASE s = "up" -> 0 [] s = "down" -> bound_lim [] OTHER -> a),
   lx3 |-> N * ((panel - 1) \div 2) +
             (CASE s = "left" -> 0 [] s = "right" -> bound_lim [] OTHER -> a)]

\* The block met across side s of b (TransformOX's ox2, ox3 added to b, as
\* Athena's tree search does) and the side of it that is met (tox2, tox3).
TransformOX(b, s) ==
  IF Special(b, s)
  THEN LET x == Seam[FindBlockID(b)][s] IN
       [block |-> BlockAt(x.to, x.at,
                          IF x.rev THEN bound_lim - Along(b, s) ELSE Along(b, s)),
        side  |-> x.at]
  ELSE [block |-> [lx2 |-> b.lx2 + ox2(s), lx3 |-> b.lx3 + ox3(s)],
        side  |-> Opposite(s)]

Neighbor(b, s) == TransformOX(b, s).block
tox(b, s)      == TransformOX(b, s).side

-----------------------------------------------------------------------------
(* The tables of sendNeighborBlocks and PackData, indexed by target_dir + 1. *)

tgbid == << <<6, 2, 3, 4>>, <<1, 5, 3, 4>>, <<1, 5, 6, 2>>,
            <<1, 5, 2, 6>>, <<2, 6, 3, 4>>, <<1, 5, 4, 3>> >>

\* Mutant of dinv: panel 6 does not turn the data it sends to panel 1.
dinvUnset == << <<1, 0, 0, 1>>, <<0, 0, 0, 0>>, <<0, 1, 0, 0>>,
                <<1, 0, 0, 0>>, <<0, 1, 1, 0>>, <<0, 1, 0, 0>> >>

dinv == << <<1, 0, 0, 1>>, <<0, 0, 0, 0>>, <<0, 1, 0, 0>>,
           <<1, 0, 0, 0>>, <<0, 1, 1, 0>>, <<1, 1, 0, 0>> >>

Inverted(b, s) == dinv[FindBlockID(b)][Number(s) + 1] = 1

-----------------------------------------------------------------------------
(* Positions.  Along each axis of a panel the angle runs from -pi/4 to pi/4; *)
(* it is counted in half cells, so that Half stands for pi/4.               *)

Half == N * Cells

\* GenerateMeshX2 and GenerateMeshX3: the centre of cell c of the l-th block.
Centre(l, c) == 2 * (l * Cells + c) + 1 - Half

\* The angles (x2, x3) of cell c of the face at side s.
FacePoint(b, s, c) ==
  CASE s = "up"    -> <<-Half, Centre(local3(b), c)>>
    [] s = "down"  -> <<Half, Centre(local3(b), c)>>
    [] s = "left"  -> <<Centre(local2(b), c), -Half>>
    [] s = "right" -> <<Centre(local2(b), c), Half>>

\* RLLFromXYP as GetLatLon calls it: the direction on the sphere of a point of
\* a panel.  tan is odd and increasing and tan(pi/4) = 1, so directions are
\* compared through the angles, with Half in the place of 1.
Direction(panel, x) ==
  LET dX == x[2]
      dY == -x[1]
  IN CASE panel = 2 -> <<Half, dX, dY>>
       [] panel = 4 -> <<-dX, Half, dY>>
       [] panel = 6 -> <<-Half, -dX, dY>>
       [] panel = 3 -> <<dX, -Half, dY>>
       [] panel = 1 -> <<-dY, dX, Half>>
       [] panel = 5 -> <<dY, dX, -Half>>

=============================================================================
