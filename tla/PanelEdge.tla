----------------------------- MODULE PanelEdge -----------------------------
(***************************************************************************)
(* How data are turned when they cross an edge between two panels of the    *)
(* cubed sphere.  One behaviour is one message: PackData interpolates a slab *)
(* of cells next to the edge, packs it cell by cell in an order that depends *)
(* on the two panels, and the receiver unpacks it cell by cell, in its usual *)
(* order, into its ghost cells.                                              *)
(*                                                                         *)
(* A cell of a slab is named by its depth (0 at the edge) and its index     *)
(* along the edge.                                                          *)
(***************************************************************************)
EXTENDS CubedSphere

CONSTANT NGHOST  \* depth of the ghost zone

\* The interpolation finds out at which end of the block its slab lies by
\* comparing indices, which works for blocks that are deep enough.
ASSUME DepthAssumption == NGHOST \in Nat \ {0} /\ Cells > NGHOST + 1

VARIABLES
  block, side,  \* the sender and the side it packs
  buffer,       \* the cells packed so far, in the order of the buffer
  ghost,        \* the ghost cells the receiver has filled, and with what
  phase         \* "pack", "unpack" or "done"

ghostVars == <<block, side, buffer, ghost, phase>>

Depth == 0 .. NGHOST - 1
Index == 0 .. Cells - 1
Size  == NGHOST * Cells

CrossesX2(s) == s \in {"up", "down"}
AtStart(s)   == s \in {"up", "left"}

Target     == Neighbor(block, side)
TargetSide == tox(block, side)

-----------------------------------------------------------------------------
(* PackData.                                                                *)

\* The slab has nj x nk cells; j and k count from its lower corner.
nj(s) == IF CrossesX2(s) THEN NGHOST ELSE Cells
nk(s) == IF CrossesX2(s) THEN Cells ELSE NGHOST

\* Mutant of Packing: PackDataR1 runs over the extents of the other axis.
PackingExchanged(s, turn, p) ==
  CASE turn = 0 -> <<p % nj(s), p \div nj(s)>>
    [] turn = 1 -> <<(nj(s) - 1) - (p \div nj(s)), p % nj(s)>>
    [] turn = 2 -> <<(nj(s) - 1) - (p % nj(s)), (nk(s) - 1) - (p \div nj(s))>>
    [] turn = 3 -> <<p \div nk(s), (nk(s) - 1) - (p % nk(s))>>

\* The (j, k) of the p-th cell that PackDataR0, R1, R2 and R3 pack.
Packing(s, turn, p) ==
  CASE turn = 0 -> <<p % nj(s), p \div nj(s)>>
    [] turn = 1 -> <<(nj(s) - 1) - (p \div nk(s)), p % nk(s)>>
    [] turn = 2 -> <<(nj(s) - 1) - (p % nj(s)), (nk(s) - 1) - (p \div nj(s))>>
    [] turn = 3 -> <<p \div nk(s), (nk(s) - 1) - (p % nk(s))>>

\* Mutant of Turn: panel 3 packs towards panel 5 as it does towards panel 1.
TurnAlike == << <<2, 0, 3, 1>>, <<0, 0, 0, 0>>, <<1, 1, 0, 0>>,
                <<3, 1, 0, 0>>, <<0, 2, 1, 3>>, <<2, 2, 0, 0>> >>

\* Which of them a panel uses at a side, by target_dir + 1.
Turn == << <<2, 0, 3, 1>>, <<0, 0, 0, 0>>, <<1, 3, 0, 0>>,
           <<3, 1, 0, 0>>, <<0, 2, 1, 3>>, <<2, 2, 0, 0>> >>

TurnOf(b, s) == IF OnEdge(b, s) THEN Turn[FindBlockID(b)][Number(s) + 1] ELSE 0

\* Array indices of the slab's lower corner: sj or sk, across the edge.
SlabStart(s) == IF AtStart(s) THEN NGHOST ELSE Cells

\* k_now of InteprolateX2 and InteprolateX3: the depth a layer is taken for.
k_now(s, layer) ==
  LET lastAlong == NGHOST + Cells - 1   \* ej, or ek: the end of the other axis
  IN IF SlabStart(s) < lastAlong - NGHOST THEN layer ELSE NGHOST - 1 - layer

\* TgtSide: the end of its axis at which the target panel is met.
tgside == << <<-1, -1, -1, -1>>, <<1, -1, 1, -1>>, <<-1, -1, 1, -1>>,
             <<1, 1, 1, -1>>, <<1, 1, 1, 1>>, <<-1, 1, 1, -1>> >>

\* Mutant of Swapped: the two polar panels are not told apart.
SwappedNever(b, s) == FALSE

\* The pairs of panels for which InteprolateX3 exchanges the two coordinates.
Swapped(b, s) ==
  /\ CrossesX2(s)
  /\ <<FindBlockID(b), tgbid[FindBlockID(b)][Number(s) + 1]>> \in
       ({3, 4} \X {1, 5}) \union ({1, 5} \X {3, 4})

\* The coordinates in the target panel at which the velocities of a cell are
\* projected: tgt_cy and tgt_cz.
Projection(b, s, depth, c) ==
  LET along  == IF CrossesX2(s) THEN Centre(local3(b), c) ELSE Centre(local2(b), c)
      turned == IF Inverted(b, s) THEN -along ELSE along
      beyond == tgside[FindBlockID(b)][Number(s) + 1] * (2 * depth + 1 + Half)
  IN IF CrossesX2(s) /\ ~ Swapped(b, s) THEN <<beyond, turned>> ELSE <<turned, beyond>>

\* x2d and x3d of sendNeighborBlocks: the point of the target panel at which the
\* velocities of cell c of the face itself are projected.
FaceProjection(b, s, c) ==
  LET x == FacePoint(b, s, c)
      pos_along == IF CrossesX2(s) THEN x[2] ELSE x[1]
      d == IF Inverted(b, s) THEN -pos_along ELSE pos_along
  IN CASE tox(b, s) = "down"  -> <<Half, d>>
       [] tox(b, s) = "up"    -> <<-Half, d>>
       [] tox(b, s) = "right" -> <<d, Half>>
       [] tox(b, s) = "left"  -> <<d, -Half>>

\* A packed cell: its depth and index in the sender, and the projection.
SentCell(b, s, jk) ==
  LET layer == IF CrossesX2(s) THEN jk[1] ELSE jk[2]
      c     == IF CrossesX2(s) THEN jk[2] ELSE jk[1]
      depth == IF OnEdge(b, s) THEN k_now(s, layer)
               ELSE IF AtStart(s) THEN layer ELSE NGHOST - 1 - layer
  IN [depth |-> depth, index |-> c,
      at |-> IF OnEdge(b, s) THEN Projection(b, s, depth, c) ELSE <<0, 0>>]

PackCell ==
  /\ phase = "pack"
  /\ LET p == Len(buffer) IN
       buffer' = Append(buffer, SentCell(block, side, Packing(side, TurnOf(block, side), p)))
  /\ phase' = IF Len(buffer) + 1 = Size THEN "unpack" ELSE "pack"
  /\ UNCHANGED <<block, side, ghost>>

-----------------------------------------------------------------------------
\* The receiver's ghost cell the p-th cell of the buffer goes to: k outermost.
GhostCell(s, p) ==
  LET n == IF CrossesX2(s) THEN NGHOST ELSE Cells
      layer == IF CrossesX2(s) THEN p % n ELSE p \div n
      c     == IF CrossesX2(s) THEN p \div n ELSE p % n
  IN <<IF AtStart(s) THEN NGHOST - 1 - layer ELSE layer, c>>

UnpackCell ==
  /\ phase = "unpack"
  /\ LET p == Size - Len(buffer) IN
       ghost' = [ghost EXCEPT ![GhostCell(TargetSide, p)] = {Head(buffer)}]
  /\ buffer' = Tail(buffer)
  /\ phase' = IF Len(buffer) = 1 THEN "done" ELSE "unpack"
  /\ UNCHANGED <<block, side>>

GhostInit ==
  /\ block \in Block
  /\ side \in Side
  /\ Neighbor(block, side) \in Block
  /\ buffer = <<>>
  /\ ghost = [g \in Depth \X Index |-> {}]
  /\ phase = "pack"

GhostNext == PackCell \/ UnpackCell

GhostSpec == GhostInit /\ [][GhostNext]_ghostVars

-----------------------------------------------------------------------------
Filled == { g \in Depth \X Index : ghost[g] # {} }

\* Every variable keeps its type: a ghost cell is filled at most once and all
\* are filled in the end.
GhostTypeOK ==
  /\ block \in Block /\ side \in Side /\ phase \in {"pack", "unpack", "done"}
  /\ \A i \in 1 .. Len(buffer) :
       buffer[i].depth \in Depth /\ buffer[i].index \in Index
  /\ Len(buffer) <= Size
  /\ phase = "done" => Filled = Depth \X Index

\* Two sides that meet are each other's neighbours: the receiver looks for
\* this message at the side the sender addressed.
Reciprocal == TransformOX(Target, TargetSide) = [block |-> block, side |-> side]

\* A ghost cell is filled from the cell that is as deep behind the edge as it
\* is in front of it and meets the edge at the same point of the sphere.
GhostAligned ==
  \A g \in Filled : \A cell \in ghost[g] :
    /\ cell.depth = g[1]
    /\ OnEdge(block, side) =>
         Direction(FindBlockID(Target), FacePoint(Target, TargetSide, g[2]))
           = Direction(FindBlockID(block), FacePoint(block, side, cell.index))
    /\ ~ OnEdge(block, side) => cell.index = g[2]

\* The coordinates of a ghost cell in its own panel.
GhostPoint(b, s, depth, c) ==
  LET x == FacePoint(b, s, c)
      out == IF AtStart(s) THEN -(2 * depth + 1) ELSE 2 * depth + 1
  IN IF CrossesX2(s) THEN <<x[1] + out, x[2]>> ELSE <<x[1], x[2] + out>>

\* What VecTransABPFromRLL makes of a point: on the equatorial panels its
\* coefficients are symmetric in the two coordinates.
Basis(panel, x) == IF panel \in {1, 5} THEN x ELSE {x[1], x[2]}

\* The velocities that fill a ghost cell are in the basis of the receiver's
\* panel at the ghost cell.
GhostProjected ==
  \A g \in Filled : \A cell \in ghost[g] : OnEdge(block, side) =>
    /\ FindBlockID(Target) = tgbid[FindBlockID(block)][Number(side) + 1]
    /\ Basis(FindBlockID(Target), cell.at)
         = Basis(FindBlockID(Target), GhostPoint(Target, TargetSide, g[1], g[2]))

\* The states exchanged for the fluxes of the face itself are projected at the
\* receiver's point of the face they are unpacked to (the cells of an inverted
\* edge are packed backwards).
FaceProjected ==
  OnEdge(block, side) =>
    \A c \in Index :
      FaceProjection(block, side, c) =
        FacePoint(Target, TargetSide,
                  IF Inverted(block, side) THEN Cells - 1 - c ELSE c)

=============================================================================
