-------------------------- MODULE MCImplicitSweep --------------------------
(* Finite instances of ImplicitSweep: the program of SolveImplicit3D on a   *)
(* small block grid, with the terms of the computation as its values.       *)
EXTENDS ImplicitSweep, ImplicitProgram

CONSTANTS PeriodicDirs, Flag, Cells, NStages

\* Block grids and cells of a block, along x1, x2 and x3.
Grid3x2 == <<3, 2, 1>>
Cells1x2 == <<1, 2, 1>>

MCPeriodic == [d \in Dir |-> d \in PeriodicDirs]
MCSched == Stages(NStages, Flag, Cells)
MCSlot == { MCSched[w].slot : w \in 1 .. Len(MCSched) }

Id(r) == r[1] + 10 * r[2] + 100 * r[3]
MCEliminate(w, r, in) == <<1, w, Id(r), in>>
MCSubstitute(w, r, c, in) == <<2, w, Id(r), c, in>>

\* std::hash at its worst and at its best: with TagUB = 1 all tags collide,
\* with a large TagUB the tags of a channel are distinct.
MCHash(recv, send, s, k) ==
  3 * (10 * s[1] + s[2]) + (CASE k = "x1" -> 0 [] k = "x2" -> 1 [] k = "x6" -> 2)
=============================================================================
