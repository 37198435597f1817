-------------------------- MODULE ImplicitProgram --------------------------
(***************************************************************************)
(* The loops of ImplicitSolver::SolveImplicit3D: which directions are swept *)
(* under an implicit_flag, and over which columns (k, j), in program order. *)
(***************************************************************************)
EXTENDS Integers, Sequences

\* implicit_flag_ & (1 << b)
Bit(flag, b) == (flag \div 2^b) % 2 = 1

\* The sweep of direction d is done: its bit is set and, for X2DIR and X3DIR,
\* the block is resolved along d (ncells > 1 iff nx > 1).
Swept(d, flag, nx) == Bit(flag, d - 1) /\ (d # 1 => nx[d] > 1)

\* The directions the loop variables k and j run along in the sweep of d.
KDir == <<3, 1, 2>>
JDir == <<2, 3, 1>>

\* The columns of one sweep of direction d; the first one opens the sweep.
SweepColumns(d, nx) ==
  [n \in 1 .. (nx[KDir[d]] * nx[JDir[d]]) |->
    [dir   |-> d,
     slot  |-> <<(n - 1) \div nx[JDir[d]], (n - 1) % nx[JDir[d]]>>,
     opens |-> n = 1]]

\* One call of SolveImplicit3D: X3DIR, then X2DIR, then X1DIR.
SolveImplicit3D(flag, nx) ==
  LET Sweep(d) == IF Swept(d, flag, nx) THEN SweepColumns(d, nx) ELSE << >>
  IN Sweep(3) \o Sweep(2) \o Sweep(1)

\* ImplicitCorrection calls it once in each of the n stages of a time step.
Stages(n, flag, nx) ==
  LET p == SolveImplicit3D(flag, nx)
  IN [i \in 1 .. (n * Len(p)) |-> p[1 + ((i - 1) % Len(p))]]
=============================================================================
