---------------------------- MODULE MCFluxSync ----------------------------
(* Constants of FluxSync for model checking: one MeshBlock per panel.        *)
EXTENDS FluxSync

\* The order of the gids along Athena's block tree: panel p has gid p - 1.
TreeOrder == [g \in 0 .. 5 |-> [lx2 |-> g % 2, lx3 |-> g \div 2]]

\* One MeshBlock per rank, and two.
OnePerRank == [g \in 0 .. 5 |-> g]
TwoPerRank == [g \in 0 .. 5 |-> g \div 2]

=============================================================================
