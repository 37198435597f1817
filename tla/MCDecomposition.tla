--------------------------- MODULE MCDecomposition ---------------------------
(* Every cell has a weight of its own, and another one in every stage.       *)
EXTENDS Decomposition

MCWeight(s, g)   == (2 * s + 1) * 2 ^ g
MCTopPressure(s) == s * 2 ^ (ncells + 3)

=============================================================================
