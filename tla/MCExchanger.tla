---------------------------- MODULE MCExchanger ----------------------------
(* A mesh of 3 x 2 x 2 blocks whose ranks follow the Z-order curve.          *)
EXTENDS Exchanger, FiniteSets

Blocks3x2x2 == <<3, 2, 2>>

\* The key of a position on Athena's Z-order curve: the bits of the
\* coordinates interleaved, x1 lowest.
Key(p) ==
  (p[1] % 2) + 2 * p[2] + 4 * p[3] + 8 * (p[1] \div 2)

Sites == (0 .. 2) \X (0 .. 1) \X (0 .. 1)

ZOrder ==
  [r \in 0 .. 11 |-> CHOOSE p \in Sites :
                       Cardinality({ q \in Sites : Key(q) < Key(p) }) = r]

=============================================================================
