---------------------------- MODULE EdgeStages ----------------------------
(***************************************************************************)
(* What the exchange at the panel edges promises about the stages, without   *)
(* messages, ranks or program counters: no clock and no barrier, yet a block *)
(* completes its stages one by one, and none before the blocks across its    *)
(* edges have completed the stage before.                                    *)
(***************************************************************************)
EXTENDS Integers

CONSTANTS
  Blocks,
  Meets(_, _),  \* Meets(g, h): block h is across an edge of block g
  Stages

VARIABLE completed  \* completed[g]: the stages block g has completed

Init == completed = [g \in Blocks |-> 0]

\* The second conjunct follows from the last; TLC sees by it at once which block
\* has moved.
Complete(g) ==
  /\ completed[g] < Stages
  /\ completed'[g] = completed[g] + 1
  /\ \A h \in Blocks : Meets(g, h) => completed[h] >= completed[g]
  /\ completed' = [completed EXCEPT ![g] = @ + 1]

Next == \E g \in Blocks : Complete(g)

Spec == Init /\ [][Next]_completed
=============================================================================
