---------------------------- MODULE MCStageTasks ----------------------------
(* Three blocks at a panel edge: a and b in one panel, c across from a.       *)
EXTENDS StageTasks

CONSTANTS a, b, c

MCBeside == [r \in Rank |-> CASE r = a -> {b} [] r = b -> {a} [] r = c -> {}]
MCAcross == [r \in Rank |-> CASE r = a -> {c} [] r = c -> {a} [] r = b -> {}]

=============================================================================
