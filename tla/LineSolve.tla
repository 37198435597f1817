----------------------------- MODULE LineSolve -----------------------------
(***************************************************************************)
(* What the implicit solver promises of a program of line solves, without  *)
(* messages: each column's increments are those of the undistributed       *)
(* solver, they appear from the top of the line down, and none appears on  *)
(* a line before every rank of the line has finished its earlier columns.  *)
(***************************************************************************)
EXTENDS Integers

CONSTANTS
  Rank,
  NumWork,           \* number of columns in the program
  Line(_, _, _),     \* Line(w, r, q): r and q share the line of column w
  Higher(_, _, _),   \* Higher(w, r, q): and q lies above r on it
  Value,             \* Value[w][r]: the undistributed solution
  Nil

VARIABLE sol         \* sol[r][w]: increments of column w at rank r

Init == sol = [r \in Rank |-> [w \in 1 .. NumWork |-> Nil]]

\* Increments appear, once.  (That there are some afterwards follows from their
\* value; it lets TLC discard a step that changes nothing at once.)
Publish(r, w) ==
  /\ sol[r][w] = Nil /\ sol'[r][w] # Nil
  /\ \A q \in Rank : Line(w, r, q) => \A v \in 1 .. (w - 1) : sol[q][v] # Nil
  /\ \A q \in Rank : Higher(w, r, q) => sol[q][w] # Nil
  /\ sol' = [sol EXCEPT ![r][w] = Value[w][r]]

Next == \E r \in Rank, w \in 1 .. NumWork : Publish(r, w)

Spec == Init /\ [][Next]_sol
=============================================================================
