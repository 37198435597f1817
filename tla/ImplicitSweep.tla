--------------------------- MODULE ImplicitSweep ---------------------------
(***************************************************************************)
(* The vertically (or horizontally) implicit solver of src/src/snap/implicit *)
(* as a program of MPI ranks.  Every rank holds one MeshBlock of a uniform  *)
(* block grid and runs the same list of column solves.  One column solve is *)
(* a block tridiagonal solve along a line of ranks: ForwardSweep passes the *)
(* eliminated coefficients from the bottom rank to the top one,             *)
(* BackwardSubstitution passes the solution from the top rank down.         *)
(*                                                                         *)
(* Both passes go through ONE user buffer per column, buffer_[k][j]: it is  *)
(* the target of the blocking receives and the source of the non-blocking   *)
(* sends, which are waited for only at the end of the column.               *)
(*                                                                         *)
(* The blocks' matrices and right-hand sides are abstracted to the operators *)
(* Eliminate and Substitute: what a block computes from what it received.   *)
(***************************************************************************)
EXTENDS Integers, Sequences

CONSTANTS
  Dims,              \* Dims[d]: number of MeshBlocks along direction d
  Periodic,          \* Periodic[d]: both mesh boundaries of d are periodic
  Sched,             \* the column solves every rank runs, in program order
  Slot,              \* the (k, j) indices of buffer_
  Hash(_, _, _, _),  \* std::hash of "recvid x sendid x k x j x kind"
  TagUB,             \* Globals::mpi_tag_ub
  Eliminate(_, _, _),     \* (column, rank, received or Nil) -> coefficients
  Substitute(_, _, _, _), \* (column, rank, coefficients, received or Nil) -> solution
  Nil                \* no value, no block

Dir == 1 .. 3        \* X1DIR, X2DIR, X3DIR

Work == 1 .. Len(Sched)

\* A rank is named by the position of its MeshBlock in the block grid.
Rank == { r \in [Dir -> 0 .. (Dims[1] + Dims[2] + Dims[3])] :
            \A d \in Dir : r[d] < Dims[d] }

Kind == {"x1", "x2", "x6"}   \* number of arrays packed in the message

ASSUME DimsAssumption == Dims \in [Dir -> Nat \ {0}]
ASSUME PeriodicAssumption == Periodic \in [Dir -> BOOLEAN]
ASSUME SchedAssumption ==
  Sched \in Seq([dir : Dir, slot : Slot, opens : BOOLEAN])
ASSUME TagAssumption ==
  /\ TagUB \in Nat \ {0}
  /\ \A r, q \in Rank, s \in Slot, k \in Kind : Hash(r, q, s, k) \in Nat

\* The first column of the program opens a sweep, and so does every column
\* whose direction differs from that of the column before it.
ASSUME OpensAssumption ==
  \A w \in Work :
    (w = 1 \/ Sched[w].dir # Sched[w - 1].dir) => Sched[w].opens

-----------------------------------------------------------------------------
(* Geometry of the block grid: what Athena's neighbour list tells a block.  *)

FirstBlock(w, r) == r[Sched[w].dir] = 0
LastBlock(w, r)  == r[Sched[w].dir] = Dims[Sched[w].dir] - 1

\* The neighbouring position one block up or down along d, wrapped around.
Up(d, r)   == [r EXCEPT ![d] = IF r[d] = Dims[d] - 1 THEN 0 ELSE r[d] + 1]
Down(d, r) == [r EXCEPT ![d] = IF r[d] = 0 THEN Dims[d] - 1 ELSE r[d] - 1]

Above(w, r) == Up(Sched[w].dir, r)
Below(w, r) == Down(Sched[w].dir, r)

\* Two ranks share the line along which column w is solved.
SameLine(w, r, q) == \A d \in Dir \ {Sched[w].dir} : r[d] = q[d]

\* The undistributed algorithm: the elimination up the whole line, and the
\* substitution down it.
Coefficients(w) ==
  LET c[r \in Rank] == Eliminate(w, r, IF FirstBlock(w, r) THEN Nil ELSE c[Below(w, r)])
  IN c

Solution(w) ==
  LET x[r \in Rank] ==
        Substitute(w, r, Coefficients(w)[r], IF LastBlock(w, r) THEN Nil ELSE x[Above(w, r)])
  IN x

RefCoef == [w \in Work |-> Coefficients(w)]
RefSol  == [w \in Work |-> Solution(w)]

\* A solution is not the value that stands for none.
ASSUME SolutionAssumption == \A w \in Work, r \in Rank : RefSol[w][r] # Nil

-----------------------------------------------------------------------------
VARIABLES
  work,       \* work[r]: the column rank r is at, Len(Sched) + 1 when finished
  pc,         \* pc[r]: where r is in that column
  nb,         \* nb[r]: bblock, tblock, first_block and last_block
  buffer,     \* buffer[r][s]: buffer_[k][j]
  inbox,      \* inbox[r]: what RecvBuffer copied out of buffer_
  coef,       \* coef[r][s]: coefficients_(k, j, ...)
  sol,        \* sol[r][w]: the increments du_ of column w, Nil before
  net         \* net[<<r, q>>]: messages from r to q, in posting order

vars == <<work, pc, nb, buffer, inbox, coef, sol, net>>

Pc == {"begin", "recvLower", "eliminate", "recvUpper", "substitute", "wait",
       "done"}

ForwardKind(w)  == IF Periodic[Sched[w].dir] THEN "x6" ELSE "x2"
BackwardKind(w) == IF Periodic[Sched[w].dir] THEN "x2" ELSE "x1"

\* The tag carries neither the direction nor the stage, and may collide.
CreateMPITag(recv, send, s, kind) == Hash(recv, send, s, kind) % TagUB

\* Mutant of EntryPc: only the first column of a sweep waits for the rank below.
EntryPcUnwaited(w, n) ==
  IF w \notin Work THEN "done"
  ELSE IF Sched[w].opens THEN "begin" ELSE "eliminate"

\* Mutant of EntryPc: the neighbours are looked up only once.
EntryPcOnce(w, n) ==
  IF w \notin Work THEN "done"
  ELSE IF w = 1 THEN "begin"
  ELSE IF n.first_block THEN "eliminate" ELSE "recvLower"

\* Mutant of EntryPc: a block is the first one if nothing lies below it, which
\* no block of a periodic direction is.
EntryPcClosed(w, n) ==
  IF w \notin Work THEN "done"
  ELSE IF Sched[w].opens THEN "begin"
  ELSE IF n.bblock = Nil THEN "eliminate" ELSE "recvLower"

\* Where a rank stands when it arrives at column w knowing its neighbours n.
EntryPc(w, n) ==
  IF w \notin Work THEN "done"
  ELSE IF Sched[w].opens THEN "begin"
  ELSE IF n.first_block THEN "eliminate" ELSE "recvLower"

Init ==
  /\ work = [r \in Rank |-> 1]
  /\ nb = [r \in Rank |-> [bblock |-> Nil, tblock |-> Nil,
                           first_block |-> TRUE, last_block |-> TRUE]]
  /\ pc = [r \in Rank |-> EntryPc(1, nb[r])]
  /\ buffer = [r \in Rank |-> [s \in Slot |-> Nil]]
  /\ inbox = [r \in Rank |-> Nil]
  /\ coef = [r \in Rank |-> [s \in Slot |-> Nil]]
  /\ sol = [r \in Rank |-> [w \in Work |-> Nil]]
  /\ net = [p \in Rank \X Rank |-> << >>]

-----------------------------------------------------------------------------
(* MPI: a message stays in the sender's buffer until the library copies it  *)
(* out (eager) or a receive takes it from there (rendezvous).               *)

\* MPI_Isend of buffer_[k][j] of r to q.
Post(r, q, s, kind) ==
  net' = [net EXCEPT ![<<r, q>>] =
            Append(@, [tag |-> CreateMPITag(q, r, s, kind), slot |-> s,
                       kind |-> kind, sent |-> FALSE, val |-> Nil])]

\* The message a receive by r from q matches: the first posted with its tag.
Matches(r, q, s, kind, i) ==
  LET c == net[<<q, r>>]
      tag == CreateMPITag(r, q, s, kind)
  IN /\ i \in 1 .. Len(c)
     /\ c[i].tag = tag
     /\ \A j \in 1 .. (i - 1) : c[j].tag # tag

Payload(q, m) == IF m.sent THEN m.val ELSE buffer[q][m.slot]

\* RecvBuffer: blocking receive into buffer_[k][j], then copy out.
Receive(r, q, s, kind) ==
  \E i \in 1 .. Len(net[<<q, r>>]) :
    LET c == net[<<q, r>>] IN
    /\ Matches(r, q, s, kind, i)
    /\ buffer' = [buffer EXCEPT ![r][s] = Payload(q, c[i])]
    /\ inbox' = [inbox EXCEPT ![r] = Payload(q, c[i])]
    /\ net' = [net EXCEPT ![<<q, r>>] =
                 SubSeq(c, 1, i - 1) \o SubSeq(c, i + 1, Len(c))]

\* MPI copies a posted message out of the sender's buffer.
Transfer(r, q) ==
  \E i \in 1 .. Len(net[<<r, q>>]) :
    LET m == net[<<r, q>>][i] IN
    /\ ~ m.sent
    /\ net' = [net EXCEPT ![<<r, q>>][i] =
                 [m EXCEPT !.sent = TRUE, !.val = buffer[r][m.slot]]]
    /\ UNCHANGED <<work, pc, nb, buffer, inbox, coef, sol>>

\* MPI_Wait on the request of r's send from slot s to q has to wait.
InFlight(r, q, s, kind) ==
  \E i \in 1 .. Len(net[<<r, q>>]) :
    LET m == net[<<r, q>>][i] IN m.kind = kind /\ m.slot = s /\ ~ m.sent

-----------------------------------------------------------------------------
(* The steps of a rank.                                                     *)

\* SetDirection and FindNeighbors at the start of the sweep of a direction.
\* bblock and tblock keep their old value where there is no neighbour.
BeginSweep(r) ==
  LET d == Sched[work[r]].dir
      first == r[d] = 0
      last == r[d] = Dims[d] - 1
  IN /\ pc[r] = "begin"
     /\ nb' = [nb EXCEPT ![r] =
          [bblock |-> IF first /\ ~ Periodic[d] THEN @.bblock ELSE Down(d, r),
           tblock |-> IF last /\ ~ Periodic[d] THEN @.tblock ELSE Up(d, r),
           first_block |-> first, last_block |-> last]]
     /\ pc' = [pc EXCEPT ![r] = IF first THEN "eliminate" ELSE "recvLower"]
     /\ UNCHANGED <<work, buffer, inbox, coef, sol, net>>

\* ForwardSweep of a block that is not the first: wait for the block below.
RecvLower(r) ==
  LET w == work[r] IN
  /\ pc[r] = "recvLower"
  /\ Receive(r, nb[r].bblock, Sched[w].slot, ForwardKind(w))
  /\ pc' = [pc EXCEPT ![r] = "eliminate"]
  /\ UNCHANGED <<work, nb, coef, sol>>

\* The rest of ForwardSweep: eliminate the block's cells, save the
\* coefficients and, unless this is the last block, send them up.
ForwardSweep(r) ==
  LET w == work[r]
      s == Sched[w].slot
      c == Eliminate(w, r, IF nb[r].first_block THEN Nil ELSE inbox[r])
  IN /\ pc[r] = "eliminate"
     /\ coef' = [coef EXCEPT ![r][s] = c]
     /\ IF nb[r].last_block
        THEN /\ pc' = [pc EXCEPT ![r] = "substitute"]
             /\ UNCHANGED <<buffer, net>>
        ELSE /\ pc' = [pc EXCEPT ![r] = "recvUpper"]
             /\ buffer' = [buffer EXCEPT ![r][s] = c]
             /\ Post(r, nb[r].tblock, s, ForwardKind(w))
     /\ UNCHANGED <<work, nb, inbox, sol>>

\* Mutant of RecvUpper: the receive is not waited for.
RecvUpperUnwaited(r) ==
  /\ pc[r] = "recvUpper"
  /\ pc' = [pc EXCEPT ![r] = "substitute"]
  /\ UNCHANGED <<work, nb, buffer, inbox, coef, sol, net>>

\* BackwardSubstitution of a block that is not the last: wait for the block
\* above.
RecvUpper(r) ==
  LET w == work[r] IN
  /\ pc[r] = "recvUpper"
  /\ Receive(r, nb[r].tblock, Sched[w].slot, BackwardKind(w))
  /\ pc' = [pc EXCEPT ![r] = "substitute"]
  /\ UNCHANGED <<work, nb, coef, sol>>

\* The rest of BackwardSubstitution up to the waits: solve the block's cells,
\* store the increments and, unless this is the first block, send them down.
BackwardSubstitution(r) ==
  LET w == work[r]
      s == Sched[w].slot
      x == Substitute(w, r, coef[r][s],
                      IF nb[r].last_block THEN Nil ELSE inbox[r])
  IN /\ pc[r] = "substitute"
     /\ sol' = [sol EXCEPT ![r][w] = x]
     /\ IF nb[r].first_block
        THEN UNCHANGED <<buffer, net>>
        ELSE /\ buffer' = [buffer EXCEPT ![r][s] = x]
             /\ Post(r, nb[r].bblock, s, BackwardKind(w))
     /\ pc' = [pc EXCEPT ![r] = "wait"]
     /\ UNCHANGED <<work, nb, inbox, coef>>

\* The two MPI_Waits that end the column; the loops go on to the next one.
WaitSends(r) ==
  LET w == work[r]
      s == Sched[w].slot
  IN /\ pc[r] = "wait"
     /\ ~ nb[r].last_block => ~ InFlight(r, nb[r].tblock, s, ForwardKind(w))
     /\ ~ nb[r].first_block => ~ InFlight(r, nb[r].bblock, s, BackwardKind(w))
     /\ work' = [work EXCEPT ![r] = w + 1]
     /\ pc' = [pc EXCEPT ![r] = EntryPc(w + 1, nb[r])]
     /\ UNCHANGED <<nb, buffer, inbox, coef, sol, net>>

Step(r) ==
  \/ BeginSweep(r)
  \/ RecvLower(r)
  \/ ForwardSweep(r)
  \/ RecvUpper(r)
  \/ BackwardSubstitution(r)
  \/ WaitSends(r)

AllDone == \A r \in Rank : pc[r] = "done"

Finished == AllDone /\ UNCHANGED vars

Next ==
  \/ \E r \in Rank : Step(r)
  \/ \E r, q \in Rank : Transfer(r, q)
  \/ Finished

Spec == Init /\ [][Next]_vars

\* As long as some rank is not blocked, one of those runs on.  Nothing is
\* assumed of Transfer: MPI need not buffer any message.
FairSpec == Spec /\ WF_vars(\E r \in Rank : Step(r))
-----------------------------------------------------------------------------
(* Properties.                                                              *)

\* The values the undistributed solver computes.
Val == {Nil} \cup { RefCoef[w][r] : w \in Work, r \in Rank }
             \cup { RefSol[w][r] : w \in Work, r \in Rank }

Message == [tag : 0 .. (TagUB - 1), slot : Slot, kind : Kind,
            sent : BOOLEAN, val : Val]

\* Types of the state: the control state of each rank, and no value anywhere,
\* in a buffer, a coefficient or a message, that the solver does not compute.
TypeOK ==
  /\ work \in [Rank -> 1 .. (Len(Sched) + 1)]
  /\ pc \in [Rank -> Pc]
  /\ nb \in [Rank -> [bblock : Rank \cup {Nil}, tblock : Rank \cup {Nil},
                      first_block : BOOLEAN, last_block : BOOLEAN]]
  /\ buffer \in [Rank -> [Slot -> Val]]
  /\ inbox \in [Rank -> Val]
  /\ coef \in [Rank -> [Slot -> Val]]
  /\ sol \in [Rank -> [Work -> Val]]
  /\ net \in [Rank \X Rank -> Seq(Message)]

\* Every rank ends each column with the increments the undistributed solver
\* computes, whatever the interleaving, the buffering and the tag collisions:
\* no receive ever takes the message of another column, pass or sweep.
Solved ==
  \A r \in Rank, w \in Work :
    IF sol[r][w] = Nil THEN work[r] <= w ELSE sol[r][w] = RefSol[w][r]

\* buffer_[k][j] is not rewritten, by the receive or by the copy of the
\* backward pass, while the library may still read a send from it.
BufferIntact ==
  \A r, q \in Rank : \A i \in 1 .. Len(net[<<r, q>>]) :
    LET m == net[<<r, q>>][i]
        w == work[r]
        forward == q = nb[r].tblock /\ m.kind = ForwardKind(w)
    IN ~ m.sent => buffer[r][m.slot] = IF forward THEN coef[r][m.slot]
                                                  ELSE sol[r][w]

\* However many columns, sweeps and stages are run, at most one message is
\* outstanding between an ordered pair of ranks: a fast rank cannot flood a
\* slow one.
OneOutstanding == \A r, q \in Rank : Len(net[<<r, q>>]) <= 1

\* All ranks finish all columns, even when MPI never buffers a message.
Terminates == <>AllDone

-----------------------------------------------------------------------------
(* The inductive invariant.                                                 *)

\* How far rank r is: it holds what it needs from below for column w, has
\* passed its coefficients up, holds what it needs from above, has solved.
GotLower(r, w) == work[r] > w \/ (work[r] = w /\
                    pc[r] \in {"eliminate", "recvUpper", "substitute", "wait"})
SentUp(r, w)   == work[r] > w \/ (work[r] = w /\
                    pc[r] \in {"recvUpper", "substitute", "wait"})
GotUpper(r, w) == work[r] > w \/ (work[r] = w /\
                    pc[r] \in {"substitute", "wait"})
SentDown(r, w) == work[r] > w \/ (work[r] = w /\ pc[r] = "wait")

\* q lies above r on the line of column w.
Higher(w, r, q) == SameLine(w, r, q) /\ r[Sched[w].dir] < q[Sched[w].dir]

\* A rank is past the forward pass of a column only after every rank below it
\* on the line, and past the backward pass only after every rank above it.
Causality ==
  \A w \in Work, r, q \in Rank :
    Higher(w, r, q) => /\ GotLower(q, w) => SentUp(r, w)
                       /\ GotUpper(r, w) => SentDown(q, w)

\* Within a sweep a rank's neighbours are those of the sweep's direction.
Neighbours ==
  \A r \in Rank :
    LET w == work[r] IN
    /\ pc[r] = "done" <=> w \notin Work
    /\ pc[r] \notin {"begin", "done"} =>
         /\ nb[r].first_block = FirstBlock(w, r)
         /\ nb[r].last_block = LastBlock(w, r)
         /\ ~ FirstBlock(w, r) => nb[r].bblock = Below(w, r)
         /\ ~ LastBlock(w, r) => nb[r].tblock = Above(w, r)
    /\ pc[r] = "recvLower" => ~ FirstBlock(w, r)
    /\ pc[r] = "recvUpper" => ~ LastBlock(w, r)

\* What a rank has received, saved and solved is the undistributed value.
Values ==
  \A r \in Rank :
    LET w == work[r] IN
    /\ pc[r] = "eliminate" /\ ~ FirstBlock(w, r) =>
         inbox[r] = RefCoef[w][Below(w, r)]
    /\ pc[r] \in {"recvUpper", "substitute", "wait"} =>
         coef[r][Sched[w].slot] = RefCoef[w][r]
    /\ pc[r] = "substitute" /\ ~ LastBlock(w, r) =>
         inbox[r] = RefSol[w][Above(w, r)]
    /\ \A v \in Work :
         sol[r][v] = IF SentDown(r, v) THEN RefSol[v][r] ELSE Nil

\* m is the forward message of column w from r.
UpMessage(w, r, m) ==
  /\ m.slot = Sched[w].slot /\ m.kind = ForwardKind(w)
  /\ m.sent => m.val = RefCoef[w][r]
  /\ ~ m.sent => /\ work[r] = w /\ pc[r] = "recvUpper"
                 /\ buffer[r][m.slot] = RefCoef[w][r]

\* m is the backward message of column w from r.
DownMessage(w, r, m) ==
  /\ m.slot = Sched[w].slot /\ m.kind = BackwardKind(w)
  /\ m.sent => m.val = RefSol[w][r]
  /\ ~ m.sent => /\ work[r] = w /\ pc[r] = "wait"
                 /\ buffer[r][m.slot] = RefSol[w][r]

UpPending(w, r, q) ==
  ~ LastBlock(w, r) /\ q = Above(w, r) /\ SentUp(r, w) /\ ~ GotLower(q, w)

DownPending(w, r, q) ==
  ~ FirstBlock(w, r) /\ q = Below(w, r) /\ SentDown(r, w) /\ ~ GotUpper(q, w)

\* A channel is empty or holds the one message its receiver is still to take.
Channel(r, q) ==
  LET c == net[<<r, q>>] IN
  \/ c = << >>
  \/ /\ Len(c) = 1
     /\ \E w \in Work : \/ UpPending(w, r, q) /\ UpMessage(w, r, c[1])
                        \/ DownPending(w, r, q) /\ DownMessage(w, r, c[1])

Channels == \A r, q \in Rank : Channel(r, q)

\* The channel from r to q holds a message that a receive of column w takes.
Carries(r, q, w, kind) ==
  /\ net[<<r, q>>] # << >>
  /\ net[<<r, q>>][1].tag = CreateMPITag(q, r, Sched[w].slot, kind)

\* No message is lost: what a receiver is still to take is in the channel.
Delivered ==
  \A r, q \in Rank, w \in Work :
    /\ UpPending(w, r, q) => Carries(r, q, w, ForwardKind(w))
    /\ DownPending(w, r, q) => Carries(r, q, w, BackwardKind(w))

IInv == TypeOK /\ Neighbours /\ Causality /\ Values /\ Channels /\ Delivered

-----------------------------------------------------------------------------
(* The distributed solver implements the solver of whole lines.             *)

Abstract == INSTANCE LineSolve WITH
  NumWork <- Len(Sched), Line <- SameLine, Value <- RefSol

\* No increments appear on a line before all its ranks are done with the
\* columns before, and they appear from the top down: see LineSolve.
ImplementsLineSolve == Abstract!Spec
=============================================================================
