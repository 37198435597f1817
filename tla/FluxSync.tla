----------------------------- MODULE FluxSync -----------------------------
(***************************************************************************)
(* The exchange of reconstructed states across the edges of the cubed       *)
(* sphere's panels (SynchronizeFluxesSend, Recv and Wait), as the ranks run *)
(* it in the middle of CalculateFluxes.  Two blocks that meet at a panel    *)
(* edge solve the Riemann problem of the shared face each on its own; mass  *)
(* and energy are conserved only if both solve the same one.                *)
(***************************************************************************)
EXTENDS CubedSphere, SequencesExt

CONSTANTS
  loclist,   \* loclist[g]: where the MeshBlock with gid g lies
  ranklist,  \* ranklist[g]: the rank that has it
  Stages,    \* integrator stages the ranks run
  Nil        \* no value

Gid == 0 .. 6 * N * N - 1
Rank == { ranklist[g] : g \in Gid }

ASSUME PlaceAssumption ==
  /\ loclist \in [Gid -> Block] /\ \A b \in Block : \E g \in Gid : loclist[g] = b
  /\ \A g, h \in Gid : loclist[g] = loclist[h] => g = h
  /\ ranklist \in [Gid -> Nat]
ASSUME StagesAssumption == Stages \in Nat \ {0}

\* The MeshBlocks of a rank, in the order in which it runs their tasks.
Own(r) == { g \in Gid : ranklist[g] = r }
Nth(own, i) == CHOOSE g \in own : Cardinality({ h \in own : h < g }) = i - 1
Mine == [r \in Rank |-> [i \in 1 .. Cardinality(Own(r)) |-> Nth(Own(r), i)]]

\* Athena's neighbour list: the x2 faces before the x3 faces.
neighbor == <<"up", "down", "left", "right">>

\* The sides at which a block exchanges, the block it meets there (nb.snb.gid)
\* and the side of it that it meets.
EdgeSides == [g \in Gid |-> { s \in Side : OnEdge(loclist[g], s) }]
Across == [g \in Gid |-> [s \in EdgeSides[g] |->
             CHOOSE h \in Gid : loclist[h] = Neighbor(loclist[g], s)]]
Met == [g \in Gid |-> [s \in EdgeSides[g] |-> tox(loclist[g], s)]]

VARIABLES
  stage,  \* stage[r]: the integrator stage rank r is in
  turn,   \* turn[r]: which of its blocks runs CalculateFluxes
  pc,     \* pc[r]: where that block is in it
  lr,     \* lr[g][s]: L3DValues and R3DValues on the face at side s
  buf,    \* buf[g][s]: LRDataBuffer[target_dir]
  net     \* net[q][r]: messages from rank q to rank r, in posting order

vars == <<stage, turn, pc, lr, buf, net>>

Pc == {"send", "recv1", "recv2", "recv3", "recv4", "wait", "done"}

Forward  == [i \in 1 .. Cells |-> i - 1]
Backward == [i \in 1 .. Cells |-> Cells - i]

\* The states a block reconstructs along a face: whose they are, when they were
\* computed and in which order the cells stand.
Strip(g, s, n) == [block |-> g, side |-> s, stage |-> n, cells |-> Forward]

\* Left in sendNeighborBlocks: at these sides the block is on the left.
SentLeft(s) == s \in {"down", "right"}

\* SaveLR3DValues: the block computes both states of its faces, the outer one
\* (Nil here) from ghost cells.
Saved(g, n) ==
  [s \in Side |-> IF SentLeft(s) THEN [L |-> Strip(g, s, n), R |-> Nil]
                                 ELSE [L |-> Nil, R |-> Strip(g, s, n)]]

-----------------------------------------------------------------------------
(* sendNeighborBlocks.                                                      *)

\* Mutant of Packed: the cells are never packed backwards.
PackedForward(g, s, face) == IF SentLeft(s) THEN face.L ELSE face.R

\* The face's inner states, the cells backwards along an inverted edge.
Packed(g, s, face) ==
  LET strip == IF SentLeft(s) THEN face.L ELSE face.R
  IN IF Inverted(loclist[g], s) THEN [strip EXCEPT !.cells = Backward] ELSE strip

\* The tag of the message a block gets at one of its sides.
DirTag(side, from, to) == Number(side) + 4 * from + 24 * N * to

\* The message block g posts at its side s for rank q, if it meets one of q's
\* blocks there.  "kept" is its content once MPI has copied it out of g's buffer.
PostedAt(g, q, s, side) ==
  IF s \in EdgeSides[g] /\ ranklist[Across[g][s]] = q
  THEN <<[tag |-> DirTag(side, g, Across[g][s]), block |-> g, side |-> s, kept |-> Nil]>>
  ELSE << >>

\* Mutant of Posted: the tag holds the sender's side, not the receiver's.
PostedOwnSide(g, q) ==
  PostedAt(g, q, "up", "up") \o PostedAt(g, q, "down", "down") \o
  PostedAt(g, q, "left", "left") \o PostedAt(g, q, "right", "right")

\* The messages block g posts for rank q, in the order of the neighbour list.
Posted(g, q) ==
  PostedAt(g, q, "up", Met[g]["up"]) \o PostedAt(g, q, "down", Met[g]["down"]) \o
  PostedAt(g, q, "left", Met[g]["left"]) \o PostedAt(g, q, "right", Met[g]["right"])

Current(r) == Mine[r][turn[r]]

\* Reconstruct and SaveLR3DValues, then SynchronizeFluxesSend.
Send(r) ==
  /\ pc[r] = "send"
  /\ LET g == Current(r)
         values == Saved(g, stage[r])
     IN /\ lr' = [lr EXCEPT ![g] = values]
        /\ buf' = [buf EXCEPT ![g] =
                     [s \in Side |-> IF s \in EdgeSides[g] THEN Packed(g, s, values[s])
                                                           ELSE @[s]]]
        /\ net' = [net EXCEPT ![r] = [q \in Rank |-> @[q] \o Posted(g, q)]]
  /\ pc' = [pc EXCEPT ![r] = "recv1"]
  /\ UNCHANGED <<stage, turn>>

-----------------------------------------------------------------------------
(* recvNeighborBlocks.                                                      *)

Content(m) == IF m.kept = Nil THEN buf[m.block][m.side] ELSE m.kept

\* Left in recvNeighborBlocks: at these sides what arrives is on the left.
StoredLeft(s) == s \in {"up", "left"}

Unpacked(face, s, strip) ==
  IF StoredLeft(s) THEN [face EXCEPT !.L = strip] ELSE [face EXCEPT !.R = strip]

\* MPI_Recv takes the first message from the rank that has the tag.
Matching(q, r, tag) == { i \in DOMAIN net[q][r] : net[q][r][i].tag = tag }

\* Mutant of Arrived: the receive does not wait for its message.
ArrivedOrNot(q, r, tag) == TRUE

Arrived(q, r, tag) == Matching(q, r, tag) # {}

\* The i-th entry of the neighbour list; nothing to do inside a panel.
Recv(r, i) ==
  /\ pc[r] = <<"recv1", "recv2", "recv3", "recv4">>[i]
  /\ LET g == Current(r)
         s == neighbor[i]
     IN IF s \notin EdgeSides[g] THEN UNCHANGED <<lr, net>>
        ELSE LET from == Across[g][s]
                 q == ranklist[from]
                 found == Matching(q, r, DirTag(s, from, g))
             IN /\ Arrived(q, r, DirTag(s, from, g))
                /\ IF found = {} THEN UNCHANGED <<lr, net>>
                   ELSE LET k == Min(found) IN
                        /\ lr' = [lr EXCEPT ![g][s] = Unpacked(@, s, Content(net[q][r][k]))]
                        /\ net' = [net EXCEPT ![q][r] = RemoveAt(@, k)]
  /\ pc' = [pc EXCEPT ![r] = <<"recv2", "recv3", "recv4", "wait">>[i]]
  /\ UNCHANGED <<stage, turn, buf>>

-----------------------------------------------------------------------------
(* SynchronizeFluxesWait.                                                   *)

\* A message of block g that MPI still reads from g's buffers.
Pending(m, g) == m.block = g /\ m.kept = Nil

AnyPending(r, g) == \E q \in Rank : \E i \in DOMAIN net[r][q] : Pending(net[r][q][i], g)

\* Mutant of Advance: the next stage does not begin with the first block.
AdvanceOn(r) ==
  LET last == turn[r] = Len(Mine[r]) IN
  /\ turn' = [turn EXCEPT ![r] = turn[r] + 1]
  /\ stage' = [stage EXCEPT ![r] = IF last THEN stage[r] + 1 ELSE stage[r]]
  /\ pc' = [pc EXCEPT ![r] =
              IF last /\ stage[r] = Stages THEN "done" ELSE "send"]

\* The block has its fluxes; the next block, or the next stage, begins.
Advance(r) ==
  LET last == turn[r] = Len(Mine[r]) IN
  /\ turn' = [turn EXCEPT ![r] = IF last THEN 1 ELSE turn[r] + 1]
  /\ stage' = [stage EXCEPT ![r] = IF last THEN stage[r] + 1 ELSE stage[r]]
  /\ pc' = [pc EXCEPT ![r] =
              IF last /\ stage[r] = Stages THEN "done" ELSE "send"]

\* The wait returns when every message of the block was received ...
Wait(r) ==
  /\ pc[r] = "wait"
  /\ ~ AnyPending(r, Current(r))
  /\ Advance(r)
  /\ UNCHANGED <<lr, buf, net>>

\* ... or when MPI has copied the ones that were not.
WaitBuffered(r) ==
  /\ pc[r] = "wait"
  /\ AnyPending(r, Current(r))
  /\ net' = [net EXCEPT ![r] = [q \in Rank |-> [i \in DOMAIN @[q] |->
               IF Pending(@[q][i], Current(r))
               THEN [@[q][i] EXCEPT !.kept = Content(net[r][q][i])]
               ELSE @[q][i]]]]
  /\ Advance(r)
  /\ UNCHANGED <<lr, buf>>

Init ==
  /\ stage = [r \in Rank |-> 1]
  /\ turn = [r \in Rank |-> 1]
  /\ pc = [r \in Rank |-> "send"]
  /\ lr = [g \in Gid |-> [s \in Side |-> [L |-> Nil, R |-> Nil]]]
  /\ buf = [g \in Gid |-> [s \in Side |-> Nil]]
  /\ net = [q \in Rank |-> [r \in Rank |-> <<>>]]

\* Every rank has left the time loop.
Finished == (\A r \in Rank : pc[r] = "done") /\ UNCHANGED vars

Next ==
  \/ \E r \in Rank :
       Send(r) \/ Wait(r) \/ WaitBuffered(r) \/ \E i \in 1 .. 4 : Recv(r, i)
  \/ Finished

\* What a rank does without MPI copying a message that was not received.
Step(r) == Send(r) \/ Wait(r) \/ \E i \in 1 .. 4 : Recv(r, i)

\* As long as some rank is not blocked, one of those runs on.
Spec == Init /\ [][Next]_vars /\ WF_vars(\E r \in Rank : Step(r))

-----------------------------------------------------------------------------
StripType == [block : Gid, side : Side, stage : 1 .. Stages, cells : {Forward, Backward}]

ASSUME NilAssumption == Nil \notin StripType

\* Every variable keeps its type.
TypeOK ==
  /\ stage \in [Rank -> 1 .. Stages + 1]
  /\ \A r \in Rank : turn[r] \in DOMAIN Mine[r]
  /\ pc \in [Rank -> Pc]
  /\ lr \in [Gid -> [Side -> [L : StripType \union {Nil}, R : StripType \union {Nil}]]]
  /\ buf \in [Gid -> [Side -> StripType \union {Nil}]]
  /\ \A q, r \in Rank : \A i \in DOMAIN net[q][r] :
       /\ ranklist[net[q][r][i].block] = q
       /\ net[q][r][i].kept \in StripType \union {Nil}

\* The stage block g last finished its exchange in.
Completed(g) ==
  LET r == ranklist[g] IN
  IF g < Current(r) \/ (g = Current(r) /\ pc[r] = "wait") THEN stage[r]
  ELSE stage[r] - 1

\* The points of the faces on the sphere.
OnSphere == [g \in Gid |-> [s \in Side |-> [c \in 0 .. Cells - 1 |->
               Direction(FindBlockID(loclist[g]), FacePoint(loclist[g], s, c))]]]

\* What the face at side s must hold: inside, the states the block computed in
\* this stage; outside, cell by cell, the ones that the block across computed
\* in the same stage at the same point of the sphere.
Joined(g, s) ==
  LET inner == IF SentLeft(s) THEN lr[g][s].L ELSE lr[g][s].R
      outer == IF SentLeft(s) THEN lr[g][s].R ELSE lr[g][s].L
  IN /\ inner = Strip(g, s, Completed(g))
     /\ outer # Nil /\ outer.stage = Completed(g) /\ outer.block # g
     /\ \A i \in 1 .. Cells :
          OnSphere[outer.block][outer.side][outer.cells[i]] = OnSphere[g][s][i - 1]

\* Once its exchange is over and until its next reconstruction a block has the
\* states on both sides of every panel-edge face right, so that the block
\* across the edge solves the same Riemann problem.
SameRiemannProblem ==
  \A g \in Gid :
    LET r == ranklist[g] IN
    (Completed(g) > 0 /\ (Current(r) = g => pc[r] \in {"send", "wait", "done"}))
      => \A s \in EdgeSides[g] : Joined(g, s)

\* Blocks that share a panel edge are never more than one stage apart,
\* although no barrier separates the stages.
OneStageApart ==
  \A g \in Gid : \A s \in EdgeSides[g] : Completed(g) - Completed(Across[g][s]) <= 1

\* Rank r waits for no other: what its block receives next has arrived, or all it
\* sent was received.
Free(r) ==
  LET g == Current(r) IN
  /\ pc[r] # "done"
  /\ \A i \in 1 .. 4 :
       LET s == neighbor[i] IN
       pc[r] = <<"recv1", "recv2", "recv3", "recv4">>[i] /\ s \in EdgeSides[g]
         => Arrived(ranklist[Across[g][s]], r, DirTag(s, Across[g][s], g))
  /\ pc[r] = "wait" => ~ AnyPending(r, g)

\* The ranks that have not finished never all wait for each other in the blocking
\* receives and waits, even when MPI copies no message (cubed_sphere.cpp:304, 668).
NeverAllBlocked == (\E r \in Rank : pc[r] # "done") => \E r \in Rank : Free(r)

\* The exchange never blocks for ever: all ranks reach the end of the run, even
\* when MPI copies no message.
Terminates == <>(\A r \in Rank : pc[r] = "done")

Abstract == INSTANCE EdgeStages WITH
  Blocks <- Gid, Meets <- LAMBDA g, h : \E s \in EdgeSides[g] : Across[g][s] = h,
  completed <- [g \in Gid |-> Completed(g)]

\* A block completes its stages one by one, each only when the blocks across its
\* edges have completed the one before, although all that a rank waits for is its
\* own messages: see EdgeStages.
ImplementsEdgeStages == Abstract!Spec

=============================================================================
