---------------------------- MODULE Decomposition ----------------------------
(***************************************************************************)
(* The hydrostatic pressure that is taken off before the reconstruction and  *)
(* put back after it (src/src/snap/decomposition).  The blocks of a column   *)
(* integrate the weight of the air from the top of the column down, each      *)
(* starting from what it receives from the block above.  Each block is on a    *)
(* rank of its own: both forms fail for two blocks of a column on one rank.    *)
(*                                                                         *)
(* Two forms.  "perturbation" is ChangeToPerturbation: psf_ goes to the block  *)
(* below and to the one above, each with the faces the other has as ghost      *)
(* faces.  "temperature" is ChangeToTemperature, the one CalculateFluxes       *)
(* calls: psf_ goes to the block below through an exchanger, and each block    *)
(* integrates over its own ghost cells.                                       *)
(***************************************************************************)
EXTENDS Integers, Sequences

CONSTANTS
  Forms,           \* the forms that a run may have
  nblocks,         \* MeshBlocks of the column
  N,               \* cells along x1 of a MeshBlock
  NGHOST,
  inner_x1,        \* the physical boundaries: "reflect" or "outflow"
  outer_x1,
  Stages,          \* stages that are run
  Weight(_, _),    \* Weight(s, g): grav * rho * dx1f of the column's cell g at stage s
  TopPressure(_),  \* the pressure extrapolated to the top of the column
  Nil              \* no value

Block == 0 .. nblocks - 1
top   == nblocks - 1

\* Local indices: is = 0, ie = N - 1; face i is the lower face of cell i.
Cell == -NGHOST .. N + NGHOST - 1
Face == -NGHOST .. N + NGHOST

ASSUME ColumnAssumption ==
  /\ {nblocks, N, NGHOST, Stages} \subseteq Nat \ {0}
  /\ Forms \subseteq {"perturbation", "temperature"}
  /\ {inner_x1, outer_x1} \subseteq {"reflect", "outflow"}
  /\ NGHOST <= N

ncells == nblocks * N
Global(b, i) == b * N + i

ASSUME PressureAssumption ==
  \A s \in 1 .. Stages :
    TopPressure(s) \in Int /\ \A g \in 0 .. ncells - 1 : Weight(s, g) \in Int

ASSUME NilAssumption == Nil \notin [0 .. NGHOST -> Int]

VARIABLES
  form,   \* the form, which is the same in all stages
  stage,  \* stage[b]: the stage block b is in
  pc,     \* pc[b]: where it is in ChangeTo...
  psf,    \* psf[b]: psf_, the hydrostatic pressure at the faces
  buf,    \* buf[b]: the buffers b's messages are sent from, by receiver
  net     \* net[a][b]: messages from block a to block b

vars == <<form, stage, pc, psf, buf, net>>

-----------------------------------------------------------------------------
\* The weight of a cell, a ghost cell outside the column included: Athena has
\* filled it before the stage.
CellWeight(s, g) ==
  CASE g \in 0 .. ncells - 1 -> Weight(s, g)
    [] g < 0 -> Weight(s, IF inner_x1 = "reflect" THEN -1 - g ELSE 0)
    [] g >= ncells -> Weight(s, IF outer_x1 = "reflect" THEN 2 * ncells - 1 - g
                                                        ELSE ncells - 1)

\* The loops of IntegrateDownwards and IntegrateUpwards; "sign" is that of the
\* gravity they are called with.
IntegrateDownwards(p, b, s, sign, il, iu) ==
  LET q[f \in Face] ==
        IF f \in il .. iu THEN q[f + 1] + sign * CellWeight(s, Global(b, f)) ELSE p[f]
  IN q

IntegrateUpwards(p, b, s, sign, il, iu) ==
  LET q[f \in Face] ==
        IF f \in il + 1 .. iu + 1 THEN q[f - 1] - sign * CellWeight(s, Global(b, f - 1))
        ELSE p[f]
  IN q

-----------------------------------------------------------------------------
(* Messages.  "kept" is the content once MPI has copied it out of the buffer. *)

Content(a, b, m) == IF m.kept = Nil THEN buf[a][b] ELSE m.kept

Pending(a) == \E b \in Block : \E n \in DOMAIN net[a][b] : net[a][b][n].kept = Nil

\* NGHOST + 1 faces from face il up, as they are packed and unpacked.
Faces(p, il) == [n \in 0 .. NGHOST |-> p[il + n]]
Unpacked(p, il, data) == [f \in Face |-> IF f - il \in 0 .. NGHOST THEN data[f - il] ELSE p[f]]

\* SendBuffer packs from face is for the block below; packData from ie + 1.
ToBottom(p) == IF form = "perturbation" THEN Faces(p, 0) ELSE Faces(p, N)

\* Mutant of ToTop: the range ends a face too low.
ToTopLow(p) == Faces(p, N - NGHOST - 1)

\* SendBuffer: the faces from ie - NGHOST + 1 for the block above.
ToTop(p) == Faces(p, N - NGHOST)

\* Mutant of Receivers: only the block above is sent to.
ReceiversAbove(b) == { a \in Block : a = b + 1 }

\* The blocks that block b sends to.
Receivers(b) ==
  { a \in Block : a = b - 1 \/ (form = "perturbation" /\ a = b + 1) }

-----------------------------------------------------------------------------
\* FindNeighbors: MPI_Allgather over all ranks is entered ...
FindNeighbors(b) ==
  /\ form = "perturbation"
  /\ pc[b] = "start"
  /\ pc' = [pc EXCEPT ![b] = "allgather"]
  /\ UNCHANGED <<form, stage, psf, buf, net>>

\* ... and left when every rank has entered it.  ChangeToTemperature has none.
Entered(b) ==
  \/ form = "temperature" /\ pc[b] = "start"
  \/ /\ form = "perturbation" /\ pc[b] = "allgather"
     /\ \A a \in Block : stage[a] > stage[b] \/ (stage[a] = stage[b] /\ pc[a] # "start")

\* The physical boundaries and, in the temperature form, all ghost faces.
Boundary(p, b, s) ==
  LET lower ==
        CASE form = "temperature" ->
               IntegrateDownwards(p, b, s, IF b = 0 /\ inner_x1 = "reflect" THEN -1 ELSE 1,
                                  -NGHOST, -1)
          [] form = "perturbation" /\ b = 0 ->
               [f \in Face |-> IF f >= 0 THEN p[f]
                               ELSE IF inner_x1 = "reflect" THEN p[-f] ELSE p[0]]
          [] OTHER -> p
  IN CASE form = "temperature" ->
            IntegrateUpwards(lower, b, s, IF b = top /\ outer_x1 = "reflect" THEN -1 ELSE 1,
                             N, N + NGHOST - 1)
       [] form = "perturbation" /\ b = top ->
            [f \in Face |-> IF f <= N THEN lower[f]
                            ELSE IF outer_x1 = "reflect" THEN lower[2 * N - f] ELSE lower[N]]
       [] OTHER -> lower

\* What a block starts from: RecvBuffer, or RecvFrom with unpackData, of what
\* comes from above, or the extrapolation at the top of the column.
FromTop(b) ==
  IF b = top THEN [psf[b] EXCEPT ![N] = TopPressure(stage[b])]
  ELSE Unpacked(psf[b], N, Content(b + 1, b, Head(net[b + 1][b])))

\* ChangeToPerturbation, ChangeToTemperature up to the receive from below or
\* the wait.
Descend(b) ==
  /\ Entered(b)
  /\ b # top => net[b + 1][b] # <<>>
  /\ LET p == IntegrateDownwards(FromTop(b), b, stage[b], 1, 0, N - 1) IN
     /\ psf' = [psf EXCEPT ![b] = Boundary(p, b, stage[b])]
     /\ buf' = [buf EXCEPT ![b] = [a \in Block |->
                  IF a \notin Receivers(b) THEN @[a]
                  ELSE IF a < b THEN ToBottom(p) ELSE ToTop(p)]]
  /\ net' = [a \in Block |-> [c \in Block |->
               CASE a = b /\ c \in Receivers(b) -> Append(net[a][c], [kept |-> Nil])
                 [] a = b + 1 /\ c = b          -> Tail(net[a][c])
                 [] OTHER                       -> net[a][c]]]
  /\ pc' = [pc EXCEPT ![b] = IF form = "perturbation" /\ b > 0 THEN "bottom" ELSE "wait"]
  /\ UNCHANGED <<form, stage>>

\* RecvBuffer from the block below.
RecvBottom(b) ==
  /\ pc[b] = "bottom"
  /\ net[b - 1][b] # <<>>
  /\ psf' = [psf EXCEPT ![b] =
               Unpacked(@, -NGHOST, Content(b - 1, b, Head(net[b - 1][b])))]
  /\ net' = [net EXCEPT ![b - 1][b] = Tail(@)]
  /\ pc' = [pc EXCEPT ![b] = "wait"]
  /\ UNCHANGED <<form, stage, buf>>

\* Mutant of NextStage: the block runs on after the last stage.
NextStageStay(b) ==
  /\ stage' = [stage EXCEPT ![b] = @ + 1]
  /\ pc' = [pc EXCEPT ![b] = "start"]

\* The block goes on to the next stage, where it needs the decomposition again.
NextStage(b) ==
  /\ stage' = [stage EXCEPT ![b] = @ + 1]
  /\ pc' = [pc EXCEPT ![b] = IF stage[b] = Stages THEN "done" ELSE "start"]

\* Mutant of Wait: the wait for the sends is left out.
WaitForgotten(b) ==
  /\ pc[b] = "wait"
  /\ NextStage(b)
  /\ UNCHANGED <<form, psf, buf, net>>

\* WaitToFinishSend, ClearBuffer: the messages of the block were received ...
Wait(b) ==
  /\ pc[b] = "wait"
  /\ ~ Pending(b)
  /\ NextStage(b)
  /\ UNCHANGED <<form, psf, buf, net>>

\* ... or MPI has copied those that were not.
WaitBuffered(b) ==
  /\ pc[b] = "wait"
  /\ Pending(b)
  /\ net' = [net EXCEPT ![b] = [a \in Block |-> [n \in DOMAIN @[a] |->
               [kept |-> Content(b, a, net[b][a][n])]]]]
  /\ NextStage(b)
  /\ UNCHANGED <<form, psf, buf>>

Init ==
  /\ form \in Forms
  /\ stage = [b \in Block |-> 1]
  /\ pc = [b \in Block |-> "start"]
  /\ psf = [b \in Block |-> [f \in Face |-> 0]]
  /\ buf = [b \in Block |-> [a \in Block |-> Nil]]
  /\ net = [a \in Block |-> [b \in Block |-> <<>>]]

\* The stages are over.
Finished == (\A b \in Block : pc[b] = "done") /\ UNCHANGED vars

Next ==
  \/ \E b \in Block :
       FindNeighbors(b) \/ Descend(b) \/ RecvBottom(b) \/ Wait(b) \/ WaitBuffered(b)
  \/ Finished

\* A rank runs on unless it is blocked; MPI need not copy a message.
Step(b) == FindNeighbors(b) \/ Descend(b) \/ RecvBottom(b) \/ Wait(b)

Spec == Init /\ [][Next]_vars /\ \A b \in Block : WF_vars(Step(b))

-----------------------------------------------------------------------------
\* Every variable keeps its type.
TypeOK ==
  /\ form \in Forms
  /\ stage \in [Block -> 1 .. Stages + 1]
  /\ pc \in [Block -> {"start", "allgather", "bottom", "wait", "done"}]
  /\ \A b \in Block : DOMAIN psf[b] = Face /\ \A f \in Face : psf[b][f] \in Int
  /\ \A a, b \in Block : a # b + 1 /\ b # a + 1 => net[a][b] = <<>>

\* The stage of the last decomposition that block b finished.
Completed(b) == IF pc[b] = "wait" THEN stage[b] ELSE stage[b] - 1

\* Between its decompositions a block has all faces of psf_.
Whole(b) == Completed(b) > 0 /\ pc[b] # "bottom"

\* Over every cell that is decomposed, the ghost cells that belong to the
\* blocks above and below included, the hydrostatic pressure changes by the
\* weight of the air in it at this stage: what is taken off is in balance.
Balanced ==
  \A b \in Block : Whole(b) =>
    \A i \in Cell : Global(b, i) \in 0 .. ncells - 1 =>
      psf[b][i] - psf[b][i + 1] = Weight(Completed(b), Global(b, i))

\* The weight of the column's air above the lower face of cell g.
AirAbove(s) ==
  LET w[g \in 0 .. ncells] == IF g = ncells THEN 0 ELSE w[g + 1] + Weight(s, g)
  IN w

\* The pressure at a block's top boundary is that of all the air above it, so
\* that the two blocks at an interface take off and put back the same pressure.
PressureAtTop ==
  \A b \in Block : Whole(b) =>
    psf[b][N] = TopPressure(Completed(b)) + AirAbove(Completed(b))[Global(b, N)]

\* The faces of the column whose pressure block b may start from: that of its
\* top, and in the temperature form, whose packData takes it from too high a
\* face of the block above, any face from there up.
StartFaces(b) ==
  IF form = "perturbation" THEN {Global(b, N)} ELSE Global(b, N) .. ncells

\* A block starts from the pressure of the stage it is in, never from that of
\* a stage the block above had left or had gone on to: the buffer of a message
\* is not packed again before the block below has it, barrier or not.
PressureOfStage ==
  \A b \in Block : Whole(b) => \E g \in StartFaces(b) :
    psf[b][N] = TopPressure(Completed(b)) + AirAbove(Completed(b))[g]

\* All blocks reach the end of the run, even when MPI copies no message.
Terminates == <>(\A b \in Block : pc[b] = "done")

=============================================================================
