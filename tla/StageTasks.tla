----------------------------- MODULE StageTasks -----------------------------
(***************************************************************************)
(* The task list of a time step (src/src/tasklist/implicit_hydro_tasks.cpp   *)
(* and the patches of src/patches/ it builds on) on every rank, in the build  *)
(* for the cubed sphere: the order in which a block adds fluxes, sources and   *)
(* corrections to its cells, exchanges ghost cells twice with its neighbours   *)
(* through the same buffers and requests, and renews its radiative fluxes.     *)
(*                                                                         *)
(* One MeshBlock per rank.  A state of the cells is abstracted to the cycle    *)
(* and stage it is of and to what has been added to it.  The tasks of          *)
(* Athena++ that touch none of this (PHY_BVAL, USERWORK, NEW_DT) are left out.  *)
(***************************************************************************)
EXTENDS Integers, Sequences, SequencesExt, FiniteSetsExt

CONSTANTS
  Rank,       \* ranks, one block each
  Beside,     \* Beside[r]: the neighbours along r's panel edges, in its panel
  Across,     \* Across[r]: the neighbours on the other side of a panel edge
  nstages,    \* stages of the time integrator
  Cycles,     \* time steps that are run
  Cooldown,   \* radiation/dt: time between two computations of the fluxes
  Dts,        \* time steps that NewTimeStep may find
  Nil         \* no value

ASSUME StageAssumption ==
  /\ {nstages, Cycles} \subseteq Nat \ {0} /\ Cooldown \in Nat
  /\ Dts \subseteq Nat \ {0} /\ Dts # {}
  /\ Beside \in [Rank -> SUBSET Rank] /\ Across \in [Rank -> SUBSET Rank]
  /\ \A q, r \in Rank : /\ q \in Beside[r] <=> r \in Beside[q]
                        /\ q \in Across[r] <=> r \in Across[q]
  /\ \E d \in Dts : \A e \in Dts : e <= d

VARIABLES
  cycle,      \* pmesh->ncycle, counted from 1; a restart does not reset it
  began,      \* the cycle this process began with
  dt,         \* pmesh->dt
  stage,      \* stage[r]: the stage rank r is in
  finished,   \* finished[r]: tasks of the stage that r's block has finished
  flux,       \* flux[r]: what has been added to phydro->flux
  du,         \* du[r]: what has been added to pimpl->du
  u,          \* u[r]: the state of the cells of the block
  counter,    \* counter[r]: current_ of the radiation's CounterGroup
  age,        \* age[r]: time since flxup and flxdn were computed, or Nil
  sendbuf,    \* sendbuf[r][n]: buffer for the messages to neighbour n
  recvbuf,    \* recvbuf[r][n]: buffer for the messages from n
  posted,     \* posted[r][n]: the persistent receive from n is active
  ghost,      \* ghost[r][n]: the ghost cells filled by n
  net         \* net[r][n]: messages under way; Nil is one still in sendbuf

radiation == <<counter, age>>
cells     == <<flux, du, u>>
exchange  == <<sendbuf, recvbuf, posted, ghost, net>>
clock     == <<cycle, began, dt>>
vars      == <<clock, stage, finished, cells, radiation, exchange>>

Near(r) == Beside[r] \union Across[r]

-----------------------------------------------------------------------------
(* The list.                                                                *)

Task(id, dep) == [id |-> id, dep |-> dep]

\* TimeIntegratorTaskList, as patched for the cubed sphere.
AthenaTasks == <<
  Task("CALC_HYDFLX",   {}),
  Task("INT_HYD",       {"CALC_HYDFLX"}),
  Task("SRC_TERM",      {"INT_HYD"}),
  Task("SEND_HYD",      {"SRC_TERM"}),
  Task("RECV_HYD",      {}),
  Task("SETB_HYD",      {"RECV_HYD", "SRC_TERM"}),
  Task("CLEAR_ALLBND2", {"SETB_HYD"}),
  Task("RESTART_RECV",  {"CLEAR_ALLBND2"}),
  Task("SEND_HYD2",     {"CLEAR_ALLBND2"}),
  Task("RECV_HYD2",     {"RESTART_RECV"}),
  Task("SETB_HYD2",     {"RECV_HYD2"}),
  Task("CONS2PRIM",     {"SETB_HYD2"}),
  Task("CLEAR_ALLBND",  {"CONS2PRIM"}) >>

\* The tasks that ImplicitHydroTasks appends.
CanoeTasks == <<
  Task("ADD_FLX_CONS",   {"CALC_HYDFLX"}),
  Task("IMPLICIT_CORR",  {"SRC_TERM"}),
  Task("UPDATE_ALLCONS", {"IMPLICIT_CORR"}) >>

\* Mutant of NewDependency: the first round is still sent after SRC_TERM.
NewDependencyNotSend(t) ==
  CASE t.id = "INT_HYD"  -> {"ADD_FLX_CONS"}
    [] t.id = "SETB_HYD" -> {"RECV_HYD", "UPDATE_ALLCONS"}
    [] OTHER -> t.dep

\* The dependencies that ImplicitHydroTasks changes.
NewDependency(t) ==
  CASE t.id = "INT_HYD"  -> {"ADD_FLX_CONS"}
    [] t.id = "SEND_HYD" -> {"UPDATE_ALLCONS"}
    [] t.id = "SETB_HYD" -> {"RECV_HYD", "UPDATE_ALLCONS"}
    [] OTHER -> t.dep

task_list == [ i \in 1 .. Len(AthenaTasks \o CanoeTasks) |->
                 LET t == (AthenaTasks \o CanoeTasks)[i] IN Task(t.id, NewDependency(t)) ]
ntasks == Len(task_list)
AllTasks == { task_list[i].id : i \in 1 .. ntasks }

\* Mutant of Fails: the receive is not tried again.
FailsNever(r, id) == FALSE

\* Mutant of Fails: the receive of the second round is not tried again.
FailsFirstRound(r, id) == id = "RECV_HYD" /\ \E n \in Near(r) : posted[r][n]

\* A receive fails, to be tried again, as long as a posted request is active.
Fails(r, id) ==
  id \in {"RECV_HYD", "RECV_HYD2"} /\ \E n \in Near(r) : posted[r][n]

Ready(r, i) ==
  /\ task_list[i].id \notin finished[r]
  /\ task_list[i].dep \subseteq finished[r]
  /\ ~ Fails(r, task_list[i].id)

find_task == [ id \in AllTasks |-> CHOOSE i \in 1 .. ntasks : task_list[i].id = id ]

\* Rank r runs the task: the part that all tasks have in common.  Of the tasks
\* that are ready DoAllAvailableTasks runs the first of the list.  After a task
\* that returned TaskStatus::next it goes on down the list instead, but then
\* only a receive can be ready further up, and a receive changes nothing.
Runs(r, id) ==
  /\ Ready(r, find_task[id])
  /\ \A i \in 1 .. find_task[id] - 1 : ~ Ready(r, i)
  /\ finished' = [finished EXCEPT ![r] = @ \union {id}]
  /\ UNCHANGED <<clock, stage>>

last(r) == stage[r] = nstages

-----------------------------------------------------------------------------
(* The tasks that change the cells.                                         *)

CalculateHydroFlux(r) ==
  /\ Runs(r, "CALC_HYDFLX")
  /\ flux' = [flux EXCEPT ![r] = {"hydro"}]
  /\ UNCHANGED <<du, u, radiation, exchange>>

\* Mutant of UpdateRadiation: a counter that has just run out still counts.
UpdateRadiationLate(r) ==
  IF counter[r] >= 0
  THEN counter' = [counter EXCEPT ![r] = @ - dt] /\ UNCHANGED age
  ELSE counter' = [counter EXCEPT ![r] = Cooldown] /\ age' = [age EXCEPT ![r] = 0]

\* DecrementCounter, or ResetCounter and CalFlux for all columns.
UpdateRadiation(r) ==
  IF counter[r] > 0
  THEN counter' = [counter EXCEPT ![r] = @ - dt] /\ UNCHANGED age
  ELSE counter' = [counter EXCEPT ![r] = Cooldown] /\ age' = [age EXCEPT ![r] = 0]

\* Fluxes that were not computed since the program started are zero.
AddFluxToConserved(r) ==
  /\ Runs(r, "ADD_FLX_CONS")
  /\ flux' = [flux EXCEPT ![r] = @ \union IF age[r] = Nil THEN {} ELSE {"radiation"}]
  /\ IF last(r) THEN UpdateRadiation(r) ELSE UNCHANGED radiation
  /\ UNCHANGED <<du, u, exchange>>

IntegrateHydro(r) ==
  /\ Runs(r, "INT_HYD")
  /\ u' = [u EXCEPT ![r] = [cycle |-> cycle, stage |-> stage[r], added |-> {}]]
  /\ du' = [du EXCEPT ![r] = flux[r]]
  /\ UNCHANGED <<flux, radiation, exchange>>

AddSourceTerms(r) ==
  /\ Runs(r, "SRC_TERM")
  /\ du' = [du EXCEPT ![r] = @ \union {"source"}]
  /\ UNCHANGED <<flux, u, radiation, exchange>>

\* SolveImplicit3D corrects du, which is then added to u.
ImplicitCorrection(r) ==
  /\ Runs(r, "IMPLICIT_CORR")
  /\ du' = [du EXCEPT ![r] = @ \union {"implicit"}]
  /\ u' = [u EXCEPT ![r].added = @ \union du'[r]]
  /\ UNCHANGED <<flux, radiation, exchange>>

UpdateAllConserved(r) ==
  /\ Runs(r, "UPDATE_ALLCONS")
  /\ u' = [u EXCEPT ![r].added = @ \union IF last(r) THEN {"adjusted"} ELSE {}]
  /\ UNCHANGED <<flux, du, radiation, exchange>>

-----------------------------------------------------------------------------
(* The two rounds of the exchange.                                          *)

\* What neighbour n is sent: the block's cells, and for a neighbour across a
\* panel edge they are interpolated along the edge, with the ghost cells from
\* the blocks beside.
Packed(r, n) ==
  [of |-> u[r],
   along |-> IF n \in Across[r] THEN { ghost[r][m].of : m \in Beside[r] } ELSE {}]

SendHydro(r) ==
  /\ \E id \in {"SEND_HYD", "SEND_HYD2"} : Runs(r, id)
  /\ sendbuf' = [sendbuf EXCEPT ![r] = [n \in Near(r) |-> Packed(r, n)]]
  /\ net' = [net EXCEPT ![r] = [n \in Near(r) |-> Append(@[n], Nil)]]
  /\ UNCHANGED <<cells, radiation, recvbuf, posted, ghost>>

\* MPI matches the oldest message with the request that is posted.
Deliver(q, r) ==
  /\ q \in Near(r)
  /\ posted[r][q] /\ net[q][r] # <<>>
  /\ recvbuf' = [recvbuf EXCEPT ![r][q] =
                   IF Head(net[q][r]) = Nil THEN sendbuf[q][r] ELSE Head(net[q][r])]
  /\ posted' = [posted EXCEPT ![r][q] = FALSE]
  /\ net' = [net EXCEPT ![q][r] = Tail(@)]
  /\ UNCHANGED <<clock, stage, finished, cells, radiation, sendbuf, ghost>>

\* MPI_Test finds no request active: everything has arrived.
ReceiveHydro(r) ==
  /\ \E id \in {"RECV_HYD", "RECV_HYD2"} : Runs(r, id)
  /\ UNCHANGED <<cells, radiation, exchange>>

SetBoundariesHydro(r) ==
  /\ \E id \in {"SETB_HYD", "SETB_HYD2"} : Runs(r, id)
  /\ ghost' = [ghost EXCEPT ![r] = recvbuf[r]]
  /\ UNCHANGED <<cells, radiation, sendbuf, recvbuf, posted, net>>

Sending(r) == \E n \in Near(r) : Contains(net[r][n], Nil)

\* MPI_Wait for the sends, which returns when they were received ...
ClearAllBoundary(r) ==
  /\ \E id \in {"CLEAR_ALLBND2", "CLEAR_ALLBND"} : Runs(r, id)
  /\ ~ Sending(r)
  /\ UNCHANGED <<cells, radiation, exchange>>

\* ... or when MPI has copied them out of the buffers.
ClearBuffered(r) ==
  /\ \E id \in {"CLEAR_ALLBND2", "CLEAR_ALLBND"} : Runs(r, id)
  /\ Sending(r)
  /\ net' = [net EXCEPT ![r] = [n \in Near(r) |->
               [i \in DOMAIN @[n] |-> IF @[n][i] = Nil THEN sendbuf[r][n] ELSE @[n][i]]]]
  /\ UNCHANGED <<cells, radiation, sendbuf, recvbuf, posted, ghost>>

\* Mutant of StartReceiving: the requests are not started.
StartReceivingNot(r) == posted[r]

StartReceiving(r) == [n \in Near(r) |-> TRUE]

RestartReceiving(r) ==
  /\ Runs(r, "RESTART_RECV")
  /\ posted' = [posted EXCEPT ![r] = StartReceiving(r)]
  /\ UNCHANGED <<cells, radiation, sendbuf, recvbuf, ghost, net>>

Cons2Prim(r) ==
  /\ Runs(r, "CONS2PRIM")
  /\ UNCHANGED <<cells, radiation, exchange>>

-----------------------------------------------------------------------------
(* Stages and cycles.                                                       *)

StageOver(r) == finished[r] = AllTasks

\* DoTaskListOneStage for the next stage; no rank waits for another.
NextStage(r) ==
  /\ StageOver(r) /\ ~ last(r)
  /\ stage' = [stage EXCEPT ![r] = @ + 1]
  /\ finished' = [finished EXCEPT ![r] = {}]
  /\ posted' = [posted EXCEPT ![r] = StartReceiving(r)]
  /\ UNCHANGED <<clock, cells, radiation, sendbuf, recvbuf, ghost, net>>

CycleOver == \A r \in Rank : StageOver(r) /\ last(r)

\* The main loop goes on when NewTimeStep has found the smallest time step of
\* all ranks.
BeginCycle ==
  /\ CycleOver /\ cycle < Cycles
  /\ cycle' = cycle + 1
  /\ dt' \in Dts
  /\ stage' = [r \in Rank |-> 1]
  /\ finished' = [r \in Rank |-> {}]
  /\ posted' = [r \in Rank |-> StartReceiving(r)]
  /\ UNCHANGED <<cells, sendbuf, recvbuf, ghost, net>>

Continue ==
  /\ BeginCycle
  /\ age' = [r \in Rank |-> IF age[r] = Nil THEN Nil ELSE age[r] + dt]
  /\ UNCHANGED <<began, counter>>

\* The program ended here and is started again from its restart file, which
\* holds the cells, but neither the counter nor the radiative fluxes.
Restart ==
  /\ BeginCycle
  /\ began' = cycle + 1
  /\ counter' = [r \in Rank |-> 0]
  /\ age' = [r \in Rank |-> Nil]

Finished == CycleOver /\ cycle = Cycles /\ UNCHANGED vars

Start == [cycle |-> 0, stage |-> nstages, added |-> {}]

\* Mesh::Initialize has filled the ghost cells, in two rounds as well.
Init ==
  /\ cycle = 1 /\ began = 1 /\ dt \in Dts
  /\ stage = [r \in Rank |-> 1]
  /\ finished = [r \in Rank |-> {}]
  /\ flux = [r \in Rank |-> {}]
  /\ du = [r \in Rank |-> {}]
  /\ u = [r \in Rank |-> Start]
  /\ counter = [r \in Rank |-> 0]
  /\ age = [r \in Rank |-> Nil]
  /\ sendbuf = [r \in Rank |-> [n \in Near(r) |-> Nil]]
  /\ recvbuf = [r \in Rank |-> [n \in Near(r) |-> Nil]]
  /\ posted = [r \in Rank |-> [n \in Near(r) |-> TRUE]]
  /\ ghost = [r \in Rank |-> [n \in Near(r) |->
               [of |-> Start, along |-> IF n \in Across[r] THEN {Start} ELSE {}]]]
  /\ net = [r \in Rank |-> [n \in Near(r) |-> <<>>]]

\* What a rank does without waiting for MPI to buffer a message.
Step(r) ==
  \/ CalculateHydroFlux(r) \/ AddFluxToConserved(r) \/ IntegrateHydro(r)
  \/ AddSourceTerms(r) \/ ImplicitCorrection(r) \/ UpdateAllConserved(r)
  \/ SendHydro(r) \/ ReceiveHydro(r) \/ SetBoundariesHydro(r)
  \/ ClearAllBoundary(r) \/ RestartReceiving(r) \/ Cons2Prim(r) \/ NextStage(r)

\* What happens without MPI copying a message that was not received.
Progress ==
  \/ \E r \in Rank : Step(r) \/ \E q \in Rank : Deliver(q, r)
  \/ Continue \/ Restart

Next == Progress \/ (\E r \in Rank : ClearBuffered(r)) \/ Finished

\* As long as a rank that is not blocked, MPI with a message whose receive is
\* posted, or the main loop can go on, one of them does.
Spec == Init /\ [][Next]_vars /\ WF_vars(Progress)

-----------------------------------------------------------------------------
Additions == {"hydro", "radiation", "source", "implicit", "adjusted"}
State == [cycle : 0 .. Cycles, stage : 1 .. nstages, added : SUBSET Additions]

ASSUME NilAssumption == Nil \notin Nat \union [of : State, along : SUBSET State]

Strip(x) == x = Nil \/ (x.of \in State /\ x.along \subseteq State)

\* Every variable keeps its type.
TypeOK ==
  /\ cycle \in 1 .. Cycles /\ began \in 1 .. cycle /\ dt \in Dts
  /\ stage \in [Rank -> 1 .. nstages]
  /\ finished \in [Rank -> SUBSET AllTasks]
  /\ flux \in [Rank -> SUBSET Additions] /\ du \in [Rank -> SUBSET Additions]
  /\ u \in [Rank -> State]
  /\ counter \in [Rank -> Int]
  /\ \A r \in Rank : age[r] \in Nat \union {Nil}
  /\ \A r \in Rank : \A n \in Near(r) :
       /\ Strip(sendbuf[r][n]) /\ Strip(recvbuf[r][n])
       /\ Strip(ghost[r][n]) /\ ghost[r][n] # Nil
       /\ posted[r][n] \in BOOLEAN
       /\ \A i \in DOMAIN net[r][n] : Strip(net[r][n][i])

\* The cells at the end of stage s of this cycle, everything added.
Complete(s) ==
  [cycle |-> cycle, stage |-> s,
   added |-> {"hydro", "source", "implicit"}
             \union (IF cycle = began THEN {} ELSE {"radiation"})
             \union (IF s = nstages THEN {"adjusted"} ELSE {})]

\* When a block converts to primitive variables, from which the next stage
\* computes its fluxes, its own cells and all ghost cells are complete states
\* of this stage: also where the neighbour interpolated them from its own
\* ghost cells, which takes the second round, and although both rounds use the
\* same buffers, requests and tags and a neighbour may be a round ahead.
GhostsFresh ==
  \A r \in Rank :
    "CONS2PRIM" \in finished[r] =>
      /\ u[r] = Complete(stage[r])
      /\ \A n \in Near(r) :
           ghost[r][n].of = Complete(stage[r]) /\ ghost[r][n].along \subseteq {Complete(stage[r])}

\* At most two messages, one of each round, are under way to a neighbour, even
\* when MPI copies every message at once.
TwoOutstanding == \A r \in Rank : \A n \in Near(r) : Len(net[r][n]) <= 2

\* The radiative fluxes that are added are not older than the cooldown time
\* and two time steps, and they are missing in the first cycle only.
RadiationRecent ==
  \A r \in Rank :
    /\ age[r] = Nil => cycle = began
    /\ age[r] # Nil => age[r] < Cooldown + 2 * Max(Dts)

\* All ranks reach the end of the last cycle, even when MPI copies no message.
Terminates == <>(CycleOver /\ cycle = Cycles)

=============================================================================
