-------------------------- MODULE StageTasks_proof --------------------------
(***************************************************************************)
(* Proofs about StageTasks, for any ranks, neighbour relations, numbers of     *)
(* stages and cycles, cooldown time and time steps.                            *)
(*                                                                         *)
(* The argument.  The list and DoAllAvailableTasks order the tasks of a block   *)
(* (RunsAdds).  From that order follows, by counting the messages of a cycle,   *)
(* which message is the next between two blocks (Counted) and what it contains  *)
(* (Good): an odd one the neighbour's cells of the stage, an even one also cells  *)
(* interpolated from ghost cells that are of the stage.                        *)
(***************************************************************************)
EXTENDS StageTasks, WellFoundedInduction, TLAPS

\* The list with its dependencies.
LEMMA ListFacts ==
  /\ ntasks = 16
  /\ task_list[1] = Task("CALC_HYDFLX", {})
  /\ task_list[2] = Task("INT_HYD", {"ADD_FLX_CONS"})
  /\ task_list[3] = Task("SRC_TERM", {"INT_HYD"})
  /\ task_list[4] = Task("SEND_HYD", {"UPDATE_ALLCONS"})
  /\ task_list[5] = Task("RECV_HYD", {})
  /\ task_list[6] = Task("SETB_HYD", {"RECV_HYD", "UPDATE_ALLCONS"})
  /\ task_list[7] = Task("CLEAR_ALLBND2", {"SETB_HYD"})
  /\ task_list[8] = Task("RESTART_RECV", {"CLEAR_ALLBND2"})
  /\ task_list[9] = Task("SEND_HYD2", {"CLEAR_ALLBND2"})
  /\ task_list[10] = Task("RECV_HYD2", {"RESTART_RECV"})
  /\ task_list[11] = Task("SETB_HYD2", {"RECV_HYD2"})
  /\ task_list[12] = Task("CONS2PRIM", {"SETB_HYD2"})
  /\ task_list[13] = Task("CLEAR_ALLBND", {"CONS2PRIM"})
  /\ task_list[14] = Task("ADD_FLX_CONS", {"CALC_HYDFLX"})
  /\ task_list[15] = Task("IMPLICIT_CORR", {"SRC_TERM"})
  /\ task_list[16] = Task("UPDATE_ALLCONS", {"IMPLICIT_CORR"})
<1> DEFINE L == AthenaTasks \o CanoeTasks
<1>1. Len(L) = 16
  BY DEF AthenaTasks, CanoeTasks
<1>2. /\ L[1] = Task("CALC_HYDFLX", {})
      /\ L[2] = Task("INT_HYD", {"CALC_HYDFLX"})
      /\ L[3] = Task("SRC_TERM", {"INT_HYD"})
      /\ L[4] = Task("SEND_HYD", {"SRC_TERM"})
      /\ L[5] = Task("RECV_HYD", {})
      /\ L[6] = Task("SETB_HYD", {"RECV_HYD", "SRC_TERM"})
      /\ L[7] = Task("CLEAR_ALLBND2", {"SETB_HYD"})
      /\ L[8] = Task("RESTART_RECV", {"CLEAR_ALLBND2"})
  BY DEF AthenaTasks, CanoeTasks
<1>3. /\ L[9] = Task("SEND_HYD2", {"CLEAR_ALLBND2"})
      /\ L[10] = Task("RECV_HYD2", {"RESTART_RECV"})
      /\ L[11] = Task("SETB_HYD2", {"RECV_HYD2"})
      /\ L[12] = Task("CONS2PRIM", {"SETB_HYD2"})
      /\ L[13] = Task("CLEAR_ALLBND", {"CONS2PRIM"})
      /\ L[14] = Task("ADD_FLX_CONS", {"CALC_HYDFLX"})
      /\ L[15] = Task("IMPLICIT_CORR", {"SRC_TERM"})
      /\ L[16] = Task("UPDATE_ALLCONS", {"IMPLICIT_CORR"})
  BY DEF AthenaTasks, CanoeTasks
<1>4. \A i \in 1 .. 16 : task_list[i] = Task(L[i].id, NewDependency(L[i]))
  BY <1>1 DEF task_list
<1>5. ntasks = 16
  BY <1>1 DEF task_list, ntasks
<1> HIDE DEF L
<1>6. \A id, dep : Task(id, dep).id = id /\ Task(id, dep).dep = dep
  BY DEF Task
<1> QED
  BY <1>2, <1>3, <1>4, <1>5, <1>6 DEF NewDependency

Id == <<"CALC_HYDFLX", "INT_HYD", "SRC_TERM", "SEND_HYD", "RECV_HYD", "SETB_HYD",
        "CLEAR_ALLBND2", "RESTART_RECV", "SEND_HYD2", "RECV_HYD2", "SETB_HYD2",
        "CONS2PRIM", "CLEAR_ALLBND", "ADD_FLX_CONS", "IMPLICIT_CORR", "UPDATE_ALLCONS">>

\* The place of each task in the list, and find_task as its inverse.
LEMMA IdFacts ==
  /\ \A i \in 1 .. 16 : task_list[i].id = Id[i]
  /\ \A i, j \in 1 .. 16 : Id[i] = Id[j] => i = j
  /\ AllTasks = { Id[i] : i \in 1 .. 16 }
  /\ \A i \in 1 .. 16 : find_task[Id[i]] = i
<1>1. \A i \in 1 .. 16 : task_list[i].id = Id[i]
  BY ListFacts DEF Task, Id
<1>2. \A i, j \in 1 .. 16 : Id[i] = Id[j] => i = j
  BY DEF Id
<1>3. AllTasks = { Id[i] : i \in 1 .. 16 }
  BY <1>1, ListFacts DEF AllTasks
<1>4. \A i \in 1 .. 16 : find_task[Id[i]] = i
  <2> TAKE i \in 1 .. 16
  <2>1. find_task[Id[i]] = CHOOSE j \in 1 .. ntasks : task_list[j].id = Id[i]
    BY <1>3 DEF find_task
  <2>2. i \in 1 .. ntasks /\ task_list[i].id = Id[i]
    BY <1>1, ListFacts
  <2>3. \A j \in 1 .. ntasks : task_list[j].id = Id[i] => j = i
    BY <1>1, <1>2, ListFacts
  <2> QED
    BY <2>1, <2>2, <2>3
<1> QED
  BY <1>1, <1>2, <1>3, <1>4

\* A task runs after the tasks it depends on ...
LEMMA RunsDep ==
  ASSUME NEW r \in Rank, NEW i \in 1 .. 16, Runs(r, Id[i])
  PROVE  /\ Id[i] \notin finished[r]
         /\ task_list[i].dep \subseteq finished[r]
         /\ ~ Fails(r, Id[i])
         /\ \A j \in 1 .. i - 1 : ~ Ready(r, j)
         /\ finished' = [finished EXCEPT ![r] = @ \union {Id[i]}]
         /\ UNCHANGED <<clock, stage>>
BY IdFacts DEF Runs, Ready

\* ... and after those before it in the list that could run.
LEMMA NotReady ==
  ASSUME NEW r \in Rank, NEW j \in {4, 8, 9}, ~ Ready(r, j),
         task_list[j].dep \subseteq finished[r]
  PROVE  Id[j] \in finished[r]
BY IdFacts DEF Ready, Fails, Id

-----------------------------------------------------------------------------
(* The order in which the tasks of a stage are finished.                    *)

\* F, a set of finished tasks, is closed under "runs before".
Order(F) ==
  /\ F \subseteq AllTasks
  /\ "ADD_FLX_CONS" \in F => "CALC_HYDFLX" \in F
  /\ "INT_HYD" \in F => "ADD_FLX_CONS" \in F
  /\ "SRC_TERM" \in F => "INT_HYD" \in F
  /\ "IMPLICIT_CORR" \in F => "SRC_TERM" \in F
  /\ "UPDATE_ALLCONS" \in F => "IMPLICIT_CORR" \in F
  /\ "SEND_HYD" \in F => "UPDATE_ALLCONS" \in F
  /\ "SETB_HYD" \in F => "SEND_HYD" \in F /\ "RECV_HYD" \in F
  /\ "CLEAR_ALLBND2" \in F => "SETB_HYD" \in F
  /\ "RESTART_RECV" \in F => "CLEAR_ALLBND2" \in F
  /\ "SEND_HYD2" \in F => "RESTART_RECV" \in F
  /\ "RECV_HYD2" \in F => "SEND_HYD2" \in F
  /\ "SETB_HYD2" \in F => "RECV_HYD2" \in F
  /\ "CONS2PRIM" \in F => "SETB_HYD2" \in F
  /\ "CLEAR_ALLBND" \in F => "CONS2PRIM" \in F

\* What running a task means for the finished tasks of all ranks.
Adds(r, id) ==
  /\ id \notin finished[r]
  /\ Order(finished[r] \union {id})
  /\ finished' = [finished EXCEPT ![r] = @ \union {id}]
  /\ cycle' = cycle /\ began' = began /\ dt' = dt /\ stage' = stage

\* A task that runs is new, and with it the finished tasks are still in order:
\* SETB_HYD comes after SEND_HYD, and RESTART_RECV before SEND_HYD2, by their
\* places in the list alone.
LEMMA RunsAdds ==
  ASSUME NEW r \in Rank, NEW i \in 1 .. 16, Order(finished[r]), Runs(r, Id[i])
  PROVE  Adds(r, Id[i]) /\ ~ Fails(r, Id[i])
<1> DEFINE F == finished[r]
<1>1. /\ Id[i] \notin F
      /\ task_list[i].dep \subseteq F
      /\ ~ Fails(r, Id[i])
      /\ \A j \in 1 .. i - 1 : ~ Ready(r, j)
      /\ finished' = [finished EXCEPT ![r] = @ \union {Id[i]}]
      /\ cycle' = cycle /\ began' = began /\ dt' = dt /\ stage' = stage
  BY RunsDep DEF clock
<1>2. Id[i] \in AllTasks
  BY IdFacts
<1>3. \A j \in {4, 8, 9} : j < i /\ task_list[j].dep \subseteq F => Id[j] \in F
  BY <1>1, NotReady
<1>4. /\ task_list[4].dep = {"UPDATE_ALLCONS"}
      /\ task_list[8].dep = {"CLEAR_ALLBND2"}
      /\ task_list[9].dep = {"CLEAR_ALLBND2"}
  BY ListFacts DEF Task
<1>5. /\ Id[i] = "ADD_FLX_CONS" => "CALC_HYDFLX" \in F
      /\ Id[i] = "INT_HYD" => "ADD_FLX_CONS" \in F
      /\ Id[i] = "SRC_TERM" => "INT_HYD" \in F
      /\ Id[i] = "IMPLICIT_CORR" => "SRC_TERM" \in F
      /\ Id[i] = "UPDATE_ALLCONS" => "IMPLICIT_CORR" \in F
      /\ Id[i] = "SEND_HYD" => "UPDATE_ALLCONS" \in F
      /\ Id[i] = "SETB_HYD" => "RECV_HYD" \in F /\ "UPDATE_ALLCONS" \in F
      /\ Id[i] = "CLEAR_ALLBND2" => "SETB_HYD" \in F
  BY <1>1, ListFacts DEF Task, Id
<1>6. /\ Id[i] = "RESTART_RECV" => "CLEAR_ALLBND2" \in F
      /\ Id[i] = "SEND_HYD2" => "CLEAR_ALLBND2" \in F
      /\ Id[i] = "RECV_HYD2" => "RESTART_RECV" \in F
      /\ Id[i] = "SETB_HYD2" => "RECV_HYD2" \in F
      /\ Id[i] = "CONS2PRIM" => "SETB_HYD2" \in F
      /\ Id[i] = "CLEAR_ALLBND" => "CONS2PRIM" \in F
  BY <1>1, ListFacts DEF Task, Id
<1>7. Id[i] = "SETB_HYD" => "SEND_HYD" \in F
  BY <1>3, <1>4, <1>5 DEF Id
<1>8. Id[i] = "SEND_HYD2" => "RESTART_RECV" \in F
  BY <1>3, <1>4, <1>6 DEF Id
<1>9. Id[i] = "RECV_HYD2" => "SEND_HYD2" \in F
  <2>1. Order(F)
    OBVIOUS
  <2> QED
    BY <1>3, <1>4, <1>6, <2>1 DEF Id, Order
<1>10. Order(F \union {Id[i]})
  <2>1. Order(F)
    OBVIOUS
  <2> HIDE DEF F
  <2> QED
    BY <1>2, <1>5, <1>6, <1>7, <1>8, <1>9, <2>1 DEF Order
<1> QED
  BY <1>1, <1>10 DEF Adds

-----------------------------------------------------------------------------
(* The inductive invariant.                                                 *)

Whole(c, b, s) ==
  [cycle |-> c, stage |-> s,
   added |-> {"hydro", "source", "implicit"}
             \union (IF c = b THEN {} ELSE {"radiation"})
             \union (IF s = nstages THEN {"adjusted"} ELSE {})]

StripSet == [of : State, along : SUBSET State]

\* f[r][n] is a value of S for every neighbour n of every rank r.
Table(f, S) == DOMAIN f = Rank /\ \A r \in Rank : f[r] \in [Near(r) -> S]

Types ==
  /\ cycle \in 1 .. Cycles /\ began \in 1 .. cycle /\ dt \in Dts
  /\ stage \in [Rank -> 1 .. nstages]
  /\ finished \in [Rank -> SUBSET AllTasks]
  /\ flux \in [Rank -> SUBSET Additions] /\ du \in [Rank -> SUBSET Additions]
  /\ u \in [Rank -> State]
  /\ counter \in [Rank -> Int] /\ age \in [Rank -> Nat \union {Nil}]
  /\ Table(sendbuf, StripSet \union {Nil}) /\ Table(recvbuf, StripSet \union {Nil})
  /\ Table(ghost, StripSet) /\ Table(posted, BOOLEAN)
  /\ Table(net, Seq(StripSet \union {Nil}))

Ordered == \A r \in Rank : Order(finished[r])

\* The messages that a block in stage s with the tasks F behind it has sent to
\* each neighbour in this cycle, and has received from one whose request is
\* posted or not.
SentIn(s, F) ==
  2 * (s - 1) + (IF "SEND_HYD2" \in F THEN 2 ELSE IF "SEND_HYD" \in F THEN 1 ELSE 0)
TakenIn(s, F, p) ==
  2 * (s - 1) + (IF "RESTART_RECV" \in F THEN 2 ELSE 1) - (IF p THEN 1 ELSE 0)

\* A receive that is finished has no request active, until it is restarted.
Waited(F, p) ==
  /\ "RECV_HYD" \in F /\ "RESTART_RECV" \notin F => ~ p
  /\ "RECV_HYD2" \in F => ~ p
Waiting == \A r \in Rank : \A n \in Near(r) : Waited(finished[r], posted[r][n])

\* No message is lost: those under way were sent and not yet received.
Counted ==
  \A q \in Rank : \A r \in Near(q) :
    Len(net[q][r]) = SentIn(stage[q], finished[q]) - TakenIn(stage[r], finished[r], posted[r][q])

\* x is what the k-th message of the cycle between two blocks is to contain.
Good(k, x, c, b) ==
  /\ x \in StripSet
  /\ \A s \in 1 .. nstages :
       /\ k = 2 * s - 1 => x.of = Whole(c, b, s)
       /\ k = 2 * s => x.of = Whole(c, b, s) /\ x.along \subseteq {Whole(c, b, s)}

Packing ==
  \A q \in Rank : \A r \in Near(q) :
    "SEND_HYD" \in finished[q] =>
      Good(SentIn(stage[q], finished[q]), sendbuf[q][r], cycle, began)

Received ==
  \A r \in Rank : \A q \in Near(r) :
    ~ posted[r][q] =>
      Good(TakenIn(stage[r], finished[r], posted[r][q]), recvbuf[r][q], cycle, began)

Carried ==
  \A q \in Rank : \A r \in Near(q) : \A i \in 1 .. Len(net[q][r]) :
    net[q][r][i] # Nil =>
      Good(TakenIn(stage[r], finished[r], posted[r][q]) + i, net[q][r][i], cycle, began)

\* Tasks between which all messages have left the send buffers.
Unsent(F) ==
  /\ "SEND_HYD" \in F
  /\ "CLEAR_ALLBND2" \in F => "SEND_HYD2" \in F
  /\ "CLEAR_ALLBND" \notin F

\* Only the last message can still be in the send buffer.
Held ==
  \A q \in Rank : \A r \in Near(q) : \A i \in 1 .. Len(net[q][r]) :
    net[q][r][i] = Nil => i = Len(net[q][r]) /\ Unsent(finished[q])

\* What a block with the tasks F behind it has in a ghost strip.
GhostOf(F, x, w) ==
  /\ "SETB_HYD" \in F => x.of = w
  /\ "SETB_HYD2" \in F => x.along \subseteq {w}
Ghosts ==
  \A r \in Rank : \A n \in Near(r) :
    GhostOf(finished[r], ghost[r][n], Whole(cycle, began, stage[r]))

Rad(c, b) == IF c = b THEN {} ELSE {"radiation"}
FluxOf(F, f, c, b) ==
  /\ "CALC_HYDFLX" \in F /\ "ADD_FLX_CONS" \notin F => f = {"hydro"}
  /\ "ADD_FLX_CONS" \in F => f = {"hydro"} \union Rad(c, b)
DuOf(F, d, c, b) ==
  /\ "INT_HYD" \in F /\ "SRC_TERM" \notin F => d = {"hydro"} \union Rad(c, b)
  /\ "SRC_TERM" \in F /\ "IMPLICIT_CORR" \notin F => d = {"hydro", "source"} \union Rad(c, b)
UOf(F, x, c, b, s) ==
  /\ "INT_HYD" \in F /\ "IMPLICIT_CORR" \notin F =>
       x = [cycle |-> c, stage |-> s, added |-> {}]
  /\ "IMPLICIT_CORR" \in F /\ "UPDATE_ALLCONS" \notin F =>
       x = [cycle |-> c, stage |-> s, added |-> {"hydro", "source", "implicit"} \union Rad(c, b)]
  /\ "UPDATE_ALLCONS" \in F => x = Whole(c, b, s)
Cells ==
  \A r \in Rank :
    /\ FluxOf(finished[r], flux[r], cycle, began)
    /\ DuOf(finished[r], du[r], cycle, began)
    /\ UOf(finished[r], u[r], cycle, began, stage[r])

\* The radiation of a block with the tasks F of stage s behind it: a is the age
\* of the fluxes, k the counter and d the time step.
RadOf(F, s, a, k, c, b, d) ==
  LET late == s = nstages /\ "ADD_FLX_CONS" \in F IN
  /\ c = b /\ ~ late => a = Nil /\ k = 0
  /\ late => a \in Nat /\ a + k <= Cooldown + Max(Dts) - d /\ k > - d
  /\ c # b /\ ~ late => a \in Nat /\ a + k <= Cooldown + Max(Dts) /\ k > - Max(Dts)
Radiation ==
  \A r \in Rank : RadOf(finished[r], stage[r], age[r], counter[r], cycle, began, dt)

Inv ==
  /\ Types /\ Ordered /\ Waiting /\ Counted /\ Packing /\ Received /\ Carried /\ Held
  /\ Ghosts /\ Cells /\ Radiation

-----------------------------------------------------------------------------
(* What the steps do.                                                       *)

\* RunsAdds for a task named by its identifier.
LEMMA RunsTask ==
  ASSUME NEW r \in Rank, NEW id \in AllTasks, Ordered, Runs(r, id)
  PROVE  Adds(r, id) /\ ~ Fails(r, id)
<1>1. PICK i \in 1 .. 16 : id = Id[i]
  BY IdFacts
<1>2. Order(finished[r])
  BY DEF Ordered
<1> QED
  BY <1>1, <1>2, RunsAdds

\* The tasks of the list.
LEMMA TaskNames ==
  AllTasks = {"CALC_HYDFLX", "INT_HYD", "SRC_TERM", "SEND_HYD", "RECV_HYD", "SETB_HYD",
              "CLEAR_ALLBND2", "RESTART_RECV", "SEND_HYD2", "RECV_HYD2", "SETB_HYD2",
              "CONS2PRIM", "CLEAR_ALLBND", "ADD_FLX_CONS", "IMPLICIT_CORR", "UPDATE_ALLCONS"}
<1>1. /\ Id[1] = "CALC_HYDFLX" /\ Id[2] = "INT_HYD" /\ Id[3] = "SRC_TERM"
      /\ Id[4] = "SEND_HYD" /\ Id[5] = "RECV_HYD" /\ Id[6] = "SETB_HYD"
      /\ Id[7] = "CLEAR_ALLBND2" /\ Id[8] = "RESTART_RECV" /\ Id[9] = "SEND_HYD2"
      /\ Id[10] = "RECV_HYD2" /\ Id[11] = "SETB_HYD2" /\ Id[12] = "CONS2PRIM"
      /\ Id[13] = "CLEAR_ALLBND" /\ Id[14] = "ADD_FLX_CONS"
      /\ Id[15] = "IMPLICIT_CORR" /\ Id[16] = "UPDATE_ALLCONS"
  BY DEF Id
<1> QED
  BY <1>1, IdFacts

\* What a task that runs adds to the finished tasks.
LEMMA AddsMember ==
  ASSUME Types, NEW r \in Rank, NEW id, Adds(r, id)
  PROVE  \A q \in Rank : \A x : x \in finished'[q] <=> x \in finished[q] \/ (q = r /\ x = id)
BY DEF Adds, Types

\* The finished tasks stay in order.
LEMMA AddsOrdered ==
  ASSUME Types, Ordered, NEW r \in Rank, NEW id, Adds(r, id)
  PROVE  Ordered'
BY DEF Adds, Types, Ordered

\* Neighbours are mutual.
LEMMA NearFacts ==
  \A q \in Rank : /\ Near(q) \subseteq Rank
                  /\ \A r \in Near(q) : q \in Near(r)
BY StageAssumption DEF Near

\* The counts of messages are numbers.
LEMMA CountFacts ==
  ASSUME Inv, NEW r \in Rank, NEW p
  PROVE  /\ SentIn(stage[r], finished[r]) \in Int
         /\ TakenIn(stage[r], finished[r], p) \in Int
<1>1. stage[r] \in Int
  BY StageAssumption DEF Inv, Types
<1> QED
  BY <1>1 DEF SentIn, TakenIn

\* Tasks that do not take part in the exchange.
Quiet(r) ==
  \E id \in {"CALC_HYDFLX", "ADD_FLX_CONS", "INT_HYD", "SRC_TERM", "IMPLICIT_CORR",
             "UPDATE_ALLCONS", "CONS2PRIM"} : Adds(r, id) /\ UNCHANGED exchange

\* The tasks that work on the cells do not take part in the exchange.
LEMMA QuietTasks ==
  ASSUME NEW r \in Rank, Ordered,
         \/ CalculateHydroFlux(r) \/ AddFluxToConserved(r) \/ IntegrateHydro(r)
         \/ AddSourceTerms(r) \/ ImplicitCorrection(r) \/ UpdateAllConserved(r) \/ Cons2Prim(r)
  PROVE  Quiet(r)
<1>1. \E id \in {"CALC_HYDFLX", "ADD_FLX_CONS", "INT_HYD", "SRC_TERM", "IMPLICIT_CORR",
                 "UPDATE_ALLCONS", "CONS2PRIM"} : Runs(r, id) /\ UNCHANGED exchange
  BY DEF CalculateHydroFlux, AddFluxToConserved, IntegrateHydro, AddSourceTerms,
         ImplicitCorrection, UpdateAllConserved, Cons2Prim
<1> QED
  BY <1>1, RunsTask, TaskNames DEF Quiet

Exchange == Waiting /\ Counted /\ Packing /\ Received /\ Carried /\ Held /\ Ghosts

\* They keep the exchange right.
LEMMA QuietExchange ==
  ASSUME Inv, NEW r \in Rank, Quiet(r)
  PROVE  Exchange'
<1>1. PICK id \in {"CALC_HYDFLX", "ADD_FLX_CONS", "INT_HYD", "SRC_TERM", "IMPLICIT_CORR",
                   "UPDATE_ALLCONS", "CONS2PRIM"} : Adds(r, id) /\ UNCHANGED exchange
  BY DEF Quiet
<1>2. /\ cycle' = cycle /\ began' = began /\ stage' = stage
      /\ sendbuf' = sendbuf /\ recvbuf' = recvbuf /\ posted' = posted
      /\ ghost' = ghost /\ net' = net
  BY <1>1 DEF Adds, exchange
<1>3. \A q \in Rank : \A x \in {"SEND_HYD", "RECV_HYD", "SETB_HYD", "CLEAR_ALLBND2", "RESTART_RECV",
                                "SEND_HYD2", "RECV_HYD2", "SETB_HYD2", "CLEAR_ALLBND"} :
        x \in finished'[q] <=> x \in finished[q]
  BY <1>1, AddsMember DEF Inv
<1>4. \A q \in Rank : /\ SentIn(stage[q], finished'[q]) = SentIn(stage[q], finished[q])
                      /\ \A p : TakenIn(stage[q], finished'[q], p) = TakenIn(stage[q], finished[q], p)
                      /\ \A p : Waited(finished'[q], p) <=> Waited(finished[q], p)
                      /\ \A x, w : GhostOf(finished'[q], x, w) <=> GhostOf(finished[q], x, w)
                      /\ Unsent(finished'[q]) <=> Unsent(finished[q])
  BY <1>3 DEF SentIn, TakenIn, Waited, GhostOf, Unsent
<1>5. Waiting'
  BY <1>2, <1>4 DEF Inv, Waiting
<1>6. Counted'
  BY <1>2, <1>4, NearFacts DEF Inv, Counted
<1>7. Packing'
  BY <1>2, <1>3, <1>4 DEF Inv, Packing
<1>8. Received'
  BY <1>2, <1>4 DEF Inv, Received
<1>9. Carried'
  BY <1>2, <1>4, NearFacts DEF Inv, Carried
<1>10. Held'
  BY <1>2, <1>4 DEF Inv, Held
<1>11. Ghosts'
  BY <1>2, <1>4 DEF Inv, Ghosts
<1> QED
  BY <1>5, <1>6, <1>7, <1>8, <1>9, <1>10, <1>11 DEF Exchange

\* A message that is sent goes to the end of those under way.
LEMMA AppendFacts ==
  ASSUME NEW S, NEW s \in Seq(S), NEW x \in S
  PROVE  /\ Append(s, x) \in Seq(S) /\ Len(s) \in Nat /\ Len(Append(s, x)) = Len(s) + 1
         /\ \A i \in 1 .. Len(s) : Append(s, x)[i] = s[i]
         /\ Append(s, x)[Len(s) + 1] = x
OBVIOUS

\* The first round is sent before the restart, the second after it.
LEMMA SendExchange ==
  ASSUME Inv, NEW r \in Rank, SendHydro(r)
  PROVE  Exchange'
<1>1. PICK id \in {"SEND_HYD", "SEND_HYD2"} : Adds(r, id)
  <2>1. PICK id \in {"SEND_HYD", "SEND_HYD2"} : Runs(r, id)
    BY DEF SendHydro
  <2> QED
    BY <2>1, RunsTask, TaskNames DEF Inv
<1>2. /\ cycle' = cycle /\ began' = began /\ stage' = stage
      /\ sendbuf' = [sendbuf EXCEPT ![r] = [n \in Near(r) |-> Packed(r, n)]]
      /\ net' = [net EXCEPT ![r] = [n \in Near(r) |-> Append(net[r][n], Nil)]]
      /\ recvbuf' = recvbuf /\ posted' = posted /\ ghost' = ghost
  BY <1>1 DEF Adds, SendHydro
<1>3. \A q \in Rank : \A x : x # id => (x \in finished'[q] <=> x \in finished[q])
  BY <1>1, AddsMember DEF Inv
<1>4. \A q \in Rank : /\ \A p : TakenIn(stage[q], finished'[q], p) = TakenIn(stage[q], finished[q], p)
                      /\ \A p : Waited(finished'[q], p) <=> Waited(finished[q], p)
                      /\ \A x, w : GhostOf(finished'[q], x, w) <=> GhostOf(finished[q], x, w)
  BY <1>3 DEF TakenIn, Waited, GhostOf
<1>5. \A q \in Rank : q # r => finished'[q] = finished[q]
  BY <1>1 DEF Adds, Inv, Types
<1>6. Order(finished'[r]) /\ Order(finished[r]) /\ id \notin finished[r] /\ id \in finished'[r]
  BY <1>1, AddsMember, AddsOrdered DEF Inv, Ordered, Adds
<1>7. stage[r] \in 1 .. nstages /\ nstages \in Nat
  BY StageAssumption DEF Inv, Types
<1>8. SentIn(stage[r], finished'[r]) = SentIn(stage[r], finished[r]) + 1
  BY <1>3, <1>6, <1>7 DEF SentIn, Order
<1>9. \A q \in Rank : \A n \in Near(q) :
        /\ net[q][n] \in Seq(StripSet \union {Nil})
        /\ q # r => net'[q][n] = net[q][n] /\ sendbuf'[q][n] = sendbuf[q][n]
        /\ q = r => net'[q][n] = Append(net[q][n], Nil) /\ sendbuf'[q][n] = Packed(q, n)
  BY <1>2 DEF Inv, Types, Table
<1>10. Waiting'
  BY <1>2, <1>4 DEF Inv, Waiting
<1>11. Counted'
  <2> SUFFICES ASSUME NEW q \in Rank, NEW n \in Near(q)
               PROVE  Len(net'[q][n]) = SentIn(stage[q], finished'[q])
                        - TakenIn(stage[n], finished'[n], posted[n][q])
    BY <1>2 DEF Counted
  <2>1. Len(net[q][n]) = SentIn(stage[q], finished[q]) - TakenIn(stage[n], finished[n], posted[n][q])
    BY DEF Inv, Counted
  <2>2. TakenIn(stage[n], finished'[n], posted[n][q]) = TakenIn(stage[n], finished[n], posted[n][q])
    BY <1>4, NearFacts
  <2>3. /\ SentIn(stage[q], finished[q]) \in Int
        /\ TakenIn(stage[n], finished[n], posted[n][q]) \in Int
    BY CountFacts, NearFacts
  <2>4. CASE q # r
    BY <1>5, <1>9, <2>1, <2>2, <2>4
  <2>5. CASE q = r
    <3>1. Len(net'[q][n]) = Len(net[q][n]) + 1
      BY <1>9, <2>5
    <3> QED
      BY <1>8, <2>1, <2>2, <2>3, <2>5, <3>1
  <2> QED
    BY <2>4, <2>5
<1>12. Packing'
  <2> SUFFICES ASSUME NEW q \in Rank, NEW n \in Near(q), "SEND_HYD" \in finished'[q]
               PROVE  Good(SentIn(stage[q], finished'[q]), sendbuf'[q][n], cycle, began)
    BY <1>2 DEF Packing
  <2>1. CASE q # r
    BY <1>5, <1>9, <2>1 DEF Inv, Packing
  <2>2. CASE q = r
    <3> DEFINE w == Whole(cycle, began, stage[r])
    <3>1. u[r] = w
      <4>1. "UPDATE_ALLCONS" \in finished[r]
        BY <1>3, <1>6 DEF Order
      <4> QED
        BY <4>1 DEF Inv, Cells, UOf
    <3>2. Packed(r, n) \in StripSet
      <4>1. u[r] \in State /\ \A m \in Near(r) : ghost[r][m] \in StripSet
        BY DEF Inv, Types, Table
      <4> QED
        BY <4>1 DEF Packed, StripSet, Near
    <3>3. Packed(r, n).of = w
      BY <3>1 DEF Packed
    <3>4. id = "SEND_HYD2" => Packed(r, n).along \subseteq {w}
      <4>1. SUFFICES ASSUME id = "SEND_HYD2", NEW m \in Beside[r] PROVE ghost[r][m].of = w
        BY DEF Packed
      <4>2. "SETB_HYD" \in finished[r]
        BY <1>3, <1>6, <4>1 DEF Order
      <4> QED
        BY <4>2 DEF Inv, Ghosts, GhostOf, Near
    <3> HIDE DEF w
    <3>5. SentIn(stage[r], finished'[r]) = 2 * stage[r] - (IF id = "SEND_HYD2" THEN 0 ELSE 1)
      BY <1>3, <1>6, <1>7 DEF SentIn, Order
    <3>6. \A s \in 1 .. nstages :
            /\ SentIn(stage[r], finished'[r]) = 2 * s - 1 => s = stage[r] /\ id = "SEND_HYD"
            /\ SentIn(stage[r], finished'[r]) = 2 * s => s = stage[r] /\ id = "SEND_HYD2"
      BY <1>7, <3>5
    <3> QED
      BY <1>9, <2>2, <3>2, <3>3, <3>4, <3>6 DEF Good, w
  <2> QED
    BY <2>1, <2>2
<1>13. Received'
  BY <1>2, <1>4 DEF Inv, Received
<1>14. Carried'
  <2> SUFFICES ASSUME NEW q \in Rank, NEW n \in Near(q), NEW i \in 1 .. Len(net'[q][n]),
                      net'[q][n][i] # Nil
               PROVE  Good(TakenIn(stage[n], finished'[n], posted[n][q]) + i, net'[q][n][i],
                           cycle, began)
    BY <1>2 DEF Carried
  <2>1. i \in 1 .. Len(net[q][n]) /\ net'[q][n][i] = net[q][n][i]
    <3>1. CASE q # r
      BY <1>9, <3>1
    <3>2. CASE q = r
      <4>1. net[q][n] \in Seq(StripSet \union {Nil}) /\ net'[q][n] = Append(net[q][n], Nil)
        BY <1>9, <3>2
      <4>2. /\ Len(net[q][n]) \in Nat /\ Len(net'[q][n]) = Len(net[q][n]) + 1
            /\ \A j \in 1 .. Len(net[q][n]) : net'[q][n][j] = net[q][n][j]
            /\ net'[q][n][Len(net[q][n]) + 1] = Nil
        BY <4>1, AppendFacts
      <4>3. i # Len(net[q][n]) + 1
        BY <4>2
      <4> QED
        BY <4>2, <4>3
    <3> QED
      BY <3>1, <3>2
  <2> QED
    BY <1>4, <2>1, NearFacts DEF Inv, Carried
<1>15. Held'
  <2> SUFFICES ASSUME NEW q \in Rank, NEW n \in Near(q), NEW i \in 1 .. Len(net'[q][n]),
                      net'[q][n][i] = Nil
               PROVE  i = Len(net'[q][n]) /\ Unsent(finished'[q])
    BY DEF Held
  <2>1. CASE q # r
    BY <1>5, <1>9, <2>1 DEF Inv, Held
  <2>2. CASE q = r
    <3>1. ~ Unsent(finished[r])
      BY <1>3, <1>6 DEF Unsent, Order
    <3>2. \A k \in 1 .. Len(net[r][n]) : net[r][n][k] # Nil
      BY <2>2, <3>1 DEF Inv, Held
    <3>3. i = Len(net'[q][n])
      <4>1. net[r][n] \in Seq(StripSet \union {Nil}) /\ net'[r][n] = Append(net[r][n], Nil)
        BY <1>9, <2>2
      <4>2. /\ Len(net[r][n]) \in Nat /\ Len(net'[r][n]) = Len(net[r][n]) + 1
            /\ \A j \in 1 .. Len(net[r][n]) : net'[r][n][j] = net[r][n][j]
        BY <4>1, AppendFacts
      <4>3. i \in 1 .. Len(net'[r][n]) /\ net'[r][n][i] = Nil
        BY <2>2
      <4>4. ~ i \in 1 .. Len(net[r][n])
        BY <3>2, <4>2, <4>3
      <4>5. i = Len(net'[r][n])
        <5> DEFINE l == Len(net[r][n])
                   e == Len(net'[r][n])
        <5> HIDE DEF l, e
        <5>1. l \in Nat /\ e = l + 1 /\ i \in 1 .. e /\ ~ i \in 1 .. l
          BY <4>2, <4>3, <4>4 DEF l, e
        <5>2. i = e
          BY <5>1
        <5> QED
          BY <5>2 DEF e
      <4> QED
        BY <2>2, <4>5
    <3>4. Unsent(finished'[r])
      BY <1>3, <1>6 DEF Unsent, Order
    <3> QED
      BY <2>2, <3>3, <3>4
  <2> QED
    BY <2>1, <2>2
<1>16. Ghosts'
  BY <1>2, <1>4 DEF Inv, Ghosts
<1> QED
  BY <1>10, <1>11, <1>12, <1>13, <1>14, <1>15, <1>16 DEF Exchange

\* A receive is finished when every request has been completed.
LEMMA ReceiveExchange ==
  ASSUME Inv, NEW r \in Rank, ReceiveHydro(r)
  PROVE  Exchange'
<1>1. PICK id \in {"RECV_HYD", "RECV_HYD2"} : Adds(r, id) /\ ~ Fails(r, id)
  <2>1. PICK id \in {"RECV_HYD", "RECV_HYD2"} : Runs(r, id)
    BY DEF ReceiveHydro
  <2> QED
    BY <2>1, RunsTask, TaskNames DEF Inv
<1>2. /\ cycle' = cycle /\ began' = began /\ stage' = stage
      /\ sendbuf' = sendbuf /\ recvbuf' = recvbuf /\ posted' = posted
      /\ ghost' = ghost /\ net' = net
  BY <1>1 DEF Adds, ReceiveHydro, exchange
<1>3. \A q \in Rank : \A x : x # id => (x \in finished'[q] <=> x \in finished[q])
  BY <1>1, AddsMember DEF Inv
<1>4. \A q \in Rank : /\ SentIn(stage[q], finished'[q]) = SentIn(stage[q], finished[q])
                      /\ \A p : TakenIn(stage[q], finished'[q], p) = TakenIn(stage[q], finished[q], p)
                      /\ \A x, w : GhostOf(finished'[q], x, w) <=> GhostOf(finished[q], x, w)
                      /\ Unsent(finished'[q]) <=> Unsent(finished[q])
  BY <1>3 DEF SentIn, TakenIn, GhostOf, Unsent
<1>5. Waiting'
  <2> SUFFICES ASSUME NEW q \in Rank, NEW n \in Near(q)
               PROVE  Waited(finished'[q], posted[q][n])
    BY <1>2 DEF Waiting
  <2>1. CASE q = r
    BY <1>1, <2>1 DEF Fails, Waited
  <2>2. CASE q # r
    <3>1. finished'[q] = finished[q]
      BY <1>1, <2>2 DEF Adds, Inv, Types
    <3> QED
      BY <3>1 DEF Inv, Waiting
  <2> QED
    BY <2>1, <2>2
<1>6. Counted'
  BY <1>2, <1>4, NearFacts DEF Inv, Counted
<1>7. Packing'
  BY <1>2, <1>3, <1>4 DEF Inv, Packing
<1>8. Received'
  BY <1>2, <1>4 DEF Inv, Received
<1>9. Carried'
  BY <1>2, <1>4, NearFacts DEF Inv, Carried
<1>10. Held'
  BY <1>2, <1>4 DEF Inv, Held
<1>11. Ghosts'
  BY <1>2, <1>4 DEF Inv, Ghosts
<1> QED
  BY <1>5, <1>6, <1>7, <1>8, <1>9, <1>10, <1>11 DEF Exchange

\* The receive buffers that are unpacked hold the message of this round.
LEMMA Unpacked ==
  ASSUME Inv, NEW r \in Rank, NEW id \in {"SETB_HYD", "SETB_HYD2"}, Adds(r, id), NEW n \in Near(r)
  PROVE  /\ recvbuf[r][n] \in StripSet
         /\ GhostOf(finished'[r], recvbuf[r][n], Whole(cycle, began, stage[r]))
<1>1. \A x : x # id => (x \in finished'[r] <=> x \in finished[r])
  BY AddsMember DEF Inv
<1>2. Order(finished'[r]) /\ Order(finished[r]) /\ id \notin finished[r] /\ id \in finished'[r]
  BY AddsMember, AddsOrdered DEF Inv, Ordered, Adds
<1>3. /\ stage[r] \in 1 .. nstages /\ nstages \in Nat
      /\ posted[r][n] \in BOOLEAN
  BY StageAssumption DEF Inv, Types, Table
<1>4. ~ posted[r][n]
  BY <1>1, <1>2 DEF Inv, Waiting, Waited, Order
<1>5. TakenIn(stage[r], finished[r], posted[r][n]) =
        2 * stage[r] - (IF id = "SETB_HYD" THEN 1 ELSE 0)
  BY <1>1, <1>2, <1>3, <1>4 DEF TakenIn, Order
<1>6. Good(2 * stage[r] - (IF id = "SETB_HYD" THEN 1 ELSE 0), recvbuf[r][n], cycle, began)
  BY <1>4, <1>5 DEF Inv, Received
<1>7. "SETB_HYD2" \in finished'[r] => id = "SETB_HYD2"
  BY <1>1, <1>2 DEF Order
<1> QED
  BY <1>3, <1>6, <1>7 DEF Good, GhostOf

\* Unpacking keeps the exchange right: the ghost cells are of the stage.
LEMMA SetBoundariesExchange ==
  ASSUME Inv, NEW r \in Rank, SetBoundariesHydro(r)
  PROVE  Exchange'
<1>1. PICK id \in {"SETB_HYD", "SETB_HYD2"} : Adds(r, id)
  <2>1. PICK id \in {"SETB_HYD", "SETB_HYD2"} : Runs(r, id)
    BY DEF SetBoundariesHydro
  <2> QED
    BY <2>1, RunsTask, TaskNames DEF Inv
<1>2. /\ cycle' = cycle /\ began' = began /\ stage' = stage
      /\ sendbuf' = sendbuf /\ recvbuf' = recvbuf /\ posted' = posted
      /\ ghost' = [ghost EXCEPT ![r] = recvbuf[r]] /\ net' = net
  BY <1>1 DEF Adds, SetBoundariesHydro
<1>3. \A q \in Rank : \A x : x # id => (x \in finished'[q] <=> x \in finished[q])
  BY <1>1, AddsMember DEF Inv
<1>4. \A q \in Rank : /\ SentIn(stage[q], finished'[q]) = SentIn(stage[q], finished[q])
                      /\ \A p : TakenIn(stage[q], finished'[q], p) = TakenIn(stage[q], finished[q], p)
                      /\ \A p : Waited(finished'[q], p) <=> Waited(finished[q], p)
                      /\ Unsent(finished'[q]) <=> Unsent(finished[q])
  BY <1>3 DEF SentIn, TakenIn, Waited, Unsent
<1>5. Waiting'
  BY <1>2, <1>4 DEF Inv, Waiting
<1>6. Counted'
  BY <1>2, <1>4, NearFacts DEF Inv, Counted
<1>7. Packing'
  BY <1>2, <1>3, <1>4 DEF Inv, Packing
<1>8. Received'
  BY <1>2, <1>4 DEF Inv, Received
<1>9. Carried'
  BY <1>2, <1>4, NearFacts DEF Inv, Carried
<1>10. Held'
  BY <1>2, <1>4 DEF Inv, Held
<1>11. Ghosts'
  <2> SUFFICES ASSUME NEW q \in Rank, NEW n \in Near(q)
               PROVE  GhostOf(finished'[q], ghost'[q][n], Whole(cycle, began, stage[q]))
    BY <1>2 DEF Ghosts
  <2>1. CASE q = r
    <3>1. ghost'[r] = recvbuf[r]
      BY <1>2 DEF Inv, Types, Table
    <3> QED
      BY <1>1, <2>1, <3>1, Unpacked
  <2>2. CASE q # r
    <3>1. finished'[q] = finished[q] /\ ghost'[q] = ghost[q]
      BY <1>1, <1>2, <2>2 DEF Adds, Inv, Types, Table
    <3> QED
      BY <3>1 DEF Inv, Ghosts
  <2> QED
    BY <2>1, <2>2
<1> QED
  BY <1>5, <1>6, <1>7, <1>8, <1>9, <1>10, <1>11 DEF Exchange

\* The sends are completed because every message was received ...
LEMMA ClearExchange ==
  ASSUME Inv, NEW r \in Rank, ClearAllBoundary(r)
  PROVE  Exchange'
<1>1. PICK id \in {"CLEAR_ALLBND2", "CLEAR_ALLBND"} : Adds(r, id)
  <2>1. PICK id \in {"CLEAR_ALLBND2", "CLEAR_ALLBND"} : Runs(r, id)
    BY DEF ClearAllBoundary
  <2> QED
    BY <2>1, RunsTask, TaskNames DEF Inv
<1>2. /\ cycle' = cycle /\ began' = began /\ stage' = stage
      /\ sendbuf' = sendbuf /\ recvbuf' = recvbuf /\ posted' = posted
      /\ ghost' = ghost /\ net' = net /\ ~ Sending(r)
  BY <1>1 DEF Adds, ClearAllBoundary, exchange
<1>3. \A q \in Rank : \A x : x # id => (x \in finished'[q] <=> x \in finished[q])
  BY <1>1, AddsMember DEF Inv
<1>4. \A q \in Rank : /\ SentIn(stage[q], finished'[q]) = SentIn(stage[q], finished[q])
                      /\ \A p : TakenIn(stage[q], finished'[q], p) = TakenIn(stage[q], finished[q], p)
                      /\ \A p : Waited(finished'[q], p) <=> Waited(finished[q], p)
                      /\ \A x, w : GhostOf(finished'[q], x, w) <=> GhostOf(finished[q], x, w)
  BY <1>3 DEF SentIn, TakenIn, Waited, GhostOf
<1>5. Waiting'
  BY <1>2, <1>4 DEF Inv, Waiting
<1>6. Counted'
  BY <1>2, <1>4, NearFacts DEF Inv, Counted
<1>7. Packing'
  BY <1>2, <1>3, <1>4 DEF Inv, Packing
<1>8. Received'
  BY <1>2, <1>4 DEF Inv, Received
<1>9. Carried'
  BY <1>2, <1>4, NearFacts DEF Inv, Carried
<1>10. Held'
  <2> SUFFICES ASSUME NEW q \in Rank, NEW n \in Near(q), NEW i \in 1 .. Len(net[q][n]),
                      net[q][n][i] = Nil
               PROVE  i = Len(net[q][n]) /\ Unsent(finished'[q])
    BY <1>2 DEF Held
  <2>1. q # r
    BY <1>2 DEF Sending, Contains
  <2>2. finished'[q] = finished[q]
    BY <1>1, <2>1 DEF Adds, Inv, Types
  <2> QED
    BY <2>2 DEF Inv, Held
<1>11. Ghosts'
  BY <1>2, <1>4 DEF Inv, Ghosts
<1> QED
  BY <1>5, <1>6, <1>7, <1>8, <1>9, <1>10, <1>11 DEF Exchange

\* What a message holds when it is copied out of the send buffer.
LEMMA CopyFacts ==
  ASSUME NEW S, NEW s \in Seq(S), NEW x \in S
  PROVE  LET t == [i \in DOMAIN s |-> IF s[i] = Nil THEN x ELSE s[i]]
         IN  /\ t \in Seq(S) /\ Len(t) = Len(s) /\ Len(s) \in Nat
             /\ \A i \in 1 .. Len(s) : t[i] = IF s[i] = Nil THEN x ELSE s[i]
<1> DEFINE t == [i \in DOMAIN s |-> IF s[i] = Nil THEN x ELSE s[i]]
<1>1. Len(s) \in Nat /\ DOMAIN s = 1 .. Len(s) /\ \A i \in 1 .. Len(s) : s[i] \in S
  OBVIOUS
<1>2. t \in [1 .. Len(s) -> S]
  BY <1>1
<1>3. t \in Seq(S) /\ Len(t) = Len(s)
  BY <1>1, <1>2
<1> QED
  BY <1>1, <1>3

\* ... or MPI has copied them.
LEMMA BufferedExchange ==
  ASSUME Inv, NEW r \in Rank, ClearBuffered(r)
  PROVE  Exchange'
<1>1. PICK id \in {"CLEAR_ALLBND2", "CLEAR_ALLBND"} : Adds(r, id)
  <2>1. PICK id \in {"CLEAR_ALLBND2", "CLEAR_ALLBND"} : Runs(r, id)
    BY DEF ClearBuffered
  <2> QED
    BY <2>1, RunsTask, TaskNames DEF Inv
<1>2. /\ cycle' = cycle /\ began' = began /\ stage' = stage
      /\ sendbuf' = sendbuf /\ recvbuf' = recvbuf /\ posted' = posted /\ ghost' = ghost
      /\ net' = [net EXCEPT ![r] = [n \in Near(r) |->
                   [i \in DOMAIN net[r][n] |->
                     IF net[r][n][i] = Nil THEN sendbuf[r][n] ELSE net[r][n][i]]]]
  BY <1>1 DEF Adds, ClearBuffered
<1>3. \A q \in Rank : \A x : x # id => (x \in finished'[q] <=> x \in finished[q])
  BY <1>1, AddsMember DEF Inv
<1>4. \A q \in Rank : /\ SentIn(stage[q], finished'[q]) = SentIn(stage[q], finished[q])
                      /\ \A p : TakenIn(stage[q], finished'[q], p) = TakenIn(stage[q], finished[q], p)
                      /\ \A p : Waited(finished'[q], p) <=> Waited(finished[q], p)
                      /\ \A x, w : GhostOf(finished'[q], x, w) <=> GhostOf(finished[q], x, w)
  BY <1>3 DEF SentIn, TakenIn, Waited, GhostOf
<1>5. \A n \in Near(r) :
        /\ Len(net'[r][n]) = Len(net[r][n]) /\ Len(net[r][n]) \in Nat
        /\ \A i \in 1 .. Len(net[r][n]) :
             net'[r][n][i] = IF net[r][n][i] = Nil THEN sendbuf[r][n] ELSE net[r][n][i]
  <2> TAKE n \in Near(r)
  <2>1. net[r][n] \in Seq(StripSet \union {Nil}) /\ sendbuf[r][n] \in StripSet \union {Nil}
    BY DEF Inv, Types, Table
  <2>2. net'[r][n] = [i \in DOMAIN net[r][n] |->
                       IF net[r][n][i] = Nil THEN sendbuf[r][n] ELSE net[r][n][i]]
    BY <1>2 DEF Inv, Types, Table
  <2> HIDE DEF StripSet
  <2> QED
    BY <2>1, <2>2, CopyFacts
<1>6. \A q \in Rank : q # r => net'[q] = net[q] /\ finished'[q] = finished[q]
  BY <1>1, <1>2 DEF Adds, Inv, Types, Table
\* The messages that were copied are those of the round in which the sends are waited for.
<1>7. \A n \in Near(r) : \A i \in 1 .. Len(net[r][n]) :
        net[r][n][i] = Nil =>
          /\ sendbuf[r][n] \in StripSet
          /\ Good(TakenIn(stage[n], finished[n], posted[n][r]) + i, sendbuf[r][n], cycle, began)
  <2> SUFFICES ASSUME NEW n \in Near(r), NEW i \in 1 .. Len(net[r][n]), net[r][n][i] = Nil
               PROVE  /\ sendbuf[r][n] \in StripSet
                      /\ Good(TakenIn(stage[n], finished[n], posted[n][r]) + i, sendbuf[r][n],
                              cycle, began)
    OBVIOUS
  <2>1. i = Len(net[r][n]) /\ Unsent(finished[r])
    BY DEF Inv, Held
  <2>2. Len(net[r][n]) = SentIn(stage[r], finished[r]) - TakenIn(stage[n], finished[n], posted[n][r])
    BY DEF Inv, Counted
  <2>3. /\ SentIn(stage[r], finished[r]) \in Int
        /\ TakenIn(stage[n], finished[n], posted[n][r]) \in Int
    BY CountFacts, NearFacts
  <2>4. TakenIn(stage[n], finished[n], posted[n][r]) + i = SentIn(stage[r], finished[r])
    BY <2>1, <2>2, <2>3
  <2>5. Good(SentIn(stage[r], finished[r]), sendbuf[r][n], cycle, began)
    BY <2>1 DEF Inv, Packing, Unsent
  <2> QED
    BY <2>4, <2>5 DEF Good
<1>8. \A n \in Near(r) : \A i \in 1 .. Len(net'[r][n]) : net'[r][n][i] # Nil
  BY <1>5, <1>7, NilAssumption DEF StripSet
<1>9. Waiting'
  BY <1>2, <1>4 DEF Inv, Waiting
<1>10. Counted'
  <2> SUFFICES ASSUME NEW q \in Rank, NEW n \in Near(q)
               PROVE  Len(net'[q][n]) = SentIn(stage[q], finished'[q])
                        - TakenIn(stage[n], finished'[n], posted[n][q])
    BY <1>2 DEF Counted
  <2>1. Len(net'[q][n]) = Len(net[q][n])
    BY <1>5, <1>6
  <2> QED
    BY <1>4, <2>1, NearFacts DEF Inv, Counted
<1>11. Packing'
  BY <1>2, <1>3, <1>4 DEF Inv, Packing
<1>12. Received'
  BY <1>2, <1>4 DEF Inv, Received
<1>13. Carried'
  <2> SUFFICES ASSUME NEW q \in Rank, NEW n \in Near(q), NEW i \in 1 .. Len(net'[q][n]),
                      net'[q][n][i] # Nil
               PROVE  Good(TakenIn(stage[n], finished'[n], posted[n][q]) + i, net'[q][n][i],
                           cycle, began)
    BY <1>2 DEF Carried
  <2>1. Len(net'[q][n]) = Len(net[q][n])
    BY <1>5, <1>6
  <2>2. CASE q = r
    BY <1>4, <1>5, <1>7, <2>1, <2>2, NearFacts DEF Inv, Carried
  <2>3. CASE q # r
    <3>1. n \in Rank /\ net'[q][n] = net[q][n]
      BY <1>6, <2>3, NearFacts
    <3>2. Good(TakenIn(stage[n], finished[n], posted[n][q]) + i, net[q][n][i], cycle, began)
      BY <3>1 DEF Inv, Carried
    <3> QED
      BY <1>4, <3>1, <3>2
  <2> QED
    BY <2>2, <2>3
<1>14. Held'
  <2> SUFFICES ASSUME NEW q \in Rank, NEW n \in Near(q), NEW i \in 1 .. Len(net'[q][n]),
                      net'[q][n][i] = Nil
               PROVE  i = Len(net'[q][n]) /\ Unsent(finished'[q])
    BY DEF Held
  <2>1. q # r
    BY <1>8
  <2> QED
    BY <1>6, <2>1 DEF Inv, Held
<1>15. Ghosts'
  BY <1>2, <1>4 DEF Inv, Ghosts
<1> QED
  BY <1>9, <1>10, <1>11, <1>12, <1>13, <1>14, <1>15 DEF Exchange

\* A restarted receive is for the second message of the stage.
LEMMA RestartExchange ==
  ASSUME Inv, NEW r \in Rank, RestartReceiving(r)
  PROVE  Exchange'
<1>1. Adds(r, "RESTART_RECV")
  BY RunsTask, TaskNames DEF Inv, RestartReceiving
<1>2. /\ cycle' = cycle /\ began' = began /\ stage' = stage
      /\ sendbuf' = sendbuf /\ recvbuf' = recvbuf /\ ghost' = ghost /\ net' = net
      /\ posted' = [posted EXCEPT ![r] = [n \in Near(r) |-> TRUE]]
  BY <1>1 DEF Adds, RestartReceiving, StartReceiving
<1>3. \A q \in Rank : \A x : x # "RESTART_RECV" => (x \in finished'[q] <=> x \in finished[q])
  BY <1>1, AddsMember DEF Inv
<1>4. \A q \in Rank : /\ SentIn(stage[q], finished'[q]) = SentIn(stage[q], finished[q])
                      /\ \A x, w : GhostOf(finished'[q], x, w) <=> GhostOf(finished[q], x, w)
                      /\ Unsent(finished'[q]) <=> Unsent(finished[q])
  BY <1>3 DEF SentIn, GhostOf, Unsent
<1>5. \A q \in Rank : q # r => finished'[q] = finished[q] /\ posted'[q] = posted[q]
  BY <1>1, <1>2 DEF Adds, Inv, Types, Table
<1>6. Order(finished'[r]) /\ Order(finished[r])
      /\ "RESTART_RECV" \notin finished[r] /\ "RESTART_RECV" \in finished'[r]
  BY <1>1, AddsMember, AddsOrdered DEF Inv, Ordered, Adds
<1>7. \A n \in Near(r) : ~ posted[r][n] /\ posted'[r][n] = TRUE
  BY <1>2, <1>3, <1>6 DEF Inv, Waiting, Waited, Order, Types, Table
<1>8. \A q \in Rank : \A n \in Near(q) :
        TakenIn(stage[q], finished'[q], posted'[q][n]) = TakenIn(stage[q], finished[q], posted[q][n])
  <2> TAKE q \in Rank
  <2> TAKE n \in Near(q)
  <2>1. CASE q # r
    BY <1>5, <2>1
  <2>2. CASE q = r
    <3>1. stage[r] \in Int
      BY StageAssumption DEF Inv, Types
    <3> QED
      BY <1>6, <1>7, <2>2, <3>1 DEF TakenIn
  <2> QED
    BY <2>1, <2>2
<1>9. Waiting'
  <2> SUFFICES ASSUME NEW q \in Rank, NEW n \in Near(q)
               PROVE  Waited(finished'[q], posted'[q][n])
    BY DEF Waiting
  <2>1. CASE q # r
    BY <1>5, <2>1 DEF Inv, Waiting
  <2>2. CASE q = r
    BY <1>3, <1>6, <2>2 DEF Waited, Order
  <2> QED
    BY <2>1, <2>2
<1>10. Counted'
  BY <1>2, <1>4, <1>8, NearFacts DEF Inv, Counted
<1>11. Packing'
  BY <1>2, <1>3, <1>4 DEF Inv, Packing
<1>12. Received'
  <2> SUFFICES ASSUME NEW q \in Rank, NEW n \in Near(q), ~ posted'[q][n]
               PROVE  Good(TakenIn(stage[q], finished'[q], posted'[q][n]), recvbuf[q][n],
                           cycle, began)
    BY <1>2 DEF Received
  <2>1. q # r
    BY <1>7
  <2> QED
    BY <1>5, <2>1 DEF Inv, Received
<1>13. Carried'
  BY <1>2, <1>8, NearFacts DEF Inv, Carried
<1>14. Held'
  BY <1>2, <1>4 DEF Inv, Held
<1>15. Ghosts'
  BY <1>2, <1>4 DEF Inv, Ghosts
<1> QED
  BY <1>9, <1>10, <1>11, <1>12, <1>13, <1>14, <1>15 DEF Exchange

\* A block whose tasks are all finished has received both messages of the stage.
LEMMA OverFacts ==
  ASSUME Inv, NEW r \in Rank, StageOver(r)
  PROVE  /\ SentIn(stage[r], finished[r]) = SentIn(stage[r] + 1, {})
         /\ \A n \in Near(r) :
              /\ ~ posted[r][n]
              /\ TakenIn(stage[r], finished[r], posted[r][n]) = TakenIn(stage[r] + 1, {}, TRUE)
         /\ ~ Unsent(finished[r])
<1>1. stage[r] \in Nat
  BY StageAssumption DEF Inv, Types
<1>2. {"SEND_HYD2", "RESTART_RECV", "RECV_HYD2", "CLEAR_ALLBND"} \subseteq finished[r]
  BY TaskNames DEF StageOver
<1>3. \A n \in Near(r) : ~ posted[r][n]
  BY <1>2 DEF Inv, Waiting, Waited
<1> QED
  BY <1>1, <1>2, <1>3 DEF SentIn, TakenIn, Unsent

\* So the counts go on in the next stage, whose receives are started.
LEMMA NextStageExchange ==
  ASSUME Inv, NEW r \in Rank, NextStage(r)
  PROVE  Exchange'
<1>1. /\ cycle' = cycle /\ began' = began
      /\ stage' = [stage EXCEPT ![r] = stage[r] + 1]
      /\ finished' = [finished EXCEPT ![r] = {}]
      /\ posted' = [posted EXCEPT ![r] = [n \in Near(r) |-> TRUE]]
      /\ sendbuf' = sendbuf /\ recvbuf' = recvbuf /\ ghost' = ghost /\ net' = net
      /\ StageOver(r)
  BY DEF NextStage, StartReceiving, clock
<1>2. /\ stage'[r] = stage[r] + 1 /\ finished'[r] = {}
      /\ \A n \in Near(r) : posted'[r][n] = TRUE
  BY <1>1 DEF Inv, Types, Table
<1>3. \A q \in Rank : q # r => /\ stage'[q] = stage[q] /\ finished'[q] = finished[q]
                               /\ posted'[q] = posted[q]
  BY <1>1 DEF Inv, Types, Table
<1>4. \A q \in Rank :
        /\ SentIn(stage'[q], finished'[q]) = SentIn(stage[q], finished[q])
        /\ \A n \in Near(q) : TakenIn(stage'[q], finished'[q], posted'[q][n]) =
                                TakenIn(stage[q], finished[q], posted[q][n])
  <2> TAKE q \in Rank
  <2>1. CASE q # r
    BY <1>3, <2>1
  <2>2. CASE q = r
    <3>1. /\ SentIn(stage[r] + 1, {}) = SentIn(stage[r], finished[r])
          /\ \A n \in Near(r) :
               TakenIn(stage[r] + 1, {}, TRUE) = TakenIn(stage[r], finished[r], posted[r][n])
      BY <1>1, OverFacts
    <3> QED
      BY <1>2, <2>2, <3>1
  <2> QED
    BY <2>1, <2>2
<1>5. Waiting'
  <2> SUFFICES ASSUME NEW q \in Rank, NEW n \in Near(q)
               PROVE  Waited(finished'[q], posted'[q][n])
    BY DEF Waiting
  <2>1. CASE q # r
    BY <1>3, <2>1 DEF Inv, Waiting
  <2>2. CASE q = r
    BY <1>2, <2>2 DEF Waited
  <2> QED
    BY <2>1, <2>2
<1>6. Counted'
  BY <1>1, <1>4, NearFacts DEF Inv, Counted
<1>7. Packing'
  <2> SUFFICES ASSUME NEW q \in Rank, NEW n \in Near(q), "SEND_HYD" \in finished'[q]
               PROVE  Good(SentIn(stage'[q], finished'[q]), sendbuf[q][n], cycle, began)
    BY <1>1 DEF Packing
  <2> QED
    BY <1>2, <1>3 DEF Inv, Packing
<1>8. Received'
  <2> SUFFICES ASSUME NEW q \in Rank, NEW n \in Near(q), ~ posted'[q][n]
               PROVE  Good(TakenIn(stage'[q], finished'[q], posted'[q][n]), recvbuf[q][n],
                           cycle, began)
    BY <1>1 DEF Received
  <2> QED
    BY <1>2, <1>3 DEF Inv, Received
<1>9. Carried'
  BY <1>1, <1>4, NearFacts DEF Inv, Carried
<1>10. Held'
  <2> SUFFICES ASSUME NEW q \in Rank, NEW n \in Near(q), NEW i \in 1 .. Len(net[q][n]),
                      net[q][n][i] = Nil
               PROVE  i = Len(net[q][n]) /\ Unsent(finished'[q])
    BY <1>1 DEF Held
  <2>1. q # r
    BY <1>1, OverFacts DEF Inv, Held
  <2> QED
    BY <1>3, <2>1 DEF Inv, Held
<1>11. Ghosts'
  <2> SUFFICES ASSUME NEW q \in Rank, NEW n \in Near(q)
               PROVE  GhostOf(finished'[q], ghost[q][n], Whole(cycle, began, stage'[q]))
    BY <1>1 DEF Ghosts
  <2>1. CASE q # r
    BY <1>3, <2>1 DEF Inv, Ghosts
  <2>2. CASE q = r
    BY <1>2, <2>2 DEF GhostOf
  <2> QED
    BY <2>1, <2>2
<1> QED
  BY <1>5, <1>6, <1>7, <1>8, <1>9, <1>10, <1>11 DEF Exchange

\* When all blocks have finished the last stage no message is under way.
LEMMA CycleEmpty ==
  ASSUME Inv, CycleOver
  PROVE  \A q \in Rank : \A r \in Near(q) : Len(net[q][r]) = 0
<1> TAKE q \in Rank
<1> TAKE r \in Near(q)
<1>1. r \in Rank /\ q \in Near(r)
  BY NearFacts
<1>2. stage[q] = nstages /\ stage[r] = nstages /\ nstages \in Nat
  BY <1>1, StageAssumption DEF CycleOver, last
<1>3. SentIn(nstages + 1, {}) = 2 * nstages /\ TakenIn(nstages + 1, {}, TRUE) = 2 * nstages
  BY <1>2 DEF SentIn, TakenIn
<1>4. /\ SentIn(stage[q], finished[q]) = 2 * nstages
      /\ TakenIn(stage[r], finished[r], posted[r][q]) = 2 * nstages
  BY <1>1, <1>2, <1>3, OverFacts DEF CycleOver
<1> QED
  BY <1>2, <1>3, <1>4 DEF Inv, Counted

\* In a new cycle the counts begin anew.
LEMMA BeginExchange ==
  ASSUME Inv, BeginCycle
  PROVE  Exchange'
<1>1. /\ \A r \in Rank : /\ stage'[r] = 1 /\ finished'[r] = {}
                         /\ \A n \in Near(r) : posted'[r][n] = TRUE
      /\ net' = net
  BY DEF BeginCycle, StartReceiving
<1>2. \A q \in Rank : \A r \in Near(q) : Len(net[q][r]) = 0
  BY CycleEmpty DEF BeginCycle
<1>3. \A q \in Rank : /\ SentIn(1, {}) = 0 /\ TakenIn(1, {}, TRUE) = 0
  BY DEF SentIn, TakenIn
<1>4. Waiting'
  BY <1>1 DEF Waiting, Waited
<1>5. Counted'
  <2> SUFFICES ASSUME NEW q \in Rank, NEW r \in Near(q)
               PROVE  Len(net'[q][r]) = SentIn(stage'[q], finished'[q])
                        - TakenIn(stage'[r], finished'[r], posted'[r][q])
    BY DEF Counted
  <2>1. r \in Rank /\ q \in Near(r)
    BY NearFacts
  <2>2. SentIn(stage'[q], finished'[q]) = 0 /\ TakenIn(stage'[r], finished'[r], posted'[r][q]) = 0
    BY <1>1, <1>3, <2>1
  <2> QED
    BY <1>1, <1>2, <2>2
<1>6. Packing'
  BY <1>1 DEF Packing
<1>7. Received'
  BY <1>1 DEF Received
<1>8. Carried' /\ Held'
  BY <1>1, <1>2 DEF Carried, Held
<1>9. Ghosts'
  BY <1>1 DEF Ghosts, GhostOf
<1> QED
  BY <1>4, <1>5, <1>6, <1>7, <1>8, <1>9 DEF Exchange

\* The oldest message is delivered first.
LEMMA TailFacts ==
  ASSUME NEW S, NEW s \in Seq(S), s # <<>>
  PROVE  /\ Tail(s) \in Seq(S) /\ Len(s) \in Nat \ {0} /\ Len(Tail(s)) = Len(s) - 1
         /\ Head(s) = s[1] /\ Head(s) \in S
         /\ \A i \in 1 .. Len(Tail(s)) : i + 1 \in 1 .. Len(s) /\ Tail(s)[i] = s[i + 1]
OBVIOUS

\* What is delivered is the next message the receiver is to get.
LEMMA Delivered ==
  ASSUME Inv, NEW q \in Rank, NEW r \in Rank, Deliver(q, r)
  PROVE  /\ r \in Near(q) /\ q \in Near(r)
         /\ recvbuf'[r][q] \in StripSet
         /\ Good(TakenIn(stage[r], finished[r], posted[r][q]) + 1, recvbuf'[r][q], cycle, began)
         /\ TakenIn(stage[r], finished[r], FALSE) = TakenIn(stage[r], finished[r], posted[r][q]) + 1
<1>1. r \in Near(q) /\ q \in Near(r) /\ posted[r][q] /\ net[q][r] # <<>>
  BY NearFacts DEF Deliver
<1>2. net[q][r] \in Seq(StripSet \union {Nil})
  BY <1>1 DEF Inv, Types, Table
<1>3. /\ Len(net[q][r]) \in Nat \ {0} /\ Head(net[q][r]) = net[q][r][1]
      /\ 1 \in 1 .. Len(net[q][r])
  <2> HIDE DEF StripSet
  <2> QED
    BY <1>1, <1>2, TailFacts
<1>4. recvbuf'[r][q] = IF Head(net[q][r]) = Nil THEN sendbuf[q][r] ELSE Head(net[q][r])
  BY <1>1 DEF Deliver, Inv, Types, Table
<1>5. Good(TakenIn(stage[r], finished[r], posted[r][q]) + 1, recvbuf'[r][q], cycle, began)
  <2>1. CASE net[q][r][1] # Nil
    BY <1>1, <1>3, <1>4, <2>1 DEF Inv, Carried
  <2>2. CASE net[q][r][1] = Nil
    <3>1. Len(net[q][r]) = 1 /\ Unsent(finished[q])
      BY <1>1, <1>3, <2>2 DEF Inv, Held
    <3>2. Len(net[q][r]) = SentIn(stage[q], finished[q]) - TakenIn(stage[r], finished[r], posted[r][q])
      BY <1>1 DEF Inv, Counted
    <3>3. /\ SentIn(stage[q], finished[q]) \in Int
          /\ TakenIn(stage[r], finished[r], posted[r][q]) \in Int
      BY DEF Inv, Types, SentIn, TakenIn
    <3>4. Good(SentIn(stage[q], finished[q]), sendbuf[q][r], cycle, began)
      BY <1>1, <3>1 DEF Inv, Packing, Unsent
    <3>5. SentIn(stage[q], finished[q]) = TakenIn(stage[r], finished[r], posted[r][q]) + 1
      <4>1. \A x, y \in Int : 1 = x - y => x = y + 1
        OBVIOUS
      <4>2. SentIn(stage[q], finished[q]) - TakenIn(stage[r], finished[r], posted[r][q]) = 1
        BY <3>1, <3>2
      <4> QED
        BY <3>3, <4>1, <4>2
    <3>6. recvbuf'[r][q] = sendbuf[q][r]
      BY <1>3, <1>4, <2>2
    <3> QED
      BY <3>4, <3>5, <3>6
  <2> QED
    BY <2>1, <2>2
<1>6. recvbuf'[r][q] \in StripSet
  BY <1>5 DEF Good
<1>7. stage[r] \in Int
  BY StageAssumption DEF Inv, Types
<1>8. TakenIn(stage[r], finished[r], FALSE) = TakenIn(stage[r], finished[r], posted[r][q]) + 1
  BY <1>1, <1>7 DEF TakenIn
<1> QED
  BY <1>1, <1>5, <1>6, <1>8

\* A delivery keeps the exchange right.
LEMMA DeliverExchange ==
  ASSUME Inv, NEW q \in Rank, NEW r \in Rank, Deliver(q, r)
  PROVE  Exchange'
<1>1. /\ cycle' = cycle /\ began' = began /\ stage' = stage /\ finished' = finished
      /\ sendbuf' = sendbuf /\ ghost' = ghost
      /\ posted' = [posted EXCEPT ![r][q] = FALSE]
      /\ net' = [net EXCEPT ![q][r] = Tail(net[q][r])]
      /\ posted[r][q] /\ net[q][r] # <<>>
      /\ recvbuf' = [recvbuf EXCEPT ![r][q] =
                       IF Head(net[q][r]) = Nil THEN sendbuf[q][r] ELSE Head(net[q][r])]
  BY DEF Deliver, clock
<1>2. r \in Near(q) /\ q \in Near(r)
  BY Delivered
<1>3. \A k \in Rank : \A n \in Near(k) :
        /\ posted'[k][n] = IF k = r /\ n = q THEN FALSE ELSE posted[k][n]
        /\ net'[k][n] = IF k = q /\ n = r THEN Tail(net[q][r]) ELSE net[k][n]
        /\ ~ (k = r /\ n = q) => recvbuf'[k][n] = recvbuf[k][n]
  <2> TAKE k \in Rank
  <2> TAKE n \in Near(k)
  <2>1. posted'[k][n] = IF k = r /\ n = q THEN FALSE ELSE posted[k][n]
    BY <1>1, <1>2 DEF Inv, Types, Table
  <2>2. net'[k][n] = IF k = q /\ n = r THEN Tail(net[q][r]) ELSE net[k][n]
    BY <1>1, <1>2 DEF Inv, Types, Table
  <2>3. ~ (k = r /\ n = q) => recvbuf'[k][n] = recvbuf[k][n]
    BY <1>1, <1>2 DEF Inv, Types, Table
  <2> QED
    BY <2>1, <2>2, <2>3
<1>4. /\ Len(net[q][r]) \in Nat \ {0} /\ Len(Tail(net[q][r])) = Len(net[q][r]) - 1
      /\ \A i \in 1 .. Len(Tail(net[q][r])) : /\ i + 1 \in 1 .. Len(net[q][r])
                                              /\ Tail(net[q][r])[i] = net[q][r][i + 1]
  <2>1. net[q][r] \in Seq(StripSet \union {Nil})
    BY <1>2 DEF Inv, Types, Table
  <2> HIDE DEF StripSet
  <2> QED
    BY <1>1, <2>1, TailFacts
<1>5. TakenIn(stage[r], finished[r], FALSE) = TakenIn(stage[r], finished[r], posted[r][q]) + 1
  BY Delivered
<1>6. TakenIn(stage[r], finished[r], posted[r][q]) \in Int
  BY DEF Inv, Types, TakenIn
<1>7. Waiting'
  BY <1>1, <1>3 DEF Inv, Waiting, Waited
<1>8. Counted'
  <2> SUFFICES ASSUME NEW k \in Rank, NEW n \in Near(k)
               PROVE  Len(net'[k][n]) = SentIn(stage[k], finished[k])
                        - TakenIn(stage[n], finished[n], posted'[n][k])
    BY <1>1 DEF Counted
  <2>1. Len(net[k][n]) = SentIn(stage[k], finished[k]) - TakenIn(stage[n], finished[n], posted[n][k])
    BY DEF Inv, Counted
  <2>2. CASE k = q /\ n = r
    <3>1. SentIn(stage[k], finished[k]) \in Int
      BY DEF Inv, Types, SentIn
    <3>2. posted'[n][k] = FALSE /\ net'[k][n] = Tail(net[q][r])
      BY <1>2, <1>3, <2>2
    <3>3. Len(net'[k][n]) = Len(net[k][n]) - 1
      BY <1>4, <2>2, <3>2
    <3>4. TakenIn(stage[n], finished[n], posted'[n][k]) = TakenIn(stage[n], finished[n], posted[n][k]) + 1
      BY <1>5, <2>2, <3>2
    <3>5. TakenIn(stage[n], finished[n], posted[n][k]) \in Int
      BY <1>6, <2>2
    <3> QED
      BY <2>1, <3>1, <3>3, <3>4, <3>5
  <2>3. CASE ~ (k = q /\ n = r)
    <3>1. posted'[n][k] = posted[n][k] /\ net'[k][n] = net[k][n]
      BY <1>3, <2>3, NearFacts
    <3> QED
      BY <2>1, <3>1
  <2> QED
    BY <2>2, <2>3
<1>9. Packing'
  BY <1>1 DEF Inv, Packing
<1>10. Received'
  <2> SUFFICES ASSUME NEW k \in Rank, NEW n \in Near(k), ~ posted'[k][n]
               PROVE  Good(TakenIn(stage[k], finished[k], posted'[k][n]), recvbuf'[k][n],
                           cycle, began)
    BY <1>1 DEF Received
  <2>1. CASE k = r /\ n = q
    <3>1. posted'[k][n] = FALSE
      BY <1>3, <2>1
    <3> QED
      BY <2>1, <3>1, Delivered
  <2>2. CASE ~ (k = r /\ n = q)
    <3>1. posted'[k][n] = posted[k][n] /\ recvbuf'[k][n] = recvbuf[k][n]
      BY <1>3, <2>2
    <3> QED
      BY <3>1 DEF Inv, Received
  <2> QED
    BY <2>1, <2>2
<1>11. Carried'
  <2> SUFFICES ASSUME NEW k \in Rank, NEW n \in Near(k), NEW i \in 1 .. Len(net'[k][n]),
                      net'[k][n][i] # Nil
               PROVE  Good(TakenIn(stage[n], finished[n], posted'[n][k]) + i, net'[k][n][i],
                           cycle, began)
    BY <1>1 DEF Carried
  <2>1. CASE k = q /\ n = r
    <3>1. posted'[n][k] = FALSE /\ net'[k][n] = Tail(net[q][r])
      BY <1>2, <1>3, <2>1
    <3>2. i + 1 \in 1 .. Len(net[q][r]) /\ net'[k][n][i] = net[q][r][i + 1]
      BY <1>4, <3>1
    <3>3. Good(TakenIn(stage[r], finished[r], posted[r][q]) + (i + 1), net[q][r][i + 1],
               cycle, began)
      BY <1>2, <3>2 DEF Inv, Carried
    <3>4. TakenIn(stage[n], finished[n], posted'[n][k]) =
            TakenIn(stage[r], finished[r], posted[r][q]) + 1
      BY <1>5, <2>1, <3>1
    <3>5. i \in Int
      OBVIOUS
    <3>6. TakenIn(stage[n], finished[n], posted'[n][k]) + i =
            TakenIn(stage[r], finished[r], posted[r][q]) + (i + 1)
      BY <1>6, <3>4, <3>5
    <3> QED
      BY <3>2, <3>3, <3>6
  <2>2. CASE ~ (k = q /\ n = r)
    <3>1. posted'[n][k] = posted[n][k] /\ net'[k][n] = net[k][n]
      BY <1>3, <2>2, NearFacts
    <3> QED
      BY <3>1 DEF Inv, Carried
  <2> QED
    BY <2>1, <2>2
<1>12. Held'
  <2> SUFFICES ASSUME NEW k \in Rank, NEW n \in Near(k), NEW i \in 1 .. Len(net'[k][n]),
                      net'[k][n][i] = Nil
               PROVE  i = Len(net'[k][n]) /\ Unsent(finished[k])
    BY <1>1 DEF Held
  <2>1. CASE k = q /\ n = r
    <3>1. net'[k][n] = Tail(net[q][r])
      BY <1>2, <1>3, <2>1
    <3>2. i + 1 \in 1 .. Len(net[q][r]) /\ net[q][r][i + 1] = Nil
      BY <1>4, <3>1
    <3>3. i + 1 = Len(net[q][r]) /\ Unsent(finished[q])
      BY <1>2, <3>2 DEF Inv, Held
    <3> QED
      BY <1>4, <2>1, <3>1, <3>3
  <2>2. CASE ~ (k = q /\ n = r)
    <3>1. net'[k][n] = net[k][n]
      BY <1>3, <2>2
    <3> QED
      BY <3>1 DEF Inv, Held
  <2> QED
    BY <2>1, <2>2
<1>13. Ghosts'
  BY <1>1 DEF Inv, Ghosts
<1> QED
  BY <1>7, <1>8, <1>9, <1>10, <1>11, <1>12, <1>13 DEF Exchange

\* Every step keeps the exchange right.
LEMMA ExchangeStep ==
  ASSUME Inv, [Next]_vars
  PROVE  Exchange'
<1>1. CASE UNCHANGED vars
  BY <1>1 DEF vars, clock, cells, radiation, exchange, Inv, Exchange,
     Waiting, Counted, Packing, Received, Carried, Held, Ghosts
<1>2. ASSUME NEW r \in Rank, Step(r) PROVE Exchange'
  <2>1. CASE \/ CalculateHydroFlux(r) \/ AddFluxToConserved(r) \/ IntegrateHydro(r)
             \/ AddSourceTerms(r) \/ ImplicitCorrection(r) \/ UpdateAllConserved(r)
             \/ Cons2Prim(r)
    BY <2>1, QuietTasks, QuietExchange DEF Inv
  <2>2. CASE SendHydro(r)
    BY <2>2, SendExchange
  <2>3. CASE ReceiveHydro(r)
    BY <2>3, ReceiveExchange
  <2>4. CASE SetBoundariesHydro(r)
    BY <2>4, SetBoundariesExchange
  <2>5. CASE ClearAllBoundary(r)
    BY <2>5, ClearExchange
  <2>6. CASE RestartReceiving(r)
    BY <2>6, RestartExchange
  <2>7. CASE NextStage(r)
    BY <2>7, NextStageExchange
  <2> QED
    BY <1>2, <2>1, <2>2, <2>3, <2>4, <2>5, <2>6, <2>7 DEF Step
<1>3. ASSUME NEW r \in Rank, NEW q \in Rank, Deliver(q, r) PROVE Exchange'
  BY <1>3, DeliverExchange
<1>4. CASE Continue \/ Restart
  BY <1>4, BeginExchange DEF Continue, Restart
<1>5. ASSUME NEW r \in Rank, ClearBuffered(r) PROVE Exchange'
  BY <1>5, BufferedExchange
<1> QED
  BY <1>1, <1>2, <1>3, <1>4, <1>5 DEF Next, Progress, Finished

-----------------------------------------------------------------------------
(* Cells and radiation.                                                     *)

CellTypes ==
  /\ flux \in [Rank -> SUBSET Additions] /\ du \in [Rank -> SUBSET Additions]
  /\ u \in [Rank -> State]
  /\ counter \in [Rank -> Int] /\ age \in [Rank -> Nat \union {Nil}]

\* The longest time step.
LEMMA MaxFacts ==
  /\ Max(Dts) \in Dts
  /\ \A d \in Dts : d \in Nat \ {0} /\ d <= Max(Dts)
<1>1. PICK d \in Dts : \A e \in Dts : e <= d
  BY StageAssumption
<1>2. Dts \subseteq Nat
  BY StageAssumption
<1>3. \A e \in Dts : d >= e
  BY <1>1, <1>2
<1>4. Max(Dts) \in Dts /\ \A e \in Dts : Max(Dts) >= e
  <2>1. Max(Dts) = CHOOSE x \in Dts : \A y \in Dts : x >= y
    BY DEF Max
  <2> QED
    BY <1>1, <1>3, <2>1
<1> QED
  BY <1>2, <1>4, StageAssumption

\* The parts of a state of the cells.
LEMMA StateFacts ==
  ASSUME Types, NEW r \in Rank
  PROVE  /\ u[r].cycle \in 0 .. Cycles /\ u[r].stage \in 1 .. nstages
         /\ u[r].added \in SUBSET Additions
         /\ u[r] = [cycle |-> u[r].cycle, stage |-> u[r].stage, added |-> u[r].added]
         /\ \A x : [u[r] EXCEPT !.added = x] =
                     [cycle |-> u[r].cycle, stage |-> u[r].stage, added |-> x]
<1>1. u[r] \in State
  BY DEF Types
<1> QED
  BY <1>1 DEF State

\* A task of rank r leaves the cells of the other blocks alone.
LEMMA CellFrame ==
  ASSUME Inv, NEW r \in Rank, NEW id, Adds(r, id),
         \A q \in Rank : q # r => flux'[q] = flux[q] /\ du'[q] = du[q] /\ u'[q] = u[q],
         FluxOf(finished'[r], flux'[r], cycle, began),
         DuOf(finished'[r], du'[r], cycle, began),
         UOf(finished'[r], u'[r], cycle, began, stage[r])
  PROVE  Cells'
<1>1. cycle' = cycle /\ began' = began /\ stage' = stage
  BY DEF Adds
<1> SUFFICES ASSUME NEW q \in Rank
             PROVE  /\ FluxOf(finished'[q], flux'[q], cycle, began)
                    /\ DuOf(finished'[q], du'[q], cycle, began)
                    /\ UOf(finished'[q], u'[q], cycle, began, stage[q])
  BY <1>1 DEF Cells
<1>2. CASE q = r
  BY <1>2
<1>3. CASE q # r
  <2>1. finished'[q] = finished[q]
    BY <1>3 DEF Adds, Inv, Types
  <2> QED
    BY <1>3, <2>1 DEF Inv, Cells
<1> QED
  BY <1>2, <1>3

\* Only ADD_FLX_CONS has to do with the radiation.
LEMMA RadiationFrame ==
  ASSUME Inv, NEW r \in Rank, NEW id, Adds(r, id), id # "ADD_FLX_CONS", UNCHANGED radiation
  PROVE  Radiation'
<1>1. /\ cycle' = cycle /\ began' = began /\ dt' = dt /\ stage' = stage
      /\ age' = age /\ counter' = counter
  BY DEF Adds, radiation
<1>2. \A q \in Rank : "ADD_FLX_CONS" \in finished'[q] <=> "ADD_FLX_CONS" \in finished[q]
  BY AddsMember DEF Inv
<1>3. \A q \in Rank : \A s, a, k, c, b, d :
        RadOf(finished'[q], s, a, k, c, b, d) <=> RadOf(finished[q], s, a, k, c, b, d)
  BY <1>2 DEF RadOf
<1> QED
  BY <1>1, <1>3 DEF Inv, Radiation

Content == CellTypes /\ Cells /\ Radiation

\* A task that leaves the cells alone.
Away(r) ==
  \E id \in AllTasks \ {"CALC_HYDFLX", "ADD_FLX_CONS", "INT_HYD", "SRC_TERM", "IMPLICIT_CORR",
                        "UPDATE_ALLCONS"} : Adds(r, id) /\ UNCHANGED <<cells, radiation>>

\* The tasks of the exchange leave the cells and the radiation alone.
LEMMA AwayTasks ==
  ASSUME NEW r \in Rank, Ordered,
         \/ SendHydro(r) \/ ReceiveHydro(r) \/ SetBoundariesHydro(r) \/ ClearAllBoundary(r)
         \/ ClearBuffered(r) \/ RestartReceiving(r) \/ Cons2Prim(r)
  PROVE  Away(r)
<1>1. \E id \in AllTasks \ {"CALC_HYDFLX", "ADD_FLX_CONS", "INT_HYD", "SRC_TERM", "IMPLICIT_CORR",
                            "UPDATE_ALLCONS"} : Runs(r, id) /\ UNCHANGED <<cells, radiation>>
  BY TaskNames DEF SendHydro, ReceiveHydro, SetBoundariesHydro, ClearAllBoundary, ClearBuffered,
     RestartReceiving, Cons2Prim
<1> QED
  BY <1>1, RunsTask DEF Away

\* They keep cells and radiation right.
LEMMA AwayContent ==
  ASSUME Inv, NEW r \in Rank, Away(r)
  PROVE  Content'
<1>1. PICK id \in AllTasks \ {"CALC_HYDFLX", "ADD_FLX_CONS", "INT_HYD", "SRC_TERM",
                              "IMPLICIT_CORR", "UPDATE_ALLCONS"} :
        Adds(r, id) /\ UNCHANGED <<cells, radiation>>
  BY DEF Away
<1>2. flux' = flux /\ du' = du /\ u' = u /\ counter' = counter /\ age' = age
  BY <1>1 DEF cells, radiation
<1>3. CellTypes'
  BY <1>2 DEF CellTypes, Inv, Types
<1>4. Cells'
  <2>1. \A x \in {"CALC_HYDFLX", "ADD_FLX_CONS", "INT_HYD", "SRC_TERM", "IMPLICIT_CORR",
                  "UPDATE_ALLCONS"} : x \in finished'[r] <=> x \in finished[r]
    BY <1>1, AddsMember DEF Inv
  <2>2. /\ FluxOf(finished[r], flux[r], cycle, began)
        /\ DuOf(finished[r], du[r], cycle, began)
        /\ UOf(finished[r], u[r], cycle, began, stage[r])
    BY DEF Inv, Cells
  <2>3. /\ FluxOf(finished'[r], flux[r], cycle, began)
        /\ DuOf(finished'[r], du[r], cycle, began)
        /\ UOf(finished'[r], u[r], cycle, began, stage[r])
    BY <2>1, <2>2 DEF FluxOf, DuOf, UOf
  <2> QED
    BY <1>1, <1>2, <2>3, CellFrame
<1>5. Radiation'
  BY <1>1, RadiationFrame
<1> QED
  BY <1>3, <1>4, <1>5 DEF Content

\* CALC_HYDFLX: the fluxes are those of the hydrodynamics alone.
LEMMA FluxContent ==
  ASSUME Inv, NEW r \in Rank, CalculateHydroFlux(r)
  PROVE  Content'
<1>1. Adds(r, "CALC_HYDFLX")
  BY RunsTask, TaskNames DEF Inv, CalculateHydroFlux
<1>2. /\ flux' = [flux EXCEPT ![r] = {"hydro"}] /\ du' = du /\ u' = u
      /\ counter' = counter /\ age' = age
  BY DEF CalculateHydroFlux, radiation
<1>3. CellTypes'
  BY <1>2 DEF CellTypes, Inv, Types, Additions
<1>4. Cells'
  <2>1. \A x : x \in finished'[r] <=> x \in finished[r] \/ x = "CALC_HYDFLX"
    BY <1>1, AddsMember DEF Inv
  <2>2. Order(finished[r]) /\ "CALC_HYDFLX" \notin finished[r]
    BY <1>1 DEF Inv, Ordered, Adds
  <2>3. flux'[r] = {"hydro"}
    BY <1>2 DEF Inv, Types
  <2>4. FluxOf(finished'[r], flux'[r], cycle, began)
    BY <2>1, <2>2, <2>3 DEF FluxOf, Order
  <2>5. DuOf(finished'[r], du'[r], cycle, began) /\ UOf(finished'[r], u'[r], cycle, began, stage[r])
    BY <1>2, <2>1 DEF Inv, Cells, DuOf, UOf
  <2> QED
    BY <1>1, <1>2, <2>4, <2>5, CellFrame DEF Inv, Types
<1>5. Radiation'
  BY <1>1, <1>2, RadiationFrame DEF radiation
<1> QED
  BY <1>3, <1>4, <1>5 DEF Content

\* INT_HYD: the increments are the fluxes, radiation included.
LEMMA IntegrateContent ==
  ASSUME Inv, NEW r \in Rank, IntegrateHydro(r)
  PROVE  Content'
<1>1. Adds(r, "INT_HYD")
  BY RunsTask, TaskNames DEF Inv, IntegrateHydro
<1>2. /\ u' = [u EXCEPT ![r] = [cycle |-> cycle, stage |-> stage[r], added |-> {}]]
      /\ du' = [du EXCEPT ![r] = flux[r]]
      /\ flux' = flux /\ counter' = counter /\ age' = age
  BY DEF IntegrateHydro, radiation
<1>3. CellTypes'
  <2>1. [cycle |-> cycle, stage |-> stage[r], added |-> {}] \in State
    BY StageAssumption DEF State, Inv, Types
  <2> QED
    BY <1>2, <2>1 DEF CellTypes, Inv, Types
<1>4. Cells'
  <2>1. \A x : x \in finished'[r] <=> x \in finished[r] \/ x = "INT_HYD"
    BY <1>1, AddsMember DEF Inv
  <2>2. Order(finished[r]) /\ Order(finished'[r]) /\ "INT_HYD" \notin finished[r]
    BY <1>1, AddsOrdered DEF Inv, Ordered, Adds
  <2>3. u'[r] = [cycle |-> cycle, stage |-> stage[r], added |-> {}] /\ du'[r] = flux[r]
    BY <1>2 DEF Inv, Types
  <2>4. /\ FluxOf(finished[r], flux[r], cycle, began)
        /\ DuOf(finished[r], du[r], cycle, began)
        /\ UOf(finished[r], u[r], cycle, began, stage[r])
    BY DEF Inv, Cells
  <2>5. FluxOf(finished'[r], flux'[r], cycle, began)
    BY <1>2, <2>1, <2>4 DEF FluxOf
  <2>6. flux[r] = {"hydro"} \union Rad(cycle, began)
    BY <2>1, <2>2, <2>4 DEF FluxOf, Order
  <2>7. DuOf(finished'[r], du'[r], cycle, began)
    BY <2>1, <2>2, <2>3, <2>6 DEF DuOf, Order
  <2>8. UOf(finished'[r], u'[r], cycle, began, stage[r])
    BY <2>1, <2>2, <2>3 DEF UOf, Order
  <2> QED
    BY <1>1, <1>2, <2>5, <2>7, <2>8, CellFrame DEF Inv, Types
<1>5. Radiation'
  BY <1>1, <1>2, RadiationFrame DEF radiation
<1> QED
  BY <1>3, <1>4, <1>5 DEF Content

\* SRC_TERM: the sources are added to the increments.
LEMMA SourceContent ==
  ASSUME Inv, NEW r \in Rank, AddSourceTerms(r)
  PROVE  Content'
<1>1. Adds(r, "SRC_TERM")
  BY RunsTask, TaskNames DEF Inv, AddSourceTerms
<1>2. /\ du' = [du EXCEPT ![r] = du[r] \union {"source"}]
      /\ flux' = flux /\ u' = u /\ counter' = counter /\ age' = age
  BY DEF AddSourceTerms, radiation
<1>3. CellTypes'
  BY <1>2 DEF CellTypes, Inv, Types, Additions
<1>4. Cells'
  <2>1. \A x : x \in finished'[r] <=> x \in finished[r] \/ x = "SRC_TERM"
    BY <1>1, AddsMember DEF Inv
  <2>2. Order(finished'[r]) /\ "SRC_TERM" \notin finished[r]
    BY <1>1, AddsOrdered DEF Inv, Ordered, Adds
  <2>3. du'[r] = du[r] \union {"source"}
    BY <1>2 DEF Inv, Types
  <2>4. /\ FluxOf(finished[r], flux[r], cycle, began)
        /\ DuOf(finished[r], du[r], cycle, began)
        /\ UOf(finished[r], u[r], cycle, began, stage[r])
    BY DEF Inv, Cells
  <2>5. /\ FluxOf(finished'[r], flux'[r], cycle, began)
        /\ UOf(finished'[r], u'[r], cycle, began, stage[r])
    BY <1>2, <2>1, <2>4 DEF FluxOf, UOf
  <2>6. du[r] = {"hydro"} \union Rad(cycle, began)
    BY <2>1, <2>2, <2>4 DEF DuOf, Order
  <2>7. DuOf(finished'[r], du'[r], cycle, began)
    BY <2>1, <2>2, <2>3, <2>6 DEF DuOf, Order
  <2> QED
    BY <1>1, <1>2, <2>5, <2>7, CellFrame DEF Inv, Types
<1>5. Radiation'
  BY <1>1, <1>2, RadiationFrame DEF radiation
<1> QED
  BY <1>3, <1>4, <1>5 DEF Content

\* IMPLICIT_CORR: the corrected increments are added to the cells.
LEMMA ImplicitContent ==
  ASSUME Inv, NEW r \in Rank, ImplicitCorrection(r)
  PROVE  Content'
<1>1. Adds(r, "IMPLICIT_CORR")
  BY RunsTask, TaskNames DEF Inv, ImplicitCorrection
<1>2. /\ du' = [du EXCEPT ![r] = du[r] \union {"implicit"}]
      /\ u' = [u EXCEPT ![r] = [u[r] EXCEPT !.added = u[r].added \union du'[r]]]
      /\ flux' = flux /\ counter' = counter /\ age' = age
  BY DEF ImplicitCorrection, radiation
<1>3. /\ du'[r] = du[r] \union {"implicit"} /\ du[r] \in SUBSET Additions
      /\ \A q \in Rank : q # r => du'[q] = du[q] /\ u'[q] = u[q]
      /\ u'[r] = [u[r] EXCEPT !.added = u[r].added \union du'[r]]
  BY <1>2 DEF Inv, Types
<1>4. u'[r] = [cycle |-> u[r].cycle, stage |-> u[r].stage,
               added |-> u[r].added \union (du[r] \union {"implicit"})]
  BY <1>3, StateFacts DEF Inv
<1>5. CellTypes'
  <2>1. du'[r] \in SUBSET Additions
    BY <1>3 DEF Additions
  <2>2. u'[r] \in State
    <3>1. /\ u[r].cycle \in 0 .. Cycles /\ u[r].stage \in 1 .. nstages
          /\ u[r].added \in SUBSET Additions
      BY StateFacts DEF Inv
    <3>2. u[r].added \union (du[r] \union {"implicit"}) \in SUBSET Additions
      BY <1>3, <2>1, <3>1
    <3> QED
      BY <1>4, <3>1, <3>2 DEF State
  <2>3. du' \in [Rank -> SUBSET Additions]
    BY <1>2, <1>3, <2>1 DEF Inv, Types
  <2>4. DOMAIN u' = Rank /\ u' = [q \in Rank |-> u'[q]]
    BY <1>2 DEF Inv, Types
  <2>5. \A q \in Rank : u'[q] \in State
    BY <1>3, <2>2 DEF Inv, Types
  <2>6. u' \in [Rank -> State]
    BY <2>4, <2>5
  <2> QED
    BY <1>2, <2>3, <2>6 DEF CellTypes, Inv, Types
<1>6. Cells'
  <2>1. \A x : x \in finished'[r] <=> x \in finished[r] \/ x = "IMPLICIT_CORR"
    BY <1>1, AddsMember DEF Inv
  <2>2. Order(finished'[r]) /\ Order(finished[r]) /\ "IMPLICIT_CORR" \notin finished[r]
    BY <1>1, AddsOrdered DEF Inv, Ordered, Adds
  <2>3. /\ FluxOf(finished[r], flux[r], cycle, began)
        /\ DuOf(finished[r], du[r], cycle, began)
        /\ UOf(finished[r], u[r], cycle, began, stage[r])
    BY DEF Inv, Cells
  <2>4. FluxOf(finished'[r], flux'[r], cycle, began)
    BY <1>2, <2>1, <2>3 DEF FluxOf
  <2>5. DuOf(finished'[r], du'[r], cycle, began)
    BY <2>1, <2>2 DEF DuOf, Order
  <2>6. du[r] = {"hydro", "source"} \union Rad(cycle, began)
    BY <2>1, <2>2, <2>3 DEF DuOf, Order
  <2>7. u[r] = [cycle |-> cycle, stage |-> stage[r], added |-> {}]
    BY <2>1, <2>2, <2>3 DEF UOf, Order
  <2>8. u'[r] = [cycle |-> cycle, stage |-> stage[r],
                 added |-> {"hydro", "source", "implicit"} \union Rad(cycle, began)]
    <3>1. {} \union (du[r] \union {"implicit"}) =
            {"hydro", "source", "implicit"} \union Rad(cycle, began)
      BY <2>6
    <3>2. u[r].cycle = cycle /\ u[r].stage = stage[r] /\ u[r].added = {}
      BY <2>7
    <3> QED
      BY <1>4, <3>1, <3>2
  <2>9. UOf(finished'[r], u'[r], cycle, began, stage[r])
    BY <2>1, <2>2, <2>8 DEF UOf, Order
  <2> QED
    BY <1>1, <1>2, <1>3, <2>4, <2>5, <2>9, CellFrame
<1>7. Radiation'
  BY <1>1, <1>2, RadiationFrame DEF radiation
<1> QED
  BY <1>5, <1>6, <1>7 DEF Content

\* UPDATE_ALLCONS: the cells are complete.
LEMMA UpdateContent ==
  ASSUME Inv, NEW r \in Rank, UpdateAllConserved(r)
  PROVE  Content'
<1> DEFINE new == IF last(r) THEN {"adjusted"} ELSE {}
<1>1. Adds(r, "UPDATE_ALLCONS")
  BY RunsTask, TaskNames DEF Inv, UpdateAllConserved
<1>2. /\ u' = [u EXCEPT ![r] = [u[r] EXCEPT !.added = u[r].added \union new]]
      /\ flux' = flux /\ du' = du /\ counter' = counter /\ age' = age
  BY DEF UpdateAllConserved, radiation
<1>3. new \in SUBSET Additions
  BY DEF Additions
<1>4. new = IF stage[r] = nstages THEN {"adjusted"} ELSE {}
  BY DEF last
<1> HIDE DEF new
<1>5. /\ \A q \in Rank : q # r => u'[q] = u[q]
      /\ u'[r] = [u[r] EXCEPT !.added = u[r].added \union new]
  BY <1>2 DEF Inv, Types
<1>6. u'[r] = [cycle |-> u[r].cycle, stage |-> u[r].stage, added |-> u[r].added \union new]
  BY <1>5, StateFacts DEF Inv
<1>7. CellTypes'
  <2>1. u'[r] \in State
    <3>1. /\ u[r].cycle \in 0 .. Cycles /\ u[r].stage \in 1 .. nstages
          /\ u[r].added \in SUBSET Additions
      BY StateFacts DEF Inv
    <3>2. u[r].added \union new \in SUBSET Additions
      BY <1>3, <3>1
    <3> QED
      BY <1>6, <3>1, <3>2 DEF State
  <2>2. DOMAIN u' = Rank /\ u' = [q \in Rank |-> u'[q]]
    BY <1>2 DEF Inv, Types
  <2>3. \A q \in Rank : u'[q] \in State
    BY <1>5, <2>1 DEF Inv, Types
  <2>4. u' \in [Rank -> State]
    BY <2>2, <2>3
  <2> QED
    BY <1>2, <2>4 DEF CellTypes, Inv, Types
<1>8. Cells'
  <2>1. \A x : x \in finished'[r] <=> x \in finished[r] \/ x = "UPDATE_ALLCONS"
    BY <1>1, AddsMember DEF Inv
  <2>2. Order(finished'[r]) /\ Order(finished[r]) /\ "UPDATE_ALLCONS" \notin finished[r]
    BY <1>1, AddsOrdered DEF Inv, Ordered, Adds
  <2>3. /\ FluxOf(finished[r], flux[r], cycle, began)
        /\ DuOf(finished[r], du[r], cycle, began)
        /\ UOf(finished[r], u[r], cycle, began, stage[r])
    BY DEF Inv, Cells
  <2>4. /\ FluxOf(finished'[r], flux'[r], cycle, began)
        /\ DuOf(finished'[r], du'[r], cycle, began)
    BY <1>2, <2>1, <2>3 DEF FluxOf, DuOf
  <2>5. u[r] = [cycle |-> cycle, stage |-> stage[r],
                added |-> {"hydro", "source", "implicit"} \union Rad(cycle, began)]
    BY <2>1, <2>2, <2>3 DEF UOf, Order
  <2>6. u'[r] = Whole(cycle, began, stage[r])
    <3>1. /\ u[r].cycle = cycle /\ u[r].stage = stage[r]
          /\ u[r].added = {"hydro", "source", "implicit"} \union Rad(cycle, began)
      BY <2>5
    <3> QED
      BY <1>4, <1>6, <3>1 DEF Whole, Rad
  <2>7. UOf(finished'[r], u'[r], cycle, began, stage[r])
    BY <2>1, <2>2, <2>6 DEF UOf, Order
  <2> QED
    BY <1>1, <1>2, <1>5, <2>4, <2>7, CellFrame
<1>9. Radiation'
  BY <1>1, <1>2, RadiationFrame DEF radiation
<1> QED
  BY <1>7, <1>8, <1>9 DEF Content

\* The counter of the radiation: the fluxes are renewed before they get older
\* than the cooldown time and the longest time step.
LEMMA CounterStep ==
  ASSUME Inv, NEW r \in Rank, stage[r] = nstages, UpdateRadiation(r),
         "ADD_FLX_CONS" \notin finished[r], NEW F, "ADD_FLX_CONS" \in F
  PROVE  /\ RadOf(F, stage[r], age'[r], counter'[r], cycle, began, dt)
         /\ counter' \in [Rank -> Int] /\ age' \in [Rank -> Nat \union {Nil}]
         /\ \A q \in Rank : q # r => counter'[q] = counter[q] /\ age'[q] = age[q]
<1>1. /\ Cooldown \in Nat /\ dt \in Nat \ {0} /\ dt <= Max(Dts) /\ Max(Dts) \in Nat
      /\ counter[r] \in Int
  BY StageAssumption, MaxFacts DEF Inv, Types
<1>2. RadOf(finished[r], stage[r], age[r], counter[r], cycle, began, dt)
  BY DEF Inv, Radiation
<1>3. CASE counter[r] > 0
  <2>1. counter' = [counter EXCEPT ![r] = counter[r] - dt] /\ age' = age
    BY <1>3 DEF UpdateRadiation
  <2>2. counter'[r] = counter[r] - dt /\ counter' \in [Rank -> Int]
    BY <1>1, <2>1 DEF Inv, Types
  <2>3. age[r] \in Nat /\ age[r] + counter[r] <= Cooldown + Max(Dts)
    BY <1>2, <1>3 DEF RadOf
  <2>4. age[r] + counter'[r] <= Cooldown + Max(Dts) - dt /\ counter'[r] > - dt
    BY <1>1, <1>3, <2>2, <2>3
  <2> QED
    BY <2>1, <2>2, <2>3, <2>4 DEF RadOf, Inv, Types
<1>4. CASE ~ (counter[r] > 0)
  <2>1. counter' = [counter EXCEPT ![r] = Cooldown] /\ age' = [age EXCEPT ![r] = 0]
    BY <1>4 DEF UpdateRadiation
  <2>2. counter'[r] = Cooldown /\ age'[r] = 0
    BY <2>1 DEF Inv, Types
  <2>3. age'[r] + counter'[r] <= Cooldown + Max(Dts) - dt /\ counter'[r] > - dt
    BY <1>1, <2>2
  <2>4. RadOf(F, stage[r], age'[r], counter'[r], cycle, began, dt)
    BY <2>2, <2>3 DEF RadOf
  <2> QED
    BY <1>1, <2>1, <2>4 DEF Inv, Types
<1> QED
  BY <1>3, <1>4

\* ADD_FLX_CONS: radiative fluxes are added in every cycle but the first.
LEMMA RadiationContent ==
  ASSUME Inv, NEW r \in Rank, AddFluxToConserved(r)
  PROVE  Content'
<1>1. Adds(r, "ADD_FLX_CONS")
  BY RunsTask, TaskNames DEF Inv, AddFluxToConserved
<1>2. /\ flux' = [flux EXCEPT ![r] = flux[r] \union IF age[r] = Nil THEN {} ELSE {"radiation"}]
      /\ du' = du /\ u' = u
      /\ IF last(r) THEN UpdateRadiation(r) ELSE counter' = counter /\ age' = age
  BY DEF AddFluxToConserved, radiation
<1>3. \A x : x \in finished'[r] <=> x \in finished[r] \/ x = "ADD_FLX_CONS"
  BY <1>1, AddsMember DEF Inv
<1>4. Order(finished'[r]) /\ Order(finished[r]) /\ "ADD_FLX_CONS" \notin finished[r]
  BY <1>1, AddsOrdered DEF Inv, Ordered, Adds
<1>5. RadOf(finished[r], stage[r], age[r], counter[r], cycle, began, dt)
  BY DEF Inv, Radiation
<1>6. /\ RadOf(finished'[r], stage[r], age'[r], counter'[r], cycle, began, dt)
      /\ counter' \in [Rank -> Int] /\ age' \in [Rank -> Nat \union {Nil}]
      /\ \A q \in Rank : q # r => counter'[q] = counter[q] /\ age'[q] = age[q]
  <2>1. CASE stage[r] = nstages
    BY <1>2, <1>3, <1>4, <2>1, CounterStep DEF last
  <2>2. CASE stage[r] # nstages
    BY <1>2, <1>5, <2>2 DEF last, RadOf, Inv, Types
  <2> QED
    BY <2>1, <2>2
<1>7. CellTypes'
  BY <1>2, <1>6 DEF CellTypes, Inv, Types, Additions
<1>8. Cells'
  <2>1. /\ FluxOf(finished[r], flux[r], cycle, began)
        /\ DuOf(finished[r], du[r], cycle, began)
        /\ UOf(finished[r], u[r], cycle, began, stage[r])
    BY DEF Inv, Cells
  <2>2. DuOf(finished'[r], du'[r], cycle, began) /\ UOf(finished'[r], u'[r], cycle, began, stage[r])
    BY <1>2, <1>3, <2>1 DEF DuOf, UOf
  <2>3. flux[r] = {"hydro"}
    BY <1>3, <1>4, <2>1 DEF FluxOf, Order
  <2>4. (age[r] = Nil) <=> cycle = began
    BY <1>4, <1>5, NilAssumption DEF RadOf
  <2>5. flux'[r] = {"hydro"} \union Rad(cycle, began)
    BY <1>2, <2>3, <2>4 DEF Rad, Inv, Types
  <2>6. FluxOf(finished'[r], flux'[r], cycle, began)
    BY <1>3, <2>5 DEF FluxOf
  <2> QED
    BY <1>1, <1>2, <2>2, <2>6, CellFrame DEF Inv, Types
<1>9. Radiation'
  <2> SUFFICES ASSUME NEW q \in Rank
               PROVE  RadOf(finished'[q], stage[q], age'[q], counter'[q], cycle, began, dt)
    BY <1>1 DEF Radiation, Adds
  <2>1. CASE q = r
    BY <1>6, <2>1
  <2>2. CASE q # r
    <3>1. finished'[q] = finished[q]
      BY <1>1, <2>2 DEF Adds, Inv, Types
    <3> QED
      BY <1>6, <2>2, <3>1 DEF Inv, Radiation
  <2> QED
    BY <2>1, <2>2
<1> QED
  BY <1>7, <1>8, <1>9 DEF Content

\* A new stage or cycle begins with the cells as they are.
LEMMA NextStageContent ==
  ASSUME Inv, NEW r \in Rank, NextStage(r)
  PROVE  Content'
<1>1. /\ cycle' = cycle /\ began' = began /\ dt' = dt
      /\ stage' = [stage EXCEPT ![r] = stage[r] + 1] /\ stage[r] # nstages
      /\ finished' = [finished EXCEPT ![r] = {}]
      /\ flux' = flux /\ du' = du /\ u' = u /\ counter' = counter /\ age' = age
  BY DEF NextStage, last, clock, cells, radiation
<1>2. finished'[r] = {} /\ \A q \in Rank : q # r => finished'[q] = finished[q] /\ stage'[q] = stage[q]
  BY <1>1 DEF Inv, Types
<1>3. CellTypes'
  BY <1>1 DEF CellTypes, Inv, Types
<1>4. Cells'
  <2> SUFFICES ASSUME NEW q \in Rank
               PROVE  /\ FluxOf(finished'[q], flux[q], cycle, began)
                      /\ DuOf(finished'[q], du[q], cycle, began)
                      /\ UOf(finished'[q], u[q], cycle, began, stage'[q])
    BY <1>1 DEF Cells
  <2>1. CASE q = r
    BY <1>2, <2>1 DEF FluxOf, DuOf, UOf
  <2>2. CASE q # r
    BY <1>2, <2>2 DEF Inv, Cells
  <2> QED
    BY <2>1, <2>2
<1>5. Radiation'
  <2> SUFFICES ASSUME NEW q \in Rank
               PROVE  RadOf(finished'[q], stage'[q], age[q], counter[q], cycle, began, dt)
    BY <1>1 DEF Radiation
  <2>1. CASE q = r
    <3>1. RadOf(finished[r], stage[r], age[r], counter[r], cycle, began, dt)
      BY DEF Inv, Radiation
    <3> QED
      BY <1>1, <1>2, <2>1, <3>1 DEF RadOf
  <2>2. CASE q # r
    BY <1>2, <2>2 DEF Inv, Radiation
  <2> QED
    BY <2>1, <2>2
<1> QED
  BY <1>3, <1>4, <1>5 DEF Content

\* A restart forgets counter and fluxes; a cycle that goes on ages the fluxes.
LEMMA BeginContent ==
  ASSUME Inv, Continue \/ Restart
  PROVE  Content'
<1>1. /\ cycle' = cycle + 1 /\ flux' = flux /\ du' = du /\ u' = u
      /\ \A r \in Rank : finished'[r] = {}
      /\ \A r \in Rank : StageOver(r) /\ stage[r] = nstages
  BY DEF Continue, Restart, BeginCycle, CycleOver, last, cells
<1>2. /\ cycle \in Nat /\ began \in Nat /\ began <= cycle /\ Cooldown \in Nat
      /\ dt \in Nat \ {0} /\ dt <= Max(Dts) /\ Max(Dts) \in Nat \ {0}
  <2>1. cycle \in 1 .. Cycles /\ began \in 1 .. cycle /\ dt \in Dts
    BY DEF Inv, Types
  <2>2. Cooldown \in Nat /\ Cycles \in Nat
    BY StageAssumption
  <2> QED
    BY <2>1, <2>2, MaxFacts
<1>3. Cells'
  BY <1>1 DEF Cells, FluxOf, DuOf, UOf
<1>4. \A r \in Rank : /\ age[r] \in Nat /\ counter[r] \in Int
                      /\ age[r] + counter[r] <= Cooldown + Max(Dts) - dt /\ counter[r] > - dt
  <2> TAKE r \in Rank
  <2>1. "ADD_FLX_CONS" \in finished[r]
    BY <1>1, TaskNames DEF StageOver
  <2> QED
    BY <1>1, <2>1 DEF Inv, Types, Radiation, RadOf
<1>5. CASE Continue
  <2>1. /\ began' = began /\ counter' = counter
        /\ age' = [r \in Rank |-> IF age[r] = Nil THEN Nil ELSE age[r] + dt]
    BY <1>5 DEF Continue
  <2>2. \A r \in Rank : age'[r] = age[r] + dt
    BY <1>4, <2>1, NilAssumption
  <2>3. CellTypes'
    <3>1. \A r \in Rank : age[r] + dt \in Nat
      BY <1>2, <1>4
    <3> QED
      BY <1>1, <2>1, <3>1 DEF CellTypes, Inv, Types
  <2>4. Radiation'
    <3> SUFFICES ASSUME NEW r \in Rank
                 PROVE  RadOf(finished'[r], stage'[r], age'[r], counter[r], cycle', began, dt')
      BY <2>1 DEF Radiation
    <3>1. cycle' # began
      BY <1>1, <1>2
    <3>2. /\ age'[r] \in Nat /\ age'[r] + counter[r] <= Cooldown + Max(Dts)
          /\ counter[r] > - Max(Dts)
      BY <1>2, <1>4, <2>2
    <3> QED
      BY <1>1, <3>1, <3>2 DEF RadOf
  <2> QED
    BY <1>3, <2>3, <2>4 DEF Content
<1>6. CASE Restart
  <2>1. began' = cycle' /\ counter' = [r \in Rank |-> 0] /\ age' = [r \in Rank |-> Nil]
    BY <1>1, <1>6 DEF Restart
  <2>2. CellTypes'
    BY <1>1, <2>1 DEF CellTypes, Inv, Types
  <2>3. Radiation'
    BY <1>1, <2>1 DEF Radiation, RadOf
  <2> QED
    BY <1>3, <2>2, <2>3 DEF Content
<1> QED
  BY <1>5, <1>6

\* Every step keeps cells and radiation right.
LEMMA ContentStep ==
  ASSUME Inv, [Next]_vars
  PROVE  Content'
<1>1. CASE UNCHANGED <<clock, stage, finished, cells, radiation>>
  BY <1>1 DEF clock, cells, radiation, Inv, Types, Content, CellTypes, Cells, Radiation
<1>2. ASSUME NEW r \in Rank, Step(r) PROVE Content'
  <2>1. CASE CalculateHydroFlux(r)
    BY <2>1, FluxContent
  <2>2. CASE AddFluxToConserved(r)
    BY <2>2, RadiationContent
  <2>3. CASE IntegrateHydro(r)
    BY <2>3, IntegrateContent
  <2>4. CASE AddSourceTerms(r)
    BY <2>4, SourceContent
  <2>5. CASE ImplicitCorrection(r)
    BY <2>5, ImplicitContent
  <2>6. CASE UpdateAllConserved(r)
    BY <2>6, UpdateContent
  <2>7. CASE \/ SendHydro(r) \/ ReceiveHydro(r) \/ SetBoundariesHydro(r)
             \/ ClearAllBoundary(r) \/ RestartReceiving(r) \/ Cons2Prim(r)
    BY <2>7, AwayTasks, AwayContent DEF Inv
  <2>8. CASE NextStage(r)
    BY <2>8, NextStageContent
  <2> QED
    BY <1>2, <2>1, <2>2, <2>3, <2>4, <2>5, <2>6, <2>7, <2>8 DEF Step
<1>3. ASSUME NEW r \in Rank, NEW q \in Rank, Deliver(q, r) PROVE Content'
  BY <1>1, <1>3 DEF Deliver
<1>4. CASE Continue \/ Restart
  BY <1>4, BeginContent
<1>5. ASSUME NEW r \in Rank, ClearBuffered(r) PROVE Content'
  BY <1>5, AwayTasks, AwayContent DEF Inv
<1>6. CASE UNCHANGED vars
  BY <1>1, <1>6 DEF vars
<1> QED
  BY <1>2, <1>3, <1>4, <1>5, <1>6 DEF Next, Progress, Finished

-----------------------------------------------------------------------------
(* The theorems.                                                            *)

BoxTypes ==
  /\ Table(sendbuf, StripSet \union {Nil}) /\ Table(recvbuf, StripSet \union {Nil})
  /\ Table(ghost, StripSet) /\ Table(posted, BOOLEAN)
  /\ Table(net, Seq(StripSet \union {Nil}))

\* A packed message is a pair of the block's cells and cells beside it.
LEMMA PackedType ==
  ASSUME Types, NEW r \in Rank, NEW n \in Near(r)
  PROVE  Packed(r, n) \in StripSet
<1>1. u[r] \in State /\ \A m \in Near(r) : ghost[r][m] \in StripSet
  BY DEF Types, Table
<1> QED
  BY <1>1 DEF Packed, StripSet, Near

\* Buffers, ghost cells and messages keep their types; a ghost cell is never
\* filled from a buffer into which nothing was received.
LEMMA BoxStep ==
  ASSUME Inv, [Next]_vars
  PROVE  BoxTypes'
<1> DEFINE MaybeStrip == StripSet \union {Nil}
<1>1. CASE UNCHANGED exchange
  BY <1>1 DEF exchange, BoxTypes, Inv, Types, Table
<1>2. ASSUME NEW r \in Rank, SendHydro(r) PROVE BoxTypes'
  <2>1. /\ sendbuf' = [sendbuf EXCEPT ![r] = [n \in Near(r) |-> Packed(r, n)]]
        /\ net' = [net EXCEPT ![r] = [n \in Near(r) |-> Append(net[r][n], Nil)]]
        /\ recvbuf' = recvbuf /\ posted' = posted /\ ghost' = ghost
    BY <1>2 DEF SendHydro
  <2>2. \A n \in Near(r) : Append(net[r][n], Nil) \in Seq(MaybeStrip)
    BY AppendFacts DEF Inv, Types, Table
  <2>3. \A n \in Near(r) : Packed(r, n) \in MaybeStrip
    BY PackedType DEF Inv
  <2> HIDE DEF MaybeStrip
  <2>4. Table(sendbuf, MaybeStrip) /\ Table(net, Seq(MaybeStrip))
    BY DEF Inv, Types, MaybeStrip
  <2>5. Table(sendbuf', MaybeStrip) /\ Table(net', Seq(MaybeStrip))
    BY <2>1, <2>2, <2>3, <2>4 DEF Table
  <2> QED
    BY <2>1, <2>5 DEF BoxTypes, Inv, Types, MaybeStrip, Table
<1>3. ASSUME NEW r \in Rank, SetBoundariesHydro(r) PROVE BoxTypes'
  <2>1. PICK id \in {"SETB_HYD", "SETB_HYD2"} : Adds(r, id)
    <3>1. PICK id \in {"SETB_HYD", "SETB_HYD2"} : Runs(r, id)
      BY <1>3 DEF SetBoundariesHydro
    <3> QED
      BY <3>1, RunsTask, TaskNames DEF Inv
  <2>2. \A n \in Near(r) : recvbuf[r][n] \in StripSet
    BY <2>1, Unpacked
  <2>3. /\ ghost' = [ghost EXCEPT ![r] = recvbuf[r]]
        /\ sendbuf' = sendbuf /\ recvbuf' = recvbuf /\ posted' = posted /\ net' = net
    BY <1>3 DEF SetBoundariesHydro
  <2>4. Table(ghost', StripSet)
    <3> HIDE DEF StripSet
    <3> QED
      BY <2>2, <2>3 DEF Inv, Types, Table
  <2> QED
    BY <2>3, <2>4 DEF BoxTypes, Inv, Types, Table
<1>4. ASSUME NEW r \in Rank, ClearBuffered(r) PROVE BoxTypes'
  <2>1. /\ sendbuf' = sendbuf /\ recvbuf' = recvbuf /\ posted' = posted /\ ghost' = ghost
        /\ net' = [net EXCEPT ![r] = [n \in Near(r) |->
                     [i \in DOMAIN net[r][n] |->
                       IF net[r][n][i] = Nil THEN sendbuf[r][n] ELSE net[r][n][i]]]]
    BY <1>4 DEF ClearBuffered
  <2> HIDE DEF MaybeStrip
  <2>2. Table(sendbuf, MaybeStrip) /\ Table(net, Seq(MaybeStrip))
    BY DEF Inv, Types, MaybeStrip
  <2>3. \A n \in Near(r) :
          [i \in DOMAIN net[r][n] |-> IF net[r][n][i] = Nil THEN sendbuf[r][n] ELSE net[r][n][i]]
            \in Seq(MaybeStrip)
    BY <2>2, CopyFacts DEF Table
  <2>4. Table(net', Seq(MaybeStrip))
    BY <2>1, <2>2, <2>3 DEF Table
  <2> QED
    BY <2>1, <2>4 DEF BoxTypes, Inv, Types, MaybeStrip, Table
<1>5. ASSUME NEW r \in Rank, RestartReceiving(r) \/ NextStage(r) PROVE BoxTypes'
  <2>1. /\ posted' = [posted EXCEPT ![r] = [n \in Near(r) |-> TRUE]]
        /\ sendbuf' = sendbuf /\ recvbuf' = recvbuf /\ ghost' = ghost /\ net' = net
    BY <1>5 DEF RestartReceiving, NextStage, StartReceiving
  <2> QED
    BY <2>1 DEF BoxTypes, Inv, Types, Table
<1>6. ASSUME NEW q \in Rank, NEW r \in Rank, Deliver(q, r) PROVE BoxTypes'
  <2>1. /\ posted' = [posted EXCEPT ![r][q] = FALSE]
        /\ net' = [net EXCEPT ![q][r] = Tail(net[q][r])]
        /\ recvbuf' = [recvbuf EXCEPT ![r][q] =
                         IF Head(net[q][r]) = Nil THEN sendbuf[q][r] ELSE Head(net[q][r])]
        /\ sendbuf' = sendbuf /\ ghost' = ghost /\ net[q][r] # <<>>
    BY <1>6 DEF Deliver
  <2>2. r \in Near(q) /\ q \in Near(r)
    BY <1>6, Delivered
  <2> HIDE DEF MaybeStrip
  <2>3. /\ Table(sendbuf, MaybeStrip) /\ Table(recvbuf, MaybeStrip) /\ Table(net, Seq(MaybeStrip))
        /\ Table(posted, BOOLEAN) /\ Table(ghost, StripSet)
    BY DEF Inv, Types, MaybeStrip
  <2>4. Tail(net[q][r]) \in Seq(MaybeStrip) /\ Head(net[q][r]) \in MaybeStrip
    BY <2>1, <2>2, <2>3, TailFacts DEF Table
  <2>5. (IF Head(net[q][r]) = Nil THEN sendbuf[q][r] ELSE Head(net[q][r])) \in MaybeStrip
    BY <2>2, <2>3, <2>4 DEF Table
  <2>6. Table(net', Seq(MaybeStrip))
    BY <2>1, <2>2, <2>3, <2>4 DEF Table
  <2>7. Table(recvbuf', MaybeStrip)
    BY <2>1, <2>2, <2>3, <2>5 DEF Table
  <2>8. Table(posted', BOOLEAN)
    BY <2>1, <2>2, <2>3 DEF Table
  <2> QED
    BY <2>1, <2>3, <2>6, <2>7, <2>8 DEF BoxTypes, MaybeStrip, Table
<1>7. CASE Continue \/ Restart
  <2>1. /\ posted' = [r \in Rank |-> [n \in Near(r) |-> TRUE]]
        /\ sendbuf' = sendbuf /\ recvbuf' = recvbuf /\ ghost' = ghost /\ net' = net
    BY <1>7 DEF Continue, Restart, BeginCycle, StartReceiving
  <2> QED
    BY <2>1 DEF BoxTypes, Inv, Types, Table
<1>8. ASSUME NEW r \in Rank, Step(r) PROVE BoxTypes'
  <2>1. CASE \/ CalculateHydroFlux(r) \/ AddFluxToConserved(r) \/ IntegrateHydro(r)
             \/ AddSourceTerms(r) \/ ImplicitCorrection(r) \/ UpdateAllConserved(r)
             \/ Cons2Prim(r) \/ ReceiveHydro(r) \/ ClearAllBoundary(r)
    BY <1>1, <2>1 DEF CalculateHydroFlux, AddFluxToConserved, IntegrateHydro, AddSourceTerms,
       ImplicitCorrection, UpdateAllConserved, Cons2Prim, ReceiveHydro, ClearAllBoundary
  <2> QED
    BY <1>2, <1>3, <1>5, <1>8, <2>1 DEF Step
<1>9. CASE UNCHANGED vars
  BY <1>1, <1>9 DEF vars
<1> QED
  BY <1>4, <1>6, <1>7, <1>8, <1>9 DEF Next, Progress, Finished

ClockTypes ==
  /\ cycle \in 1 .. Cycles /\ began \in 1 .. cycle /\ dt \in Dts
  /\ stage \in [Rank -> 1 .. nstages]
  /\ finished \in [Rank -> SUBSET AllTasks]

\* The clock, the stages and the finished tasks keep their types and order.
LEMMA ClockStep ==
  ASSUME Inv, [Next]_vars
  PROVE  ClockTypes' /\ Ordered'
<1>1. CASE UNCHANGED <<clock, stage, finished>>
  BY <1>1 DEF clock, ClockTypes, Inv, Types, Ordered
<1>2. ASSUME NEW r \in Rank, NEW id, Adds(r, id) PROVE ClockTypes' /\ Ordered'
  <2>1. Ordered'
    BY <1>2, AddsOrdered DEF Inv
  <2>2. finished' \in [Rank -> SUBSET AllTasks]
    <3>1. finished[r] \union {id} \in SUBSET AllTasks
      BY <1>2 DEF Adds, Order
    <3> QED
      BY <1>2, <3>1 DEF Adds, Inv, Types
  <2> QED
    BY <1>2, <2>1, <2>2 DEF Adds, ClockTypes, Inv, Types
<1>3. ASSUME NEW r \in Rank, NextStage(r) PROVE ClockTypes' /\ Ordered'
  <2>1. /\ cycle' = cycle /\ began' = began /\ dt' = dt /\ stage[r] # nstages
        /\ stage' = [stage EXCEPT ![r] = stage[r] + 1]
        /\ finished' = [finished EXCEPT ![r] = {}]
    BY <1>3 DEF NextStage, last, clock
  <2>2. stage[r] + 1 \in 1 .. nstages
    BY <2>1, StageAssumption DEF Inv, Types
  <2>3. ClockTypes'
    BY <2>1, <2>2 DEF ClockTypes, Inv, Types
  <2>4. Ordered'
    BY <2>1 DEF Ordered, Order, Inv, Types
  <2> QED
    BY <2>3, <2>4
<1>4. CASE Continue \/ Restart
  <2>1. /\ cycle' = cycle + 1 /\ cycle < Cycles /\ dt' \in Dts
        /\ stage' = [r \in Rank |-> 1] /\ finished' = [r \in Rank |-> {}]
        /\ began' \in {began, cycle + 1}
    BY <1>4 DEF Continue, Restart, BeginCycle
  <2>2. cycle \in 1 .. Cycles /\ began \in 1 .. cycle /\ Cycles \in Nat /\ nstages \in Nat \ {0}
    BY StageAssumption DEF Inv, Types
  <2> QED
    BY <2>1, <2>2 DEF ClockTypes, Ordered, Order
<1>5. ASSUME NEW r \in Rank, Quiet(r) \/ Away(r) PROVE ClockTypes' /\ Ordered'
  BY <1>2, <1>5 DEF Quiet, Away
<1>6. ASSUME NEW r \in Rank, Step(r) PROVE ClockTypes' /\ Ordered'
  <2>1. \/ NextStage(r) \/ Quiet(r) \/ Away(r)
    BY <1>6, QuietTasks, AwayTasks DEF Step, Inv
  <2> QED
    BY <1>3, <1>5, <2>1
<1>7. ASSUME NEW r \in Rank, ClearBuffered(r) PROVE ClockTypes' /\ Ordered'
  BY <1>5, <1>7, AwayTasks DEF Inv
<1>8. ASSUME NEW q \in Rank, NEW r \in Rank, Deliver(q, r) PROVE ClockTypes' /\ Ordered'
  BY <1>1, <1>8 DEF Deliver
<1>9. CASE UNCHANGED vars
  BY <1>1, <1>9 DEF vars
<1> QED
  BY <1>4, <1>6, <1>7, <1>8, <1>9 DEF Next, Progress, Finished

\* The invariant holds at first ...
LEMMA InitInv == Init => Inv
<1> SUFFICES ASSUME Init PROVE Inv
  OBVIOUS
<1>1. {nstages, Cycles} \subseteq Nat \ {0}
  BY StageAssumption
<1>2. \A r \in Rank : stage[r] = 1 /\ finished[r] = {} /\ age[r] = Nil /\ counter[r] = 0
  BY DEF Init
<1>3. \A r \in Rank : \A n \in Near(r) : posted[r][n] = TRUE /\ net[r][n] = <<>>
  BY DEF Init
<1>4. Start \in State
  BY <1>1 DEF Start, State
<1>5. CellTypes
  BY <1>4 DEF Init, CellTypes
<1>6. BoxTypes
  <2>1. \A r \in Rank : \A n \in Near(r) :
          [of |-> Start, along |-> IF n \in Across[r] THEN {Start} ELSE {}] \in StripSet
    BY <1>4 DEF StripSet
  <2>2. ghost = [r \in Rank |-> [n \in Near(r) |->
                  [of |-> Start, along |-> IF n \in Across[r] THEN {Start} ELSE {}]]]
    BY DEF Init
  <2>3. Table(ghost, StripSet)
    <3> HIDE DEF StripSet
    <3> QED
      BY <2>1, <2>2 DEF Table
  <2>4. /\ Table(sendbuf, StripSet \union {Nil}) /\ Table(recvbuf, StripSet \union {Nil})
        /\ Table(posted, BOOLEAN)
    BY DEF Init, Table
  <2>5. <<>> \in Seq(StripSet \union {Nil})
    OBVIOUS
  <2>6. Table(net, Seq(StripSet \union {Nil}))
    BY <2>5 DEF Init, Table
  <2> QED
    BY <2>3, <2>4, <2>6 DEF BoxTypes
<1>7. ClockTypes
  BY <1>1 DEF Init, ClockTypes
<1>8. Types
  BY <1>5, <1>6, <1>7 DEF Types, CellTypes, BoxTypes, ClockTypes
<1>9. Ordered
  BY <1>2 DEF Ordered, Order
<1>10. Waiting /\ Packing /\ Received /\ Ghosts /\ Cells
  BY <1>2, <1>3 DEF Waiting, Waited, Packing, Received, Ghosts, GhostOf, Cells, FluxOf, DuOf, UOf
<1>11. Counted
  <2> SUFFICES ASSUME NEW q \in Rank, NEW r \in Near(q)
               PROVE  Len(net[q][r]) = SentIn(stage[q], finished[q])
                        - TakenIn(stage[r], finished[r], posted[r][q])
    BY DEF Counted
  <2>1. r \in Rank /\ q \in Near(r)
    BY NearFacts
  <2>2. SentIn(1, {}) = 0 /\ TakenIn(1, {}, TRUE) = 0
    BY DEF SentIn, TakenIn
  <2>3. net[q][r] = <<>> /\ posted[r][q] = TRUE
    BY <1>3, <2>1
  <2>4. stage[q] = 1 /\ finished[q] = {} /\ stage[r] = 1 /\ finished[r] = {}
    BY <1>2, <2>1
  <2>5. Len(net[q][r]) = 0
    BY <2>3
  <2>6. /\ SentIn(stage[q], finished[q]) = 0
        /\ TakenIn(stage[r], finished[r], posted[r][q]) = 0
    BY <2>2, <2>3, <2>4
  <2> QED
    BY <2>5, <2>6
<1>12. Carried /\ Held
  BY <1>3 DEF Carried, Held
<1>13. Radiation
  <2>1. cycle = began
    BY DEF Init
  <2> QED
    BY <1>2, <2>1 DEF Radiation, RadOf
<1> QED
  BY <1>8, <1>9, <1>10, <1>11, <1>12, <1>13 DEF Inv

\* ... and every step keeps it.
LEMMA StepInv == Inv /\ [Next]_vars => Inv'
<1> SUFFICES ASSUME Inv, [Next]_vars PROVE Inv'
  OBVIOUS
<1>1. Types'
  BY ClockStep, ContentStep, BoxStep DEF Types, ClockTypes, Content, CellTypes, BoxTypes
<1> QED
  BY <1>1, ClockStep, ContentStep, ExchangeStep DEF Inv, Content, Exchange

\* The invariant holds of every behaviour, for any ranks and neighbours, any
\* number of stages and cycles, cooldown time and time steps.
THEOREM Inductive == Spec => []Inv
BY InitInv, StepInv, PTL DEF Spec

\* Every variable keeps its type.
THEOREM TypeCorrect == Spec => []TypeOK
<1>1. Inv => TypeOK
  <2> SUFFICES ASSUME Inv PROVE TypeOK
    OBVIOUS
  <2>1. \A r \in Rank : \A n \in Near(r) :
          /\ sendbuf[r][n] \in StripSet \union {Nil} /\ recvbuf[r][n] \in StripSet \union {Nil}
          /\ ghost[r][n] \in StripSet /\ posted[r][n] \in BOOLEAN
          /\ net[r][n] \in Seq(StripSet \union {Nil})
    BY DEF Inv, Types, Table
  <2>2. \A x \in StripSet \union {Nil} : Strip(x)
    BY DEF StripSet, Strip
  <2>3. \A x \in StripSet : x # Nil
    BY NilAssumption DEF StripSet
  <2> HIDE DEF StripSet
  <2>4. \A r \in Rank : \A n \in Near(r) :
          /\ Strip(sendbuf[r][n]) /\ Strip(recvbuf[r][n])
          /\ Strip(ghost[r][n]) /\ ghost[r][n] # Nil
          /\ posted[r][n] \in BOOLEAN
    BY <2>1, <2>2, <2>3
  <2>5. \A s \in Seq(StripSet \union {Nil}) : \A i \in DOMAIN s : s[i] \in StripSet \union {Nil}
    OBVIOUS
  <2>6. \A r \in Rank : \A n \in Near(r) : \A i \in DOMAIN net[r][n] : Strip(net[r][n][i])
    BY <2>1, <2>2, <2>5
  <2>7. \A r \in Rank : age[r] \in Nat \union {Nil}
    BY DEF Inv, Types
  <2> QED
    BY <2>4, <2>6, <2>7 DEF Inv, Types, TypeOK
<1> QED
  BY <1>1, Inductive, PTL

\* When a block converts to primitive variables its cells and all its ghost
\* cells are complete states of its stage (SETB_HYD, SETB_HYD2 and CONS2PRIM of
\* implicit_hydro_tasks.cpp), however the tasks of the blocks interleave.
THEOREM GhostsAlwaysFresh == Spec => []GhostsFresh
<1>1. Inv => GhostsFresh
  <2> SUFFICES ASSUME Inv, NEW r \in Rank, "CONS2PRIM" \in finished[r]
               PROVE  /\ u[r] = Complete(stage[r])
                      /\ \A n \in Near(r) : /\ ghost[r][n].of = Complete(stage[r])
                                            /\ ghost[r][n].along \subseteq {Complete(stage[r])}
    BY DEF GhostsFresh
  <2>1. Complete(stage[r]) = Whole(cycle, began, stage[r])
    BY DEF Complete, Whole
  <2>2. {"SETB_HYD", "SETB_HYD2", "UPDATE_ALLCONS"} \subseteq finished[r]
    BY DEF Inv, Ordered, Order
  <2>3. u[r] = Whole(cycle, began, stage[r])
    BY <2>2 DEF Inv, Cells, UOf
  <2> QED
    BY <2>1, <2>2, <2>3 DEF Inv, Ghosts, GhostOf
<1> QED
  BY <1>1, Inductive, PTL

\* How far a block is ahead of what it has received.
LEMMA Ahead ==
  ASSUME Inv, NEW r \in Rank, NEW n \in Near(r)
  PROVE  /\ SentIn(stage[r], finished[r]) <= TakenIn(stage[r], finished[r], posted[r][n]) + 1
         /\ SentIn(stage[r], finished[r]) \in Int
         /\ TakenIn(stage[r], finished[r], posted[r][n]) \in Int
<1>1. stage[r] \in Int /\ Order(finished[r])
  BY StageAssumption DEF Inv, Types, Ordered
<1>2. posted[r][n] \in BOOLEAN
  BY DEF Inv, Types, Table
<1>3. "SEND_HYD2" \in finished[r] => "RESTART_RECV" \in finished[r]
  BY <1>1 DEF Order
<1> QED
  BY <1>1, <1>2, <1>3 DEF SentIn, TakenIn

\* At most two messages are under way between two blocks (both rounds use the
\* same tag and request), however far MPI lets a block run ahead.
THEOREM AtMostTwoOutstanding == Spec => []TwoOutstanding
<1>1. Inv => TwoOutstanding
  <2> SUFFICES ASSUME Inv, NEW r \in Rank, NEW n \in Near(r)
               PROVE  Len(net[r][n]) <= 2
    BY DEF TwoOutstanding
  <2>1. n \in Rank /\ r \in Near(n)
    BY NearFacts
  <2>2. Len(net[n][r]) \in Nat
    <3>1. net[n][r] \in Seq(StripSet \union {Nil})
      BY <2>1 DEF Inv, Types, Table
    <3> QED
      BY <3>1
  <2>3. /\ Len(net[r][n]) = SentIn(stage[r], finished[r]) - TakenIn(stage[n], finished[n], posted[n][r])
        /\ Len(net[n][r]) = SentIn(stage[n], finished[n]) - TakenIn(stage[r], finished[r], posted[r][n])
    BY <2>1 DEF Inv, Counted
  <2> QED
    <3>1. /\ SentIn(stage[r], finished[r]) <= TakenIn(stage[r], finished[r], posted[r][n]) + 1
          /\ SentIn(stage[n], finished[n]) <= TakenIn(stage[n], finished[n], posted[n][r]) + 1
          /\ {SentIn(stage[r], finished[r]), SentIn(stage[n], finished[n]),
              TakenIn(stage[r], finished[r], posted[r][n]),
              TakenIn(stage[n], finished[n], posted[n][r])} \subseteq Int
      BY <2>1, Ahead
    <3>2. SentIn(stage[n], finished[n]) >= TakenIn(stage[r], finished[r], posted[r][n])
      BY <2>2, <2>3, <3>1
    <3> QED
      BY <2>3, <3>1, <3>2
<1> QED
  BY <1>1, Inductive, PTL

\* The radiative fluxes that are added are missing in the first cycle of a
\* process only, and never older than the cooldown time and two time steps.
THEOREM RadiationAlwaysRecent == Spec => []RadiationRecent
<1>1. Inv => RadiationRecent
  <2> SUFFICES ASSUME Inv, NEW r \in Rank
               PROVE  /\ age[r] = Nil => cycle = began
                      /\ age[r] # Nil => age[r] < Cooldown + 2 * Max(Dts)
    BY DEF RadiationRecent
  <2>1. /\ Cooldown \in Nat /\ dt \in Nat /\ dt <= Max(Dts) /\ Max(Dts) \in Nat
        /\ counter[r] \in Int /\ age[r] \in Nat \union {Nil}
    <3>1. dt \in Dts /\ counter[r] \in Int /\ age[r] \in Nat \union {Nil}
      BY DEF Inv, Types
    <3> QED
      BY <3>1, MaxFacts, StageAssumption
  <2>2. RadOf(finished[r], stage[r], age[r], counter[r], cycle, began, dt)
    BY DEF Inv, Radiation
  <2>3. age[r] = Nil => cycle = began
    BY <2>1, <2>2, NilAssumption DEF RadOf
  <2>4. ASSUME age[r] # Nil PROVE age[r] < Cooldown + 2 * Max(Dts)
    <3>1. age[r] \in Nat
      BY <2>1, <2>4
    <3>2. \/ age[r] + counter[r] <= Cooldown + Max(Dts) - dt /\ counter[r] > - dt
          \/ age[r] + counter[r] <= Cooldown + Max(Dts) /\ counter[r] > - Max(Dts)
      BY <2>2, <2>4 DEF RadOf
    <3> QED
      BY <2>1, <3>1, <3>2
  <2> QED
    BY <2>3, <2>4
<1> QED
  BY <1>1, Inductive, PTL

-----------------------------------------------------------------------------
(* The task lists never deadlock, whatever MPI buffers.                      *)

\* Rank r can run a task or go on to its next stage, without MPI copying any
\* message.
Goes(r) ==
  \/ \E i \in 1 .. ntasks :
       /\ Ready(r, i) /\ \A j \in 1 .. i - 1 : ~ Ready(r, j)
       /\ task_list[i].id \in {"CLEAR_ALLBND2", "CLEAR_ALLBND"} => ~ Sending(r)
  \/ StageOver(r) /\ ~ last(r)

\* A message has come for which r has a request posted.
Arrives(r) == \E q \in Near(r) : posted[r][q] /\ net[q][r] # <<>>

\* Until the cycle is over the ranks never all wait for one another.
NeverAllBlocked == CycleOver \/ \E r \in Rank : Goes(r) \/ Arrives(r)

\* The naturals are well founded.
LEMMA Smallest ==
  ASSUME NEW S \in SUBSET Nat, S # {}
  PROVE  \E n \in S : \A m \in S : n <= m
<1> DEFINE R == OpToRel(<, Nat)
<1>1. IsWellFoundedOn(R, Nat)
  BY NatLessThanWellFounded
<1> HIDE DEF R
<1>2. PICK n \in S : \A m \in S : ~ (<<m, n>> \in R)
  BY <1>1, WFMin
<1>3. ASSUME NEW m \in S
      PROVE  n <= m
  <2>1. ~ (m < n)
    BY <1>2 DEF R, OpToRel
  <2> QED
    BY <2>1
<1> QED
  BY <1>3

\* A rank whose program cannot go on has sent what it sends before it receives,
\* in either round, and waits for messages, or for its sends, or is at the end.
LEMMA Blocked ==
  ASSUME Inv, NEW r \in Rank, ~ Goes(r)
  PROVE  /\ "SEND_HYD" \in finished[r]
         /\ "SEND_HYD2" \in finished[r] <=> "RESTART_RECV" \in finished[r]
         /\ \/ \E n \in Near(r) : posted[r][n]
            \/ Sending(r)
            \/ StageOver(r) /\ last(r)
<1> DEFINE F == finished[r]
<1>1. Order(F)
  BY DEF Inv, Ordered
<1>2. CASE \E i \in 1 .. 16 : Ready(r, i)
  <2> DEFINE S == { i \in 1 .. 16 : Ready(r, i) }
  <2>1. PICK i \in S : \A j \in S : i <= j
    <3>1. S \in SUBSET Nat /\ S # {}
      BY <1>2
    <3> HIDE DEF S
    <3> QED
      BY <3>1, Smallest
  <2>2. i \in 1 .. 16 /\ Ready(r, i) /\ \A j \in 1 .. i - 1 : ~ Ready(r, j)
    BY <2>1
  <2>3. task_list[i].id \in {"CLEAR_ALLBND2", "CLEAR_ALLBND"} /\ Sending(r)
    BY <2>2, ListFacts DEF Goes
  <2>4. Id[i] \in {"CLEAR_ALLBND2", "CLEAR_ALLBND"} /\ Id[i] \notin F /\ task_list[i].dep \subseteq F
    BY <2>2, <2>3, IdFacts DEF Ready
  <2>5. i = 7 \/ i = 13
    BY <2>2, <2>4 DEF Id
  <2>6. CASE i = 7
    <3>1. "SETB_HYD" \in F /\ "CLEAR_ALLBND2" \notin F
      BY <2>4, <2>6, ListFacts DEF Task, Id
    <3> QED
      BY <1>1, <2>3, <3>1 DEF Order
  <2>7. CASE i = 13
    <3>1. "CONS2PRIM" \in F
      BY <2>4, <2>7, ListFacts DEF Task, Id
    <3> QED
      BY <1>1, <2>3, <3>1 DEF Order
  <2> QED
    BY <2>5, <2>6, <2>7
<1>3. CASE \A i \in 1 .. 16 : ~ Ready(r, i)
  <2>1. \A i \in 1 .. 16 : task_list[i].dep \subseteq F => Id[i] \in F \/ Fails(r, Id[i])
    BY <1>3, IdFacts DEF Ready
  <2>2. \A i \in 1 .. 16 : i \notin {5, 10} => ~ Fails(r, Id[i])
    BY DEF Fails, Id
  <2>3. /\ "CALC_HYDFLX" \in F
        /\ "CALC_HYDFLX" \in F => "ADD_FLX_CONS" \in F
        /\ "ADD_FLX_CONS" \in F => "INT_HYD" \in F
        /\ "INT_HYD" \in F => "SRC_TERM" \in F
        /\ "SRC_TERM" \in F => "IMPLICIT_CORR" \in F
        /\ "IMPLICIT_CORR" \in F => "UPDATE_ALLCONS" \in F
        /\ "UPDATE_ALLCONS" \in F => "SEND_HYD" \in F
    BY <2>1, <2>2, ListFacts DEF Task, Id
  <2>4. "RECV_HYD" \notin F => \E n \in Near(r) : posted[r][n]
    BY <2>1, ListFacts DEF Task, Id, Fails
  <2>5. /\ "RECV_HYD" \in F /\ "UPDATE_ALLCONS" \in F => "SETB_HYD" \in F
        /\ "SETB_HYD" \in F => "CLEAR_ALLBND2" \in F
        /\ "CLEAR_ALLBND2" \in F => "RESTART_RECV" \in F /\ "SEND_HYD2" \in F
    BY <2>1, <2>2, ListFacts DEF Task, Id
  <2>6. "RESTART_RECV" \in F /\ "RECV_HYD2" \notin F => \E n \in Near(r) : posted[r][n]
    BY <2>1, ListFacts DEF Task, Id, Fails
  <2>7. /\ "RECV_HYD2" \in F => "SETB_HYD2" \in F
        /\ "SETB_HYD2" \in F => "CONS2PRIM" \in F
        /\ "CONS2PRIM" \in F => "CLEAR_ALLBND" \in F
    BY <2>1, <2>2, ListFacts DEF Task, Id
  <2>8. CASE \E n \in Near(r) : posted[r][n]
    <3> HIDE DEF F
    <3>1. "SEND_HYD" \in F /\ ("SEND_HYD2" \in F <=> "RESTART_RECV" \in F)
      BY <1>1, <2>3, <2>5 DEF Order
    <3> QED
      BY <2>8, <3>1 DEF F
  <2>9. CASE ~ \E n \in Near(r) : posted[r][n]
    <3>1. \A i \in 1 .. 16 : Id[i] \in F
      <4> HIDE DEF F
      <4> QED
        BY <2>3, <2>4, <2>5, <2>6, <2>7, <2>9 DEF Id
    <3>2. F = AllTasks
      BY <1>1, <3>1, IdFacts DEF Order
    <3>3. StageOver(r) /\ last(r)
      BY <3>2 DEF StageOver, Goes
    <3> QED
      BY <2>3, <2>5, <3>2, <3>3, <2>4, <2>9
  <2> QED
    BY <2>8, <2>9
<1> QED
  BY <1>2, <1>3

LEMMA SomeFree ==
  ASSUME Inv
  PROVE  NeverAllBlocked
<1> DEFINE Sent(q) == SentIn(stage[q], finished[q])
<1> SUFFICES ASSUME ~ CycleOver, \A r \in Rank : ~ Goes(r) /\ ~ Arrives(r)
             PROVE  FALSE
  BY DEF NeverAllBlocked
<1>0. nstages \in Nat /\ \A r \in Rank : stage[r] \in 1 .. nstages /\ Sent(r) \in Nat /\ Sent(r) <= 2 * nstages
  BY StageAssumption DEF Inv, Types, SentIn
\* The two rounds of a block are in step: it has taken from a neighbour all
\* rounds that it has sent, but for one if it waits for that neighbour.
<1>1. ASSUME NEW r \in Rank, NEW n \in Near(r)
      PROVE  TakenIn(stage[r], finished[r], posted[r][n]) = Sent(r) - (IF posted[r][n] THEN 1 ELSE 0)
  BY <1>0, Blocked DEF SentIn, TakenIn
<1>2. ASSUME NEW r \in Rank, NEW n \in Near(r)
      PROVE  /\ n \in Rank /\ r \in Near(n)
             /\ Len(net[n][r]) = Sent(n) - (Sent(r) - (IF posted[r][n] THEN 1 ELSE 0))
             /\ net[n][r] \in Seq(StripSet \union {Nil})
             /\ posted[r][n] \in BOOLEAN
  <2>1. n \in Rank /\ r \in Near(n)
    BY <1>2, NearFacts
  <2>2. Len(net[n][r]) = Sent(n) - TakenIn(stage[r], finished[r], posted[r][n])
    BY <2>1, <1>2 DEF Inv, Counted
  <2>3. net[n][r] \in Seq(StripSet \union {Nil}) /\ posted[r][n] \in BOOLEAN
    BY <1>2, <2>1 DEF Inv, Types, Table
  <2> HIDE DEF Sent
  <2> QED
    BY <1>1, <1>2, <2>1, <2>2, <2>3
\* The blocks that have sent the fewest messages in this cycle.
<1>3. PICK m \in Rank : \A r \in Rank : Sent(m) <= Sent(r)
  <2> DEFINE S == { Sent(r) : r \in Rank }
  <2> HIDE DEF Sent
  <2>1. S \in SUBSET Nat /\ S # {}
    <3>1. Rank # {}
      BY DEF CycleOver
    <3> QED
      BY <1>0, <3>1
  <2>2. PICK k \in S : \A l \in S : k <= l
    <3> HIDE DEF S
    <3> QED
      BY <2>1, Smallest
  <2> QED
    BY <2>2
<1> DEFINE k == Sent(m)
<1> HIDE DEF Sent
\* They wait for no message, because all others have sent as many ...
<1>4. ASSUME NEW r \in Rank, Sent(r) = k, NEW n \in Near(r)
      PROVE  ~ posted[r][n]
  <2> SUFFICES ASSUME posted[r][n]
               PROVE  FALSE
    OBVIOUS
  <2>1. n \in Rank /\ Len(net[n][r]) = Sent(n) - (k - 1) /\ net[n][r] \in Seq(StripSet \union {Nil})
    BY <1>2, <1>4
  <2>2. Len(net[n][r]) > 0
    BY <1>0, <1>3, <2>1
  <2>3. net[n][r] # <<>>
    BY <2>2
  <2> QED
    BY <2>3 DEF Arrives
\* ... nor for their sends, because all others have taken them.
<1>5. ASSUME NEW r \in Rank, Sent(r) = k
      PROVE  ~ Sending(r)
  <2> SUFFICES ASSUME NEW n \in Near(r), Contains(net[r][n], Nil)
               PROVE  FALSE
    BY DEF Sending
  <2>1. n \in Rank /\ r \in Near(n)
    BY <1>2
  <2>2. /\ Len(net[r][n]) = k - (Sent(n) - (IF posted[n][r] THEN 1 ELSE 0))
        /\ net[r][n] \in Seq(StripSet \union {Nil})
    BY <1>2, <1>5, <2>1
  <2>3. posted[n][r] => Sent(n) # k
    BY <1>4, <2>1
  <2>4. Sent(n) \in Nat /\ k \in Nat /\ k <= Sent(n)
    BY <1>0, <1>3, <2>1
  <2>5. Len(net[r][n]) <= 0
    BY <2>2, <2>3, <2>4
  <2>6. net[r][n] = <<>>
    BY <2>2, <2>5
  <2> QED
    BY <2>6 DEF Contains
\* So they are at the end of the last stage, and all others with them.
<1>6. ASSUME NEW r \in Rank, Sent(r) = k
      PROVE  StageOver(r) /\ last(r)
  BY <1>4, <1>5, <1>6, Blocked
<1>7. k = 2 * nstages
  <2>1. StageOver(m) /\ last(m)
    BY <1>6
  <2>2. "SEND_HYD2" \in finished[m] /\ stage[m] = nstages
    BY <2>1, IdFacts DEF StageOver, last, Id
  <2> QED
    BY <1>0, <2>2 DEF k, Sent, SentIn
<1>8. \A r \in Rank : Sent(r) = k
  BY <1>0, <1>3, <1>7
<1> QED
  BY <1>6, <1>8 DEF CycleOver

\* All ranks get to the end of the cycle without MPI having to copy a message,
\* for any neighbour relation and any number of stages.
THEOREM NoDeadlock == Spec => []NeverAllBlocked
BY SomeFree, Inductive, PTL

=============================================================================
