---------------------------- MODULE Diagnostics ----------------------------
(***************************************************************************)
(* The diagnostics of src/src/diagnostics in a run with several ranks: what  *)
(* Progress adds up in the last stage of every cycle, what Finalize makes of *)
(* it whenever an output of variable "diag" is due, alone (mean) or with the *)
(* ranks of the same plane (the others), and what the outputs then hold.    *)
(*                                                                         *)
(* The cells of rank r after cycle t are abstracted to <<r, t>>, a sum over  *)
(* cells and cycles to the set of its summands.  One MeshBlock per rank; the  *)
(* plane of a rank is what PlanarExchanger groups (module Exchanger).       *)
(***************************************************************************)
EXTENDS Integers, Sequences, FiniteSets

CONSTANTS
  Rank,
  Plane,     \* Plane[r]: the ranks whose blocks share r's plane across x1
  Diags,     \* the diagnostics of the input file, in order
  Due,       \* Due[o]: the cycles after which output o is due
  Cycles,    \* cycles until tlim
  Starts,    \* the cycles the program may start from: 0, or a restart file's
  Nil        \* nothing written yet

Kind == {"mean", "radflux", "hydroflux", "anomaly", "w_avg"}

ASSUME DiagnosticsAssumption ==
  /\ Diags \in Seq(Kind) /\ Diags # << >>
  /\ Cycles \in Nat \ {0} /\ Starts \subseteq 0 .. (Cycles - 1)
  /\ Due \in Seq(SUBSET Nat)
  /\ Plane \in [Rank -> SUBSET Rank]
  /\ \A r \in Rank : r \in Plane[r] /\ \A q \in Plane[r] : Plane[q] = Plane[r]

\* A block's data, and what an output holds: a value, the cycles of this Finalize
\* and of the one before, and the value that was there before.
Value   == [sum : SUBSET (Rank \X (0 .. Cycles)), n : 1 .. Cycles, vol : SUBSET Rank]
Written == [value : Value, at : 0 .. Cycles, since : 0 .. Cycles, before : Value]

ASSUME NilAssumption == Nil \notin Written

\* The diagnostics with a Progress, and those that average over the plane.
Accumulates(d) == Diags[d] \in {"mean", "radflux", "hydroflux"}
Planar(d) == Diags[d] # "mean"

Diag == 1 .. Len(Diags)

VARIABLES
  cycle,     \* cycle[r]: pmesh->ncycle
  pc,        \* pc[r]: where r is; the names of collective calls r is blocked in
  todo,      \* todo[r]: the <<output, diagnostic>> that MakeOutputs has left
  data,      \* data[r][d]: summands, number they are divided by, and blocks
             \* whose volume they are divided by
  ncycle,    \* ncycle[r][d]: ncycle_
  calls,     \* calls[r]: number of collective calls of r on all ranks
  reduces,   \* reduces[r]: the number of ReduceAll calls of r
  sent,      \* sent[r]: the send buffers of the last of them
  last,      \* last[r][d]: the cycle of the last Finalize (history)
  written    \* written[r][d]: what the last output holds

local == <<cycle, todo, data, ncycle>>
mpi   == <<calls, reduces, sent>>
files == <<last, written>>
vars  == <<pc, local, mpi, files>>

Pc == {"stage", "newdt", "output", "x2", "x3", "pack", "reduce", "divide", "done"}

Zero == [sum |-> {}, n |-> 1, vol |-> {}]

\* MakeOutputs goes through the outputs and each through all_diags.
AllPairs ==
  [i \in 1 .. Len(Due) * Len(Diags) |->
     <<((i - 1) \div Len(Diags)) + 1, ((i - 1) % Len(Diags)) + 1>>]

\* After cycle t: those that are due, and all of them when the run is over or
\* has not begun.
OutputsAfter(t) ==
  LET IsDue(p) == t \in {0, Cycles} \/ t \in Due[p[1]]
      Upto[i \in 0 .. Len(AllPairs)] ==
        IF i = 0 THEN << >>
        ELSE IF IsDue(AllPairs[i]) THEN Append(Upto[i - 1], AllPairs[i]) ELSE Upto[i - 1]
  IN Upto[Len(AllPairs)]

\* A new run writes its initial conditions, a restarted one does not.
Init ==
  \E t \in Starts :
    /\ cycle = [r \in Rank |-> t]
    /\ pc = [r \in Rank |-> IF t = 0 THEN "output" ELSE "stage"]
    /\ todo = [r \in Rank |-> IF t = 0 THEN OutputsAfter(0) ELSE << >>]
    /\ data = [r \in Rank |-> [d \in Diag |-> Zero]]
    /\ ncycle = [r \in Rank |-> [d \in Diag |-> 0]]
    /\ calls = [r \in Rank |-> 0]
    /\ reduces = [r \in Rank |-> 0]
    /\ sent = [r \in Rank |-> Zero]
    /\ last = [r \in Rank |-> [d \in Diag |-> t]]
    /\ written = [r \in Rank |-> [d \in Diag |-> Nil]]

-----------------------------------------------------------------------------
\* Mutant of Cleared: data is not filled with zeros when a new sum begins.
ClearedNot(r, d) == data[r][d].sum

\* What Progress adds to.
Cleared(r, d) == IF ncycle[r][d] = 0 THEN {} ELSE data[r][d].sum

\* r makes a collective call on all ranks, and later returns from it: the
\* k-th calls of all ranks are one operation, whatever they were meant for.
Call(r, name) ==
  /\ calls' = [calls EXCEPT ![r] = @ + 1]
  /\ pc' = [pc EXCEPT ![r] = name]
  /\ UNCHANGED <<reduces, sent>>

Returns(r) == \A q \in Rank : calls[q] >= calls[r]

\* UserWork in the last stage: the Progress of all diagnostics.  The rank then
\* enters NewTimeStep, where all ranks agree on the time step.
Progress(r) ==
  /\ pc[r] = "stage"
  /\ data' = [data EXCEPT ![r] = [d \in Diag |->
       IF Accumulates(d)
       THEN [Zero EXCEPT !.sum = Cleared(r, d) \cup {<<r, cycle[r] + 1>>}]
       ELSE data[r][d]]]
  /\ ncycle' = [ncycle EXCEPT ![r] = [d \in Diag |->
       IF Accumulates(d) THEN ncycle[r][d] + 1 ELSE 0]]
  /\ Call(r, "newdt")
  /\ UNCHANGED <<cycle, todo, files>>

\* NewTimeStep returns; MakeOutputs follows.
NewTimeStep(r) ==
  /\ pc[r] = "newdt" /\ Returns(r)
  /\ cycle' = [cycle EXCEPT ![r] = @ + 1]
  /\ todo' = [todo EXCEPT ![r] = OutputsAfter(cycle[r] + 1)]
  /\ pc' = [pc EXCEPT ![r] = "output"]
  /\ UNCHANGED <<data, ncycle, mpi, files>>

\* MakeOutputs has nothing left to write.
OutputsDone(r) ==
  /\ pc[r] = "output" /\ todo[r] = << >>
  /\ pc' = [pc EXCEPT ![r] = IF cycle[r] = Cycles THEN "done" ELSE "stage"]
  /\ UNCHANGED <<local, mpi, files>>

\* The diagnostic that is being finalized.
Current(r) == Head(todo[r])[2]

\* Finalize returns with value v and the output takes a slice of data.
Write(r, v) ==
  LET d == Current(r) IN
  /\ data' = [data EXCEPT ![r][d] = v]
  /\ ncycle' = [ncycle EXCEPT ![r][d] = 0]
  /\ written' = [written EXCEPT ![r][d] =
       [value |-> v, at |-> cycle[r], since |-> last[r][d],
        before |-> IF @ = Nil THEN Zero ELSE @.value]]
  /\ last' = [last EXCEPT ![r][d] = cycle[r]]
  /\ todo' = [todo EXCEPT ![r] = Tail(@)]
  /\ pc' = [pc EXCEPT ![r] = "output"]
  /\ UNCHANGED <<cycle, mpi>>

\* Mutant of Running: the sum is divided although nothing was added.
RunningAlways(r) == TRUE

\* Mutant of Running: only the rank that writes the file averages.
RunningRoot(r) ==
  r = (CHOOSE q \in Rank : TRUE) /\ ncycle[r][Current(r)] > 0

\* Something was added since the last Finalize.
Running(r) == ncycle[r][Current(r)] > 0

\* HydroMean::Finalize: the mean over the cycles, or the present cells.
FinalizeMean(r) ==
  /\ pc[r] = "output" /\ todo[r] # << >> /\ ~ Planar(Current(r))
  /\ Write(r, IF Running(r) THEN [data[r][Current(r)] EXCEPT !.n = ncycle[r][Current(r)]]
              ELSE [Zero EXCEPT !.sum = {<<r, cycle[r]>>}])

\* HydroFlux, RadiativeFlux::Finalize without a cycle since the last one: data
\* is left as it was.
FinalizeAgain(r) ==
  /\ pc[r] = "output" /\ todo[r] # << >>
  /\ Planar(Current(r)) /\ Accumulates(Current(r)) /\ ~ Running(r)
  /\ Write(r, data[r][Current(r)])

\* The others enter Regroup: Anomaly and V1Moments sum up the present cells first.
FinalizePlanar(r) ==
  /\ pc[r] = "output" /\ todo[r] # << >> /\ Planar(Current(r))
  /\ Accumulates(Current(r)) => Running(r)
  /\ data' = [data EXCEPT ![r][Current(r)] =
       [sum |-> IF Accumulates(Current(r)) THEN @.sum ELSE {<<r, cycle[r]>>},
        n |-> 1, vol |-> {r}]]
  /\ Call(r, "x2")
  /\ UNCHANGED <<cycle, todo, ncycle, files>>

\* Regroup(pmb, X1DIR): setColor along X2DIR and then along X3DIR.
Regroup(r) ==
  /\ pc[r] = "x2" /\ Returns(r)
  /\ Call(r, "x3")
  /\ UNCHANGED <<local, files>>

Regrouped(r) ==
  /\ pc[r] = "x3" /\ Returns(r)
  /\ pc' = [pc EXCEPT ![r] = "pack"]
  /\ UNCHANGED <<local, mpi, files>>

\* packData, and the rank enters ReduceAll.
PackData(r) ==
  /\ pc[r] = "pack"
  /\ sent' = [sent EXCEPT ![r] = data[r][Current(r)]]
  /\ reduces' = [reduces EXCEPT ![r] = @ + 1]
  /\ pc' = [pc EXCEPT ![r] = "reduce"]
  /\ UNCHANGED <<local, calls, files>>

\* Mutant of Together: the sum is taken over the ranks that are there.
TogetherEarly(r) == { q \in Plane[r] : reduces[q] = reduces[r] }

\* The ranks that ReduceAll sums over.
Together(r) == Plane[r]

\* They have all entered it.
Arrived(r) == \A q \in Together(r) : reduces[q] >= reduces[r]

\* ReduceAll returns the sums over the plane; unpackData.
ReduceAll(r) ==
  /\ pc[r] = "reduce" /\ Arrived(r)
  /\ data' = [data EXCEPT ![r][Current(r)] =
       [sum |-> UNION { sent[q].sum : q \in Together(r) }, n |-> 1,
        vol |-> UNION { sent[q].vol : q \in Together(r) }]]
  /\ pc' = [pc EXCEPT ![r] = "divide"]
  /\ UNCHANGED <<cycle, todo, ncycle, mpi, files>>

\* The division by ncycle_ and the total volume, or by the volume alone.
Divide(r) ==
  /\ pc[r] = "divide"
  /\ Write(r, [data[r][Current(r)] EXCEPT !.n = IF Accumulates(Current(r)) THEN ncycle[r][Current(r)] ELSE 1])

Step(r) ==
  \/ Progress(r) \/ NewTimeStep(r) \/ OutputsDone(r)
  \/ FinalizeMean(r) \/ FinalizeAgain(r) \/ FinalizePlanar(r)
  \/ Regroup(r) \/ Regrouped(r) \/ PackData(r) \/ ReduceAll(r) \/ Divide(r)

Finished == (\A r \in Rank : pc[r] = "done") /\ UNCHANGED vars

Next == (\E r \in Rank : Step(r)) \/ Finished

\* A rank that is not blocked keeps running.
Spec == Init /\ [][Next]_vars /\ WF_vars(\E r \in Rank : Step(r))

-----------------------------------------------------------------------------
\* Every variable keeps its type; in particular no average divides by zero
\* cycles.
TypeOK ==
  /\ cycle \in [Rank -> 0 .. Cycles]
  /\ pc \in [Rank -> Pc]
  /\ calls \in [Rank -> Nat] /\ reduces \in [Rank -> Nat] /\ sent \in [Rank -> Value]
  /\ \A r \in Rank : \A i \in DOMAIN todo[r] : todo[r][i] \in (1 .. Len(Due)) \X Diag
  /\ ncycle \in [Rank -> [Diag -> 0 .. Cycles]]
  /\ last \in [Rank -> [Diag -> 0 .. Cycles]]
  /\ \A r \in Rank : \A d \in Diag :
       /\ data[r][d] \in Value
       /\ written[r][d] \in Written \cup {Nil}

\* What an output holds is the average over the right cells: of the block or of
\* the whole plane, each once and of the same cycles on every rank, all cycles
\* since the last output of any kind (an output with a different interval takes
\* its share of them) or since a restart, divided by their number.  An output
\* for which no cycle is left holds the present cells, or the flux of the last
\* output again (hydro_mean.cpp, hydro_flux.cpp, radiative_flux.cpp, anomaly.cpp,
\* v1_moments.cpp).
AverageRight ==
  \A r \in Rank, d \in Diag :
    written[r][d] # Nil =>
      LET x == written[r][d]
          blocks == IF Planar(d) THEN Plane[r] ELSE {r}
          since == (x.since + 1) .. x.at
          Average(of) == [sum |-> blocks \X of, n |-> Cardinality(of),
                          vol |-> IF Planar(d) THEN blocks ELSE {}]
      IN x.value = IF Accumulates(d) /\ since # {} THEN Average(since)
                   ELSE IF Accumulates(d) /\ Planar(d) THEN x.before
                   ELSE Average({x.at})

\* The ranks that have not finished never all wait in calls that others have not
\* made: a rank that regroups or sums over its plane is never met by ranks that
\* agree on a time step (hydro_flux.cpp:68, exchanger.cpp:20-104).
NeverAllBlocked ==
  (\E r \in Rank : pc[r] # "done") =>
    \E r \in Rank :
      /\ pc[r] # "done"
      /\ pc[r] \in {"newdt", "x2", "x3"} => Returns(r)
      /\ pc[r] = "reduce" => Arrived(r)

\* All ranks enter the same collective calls, regrouping, reductions and the
\* time step, though they branch on counters of their own: the run ends
\* (hydro_flux.cpp:68, radiative_flux.cpp:60, exchanger.cpp:20-104).
Terminates == <>(\A r \in Rank : pc[r] = "done")
=============================================================================
