# Verification models of canoe

canoe (Comprehensive Atmosphere N' Ocean Engine) simulates planetary
atmospheres on top of Athena++. It is an MPI program: the mesh is cut into
MeshBlocks, every rank owns one of them (or a few), and in each stage of a time
step it runs a list of tasks on its blocks. The arithmetic of a block is
sequential; what is hard to get right, and hard to test on a laptop with one or
two ranks, is what happens *between* blocks: blocking receives against
non-blocking sends, buffers that are reused while MPI may still read them, tags
that may collide, ranks that are a stage ahead of each other, and tables of
orientations across the edges of a cubed sphere.

This directory has TLA+ models of those parts, configurations with which TLC
checks them on small instances, and proofs checked by TLAPS for instances of
any size. Athena++ itself is not part of the repository: where canoe relies on
it (neighbour lists, the ghost cell exchange, MPI), its behaviour is modelled
from the calls in `src/` and from the patches in `src/patches/`, and the
definitions are marked external in `PROJECT.json`.

In this document paths are relative to `src/`: `src/snap/...` is the directory
`src/src/snap/...` of the checkout.

## 1. The system

### Components

| component | state it keeps | operations | interacts with |
|---|---|---|---|
| main loop, setup (`main.cpp`, `src/mesh_setup.cpp`, `src/impl.cpp`) | time, cycle, dt; `MeshBlock::Impl`, which holds the parts below | cycle of stages, NewTimeStep, outputs, restart | runs the task list on every block; barrier of all ranks once a cycle |
| task list (`src/tasklist`, `src/patches/24.time_integrator.patch`) | finished tasks of a stage, `pimpl->du`, radiation counter (`src/virtual_groups.hpp`) | tasks of Athena++ and of `ImplicitHydroTasks`, two rounds of ghost cells | calls everything below; messages to neighbour blocks |
| implicit solver (`src/snap/implicit`) | `buffer_[k][j]`, coefficients, requests, neighbours along the sweep | ForwardSweep, BackwardSubstitution per column and direction | MPI along lines of blocks |
| cubed sphere (`src/exo3`) | L3DValues, R3DValues, LRDataBuffer, requests | TransformOX, PackData, SynchronizeFluxesSend/Recv/Wait | neighbour search and ghost cells of Athena++, middle of CalculateFluxes |
| decomposition (`src/snap/decomposition`) | `psf_`, buffers, requests | ChangeTo..., Restore... around the reconstruction | MPI along a column of blocks |
| exchangers (`src/exchanger`) | `color_`, `brank_`, communicator | Regroup, GatherAll, ReduceAll, Transfer | collectives; used by radiation, decomposition, diagnostics, particles |
| radiation (`src/harp`, `src/opacity`) | per band: temperatures, optical properties, send and receive buffers, fluxes | CalFlux: pack, gather, unpack, disort, keep own fluxes | collectives along a column, the radiation counter |
| air parcels (`src/air_parcel.cpp`) | `data_` of a parcel, `mytype_` | gather from a cell's arrays, convert between four sets of variables, distribute to the arrays | thermodynamics, microphysics and opacities work on parcels |
| thermodynamics; equation of state, Riemann solvers, reconstruction | none beyond the cell | saturation adjustment, pressure and temperature, fluxes | called from tasks |
| microphysics, tracers, turbulence, surface, chemistry, forcing | per-cell fields | per-cell sources | called from tasks |
| diagnostics (`src/diagnostics`) | `data`, `ncycle_` of each diagnostic | Progress in the last stage of a cycle, Finalize when an output is due | planar exchanger; called by the task list and by every output |
| outputs | files | MakeOutputs | diagnostics |
| n-body particles (not built) | particle lists, mail boxes | exchange with 26 neighbours | exchangers |
| block scheduler (created, never run), inversion, maths, Python, torch, astronomy, scripts | - | - | - |

### What is hard, and what makes each part correct

* **Implicit solver.** A rank receives from below, eliminates, sends up,
  receives from above, substitutes, sends down, through one buffer per column,
  and waits for both sends only at the end. Tags are hashes modulo the largest
  tag. Correct: every column gets the undistributed solution; no buffer is
  rewritten while it is being sent; no deadlock; ranks do not flood each other.
* **Cubed sphere.** Six panels with twelve edges, half of which are inverted.
  Tables of neighbours, of turned buffers, of projections exist in three files.
  Correct: being a neighbour is mutual, a cell lands at the same point of the
  sphere with velocities in the right basis, and both sides of an edge solve the
  same Riemann problem of the same stage.
* **Decomposition.** The hydrostatic pressure is integrated from the top of a
  column down through its blocks. Correct: it is in balance, of this stage,
  the same on both sides of an interface; no circular waiting.
* **Exchangers.** Groups of ranks by one or two colouring passes over arrays
  that the previous grouping left behind. Correct: the groups are exactly the
  lines or planes, and lines are ordered from below.
* **Radiation.** Blocks reach the gathers of a column at different times, and
  unpack in disort's order, from the top down. Correct: each block solves the
  column that is there, and interfaces carry one flux.
* **Task list.** A list patched in three places, with two exchanges through the
  same persistent requests; fluxes that are older than the stage; a counter that
  a restart loses. Correct: no ghost cell is incomplete or of another stage, the
  radiative fluxes are never too old, and all blocks finish.
* **Air parcels.** Eight conversions between mass and mole fractions, mass and
  mole concentrations, and four ways in and out of the arrays, each an algebra of
  its own with vapours and clouds treated differently. Correct: a parcel is the
  same air whatever is done to it, in any order, also for tracers and chemistry.
* **Diagnostics.** Sums over cycles that several outputs of different intervals
  share, that a restart loses, and that some kinds reduce over a plane of ranks.
  Correct: what is written is the mean over the right blocks and cycles, and all
  ranks enter the same collective calls.

All hazards found in the code are listed with their lines in `PROJECT.json`
("hazards"), with the properties that cover them, or the reason why none does.

## 2. Modules

```
ImplicitProgram --> MCImplicitSweep,       CubedSphere --> FluxSync --> MCFluxSync
                    ImplicitSweep_proof         |   \--> PanelEdge --\   |
LineSolve <-(refines)- ImplicitSweep            |                    v   v
                       |                        \--> CubedSphere_proof --> PanelExchange_proof
                       \--> MCImplicitSweep,    EdgeStages <-(refines)- FluxSync
                            ImplicitSweep_proof
Exchanger --> MCExchanger, Exchanger_proof
Decomposition --> MCDecomposition, Decomposition_proof
RadiationColumn --> RadiationColumn_proof  (relies on StackedBottomUp of Exchanger)
Diagnostics --> MCDiagnostics, Diagnostics_proof  (relies on ColorsAreGroups of Exchanger)
StageTasks --> MCStageTasks, StageTasks_proof   (the stage in which all the others run)
AirParcel --> MCAirParcel      (the cells that the others pass around)
```

Messages are modelled alike everywhere. `MPI_Isend` appends a message to the
channel of the pair of ranks, and the message has no content of its own while
it is under way: it is read from the sender's buffer when it is received, or
when MPI copies it, an action of its own or part of a wait that returns early
(`Transfer`, `WaitBuffered`, `ClearBuffered`). A buffer that is rewritten too
early therefore shows. A blocking receive takes the oldest message with its tag.

### ImplicitSweep, LineSolve, ImplicitProgram

`ImplicitSweep` is `SolveImplicit3D` on all ranks. `Sched` is the sequence of
columns that a rank solves; `pc[r]` and `work[r]` say where it is. The actions
are the sections of code between two points at which another rank can interfere:
`BeginSweep` (SetDirection, FindNeighbors), `RecvLower` and `ForwardSweep`
(ForwardSweep), `RecvUpper` and `BackwardSubstitution` (BackwardSubstitution),
`WaitSends` (its `MPI_Wait`s). `nb[r]` keeps `bblock` and `tblock` of the last
sweep where FindNeighbors does not set them. The block operations are the
uninterpreted constants `Eliminate` and `Substitute`, so an increment is right
only if it is the very term that the undistributed recurrence builds (`RefCoef`,
`RefSol`: functions that recurse along the line, upwards and downwards). The hash in the
tag is a constant too.

`ImplicitProgram` has the loops of `SolveImplicit3D`: which directions are swept
under a flag, over which `(k, j)`. `LineSolve` is the abstract specification: a
column's increments appear from the top of the line down, with the undistributed
values, and only after the whole line has finished its earlier columns.

### CubedSphere, FluxSync, PanelEdge

`CubedSphere` translates the geometry: `FindBlockID`, `TransformOX` with its
hand-written cases, the tables `tgbid` and `dinv`, and the points of the sphere
as exact directions (the tangent of the mesh angle is increasing and odd, so that
integers stand for it). `FluxSync` is the exchange in the middle of
CalculateFluxes: `Send` (SaveLR3DValues and SynchronizeFluxesSend), `Recv` (one
blocking receive of SynchronizeFluxesRecv, in the order of the neighbour list),
`Wait`. A rank may own several blocks and runs them one after the other, as
Athena++'s task list does. `EdgeStages` is what the stages get from it: each block completes
one stage after the other, none before the blocks across its edges are done with the stage
before (`ImplementsEdgeStages`). `PanelEdge` is one message of the ghost cell exchange
from packing to unpacking, for every block, side and cell: `PackCell` has the loop
order of PackDataR0 to R3 and the point at which the velocities are projected;
`UnpackCell` has Athena++'s order.

### Decomposition

`psf[b]` is `psf_` on all faces of a block, ghost faces included. `Descend` is
the body of ChangeToTemperature or ChangeToPerturbation up to the sends:
extrapolation or `FromTop`, integration down the block, `Boundary`, packing for
the receivers. `RecvBottom` and `Wait` are the rest. `FindNeighbors` is the
`MPI_Allgather` that synchronises the ranks in the perturbation form only. In the
temperature form the block above may be stages ahead of the one that receives from it, as
MPI copies what it sends: `PressureOfStage` says that a block starts from the pressure of
its own stage all the same. It does because `Wait` (ClearBuffer,
`change_to_temperature.cpp:139`) keeps the buffer from being packed again; without it the
perturbation form still would, as its `MPI_Allgather` does not let a block pack before the
one below is in the same stage. The property allows the pressure of any face from the block's
top up, since the form in use takes it from a wrong one (`decomposition_top`). The two loops
of the integration are recursive functions (`IntegrateDownwards`,
`IntegrateUpwards`), and `AirAbove` is the pressure that they should arrive at. In the
instances the weight of each cell differs, as does each stage, so that sums identify
their terms and their stage.

### Exchanger

`Regroup` clears `color_` and starts one pass (linear) or two (planar) of
`setColor`; `GatherBottoms` is its `MPI_Allgather`, `ColorNext` one iteration of
its loop, `SplitComm` the `MPI_Comm_split`. The ranks all run this loop on equal
arrays, so one loop stands for all of them.

### RadiationColumn

A rank runs `Prepare` (temperatures and optical properties into the send
buffers), `GatherTemperature` (thermal bands), `SolveBand` (the gather of the
properties, unpacking, disort, own fluxes) for each update, column and band. A
layer is a record of whose it is and what it was computed for. A gather is
matched by the number of calls, as MPI does; a rank waits in it for all others.

### StageTasks

`task_list` is built as the code builds it: the tasks of Athena++ with the
patch, the tasks that `ImplicitHydroTasks` appends, then its changes of
dependencies. Each task is an action; of the ready tasks the first of the list
is run. `u[r]` records the cycle and stage of a block's cells and what was added
to them. `Packed` has the interpolation along a panel edge, which reads the ghost
cells from the blocks beside: the reason for the second round. `Restart` is a
run that ends between cycles and is continued from its restart file.

That the round of the conserved variables and the later one of the implicit
increments do not meet in the same requests is not a matter of dependencies
alone: `SEND_HYD` before `SETB_HYD`, and the receive of the first round before
the send of the second, hold because of the position of these tasks in the list
and because the first ready task is run.

### AirParcel

A cell of the arrays (`prim`, `cons`) and one parcel gathered from it. Numbers
are exact rationals, so that an equality is one and not a matter of rounding.
`Gather`, `ConvertTo`, `ToPrimitive` and `ToConserved` are the functions of
`air_parcel.cpp`, with their formulas; `AsPrimitive`, `AsConserved` and `Matter`
say what the variables mean, independently of these. One of the conversions,
from mass concentrations to mass fractions, multiplies the tracers by the dry
density where its inverse multiplies too (`inv_rhod` is `w[IDN]`,
`air_parcel.cpp:347`), against "primitive variable is the mass fraction of the dry gas"
and "conserved variable is the mass concentration" of `src/doc/README-variables.md:3`:
`TracerKept` does not catch this, it names it as the one step it leaves out, and shows that no
other conversion does so. Chemistry is
not converted at all, and `ChemistryKept` states what is left of it.

### Diagnostics

The cells of a block after a cycle are a name, a sum is the set of its summands
with what it was divided by. `Progress` is the last stage, `NewTimeStep` the
collective that ends the cycle, `OutputsDone` the return of MakeOutputs;
`FinalizeMean`, `FinalizeAgain` and `FinalizePlanar` are the ways into Finalize,
and `Regroup`, `Regrouped`, `PackData`, `ReduceAll`, `Divide` the steps of those
that average over a plane. Collective calls of all ranks are matched by number,
reductions by their number within the plane. All outputs of the variable share the
accumulators, and each takes the cycles since the last one of any kind: `AverageRight`
records this as the code's choice. What it rules out is a cycle that is counted twice or
lost between two outputs, a sum divided by the number of cycles of another, and a plane whose ranks
contribute different cycles.

## 3. Runs

| run | instance | distinct states | shows |
|---|---|---|---|
| `implicit_grid` | 3 x 2 ranks, X2DIR (periodic, 1 column) then X1DIR (2 columns), all tags equal | 54,942 | `Solved`, `BufferIntact`, `OneOutstanding`, refinement of `LineSolve`, `Terminates` |
| `flux_sync` | 6 panels, one block and rank each, 2 stages | 210,077 | `SameRiemannProblem`, `OneStageApart`, `NeverAllBlocked`, `ImplementsEdgeStages`, `Terminates` |
| `flux_sync_two_per_rank` | two blocks per rank | violation | finding, see below |
| `panel_edge` | panels of 2 x 2 blocks of 4 x 4 cells, all messages | 1,632 | `Reciprocal`, `GhostAligned`, `GhostProjected`, `FaceProjected` |
| `exchanger_groups` | 3 x 2 x 2 blocks in Z-order, x1 and x3 periodic | 386 | `ColorsAreGroups`, `StackedBottomUp` |
| `radiation_column` | 3 blocks, 2 columns, 2 bands, 2 updates | 253 | `DisortSeesColumn`, `InterfaceFlux` |
| `radiation_bins` | 2 blocks, 2 bins | violation | finding |
| `decomposition` | 4 blocks of 3 cells, both forms, 3 stages | 860 | `Balanced`, `PressureOfStage`, `Terminates` |
| `decomposition_top` | 2 blocks, the form in use | violation | finding |
| `stage_tasks` | 3 blocks, 3 cycles of 2 stages, dt 1 or 2 | 167,898 | `GhostsFresh`, `TwoOutstanding`, `RadiationRecent`, `Terminates` |
| `air_parcel` | one vapour, one cloud; 48 cells; 5 operations | 9,920 | `MatterKept`, `TracerKept`, `ChemistryKept` |
| `diagnostics` | 4 ranks in two planes, all five kinds, 5 cycles, 2 outputs, new run or restart | 45,852 | `AverageRight`, `NeverAllBlocked`, `Terminates` |

### Why the bounds are enough

* *Implicit solver.* Three ranks along x1 are the least with an inner one, which
  receives and sends both ways; two along x2 are the least in which lines cross, so that a
  rank may be in another sweep than its neighbour and has the
  same rank above and below on a periodic line. Two cells along x2 give two columns in the sweep along x1: a bottom rank
  can run ahead and a receive has two messages to choose from. With `TagUB = 1` every tag is
  equal, the worst that the hash may do. The proofs of section 5 remove these bounds.
* *Flux exchange.* All twelve edges occur with one block per panel, and ranks
  at an edge can be one stage apart, for which two stages are needed. Larger
  panels add only faces inside a panel, on which nothing is exchanged, and the
  index along an edge, which `panel_edge` has.
* *Panel edges.* 2 x 2 blocks have every kind of block (with and without an
  edge on a side, first and last along it); four cells and two ghost layers tell
  order, reflection and off-by-one apart. Every panel, block, side is an initial state.
* *Exchanger.* 3 is the least length with an inner block and not a power of two, so
  that the Z-order is not lexicographic; the two other directions make planes. All
  sequences of Regroup are explored, as the variables have finitely many values.
* *Decomposition.* Four blocks have two inner ones that are neighbours; three
  stages let a block meet the message of the next stage and its own old faces.
  With `N = NGHOST = 3` the ghost cells are all of a neighbouring block.
* *Radiation.* Three blocks have an inner one; two columns, bands and updates
  give three ways to take a wrong gather. A cell of optics per layer and bin is enough,
  because the exchange never looks at values.
* *Task list.* One block beside and one across is the least with an
  interpolation that needs the second round. Two stages and three cycles let the
  radiation be computed, reused and recomputed, with a restart in between; `Cooldown = 1`
  with steps of 1 and 2 makes the counter reach zero and pass it.
* *Air parcels.* One vapour and one cloud are the two ways a species enters a
  formula. The cells combine dry, moist, cloudy, resting and moving air, all
  with a tracer and a chemical species; five operations reach every ordered pair of types,
  from either array and back to both.
* *Diagnostics.* Two planes of two ranks tell a plane from a line and from all
  ranks. The outputs are due after cycles {2, 4} and {2, 3}: both at once, one after
  the other, one right after a cycle that the other has used up, and a last output at
  `Cycles`; starting at cycle 1 is a restart in the middle of an interval.

### Fairness

Liveness assumes that the program goes on as long as something in it can:
weak fairness of a step of *some* rank in `ImplicitSweep` (`FairSpec`), `FluxSync`
and `Diagnostics`, of a step of each block in `Decomposition`, and of `Progress`
in `StageTasks` (a cycle that is continued
or restarted alike). As all these systems run a bounded program,
fairness to some rank is enough for all to finish unless ranks wait in a circle, and
it is implied by fairness to each, which the operating system gives to
processes without locks or priorities between them. MPI is *not* assumed to copy a
message before it is received: a standard-mode send may be held back until
then, and code that needs buffering would deadlock in the models.
`AirParcel`, `Exchanger`, `PanelEdge` and `RadiationColumn` state no liveness and
assume no fairness. Deadlock is checked in every passing run but two: a behaviour
of `panel_edge` is a single message, and one of `air_parcel` a bounded number of
operations, and both end.

### Mutants

`PROJECT.json` names for each property of each passing run a mutation of the
model, a plausible slip in the code, under which TLC finds that property violated
(comments "Mutant of ..." in the modules). They are not part of the specifications.

## 4. Findings

Three runs are expected to be violated; each pins down a statement of the
repository that the code does not fulfil.

* `flux_sync_two_per_rank`. `src/exo3/cubed_sphere.cpp:560` says "Send by MPI: we
  don't care whether it is in the same process for now". With two blocks in one
  process the first block's blocking receive (`:668`) waits for the second's send,
  which comes after it: all ranks wait for ever. One block per process is the
  configuration that works.
* `radiation_bins`. `src/harp/radiation_band.hpp:151,156` describe packing of *all* spectral
  grids; the send buffer has room for one bin (`radiation_band.cpp:158`), and the bins of
  different blocks are read at the wrong distance (`radiation_band_exchanger.cpp:64`). With
  two blocks in a column and two bins disort is given layers of another bin. One bin
  per band works. With one block per column the distances are right, but what is packed
  still passes the end of the buffer.
* `decomposition_top`. In ChangeToTemperature, the form that CalculateFluxes
  calls, `packData` (`src/snap/decomposition/decomposition.cpp:174`) packs the face
  at the top of the *sending* block where the receiver needs the one at its bottom:
  a block gets the pressure at the top of the block above. Within a block the
  balance holds (`Balanced`), between two blocks it does not. The perturbation
  form, checked in `decomposition`, sends the right face.

## 5. Proofs

The modules `..._proof` hold for every value of the constants
that satisfies the named assumptions of the modules.

**ImplicitSweep** assumes: positive extents (`DimsAssumption`), any choice of
periodic directions, any program whose columns open a sweep when the direction changes
(`SchedAssumption`, `OpensAssumption`), tags that are natural numbers modulo `TagUB`,
*equal or not* (`TagAssumption`), and that a solution is told from none
(`SolutionAssumption`). TLC evaluates them on the instances, and `ProgramOpens` shows that
the loops of SolveImplicit3D, as `ImplicitProgram` has them, are such a program under every
flag, for blocks of any shape and any number of stages. The undistributed solution is not
assumed but computed: `CoefficientsFact` and `SolutionFact` prove, by induction along the
line, that `RefCoef` and `RefSol` obey the two recurrences.

None of the safety properties is inductive: that a receive takes the right message
rests on what ranks far along the line have done. `IInv` adds

1. `Causality`: a rank is past the forward pass of a column only when all ranks
   below it have sent theirs, and past the backward pass only when all above have;
2. `Neighbours`: between BeginSweep and the end of the sweep `nb[r]` is right;
3. `Values`: what a rank holds at each point of the column is the undistributed value;
4. `Channels`: a channel is empty or holds the one message that its receiver is
   still to take, with the content it must have, in the buffer or copied;
5. `Delivered`: what a receiver is still to take, and its sender has sent, is in the channel.

The heart of the argument: were a second message on a channel, its sender would have to be
past a pass for which, by (1), the receiver must have taken the first. Hence tags do not
matter, and a buffer is not written while its message is in it. There is one lemma per
action. From `IInv` follow `TypeCorrect`, `SolvedCorrect`, `BufferIntactCorrect`,
`OneOutstandingCorrect`, and `Refinement` (`Spec => ImplementsLineSolve`): the step
`BackwardSubstitution` publishes an increment as `LineSolve` allows, all other steps stutter.

`NoDeadlock`, the safety part of `Terminates`, follows too. Of the ranks that are least far on
the program, one that computes or sends is not blocked; the lowest that waits for coefficients
finds its message, as the rank below has sent it (5), and else the highest that waits for the
solution does; if all are at the waits for their sends, what they sent has been taken. No
message need be copied by MPI. The predicate, `NeverAllBlocked`, is in the proof module here and in
StageTasks, RadiationColumn and Decomposition. Of the instances TLC shows it by `Terminates`, whose
fairness does not cover MPI's copying, and in `radiation_column`, where nothing is copied, by
its check for deadlock.

**Exchanger** assumes a bijection of ranks and sites (`MeshAssumption`) and that ranks
increase along every line (`OrderAssumption`), which Athena++'s Z-order gives. `IInv` says
how far the current pass is: in the first, ranks before `i` have the colour of their
line's bottom and others none (`FirstPass`); in the second, colours are those of lines
whose feet have been merged so far (`SecondPass`). `GroupsCorrect` follows: after any
sequence of regroupings of either class the colours are exactly the groups. The
assumption is needed: were a block's bottom neighbour of higher rank, it would be coloured
before the colour it must take is known. `StackedCorrect` goes on from the colours to the
communicators: the members of a line, numbered by rank, are in order from the bottom, one
for each block (`PlaceFact`, by induction over the place in the line), and `GetRankInGroup`
counts a block's place, which is its index along the line. Radiation and decomposition rely
on it.

**StageTasks** assumes that being beside and being across are mutual, a positive
number of stages and cycles, a largest time step, and values that cannot be confused
(`StageAssumption`, `NilAssumption`). The list is fixed, so the first step is to read
off it, once, which tasks are done when another one runs; this includes the order that only
the position in the list gives. `IInv` is then built by counting: `SentIn` and
`TakenIn` are the messages a block has sent and taken up to the present point of its stage,
and the messages on a channel are exactly those that the sender has counted and
the receiver has not (`Counted`). As neighbours can be a round apart and no more, these are two
at most, which is `TwoOutstanding`, and the content of the k-th message is fixed by
k (`Good`): the right stage, first round or second, complete or along panel edges still without
the cells beside. From the content come the ghost cells (`GhostsFresh`). The counter of the
radiation bounds the age of the fluxes by an invariant of its own (`RadiationRecent`).

`NoDeadlock` uses the counts again. A block whose list cannot go on has sent as many messages
as it has begun rounds of receiving (`Blocked`: this is where SEND_HYD being before SETB_HYD in
the list, and RESTART_RECV before SEND_HYD2, matters). A block that has sent fewest waits for no
message, because its neighbours have sent as many, and not for its sends, because they have taken
as many; so it is at the end of the last stage, and all others with it.

**CubedSphere** assumes at least one block per panel edge (`PanelAssumption`). A block at
an edge is named by its panel, the side, and its place `a` along it (`EdgeBlock`), so that
the twelve edges become a table of 24 rows (`JointTable`), each of which maps (panel,
side, a) across and back (`JointBack`). `EdgeTransform` shows that the hand-written cases of
TransformOX and the rectangle of FindBlockID together give this table, for any number of blocks;
inside a panel it is arithmetic. `MeetingSides` is the result: a neighbour's neighbour across the
same side is the block itself. Both the flux exchange and the ghost cell exchange rest on it.

`SharedFaces` adds the geometry: two blocks meet across one edge at most, and their faces there
are the same points of the sphere, taken in the order that the inversion flags give.

**FluxSync** is proved for any number of blocks, cells and stages and any placement with one
block per rank (`OneBlockPerRank`): with two the exchange may block, which `flux_sync_two_per_rank`
shows. Neither `OneStageApart` nor `SameRiemannProblem` is inductive, as neither speaks of the
messages. `IInv` counts: `Sent(g)` and `Taken(g, s)` are the last stages whose states a block has
sent and has received at a side, and `Links` says that the channel from `g` to `h` holds the
stages `Taken + 1 .. Sent`, in order, each with the content it must have, and that only the
last of them can still be read from `g`'s buffer (`Linked`). By `SharedFaces` no second edge uses
the channel, so that all of it has the tag the receiver asks for, and the first message is that of
the receiver's own stage. A count never passes the other, which bounds the distance of two
blocks; `Buffers` then says what the two states of a face are. `Refinement` shows that the
exchange implements `EdgeStages`: the last receive of a block is the step that completes a stage.
`NoDeadlock` is the safety part of `Terminates`, and the other side of the finding: of the
blocks that are furthest behind, one that has yet to send is not blocked; if all have sent, one
that receives finds its message, as the block across is no earlier and has sent too; if all
wait, what each has sent was received. It takes no help from MPI: nothing need be copied
(`Free`). `Terminates` itself needs fairness and stays with TLC.

**PanelEdge** also assumes a ghost zone that fits in a block with two cells to spare
(`DepthAssumption`), and proves all five invariants of the run `panel_edge`, for any number of
blocks, cells and ghost layers. The tables of PackData are read row by row (`Rows`), and what each
must get right is a predicate on a row: the place of the edge on the sphere
(`SameDirection`), the coordinates beyond it (`SameBasis`), the order of the cells
(`SameOrder`). `EdgeFits` joins them for one cell. The inductive invariant says what the message
holds at each position, and that the ghost cells filled so far are those of the positions read.

**Decomposition** assumes a column of positive extents whose ghost zone fits in a block
(`ColumnAssumption`), any integers as the weights of the cells and the pressure
at the top (`PressureAssumption`), and that a packed face is not `Nil` (`NilAssumption`). The
loops have a result and it is a sum over an interval of cells: both by induction over
the naturals, which `Induction` takes from the well-foundedness library. `Balanced` and
`PressureOfStage` speak of the stage a block is in, so `IInv` must say which stage a
message is of, though it is read from a buffer that each stage fills anew. `Channels`
does: on a channel are the messages of consecutive stages, from the one after the last the
receiver has taken to the last the sender has packed, in order, and the content of each is the
pressure at the faces next to the interface (in the temperature form, at the top of the
column), in the message or still in the buffer.
`HasPressure` says which faces of a block already hold the pressure of its stage. The proof
covers both forms. `Balanced` would hold in the temperature form whatever pressure were
received, as it is about differences; `PressureRight` is the theorem about what is received,
of the right face in the two-way form and of the right stage in both. `NoDeadlock`
covers both forms: of the blocks furthest behind, the highest that waits for the block above
finds the message, as that block has sent it or there is none; then the lowest that waits for
the block below does; and if all wait for their sends, those were taken.

**RadiationColumn** assumes positive sizes and at least two blocks in a column
(`SizeAssumption`). A gather is matched by the number of calls alone, and no rank counts
them, so `IInv` does: a rank at entry `w` of its program has entered the gathers of band
`b` once for every entry of `b` it has come to (`Counted`, with `Runs`), and what it put into the
`j`-th is its part of the `j`-th such entry (`Held`, with `Entry`). As a rank leaves a
gather only when all have entered it, the k-th gather returns the column of the k-th entry,
for ranks that may be a whole entry apart (`Buffers`, `Fluxes`). `InterfaceCorrect` and
`FirstBinCorrect` follow for any number of bins, and `ColumnCorrect`, which is
`DisortSeesColumn`, for one: with more it is false (`radiation_bins`), and the hypothesis
`nspec = 1` is exactly what the code supports. `NoDeadlock` needs the counts only: of the
ranks at the entry that is furthest behind, one that waits in the first gather finds that all
others have entered it; if all of them wait in the second, all ranks have entered that.

**Diagnostics** assumes some diagnostics, positive cycles, any outputs due at any cycles, any
division of the ranks into planes (`DiagnosticsAssumption`), and that nothing written is told
from something (`NilAssumption`). The kind of call a rank enters depends on counters of its own,
so that what must be shown first is that the counters of all ranks agree when they
get there. `Control(r)` is what a rank is about, all but the numbers it adds up, and `After` is what
it does next, a function of `Control(r)` alone. `IInv` has, as a hidden history, the sequence `p` of these
states as far as the first rank has come, and each rank's place `n[r]` in it (`Along`). Two facts
hold the ranks together: no rank is past a collective call of all ranks that another has not
made, and a rank's send buffers hold its own part of the last sum it entered. Between two
reductions of the program all ranks regroup (`Between`), so a rank that has entered as many
reductions as another is in the same one, and what `ReduceAll` adds up are the parts of one
sum over the same cycles (`SentRight`). `Local` says what data and outputs hold at each place of the
program (`Holds`, `Right`), from which `AverageCorrect` follows. `NoDeadlock` follows too: of
the ranks that are furthest behind on the program none is ever blocked, and unless all have
finished none of them has.

**Only model-checked**: all liveness properties, because liveness under fairness and ENABLED
are beyond the proof system's backends; and AirParcel (`TypeOK`, `MatterKept`, `TracerKept`,
`ChemistryKept`: sums over species and products of rationals, which the SMT backend
cannot do). Recursion is
written as recursive functions, for which induction by the smallest counterexample
(`WFMin` of `WellFoundedInduction`) can be used; the induction theorems that take an
operator as a parameter cannot. No module declares a RECURSIVE operator, because the SMT backend
cannot be used with one.

## 6. What is not modelled

* Arithmetic: equations of state, Riemann solvers, reconstruction, opacities,
  disort, saturation adjustment, microphysics, chemistry, forcing, divergence, curl and
  buoyancy, the matrices of the implicit solver, metric and interpolation weights. Equalities
  hold up to rounding only, and nothing concurrent happens within them. They are most of the
  repository's lines: the tables of gas absorption of the microwave opacities alone
  are more than half.
* The spherical correction of the fluxes (`src/harp/rt_solver_disort.cpp:317`), the
  flux sums of CalTimeStep (`src/harp/radiation.cpp:176`) and the test of the
  constructor of ImplicitSolver (`implicit_solver.cpp:53`): local arithmetic and a
  check of the input file.
* A build without MPI, in which the exchangers do nothing, and a periodic x1
  in the decomposition, for which its loops have no bottom or top.
* Code that is not built or not called: particles, the block scheduler,
  ChangeToBuoyancy, SyncNewVariables, PopulateBotEntropy, the
  dump and load of radiation data for restarts.
* Two blocks of a line in one process, for the implicit solver, decomposition and
  radiation: the code is written for one. What goes wrong otherwise is listed as a hazard.
* Lists with scalars, refinement, orbital advection or magnetic fields.
* Input and output, command line, Python bindings, scripts.
* The tags of the ghost cell exchange, which Athena++ computes.

## 7. Plan

Order of the work, by weight of the behaviour:

1. *Done*: ImplicitSweep with LineSolve and ImplicitProgram; CubedSphere with FluxSync
   and PanelEdge; Exchanger; RadiationColumn; Decomposition; StageTasks; each of these with
   proofs of its safety properties; AirParcel; Diagnostics.
2. Model next:
   * two blocks per panel edge in FluxSync and StageTasks, so that the ghost cells an
     interpolation reads are those of the corner blocks, with two blocks in one process;
   * the list with scalars (`CLEAR_ALLBND2` after both exchanges, `SEND_SCLR2`), as a constant
     of StageTasks;
   * an abstract specification of a stage (all ghost cells are filled from complete
     neighbours) that StageTasks implements;
   * a stage with the sweeps, the decomposition and the flux exchange in one
     message space, to show that their tags do not meet;
   * the saturation adjustment, once its vapour curves are a relation;
   * the particle exchange, if it becomes part of the build.
3. Prove next:
   * AirParcel: `TracerKept` and `ChemistryKept` for any number of species, with the
     factors of a conversion as uninterpreted values.
