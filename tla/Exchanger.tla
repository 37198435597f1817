----------------------------- MODULE Exchanger -----------------------------
(***************************************************************************)
(* How an exchanger splits the ranks into groups (src/src/exchanger):       *)
(* LinearExchanger into the lines of blocks along a direction,               *)
(* PlanarExchanger into the planes across it.  Every rank gathers the bottom *)
(* neighbours of all ranks, colours the ranks in one pass over them and      *)
(* splits MPI_COMM_WORLD by colour.  All ranks run the same loop over the    *)
(* same gathered array, so one loop stands for all of them.                  *)
(*                                                                         *)
(* Each rank has one MeshBlock, which is what the exchangers support.        *)
(***************************************************************************)
EXTENDS Integers, Sequences

CONSTANTS
  Dims,          \* MeshBlocks along x1, x2 and x3
  PeriodicDirs,  \* directions with periodic boundaries
  loc,           \* loc[r]: the position of rank r's MeshBlock
  Nil            \* no value

Dir == 1 .. 3
Site == { p \in [Dir -> 0 .. Dims[1] + Dims[2] + Dims[3]] : \A d \in Dir : p[d] < Dims[d] }

nranks == Dims[1] * Dims[2] * Dims[3]
Rank == 0 .. nranks - 1

ASSUME MeshAssumption ==
  /\ Dims \in [Dir -> Nat \ {0}]
  /\ PeriodicDirs \subseteq Dir
  /\ loc \in [Rank -> Site]
  /\ \A r, s \in Rank : loc[r] = loc[s] => r = s
  /\ \A p \in Site : \E r \in Rank : loc[r] = p

\* Two positions that differ at most along the directions of D.
Aligned(p, q, D) == \A d \in Dir \ D : p[d] = q[d]

\* The ranks follow Athena's Z-order curve: along a line they increase.
ASSUME OrderAssumption ==
  \A r, s \in Rank : \A d \in Dir :
    Aligned(loc[r], loc[s], {d}) /\ loc[r][d] < loc[s][d] => r < s

RankAt(p) == CHOOSE r \in Rank : loc[r] = p

VARIABLES
  kind,   \* "linear" or "planar": the class of the exchanger
  mydir,  \* the direction of the last Regroup
  todo,   \* directions that setColor has still to be called with
  brank,  \* brank_
  color,  \* color_
  i, c,   \* the loop of setColor and the next free colour
  comm,   \* comm[r]: the ranks in mpi_comm_ of rank r, in their order there
  pc      \* "idle", or where setColor is

vars == <<kind, mydir, todo, brank, color, i, c, comm, pc>>

-----------------------------------------------------------------------------
\* find_neighbors: the bottom neighbour, across a periodic boundary too.
find_bottom(r, d) ==
  IF loc[r][d] > 0 THEN RankAt([loc[r] EXCEPT ![d] = @ - 1])
  ELSE IF d \in PeriodicDirs THEN RankAt([loc[r] EXCEPT ![d] = Dims[d] - 1])
  ELSE -1

\* Avoid the periodic boundary.
Bottom(r, d) == IF loc[r][d] = 0 THEN -1 ELSE find_bottom(r, d)

\* The directions of the setColor calls of Regroup.
Calls(k, d) ==
  CASE k = "linear" -> <<d>>
    [] k = "planar" /\ d = 1 -> <<2, 3>>
    [] k = "planar" /\ d = 2 -> <<1, 3>>
    [] k = "planar" /\ d = 3 -> <<1, 2>>

\* std::fill of color_.
Cleared == [r \in Rank |-> -1]

Regroup(d) ==
  /\ pc = "idle"
  /\ mydir' = d
  /\ todo' = Calls(kind, d)
  /\ color' = Cleared
  /\ pc' = "gather"
  /\ UNCHANGED <<kind, brank, i, c, comm>>

\* Mutant of FirstColor: the numbering goes on from the last Regroup.
FirstColorKept == c

\* setColor: c starts from 0.
FirstColor == 0

\* setColor: MPI_Allgather of the bottom ranks.
GatherBottoms ==
  /\ pc = "gather"
  /\ brank' = [r \in Rank |-> Bottom(r, Head(todo))]
  /\ i' = 0 /\ c' = FirstColor
  /\ pc' = "color"
  /\ UNCHANGED <<kind, mydir, todo, color, comm>>

\* Mutant of Fresh: a line's first rank gets a new colour in every pass.
FreshAlways == brank[i] = -1

\* The rank begins a line and has no colour from an earlier pass.
Fresh == brank[i] = -1 /\ color[i] = -1

ColorNext ==
  /\ pc = "color" /\ i < nranks
  /\ color' = IF Fresh THEN [color EXCEPT ![i] = c]
              ELSE IF brank[i] = -1 THEN color
              ELSE [color EXCEPT ![i] = color[brank[i]]]
  /\ c' = IF Fresh THEN c + 1 ELSE c
  /\ i' = i + 1
  /\ UNCHANGED <<kind, mydir, todo, brank, comm, pc>>

\* Mutant of Split: the ranks of a communicator are ordered from the last.
SplitReversed(r) ==
  LET group[n \in 0 .. nranks] ==
        IF n = 0 THEN <<>>
        ELSE IF color[n - 1] = color[r] THEN <<n - 1>> \o group[n - 1] ELSE group[n - 1]
  IN group[nranks]

\* MPI_Comm_split: the ranks of r's colour, ordered by the key, their rank.
Split(r) ==
  LET group[n \in 0 .. nranks] ==
        IF n = 0 THEN <<>>
        ELSE IF color[n - 1] = color[r] THEN Append(group[n - 1], n - 1) ELSE group[n - 1]
  IN group[nranks]

SplitComm ==
  /\ pc = "color" /\ i = nranks
  /\ comm' = [r \in Rank |-> Split(r)]
  /\ todo' = Tail(todo)
  /\ pc' = IF Tail(todo) = <<>> THEN "idle" ELSE "gather"
  /\ UNCHANGED <<kind, mydir, brank, color, i, c>>

\* The constructor: mpi_comm_ is MPI_COMM_WORLD.
Init ==
  /\ kind \in {"linear", "planar"}
  /\ mydir = Nil
  /\ todo = <<>>
  /\ brank = [r \in Rank |-> -1]
  /\ color = [r \in Rank |-> -1]
  /\ i = 0 /\ c = 0
  /\ comm = [r \in Rank |-> [k \in 1 .. nranks |-> k - 1]]
  /\ pc = "idle"

Next == (\E d \in Dir : Regroup(d)) \/ GatherBottoms \/ ColorNext \/ SplitComm

Spec == Init /\ [][Next]_vars

\* GetRankInGroup: the length of the chain of bottom ranks.
GetRankInGroup(r) ==
  LET place[s \in Rank] == IF brank[s] = -1 THEN 0 ELSE 1 + place[brank[s]]
  IN place[r]

-----------------------------------------------------------------------------
\* Every variable keeps its type.
TypeOK ==
  /\ kind \in {"linear", "planar"}
  /\ mydir \in Dir \union {Nil}
  /\ todo \in Seq(Dir)
  /\ brank \in [Rank -> Rank \union {-1}]
  /\ color \in [Rank -> Rank \union {-1}]
  /\ i \in 0 .. nranks /\ c \in 0 .. nranks
  /\ pc \in {"idle", "gather", "color"}

Ready == pc = "idle" /\ mydir # Nil

\* The directions a group extends along.
Extent == IF kind = "linear" THEN {mydir} ELSE Dir \ {mydir}

\* After Regroup two ranks have the same colour, hence are in the same
\* communicator, exactly if their blocks are in the same line or plane.
ColorsAreGroups ==
  Ready => \A r, s \in Rank :
             color[r] = color[s] <=> Aligned(loc[r], loc[s], Extent)

\* The communicator of a linear exchanger lists the blocks of the line bottom
\* to top, and GetRankInGroup is the place in it: what is gathered can be
\* stacked in the order it arrives, and each block finds its own part.
StackedBottomUp ==
  Ready /\ kind = "linear" =>
    \A r \in Rank :
      /\ Len(comm[r]) = Dims[mydir]
      /\ \A k \in 1 .. Len(comm[r]) :
           loc[comm[r][k]] = [loc[r] EXCEPT ![mydir] = k - 1]
      /\ GetRankInGroup(r) = loc[r][mydir]

=============================================================================
