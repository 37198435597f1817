-------------------------- MODULE RadiationColumn --------------------------
(***************************************************************************)
(* Radiative transfer through a column of MeshBlocks (src/src/harp).  The    *)
(* ranks of a line along x1 share every column: each computes the optical     *)
(* properties of its own layers, all gather those of all, and each solves the *)
(* whole column for itself and keeps the fluxes at its own interfaces.        *)
(*                                                                         *)
(* Rank r is the r-th block of the line from below: that the communicator    *)
(* lists the ranks in this order is StackedBottomUp of Exchanger.            *)
(***************************************************************************)
EXTENDS Integers, Sequences

CONSTANTS
  nblocks,  \* ranks of the line
  nlayers,  \* layers (cells along x1) of a MeshBlock
  nspec,    \* spectral bins of a band
  nbands,   \* bands
  Thermal,  \* the bands with the planck flag
  Columns,  \* columns of a block
  Calls,    \* times the fluxes are updated
  Nil       \* no value

Band == 1 .. nbands

\* A single block has nothing to gather: GatherAll swaps its buffers.
ASSUME SizeAssumption ==
  /\ {nblocks, nlayers, nspec, nbands, Columns, Calls} \subseteq Nat \ {0}
  /\ nblocks > 1
  /\ Thermal \subseteq Band

Rank  == 0 .. nblocks - 1
nlyr  == nblocks * nlayers

\* The program of a rank: for every update, column and band.
Total == Calls * Columns * nbands

\* Mutant of BandOf: only the first band is run.
BandOfFirst(w) == 1

BandOf(w)   == ((w - 1) % nbands) + 1
ColumnOf(w) == (((w - 1) \div nbands) % Columns) + 1

VARIABLES
  at,       \* at[r]: the entry of the program rank r is at
  pc,       \* pc[r]: where it is in the band's CalBandFlux
  temf,     \* temf[r][b]: temf_, the temperatures at the block's interfaces
  send,     \* send[r][b]: send_buffer
  gathers,  \* gathers[b][n][r]: what rank r put in MPI_Allgather n, by call
  temper,   \* temper[r][b]: disort's temperatures, from the top down
  bflx      \* bflx[r][b][k]: fluxes of column k at the block's interfaces

vars == <<at, pc, temf, send, gathers, temper, bflx>>

\* A level or a layer of block r, counted from below, as it was for entry w.
Level(r, w, n)    == [block |-> r, entry |-> w, level |-> n]
Layer(r, w, b, n) == [block |-> r, entry |-> w, bin |-> b, layer |-> n]

Temperatures(r, w) == [n \in 1 .. nlayers + 1 |-> Level(r, w, n - 1)]

\* What the spectral properties of all bins are, bin after bin.
Properties(r, w) ==
  [n \in 1 .. nspec * nlayers |->
     Layer(r, w, (n - 1) \div nlayers, (n - 1) % nlayers)]

\* Resize makes room for one bin in send_buffer[1]; what is written behind its
\* end is not sent.
packSpectralProperties(r, w) == SubSeq(Properties(r, w), 1, nlayers)

-----------------------------------------------------------------------------
\* packTemperature: temf_, just computed, and the buffer change places.
packTemperature(r, w, b) ==
  [sent |-> Temperatures(r, w), kept |-> send[r][b].tem]

\* SetSpectralProperties and Prepare: the layers of the band are computed and
\* packed, and the first MPI_Allgather of GatherAll is entered.
Prepare(r) ==
  /\ pc[r] = "prepare"
  /\ LET w == at[r]
         b == BandOf(w)
         t == IF b \in Thermal THEN packTemperature(r, w, b)
              ELSE [sent |-> send[r][b].tem, kept |-> Temperatures(r, w)]
     IN /\ temf' = [temf EXCEPT ![r][b] = t.kept]
        /\ send' = [send EXCEPT ![r][b] =
                      [tem |-> t.sent, opt |-> packSpectralProperties(r, w)]]
        /\ bflx' = [bflx EXCEPT ![r][b][ColumnOf(w)] = Nil]
        /\ gathers' = [gathers EXCEPT ![b][1][r] = Append(@, t.sent)]
  /\ pc' = [pc EXCEPT ![r] = "gather1"]
  /\ UNCHANGED <<at, temper>>

\* MPI_Allgather returns the ranks' parts of this call in their order: it
\* waits for the slowest of them.
Entered(b, n, r) == \A q \in Rank : Len(gathers[b][n][q]) >= Len(gathers[b][n][r])

\* The parts of the ranks one after the other, each as long as r's own.
Gathered(b, n, r) ==
  LET call == Len(gathers[b][n][r])
      size == Len(gathers[b][n][r][call])
  IN [i \in 1 .. nblocks * size |->
        gathers[b][n][(i - 1) \div size][call][((i - 1) % size) + 1]]

\* Mutant of unpackTemperature: the levels are not reversed.
unpackTemperatureUpward(recv) ==
  [m \in 0 .. nlyr |->
     IF m = nlyr THEN recv[nblocks * (nlayers + 1)]
     ELSE recv[(m \div nlayers) * (nlayers + 1) + (m % nlayers) + 1]]

\* unpackTemperature: disort counts the levels from the top.  An interface of
\* two blocks is written twice, the upper block's value last.
unpackTemperature(recv) ==
  [m \in 0 .. nlyr |->
     IF m = 0 THEN recv[nblocks * (nlayers + 1)]
     ELSE recv[((nlyr - m) \div nlayers) * (nlayers + 1) + ((nlyr - m) % nlayers) + 1]]

\* The first gather returns, the second is entered.
GatherTemperature(r) ==
  /\ pc[r] = "gather1"
  /\ LET b == BandOf(at[r]) IN
     /\ Entered(b, 1, r)
     /\ temper' = [temper EXCEPT ![r][b] =
          IF b \in Thermal THEN unpackTemperature(Gathered(b, 1, r)) ELSE @]
     /\ gathers' = [gathers EXCEPT ![b][2][r] = Append(@, send[r][b].opt)]
  /\ pc' = [pc EXCEPT ![r] = "gather2"]
  /\ UNCHANGED <<at, temf, send, bflx>>

\* Reading behind the end of the receive buffer gives anything.
ReadAt(recv, n) == IF n \in DOMAIN recv THEN recv[n] ELSE Nil

\* unpackSpectralProperties: the layers of bin b from the top down; the blocks
\* are nlayers apart in the buffer, and so are the bins.
unpackSpectralProperties(recv, b) ==
  [m \in 0 .. nlyr - 1 |-> ReadAt(recv, b * nlayers + nlyr - m)]

\* Mutant of DisortIndex: all blocks keep the lowest block's fluxes.
DisortIndexLowest(r, i) == nlyr - i

\* addDisortFlux: disort's index of the block's i-th interface.
DisortIndex(r, i) == nlyr - (r * nlayers + i)

\* The second gather returns; disort runs for every bin on the whole column,
\* and the block keeps the fluxes at its interfaces.
SolveBand(r) ==
  /\ pc[r] = "gather2"
  /\ LET w == at[r]
         b == BandOf(w)
     IN /\ Entered(b, 2, r)
        /\ bflx' = [bflx EXCEPT ![r][b][ColumnOf(w)] =
             [entry  |-> w,
              tem    |-> temper[r][b],
              opt    |-> [s \in 0 .. nspec - 1 |->
                            unpackSpectralProperties(Gathered(b, 2, r), s)],
              disort |-> [i \in 0 .. nlayers |-> DisortIndex(r, i)]]]
        /\ at' = [at EXCEPT ![r] = w + 1]
        /\ pc' = [pc EXCEPT ![r] = IF w = Total THEN "done" ELSE "prepare"]
  /\ UNCHANGED <<temf, send, gathers, temper>>

Init ==
  /\ at = [r \in Rank |-> 1]
  /\ pc = [r \in Rank |-> "prepare"]
  /\ temf = [r \in Rank |-> [b \in Band |-> Nil]]
  /\ send = [r \in Rank |-> [b \in Band |-> [tem |-> Nil, opt |-> Nil]]]
  /\ gathers = [b \in Band |-> [n \in 1 .. 2 |-> [r \in Rank |-> <<>>]]]
  /\ temper = [r \in Rank |-> [b \in Band |-> Nil]]
  /\ bflx = [r \in Rank |-> [b \in Band |-> [k \in 1 .. Columns |-> Nil]]]

Finished == (\A r \in Rank : pc[r] = "done") /\ UNCHANGED vars

Next ==
  \/ \E r \in Rank : Prepare(r) \/ GatherTemperature(r) \/ SolveBand(r)
  \/ Finished

Spec == Init /\ [][Next]_vars

-----------------------------------------------------------------------------
\* Every variable keeps its type.
TypeOK ==
  /\ at \in [Rank -> 1 .. Total + 1]
  /\ pc \in [Rank -> {"prepare", "gather1", "gather2", "done"}]
  /\ \A r \in Rank, b \in Band :
       /\ temf[r][b] # Nil => \A n \in 1 .. nlayers + 1 : temf[r][b][n].block = r
       /\ send[r][b].opt # Nil => Len(send[r][b].opt) = nlayers
       /\ \A n \in 1 .. 2 : Len(gathers[b][n][r]) <= Calls * Columns

Solved(r, b, k) == bflx[r][b][k] # Nil

\* The block and the level in it of disort's level m, and of its layer m.
BlockOf(m)   == IF m = 0 THEN nblocks - 1 ELSE (nlyr - m) \div nlayers
LevelOf(m)   == nlyr - m - BlockOf(m) * nlayers
LayerBlock(m) == (nlyr - 1 - m) \div nlayers
LayerOf(m)    == (nlyr - 1 - m) % nlayers

\* Every block solves the column that is there: from the top down the levels
\* and layers of all blocks, of the column and band in question and computed for
\* this update, although the blocks come to it at different times.
DisortSeesColumn ==
  \A r \in Rank, b \in Band, k \in 1 .. Columns : Solved(r, b, k) =>
    LET f == bflx[r][b][k] IN
    /\ b \in Thermal =>
         f.tem = [m \in 0 .. nlyr |-> Level(BlockOf(m), f.entry, LevelOf(m))]
    /\ \A s \in 0 .. nspec - 1 :
         f.opt[s] = [m \in 0 .. nlyr - 1 |->
                       Layer(LayerBlock(m), f.entry, s, LayerOf(m))]

\* What leaves a block through its top enters the one above: at the interface
\* both have the flux of the same level of the same solution.
InterfaceFlux ==
  \A r \in Rank, b \in Band, k \in 1 .. Columns :
    LET low  == bflx[r][b][k]
        high == bflx[r + 1][b][k]
    IN r + 1 \in Rank /\ Solved(r, b, k) /\ Solved(r + 1, b, k) /\ low.entry = high.entry
         => /\ low.disort[nlayers] = high.disort[0]
            /\ low.tem = high.tem /\ low.opt = high.opt

=============================================================================
