------------------------ MODULE RadiationColumn_proof ------------------------
(***************************************************************************)
(* Proofs about RadiationColumn: for lines of any number of blocks with any  *)
(* number of layers, every block solves the same column, made of the          *)
(* temperatures and the first bin's layers of all blocks.                     *)
(***************************************************************************)
EXTENDS RadiationColumn, WellFoundedInduction, TLAPS

-----------------------------------------------------------------------------
(* Arithmetic.                                                              *)

LEMMA DivMod ==
  ASSUME NEW n \in Nat, n > 0, NEW p \in Nat, NEW l \in 0 .. n - 1
  PROVE  (n * p + l) \div n = p /\ (n * p + l) % n = l
<1>1. l \in Nat /\ l < n /\ n * p \in Nat
  OBVIOUS
<1>2. (n * p + l) % n = l
  BY <1>1, Z3
<1>3. (n * p + l) \div n = p
  BY <1>1, Z3
<1> QED
  BY <1>2, <1>3

\* A number below n * k is in one of k ranges of n.
LEMMA Ranges ==
  ASSUME NEW n \in Nat, n > 0, NEW k \in Nat, NEW x \in Nat, x < n * k
  PROVE  /\ x \div n \in 0 .. k - 1 /\ x % n \in 0 .. n - 1
         /\ x = n * (x \div n) + (x % n)
<1> DEFINE q == x \div n
           l == x % n
<1>1. q \in Int /\ l \in 0 .. n - 1 /\ x = n * q + l
  OBVIOUS
<1> HIDE DEF q, l
<1>2. n * q \in Int /\ n * q <= x /\ x < n * q + n
  BY <1>1
<1>3. q >= 0
  <2> SUFFICES ASSUME q <= -1 PROVE FALSE
    BY <1>1
  <2>1. n * q <= n * (-1)
    BY <1>1
  <2> QED
    BY <1>2, <2>1
<1>4. q < k
  <2> SUFFICES ASSUME k <= q PROVE FALSE
    BY <1>1
  <2>1. n * k <= n * q
    BY <1>1
  <2> QED
    BY <1>2, <2>1
<1>5. q \in 0 .. k - 1
  BY <1>1, <1>3, <1>4
<1> QED
  BY <1>1, <1>5 DEF q, l

LEMMA Sizes ==
  /\ nblocks \in Nat /\ nblocks > 1 /\ nlayers \in Nat /\ nlayers > 0
  /\ nspec \in Nat /\ nspec > 0 /\ nbands \in Nat /\ nbands > 0
  /\ Columns \in Nat /\ Columns > 0 /\ Calls \in Nat /\ Calls > 0
  /\ nlyr \in Nat /\ Total \in Nat /\ Calls * Columns \in Nat /\ Total = (Calls * Columns) * nbands
<1>1. /\ nblocks \in Nat /\ nblocks > 1 /\ nlayers \in Nat /\ nlayers > 0
      /\ nspec \in Nat /\ nspec > 0 /\ nbands \in Nat /\ nbands > 0
      /\ Columns \in Nat /\ Columns > 0 /\ Calls \in Nat /\ Calls > 0
  BY SizeAssumption
<1>2. Calls * Columns \in Nat
  BY <1>1
<1>3. (Calls * Columns) * nbands \in Nat
  BY <1>1, <1>2
<1>4. nblocks * nlayers \in Nat
  BY <1>1
<1> QED
  BY <1>1, <1>2, <1>3, <1>4 DEF nlyr, Total


\* The j-th entry of the program for band b, and the number of entries for b
\* among the first w.
Entry(b, j) == (j - 1) * nbands + b
Runs(b, w)  == (w + nbands - b) \div nbands

\* What the gathers of entry w return, and what becomes of it.
AllTemperatures(w) ==
  [i \in 1 .. nblocks * (nlayers + 1) |->
     Temperatures((i - 1) \div (nlayers + 1), w)[((i - 1) % (nlayers + 1)) + 1]]

AllProperties(w) ==
  [i \in 1 .. nblocks * nlayers |->
     packSpectralProperties((i - 1) \div nlayers, w)[((i - 1) % nlayers) + 1]]

ColumnTem(w) == [m \in 0 .. nlyr |-> Level(BlockOf(m), w, LevelOf(m))]
ColumnOpt(w) == [s \in 0 .. nspec - 1 |-> unpackSpectralProperties(AllProperties(w), s)]

-----------------------------------------------------------------------------
(* The program of a rank.                                                   *)

LEMMA RunsFact ==
  ASSUME NEW w \in Nat, w > 0
  PROVE  /\ BandOf(w) \in Band
         /\ \A b \in Band : /\ Runs(b, w - 1) \in Nat
                            /\ Runs(b, w) = IF b = BandOf(w) THEN Runs(b, w - 1) + 1
                                                            ELSE Runs(b, w - 1)
         /\ Entry(BandOf(w), Runs(BandOf(w), w)) = w
<1> DEFINE q == (w - 1) \div nbands
           l == (w - 1) % nbands
<1>1. q \in Nat /\ l \in 0 .. nbands - 1 /\ w - 1 = nbands * q + l
  <2>1. w - 1 \in Nat /\ w - 1 < nbands * w
    <3>1. 1 * w <= nbands * w
      BY Sizes
    <3>2. nbands * w \in Int
      BY Sizes
    <3> QED
      BY <3>1, <3>2
  <2> QED
    BY <2>1, Ranges, Sizes
<1>2. BandOf(w) = l + 1
  BY DEF BandOf
<1> HIDE DEF q, l
<1>3. nbands * q \in Nat /\ nbands * (q + 1) = nbands * q + nbands /\ nbands * (q + 1) \in Nat
  BY <1>1, Sizes
<1>4. \A p \in Nat, m \in 0 .. nbands - 1 : (nbands * p + m) \div nbands = p
  BY DivMod, Sizes
<1>5. ASSUME NEW b \in Band
      PROVE  /\ Runs(b, w - 1) \in Nat
             /\ Runs(b, w) = IF b = BandOf(w) THEN Runs(b, w - 1) + 1 ELSE Runs(b, w - 1)
             /\ b = BandOf(w) => Runs(b, w) = q + 1
  <2>1. b \in 1 .. nbands
    BY DEF Band
  <2>2. CASE b = l + 1
    <3>1. w + nbands - b = nbands * (q + 1) + 0 /\ (w - 1) + nbands - b = nbands * q + (nbands - 1)
      BY <1>1, <1>3, <2>1, <2>2, Sizes
    <3>2. Runs(b, w) = q + 1 /\ Runs(b, w - 1) = q
      BY <1>1, <1>4, <3>1, Sizes DEF Runs
    <3> QED
      BY <1>1, <1>2, <2>2, <3>2
  <2>3. CASE b > l + 1
    <3>1. /\ w + nbands - b = nbands * q + (l + 1 + nbands - b)
          /\ (w - 1) + nbands - b = nbands * q + (l + nbands - b)
          /\ l + 1 + nbands - b \in 0 .. nbands - 1 /\ l + nbands - b \in 0 .. nbands - 1
      BY <1>1, <1>3, <2>1, <2>3, Sizes
    <3>2. Runs(b, w) = q /\ Runs(b, w - 1) = q
      BY <1>1, <1>4, <3>1, Sizes DEF Runs
    <3> QED
      BY <1>1, <1>2, <2>1, <2>3, <3>2
  <2>4. CASE b < l + 1
    <3>1. /\ w + nbands - b = nbands * (q + 1) + (l + 1 - b)
          /\ (w - 1) + nbands - b = nbands * (q + 1) + (l - b)
          /\ l + 1 - b \in 0 .. nbands - 1 /\ l - b \in 0 .. nbands - 1
      BY <1>1, <1>3, <2>1, <2>4, Sizes
    <3>2. q + 1 \in Nat
      BY <1>1
    <3>3. Runs(b, w) = q + 1 /\ Runs(b, w - 1) = q + 1
      BY <1>4, <3>1, <3>2 DEF Runs
    <3> QED
      BY <1>1, <1>2, <2>1, <2>4, <3>3
  <2> QED
    BY <1>1, <2>1, <2>2, <2>3, <2>4
<1>6. BandOf(w) \in Band
  BY <1>1, <1>2, Sizes DEF Band
<1>7. Runs(BandOf(w), w) = q + 1
  BY <1>5, <1>6
<1>8. Entry(BandOf(w), Runs(BandOf(w), w)) = w
  <2>1. Entry(BandOf(w), Runs(BandOf(w), w)) = q * nbands + (l + 1)
    BY <1>1, <1>2, <1>7 DEF Entry
  <2> QED
    BY <1>1, <2>1, Sizes
<1> QED
  BY <1>5, <1>6, <1>8

LEMMA ColumnFact ==
  ASSUME NEW w \in Nat, w > 0
  PROVE  ColumnOf(w) \in 1 .. Columns
<1> DEFINE x == (w - 1) \div nbands
<1>1. x \in Int
  BY Sizes
<1> HIDE DEF x
<1>2. x % Columns \in 0 .. Columns - 1
  BY <1>1, Sizes
<1>3. ColumnOf(w) = (x % Columns) + 1
  BY DEF ColumnOf, x
<1> QED
  BY <1>2, <1>3, Sizes

LEMMA RunsZero ==
  ASSUME NEW b \in Band
  PROVE  Runs(b, 0) = 0
<1>1. 0 + nbands - b = nbands * 0 + (nbands - b) /\ nbands - b \in 0 .. nbands - 1
  BY Sizes DEF Band
<1> QED
  BY <1>1, DivMod, Sizes DEF Runs

\* A band is run once for every update and column.
LEMMA RunsBound ==
  ASSUME NEW b \in Band, NEW w \in 0 .. Total
  PROVE  Runs(b, w) \in Nat /\ Runs(b, w) <= Calls * Columns
<1> DEFINE k == Calls * Columns
           x == w + nbands - b
<1>1. k \in Nat /\ Total = k * nbands
  BY Sizes
<1> HIDE DEF k
<1>2. x \in Nat /\ x < nbands * (k + 1)
  <2>1. nbands * (k + 1) = k * nbands + nbands /\ k * nbands \in Nat
    BY <1>1, Sizes
  <2> QED
    BY <1>1, <2>1, Sizes DEF Band
<1>3. x \div nbands \in 0 .. (k + 1) - 1
  BY <1>1, <1>2, Ranges, Sizes
<1> QED
  BY <1>1, <1>3 DEF Runs, k

-----------------------------------------------------------------------------
(* The column that is solved.                                               *)

\* Where a block's part is in what a gather returns.
LEMMA Within ==
  ASSUME NEW n \in Nat, n > 0, NEW r \in Rank, NEW l \in 0 .. n - 1
  PROVE  /\ r \in Nat /\ r * n + l + 1 \in 1 .. nblocks * n
         /\ ((r * n + l + 1) - 1) \div n = r /\ ((r * n + l + 1) - 1) % n = l
<1>1. r \in Nat /\ r + 1 <= nblocks
  BY Sizes DEF Rank
<1>2. (r + 1) * n <= nblocks * n /\ (r + 1) * n = r * n + n /\ r * n \in Nat /\ nblocks * n \in Nat
  BY <1>1, Sizes
<1>3. (r * n + l + 1) - 1 = n * r + l
  BY <1>1, <1>2
<1> QED
  BY <1>1, <1>2, <1>3, DivMod

LEMMA TemperaturesFact ==
  ASSUME NEW r, NEW w
  PROVE  /\ Len(Temperatures(r, w)) = nlayers + 1
         /\ \A n \in 0 .. nlayers : Temperatures(r, w)[n + 1] = Level(r, w, n)
<1>2. Len(Temperatures(r, w)) = nlayers + 1
  BY Sizes DEF Temperatures
<1>3. \A n \in 0 .. nlayers : Temperatures(r, w)[n + 1] = Level(r, w, n)
  <2> SUFFICES ASSUME NEW n \in 0 .. nlayers PROVE Temperatures(r, w)[n + 1] = Level(r, w, n)
    OBVIOUS
  <2>1. n + 1 \in 1 .. nlayers + 1 /\ (n + 1) - 1 = n
    BY Sizes
  <2> QED
    BY <2>1 DEF Temperatures
<1> QED
  BY <1>2, <1>3

LEMMA PackedFact ==
  ASSUME NEW r, NEW w
  PROVE  /\ Len(packSpectralProperties(r, w)) = nlayers
         /\ \A l \in 0 .. nlayers - 1 : packSpectralProperties(r, w)[l + 1] = Layer(r, w, 0, l)
<1> DEFINE top == nspec * nlayers
           S == { Properties(r, w)[n] : n \in 1 .. top }
<1>1. top \in Nat /\ nlayers <= top
  <2>1. 1 * nlayers <= nspec * nlayers
    BY Sizes
  <2> QED
    BY <2>1, Sizes
<1>2. \A n \in 1 .. top :
        Properties(r, w)[n] = Layer(r, w, (n - 1) \div nlayers, (n - 1) % nlayers)
  BY DEF Properties
<1>3. Properties(r, w) \in [1 .. top -> S]
  BY DEF Properties
<1> HIDE DEF top, S
<1>4. Properties(r, w) \in Seq(S) /\ Len(Properties(r, w)) = top
  BY <1>1, <1>3
<1>5. /\ Len(packSpectralProperties(r, w)) = nlayers
      /\ \A n \in 1 .. nlayers : packSpectralProperties(r, w)[n] = Properties(r, w)[n]
  BY <1>1, <1>4, Sizes DEF packSpectralProperties
<1>6. ASSUME NEW l \in 0 .. nlayers - 1
      PROVE  packSpectralProperties(r, w)[l + 1] = Layer(r, w, 0, l)
  <2>1. l + 1 \in 1 .. nlayers /\ l + 1 \in 1 .. top /\ (l + 1) - 1 = nlayers * 0 + l
    BY <1>1, Sizes
  <2>2. ((l + 1) - 1) \div nlayers = 0 /\ ((l + 1) - 1) % nlayers = l
    BY <2>1, DivMod, Sizes
  <2>3. packSpectralProperties(r, w)[l + 1] = Properties(r, w)[l + 1]
    BY <1>5, <2>1
  <2> QED
    BY <1>2, <2>1, <2>2, <2>3
<1> QED
  BY <1>5, <1>6

\* unpackTemperature puts the levels of all blocks in order from the top.
LEMMA TemperatureColumn ==
  ASSUME NEW w
  PROVE  unpackTemperature(AllTemperatures(w)) = ColumnTem(w)
<1>1. ASSUME NEW r \in Rank, NEW l \in 0 .. nlayers
      PROVE  AllTemperatures(w)[r * (nlayers + 1) + l + 1] = Level(r, w, l)
  <2> DEFINE n == nlayers + 1
             i == r * n + l + 1
  <2>1. n \in Nat /\ n > 0 /\ l \in 0 .. n - 1
    BY Sizes
  <2>2. AllTemperatures(w) = [j \in 1 .. nblocks * n |-> Temperatures((j - 1) \div n, w)[((j - 1) % n) + 1]]
    BY DEF AllTemperatures
  <2> HIDE DEF n
  <2>3. i \in 1 .. nblocks * n /\ (i - 1) \div n = r /\ (i - 1) % n = l
    BY <2>1, Within
  <2> HIDE DEF i
  <2>4. AllTemperatures(w)[i] = Temperatures(r, w)[l + 1]
    BY <2>2, <2>3
  <2> QED
    BY <2>4, TemperaturesFact DEF n, i
<1>2. ASSUME NEW m \in 0 .. nlyr
      PROVE  unpackTemperature(AllTemperatures(w))[m] = Level(BlockOf(m), w, LevelOf(m))
  <2>1. CASE m = 0
    <3>1. nblocks - 1 \in Rank /\ nlayers \in 0 .. nlayers
      BY Sizes DEF Rank
    <3>2. (nblocks - 1) * (nlayers + 1) + nlayers + 1 = nblocks * (nlayers + 1)
      BY Sizes
    <3>3. unpackTemperature(AllTemperatures(w))[m] = AllTemperatures(w)[nblocks * (nlayers + 1)]
      BY <2>1 DEF unpackTemperature
    <3>4. BlockOf(m) = nblocks - 1 /\ LevelOf(m) = nlayers
      <4>1. nlyr - 0 - (nblocks - 1) * nlayers = nlayers
        BY Sizes DEF nlyr
      <4> QED
        BY <2>1, <4>1 DEF BlockOf, LevelOf
    <3> QED
      BY <1>1, <3>1, <3>2, <3>3, <3>4
  <2>2. CASE m # 0
    <3> DEFINE x == nlyr - m
               q == x \div nlayers
               l == x % nlayers
    <3>1. q \in Rank /\ l \in 0 .. nlayers - 1 /\ x = nlayers * q + l /\ x \in Nat
      <4>1. x \in Nat /\ x < nlayers * nblocks
        <5>1. nlayers * nblocks = nlyr
          BY Sizes DEF nlyr
        <5> QED
          BY <2>2, <5>1, Sizes
      <4> QED
        BY <4>1, Ranges, Sizes DEF Rank
    <3>2. unpackTemperature(AllTemperatures(w))[m] = AllTemperatures(w)[q * (nlayers + 1) + l + 1]
      BY <2>2 DEF unpackTemperature
    <3>3. BlockOf(m) = q
      BY <2>2 DEF BlockOf
    <3>4. LevelOf(m) = x - q * nlayers
      BY <3>3 DEF LevelOf
    <3> HIDE DEF x, q, l
    <3>5. LevelOf(m) = l /\ l \in 0 .. nlayers
      <4>1. q \in Int /\ q * nlayers = nlayers * q /\ nlayers * q \in Int
        BY <3>1, Sizes DEF Rank
      <4> QED
        BY <3>1, <3>4, <4>1, Sizes
    <3> QED
      BY <1>1, <3>1, <3>2, <3>3, <3>5
  <2> QED
    BY <2>1, <2>2
<1>3. unpackTemperature(AllTemperatures(w)) =
        [m \in 0 .. nlyr |-> unpackTemperature(AllTemperatures(w))[m]]
  BY DEF unpackTemperature
<1> QED
  BY <1>2, <1>3 DEF ColumnTem

\* unpackSpectralProperties does so for the layers of the first bin.
LEMMA PropertyColumn ==
  ASSUME NEW w
  PROVE  ColumnOpt(w)[0] = [m \in 0 .. nlyr - 1 |-> Layer(LayerBlock(m), w, 0, LayerOf(m))]
<1>1. ColumnOpt(w)[0] = unpackSpectralProperties(AllProperties(w), 0)
  BY Sizes DEF ColumnOpt
<1>2. ASSUME NEW m \in 0 .. nlyr - 1
      PROVE  ReadAt(AllProperties(w), 0 * nlayers + nlyr - m) = Layer(LayerBlock(m), w, 0, LayerOf(m))
  <2> DEFINE x == nlyr - 1 - m
             q == LayerBlock(m)
             l == LayerOf(m)
             i == q * nlayers + l + 1
  <2>1. q \in Rank /\ l \in 0 .. nlayers - 1 /\ x = nlayers * q + l
    <3>1. x \in Nat /\ x < nlayers * nblocks
      <4>1. nlayers * nblocks = nlyr
        BY Sizes DEF nlyr
      <4> QED
        BY <4>1, Sizes
    <3>2. q = x \div nlayers /\ l = x % nlayers
      BY DEF LayerBlock, LayerOf
    <3> QED
      BY <3>1, <3>2, Ranges, Sizes DEF Rank
  <2>2. 0 * nlayers + nlyr - m = i
    <3>1. q \in Int /\ q * nlayers = nlayers * q /\ nlayers * q \in Int
      BY <2>1, Sizes DEF Rank
    <3>2. 0 * nlayers + nlyr - m = x + 1
      BY Sizes
    <3> HIDE DEF x, q, l
    <3> QED
      BY <2>1, <3>1, <3>2, Sizes
  <2> HIDE DEF x, q, l
  <2>3. i \in 1 .. nblocks * nlayers /\ (i - 1) \div nlayers = q /\ (i - 1) % nlayers = l
    BY <2>1, Within, Sizes
  <2> HIDE DEF i
  <2>4. ReadAt(AllProperties(w), i) = packSpectralProperties(q, w)[l + 1]
    BY <2>3 DEF AllProperties, ReadAt
  <2>5. packSpectralProperties(q, w)[l + 1] = Layer(q, w, 0, l)
    BY <2>1, PackedFact
  <2> QED
    BY <2>2, <2>4, <2>5 DEF q, l
<1>3. unpackSpectralProperties(AllProperties(w), 0) =
        [m \in 0 .. nlyr - 1 |-> ReadAt(AllProperties(w), 0 * nlayers + nlyr - m)]
  BY DEF unpackSpectralProperties
<1> QED
  BY <1>1, <1>2, <1>3

-----------------------------------------------------------------------------
(* The inductive invariant.                                                 *)

Sent(r, b, w) == IF b \in Thermal THEN Temperatures(r, w) ELSE Nil

Part ==
  {Nil} \union { Temperatures(r, w) : r \in Rank, w \in Nat }
        \union { packSpectralProperties(r, w) : r \in Rank, w \in Nat }

Domains ==
  /\ DOMAIN temf = Rank /\ DOMAIN send = Rank /\ DOMAIN temper = Rank /\ DOMAIN bflx = Rank
  /\ \A r \in Rank :
       /\ DOMAIN temf[r] = Band /\ DOMAIN send[r] = Band /\ DOMAIN temper[r] = Band
       /\ DOMAIN bflx[r] = Band /\ \A b \in Band : DOMAIN bflx[r][b] = 1 .. Columns

Typed ==
  /\ at \in [Rank -> 1 .. Total + 1]
  /\ pc \in [Rank -> {"prepare", "gather1", "gather2", "done"}]
  /\ \A r \in Rank : pc[r] = "done" <=> at[r] = Total + 1
  /\ Domains
  /\ gathers \in [Band -> [1 .. 2 -> [Rank -> Seq(Part)]]]

\* How often rank r has entered each gather.
Counted(r) ==
  \A b \in Band :
    /\ Len(gathers[b][1][r]) =
         Runs(b, IF pc[r] \in {"gather1", "gather2"} THEN at[r] ELSE at[r] - 1)
    /\ Len(gathers[b][2][r]) = Runs(b, IF pc[r] = "gather2" THEN at[r] ELSE at[r] - 1)

\* What it has put in.
Held(r) ==
  \A b \in Band :
    /\ \A j \in 1 .. Len(gathers[b][1][r]) : gathers[b][1][r][j] = Sent(r, b, Entry(b, j))
    /\ \A j \in 1 .. Len(gathers[b][2][r]) :
         gathers[b][2][r][j] = packSpectralProperties(r, Entry(b, j))

OfBlock(t, r) == t = Nil \/ \E w \in Nat : t = Temperatures(r, w)

\* Its buffers.
Buffers(r) ==
  /\ \A b \in Band :
       /\ OfBlock(temf[r][b], r) /\ OfBlock(send[r][b].tem, r)
       /\ send[r][b].opt = Nil \/ \E w \in Nat : send[r][b].opt = packSpectralProperties(r, w)
       /\ b \notin Thermal => send[r][b].tem = Nil /\ temper[r][b] = Nil
  /\ pc[r] \in {"gather1", "gather2"} =>
       send[r][BandOf(at[r])].opt = packSpectralProperties(r, at[r])
  /\ pc[r] = "gather2" /\ BandOf(at[r]) \in Thermal =>
       temper[r][BandOf(at[r])] = ColumnTem(at[r])

\* Its fluxes: those of the column of their entry.
Fluxes(r) ==
  \A b \in Band, k \in 1 .. Columns : Solved(r, b, k) =>
    LET f == bflx[r][b][k] IN
    /\ f.tem = IF b \in Thermal THEN ColumnTem(f.entry) ELSE Nil
    /\ f.opt = ColumnOpt(f.entry)
    /\ f.disort = [i \in 0 .. nlayers |-> DisortIndex(r, i)]

IInv == Typed /\ \A r \in Rank : Counted(r) /\ Held(r) /\ Buffers(r) /\ Fluxes(r)

State(r) == Counted(r) /\ Held(r) /\ Buffers(r) /\ Fluxes(r)

-----------------------------------------------------------------------------
(* Updates of functions of functions.                                       *)

LEMMA Except2 ==
  ASSUME NEW f, NEW g, NEW S, NEW T, DOMAIN f = S, \A q \in S : DOMAIN f[q] = T,
         NEW r \in S, NEW b \in T, NEW v, g = [f EXCEPT ![r][b] = v]
  PROVE  /\ DOMAIN g = S /\ \A q \in S : DOMAIN g[q] = T
         /\ \A q \in S, c \in T : g[q][c] = IF q = r /\ c = b THEN v ELSE f[q][c]
         /\ \A q \in S : q # r => g[q] = f[q]
  OBVIOUS

SetFlux(r, b, k, v) == [bflx EXCEPT ![r][b][k] = v]
PutInto(b, n, r, v) == [gathers EXCEPT ![b][n][r] = Append(@, v)]

\* A rank keeps the fluxes of a column.
LEMMA KeptFlux ==
  ASSUME Typed, NEW r \in Rank, NEW b \in Band, NEW k \in 1 .. Columns, NEW v,
         bflx' = SetFlux(r, b, k, v)
  PROVE  /\ DOMAIN bflx' = Rank /\ \A q \in Rank : DOMAIN bflx'[q] = Band
         /\ \A q \in Rank, c \in Band : DOMAIN bflx'[q][c] = 1 .. Columns
         /\ \A q \in Rank, c \in Band, j \in 1 .. Columns :
              bflx'[q][c][j] = IF q = r /\ c = b /\ j = k THEN v ELSE bflx[q][c][j]
         /\ \A q \in Rank : q # r => bflx'[q] = bflx[q]
<1> DEFINE U == 1 .. Columns
           h == [bflx[r] EXCEPT ![b] = [bflx[r][b] EXCEPT ![k] = v]]
<1>1. /\ DOMAIN bflx = Rank /\ \A q \in Rank : DOMAIN bflx[q] = Band
      /\ \A q \in Rank, c \in Band : DOMAIN bflx[q][c] = U
  BY DEF Typed, Domains
<1>2. k \in U
  OBVIOUS
<1>3. bflx' = [bflx EXCEPT ![r] = h]
  BY DEF SetFlux
<1> HIDE DEF U
<1>4. /\ DOMAIN h = Band /\ \A c \in Band : DOMAIN h[c] = U
      /\ \A c \in Band, j \in U : h[c][j] = IF c = b /\ j = k THEN v ELSE bflx[r][c][j]
  BY <1>1, <1>2
<1> HIDE DEF h
<1>5. DOMAIN bflx' = Rank /\ \A q \in Rank : bflx'[q] = IF q = r THEN h ELSE bflx[q]
  BY <1>1, <1>3
<1>6. /\ \A q \in Rank : DOMAIN bflx'[q] = Band
      /\ \A q \in Rank, c \in Band : DOMAIN bflx'[q][c] = U
      /\ \A q \in Rank, c \in Band, j \in U :
           bflx'[q][c][j] = IF q = r /\ c = b /\ j = k THEN v ELSE bflx[q][c][j]
  BY <1>1, <1>4, <1>5
<1> QED
  BY <1>5, <1>6 DEF U

\* A rank puts its part in a gather.
LEMMA PutIn ==
  ASSUME Typed, NEW b \in Band, NEW n \in 1 .. 2, NEW r \in Rank, NEW v \in Part,
         gathers' = PutInto(b, n, r, v)
  PROVE  /\ gathers' \in [Band -> [1 .. 2 -> [Rank -> Seq(Part)]]]
         /\ \A c \in Band, m \in 1 .. 2, q \in Rank : ~ (c = b /\ m = n /\ q = r) =>
              gathers'[c][m][q] = gathers[c][m][q]
         /\ Len(gathers'[b][n][r]) = Len(gathers[b][n][r]) + 1
         /\ Len(gathers[b][n][r]) \in Nat
         /\ gathers'[b][n][r][Len(gathers[b][n][r]) + 1] = v
         /\ \A j \in 1 .. Len(gathers[b][n][r]) : gathers'[b][n][r][j] = gathers[b][n][r][j]
<1> DEFINE s == gathers[b][n][r]
           u == Append(s, v)
<1>1. gathers \in [Band -> [1 .. 2 -> [Rank -> Seq(Part)]]]
  BY DEF Typed
<1>2. s \in Seq(Part)
  BY <1>1
<1>3. /\ u \in Seq(Part) /\ Len(u) = Len(s) + 1 /\ Len(s) \in Nat /\ u[Len(s) + 1] = v
      /\ \A j \in 1 .. Len(s) : u[j] = s[j]
  <2> HIDE DEF s
  <2> QED
    BY <1>2
<1>4. gathers' = [gathers EXCEPT ![b][n][r] = u]
  BY DEF PutInto
<1> HIDE DEF u
<1>5. /\ gathers' \in [Band -> [1 .. 2 -> [Rank -> Seq(Part)]]]
      /\ \A c \in Band, m \in 1 .. 2, q \in Rank :
           gathers'[c][m][q] = IF c = b /\ m = n /\ q = r THEN u ELSE gathers[c][m][q]
  <2> DEFINE D == Seq(Part)
             X == 1 .. 2
  <2>1. gathers \in [Band -> [X -> [Rank -> D]]] /\ n \in X /\ u \in D
    BY <1>1, <1>3
  <2> HIDE DEF D, X
  <2>2. /\ gathers' \in [Band -> [X -> [Rank -> D]]]
        /\ \A c \in Band, m \in X, q \in Rank :
             gathers'[c][m][q] = IF c = b /\ m = n /\ q = r THEN u ELSE gathers[c][m][q]
    <3> DEFINE h == [gathers[b] EXCEPT ![n] = [gathers[b][n] EXCEPT ![r] = u]]
    <3>1. gathers' = [gathers EXCEPT ![b] = h]
      BY <1>4
    <3>2. [gathers[b][n] EXCEPT ![r] = u] \in [Rank -> D]
      BY <2>1
    <3>3. h \in [X -> [Rank -> D]]
      BY <2>1, <3>2
    <3>4. \A m \in X, q \in Rank : h[m][q] = IF m = n /\ q = r THEN u ELSE gathers[b][m][q]
      BY <2>1
    <3> HIDE DEF h
    <3>5. gathers' \in [Band -> [X -> [Rank -> D]]]
      BY <2>1, <3>1, <3>3
    <3>6. \A c \in Band : gathers'[c] = IF c = b THEN h ELSE gathers[c]
      BY <2>1, <3>1
    <3> QED
      BY <3>4, <3>5, <3>6
  <2> QED
    BY <2>2 DEF D, X
<1>6. gathers'[b][n][r] = u
  BY <1>5
<1> QED
  BY <1>3, <1>5, <1>6

-----------------------------------------------------------------------------
(* What the gathers return.                                                 *)

\* Where a rank is in its program.
LEMMA AtFact ==
  ASSUME Typed, NEW r \in Rank
  PROVE  /\ at[r] \in Nat /\ at[r] > 0 /\ BandOf(at[r]) \in Band
         /\ at[r] \in 1 .. Total + 1 /\ (pc[r] # "done" => at[r] \in 1 .. Total)
<1>1. at[r] \in 1 .. Total + 1 /\ (pc[r] # "done" => at[r] # Total + 1)
  BY DEF Typed
<1>2. at[r] \in Nat /\ at[r] > 0 /\ (pc[r] # "done" => at[r] \in 1 .. Total)
  BY <1>1, Sizes
<1> QED
  BY <1>1, <1>2, RunsFact

\* When all ranks have entered a gather, what it returns is of one entry.
LEMMA CallFact ==
  ASSUME IInv, NEW r \in Rank, NEW n \in 1 .. 2,
         pc[r] = IF n = 1 THEN "gather1" ELSE "gather2",
         Entered(BandOf(at[r]), n, r)
  PROVE  LET b == BandOf(at[r])
             call == Len(gathers[b][n][r])
         IN /\ call \in Nat /\ call > 0 /\ Entry(b, call) = at[r]
            /\ \A q \in Rank : gathers[b][n][q][call] =
                 IF n = 1 THEN Sent(q, b, at[r]) ELSE packSpectralProperties(q, at[r])
<1> DEFINE w == at[r]
           b == BandOf(w)
           call == Len(gathers[b][n][r])
<1>1. Typed /\ \A q \in Rank : Counted(q) /\ Held(q)
  BY DEF IInv
<1>2. w \in Nat /\ w > 0 /\ b \in Band
  BY <1>1, AtFact
<1>3. call = Runs(b, w)
  BY <1>1, <1>2 DEF Counted
<1>4. Runs(b, w - 1) \in Nat /\ Runs(b, w) = Runs(b, w - 1) + 1 /\ Entry(b, Runs(b, w)) = w
  BY <1>2, RunsFact
<1>5. call \in Nat /\ call > 0 /\ Entry(b, call) = w
  BY <1>3, <1>4
<1>6. ASSUME NEW q \in Rank
      PROVE  gathers[b][n][q][call] =
               IF n = 1 THEN Sent(q, b, w) ELSE packSpectralProperties(q, w)
  <2>1. Len(gathers[b][n][q]) >= call
    BY Zenon DEF Entered
  <2>2. gathers[b][n][q] \in Seq(Part)
    BY <1>1, <1>2 DEF Typed
  <2>3. Len(gathers[b][n][q]) \in Nat
    BY <2>2
  <2>4. call \in 1 .. Len(gathers[b][n][q])
    BY <1>5, <2>1, <2>3
  <2> HIDE DEF call
  <2> QED
    BY <1>1, <1>2, <1>5, <2>4 DEF Held
<1> QED
  BY <1>5, <1>6

LEMMA GatheredTem ==
  ASSUME IInv, NEW r \in Rank, pc[r] = "gather1", BandOf(at[r]) \in Thermal,
         Entered(BandOf(at[r]), 1, r)
  PROVE  Gathered(BandOf(at[r]), 1, r) = AllTemperatures(at[r])
<1> DEFINE w == at[r]
           b == BandOf(w)
           call == Len(gathers[b][1][r])
           n == nlayers + 1
<1>1. \A q \in Rank : gathers[b][1][q][call] = Temperatures(q, w)
  BY CallFact DEF Sent
<1>2. Len(gathers[b][1][r][call]) = n
  BY <1>1, TemperaturesFact
<1>3. Gathered(b, 1, r) =
        [i \in 1 .. nblocks * n |-> gathers[b][1][(i - 1) \div n][call][((i - 1) % n) + 1]]
  BY <1>2 DEF Gathered
<1>4. n \in Nat /\ n > 0 /\ nblocks \in Nat
  BY Sizes
<1>5. AllTemperatures(w) =
        [i \in 1 .. nblocks * n |-> Temperatures((i - 1) \div n, w)[((i - 1) % n) + 1]]
  BY DEF AllTemperatures
<1> HIDE DEF n
<1>6. \A i \in 1 .. nblocks * n : (i - 1) \div n \in Rank
  <2> SUFFICES ASSUME NEW i \in 1 .. nblocks * n PROVE (i - 1) \div n \in Rank
    OBVIOUS
  <2>1. nblocks * n = n * nblocks /\ n * nblocks \in Nat
    BY <1>4
  <2>2. i - 1 \in Nat /\ i - 1 < n * nblocks
    BY <2>1
  <2> QED
    BY <1>4, <2>2, Ranges DEF Rank
<1> HIDE DEF call
<1> QED
  BY <1>1, <1>3, <1>5, <1>6

LEMMA GatheredOpt ==
  ASSUME IInv, NEW r \in Rank, pc[r] = "gather2", Entered(BandOf(at[r]), 2, r)
  PROVE  Gathered(BandOf(at[r]), 2, r) = AllProperties(at[r])
<1> DEFINE w == at[r]
           b == BandOf(w)
           call == Len(gathers[b][2][r])
           n == nlayers
<1>1. \A q \in Rank : gathers[b][2][q][call] = packSpectralProperties(q, w)
  BY CallFact
<1>2. Len(gathers[b][2][r][call]) = n
  BY <1>1, PackedFact
<1>3. Gathered(b, 2, r) =
        [i \in 1 .. nblocks * n |-> gathers[b][2][(i - 1) \div n][call][((i - 1) % n) + 1]]
  BY <1>2 DEF Gathered
<1>4. \A i \in 1 .. nblocks * n : (i - 1) \div n \in Rank
  <2> SUFFICES ASSUME NEW i \in 1 .. nblocks * n PROVE (i - 1) \div n \in Rank
    OBVIOUS
  <2>1. nblocks * n = n * nblocks /\ n * nblocks \in Nat
    BY Sizes
  <2>2. i - 1 \in Nat /\ i - 1 < n * nblocks
    BY <2>1
  <2> QED
    BY <2>2, Ranges, Sizes DEF Rank
<1> HIDE DEF call
<1> QED
  BY <1>1, <1>3, <1>4 DEF AllProperties

-----------------------------------------------------------------------------
(* The steps.                                                               *)

\* Nothing of rank r's changes.
Same(r) ==
  /\ at'[r] = at[r] /\ pc'[r] = pc[r] /\ temf'[r] = temf[r] /\ send'[r] = send[r]
  /\ temper'[r] = temper[r] /\ bflx'[r] = bflx[r]
  /\ \A b \in Band : gathers'[b][1][r] = gathers[b][1][r] /\ gathers'[b][2][r] = gathers[b][2][r]

LEMMA Frame ==
  ASSUME NEW r \in Rank, State(r), Same(r)
  PROVE  State(r)'
<1>1. Counted(r)'
  BY DEF State, Same, Counted
<1>2. Held(r)'
  BY DEF State, Same, Held
<1>3. Buffers(r)'
  BY DEF State, Same, Buffers
<1>4. Fluxes(r)'
  BY DEF State, Same, Fluxes, Solved
<1> QED
  BY <1>1, <1>2, <1>3, <1>4 DEF State

LEMMA InitStep == Init => IInv
<1> SUFFICES ASSUME Init PROVE IInv
  OBVIOUS
<1> USE DEF Init
<1>1. 1 \in 1 .. Total + 1 /\ 1 # Total + 1
  <2>1. Total > 0
    <3>1. 1 <= Calls * Columns
      <4>1. 1 * Columns <= Calls * Columns
        BY Sizes
      <4>2. Calls * Columns \in Int
        BY Sizes
      <4> DEFINE x == Calls * Columns
      <4> HIDE DEF x
      <4>3. Columns <= x /\ x \in Int
        BY <4>1, <4>2, Sizes DEF x
      <4>4. 1 <= x
        BY <4>3, Sizes
      <4> QED
        BY <4>4 DEF x
    <3>2. 1 * nbands <= (Calls * Columns) * nbands
      BY <3>1, Sizes
    <3> QED
      BY <3>2, Sizes
  <2> QED
    BY <2>1, Sizes
<1>2. gathers \in [Band -> [1 .. 2 -> [Rank -> Seq(Part)]]]
  OBVIOUS
<1>3. Domains
  BY DEF Domains
<1>4. Typed
  BY <1>1, <1>2, <1>3 DEF Typed
<1>5. ASSUME NEW r \in Rank PROVE State(r)
  <2>1. \A b \in Band : gathers[b][1][r] = <<>> /\ gathers[b][2][r] = <<>>
    OBVIOUS
  <2>2. at[r] = 1 /\ pc[r] = "prepare" /\ at[r] - 1 = 0
    OBVIOUS
  <2>3. Counted(r)
    BY <2>1, <2>2, RunsZero DEF Counted
  <2>4. Held(r)
    BY <2>1 DEF Held
  <2>5. Buffers(r)
    BY <2>2 DEF Buffers, OfBlock
  <2>6. Fluxes(r)
    BY DEF Fluxes, Solved
  <2> QED
    BY <2>3, <2>4, <2>5, <2>6 DEF State
<1> QED
  BY <1>4, <1>5 DEF IInv, State

LEMMA PrepareStep ==
  ASSUME IInv, NEW r \in Rank, Prepare(r)
  PROVE  IInv'
<1> DEFINE w == at[r]
           b == BandOf(w)
           k == ColumnOf(w)
           kept == IF b \in Thermal THEN send[r][b].tem ELSE Temperatures(r, w)
           packed == [tem |-> Sent(r, b, w), opt |-> packSpectralProperties(r, w)]
<1>1. Typed /\ Domains /\ \A q \in Rank : State(q)
  BY DEF IInv, Typed, State
<1>2. pc[r] = "prepare"
  BY DEF Prepare
<1>3. w \in Nat /\ w > 0 /\ b \in Band /\ w \in 1 .. Total
  BY <1>1, <1>2, AtFact
<1>4. k \in 1 .. Columns
  BY <1>3, ColumnFact
<1>5. b \notin Thermal => send[r][b].tem = Nil
  BY <1>1, <1>3 DEF State, Buffers
<1>6. /\ at' = at /\ temper' = temper
      /\ pc' = [pc EXCEPT ![r] = "gather1"]
      /\ temf' = [temf EXCEPT ![r][b] = kept]
      /\ send' = [send EXCEPT ![r][b] = packed]
      /\ bflx' = SetFlux(r, b, k, Nil)
      /\ gathers' = PutInto(b, 1, r, Sent(r, b, w))
  BY <1>5 DEF Prepare, packTemperature, Sent, SetFlux, PutInto
<1>7. Sent(r, b, w) \in Part
  BY <1>3 DEF Sent, Part
<1> HIDE DEF w, b, k, kept, packed
<1>8. /\ DOMAIN temf' = Rank /\ \A q \in Rank : DOMAIN temf'[q] = Band
      /\ \A q \in Rank, c \in Band : temf'[q][c] = IF q = r /\ c = b THEN kept ELSE temf[q][c]
      /\ \A q \in Rank : q # r => temf'[q] = temf[q]
  BY <1>1, <1>3, <1>6, Except2 DEF Domains
<1>9. /\ DOMAIN send' = Rank /\ \A q \in Rank : DOMAIN send'[q] = Band
      /\ \A q \in Rank, c \in Band : send'[q][c] = IF q = r /\ c = b THEN packed ELSE send[q][c]
      /\ \A q \in Rank : q # r => send'[q] = send[q]
  BY <1>1, <1>3, <1>6, Except2 DEF Domains
<1>10. /\ DOMAIN bflx' = Rank /\ \A q \in Rank : DOMAIN bflx'[q] = Band
       /\ \A q \in Rank, c \in Band : DOMAIN bflx'[q][c] = 1 .. Columns
       /\ \A q \in Rank, c \in Band, j \in 1 .. Columns :
            bflx'[q][c][j] = IF q = r /\ c = b /\ j = k THEN Nil ELSE bflx[q][c][j]
       /\ \A q \in Rank : q # r => bflx'[q] = bflx[q]
  BY <1>1, <1>3, <1>4, <1>6, KeptFlux
<1>11. /\ gathers' \in [Band -> [1 .. 2 -> [Rank -> Seq(Part)]]]
       /\ \A c \in Band, m \in 1 .. 2, q \in Rank : ~ (c = b /\ m = 1 /\ q = r) =>
            gathers'[c][m][q] = gathers[c][m][q]
       /\ Len(gathers'[b][1][r]) = Len(gathers[b][1][r]) + 1
       /\ Len(gathers[b][1][r]) \in Nat
       /\ gathers'[b][1][r][Len(gathers[b][1][r]) + 1] = Sent(r, b, w)
       /\ \A j \in 1 .. Len(gathers[b][1][r]) : gathers'[b][1][r][j] = gathers[b][1][r][j]
  BY <1>1, <1>3, <1>6, <1>7, PutIn
<1>12. /\ pc'[r] = "gather1" /\ \A q \in Rank : q # r => pc'[q] = pc[q]
       /\ pc' \in [Rank -> {"prepare", "gather1", "gather2", "done"}]
  BY <1>1, <1>6 DEF Typed
<1>13. Domains'
  BY <1>1, <1>6, <1>8, <1>9, <1>10 DEF Domains
<1>14. Typed'
  <2>1. \A q \in Rank : pc'[q] = "done" <=> at'[q] = Total + 1
    BY <1>1, <1>2, <1>6, <1>12 DEF Typed
  <2>2. at' \in [Rank -> 1 .. Total + 1]
    BY <1>1, <1>6 DEF Typed
  <2> QED
    BY <1>11, <1>12, <1>13, <2>1, <2>2 DEF Typed
<1>15. ASSUME NEW q \in Rank, q # r PROVE State(q)'
  <2>1. \A c \in Band : gathers'[c][1][q] = gathers[c][1][q] /\ gathers'[c][2][q] = gathers[c][2][q]
    BY <1>11, <1>15
  <2>2. Same(q)
    BY <1>6, <1>8, <1>9, <1>10, <1>12, <1>15, <2>1 DEF Same
  <2> QED
    BY <1>1, <2>2, Frame
<1>16. Counted(r)'
  <2>1. \A c \in Band : gathers'[c][2][r] = gathers[c][2][r] /\ (c # b => gathers'[c][1][r] = gathers[c][1][r])
    BY <1>11
  <2>2. \A c \in Band : Len(gathers[c][1][r]) = Runs(c, w - 1) /\ Len(gathers[c][2][r]) = Runs(c, w - 1)
    BY <1>1, <1>2 DEF State, Counted, w
  <2>3. \A c \in Band : Runs(c, w) = IF c = b THEN Runs(c, w - 1) + 1 ELSE Runs(c, w - 1)
    BY <1>3, RunsFact DEF b
  <2>4. \A c \in Band : Len(gathers'[c][1][r]) = Runs(c, w) /\ Len(gathers'[c][2][r]) = Runs(c, w - 1)
    BY <1>3, <1>11, <2>1, <2>2, <2>3
  <2> QED
    BY <1>6, <1>12, <2>4 DEF Counted, w
<1>17. Held(r)'
  <2>1. Entry(b, Len(gathers[b][1][r]) + 1) = w
    BY <1>1, <1>2, <1>3, RunsFact DEF State, Counted, w, b
  <2>2. \A j \in 1 .. Len(gathers'[b][1][r]) : gathers'[b][1][r][j] = Sent(r, b, Entry(b, j))
    <3> SUFFICES ASSUME NEW j \in 1 .. Len(gathers'[b][1][r])
                 PROVE  gathers'[b][1][r][j] = Sent(r, b, Entry(b, j))
      OBVIOUS
    <3>1. j \in 1 .. Len(gathers[b][1][r]) \/ j = Len(gathers[b][1][r]) + 1
      <4>1. ASSUME NEW l \in Nat, NEW i \in 1 .. l + 1
            PROVE  i \in 1 .. l \/ i = l + 1
        OBVIOUS
      <4>2. /\ Len(gathers[b][1][r]) \in Nat
            /\ Len(gathers'[b][1][r]) = Len(gathers[b][1][r]) + 1
        BY <1>11, Zenon
      <4> QED
        BY <4>1, <4>2, Zenon
    <3>2. CASE j \in 1 .. Len(gathers[b][1][r])
      BY <1>1, <1>3, <1>11, <3>2 DEF State, Held
    <3>3. CASE j = Len(gathers[b][1][r]) + 1
      BY <1>11, <2>1, <3>3
    <3> QED
      BY <3>1, <3>2, <3>3
  <2>3. \A c \in Band : gathers'[c][2][r] = gathers[c][2][r] /\ (c # b => gathers'[c][1][r] = gathers[c][1][r])
    BY <1>11
  <2>4. Held(r)
    BY <1>1 DEF State
  <2> QED
    BY <2>2, <2>3, <2>4, Zenon DEF Held
<1>18. Buffers(r)'
  <2>1. OfBlock(kept, r)
    BY <1>1, <1>3 DEF State, Buffers, OfBlock, kept
  <2>2. OfBlock(packed.tem, r) /\ (b \notin Thermal => packed.tem = Nil)
    BY <1>3 DEF OfBlock, packed, Sent
  <2>3. packed.opt = packSpectralProperties(r, w)
    BY DEF packed
  <2>4. \A c \in Band :
          /\ OfBlock(temf'[r][c], r) /\ OfBlock(send'[r][c].tem, r)
          /\ send'[r][c].opt = Nil \/ \E v \in Nat : send'[r][c].opt = packSpectralProperties(r, v)
          /\ c \notin Thermal => send'[r][c].tem = Nil /\ temper'[r][c] = Nil
    BY <1>1, <1>3, <1>6, <1>8, <1>9, <2>1, <2>2, <2>3 DEF State, Buffers
  <2>5. send'[r][b].opt = packSpectralProperties(r, w)
    BY <1>3, <1>9, <2>3
  <2> QED
    BY <1>6, <1>12, <2>4, <2>5 DEF Buffers, OfBlock, w, b
<1>19. Fluxes(r)'
  BY <1>1, <1>10 DEF State, Fluxes, Solved
<1> QED
  BY <1>14, <1>15, <1>16, <1>17, <1>18, <1>19 DEF IInv, State

LEMMA GatherTemperatureStep ==
  ASSUME IInv, NEW r \in Rank, GatherTemperature(r)
  PROVE  IInv'
<1> DEFINE w == at[r]
           b == BandOf(w)
           column == IF b \in Thermal THEN ColumnTem(w) ELSE temper[r][b]
           part == packSpectralProperties(r, w)
<1>1. Typed /\ Domains /\ \A q \in Rank : State(q)
  BY DEF IInv, Typed, State
<1>2. pc[r] = "gather1" /\ Entered(b, 1, r)
  BY DEF GatherTemperature
<1>3. w \in Nat /\ w > 0 /\ b \in Band /\ w \in 1 .. Total
  BY <1>1, <1>2, AtFact
<1>4. b \in Thermal => unpackTemperature(Gathered(b, 1, r)) = ColumnTem(w)
  BY <1>2, GatheredTem, TemperatureColumn
<1>5. send[r][b].opt = part
  BY <1>1, <1>2 DEF State, Buffers
<1>6. /\ at' = at /\ temf' = temf /\ send' = send /\ bflx' = bflx
      /\ pc' = [pc EXCEPT ![r] = "gather2"]
      /\ gathers' = PutInto(b, 2, r, part)
  BY <1>5 DEF GatherTemperature, PutInto
<1>7. temper' = [temper EXCEPT ![r][b] = column]
  <2>1. temper' = [temper EXCEPT ![r][b] =
                     IF b \in Thermal THEN unpackTemperature(Gathered(b, 1, r)) ELSE temper[r][b]]
    BY DEF GatherTemperature
  <2> QED
    BY <1>4, <2>1
<1>8. part \in Part
  BY <1>3 DEF Part
<1> HIDE DEF w, b, column, part
<1>9. /\ DOMAIN temper' = Rank /\ \A q \in Rank : DOMAIN temper'[q] = Band
      /\ \A q \in Rank, c \in Band : temper'[q][c] = IF q = r /\ c = b THEN column ELSE temper[q][c]
      /\ \A q \in Rank : q # r => temper'[q] = temper[q]
  BY <1>1, <1>3, <1>7, Except2 DEF Domains
<1>10. /\ gathers' \in [Band -> [1 .. 2 -> [Rank -> Seq(Part)]]]
       /\ \A c \in Band, m \in 1 .. 2, q \in Rank : ~ (c = b /\ m = 2 /\ q = r) =>
            gathers'[c][m][q] = gathers[c][m][q]
       /\ Len(gathers'[b][2][r]) = Len(gathers[b][2][r]) + 1
       /\ Len(gathers[b][2][r]) \in Nat
       /\ gathers'[b][2][r][Len(gathers[b][2][r]) + 1] = part
       /\ \A j \in 1 .. Len(gathers[b][2][r]) : gathers'[b][2][r][j] = gathers[b][2][r][j]
  BY <1>1, <1>3, <1>6, <1>8, PutIn
<1>11. /\ pc'[r] = "gather2" /\ \A q \in Rank : q # r => pc'[q] = pc[q]
       /\ pc' \in [Rank -> {"prepare", "gather1", "gather2", "done"}]
  BY <1>1, <1>6 DEF Typed
<1>12. Typed'
  <2>1. Domains'
    BY <1>1, <1>6, <1>9 DEF Domains
  <2>2. \A q \in Rank : pc'[q] = "done" <=> at'[q] = Total + 1
    BY <1>1, <1>2, <1>6, <1>11 DEF Typed
  <2>3. at' \in [Rank -> 1 .. Total + 1]
    BY <1>1, <1>6 DEF Typed
  <2> QED
    BY <1>10, <1>11, <2>1, <2>2, <2>3 DEF Typed
<1>13. ASSUME NEW q \in Rank, q # r PROVE State(q)'
  <2>1. \A c \in Band : gathers'[c][1][q] = gathers[c][1][q] /\ gathers'[c][2][q] = gathers[c][2][q]
    BY <1>10, <1>13
  <2>2. Same(q)
    BY <1>6, <1>9, <1>11, <1>13, <2>1 DEF Same
  <2> QED
    BY <1>1, <2>2, Frame
<1>14. \A c \in Band : gathers'[c][1][r] = gathers[c][1][r] /\ (c # b => gathers'[c][2][r] = gathers[c][2][r])
  BY <1>10
<1>15. Counted(r)'
  <2>1. \A c \in Band : Len(gathers[c][1][r]) = Runs(c, w) /\ Len(gathers[c][2][r]) = Runs(c, w - 1)
    BY <1>1, <1>2 DEF State, Counted, w
  <2>2. \A c \in Band : Runs(c, w) = IF c = b THEN Runs(c, w - 1) + 1 ELSE Runs(c, w - 1)
    BY <1>3, RunsFact DEF b
  <2>3. \A c \in Band : Len(gathers'[c][1][r]) = Runs(c, w) /\ Len(gathers'[c][2][r]) = Runs(c, w)
    BY <1>3, <1>10, <1>14, <2>1, <2>2
  <2> QED
    BY <1>6, <1>11, <2>3 DEF Counted, w
<1>16. Held(r)'
  <2>1. Entry(b, Len(gathers[b][2][r]) + 1) = w
    BY <1>1, <1>2, <1>3, RunsFact DEF State, Counted, w, b
  <2>2. \A j \in 1 .. Len(gathers'[b][2][r]) :
          gathers'[b][2][r][j] = packSpectralProperties(r, Entry(b, j))
    <3> SUFFICES ASSUME NEW j \in 1 .. Len(gathers'[b][2][r])
                 PROVE  gathers'[b][2][r][j] = packSpectralProperties(r, Entry(b, j))
      OBVIOUS
    <3>1. j \in 1 .. Len(gathers[b][2][r]) \/ j = Len(gathers[b][2][r]) + 1
      <4>1. ASSUME NEW l \in Nat, NEW i \in 1 .. l + 1
            PROVE  i \in 1 .. l \/ i = l + 1
        OBVIOUS
      <4>2. /\ Len(gathers[b][2][r]) \in Nat
            /\ Len(gathers'[b][2][r]) = Len(gathers[b][2][r]) + 1
        BY <1>10, Zenon
      <4> QED
        BY <4>1, <4>2, Zenon
    <3>2. CASE j \in 1 .. Len(gathers[b][2][r])
      BY <1>1, <1>3, <1>10, <3>2 DEF State, Held
    <3>3. CASE j = Len(gathers[b][2][r]) + 1
      BY <1>10, <2>1, <3>3 DEF part
    <3> QED
      BY <3>1, <3>2, <3>3
  <2> QED
    BY <1>1, <1>14, <2>2 DEF State, Held
<1>17. Buffers(r)'
  <2>1. b \notin Thermal => column = Nil
    BY <1>1, <1>3 DEF State, Buffers, column
  <2>2. \A c \in Band :
          /\ OfBlock(temf'[r][c], r) /\ OfBlock(send'[r][c].tem, r)
          /\ send'[r][c].opt = Nil \/ \E v \in Nat : send'[r][c].opt = packSpectralProperties(r, v)
          /\ c \notin Thermal => send'[r][c].tem = Nil /\ temper'[r][c] = Nil
    BY <1>1, <1>6, <1>9, <2>1 DEF State, Buffers
  <2>3. send'[r][b].opt = packSpectralProperties(r, w)
    BY <1>5, <1>6 DEF part
  <2>4. b \in Thermal => temper'[r][b] = ColumnTem(w)
    BY <1>3, <1>9 DEF column
  <2> QED
    BY <1>6, <1>11, <2>2, <2>3, <2>4 DEF Buffers, OfBlock, w, b
<1>18. Fluxes(r)'
  BY <1>1, <1>6 DEF State, Fluxes, Solved
<1> QED
  BY <1>12, <1>13, <1>15, <1>16, <1>17, <1>18 DEF IInv, State

LEMMA SolveBandStep ==
  ASSUME IInv, NEW r \in Rank, SolveBand(r)
  PROVE  IInv'
<1> DEFINE w == at[r]
           b == BandOf(w)
           k == ColumnOf(w)
           flux == [entry  |-> w, tem |-> temper[r][b], opt |-> ColumnOpt(w),
                    disort |-> [i \in 0 .. nlayers |-> DisortIndex(r, i)]]
<1>1. Typed /\ Domains /\ \A q \in Rank : State(q)
  BY DEF IInv, Typed, State
<1>2. pc[r] = "gather2" /\ Entered(b, 2, r)
  BY DEF SolveBand
<1>3. w \in Nat /\ w > 0 /\ b \in Band /\ w \in 1 .. Total
  BY <1>1, <1>2, AtFact
<1>4. k \in 1 .. Columns
  BY <1>3, ColumnFact
<1>5. Gathered(b, 2, r) = AllProperties(w)
  BY <1>2, GatheredOpt
<1>6. /\ at' = [at EXCEPT ![r] = w + 1]
      /\ pc' = [pc EXCEPT ![r] = IF w = Total THEN "done" ELSE "prepare"]
      /\ temf' = temf /\ send' = send /\ gathers' = gathers /\ temper' = temper
  BY DEF SolveBand
<1>7. bflx' = SetFlux(r, b, k, flux)
  <2>1. bflx' = SetFlux(r, b, k,
                  [entry  |-> w, tem |-> temper[r][b],
                   opt    |-> [s \in 0 .. nspec - 1 |-> unpackSpectralProperties(Gathered(b, 2, r), s)],
                   disort |-> [i \in 0 .. nlayers |-> DisortIndex(r, i)]])
    BY DEF SolveBand, SetFlux
  <2> QED
    BY <1>5, <2>1 DEF ColumnOpt
<1>8. /\ flux.entry = w /\ flux.opt = ColumnOpt(w)
      /\ flux.tem = IF b \in Thermal THEN ColumnTem(w) ELSE Nil
      /\ flux.disort = [i \in 0 .. nlayers |-> DisortIndex(r, i)]
  <2>1. temper[r][b] = IF b \in Thermal THEN ColumnTem(w) ELSE Nil
    BY <1>1, <1>2, <1>3 DEF State, Buffers
  <2> QED
    BY <2>1
<1> HIDE DEF w, b, k, flux
<1>9. /\ DOMAIN bflx' = Rank /\ \A q \in Rank : DOMAIN bflx'[q] = Band
      /\ \A q \in Rank, c \in Band : DOMAIN bflx'[q][c] = 1 .. Columns
      /\ \A q \in Rank, c \in Band, j \in 1 .. Columns :
           bflx'[q][c][j] = IF q = r /\ c = b /\ j = k THEN flux ELSE bflx[q][c][j]
      /\ \A q \in Rank : q # r => bflx'[q] = bflx[q]
  BY <1>1, <1>3, <1>4, <1>7, KeptFlux
<1>10. /\ at'[r] = w + 1 /\ \A q \in Rank : q # r => at'[q] = at[q]
       /\ at' \in [Rank -> 1 .. Total + 1]
  <2>1. w + 1 \in 1 .. Total + 1
    BY <1>3, Sizes
  <2> QED
    BY <1>1, <1>6, <2>1 DEF Typed
<1>11. /\ pc'[r] = (IF w = Total THEN "done" ELSE "prepare") /\ \A q \in Rank : q # r => pc'[q] = pc[q]
       /\ pc' \in [Rank -> {"prepare", "gather1", "gather2", "done"}]
  BY <1>1, <1>6 DEF Typed
<1>12. Typed'
  <2>1. Domains'
    BY <1>1, <1>6, <1>9 DEF Domains
  <2>2. pc'[r] = "done" <=> at'[r] = Total + 1
    BY <1>3, <1>10, <1>11, Sizes
  <2>3. \A q \in Rank : pc'[q] = "done" <=> at'[q] = Total + 1
    BY <1>1, <1>10, <1>11, <2>2 DEF Typed
  <2> QED
    BY <1>1, <1>6, <1>10, <1>11, <2>1, <2>3 DEF Typed
<1>13. ASSUME NEW q \in Rank, q # r PROVE State(q)'
  <2>1. Same(q)
    BY <1>6, <1>9, <1>10, <1>11, <1>13 DEF Same
  <2> QED
    BY <1>1, <2>1, Frame
<1>14. Counted(r)'
  <2>1. \A c \in Band : Len(gathers[c][1][r]) = Runs(c, w) /\ Len(gathers[c][2][r]) = Runs(c, w)
    BY <1>1, <1>2 DEF State, Counted, w
  <2>2. (w + 1) - 1 = w
    BY <1>3
  <2>3. pc'[r] \notin {"gather1", "gather2"}
    BY <1>11
  <2>4. at'[r] - 1 = w
    BY <1>10, <2>2
  <2> QED
    BY <1>6, <2>1, <2>3, <2>4 DEF Counted
<1>15. Held(r)'
  BY <1>1, <1>6 DEF State, Held
<1>16. Buffers(r)'
  <2>1. pc'[r] \notin {"gather1", "gather2"}
    BY <1>11
  <2> QED
    BY <1>1, <1>6, <2>1 DEF State, Buffers
<1>17. Fluxes(r)'
  BY <1>1, <1>8, <1>9 DEF State, Fluxes, Solved
<1> QED
  BY <1>12, <1>13, <1>14, <1>15, <1>16, <1>17 DEF IInv, State

LEMMA NextStep == IInv /\ [Next]_vars => IInv'
<1> SUFFICES ASSUME IInv, [Next]_vars PROVE IInv'
  OBVIOUS
<1>1. CASE UNCHANGED vars
  <2>1. Typed'
    BY <1>1 DEF IInv, Typed, Domains, vars
  <2>2. ASSUME NEW r \in Rank PROVE State(r)'
    BY <1>1, Frame DEF IInv, State, Same, vars
  <2> QED
    BY <2>1, <2>2 DEF IInv, State
<1>2. ASSUME NEW r \in Rank, Prepare(r) PROVE IInv'
  BY <1>2, PrepareStep
<1>3. ASSUME NEW r \in Rank, GatherTemperature(r) PROVE IInv'
  BY <1>3, GatherTemperatureStep
<1>4. ASSUME NEW r \in Rank, SolveBand(r) PROVE IInv'
  BY <1>4, SolveBandStep
<1>5. CASE Finished
  BY <1>1, <1>5 DEF Finished
<1> QED
  BY <1>1, <1>2, <1>3, <1>4, <1>5 DEF Next

-----------------------------------------------------------------------------
(* The theorems.                                                            *)

\* The program, its gathers and its buffers stay as IInv says: every rank has
\* entered each gather once for every entry it has come to, with the part of
\* that entry.
THEOREM Inductive == Spec => []IInv
<1> QED
  BY InitStep, NextStep, PTL DEF Spec

LEMMA InvType == IInv => TypeOK
<1> SUFFICES ASSUME IInv PROVE TypeOK
  OBVIOUS
<1>1. ASSUME NEW r \in Rank, NEW b \in Band, temf[r][b] # Nil, NEW n \in 1 .. nlayers + 1
      PROVE  temf[r][b][n].block = r
  <2>1. PICK w \in Nat : temf[r][b] = Temperatures(r, w)
    BY <1>1 DEF IInv, Buffers, OfBlock
  <2>2. n - 1 \in 0 .. nlayers /\ (n - 1) + 1 = n
    BY Sizes
  <2>3. Temperatures(r, w)[n] = Level(r, w, n - 1)
    BY <2>2, TemperaturesFact
  <2> QED
    BY <2>1, <2>3 DEF Level
<1>2. ASSUME NEW r \in Rank, NEW b \in Band, send[r][b].opt # Nil
      PROVE  Len(send[r][b].opt) = nlayers
  BY <1>2, PackedFact DEF IInv, Buffers
<1>3. ASSUME NEW r \in Rank, NEW b \in Band
      PROVE  /\ Len(gathers[b][1][r]) <= Calls * Columns
             /\ Len(gathers[b][2][r]) <= Calls * Columns
  <2>1. at[r] \in 1 .. Total + 1 /\ (pc[r] # "done" => at[r] \in 1 .. Total)
    BY AtFact DEF IInv
  <2>2. at[r] - 1 \in 0 .. Total /\ (pc[r] # "done" => at[r] \in 0 .. Total)
    BY <2>1, Sizes
  <2>3. pc[r] \in {"gather1", "gather2"} => pc[r] # "done"
    OBVIOUS
  <2>4. Runs(b, at[r] - 1) <= Calls * Columns /\ (pc[r] # "done" => Runs(b, at[r]) <= Calls * Columns)
    BY <2>2, RunsBound
  <2> QED
    BY <2>3, <2>4 DEF IInv, Counted
<1>4. \A n \in 1 .. 2 : n = 1 \/ n = 2
  OBVIOUS
<1>5. \A r \in Rank, b \in Band, n \in 1 .. 2 : Len(gathers[b][n][r]) <= Calls * Columns
  BY <1>3, <1>4
<1> QED
  BY <1>1, <1>2, <1>5 DEF TypeOK, IInv, Typed

\* Every block's buffers hold its own levels, one bin of its layers, and it
\* enters each gather at most once for a column and an update.
THEOREM TypeCorrect == Spec => []TypeOK
<1> QED
  BY Inductive, InvType, PTL

LEMMA InvInterface == IInv => InterfaceFlux
<1> SUFFICES ASSUME IInv, NEW r \in Rank, NEW b \in Band, NEW k \in 1 .. Columns,
                    r + 1 \in Rank, Solved(r, b, k), Solved(r + 1, b, k),
                    bflx[r][b][k].entry = bflx[r + 1][b][k].entry
             PROVE  /\ bflx[r][b][k].disort[nlayers] = bflx[r + 1][b][k].disort[0]
                    /\ bflx[r][b][k].tem = bflx[r + 1][b][k].tem
                    /\ bflx[r][b][k].opt = bflx[r + 1][b][k].opt
  BY DEF InterfaceFlux
<1> DEFINE low == bflx[r][b][k]
           high == bflx[r + 1][b][k]
<1>1. /\ low.tem = high.tem /\ low.opt = high.opt
      /\ low.disort = [i \in 0 .. nlayers |-> DisortIndex(r, i)]
      /\ high.disort = [i \in 0 .. nlayers |-> DisortIndex(r + 1, i)]
  BY DEF IInv, Fluxes
<1>2. DisortIndex(r, nlayers) = DisortIndex(r + 1, 0)
  <2>1. r \in Int /\ r * nlayers + nlayers = (r + 1) * nlayers + 0
    BY Sizes DEF Rank
  <2> QED
    BY <2>1 DEF DisortIndex
<1>3. nlayers \in 0 .. nlayers /\ 0 \in 0 .. nlayers
  BY Sizes
<1> HIDE DEF low, high
<1>4. low.disort[nlayers] = high.disort[0]
  BY <1>1, <1>2, <1>3
<1> QED
  BY <1>1, <1>4 DEF low, high

\* Two neighbouring blocks keep, at the interface between them, the flux of the
\* same level of the same solution of the column, for bands of any number of
\* bins.
THEOREM InterfaceCorrect == Spec => []InterfaceFlux
<1> QED
  BY Inductive, InvInterface, PTL

\* The column a block solves, as far as the first bin goes.
FirstBinSeesColumn ==
  \A r \in Rank, b \in Band, k \in 1 .. Columns : Solved(r, b, k) =>
    LET f == bflx[r][b][k] IN
    /\ b \in Thermal =>
         f.tem = [m \in 0 .. nlyr |-> Level(BlockOf(m), f.entry, LevelOf(m))]
    /\ f.opt[0] = [m \in 0 .. nlyr - 1 |-> Layer(LayerBlock(m), f.entry, 0, LayerOf(m))]

LEMMA InvFirstBin == IInv => FirstBinSeesColumn
<1> SUFFICES ASSUME IInv, NEW r \in Rank, NEW b \in Band, NEW k \in 1 .. Columns,
                    Solved(r, b, k)
             PROVE  LET f == bflx[r][b][k] IN
                    /\ b \in Thermal =>
                         f.tem = [m \in 0 .. nlyr |-> Level(BlockOf(m), f.entry, LevelOf(m))]
                    /\ f.opt[0] = [m \in 0 .. nlyr - 1 |->
                                     Layer(LayerBlock(m), f.entry, 0, LayerOf(m))]
  BY DEF FirstBinSeesColumn
<1> DEFINE f == bflx[r][b][k]
           e == f.entry
<1>1. /\ f.tem = IF b \in Thermal THEN ColumnTem(e) ELSE Nil
      /\ f.opt = ColumnOpt(e)
  BY DEF IInv, Fluxes
<1>2. ColumnTem(e) = [m \in 0 .. nlyr |-> Level(BlockOf(m), e, LevelOf(m))]
  BY DEF ColumnTem
<1>3. ColumnOpt(e)[0] = [m \in 0 .. nlyr - 1 |-> Layer(LayerBlock(m), e, 0, LayerOf(m))]
  BY PropertyColumn
<1> HIDE DEF e
<1> QED
  BY <1>1, <1>2, <1>3 DEF e

\* For bands of any number of bins, every block solves the first bin of the
\* column that is there, and all its levels, although the blocks come to it at
\* different times.
THEOREM FirstBinCorrect == Spec => []FirstBinSeesColumn
<1> QED
  BY Inductive, InvFirstBin, PTL

\* So for bands of one bin every block solves the column that is there.  With
\* more bins this fails: Resize makes room for one.
THEOREM ColumnCorrect == ASSUME nspec = 1 PROVE Spec => []DisortSeesColumn
<1>1. 0 .. nspec - 1 = {0}
  OBVIOUS
<1>2. FirstBinSeesColumn => DisortSeesColumn
  BY <1>1 DEF FirstBinSeesColumn, DisortSeesColumn
<1> QED
  BY <1>2, FirstBinCorrect, PTL

-----------------------------------------------------------------------------
(* The column never deadlocks.                                              *)

\* Rank r can go on: all have entered the gather it is in, if it is in one.
Free(r) ==
  \/ pc[r] = "prepare"
  \/ pc[r] = "gather1" /\ Entered(BandOf(at[r]), 1, r)
  \/ pc[r] = "gather2" /\ Entered(BandOf(at[r]), 2, r)

\* The ranks of a column never all wait for one another.
NeverAllBlocked == (\A r \in Rank : pc[r] = "done") \/ \E r \in Rank : Free(r)

\* The naturals are well founded.
LEMMA Smallest ==
  ASSUME NEW S \in SUBSET Nat, S # {}
  PROVE  \E n \in S : \A m \in S : n <= m
<1> DEFINE R == OpToRel(<, Nat)
<1>1. IsWellFoundedOn(R, Nat)
  BY NatLessThanWellFounded
<1> HIDE DEF R
<1>2. PICK n \in S : \A m \in S : ~ (<<m, n>> \in R)
  BY <1>1, WFMin
<1>3. ASSUME NEW m \in S
      PROVE  n <= m
  <2>1. ~ (m < n)
    BY <1>2 DEF R, OpToRel
  <2> QED
    BY <2>1
<1> QED
  BY <1>3

LEMMA RunsGrow ==
  ASSUME NEW b \in Band, NEW w \in Nat, NEW v \in Nat, w <= v
  PROVE  Runs(b, w) <= Runs(b, v)
<1> DEFINE x == w + nbands - b
           y == v + nbands - b
           k == x \div nbands
           l == y \div nbands
<1>1. nbands \in Nat /\ nbands > 0 /\ x \in Nat /\ y \in Nat /\ x <= y
  BY Sizes DEF Band
<1> HIDE DEF x, y
<1>2. /\ k \in Int /\ x = nbands * k + (x % nbands) /\ x % nbands \in 0 .. nbands - 1
      /\ l \in Int /\ y = nbands * l + (y % nbands) /\ y % nbands \in 0 .. nbands - 1
  BY <1>1
<1> HIDE DEF k, l
<1>3. ASSUME l < k
      PROVE  FALSE
  <2>1. k - l - 1 \in Nat
    BY <1>2, <1>3
  <2>2. nbands * (k - l - 1) \in Nat
    BY <1>1, <2>1
  <2>3. nbands * (k - l - 1) = nbands * k - nbands * l - nbands
    BY <1>1, <1>2
  <2>4. nbands * k \in Int /\ nbands * l \in Int
    BY <1>1, <1>2
  <2> QED
    BY <1>1, <1>2, <2>2, <2>3, <2>4
<1> QED
  BY <1>2, <1>3 DEF Runs, x, y, k, l

LEMMA SomeFree ==
  ASSUME IInv
  PROVE  NeverAllBlocked
<1> SUFFICES ASSUME ~ \A r \in Rank : pc[r] = "done", \A r \in Rank : ~ Free(r)
             PROVE  FALSE
  BY DEF NeverAllBlocked
<1>0. \A r \in Rank : /\ at[r] \in Nat /\ at[r] > 0 /\ BandOf(at[r]) \in Band
                      /\ pc[r] \in {"gather1", "gather2", "done"}
                      /\ pc[r] = "done" <=> at[r] = Total + 1
                      /\ at[r] <= Total + 1
  <2> SUFFICES ASSUME NEW r \in Rank
               PROVE  /\ at[r] \in Nat /\ at[r] > 0 /\ BandOf(at[r]) \in Band
                      /\ pc[r] \in {"gather1", "gather2", "done"}
                      /\ pc[r] = "done" <=> at[r] = Total + 1
                      /\ at[r] <= Total + 1
    OBVIOUS
  <2>1. /\ at[r] \in Nat /\ at[r] > 0 /\ BandOf(at[r]) \in Band
        /\ at[r] \in 1 .. Total + 1
    BY AtFact DEF IInv
  <2>2. pc[r] # "prepare"
    BY DEF Free
  <2>3. pc[r] \in {"gather1", "gather2", "done"} /\ (pc[r] = "done" <=> at[r] = Total + 1)
    BY <2>2 DEF IInv, Typed
  <2> QED
    BY <2>1, <2>3
\* The ranks that are the least far, all at entry w.
<1>1. PICK p \in Rank : pc[p] # "done" /\ \A q \in Rank : at[p] <= at[q]
  <2> DEFINE S == { at[r] : r \in Rank }
  <2>1. PICK u \in Rank : pc[u] # "done"
    OBVIOUS
  <2>2. S \in SUBSET Nat /\ at[u] \in S
    BY <1>0
  <2>3. PICK n \in S : \A m \in S : n <= m
    <3> HIDE DEF S
    <3> QED
      BY <2>2, Smallest
  <2>4. PICK p \in Rank : at[p] = n
    OBVIOUS
  <2>5. at[p] <= at[u] /\ \A q \in Rank : at[p] <= at[q]
    BY <2>3, <2>4
  <2>6. at[p] # Total + 1
    BY <1>0, <2>1, <2>5, Sizes
  <2> QED
    BY <1>0, <2>5, <2>6
<1> DEFINE w == at[p]
           b == BandOf(w)
<1>2. w \in Nat /\ b \in Band
  BY <1>0
<1>3. ASSUME NEW q \in Rank, at[q] # w
      PROVE  Runs(b, w) <= Runs(b, at[q] - 1) /\ Runs(b, w) <= Runs(b, at[q])
  <2>1. w <= at[q] - 1 /\ at[q] - 1 \in Nat /\ w <= at[q] /\ at[q] \in Nat
    BY <1>0, <1>1, <1>3
  <2> HIDE DEF w, b
  <2> QED
    BY <1>2, <2>1, RunsGrow
<1>4. Runs(b, w) \in Nat
  <2>1. w - 1 \in Nat /\ w > 0
    BY <1>0
  <2> QED
    BY <1>0, <2>1, RunsFact
\* All have entered its first gather.
<1>5. ASSUME NEW r \in Rank, at[r] = w, pc[r] = "gather1"
      PROVE  FALSE
  <2>1. Len(gathers[b][1][r]) = Runs(b, w)
    BY <1>2, <1>5 DEF IInv, Counted
  <2>2. ASSUME NEW q \in Rank
        PROVE  Runs(b, w) <= Len(gathers[b][1][q])
    <3>1. CASE at[q] = w
      <4>1. pc[q] \in {"gather1", "gather2"}
        BY <1>0, <1>1, <3>1
      <4> QED
        BY <1>2, <1>4, <3>1, <4>1 DEF IInv, Counted
    <3>2. CASE at[q] # w
      BY <1>2, <1>3, <3>2 DEF IInv, Counted
    <3> QED
      BY <3>1, <3>2
  <2>3. \A q \in Rank : Len(gathers[b][1][q]) \in Nat
    BY <1>2 DEF IInv, Typed
  <2>4. Entered(b, 1, r)
    BY <1>4, <2>1, <2>2, <2>3 DEF Entered
  <2> QED
    BY <1>5, <2>4 DEF Free
\* So all of them are in the second one, which the others have entered too.
<1>6. pc[p] = "gather2"
  BY <1>0, <1>1, <1>5
<1>7. Len(gathers[b][2][p]) = Runs(b, w)
  BY <1>2, <1>6 DEF IInv, Counted
<1>8. ASSUME NEW q \in Rank
      PROVE  Runs(b, w) <= Len(gathers[b][2][q])
  <2>1. CASE at[q] = w
    <3>1. pc[q] = "gather2"
      BY <1>0, <1>1, <1>5, <2>1
    <3> QED
      BY <1>2, <1>4, <2>1, <3>1 DEF IInv, Counted
  <2>2. CASE at[q] # w
    BY <1>2, <1>3, <2>2 DEF IInv, Counted
  <2> QED
    BY <2>1, <2>2
<1>9. \A q \in Rank : Len(gathers[b][2][q]) \in Nat
  BY <1>2 DEF IInv, Typed
<1>10. Entered(b, 2, p)
  BY <1>4, <1>7, <1>8, <1>9 DEF Entered
<1> QED
  BY <1>6, <1>10 DEF Free

\* A column of any number of blocks gets through its bands, columns and updates.
THEOREM NoDeadlock == Spec => []NeverAllBlocked
<1> QED
  BY SomeFree, Inductive, PTL

=============================================================================
