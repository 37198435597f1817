------------------------- MODULE Decomposition_proof -------------------------
(***************************************************************************)
(* Proofs about Decomposition: for a column of any number of blocks of any   *)
(* size, what the blocks take off is in balance, and in the two-way form it   *)
(* is the pressure of the air above.                                         *)
(***************************************************************************)
EXTENDS Decomposition, WellFoundedInduction, TLAPS

\* The naturals are well founded.
LEMMA Smallest ==
  ASSUME NEW S \in SUBSET Nat, S # {}
  PROVE  \E n \in S : \A m \in S : n <= m
<1> DEFINE R == OpToRel(<, Nat)
<1>1. IsWellFoundedOn(R, Nat)
  BY NatLessThanWellFounded
<1> HIDE DEF R
<1>2. PICK n \in S : \A m \in S : ~ (<<m, n>> \in R)
  BY <1>1, WFMin
<1>3. ASSUME NEW m \in S
      PROVE  n <= m
  <2>1. ~ (m < n)
    BY <1>2 DEF R, OpToRel
  <2> QED
    BY <2>1
<1> QED
  BY <1>3

\* Induction over the naturals.
LEMMA Induction ==
  ASSUME NEW S, 0 \in S, \A n \in Nat : n \in S => n + 1 \in S
  PROVE  Nat \subseteq S
<1> SUFFICES ASSUME Nat \ S # {} PROVE FALSE
  OBVIOUS
<1>1. PICK n \in Nat \ S : \A m \in Nat \ S : n <= m
  BY Smallest
<1>2. n # 0 /\ n - 1 \in Nat /\ n - 1 < n
  OBVIOUS
<1> QED
  BY <1>1, <1>2

-----------------------------------------------------------------------------
(* The loops.                                                               *)

RunsDown(g, lo, hi, il, iu, p, W) ==
  g = [f \in lo .. hi |-> IF f \in il .. iu THEN g[f + 1] + W[f] ELSE p[f]]

\* A loop that runs down an interval has a result.
LEMMA DownLoop ==
  ASSUME NEW lo \in Int, NEW hi \in Int, NEW il \in Int, NEW iu \in Int,
         lo <= il, iu + 1 <= hi,
         NEW p \in [lo .. hi -> Int], NEW W \in [il .. iu -> Int]
  PROVE  \E g : RunsDown(g, lo, hi, il, iu, p, W)
<1> DEFINE G == [lo .. hi -> Int]
           Upto(g, k) == \A f \in lo .. hi :
             g[f] = IF f \in il .. iu /\ f > iu - k THEN g[f + 1] + W[f] ELSE p[f]
           Some(k) == \E g \in G : Upto(g, k)
           S == { k \in Nat : Some(k) }
<1>1. 0 \in S
  <2>1. Upto(p, 0)
    OBVIOUS
  <2> QED
    BY <2>1
<1>2. ASSUME NEW k \in Nat, Some(k)
      PROVE  Some(k + 1)
  <2>1. PICK g \in G : Upto(g, k)
    BY <1>2
  <2> DEFINE f0 == iu - k
  <2>2. CASE f0 \in il .. iu
    <3> DEFINE h == [g EXCEPT ![f0] = g[f0 + 1] + W[f0]]
    <3>1. f0 \in lo .. hi /\ f0 + 1 \in lo .. hi /\ W[f0] \in Int
      BY <2>2
    <3>2. h \in G
      BY <3>1
    <3>3. \A f \in lo .. hi : h[f] = IF f = f0 THEN g[f0 + 1] + W[f0] ELSE g[f]
      BY <3>1
    <3>4. ASSUME NEW f \in lo .. hi
          PROVE  h[f] = IF f \in il .. iu /\ f > iu - (k + 1) THEN h[f + 1] + W[f] ELSE p[f]
      <4>1. CASE f = f0
        BY <2>1, <2>2, <3>1, <3>3, <4>1
      <4>2. CASE f > f0
        BY <2>1, <2>2, <3>3, <4>2
      <4>3. CASE f < f0
        BY <2>1, <2>2, <3>3, <4>3
      <4> QED
        BY <4>1, <4>2, <4>3
    <3> HIDE DEF h
    <3>5. Upto(h, k + 1)
      BY <3>4
    <3> HIDE DEF Upto
    <3> QED
      BY <3>2, <3>5
  <2>3. CASE f0 \notin il .. iu
    <3>1. Upto(g, k + 1)
      BY <2>1, <2>3
    <3> HIDE DEF Upto
    <3> QED
      BY <3>1
  <2> QED
    BY <2>2, <2>3
<1>3. Nat \subseteq S
  <2> HIDE DEF Some
  <2>1. 0 \in S /\ \A n \in Nat : n \in S => n + 1 \in S
    BY <1>1, <1>2
  <2> HIDE DEF S
  <2> QED
    BY <2>1, Induction
<1>4. \E k \in Nat : \A f \in il .. iu : f > iu - k
  <2>1. CASE il <= iu
    <3>1. iu - il + 1 \in Nat /\ \A f \in il .. iu : f > iu - (iu - il + 1)
      BY <2>1
    <3> QED
      BY <3>1
  <2>2. CASE ~ (il <= iu)
    <3>1. 0 \in Nat /\ \A f \in il .. iu : f > iu - 0
      BY <2>2
    <3> QED
      BY <3>1
  <2> QED
    BY <2>1, <2>2
<1>5. PICK k \in Nat : \A f \in il .. iu : f > iu - k
  BY <1>4
<1>6. PICK g \in G : Upto(g, k)
  BY <1>3, <1>5
<1>7. RunsDown(g, lo, hi, il, iu, p, W)
  BY <1>5, <1>6 DEF RunsDown
<1> QED
  BY <1>7

RunsUp(g, lo, hi, il, iu, p, W) ==
  g = [f \in lo .. hi |-> IF f \in il + 1 .. iu + 1 THEN g[f - 1] - W[f - 1] ELSE p[f]]

\* A loop that runs up an interval has a result.
LEMMA UpLoop ==
  ASSUME NEW lo \in Int, NEW hi \in Int, NEW il \in Int, NEW iu \in Int,
         lo <= il, iu + 1 <= hi,
         NEW p \in [lo .. hi -> Int], NEW W \in [il .. iu -> Int]
  PROVE  \E g : RunsUp(g, lo, hi, il, iu, p, W)
<1> DEFINE G == [lo .. hi -> Int]
           Upto(g, k) == \A f \in lo .. hi :
             g[f] = IF f \in il + 1 .. iu + 1 /\ f <= il + k THEN g[f - 1] - W[f - 1] ELSE p[f]
           Some(k) == \E g \in G : Upto(g, k)
           S == { k \in Nat : Some(k) }
<1>1. 0 \in S
  <2>1. Upto(p, 0)
    OBVIOUS
  <2> QED
    BY <2>1
<1>2. ASSUME NEW k \in Nat, Some(k)
      PROVE  Some(k + 1)
  <2>1. PICK g \in G : Upto(g, k)
    BY <1>2
  <2> DEFINE f0 == il + 1 + k
  <2>2. CASE f0 \in il + 1 .. iu + 1
    <3> DEFINE h == [g EXCEPT ![f0] = g[f0 - 1] - W[f0 - 1]]
    <3>1. f0 \in lo .. hi /\ f0 - 1 \in lo .. hi /\ W[f0 - 1] \in Int
      BY <2>2
    <3>2. h \in G
      BY <3>1
    <3>3. \A f \in lo .. hi : h[f] = IF f = f0 THEN g[f0 - 1] - W[f0 - 1] ELSE g[f]
      BY <3>1
    <3>4. ASSUME NEW f \in lo .. hi
          PROVE  h[f] = IF f \in il + 1 .. iu + 1 /\ f <= il + (k + 1)
                        THEN h[f - 1] - W[f - 1] ELSE p[f]
      <4>1. CASE f = f0
        BY <2>1, <2>2, <3>1, <3>3, <4>1
      <4>2. CASE f > f0
        BY <2>1, <2>2, <3>3, <4>2
      <4>3. CASE f < f0
        BY <2>1, <2>2, <3>3, <4>3
      <4> QED
        BY <4>1, <4>2, <4>3
    <3> HIDE DEF h
    <3>5. Upto(h, k + 1)
      BY <3>4
    <3> HIDE DEF Upto
    <3> QED
      BY <3>2, <3>5
  <2>3. CASE f0 \notin il + 1 .. iu + 1
    <3>1. Upto(g, k + 1)
      BY <2>1, <2>3
    <3> HIDE DEF Upto
    <3> QED
      BY <3>1
  <2> QED
    BY <2>2, <2>3
<1>3. Nat \subseteq S
  <2> HIDE DEF Some
  <2>1. 0 \in S /\ \A n \in Nat : n \in S => n + 1 \in S
    BY <1>1, <1>2
  <2> HIDE DEF S
  <2> QED
    BY <2>1, Induction
<1>4. \E k \in Nat : \A f \in il + 1 .. iu + 1 : f <= il + k
  <2>1. CASE il <= iu
    <3>1. iu - il + 1 \in Nat /\ \A f \in il + 1 .. iu + 1 : f <= il + (iu - il + 1)
      BY <2>1
    <3> QED
      BY <3>1
  <2>2. CASE ~ (il <= iu)
    <3>1. 0 \in Nat /\ \A f \in il + 1 .. iu + 1 : f <= il + 0
      BY <2>2
    <3> QED
      BY <3>1
  <2> QED
    BY <2>1, <2>2
<1>5. PICK k \in Nat : \A f \in il + 1 .. iu + 1 : f <= il + k
  BY <1>4
<1>6. PICK g \in G : Upto(g, k)
  BY <1>3, <1>5
<1>7. RunsUp(g, lo, hi, il, iu, p, W)
  BY <1>5, <1>6 DEF RunsUp
<1> QED
  BY <1>7

\* The result of a loop down is a number at every place.
LEMMA DownLoopType ==
  ASSUME NEW lo \in Int, NEW hi \in Int, NEW il \in Int, NEW iu \in Int,
         lo <= il, iu + 1 <= hi,
         NEW p \in [lo .. hi -> Int], NEW W \in [il .. iu -> Int], NEW g,
         RunsDown(g, lo, hi, il, iu, p, W)
  PROVE  g \in [lo .. hi -> Int]
<1>0. \A f \in lo .. hi : g[f] = IF f \in il .. iu THEN g[f + 1] + W[f] ELSE p[f]
  BY DEF RunsDown
<1> DEFINE Typed(k) == \A f \in lo .. hi : f > iu - k => g[f] \in Int
           S == { k \in Nat : Typed(k) }
<1>1. Typed(0)
  BY <1>0
<1>2. ASSUME NEW k \in Nat, Typed(k)
      PROVE  Typed(k + 1)
  <2>1. ASSUME NEW f \in lo .. hi, f = iu - k
        PROVE  g[f] \in Int
    <3>1. CASE f \in il .. iu
      <4>1. f + 1 \in lo .. hi /\ f + 1 > iu - k
        BY <2>1, <3>1
      <4>2. g[f + 1] \in Int /\ W[f] \in Int /\ g[f] = g[f + 1] + W[f]
        BY <1>0, <1>2, <3>1, <4>1
      <4> QED
        BY <4>2
    <3>2. CASE f \notin il .. iu
      BY <1>0, <3>2
    <3> QED
      BY <3>1, <3>2
  <2>2. ASSUME NEW f \in lo .. hi, f > iu - (k + 1)
        PROVE  g[f] \in Int
    <3>1. f = iu - k \/ f > iu - k
      BY <2>2
    <3> QED
      BY <1>2, <2>1, <3>1
  <2> QED
    BY <2>2
<1>3. Nat \subseteq S
  <2> HIDE DEF Typed
  <2>1. 0 \in S /\ \A n \in Nat : n \in S => n + 1 \in S
    BY <1>1, <1>2
  <2> HIDE DEF S
  <2> QED
    BY <2>1, Induction
<1>4. PICK k \in Nat : iu - k < lo
  <2>1. CASE iu >= lo
    <3>1. iu - lo + 1 \in Nat /\ iu - (iu - lo + 1) < lo
      BY <2>1
    <3> QED
      BY <3>1
  <2>2. CASE iu < lo
    <3>1. 0 \in Nat /\ iu - 0 < lo
      BY <2>2
    <3> QED
      BY <3>1
  <2> QED
    BY <2>1, <2>2
<1>5. Typed(k)
  BY <1>3
<1>6. \A f \in lo .. hi : g[f] \in Int
  BY <1>4, <1>5
<1> QED
  BY <1>6 DEF RunsDown

\* The result of a loop up is a number at every place.
LEMMA UpLoopType ==
  ASSUME NEW lo \in Int, NEW hi \in Int, NEW il \in Int, NEW iu \in Int,
         lo <= il, iu + 1 <= hi,
         NEW p \in [lo .. hi -> Int], NEW W \in [il .. iu -> Int], NEW g,
         RunsUp(g, lo, hi, il, iu, p, W)
  PROVE  g \in [lo .. hi -> Int]
<1>0. \A f \in lo .. hi : g[f] = IF f \in il + 1 .. iu + 1 THEN g[f - 1] - W[f - 1] ELSE p[f]
  BY DEF RunsUp
<1> DEFINE Typed(k) == \A f \in lo .. hi : f <= il + k => g[f] \in Int
           S == { k \in Nat : Typed(k) }
<1>1. Typed(0)
  BY <1>0
<1>2. ASSUME NEW k \in Nat, Typed(k)
      PROVE  Typed(k + 1)
  <2>1. ASSUME NEW f \in lo .. hi, f = il + (k + 1)
        PROVE  g[f] \in Int
    <3>1. CASE f \in il + 1 .. iu + 1
      <4>1. f - 1 \in lo .. hi /\ f - 1 <= il + k
        BY <2>1, <3>1
      <4>2. g[f - 1] \in Int /\ W[f - 1] \in Int /\ g[f] = g[f - 1] - W[f - 1]
        BY <1>0, <1>2, <3>1, <4>1
      <4> QED
        BY <4>2
    <3>2. CASE f \notin il + 1 .. iu + 1
      BY <1>0, <3>2
    <3> QED
      BY <3>1, <3>2
  <2>2. ASSUME NEW f \in lo .. hi, f <= il + (k + 1)
        PROVE  g[f] \in Int
    <3>1. f = il + (k + 1) \/ f <= il + k
      BY <2>2
    <3> QED
      BY <1>2, <2>1, <3>1
  <2> QED
    BY <2>2
<1>3. Nat \subseteq S
  <2> HIDE DEF Typed
  <2>1. 0 \in S /\ \A n \in Nat : n \in S => n + 1 \in S
    BY <1>1, <1>2
  <2> HIDE DEF S
  <2> QED
    BY <2>1, Induction
<1>4. PICK k \in Nat : il + k > hi
  <2>1. CASE hi >= il
    <3>1. hi - il + 1 \in Nat /\ il + (hi - il + 1) > hi
      BY <2>1
    <3> QED
      BY <3>1
  <2>2. CASE hi < il
    <3>1. 0 \in Nat /\ il + 0 > hi
      BY <2>2
    <3> QED
      BY <3>1
  <2> QED
    BY <2>1, <2>2
<1>5. Typed(k)
  BY <1>3
<1>6. \A f \in lo .. hi : g[f] \in Int
  BY <1>4, <1>5
<1> QED
  BY <1>6 DEF RunsUp

-----------------------------------------------------------------------------
(* The column.                                                              *)

LEMMA Sizes ==
  /\ nblocks \in Nat /\ nblocks > 0 /\ N \in Nat /\ N > 0 /\ NGHOST \in Nat /\ NGHOST > 0
  /\ Stages \in Nat /\ Stages > 0 /\ NGHOST <= N /\ ncells \in Nat /\ N <= ncells
<1>1. /\ nblocks \in Nat /\ nblocks > 0 /\ N \in Nat /\ N > 0 /\ NGHOST \in Nat /\ NGHOST > 0
      /\ Stages \in Nat /\ Stages > 0 /\ NGHOST <= N
  BY ColumnAssumption
<1>2. \A n \in Nat : n > 0 => n * N \in Nat /\ N <= n * N
  BY <1>1
<1> QED
  BY <1>1, <1>2 DEF ncells

\* Where the cells and faces of a block are in the column.
LEMMA GlobalRange ==
  ASSUME NEW b \in Block
  PROVE  /\ b \in Nat /\ b < nblocks /\ b * N \in Nat
         /\ b * N + N <= ncells
         /\ b = top => b * N + N = ncells
         /\ b # top => b + 1 \in Block /\ b * N + 2 * N <= ncells
         /\ b # 0 => b - 1 \in Block /\ N <= b * N
         /\ \A i \in Int : Global(b, i) = b * N + i /\ Global(b, i) \in Int
         /\ \A i \in Int : Global(b + 1, i) = Global(b, N + i)
         /\ \A i \in Int : Global(b - 1, i) = Global(b, i - N)
<1>1. b \in Nat /\ b < nblocks /\ b \in Int
  BY Sizes DEF Block
<1>2. \A m, n \in Nat : m <= n => m * N \in Nat /\ m * N <= n * N
  BY Sizes
<1>3. /\ (b + 1) * N = b * N + N /\ (b + 2) * N = b * N + 2 * N /\ (b - 1) * N = b * N - N
  BY <1>1, Sizes
<1>4. b * N \in Nat /\ (b + 1) * N <= nblocks * N
  BY <1>1, <1>2, Sizes
<1>5. b = top => (b + 1) * N = ncells
  BY <1>1, Sizes DEF top, ncells
<1>6. b # top => b + 1 \in Block /\ (b + 2) * N <= nblocks * N
  BY <1>1, <1>2, Sizes DEF top, Block
<1>7. b # 0 => b - 1 \in Block /\ 1 * N <= b * N
  BY <1>1, <1>2, Sizes DEF Block
<1>8. \A i \in Int : Global(b, i) = b * N + i /\ Global(b, i) \in Int
  BY <1>4 DEF Global
<1>9. \A i \in Int : Global(b + 1, i) = Global(b, N + i) /\ Global(b - 1, i) = Global(b, i - N)
  BY <1>3, <1>4, Sizes DEF Global
<1> QED
  BY <1>1, <1>3, <1>4, <1>5, <1>6, <1>7, <1>8, <1>9, Sizes DEF ncells

LEMMA WeightAt ==
  ASSUME NEW s \in 1 .. Stages, NEW g \in Int, -NGHOST <= g, g < ncells + NGHOST
  PROVE  /\ CellWeight(s, g) \in Int
         /\ g \in 0 .. ncells - 1 => CellWeight(s, g) = Weight(s, g)
<1>1. \A h \in 0 .. ncells - 1 : Weight(s, h) \in Int
  BY PressureAssumption
<1>2. CASE g \in 0 .. ncells - 1
  <2>1. CellWeight(s, g) = Weight(s, g)
    BY <1>2, Sizes DEF CellWeight
  <2> QED
    BY <1>1, <1>2, <2>1
<1>3. CASE g < 0
  <2> DEFINE h == IF inner_x1 = "reflect" THEN -1 - g ELSE 0
  <2>1. h \in 0 .. ncells - 1 /\ g \notin 0 .. ncells - 1
    BY <1>3, Sizes
  <2>2. CellWeight(s, g) = Weight(s, h)
    BY <1>3, <2>1, Sizes DEF CellWeight
  <2> HIDE DEF h
  <2> QED
    BY <1>1, <2>1, <2>2
<1>4. CASE g >= ncells
  <2> DEFINE h == IF outer_x1 = "reflect" THEN 2 * ncells - 1 - g ELSE ncells - 1
  <2>1. h \in 0 .. ncells - 1 /\ g \notin 0 .. ncells - 1 /\ ~ (g < 0)
    BY <1>4, Sizes
  <2>2. CellWeight(s, g) = Weight(s, h)
    BY <1>4, <2>1, Sizes DEF CellWeight
  <2> HIDE DEF h
  <2> QED
    BY <1>1, <2>1, <2>2
<1> QED
  BY <1>2, <1>3, <1>4, Sizes

LEMMA WeightType ==
  ASSUME NEW s \in 1 .. Stages, NEW b \in Block, NEW i \in Cell
  PROVE  /\ CellWeight(s, Global(b, i)) \in Int
         /\ Global(b, i) \in 0 .. ncells - 1 => CellWeight(s, Global(b, i)) = Weight(s, Global(b, i))
<1>1. i \in Int /\ -NGHOST <= i /\ i < N + NGHOST
  BY Sizes DEF Cell
<1>2. PICK m \in Nat : m + N <= ncells /\ Global(b, i) = m + i
  BY <1>1, GlobalRange
<1>3. Global(b, i) \in Int /\ -NGHOST <= Global(b, i) /\ Global(b, i) < ncells + NGHOST
  BY <1>1, <1>2, Sizes
<1> QED
  BY <1>3, WeightAt

LEMMA FaceRange ==
  Face = -NGHOST .. N + NGHOST /\ Cell = -NGHOST .. N + NGHOST - 1
BY DEF Face, Cell

LEMMA Downwards ==
  ASSUME NEW p \in [Face -> Int], NEW b \in Block, NEW s \in 1 .. Stages,
         NEW sign \in {-1, 1}, NEW il \in Cell, NEW iu \in Cell
  PROVE  /\ IntegrateDownwards(p, b, s, sign, il, iu) \in [Face -> Int]
         /\ \A f \in Face :
              IntegrateDownwards(p, b, s, sign, il, iu)[f] =
                IF f \in il .. iu
                THEN IntegrateDownwards(p, b, s, sign, il, iu)[f + 1]
                     + sign * CellWeight(s, Global(b, f))
                ELSE p[f]
<1> DEFINE W == [i \in il .. iu |-> sign * CellWeight(s, Global(b, i))]
           Run(g) == g = [f \in Face |->
                            IF f \in il .. iu THEN g[f + 1] + sign * CellWeight(s, Global(b, f))
                            ELSE p[f]]
<1>1. W \in [il .. iu -> Int]
  <2>1. \A i \in il .. iu : i \in Cell
    BY FaceRange, Sizes
  <2>2. \A i \in il .. iu : CellWeight(s, Global(b, i)) \in Int
    BY <2>1, WeightType
  <2> QED
    BY <2>2
<1>2. PICK lo \in Int, hi \in Int :
        Face = lo .. hi /\ il \in Int /\ iu \in Int /\ lo <= il /\ iu + 1 <= hi
  BY FaceRange, Sizes
<1>3. p \in [lo .. hi -> Int]
  BY <1>2
<1>4. \A g : Run(g) <=> RunsDown(g, lo, hi, il, iu, p, W)
  BY <1>2 DEF RunsDown
<1>5. \E g : Run(g)
  <2> HIDE DEF W, Run
  <2> QED
    BY <1>1, <1>2, <1>3, <1>4, DownLoop
<1>6. IntegrateDownwards(p, b, s, sign, il, iu) = CHOOSE q : Run(q)
  BY DEF IntegrateDownwards
<1>7. Run(IntegrateDownwards(p, b, s, sign, il, iu))
  <2> HIDE DEF Run
  <2> QED
    BY <1>5, <1>6
<1>8. \A g : Run(g) => g \in [Face -> Int]
  <2> HIDE DEF W, Run
  <2> QED
    BY <1>1, <1>2, <1>3, <1>4, DownLoopType
<1> QED
  BY <1>7, <1>8

LEMMA Upwards ==
  ASSUME NEW p \in [Face -> Int], NEW b \in Block, NEW s \in 1 .. Stages,
         NEW sign \in {-1, 1}, NEW il \in Cell, NEW iu \in Cell
  PROVE  /\ IntegrateUpwards(p, b, s, sign, il, iu) \in [Face -> Int]
         /\ \A f \in Face :
              IntegrateUpwards(p, b, s, sign, il, iu)[f] =
                IF f \in il + 1 .. iu + 1
                THEN IntegrateUpwards(p, b, s, sign, il, iu)[f - 1]
                     - sign * CellWeight(s, Global(b, f - 1))
                ELSE p[f]
<1> DEFINE W == [i \in il .. iu |-> sign * CellWeight(s, Global(b, i))]
           Run(g) == g = [f \in Face |->
                            IF f \in il + 1 .. iu + 1 THEN g[f - 1] - sign * CellWeight(s, Global(b, f - 1))
                            ELSE p[f]]
<1>1. W \in [il .. iu -> Int]
  <2>1. \A i \in il .. iu : i \in Cell
    BY FaceRange, Sizes
  <2>2. \A i \in il .. iu : CellWeight(s, Global(b, i)) \in Int
    BY <2>1, WeightType
  <2> QED
    BY <2>2
<1>2. PICK lo \in Int, hi \in Int :
        Face = lo .. hi /\ il \in Int /\ iu \in Int /\ lo <= il /\ iu + 1 <= hi
  BY FaceRange, Sizes
<1>3. p \in [lo .. hi -> Int]
  BY <1>2
<1>4. \A g : Run(g) <=> RunsUp(g, lo, hi, il, iu, p, W)
  BY <1>2 DEF RunsUp
<1>5. \E g : Run(g)
  <2> HIDE DEF W, Run
  <2> QED
    BY <1>1, <1>2, <1>3, <1>4, UpLoop
<1>6. IntegrateUpwards(p, b, s, sign, il, iu) = CHOOSE q : Run(q)
  BY DEF IntegrateUpwards
<1>7. Run(IntegrateUpwards(p, b, s, sign, il, iu))
  <2> HIDE DEF Run
  <2> QED
    BY <1>5, <1>6
<1>8. \A g : Run(g) => g \in [Face -> Int]
  <2> HIDE DEF W, Run
  <2> QED
    BY <1>1, <1>2, <1>3, <1>4, UpLoopType
<1> QED
  BY <1>7, <1>8

LEMMA AboveFact ==
  ASSUME NEW s \in 1 .. Stages
  PROVE  /\ AirAbove(s) \in [0 .. ncells -> Int] /\ AirAbove(s)[ncells] = 0
         /\ \A g \in 0 .. ncells - 1 : AirAbove(s)[g] = AirAbove(s)[g + 1] + Weight(s, g)
<1> DEFINE last == ncells - 1
           W == [g \in 0 .. last |-> Weight(s, g)]
           zero == [g \in 0 .. ncells |-> 0]
           Run(w) == w = [g \in 0 .. ncells |-> IF g = ncells THEN 0 ELSE w[g + 1] + Weight(s, g)]
<1>1. W \in [0 .. last -> Int] /\ zero \in [0 .. ncells -> Int]
  BY PressureAssumption
<1>2. \A w : Run(w) <=> RunsDown(w, 0, ncells, 0, last, zero, W)
  BY Sizes DEF RunsDown
<1>3. 0 \in Int /\ ncells \in Int /\ last \in Int /\ 0 <= 0 /\ last + 1 <= ncells
  BY Sizes
<1>4. \E w : Run(w)
  <2> HIDE DEF last, W, zero, Run
  <2> QED
    BY <1>1, <1>2, <1>3, DownLoop
<1>5. AirAbove(s) = CHOOSE w : Run(w)
  BY DEF AirAbove
<1>6. Run(AirAbove(s))
  <2> HIDE DEF Run
  <2> QED
    BY <1>4, <1>5
<1>7. ASSUME NEW w, Run(w)
      PROVE  w \in [0 .. ncells -> Int]
  <2>1. RunsDown(w, 0, ncells, 0, last, zero, W)
    BY <1>2, <1>7
  <2> HIDE DEF last, W, zero, Run
  <2> QED
    BY <1>1, <1>3, <2>1, DownLoopType
<1>8. AirAbove(s) \in [0 .. ncells -> Int]
  <2> HIDE DEF Run
  <2> QED
    BY <1>6, <1>7
<1> QED
  BY <1>6, <1>8, Sizes

\* Two pressures that change alike and agree at the top are the same.
LEMMA Agree ==
  ASSUME NEW n \in Nat, NEW f, NEW g,
         \A i \in 0 .. n : f[i] \in Int /\ g[i] \in Int,
         \A i \in 0 .. n - 1 : f[i] - f[i + 1] = g[i] - g[i + 1],
         f[n] = g[n]
  PROVE  \A i \in 0 .. n : f[i] = g[i]
<1> DEFINE Same(k) == \A i \in 0 .. n : i >= n - k => f[i] = g[i]
           S == { k \in Nat : Same(k) }
<1>1. Same(0)
  OBVIOUS
<1>2. ASSUME NEW k \in Nat, Same(k)
      PROVE  Same(k + 1)
  <2>1. ASSUME NEW i \in 0 .. n, i = n - (k + 1)
        PROVE  f[i] = g[i]
    <3>1. i \in 0 .. n - 1 /\ i + 1 \in 0 .. n /\ i + 1 >= n - k
      BY <2>1
    <3>2. f[i + 1] = g[i + 1] /\ f[i] - f[i + 1] = g[i] - g[i + 1]
      BY <1>2, <3>1
    <3>3. f[i] \in Int /\ g[i] \in Int /\ f[i + 1] \in Int
      BY <3>1
    <3> QED
      BY <3>2, <3>3
  <2>2. ASSUME NEW i \in 0 .. n, i >= n - (k + 1)
        PROVE  f[i] = g[i]
    <3>1. i = n - (k + 1) \/ i >= n - k
      BY <2>2
    <3> QED
      BY <1>2, <2>1, <3>1
  <2> QED
    BY <2>2
<1>3. Nat \subseteq S
  <2> HIDE DEF Same
  <2>1. 0 \in S /\ \A k \in Nat : k \in S => k + 1 \in S
    BY <1>1, <1>2
  <2> HIDE DEF S
  <2> QED
    BY <2>1, Induction
<1>4. Same(n)
  BY <1>3
<1> QED
  BY <1>4

\* The pressure at the lower face of the column's cell g at stage s.
Pressure(s, g) == TopPressure(s) + AirAbove(s)[g]

LEMMA PressureFact ==
  ASSUME NEW s \in 1 .. Stages
  PROVE  /\ \A g \in 0 .. ncells : Pressure(s, g) \in Int
         /\ Pressure(s, ncells) = TopPressure(s)
         /\ \A g \in 0 .. ncells - 1 : Pressure(s, g) - Pressure(s, g + 1) = Weight(s, g)
<1>1. TopPressure(s) \in Int /\ \A g \in 0 .. ncells - 1 : Weight(s, g) \in Int
  BY PressureAssumption
<1>2. /\ \A g \in 0 .. ncells : AirAbove(s)[g] \in Int
      /\ AirAbove(s)[ncells] = 0
      /\ \A g \in 0 .. ncells - 1 :
           g + 1 \in 0 .. ncells /\ AirAbove(s)[g] = AirAbove(s)[g + 1] + Weight(s, g)
  BY AboveFact, Sizes
<1> QED
  BY <1>1, <1>2, Sizes DEF Pressure

-----------------------------------------------------------------------------
(* The inductive invariant.                                                 *)

Data == [0 .. NGHOST -> Int]
Message == [kept : Data \union {Nil}]

Typed ==
  /\ form \in Forms
  /\ stage \in [Block -> 1 .. Stages + 1]
  /\ pc \in [Block -> {"start", "allgather", "bottom", "wait", "done"}]
  /\ \A b \in Block : pc[b] = "done" <=> stage[b] = Stages + 1
  /\ \A b \in Block : pc[b] \in {"allgather", "bottom"} => form = "perturbation"
  /\ \A b \in Block : pc[b] = "bottom" => b # 0
  /\ psf \in [Block -> [Face -> Int]]
  /\ buf \in [Block -> [Block -> Data \union {Nil}]]
  /\ net \in [Block -> [Block -> Seq(Message)]]

\* The stage of block b's last Descend, and of the last message that it has
\* taken from block a.
Descended(b) == IF pc[b] \in {"bottom", "wait"} THEN stage[b] ELSE stage[b] - 1
Taken(a, b) == IF b < a THEN Descended(b) ELSE Completed(b)

\* What a sends to b at stage s: in the perturbation form the pressure at the
\* faces next to their interface, counted in the column; in the temperature form
\* the first face is that of the top of the column, whoever sends it.
FirstFace(a, b) == IF b < a THEN Global(a, 0) ELSE Global(a, N - NGHOST)

Carries(a, b, s, data) ==
  /\ data \in Data
  /\ form = "perturbation" =>
       \A n \in 0 .. NGHOST : data[n] = Pressure(s, FirstFace(a, b) + n)
  /\ form = "temperature" => data[0] = TopPressure(s)

\* Messages under way are of consecutive stages, and what is in the buffer is
\* of the sender's stage until MPI has copied it.
Channel(a, b) ==
  /\ Len(net[a][b]) = Descended(a) - Taken(a, b)
  /\ \A n \in 1 .. Len(net[a][b]) :
       IF net[a][b][n].kept = Nil
       THEN pc[a] \in {"bottom", "wait"} /\ n = Len(net[a][b])
       ELSE Carries(a, b, Taken(a, b) + n, net[a][b][n].kept)
  /\ pc[a] \in {"bottom", "wait"} => Carries(a, b, stage[a], buf[a][b])

Channels ==
  \A a, b \in Block : IF b \in Receivers(a) THEN Channel(a, b) ELSE net[a][b] = <<>>

\* In the perturbation form psf_ is the pressure at every face of the column,
\* ghost faces included; in the temperature form it is in balance, from the
\* pressure that the stage has at the top of the column.
PressureAt(b, s, f) ==
  Global(b, f) \in 0 .. ncells => psf[b][f] = Pressure(s, Global(b, f))

BalancedAt(b, s) ==
  \A i \in Cell : Global(b, i) \in 0 .. ncells - 1 =>
    psf[b][i] - psf[b][i + 1] = Weight(s, Global(b, i))

HasPressure(b) ==
  /\ form = "perturbation" /\ pc[b] = "bottom" =>
       \A f \in Face : f >= 0 => PressureAt(b, stage[b], f)
  /\ form = "perturbation" /\ Whole(b) =>
       \A f \in Face : PressureAt(b, Completed(b), f)
  /\ form = "temperature" /\ Whole(b) =>
       BalancedAt(b, Completed(b)) /\ psf[b][N] = TopPressure(Completed(b))

IInv == Typed /\ Channels /\ \A b \in Block : HasPressure(b)

\* It has what is to be proved.
LEMMA InvBalanced == IInv => Balanced
<1> SUFFICES ASSUME IInv, NEW b \in Block, Whole(b), NEW i \in Cell,
                    Global(b, i) \in 0 .. ncells - 1
             PROVE  psf[b][i] - psf[b][i + 1] = Weight(Completed(b), Global(b, i))
  BY DEF Balanced
<1>1. form \in {"perturbation", "temperature"}
  BY ColumnAssumption DEF IInv, Typed
<1>2. CASE form = "temperature"
  BY <1>2 DEF IInv, HasPressure, BalancedAt
<1>3. CASE form = "perturbation"
  <2>1. i \in Face /\ i + 1 \in Face /\ i \in Int
    BY FaceRange, Sizes
  <2>2. Global(b, i + 1) = Global(b, i) + 1
    <3>1. PICK m \in Nat : \A j \in Int : Global(b, j) = m + j
      BY GlobalRange
    <3> QED
      BY <2>1, <3>1
  <2>3. Global(b, i) \in 0 .. ncells /\ Global(b, i + 1) \in 0 .. ncells
    BY <2>2, Sizes
  <2>4. \A f \in Face : PressureAt(b, Completed(b), f)
    BY <1>3 DEF IInv, HasPressure
  <2>5. /\ psf[b][i] = Pressure(Completed(b), Global(b, i))
        /\ psf[b][i + 1] = Pressure(Completed(b), Global(b, i) + 1)
    BY <2>1, <2>2, <2>3, <2>4 DEF PressureAt
  <2>6. Completed(b) \in 1 .. Stages
    BY Sizes DEF IInv, Typed, Whole, Completed
  <2> QED
    BY <2>5, <2>6, PressureFact
<1> QED
  BY <1>1, <1>2, <1>3

LEMMA InvTop == IInv => PressureOfStage
<1> SUFFICES ASSUME IInv, NEW b \in Block, Whole(b)
             PROVE  \E g \in StartFaces(b) : psf[b][N] = Pressure(Completed(b), g)
  BY DEF PressureOfStage, Pressure
<1>1. /\ form \in {"perturbation", "temperature"}
      /\ Completed(b) \in 1 .. Stages /\ HasPressure(b)
  BY ColumnAssumption, Sizes DEF IInv, Typed, Whole, Completed
<1>2. Global(b, N) \in 0 .. ncells
  <2>1. PICK m \in Nat : m + N <= ncells /\ \A j \in Int : Global(b, j) = m + j
    BY GlobalRange
  <2> QED
    BY <2>1, Sizes
<1>3. CASE form = "perturbation"
  <2>1. N \in Face
    BY FaceRange, Sizes
  <2>2. psf[b][N] = Pressure(Completed(b), Global(b, N))
    BY <1>1, <1>2, <1>3, <2>1 DEF HasPressure, PressureAt
  <2> QED
    BY <1>3, <2>2 DEF StartFaces
<1>4. CASE form = "temperature"
  <2>1. ncells \in Global(b, N) .. ncells
    BY <1>2, Sizes
  <2>2. psf[b][N] = Pressure(Completed(b), ncells)
    BY <1>1, <1>4, PressureFact DEF HasPressure
  <2> QED
    BY <1>4, <2>1, <2>2 DEF StartFaces
<1> QED
  BY <1>1, <1>3, <1>4

LEMMA InvType == IInv => TypeOK
<1> SUFFICES ASSUME IInv PROVE TypeOK
  OBVIOUS
<1>1. \A b \in Block : DOMAIN psf[b] = Face /\ \A f \in Face : psf[b][f] \in Int
  BY DEF IInv, Typed
<1>2. ASSUME NEW a \in Block, NEW b \in Block, a # b + 1, b # a + 1
      PROVE  net[a][b] = <<>>
  <2>1. b \notin Receivers(a)
    BY <1>2, Sizes DEF Receivers, Block
  <2> QED
    BY <2>1 DEF IInv, Channels
<1> QED
  BY <1>1, <1>2 DEF IInv, Typed, TypeOK

-----------------------------------------------------------------------------
(* Each action preserves it.                                                *)

LEMMA InitStep == Init => IInv
<1> SUFFICES ASSUME Init PROVE IInv
  OBVIOUS
<1>1. Typed
  BY Sizes DEF Init, Typed
<1>2. \A a \in Block : Descended(a) = 0 /\ Completed(a) = 0
  BY DEF Init, Descended, Completed
<1>3. Channels
  <2> SUFFICES ASSUME NEW a \in Block, NEW b \in Block, b \in Receivers(a)
               PROVE  Channel(a, b)
    BY DEF Init, Channels
  <2> QED
    BY <1>2 DEF Init, Channel, Taken
<1>4. \A b \in Block : HasPressure(b)
  BY <1>2 DEF Init, HasPressure, Whole
<1> QED
  BY <1>1, <1>3, <1>4 DEF IInv

\* What the state functions of the invariant depend on.
LEMMA Unchanged ==
  ASSUME form' = form, NEW b \in Block, stage'[b] = stage[b], pc'[b] = pc[b]
  PROVE  /\ Descended(b)' = Descended(b) /\ Completed(b)' = Completed(b)
         /\ Whole(b)' = Whole(b)
         /\ psf'[b] = psf[b] /\ HasPressure(b) => HasPressure(b)'
BY DEF Descended, Completed, Whole, HasPressure, PressureAt, BalancedAt

LEMMA CarriesKept ==
  ASSUME form' = form, NEW a, NEW b, NEW s, NEW data
  PROVE  Carries(a, b, s, data)' <=> Carries(a, b, s, data)
BY DEF Carries, FirstFace, Pressure

\* A block that goes to the next stage, or waits for the others to enter it, has
\* taken and sent what it had before.
LEMMA SameCounts ==
  ASSUME IInv, NEW b \in Block, form' = form,
         \/ stage' = stage /\ pc[b] = "start" /\ pc' = [pc EXCEPT ![b] = "allgather"]
         \/ pc[b] = "wait" /\ NextStage(b)
  PROVE  /\ \A a \in Block : Descended(a)' = Descended(a) /\ Completed(a)' = Completed(a)
         /\ \A a \in Block : Whole(a)' = Whole(a)
         /\ \A a \in Block : a # b => pc'[a] = pc[a] /\ stage'[a] = stage[a]
         /\ pc'[b] \notin {"bottom", "wait"}
<1>1. /\ pc \in [Block -> {"start", "allgather", "bottom", "wait", "done"}]
      /\ stage \in [Block -> 1 .. Stages + 1]
  BY DEF IInv, Typed
<1>2. \A a \in Block : a # b => pc'[a] = pc[a] /\ stage'[a] = stage[a]
  BY <1>1 DEF NextStage
<1>3. CASE stage' = stage /\ pc[b] = "start" /\ pc' = [pc EXCEPT ![b] = "allgather"]
  BY <1>1, <1>2, <1>3 DEF Descended, Completed, Whole
<1>4. CASE pc[b] = "wait" /\ NextStage(b)
  <2>1. pc'[b] \in {"start", "done"} /\ stage'[b] = stage[b] + 1
    BY <1>1, <1>4 DEF NextStage
  <2>2. stage[b] \in Int
    BY <1>1
  <2> QED
    BY <1>2, <1>4, <2>1, <2>2 DEF Descended, Completed, Whole
<1> QED
  BY <1>3, <1>4

LEMMA SamePressure ==
  ASSUME IInv, NEW b \in Block, form' = form, psf' = psf,
         \/ stage' = stage /\ pc[b] = "start" /\ pc' = [pc EXCEPT ![b] = "allgather"]
         \/ pc[b] = "wait" /\ NextStage(b)
  PROVE  \A a \in Block : HasPressure(a)'
<1> SUFFICES ASSUME NEW a \in Block PROVE HasPressure(a)'
  OBVIOUS
<1>1. HasPressure(a) /\ Completed(a)' = Completed(a) /\ Whole(a)' = Whole(a)
  BY SameCounts DEF IInv
<1>2. pc'[a] = "bottom" => pc[a] = "bottom" /\ stage'[a] = stage[a]
  BY SameCounts
<1> QED
  BY <1>1, <1>2 DEF HasPressure, PressureAt, BalancedAt, Pressure

LEMMA FindNeighborsStep ==
  ASSUME IInv, NEW b \in Block, FindNeighbors(b)
  PROVE  IInv'
<1>1. Typed'
  BY DEF IInv, Typed, FindNeighbors
<1>2. \A a \in Block : Descended(a)' = Descended(a) /\ Completed(a)' = Completed(a)
  BY SameCounts DEF FindNeighbors
<1>3. \A a \in Block : pc'[a] \in {"bottom", "wait"} <=> pc[a] \in {"bottom", "wait"}
  BY DEF IInv, Typed, FindNeighbors
<1>4. Channels'
  <2> SUFFICES ASSUME NEW a \in Block, NEW c \in Block
               PROVE  IF c \in Receivers(a)' THEN Channel(a, c)' ELSE net'[a][c] = <<>>
    BY DEF Channels
  <2>1. Receivers(a)' = Receivers(a) /\ net' = net /\ buf' = buf /\ stage' = stage
    BY DEF FindNeighbors, Receivers
  <2>2. Taken(a, c)' = Taken(a, c)
    BY <1>2 DEF Taken
  <2>3. \A s, data : Carries(a, c, s, data)' <=> Carries(a, c, s, data)
    BY CarriesKept DEF FindNeighbors
  <2>4. c \in Receivers(a) => Channel(a, c)'
    BY <1>2, <1>3, <2>1, <2>2, <2>3 DEF IInv, Channels, Channel
  <2> QED
    BY <2>1, <2>4 DEF IInv, Channels
<1>5. \A a \in Block : HasPressure(a)'
  BY SamePressure DEF FindNeighbors
<1> QED
  BY <1>1, <1>4, <1>5 DEF IInv

LEMMA TypedNext ==
  ASSUME IInv, NEW b \in Block, form' = form, psf' = psf, buf' = buf,
         pc[b] = "wait", NextStage(b),
         net' \in [Block -> [Block -> Seq(Message)]]
  PROVE  Typed'
<1>1. stage[b] \in 1 .. Stages
  BY Sizes DEF IInv, Typed
<1>2. /\ stage' = [stage EXCEPT ![b] = @ + 1]
      /\ pc' = [pc EXCEPT ![b] = IF stage[b] = Stages THEN "done" ELSE "start"]
  BY DEF NextStage
<1>3. stage' \in [Block -> 1 .. Stages + 1]
  BY <1>1, <1>2, Sizes DEF IInv, Typed
<1>4. pc' \in [Block -> {"start", "allgather", "bottom", "wait", "done"}]
  BY <1>2 DEF IInv, Typed
<1>5. ASSUME NEW a \in Block
      PROVE  /\ pc'[a] = "done" <=> stage'[a] = Stages + 1
             /\ pc'[a] \in {"allgather", "bottom"} => form' = "perturbation"
             /\ pc'[a] = "bottom" => a # 0
  <2>1. CASE a = b
    BY <1>1, <1>2, <2>1, Sizes DEF IInv, Typed
  <2>2. CASE a # b
    BY <1>2, <2>2 DEF IInv, Typed
  <2> QED
    BY <2>1, <2>2
<1> QED
  BY <1>3, <1>4, <1>5 DEF IInv, Typed

LEMMA WaitStep ==
  ASSUME IInv, NEW b \in Block, Wait(b)
  PROVE  IInv'
<1>0. /\ pc[b] = "wait" /\ NextStage(b) /\ form' = form /\ psf' = psf /\ buf' = buf /\ net' = net
      /\ ~ Pending(b)
  BY DEF Wait
<1>1. Typed'
  BY <1>0, TypedNext DEF IInv, Typed
<1>2. /\ \A a \in Block : Descended(a)' = Descended(a) /\ Completed(a)' = Completed(a)
      /\ \A a \in Block : a # b => pc'[a] = pc[a] /\ stage'[a] = stage[a]
      /\ pc'[b] \notin {"bottom", "wait"}
  BY <1>0, SameCounts
<1>3. Channels'
  <2> SUFFICES ASSUME NEW a \in Block, NEW c \in Block
               PROVE  IF c \in Receivers(a)' THEN Channel(a, c)' ELSE net'[a][c] = <<>>
    BY DEF Channels
  <2>1. Receivers(a)' = Receivers(a)
    BY <1>0 DEF Receivers
  <2>2. Taken(a, c)' = Taken(a, c)
    BY <1>2 DEF Taken
  <2>3. \A s, data : Carries(a, c, s, data)' <=> Carries(a, c, s, data)
    BY <1>0, CarriesKept
  <2>4. a = b => \A n \in 1 .. Len(net[a][c]) : net[a][c][n].kept # Nil
    BY <1>0 DEF IInv, Typed, Pending
  <2>5. c \in Receivers(a) => Channel(a, c)'
    <3> SUFFICES ASSUME c \in Receivers(a) PROVE Channel(a, c)'
      OBVIOUS
    <3>1. Channel(a, c)
      BY DEF IInv, Channels
    <3>2. CASE a # b
      BY <1>0, <1>2, <2>2, <2>3, <3>1, <3>2 DEF Channel
    <3>3. CASE a = b
      BY <1>0, <1>2, <2>2, <2>3, <2>4, <3>1, <3>3 DEF Channel
    <3> QED
      BY <3>2, <3>3
  <2> QED
    BY <1>0, <2>1, <2>5 DEF IInv, Channels
<1>4. \A a \in Block : HasPressure(a)'
  BY <1>0, SamePressure
<1> QED
  BY <1>1, <1>3, <1>4 DEF IInv

\* What a message holds when it is taken or copied.
LEMMA ContentRight ==
  ASSUME IInv, NEW a \in Block, NEW b \in Receivers(a), NEW n \in 1 .. Len(net[a][b])
  PROVE  /\ Carries(a, b, Taken(a, b) + n, Content(a, b, net[a][b][n]))
         /\ Content(a, b, net[a][b][n]) \in Data
         /\ Content(a, b, net[a][b][n]) # Nil
<1>1. Channel(a, b) /\ b \in Block
  BY DEF IInv, Channels, Receivers
<1>2. CASE net[a][b][n].kept = Nil
  <2>1. pc[a] \in {"bottom", "wait"} /\ n = Len(net[a][b])
    BY <1>1, <1>2 DEF Channel
  <2>2. Carries(a, b, stage[a], buf[a][b])
    BY <1>1, <2>1 DEF Channel
  <2>3. Taken(a, b) + n = stage[a]
    <3>1. Len(net[a][b]) = Descended(a) - Taken(a, b) /\ Descended(a) = stage[a]
      BY <1>1, <2>1 DEF Channel, Descended
    <3>2. stage[a] \in Int /\ Taken(a, b) \in Int
      BY <1>1 DEF IInv, Typed, Taken, Descended, Completed
    <3> QED
      BY <2>1, <3>1, <3>2
  <2> QED
    BY <1>2, <2>2, <2>3, NilAssumption DEF Content, Carries, Data
<1>3. CASE net[a][b][n].kept # Nil
  BY <1>1, <1>3, NilAssumption DEF Content, Carries, Data, Channel
<1> QED
  BY <1>2, <1>3

LEMMA AsSequence ==
  ASSUME NEW S, NEW l \in Nat, NEW f \in [1 .. l -> S]
  PROVE  f \in Seq(S) /\ Len(f) = l
OBVIOUS

LEMMA WaitBufferedStep ==
  ASSUME IInv, NEW b \in Block, WaitBuffered(b)
  PROVE  IInv'
<1>0. /\ pc[b] = "wait" /\ NextStage(b) /\ form' = form /\ psf' = psf /\ buf' = buf
      /\ net' = [net EXCEPT ![b] = [a \in Block |-> [n \in DOMAIN @[a] |->
                  [kept |-> Content(b, a, net[b][a][n])]]]]
  BY DEF WaitBuffered
<1>1. /\ net \in [Block -> [Block -> Seq(Message)]]
      /\ \A a, c \in Block : a # b => net'[a][c] = net[a][c]
      /\ \A c \in Block :
           net'[b][c] = [n \in 1 .. Len(net[b][c]) |-> [kept |-> Content(b, c, net[b][c][n])]]
  BY <1>0 DEF IInv, Typed
<1>2. \A c \in Block : \A n \in 1 .. Len(net[b][c]) :
        /\ Content(b, c, net[b][c][n]) \in Data
        /\ Content(b, c, net[b][c][n]) # Nil
        /\ c \in Receivers(b)
        /\ Carries(b, c, Taken(b, c) + n, Content(b, c, net[b][c][n]))
  <2> SUFFICES ASSUME NEW c \in Block, NEW n \in 1 .. Len(net[b][c])
               PROVE  /\ Content(b, c, net[b][c][n]) \in Data
                      /\ Content(b, c, net[b][c][n]) # Nil
                      /\ c \in Receivers(b)
                      /\ Carries(b, c, Taken(b, c) + n, Content(b, c, net[b][c][n]))
    OBVIOUS
  <2>1. c \in Receivers(b)
    BY DEF IInv, Channels
  <2> QED
    BY <2>1, ContentRight
<1>3. \A c \in Block : net'[b][c] \in Seq(Message) /\ Len(net'[b][c]) = Len(net[b][c])
  <2> SUFFICES ASSUME NEW c \in Block
               PROVE  net'[b][c] \in Seq(Message) /\ Len(net'[b][c]) = Len(net[b][c])
    OBVIOUS
  <2> DEFINE l == Len(net[b][c])
  <2>1. l \in Nat
    BY <1>1
  <2>2. \A n \in 1 .. l : [kept |-> Content(b, c, net[b][c][n])] \in Message
    BY <1>2 DEF Message
  <2>3. net'[b][c] \in [1 .. l -> Message]
    <3>1. net'[b][c] = [n \in 1 .. l |-> [kept |-> Content(b, c, net[b][c][n])]]
      BY <1>1
    <3> HIDE DEF l
    <3> QED
      BY <2>2, <3>1
  <2>4. net'[b][c] \in Seq(Message) /\ Len(net'[b][c]) = l
    <3> HIDE DEF l
    <3> QED
      BY <2>1, <2>3, AsSequence
  <2> QED
    BY <2>4
<1>8. net' \in [Block -> [Block -> Seq(Message)]]
  <2>2. net' = [a \in Block |-> IF a = b THEN [c \in Block |-> net'[b][c]] ELSE net[a]]
    BY <1>0, <1>1
  <2> QED
    BY <1>1, <1>3, <2>2
<1>4. Typed'
  BY <1>0, <1>8, TypedNext
<1>5. /\ \A a \in Block : Descended(a)' = Descended(a) /\ Completed(a)' = Completed(a)
      /\ \A a \in Block : a # b => pc'[a] = pc[a] /\ stage'[a] = stage[a]
      /\ pc'[b] \notin {"bottom", "wait"}
  BY <1>0, SameCounts
<1>6. Channels'
  <2> SUFFICES ASSUME NEW a \in Block, NEW c \in Block
               PROVE  IF c \in Receivers(a)' THEN Channel(a, c)' ELSE net'[a][c] = <<>>
    BY DEF Channels
  <2>1. Receivers(a)' = Receivers(a)
    BY <1>0 DEF Receivers
  <2>2. Taken(a, c)' = Taken(a, c)
    BY <1>5 DEF Taken
  <2>3. \A s, data : Carries(a, c, s, data)' <=> Carries(a, c, s, data)
    BY <1>0, CarriesKept
  <2>4. CASE a # b
    <3>1. c \in Receivers(a) => Channel(a, c)'
      BY <1>0, <1>1, <1>5, <2>2, <2>3, <2>4 DEF IInv, Channels, Channel
    <3> QED
      BY <1>1, <2>1, <2>4, <3>1 DEF IInv, Channels
  <2>5. CASE a = b /\ c \in Receivers(a)
    <3>1. Channel(b, c)
      BY <2>5 DEF IInv, Channels
    <3>2. Len(net'[b][c]) = Len(net[b][c])
      BY <1>3
    <3>3. \A n \in 1 .. Len(net[b][c]) :
            /\ net'[b][c][n].kept = Content(b, c, net[b][c][n])
            /\ net'[b][c][n].kept # Nil
            /\ Carries(b, c, Taken(b, c) + n, net'[b][c][n].kept)
      <4> SUFFICES ASSUME NEW n \in 1 .. Len(net[b][c])
                   PROVE  net'[b][c][n].kept = Content(b, c, net[b][c][n])
        BY <1>2
      <4> DEFINE M(k) == [kept |-> Content(b, c, net[b][c][k])]
      <4>1. net'[b][c][n] = M(n)
        <5>1. net'[b][c] = [k \in 1 .. Len(net[b][c]) |-> M(k)]
          BY <1>1
        <5> HIDE DEF M
        <5> QED
          BY <5>1
      <4> QED
        BY <4>1
    <3> QED
      BY <1>5, <2>1, <2>2, <2>3, <2>5, <3>1, <3>2, <3>3 DEF Channel
  <2>6. CASE a = b /\ c \notin Receivers(a)
    <3>1. net[b][c] = <<>>
      BY <2>6 DEF IInv, Channels
    <3>2. net'[b][c] \in Seq(Message) /\ Len(net'[b][c]) = 0
      BY <1>3, <3>1
    <3> QED
      BY <2>1, <2>6, <3>2
  <2> QED
    BY <2>4, <2>5, <2>6
<1>7. \A a \in Block : HasPressure(a)'
  BY <1>0, SamePressure
<1> QED
  BY <1>4, <1>6, <1>7 DEF IInv


LEMMA ChannelKept ==
  ASSUME IInv, NEW a \in Block, NEW b \in Receivers(a), net'[a][b] = net[a][b], form' = form,
         Descended(a)' = Descended(a), Taken(a, b)' = Taken(a, b),
         stage'[a] = stage[a], buf'[a] = buf[a],
         pc'[a] \in {"bottom", "wait"} <=> pc[a] \in {"bottom", "wait"}
  PROVE  Channel(a, b)'
<1>1. Channel(a, b)
  BY DEF IInv, Channels, Receivers
<1>2. \A s, data : Carries(a, b, s, data)' <=> Carries(a, b, s, data)
  BY CarriesKept
<1> QED
  BY <1>1, <1>2 DEF Channel

\* The oldest message of a channel is taken.
LEMMA ChannelTaken ==
  ASSUME IInv, NEW a \in Block, NEW b \in Receivers(a), net[a][b] # <<>>,
         net'[a][b] = Tail(net[a][b]), form' = form,
         Descended(a)' = Descended(a), Taken(a, b)' = Taken(a, b) + 1,
         stage'[a] = stage[a], buf'[a] = buf[a],
         pc'[a] \in {"bottom", "wait"} <=> pc[a] \in {"bottom", "wait"}
  PROVE  Channel(a, b)'
<1>1. Channel(a, b) /\ b \in Block
  BY DEF IInv, Channels, Receivers
<1>2. \A s, data : Carries(a, b, s, data)' <=> Carries(a, b, s, data)
  BY CarriesKept
<1>3. net[a][b] \in Seq(Message)
  BY <1>1 DEF IInv, Typed
<1>4. /\ Len(net'[a][b]) = Len(net[a][b]) - 1 /\ Len(net[a][b]) \in Nat
      /\ \A n \in 1 .. Len(net'[a][b]) :
           n + 1 \in 1 .. Len(net[a][b]) /\ net'[a][b][n] = net[a][b][n + 1]
  BY <1>3
<1>5. Taken(a, b) \in Int /\ Descended(a) \in Int
  BY <1>1 DEF IInv, Typed, Taken, Descended, Completed
<1>6. Len(net'[a][b]) = Descended(a)' - Taken(a, b)'
  BY <1>1, <1>4, <1>5 DEF Channel
<1>7. ASSUME NEW n \in 1 .. Len(net'[a][b])
      PROVE  (IF net[a][b][n].kept = Nil
              THEN pc[a] \in {"bottom", "wait"} /\ n = Len(net[a][b])
              ELSE Carries(a, b, Taken(a, b) + n, net[a][b][n].kept))'
  <2>1. Taken(a, b)' + n = Taken(a, b) + (n + 1)
    BY <1>4, <1>5
  <2>2. IF net[a][b][n + 1].kept = Nil
        THEN pc[a] \in {"bottom", "wait"} /\ n + 1 = Len(net[a][b])
        ELSE Carries(a, b, Taken(a, b) + (n + 1), net[a][b][n + 1].kept)
    BY <1>1, <1>4 DEF Channel
  <2> QED
    BY <1>2, <1>4, <2>1, <2>2
<1>8. (pc[a] \in {"bottom", "wait"} => Carries(a, b, stage[a], buf[a][b]))'
  BY <1>1, <1>2 DEF Channel
<1> QED
  BY <1>6, <1>7, <1>8 DEF Channel

\* The first message of a channel is of the stage after the last one taken.
LEMMA HeadRight ==
  ASSUME IInv, NEW a \in Block, NEW b \in Receivers(a), net[a][b] # <<>>
  PROVE  /\ Carries(a, b, Taken(a, b) + 1, Content(a, b, Head(net[a][b])))
         /\ Content(a, b, Head(net[a][b])) \in Data
<1>1. net[a][b] \in Seq(Message)
  BY DEF IInv, Typed, Receivers
<1>2. 1 \in 1 .. Len(net[a][b]) /\ Head(net[a][b]) = net[a][b][1]
  BY <1>1
<1> QED
  BY <1>2, ContentRight

\* Faces that are unpacked are those that were received.
LEMMA UnpackedFact ==
  ASSUME NEW p \in [Face -> Int], NEW il \in Int, NEW data \in Data
  PROVE  /\ Unpacked(p, il, data) \in [Face -> Int]
         /\ \A f \in Face : Unpacked(p, il, data)[f] =
              IF f - il \in 0 .. NGHOST THEN data[f - il] ELSE p[f]
BY Sizes, FaceRange DEF Unpacked, Data

LEMMA RecvBottomStep ==
  ASSUME IInv, NEW b \in Block, RecvBottom(b)
  PROVE  IInv'
<1> DEFINE data == Content(b - 1, b, Head(net[b - 1][b]))
<1>0. /\ pc[b] = "bottom" /\ form = "perturbation" /\ b # 0 /\ b - 1 \in Block
      /\ form' = form /\ stage' = stage /\ buf' = buf /\ b \in Int
  <2>1. pc[b] = "bottom" /\ form' = form /\ stage' = stage /\ buf' = buf
    BY DEF RecvBottom
  <2>2. form = "perturbation" /\ b # 0
    BY <2>1 DEF IInv, Typed
  <2>3. b \in Int /\ b - 1 \in Block
    BY <2>2, Sizes DEF Block
  <2> QED
    BY <2>1, <2>2, <2>3
<1>1. stage[b] \in 1 .. Stages
  BY <1>0, Sizes DEF IInv, Typed
<1>2. b \in Receivers(b - 1)
  BY <1>0 DEF Receivers
<1>3. Carries(b - 1, b, stage[b], data) /\ data \in Data
  <2>1. Taken(b - 1, b) = stage[b] - 1
    BY <1>0 DEF Taken, Completed
  <2>2. Taken(b - 1, b) + 1 = stage[b]
    BY <1>1, <2>1
  <2> QED
    BY <1>0, <1>2, <2>2, HeadRight DEF RecvBottom
<1>4. psf'[b] = Unpacked(psf[b], -NGHOST, data) /\ \A a \in Block : a # b => psf'[a] = psf[a]
  BY DEF IInv, Typed, RecvBottom
<1> HIDE DEF data
<1>5. psf[b] \in [Face -> Int] /\ -NGHOST \in Int
  BY Sizes DEF IInv, Typed
<1>6. Unpacked(psf[b], -NGHOST, data) \in [Face -> Int]
  BY <1>3, <1>5, UnpackedFact
<1>7. /\ pc' = [pc EXCEPT ![b] = "wait"]
      /\ net' = [net EXCEPT ![b - 1][b] = Tail(@)]
      /\ net[b - 1][b] # <<>>
  BY DEF RecvBottom
<1>8. /\ psf' \in [Block -> [Face -> Int]]
      /\ net' \in [Block -> [Block -> Seq(Message)]]
      /\ net'[b - 1][b] = Tail(net[b - 1][b])
      /\ \A a, c \in Block : a # b - 1 \/ c # b => net'[a][c] = net[a][c]
  <2>1. psf' = [psf EXCEPT ![b] = psf'[b]]
    BY DEF IInv, Typed, RecvBottom
  <2>2. psf' \in [Block -> [Face -> Int]]
    <3>1. psf \in [Block -> [Face -> Int]] /\ psf'[b] \in [Face -> Int]
      BY <1>4, <1>6 DEF IInv, Typed
    <3> QED
      BY <2>1, <3>1
  <2>3. Tail(net[b - 1][b]) \in Seq(Message)
    BY <1>0, <1>7 DEF IInv, Typed
  <2> QED
    BY <1>0, <1>7, <2>2, <2>3 DEF IInv, Typed
<1>9. Typed'
  <2>1. pc' = [pc EXCEPT ![b] = "wait"]
    BY DEF RecvBottom
  <2>2. pc' \in [Block -> {"start", "allgather", "bottom", "wait", "done"}]
    BY <2>1 DEF IInv, Typed
  <2>3. ASSUME NEW a \in Block
        PROVE  /\ pc'[a] = "done" <=> stage'[a] = Stages + 1
               /\ pc'[a] \in {"allgather", "bottom"} => form' = "perturbation"
               /\ pc'[a] = "bottom" => a # 0
    <3>1. CASE a = b
      <4>1. pc'[b] = "wait" /\ stage'[b] # Stages + 1
        BY <1>0, <1>1, <2>1, Sizes DEF IInv, Typed
      <4> QED
        BY <3>1, <4>1
    <3>2. CASE a # b
      <4>1. pc'[a] = pc[a]
        BY <2>1, <3>2 DEF IInv, Typed
      <4> QED
        BY <1>0, <4>1 DEF IInv, Typed
    <3> QED
      BY <3>1, <3>2
  <2>4. /\ form' \in Forms /\ stage' \in [Block -> 1 .. Stages + 1]
        /\ buf' \in [Block -> [Block -> Data \union {Nil}]]
    BY <1>0 DEF IInv, Typed
  <2> QED
    BY <1>8, <2>2, <2>3, <2>4 DEF Typed
<1>10. /\ \A a \in Block : Descended(a)' = Descended(a)
       /\ \A a \in Block : a # b => Completed(a)' = Completed(a)
       /\ Completed(b) = stage[b] - 1 /\ Completed(b)' = stage[b]
       /\ \A a \in Block : pc'[a] \in {"bottom", "wait"} <=> pc[a] \in {"bottom", "wait"}
  BY <1>0, <1>7 DEF IInv, Typed, Descended, Completed
<1>11. Channels'
  <2> SUFFICES ASSUME NEW a \in Block, NEW c \in Block
               PROVE  IF c \in Receivers(a)' THEN Channel(a, c)' ELSE net'[a][c] = <<>>
    BY DEF Channels
  <2>1. Receivers(a)' = Receivers(a)
    BY <1>0 DEF Receivers
  <2>2. CASE a = b - 1 /\ c = b
    <3>1. Taken(a, c) = stage[b] - 1 /\ Taken(a, c)' = stage[b]
      BY <1>0, <1>10, <2>2 DEF Taken
    <3>2. Taken(a, c)' = Taken(a, c) + 1
      BY <1>1, <3>1
    <3>3. Channel(a, c)'
      BY <1>0, <1>2, <1>7, <1>8, <1>10, <2>2, <3>2, ChannelTaken
    <3> QED
      BY <1>2, <2>1, <2>2, <3>3
  <2>3. CASE a # b - 1 \/ c # b
    <3>1. net'[a][c] = net[a][c]
      BY <1>8, <2>3
    <3>2. c \in Receivers(a) => Taken(a, c)' = Taken(a, c)
      <4>1. c \in Receivers(a) /\ c = b => c < a
        BY <1>0, <2>3, Sizes DEF Receivers, Block
      <4> QED
        BY <1>10, <4>1 DEF Taken
    <3>3. c \in Receivers(a) => Channel(a, c)'
      BY <1>0, <1>10, <3>1, <3>2, ChannelKept
    <3> QED
      BY <2>1, <3>1, <3>3 DEF IInv, Channels
  <2> QED
    BY <2>2, <2>3
<1>12. ASSUME NEW a \in Block
       PROVE  HasPressure(a)'
  <2>1. CASE a # b
    BY <1>0, <1>4, <1>7, <1>10, <2>1, Unchanged DEF IInv, Typed
  <2>2. CASE a = b
    <3>1. \A f \in Face : f >= 0 => PressureAt(b, stage[b], f)
      BY <1>0 DEF IInv, HasPressure
    <3>2. ASSUME NEW f \in Face, Global(b, f) \in 0 .. ncells
          PROVE  psf'[b][f] = Pressure(stage[b], Global(b, f))
      <4>1. psf'[b][f] = IF f - (-NGHOST) \in 0 .. NGHOST THEN data[f - (-NGHOST)] ELSE psf[b][f]
        BY <1>3, <1>4, <1>5, UnpackedFact
      <4>2. f \in Int /\ -NGHOST <= f
        BY FaceRange, Sizes
      <4>3. CASE f <= 0
        <5>1. f + NGHOST \in 0 .. NGHOST /\ f - (-NGHOST) = f + NGHOST
          BY <4>2, <4>3, Sizes
        <5>2. data[f + NGHOST] = Pressure(stage[b], FirstFace(b - 1, b) + (f + NGHOST))
          BY <1>0, <1>3, <5>1 DEF Carries
        <5>3. FirstFace(b - 1, b) + (f + NGHOST) = Global(b, f)
          <6>1. FirstFace(b - 1, b) = Global(b - 1, N - NGHOST)
            BY <1>0 DEF FirstFace
          <6>2. Global(b - 1, N - NGHOST) = Global(b, (N - NGHOST) - N)
            BY GlobalRange, Sizes
          <6>3. PICK m \in Nat : \A j \in Int : Global(b, j) = m + j
            BY GlobalRange
          <6>4. Global(b, (N - NGHOST) - N) = m + ((N - NGHOST) - N) /\ Global(b, f) = m + f
            BY <4>2, <6>3, Sizes
          <6> QED
            BY <4>2, <6>1, <6>2, <6>4, Sizes
        <5> QED
          BY <4>1, <5>1, <5>2, <5>3
      <4>4. CASE f > 0
        BY <3>1, <3>2, <4>1, <4>2, <4>4, Sizes DEF PressureAt
      <4> QED
        BY <4>2, <4>3, <4>4
    <3>3. \A f \in Face : PressureAt(b, stage[b], f)'
      BY <1>0, <3>2 DEF PressureAt, Pressure
    <3>4. pc'[b] = "wait" /\ Completed(b)' = stage[b]
      BY <1>7, <1>10 DEF IInv, Typed
    <3> QED
      BY <1>0, <2>2, <3>3, <3>4 DEF HasPressure, PressureAt, Pressure
  <2> QED
    BY <2>1, <2>2
<1> QED
  BY <1>9, <1>11, <1>12 DEF IInv


\* What a block starts its integration from.
LEMMA FromTopRight ==
  ASSUME IInv, NEW b \in Block, Entered(b), b # top => net[b + 1][b] # <<>>
  PROVE  /\ stage[b] \in 1 .. Stages /\ FromTop(b) \in [Face -> Int]
         /\ form = "perturbation" =>
              \A f \in Face : f >= N /\ Global(b, f) \in 0 .. ncells =>
                FromTop(b)[f] = Pressure(stage[b], Global(b, f))
         /\ form = "temperature" => FromTop(b)[N] = TopPressure(stage[b])
<1> DEFINE s == stage[b]
<1>1. s \in 1 .. Stages
  BY Sizes DEF IInv, Typed, Entered
<1>2. psf[b] \in [Face -> Int] /\ N \in Face
  BY FaceRange, Sizes DEF IInv, Typed
<1>3. PICK m \in Nat : /\ m + N <= ncells /\ \A i \in Int : Global(b, i) = m + i
                       /\ b = top => m + N = ncells
  BY GlobalRange
<1>4. CASE b = top
  <2>1. TopPressure(s) \in Int
    BY <1>1, PressureAssumption
  <2>2. FromTop(b) = [psf[b] EXCEPT ![N] = TopPressure(s)]
    BY <1>4 DEF FromTop
  <2>3. ASSUME NEW f \in Face, f >= N, Global(b, f) \in 0 .. ncells
        PROVE  FromTop(b)[f] = Pressure(s, Global(b, f))
    <3>1. f = N /\ Global(b, f) = ncells
      <4>1. f \in Int /\ Global(b, f) <= ncells
        BY <2>3, FaceRange, Sizes
      <4>2. Global(b, f) = m + f /\ m + N = ncells
        BY <1>3, <1>4, <4>1
      <4> QED
        BY <2>3, <4>1, <4>2, Sizes
    <3> QED
      BY <1>1, <1>2, <2>2, <3>1, PressureFact
  <2>4. FromTop(b)[N] = TopPressure(s)
    BY <1>2, <2>2
  <2> QED
    BY <1>1, <1>2, <2>1, <2>2, <2>3, <2>4
<1>5. CASE b # top
  <2> DEFINE data == Content(b + 1, b, Head(net[b + 1][b]))
  <2>1. b + 1 \in Block /\ b \in Int /\ b \in Receivers(b + 1)
    BY <1>5, GlobalRange DEF Receivers
  <2>2. Carries(b + 1, b, s, data) /\ data \in Data
    <3>1. Taken(b + 1, b) = s - 1
      BY <2>1 DEF Taken, Descended, Entered
    <3>2. Taken(b + 1, b) + 1 = s
      BY <1>1, <3>1
    <3> QED
      BY <1>5, <2>1, <3>2, HeadRight
  <2>3. FromTop(b) = Unpacked(psf[b], N, data)
    BY <1>5 DEF FromTop
  <2> HIDE DEF data
  <2>4. N \in Int
    BY Sizes
  <2>5. /\ FromTop(b) \in [Face -> Int]
        /\ \A f \in Face : FromTop(b)[f] = IF f - N \in 0 .. NGHOST THEN data[f - N] ELSE psf[b][f]
    BY <1>2, <2>2, <2>3, <2>4, UnpackedFact
  <2>6. ASSUME form = "perturbation", NEW f \in Face, f >= N, Global(b, f) \in 0 .. ncells
        PROVE  FromTop(b)[f] = Pressure(s, Global(b, f))
    <3>1. f \in Int /\ f - N \in 0 .. NGHOST
      BY <2>6, FaceRange, Sizes
    <3>2. FromTop(b)[f] = data[f - N]
      BY <2>5, <3>1
    <3>3. data[f - N] = Pressure(s, FirstFace(b + 1, b) + (f - N))
      BY <2>2, <2>6, <3>1 DEF Carries
    <3>4. FirstFace(b + 1, b) + (f - N) = Global(b, f)
      <4>1. FirstFace(b + 1, b) = Global(b + 1, 0)
        BY <2>1 DEF FirstFace
      <4>2. Global(b + 1, 0) = Global(b, N + 0)
        BY GlobalRange
      <4>3. Global(b, N + 0) = m + N /\ Global(b, f) = m + f
        BY <1>3, <3>1, Sizes
      <4> QED
        BY <3>1, <4>1, <4>2, <4>3, Sizes
    <3> QED
      BY <3>2, <3>3, <3>4
  <2>7. ASSUME form = "temperature"
        PROVE  FromTop(b)[N] = TopPressure(s)
    <3>1. N - N = 0 /\ 0 \in 0 .. NGHOST
      BY Sizes
    <3>2. FromTop(b)[N] = data[0]
      BY <1>2, <2>5, <3>1
    <3> QED
      BY <2>2, <2>7, <3>2 DEF Carries
  <2> QED
    BY <1>1, <2>5, <2>6, <2>7
<1> QED
  BY <1>4, <1>5

\* The integration over a block's own cells.
LEMMA OwnCells ==
  ASSUME IInv, NEW b \in Block, Entered(b), b # top => net[b + 1][b] # <<>>, NEW p,
         p = IntegrateDownwards(FromTop(b), b, stage[b], 1, 0, N - 1)
  PROVE  /\ p \in [Face -> Int]
         /\ \A i \in 0 .. N - 1 : p[i] - p[i + 1] = Weight(stage[b], Global(b, i))
         /\ form = "perturbation" =>
              \A f \in Face : f >= 0 /\ Global(b, f) \in 0 .. ncells =>
                p[f] = Pressure(stage[b], Global(b, f))
         /\ form = "temperature" => p[N] = TopPressure(stage[b])
<1> DEFINE s == stage[b]
<1>1. /\ s \in 1 .. Stages /\ FromTop(b) \in [Face -> Int]
      /\ form = "perturbation" =>
           \A f \in Face : f >= N /\ Global(b, f) \in 0 .. ncells =>
             FromTop(b)[f] = Pressure(s, Global(b, f))
      /\ form = "temperature" => FromTop(b)[N] = TopPressure(s)
  BY FromTopRight
<1>2. PICK m \in Nat : m + N <= ncells /\ \A i \in Int : Global(b, i) = m + i
  BY GlobalRange
<1>3. 0 \in Cell /\ N - 1 \in Cell /\ 1 \in {-1, 1}
  BY FaceRange, Sizes
<1>4. /\ p \in [Face -> Int]
      /\ \A f \in Face : p[f] = IF f \in 0 .. N - 1
                                THEN p[f + 1] + 1 * CellWeight(s, Global(b, f))
                                ELSE FromTop(b)[f]
  BY <1>1, <1>3, Downwards
<1>5. ASSUME NEW i \in 0 .. N - 1
      PROVE  /\ p[i] - p[i + 1] = Weight(s, Global(b, i))
             /\ Global(b, i) \in 0 .. ncells - 1 /\ Global(b, i + 1) = Global(b, i) + 1
  <2>1. i \in Face /\ i + 1 \in Face /\ i \in Cell /\ i \in Int
    BY FaceRange, Sizes
  <2>2. Global(b, i) = m + i /\ Global(b, i + 1) = m + i + 1
    BY <1>2, <2>1
  <2>3. Global(b, i) \in 0 .. ncells - 1 /\ Global(b, i + 1) = Global(b, i) + 1
    BY <1>2, <2>1, <2>2, Sizes
  <2>4. CellWeight(s, Global(b, i)) \in Int /\ CellWeight(s, Global(b, i)) = Weight(s, Global(b, i))
    BY <1>1, <2>1, <2>3, WeightType
  <2>5. p[i] = p[i + 1] + 1 * CellWeight(s, Global(b, i))
    BY <1>4, <2>1
  <2>6. p[i] \in Int /\ p[i + 1] \in Int
    BY <1>4, <2>1
  <2> QED
    BY <2>3, <2>4, <2>5, <2>6
<1>6. ASSUME NEW f \in Face, f >= N
      PROVE  p[f] = FromTop(b)[f]
  BY <1>4, <1>6, FaceRange, Sizes
<1>7. ASSUME form = "perturbation"
      PROVE  \A f \in 0 .. N : p[f] = Pressure(s, Global(b, f))
  <2> DEFINE g == [f \in 0 .. N |-> Pressure(s, Global(b, f))]
  <2>1. \A f \in 0 .. N : f \in Face /\ Global(b, f) \in 0 .. ncells
    <3> SUFFICES ASSUME NEW f \in 0 .. N PROVE f \in Face /\ Global(b, f) \in 0 .. ncells
      OBVIOUS
    <3>1. f \in Int /\ 0 <= f /\ f <= N /\ Global(b, f) = m + f
      BY <1>2, Sizes
    <3>2. m + f <= ncells
      BY <1>2, <3>1, Sizes
    <3> QED
      BY <3>1, <3>2, FaceRange, Sizes
  <2>2. \A f \in 0 .. N : p[f] \in Int /\ g[f] \in Int
    BY <1>1, <1>4, <2>1, PressureFact
  <2>3. \A f \in 0 .. N - 1 : p[f] - p[f + 1] = g[f] - g[f + 1]
    <3> SUFFICES ASSUME NEW f \in 0 .. N - 1 PROVE p[f] - p[f + 1] = g[f] - g[f + 1]
      OBVIOUS
    <3>1. f \in 0 .. N /\ f + 1 \in 0 .. N
      BY Sizes
    <3>2. g[f] = Pressure(s, Global(b, f)) /\ g[f + 1] = Pressure(s, Global(b, f) + 1)
      BY <1>5, <3>1
    <3>3. Pressure(s, Global(b, f)) - Pressure(s, Global(b, f) + 1) = Weight(s, Global(b, f))
      BY <1>1, <1>5, PressureFact
    <3> QED
      BY <1>5, <3>2, <3>3
  <2>4. p[N] = g[N]
    <3>1. N \in Face /\ N \in 0 .. N /\ Global(b, N) \in 0 .. ncells /\ N >= N
      BY <2>1, Sizes
    <3> QED
      BY <1>1, <1>6, <1>7, <3>1
  <2> HIDE DEF g
  <2>5. \A f \in 0 .. N : p[f] = g[f]
    <3>1. N \in Nat
      BY Sizes
    <3> QED
      BY <2>2, <2>3, <2>4, <3>1, Agree, ZenonT(40)
  <2> QED
    BY <2>5 DEF g
<1>8. ASSUME form = "perturbation", NEW f \in Face, f >= 0, Global(b, f) \in 0 .. ncells
      PROVE  p[f] = Pressure(s, Global(b, f))
  <2>1. CASE f <= N
    <3>1. f \in 0 .. N
      BY <1>8, <2>1, FaceRange, Sizes
    <3> QED
      BY <1>7, <1>8, <3>1
  <2>2. CASE f > N
    <3>1. f >= N
      BY <2>2, FaceRange, Sizes
    <3> QED
      BY <1>1, <1>6, <1>8, <3>1
  <2> QED
    BY <2>1, <2>2, FaceRange, Sizes
<1>9. ASSUME form = "temperature"
      PROVE  p[N] = TopPressure(s)
  <2>1. N \in Face /\ N >= N
    BY FaceRange, Sizes
  <2> QED
    BY <1>1, <1>6, <1>9, <2>1
<1> QED
  BY <1>4, <1>5, <1>8, <1>9

\* The perturbation form leaves the faces of the column alone at the boundaries.
LEMMA BoundaryPerturbation ==
  ASSUME form = "perturbation", NEW b \in Block, NEW s, NEW p \in [Face -> Int]
  PROVE  /\ Boundary(p, b, s) \in [Face -> Int]
         /\ \A f \in Face : (f >= 0 \/ b # 0) /\ Global(b, f) \in 0 .. ncells =>
              Boundary(p, b, s)[f] = p[f]
<1> DEFINE lower == IF b = 0
                    THEN [f \in Face |-> IF f >= 0 THEN p[f]
                                         ELSE IF inner_x1 = "reflect" THEN p[-f] ELSE p[0]]
                    ELSE p
           upper == IF b = top
                    THEN [f \in Face |-> IF f <= N THEN lower[f]
                                         ELSE IF outer_x1 = "reflect" THEN lower[2 * N - f]
                                              ELSE lower[N]]
                    ELSE lower
<1>1. form # "temperature"
  OBVIOUS
<1>2. Boundary(p, b, s) = upper
  BY <1>1 DEF Boundary
<1>3. /\ lower \in [Face -> Int]
      /\ \A f \in Face : f >= 0 \/ b # 0 => lower[f] = p[f]
  <2>1. \A f \in Face : f < 0 => -f \in Face /\ 0 \in Face
    BY FaceRange, Sizes
  <2>2. \A f \in Face : f \in Int
    BY FaceRange, Sizes
  <2> QED
    BY <2>1, <2>2
<1> HIDE DEF lower
<1>4. /\ upper \in [Face -> Int]
      /\ \A f \in Face : f <= N \/ b # top => upper[f] = lower[f]
  <2>1. \A f \in Face : f > N => 2 * N - f \in Face /\ N \in Face
    BY FaceRange, Sizes
  <2>2. \A f \in Face : f \in Int /\ N \in Int
    BY FaceRange, Sizes
  <2> QED
    BY <1>3, <2>1, <2>2
<1> HIDE DEF upper
<1>5. ASSUME NEW f \in Face, Global(b, f) \in 0 .. ncells
      PROVE  f <= N \/ b # top
  <2>1. PICK m \in Nat : (\A i \in Int : Global(b, i) = m + i) /\ (b = top => m + N = ncells)
    BY GlobalRange
  <2> QED
    BY <1>5, <2>1, FaceRange, Sizes
<1> QED
  BY <1>2, <1>3, <1>4, <1>5

\* The temperature form integrates on over the ghost cells and leaves the face
\* at the block's top alone.
LEMMA BoundaryTemperature ==
  ASSUME form = "temperature", NEW b \in Block, NEW s \in 1 .. Stages, NEW p \in [Face -> Int],
         \A i \in 0 .. N - 1 : p[i] - p[i + 1] = Weight(s, Global(b, i))
  PROVE  /\ Boundary(p, b, s) \in [Face -> Int]
         /\ \A i \in Cell : Global(b, i) \in 0 .. ncells - 1 =>
              Boundary(p, b, s)[i] - Boundary(p, b, s)[i + 1] = Weight(s, Global(b, i))
         /\ Boundary(p, b, s)[N] = p[N]
<1> DEFINE below == IF b = 0 /\ inner_x1 = "reflect" THEN -1 ELSE 1
           above == IF b = top /\ outer_x1 = "reflect" THEN -1 ELSE 1
           lower == IntegrateDownwards(p, b, s, below, -NGHOST, -1)
           upper == IntegrateUpwards(lower, b, s, above, N, N + NGHOST - 1)
<1>1. Boundary(p, b, s) = upper
  BY DEF Boundary
<1>2. PICK m \in Nat : /\ m + N <= ncells /\ \A i \in Int : Global(b, i) = m + i
                       /\ b = top => m + N = ncells
                       /\ b = 0 => m = 0
  <2>1. b = 0 => b * N = 0
    BY Sizes
  <2> QED
    BY <2>1, GlobalRange
<1>3. /\ below \in {-1, 1} /\ above \in {-1, 1}
      /\ -NGHOST \in Cell /\ -1 \in Cell /\ N \in Cell /\ N + NGHOST - 1 \in Cell
  BY FaceRange, Sizes
<1>4. b # 0 => below = 1
  OBVIOUS
<1>5. b # top => above = 1
  OBVIOUS
<1> HIDE DEF below, above
<1>6. /\ lower \in [Face -> Int]
      /\ \A f \in Face : lower[f] = IF f \in -NGHOST .. -1
                                    THEN lower[f + 1] + below * CellWeight(s, Global(b, f))
                                    ELSE p[f]
  BY <1>3, Downwards
<1> HIDE DEF lower
<1>7. /\ upper \in [Face -> Int]
      /\ \A f \in Face : upper[f] = IF f \in N + 1 .. (N + NGHOST - 1) + 1
                                    THEN upper[f - 1] - above * CellWeight(s, Global(b, f - 1))
                                    ELSE lower[f]
  BY <1>3, <1>6, Upwards
<1> HIDE DEF upper
<1>8. ASSUME NEW i \in Cell, Global(b, i) \in 0 .. ncells - 1
      PROVE  upper[i] - upper[i + 1] = Weight(s, Global(b, i))
  <2>1. i \in Int /\ i \in Face /\ i + 1 \in Face /\ -NGHOST <= i /\ i < N + NGHOST
    BY FaceRange, Sizes
  <2>2. Global(b, i) = m + i
    BY <1>2, <2>1
  <2>3. CellWeight(s, Global(b, i)) = Weight(s, Global(b, i)) /\ Weight(s, Global(b, i)) \in Int
    BY <1>8, WeightType
  <2>4. /\ upper[i] \in Int /\ upper[i + 1] \in Int
        /\ lower[i] \in Int /\ lower[i + 1] \in Int /\ p[i] \in Int /\ p[i + 1] \in Int
    BY <1>6, <1>7, <2>1
  <2>5. CASE i < 0
    <3>1. b # 0
      BY <1>2, <1>8, <2>1, <2>2, <2>5
    <3>2. i \in -NGHOST .. -1 /\ i \notin N + 1 .. (N + NGHOST - 1) + 1
          /\ i + 1 \notin N + 1 .. (N + NGHOST - 1) + 1
      BY <2>1, <2>5, Sizes
    <3>3. upper[i] = lower[i] /\ upper[i + 1] = lower[i + 1]
      BY <1>7, <2>1, <3>2
    <3>4. lower[i] = lower[i + 1] + 1 * CellWeight(s, Global(b, i))
      BY <1>4, <1>6, <2>1, <3>1, <3>2
    <3> QED
      BY <2>3, <2>4, <3>3, <3>4
  <2>6. CASE 0 <= i /\ i < N
    <3>1. /\ i \notin -NGHOST .. -1 /\ i \notin N + 1 .. (N + NGHOST - 1) + 1
          /\ i + 1 \notin -NGHOST .. -1 /\ i + 1 \notin N + 1 .. (N + NGHOST - 1) + 1
          /\ i \in 0 .. N - 1
      BY <2>1, <2>6, Sizes
    <3>2. upper[i] = lower[i] /\ upper[i + 1] = lower[i + 1]
      BY <1>7, <2>1, <3>1
    <3>3. lower[i] = p[i] /\ lower[i + 1] = p[i + 1]
      BY <1>6, <2>1, <3>1
    <3> QED
      BY <3>1, <3>2, <3>3
  <2>7. CASE i >= N
    <3>1. b # top
      BY <1>2, <1>8, <2>1, <2>2, <2>7, Sizes
    <3>2. i + 1 \in N + 1 .. (N + NGHOST - 1) + 1 /\ (i + 1) - 1 = i
      BY <2>1, <2>7, Sizes
    <3>3. upper[i + 1] = upper[i] - 1 * CellWeight(s, Global(b, i))
      BY <1>5, <1>7, <2>1, <3>1, <3>2
    <3> QED
      BY <2>3, <2>4, <3>3
  <2> QED
    BY <2>1, <2>5, <2>6, <2>7, Sizes
<1>9. upper[N] = p[N]
  <2>1. N \in Face /\ N \notin N + 1 .. (N + NGHOST - 1) + 1 /\ N \notin -NGHOST .. -1
    BY FaceRange, Sizes
  <2> QED
    BY <1>6, <1>7, <2>1
<1> QED
  BY <1>1, <1>7, <1>8, <1>9


\* What a block sends.
LEMMA SentRight ==
  ASSUME IInv, NEW b \in Block, NEW a \in Receivers(b), NEW s, NEW p \in [Face -> Int],
         form = "perturbation" =>
           \A f \in Face : f >= 0 /\ Global(b, f) \in 0 .. ncells => p[f] = Pressure(s, Global(b, f)),
         form = "temperature" => p[N] = TopPressure(s)
  PROVE  Carries(b, a, s, IF a < b THEN ToBottom(p) ELSE ToTop(p))
<1>1. a \in Block /\ (a = b - 1 \/ (form = "perturbation" /\ a = b + 1))
  BY DEF Receivers
<1>2. b \in Int /\ a \in Int
  BY <1>1, Sizes DEF Block
<1>3. PICK m \in Nat : m + N <= ncells /\ \A i \in Int : Global(b, i) = m + i
  BY GlobalRange
<1>4. ASSUME NEW il \in 0 .. N
      PROVE  Faces(p, il) \in Data /\ \A n \in 0 .. NGHOST : Faces(p, il)[n] = p[il + n]
  <2>1. \A n \in 0 .. NGHOST : il + n \in Face
    BY FaceRange, Sizes
  <2> QED
    BY <2>1 DEF Faces, Data
<1>5. ASSUME NEW il \in 0 .. N - NGHOST, form = "perturbation", NEW n \in 0 .. NGHOST
      PROVE  Faces(p, il)[n] = Pressure(s, Global(b, il) + n)
  <2>1. il \in 0 .. N /\ il + n \in Face /\ il + n \in Int /\ 0 <= il + n /\ il + n <= N /\ il \in Int
    BY FaceRange, Sizes
  <2>2. Global(b, il + n) = m + (il + n) /\ Global(b, il) = m + il
    BY <1>3, <2>1
  <2>3. Global(b, il + n) \in 0 .. ncells /\ Global(b, il) + n = Global(b, il + n)
    BY <1>3, <2>1, <2>2, Sizes
  <2>4. p[il + n] = Pressure(s, Global(b, il + n))
    BY <1>5, <2>1, <2>3
  <2> QED
    BY <1>4, <2>1, <2>3, <2>4
<1>6. CASE a < b
  <2>1. FirstFace(b, a) = Global(b, 0)
    BY <1>6 DEF FirstFace
  <2>2. CASE form = "perturbation"
    <3>1. 0 \in 0 .. N - NGHOST /\ 0 \in 0 .. N
      BY Sizes
    <3> QED
      BY <1>4, <1>5, <1>6, <2>1, <2>2, <3>1 DEF Carries, ToBottom
  <2>3. CASE form # "perturbation"
    <3>1. N \in 0 .. N /\ 0 \in 0 .. NGHOST /\ N + 0 = N
      BY Sizes
    <3>2. Faces(p, N) \in Data /\ Faces(p, N)[0] = p[N]
      BY <1>4, <3>1
    <3> QED
      BY <1>6, <2>3, <3>2 DEF Carries, ToBottom
  <2> QED
    BY <2>2, <2>3
<1>7. CASE ~ (a < b)
  <2>1. form = "perturbation" /\ FirstFace(b, a) = Global(b, N - NGHOST)
    BY <1>1, <1>2, <1>7 DEF FirstFace
  <2>2. N - NGHOST \in 0 .. N - NGHOST /\ N - NGHOST \in 0 .. N
    BY Sizes
  <2> QED
    BY <1>4, <1>5, <1>7, <2>1, <2>2 DEF Carries, ToTop
<1> QED
  BY <1>6, <1>7

LEMMA DescendStep ==
  ASSUME IInv, NEW b \in Block, Descend(b)
  PROVE  IInv'
<1> DEFINE s == stage[b]
           p == IntegrateDownwards(FromTop(b), b, stage[b], 1, 0, N - 1)
           q == Boundary(p, b, stage[b])
<1>0. /\ Entered(b) /\ (b # top => net[b + 1][b] # <<>>)
      /\ form' = form /\ stage' = stage
      /\ psf' = [psf EXCEPT ![b] = q]
      /\ buf' = [buf EXCEPT ![b] = [a \in Block |->
                   IF a \notin Receivers(b) THEN @[a]
                   ELSE IF a < b THEN ToBottom(p) ELSE ToTop(p)]]
      /\ net' = [a \in Block |-> [c \in Block |->
                   CASE a = b /\ c \in Receivers(b) -> Append(net[a][c], [kept |-> Nil])
                     [] a = b + 1 /\ c = b          -> Tail(net[a][c])
                     [] OTHER                       -> net[a][c]]]
      /\ pc' = [pc EXCEPT ![b] = IF form = "perturbation" /\ b > 0 THEN "bottom" ELSE "wait"]
  BY DEF Descend
<1>1. s \in 1 .. Stages /\ form \in {"perturbation", "temperature"} /\ b \in Int /\ b >= 0
  <2>1. s \in 1 .. Stages
    BY <1>0, FromTopRight
  <2>2. b \in Nat
    BY GlobalRange
  <2> QED
    BY <2>1, <2>2, ColumnAssumption DEF IInv, Typed
<1>2. /\ p \in [Face -> Int]
      /\ \A i \in 0 .. N - 1 : p[i] - p[i + 1] = Weight(s, Global(b, i))
      /\ form = "perturbation" =>
           \A f \in Face : f >= 0 /\ Global(b, f) \in 0 .. ncells =>
             p[f] = Pressure(s, Global(b, f))
      /\ form = "temperature" => p[N] = TopPressure(s)
  BY <1>0, OwnCells
<1> HIDE DEF p
<1>3. q \in [Face -> Int]
  <2>1. CASE form = "perturbation"
    BY <1>2, <2>1, BoundaryPerturbation
  <2>2. CASE form = "temperature"
    BY <1>1, <1>2, <2>2, BoundaryTemperature
  <2> QED
    BY <1>1, <2>1, <2>2
<1>4. ASSUME form = "perturbation", NEW f \in Face, f >= 0 \/ b = 0, Global(b, f) \in 0 .. ncells
      PROVE  q[f] = Pressure(s, Global(b, f))
  <2>1. f >= 0
    <3>1. b = 0 => Global(b, f) = f
      BY FaceRange, Sizes DEF Global
    <3> QED
      BY <1>4, <3>1, FaceRange, Sizes
  <2>2. q[f] = p[f]
    BY <1>2, <1>4, <2>1, BoundaryPerturbation
  <2> QED
    BY <1>2, <1>4, <2>1, <2>2
<1>5. ASSUME form = "temperature", NEW i \in Cell, Global(b, i) \in 0 .. ncells - 1
      PROVE  q[i] - q[i + 1] = Weight(s, Global(b, i))
  BY <1>1, <1>2, <1>5, BoundaryTemperature
<1>6. form = "temperature" => q[N] = TopPressure(s)
  BY <1>1, <1>2, BoundaryTemperature
<1>7. /\ psf'[b] = q /\ \A a \in Block : a # b => psf'[a] = psf[a]
      /\ psf' \in [Block -> [Face -> Int]]
  BY <1>0, <1>3 DEF IInv, Typed
<1> HIDE DEF q
<1>8. ASSUME NEW a \in Receivers(b)
      PROVE  Carries(b, a, s, IF a < b THEN ToBottom(p) ELSE ToTop(p))
  BY <1>2, SentRight
<1>9. /\ \A a \in Receivers(b) : buf'[b][a] = IF a < b THEN ToBottom(p) ELSE ToTop(p)
      /\ \A a \in Block : a # b => buf'[a] = buf[a]
      /\ buf' \in [Block -> [Block -> Data \union {Nil}]]
  <2>1. \A a \in Receivers(b) : a \in Block
    BY DEF Receivers
  <2>2. \A a \in Receivers(b) : (IF a < b THEN ToBottom(p) ELSE ToTop(p)) \in Data
    BY <1>8 DEF Carries
  <2> QED
    BY <1>0, <2>1, <2>2 DEF IInv, Typed
<1>10. /\ \A a \in Receivers(b) : a \in Block /\ a # b /\ net'[b][a] = Append(net[b][a], [kept |-> Nil])
       /\ b # top => net'[b + 1][b] = Tail(net[b + 1][b])
       /\ \A a, c \in Block : (a # b \/ c \notin Receivers(b)) /\ (a # b + 1 \/ c # b) =>
            net'[a][c] = net[a][c]
  <2>1. \A a \in Receivers(b) : a \in Block /\ a # b
    BY <1>1 DEF Receivers
  <2>2. b # top => b + 1 \in Block
    BY GlobalRange
  <2> QED
    BY <1>0, <1>1, <2>1, <2>2
<1>11. net' \in [Block -> [Block -> Seq(Message)]]
  <2>1. ASSUME NEW a \in Block, NEW c \in Block
        PROVE  net'[a][c] \in Seq(Message)
    <3>1. net[a][c] \in Seq(Message)
      BY DEF IInv, Typed
    <3>2. [kept |-> Nil] \in Message
      BY DEF Message
    <3>3. Append(net[a][c], [kept |-> Nil]) \in Seq(Message)
      BY <3>1, <3>2
    <3>4. CASE a = b /\ c \in Receivers(b)
      BY <1>10, <3>3, <3>4
    <3>5. CASE a = b + 1 /\ c = b
      <4>1. b # top /\ net[a][c] # <<>>
        BY <1>0, <1>1, <3>5 DEF top, Block
      <4>2. Tail(net[a][c]) \in Seq(Message)
        BY <3>1, <4>1
      <4> QED
        BY <1>10, <3>5, <4>1, <4>2
    <3>6. CASE (a # b \/ c \notin Receivers(b)) /\ (a # b + 1 \/ c # b)
      BY <1>10, <3>1, <3>6
    <3> QED
      BY <3>4, <3>5, <3>6
  <2>2. net' = [a \in Block |-> [c \in Block |-> net'[a][c]]]
    BY <1>0
  <2> QED
    BY <2>1, <2>2
<1>12. /\ pc'[b] \in {"bottom", "wait"} /\ pc[b] \notin {"bottom", "wait"}
       /\ pc'[b] = "bottom" <=> form = "perturbation" /\ b # 0
       /\ \A a \in Block : a # b => pc'[a] = pc[a]
  BY <1>0, <1>1 DEF IInv, Typed, Entered
<1>13. Typed'
  <2>1. pc' \in [Block -> {"start", "allgather", "bottom", "wait", "done"}]
    BY <1>0 DEF IInv, Typed
  <2>2. ASSUME NEW a \in Block
        PROVE  /\ pc'[a] = "done" <=> stage'[a] = Stages + 1
               /\ pc'[a] \in {"allgather", "bottom"} => form' = "perturbation"
               /\ pc'[a] = "bottom" => a # 0
    <3>1. CASE a = b
      <4>1. pc'[b] # "done" /\ stage'[b] # Stages + 1
        BY <1>0, <1>1, <1>12, Sizes
      <4> QED
        BY <1>0, <1>12, <3>1, <4>1
    <3>2. CASE a # b
      BY <1>0, <1>12, <3>2 DEF IInv, Typed
    <3> QED
      BY <3>1, <3>2
  <2>3. form' \in Forms /\ stage' \in [Block -> 1 .. Stages + 1]
    BY <1>0 DEF IInv, Typed
  <2> QED
    BY <1>7, <1>9, <1>11, <2>1, <2>2, <2>3 DEF Typed
<1>14. /\ Descended(b) = s - 1 /\ Completed(b) = s - 1 /\ Descended(b)' = s
       /\ Completed(b)' = IF form = "perturbation" /\ b # 0 THEN s - 1 ELSE s
       /\ \A a \in Block : a # b => Descended(a)' = Descended(a) /\ Completed(a)' = Completed(a)
  BY <1>0, <1>12 DEF Descended, Completed
<1>15. Channels'
  <2> SUFFICES ASSUME NEW a \in Block, NEW c \in Block
               PROVE  IF c \in Receivers(a)' THEN Channel(a, c)' ELSE net'[a][c] = <<>>
    BY DEF Channels
  <2>1. Receivers(a)' = Receivers(a)
    BY <1>0 DEF Receivers
  <2>2. CASE a = b /\ c \in Receivers(b)
    <3>1. Channel(b, c) /\ c # b
      BY <1>10, <2>2 DEF IInv, Channels
    <3>2. Taken(b, c)' = Taken(b, c)
      BY <1>14, <3>1 DEF Taken
    <3>3. net[b][c] \in Seq(Message) /\ net'[b][c] = Append(net[b][c], [kept |-> Nil])
      BY <1>10, <2>2 DEF IInv, Typed
    <3>4. /\ Len(net[b][c]) \in Nat /\ Len(net'[b][c]) = Len(net[b][c]) + 1
          /\ net'[b][c][Len(net[b][c]) + 1] = [kept |-> Nil]
          /\ \A n \in 1 .. Len(net[b][c]) : net'[b][c][n] = net[b][c][n]
      BY <3>3
    <3>5. Taken(b, c) \in Int
      BY DEF IInv, Typed, Taken, Descended, Completed
    <3>6. Len(net'[b][c]) = Descended(b)' - Taken(b, c)'
      BY <1>1, <1>14, <3>1, <3>2, <3>4, <3>5 DEF Channel
    <3>7. \A k, data : Carries(b, c, k, data)' <=> Carries(b, c, k, data)
      BY <1>0, CarriesKept
    <3>8. ASSUME NEW n \in 1 .. Len(net'[b][c])
          PROVE  (IF net[b][c][n].kept = Nil
                  THEN pc[b] \in {"bottom", "wait"} /\ n = Len(net[b][c])
                  ELSE Carries(b, c, Taken(b, c) + n, net[b][c][n].kept))'
      <4>1. CASE n = Len(net[b][c]) + 1
        BY <1>12, <3>4, <4>1
      <4>2. CASE n # Len(net[b][c]) + 1
        <5>1. n \in 1 .. Len(net[b][c]) /\ net'[b][c][n] = net[b][c][n]
          BY <3>4, <4>2
        <5>2. /\ net[b][c][n].kept # Nil
              /\ Carries(b, c, Taken(b, c) + n, net[b][c][n].kept)
          BY <1>12, <3>1, <5>1 DEF Channel
        <5> QED
          BY <3>2, <3>7, <5>1, <5>2
      <4> QED
        BY <4>1, <4>2
    <3>9. (pc[b] \in {"bottom", "wait"} => Carries(b, c, stage[b], buf[b][c]))'
      BY <1>0, <1>8, <1>9, <2>2, <3>7
    <3>10. Channel(b, c)'
      BY <3>6, <3>8, <3>9 DEF Channel
    <3> QED
      BY <2>1, <2>2, <3>10
  <2>3. CASE a = b + 1 /\ c = b
    <3>1. b # top /\ b \in Receivers(a) /\ a # b
      BY <1>1, <2>3 DEF top, Block, Receivers
    <3>2. Taken(a, b)' = Taken(a, b) + 1
      <4>1. b < a
        BY <1>1, <2>3
      <4> QED
        BY <1>1, <1>14, <4>1 DEF Taken
    <3>3. net[a][b] # <<>> /\ net'[a][b] = Tail(net[a][b])
      BY <1>0, <1>10, <2>3, <3>1
    <3>4. /\ Descended(a)' = Descended(a) /\ stage'[a] = stage[a] /\ buf'[a] = buf[a]
          /\ pc'[a] = pc[a]
      BY <1>0, <1>9, <1>12, <1>14, <3>1
    <3>5. Channel(a, b)'
      BY <1>0, <3>1, <3>2, <3>3, <3>4, ChannelTaken
    <3> QED
      BY <2>1, <2>3, <3>1, <3>5
  <2>4. CASE (a # b \/ c \notin Receivers(b)) /\ (a # b + 1 \/ c # b)
    <3>1. net'[a][c] = net[a][c]
      BY <1>10, <2>4
    <3>2. CASE c \in Receivers(a)
      <4>1. a # b
        BY <2>4, <3>2
      <4>2. Taken(a, c)' = Taken(a, c)
        <5>1. c = b => a = b - 1 /\ form = "perturbation" /\ ~ (b < a) /\ b # 0
          BY <1>1, <2>4, <3>2, Sizes DEF Receivers, Block
        <5> QED
          BY <1>14, <5>1 DEF Taken
      <4>3. Channel(a, c)'
        BY <1>0, <1>9, <1>12, <1>14, <3>1, <3>2, <4>1, <4>2, ChannelKept
      <4> QED
        BY <2>1, <3>2, <4>3
    <3>3. CASE c \notin Receivers(a)
      BY <2>1, <3>1, <3>3 DEF IInv, Channels
    <3> QED
      BY <3>2, <3>3
  <2> QED
    BY <2>2, <2>3, <2>4
<1>16. ASSUME NEW a \in Block
       PROVE  HasPressure(a)'
  <2>1. CASE a # b
    BY <1>0, <1>7, <1>12, <2>1, Unchanged DEF IInv
  <2>2. CASE a = b
    <3>1. ASSUME form = "perturbation", pc'[b] = "bottom", NEW f \in Face, f >= 0
          PROVE  PressureAt(b, stage[b], f)'
      BY <1>0, <1>4, <1>7, <3>1 DEF PressureAt, Pressure
    <3>2. ASSUME form = "perturbation", Whole(b)', NEW f \in Face
          PROVE  PressureAt(b, Completed(b), f)'
      <4>1. b = 0 /\ Completed(b)' = s
        BY <1>12, <1>14, <3>2 DEF Whole
      <4> QED
        BY <1>4, <1>7, <3>2, <4>1 DEF PressureAt, Pressure
    <3>3. ASSUME form = "temperature"
          PROVE  (BalancedAt(b, Completed(b)) /\ psf[b][N] = TopPressure(Completed(b)))'
      <4>1. Completed(b)' = s
        BY <1>14, <3>3
      <4> QED
        BY <1>5, <1>7, <1>6, <3>3, <4>1 DEF BalancedAt
    <3> QED
      BY <1>0, <2>2, <3>1, <3>2, <3>3 DEF HasPressure
  <2> QED
    BY <2>1, <2>2
<1> QED
  BY <1>13, <1>15, <1>16 DEF IInv

LEMMA NextStep == IInv /\ [Next]_vars => IInv'
<1> SUFFICES ASSUME IInv, [Next]_vars PROVE IInv'
  OBVIOUS
<1>1. CASE UNCHANGED vars
  <2>1. /\ form' = form /\ stage' = stage /\ pc' = pc /\ psf' = psf /\ buf' = buf /\ net' = net
    BY <1>1 DEF vars
  <2> QED
    BY <2>1 DEF IInv, Typed, Channels, Channel, Carries, FirstFace, Pressure, Taken, Descended,
                Completed, Receivers, HasPressure, PressureAt, BalancedAt, Whole
<1>2. CASE \E b \in Block :
             FindNeighbors(b) \/ Descend(b) \/ RecvBottom(b) \/ Wait(b) \/ WaitBuffered(b)
  BY <1>2, FindNeighborsStep, DescendStep, RecvBottomStep, WaitStep, WaitBufferedStep
<1>3. CASE Finished
  BY <1>1, <1>3 DEF Finished
<1> QED
  BY <1>1, <1>2, <1>3 DEF Next

\* Whatever the number and the size of the blocks: messages arrive in the order
\* of the stages, and what each holds is of the stage in which it is taken, even
\* when it is read from a buffer that is filled anew in every stage.
THEOREM Inductive == Spec => []IInv
<1>1. Init => IInv
  BY InitStep
<1>2. IInv /\ [Next]_vars => IInv'
  BY NextStep
<1> QED
  BY <1>1, <1>2, PTL DEF Spec

\* ChangeToPerturbation and ChangeToTemperature keep the types of their state.
THEOREM TypeCorrect == Spec => []TypeOK
BY Inductive, InvType, PTL

\* In both forms what is taken off before the reconstruction changes, over every
\* cell of the column that a block or its ghost cells cover, by the weight of
\* the air of the stage the block is in.
THEOREM AlwaysBalanced == Spec => []Balanced
BY Inductive, InvBalanced, PTL

\* A block starts from the pressure of the stage it is in, through however many
\* blocks that was handed down: in the two-way form from that of all the air above
\* it, in the other, which no barrier keeps in step, from that of a face above it.
THEOREM PressureRight == Spec => []PressureOfStage
BY Inductive, InvTop, PTL

-----------------------------------------------------------------------------
(* The column never deadlocks, whatever MPI buffers.                        *)

\* Block b can go on, without MPI copying any message.
Free(b) ==
  \/ form = "perturbation" /\ pc[b] = "start"
  \/ Entered(b) /\ (b = top \/ net[b + 1][b] # <<>>)
  \/ pc[b] = "bottom" /\ net[b - 1][b] # <<>>
  \/ pc[b] = "wait" /\ ~ Pending(b)

\* The blocks of a column never all wait for one another.
NeverAllBlocked == (\A b \in Block : pc[b] = "done") \/ \E b \in Block : Free(b)

LEMMA SomeFree ==
  ASSUME IInv
  PROVE  NeverAllBlocked
<1> SUFFICES ASSUME ~ \A b \in Block : pc[b] = "done", \A b \in Block : ~ Free(b)
             PROVE  FALSE
  BY DEF NeverAllBlocked
<1>0. /\ stage \in [Block -> 1 .. Stages + 1] /\ Stages \in Nat
      /\ \A b \in Block : pc[b] \in {"start", "allgather", "bottom", "wait", "done"}
      /\ \A b \in Block : b \in Nat /\ b <= top /\ stage[b] \in Nat
      /\ top \in Nat
  <2>1. /\ stage \in [Block -> 1 .. Stages + 1] /\ Stages \in Nat
        /\ \A b \in Block : pc[b] \in {"start", "allgather", "bottom", "wait", "done"}
    BY Sizes DEF IInv, Typed
  <2>2. top \in Nat /\ \A b \in Block : b \in Nat /\ b <= top
    BY Sizes DEF Block, top
  <2>3. \A b \in Block : stage[b] \in Nat
    BY <2>1
  <2> QED
    BY <2>1, <2>2, <2>3
\* The blocks that are the least far, all in stage s.
<1>1. PICK s \in 1 .. Stages, p \in Block : stage[p] = s /\ \A a \in Block : s <= stage[a]
  <2> DEFINE S == { stage[b] : b \in Block }
  <2>1. PICK u \in Block : pc[u] # "done"
    OBVIOUS
  <2>2. stage[u] # Stages + 1
    BY <2>1 DEF IInv, Typed
  <2>3. S \in SUBSET Nat /\ stage[u] \in S
    BY <1>0
  <2>4. PICK n \in S : \A m \in S : n <= m
    <3> HIDE DEF S
    <3> QED
      BY <2>3, Smallest
  <2>5. n <= stage[u] /\ n \in 1 .. Stages + 1
    BY <1>0, <2>3, <2>4
  <2>6. n \in 1 .. Stages
    BY <1>0, <2>2, <2>5
  <2> QED
    BY <2>4, <2>6
<1> DEFINE At(b, c) == stage[b] = s /\ pc[b] = c
\* A block that is not with them, or with them past its Descend, has sent.
<1>2. ASSUME NEW a \in Block, stage[a] = s => At(a, "bottom") \/ At(a, "wait")
      PROVE  s <= Descended(a) /\ Descended(a) \in Int
  BY <1>0, <1>1, <1>2 DEF Descended
<1>3. ASSUME NEW b \in Block, stage[b] = s
      PROVE  \/ At(b, "start") \/ At(b, "allgather") \/ At(b, "bottom") \/ At(b, "wait")
  BY <1>0, <1>3 DEF IInv, Typed
<1>4. ASSUME NEW a \in Block, NEW b \in Block, b \in Receivers(a),
             s <= Descended(a), Taken(a, b) = s - 1
      PROVE  net[a][b] # <<>>
  <2>1. Len(net[a][b]) = Descended(a) - Taken(a, b)
    BY <1>4 DEF IInv, Channels, Channel
  <2>2. Descended(a) \in Int
    BY <1>0 DEF Descended
  <2>3. Len(net[a][b]) > 0
    BY <1>4, <2>1, <2>2
  <2> QED
    BY <2>3
\* The highest of those that wait for the block above: that one has sent.
<1>5. ASSUME NEW q \in Block, At(q, "start") \/ At(q, "allgather")
      PROVE  FALSE
  <2> DEFINE T == { b \in Block : At(b, "start") \/ At(b, "allgather") }
             S == { top - b : b \in T }
  <2>1. S \in SUBSET Nat /\ top - q \in S
    BY <1>0, <1>5
  <2>2. PICK b \in T : \A u \in T : top - b <= top - u
    <3>1. PICK n \in S : \A m \in S : n <= m
      <4> HIDE DEF S
      <4> QED
        BY <2>1, Smallest
    <3>2. PICK b \in T : top - b = n
      OBVIOUS
    <3>3. \A u \in T : top - u \in S
      OBVIOUS
    <3> QED
      BY <3>1, <3>2, <3>3
  <2>3. b \in Block /\ stage[b] = s
    BY <2>2
  <2>4. Entered(b)
    <3>1. form = "perturbation" \/ form = "temperature"
      BY ColumnAssumption DEF IInv, Typed
    <3>2. CASE form = "temperature"
      <4>1. pc[b] = "start"
        BY <2>2, <3>2 DEF IInv, Typed
      <4> QED
        BY <3>2, <4>1 DEF Entered
    <3>3. CASE form = "perturbation"
      <4>1. \A a \in Block : pc[a] # "start"
        BY <3>3 DEF Free
      <4>2. pc[b] = "allgather"
        BY <2>2, <4>1
      <4>3. \A a \in Block : stage[a] > stage[b] \/ stage[a] = stage[b]
        BY <1>0, <1>1, <2>3
      <4> QED
        BY <3>3, <4>1, <4>2, <4>3 DEF Entered
    <3> QED
      BY <3>1, <3>2, <3>3
  <2>5. b # top
    BY <2>3, <2>4 DEF Free
  <2> DEFINE a == b + 1
  <2>6. a \in Block /\ b < a /\ b \in Receivers(a) /\ a \notin T
    <3>1. a \in Block /\ b < a /\ b = a - 1
      BY <1>0, <2>3, <2>5 DEF Block, top
    <3>2. ~ (top - b <= top - a)
      BY <1>0, <2>3
    <3> QED
      BY <2>2, <2>3, <3>1, <3>2 DEF Receivers
  <2>7. s <= Descended(a)
    BY <1>2, <1>3, <2>6
  <2>8. Taken(a, b) = s - 1
    BY <2>2, <2>6 DEF Taken, Descended
  <2>9. net[a][b] # <<>>
    BY <1>4, <2>3, <2>6, <2>7, <2>8
  <2> QED
    BY <2>3, <2>4, <2>9 DEF Free
\* The others have sent, so none waits for the block below either.
<1>6. ASSUME NEW b \in Block, At(b, "bottom")
      PROVE  FALSE
  <2> DEFINE a == b - 1
  <2>1. form = "perturbation" /\ b # 0
    BY <1>6 DEF IInv, Typed
  <2>2. a \in Block /\ a < b /\ ~ (b < a) /\ b \in Receivers(a)
    <3>1. a \in Block /\ a < b /\ ~ (b < a) /\ b = a + 1
      BY <1>0, <2>1 DEF Block, top
    <3> QED
      BY <2>1, <3>1 DEF Receivers
  <2>3. s <= Descended(a)
    BY <1>2, <1>3, <1>5, <2>2
  <2>4. Taken(a, b) = s - 1
    BY <1>6, <2>2 DEF Taken, Completed
  <2>5. net[a][b] # <<>>
    BY <1>4, <2>2, <2>3, <2>4
  <2> QED
    BY <1>6, <2>5 DEF Free
\* All are at the wait: what p sent was taken.
<1>7. At(p, "wait")
  BY <1>1, <1>3, <1>5, <1>6
<1>8. ~ Pending(p)
  <2> SUFFICES ASSUME NEW a \in Block, NEW n \in DOMAIN net[p][a]
               PROVE  FALSE
    BY DEF Pending
  <2>1. net \in [Block -> [Block -> Seq(Message)]]
    BY DEF IInv, Typed
  <2>2. Len(net[p][a]) \in Nat /\ n \in 1 .. Len(net[p][a])
    BY <2>1
  <2>3. net[p][a] # <<>>
    BY <2>2
  <2>4. Len(net[p][a]) = s - Taken(p, a)
    BY <1>7, <2>3 DEF IInv, Channels, Channel, Descended
  <2>5. s <= Descended(a) /\ Descended(a) \in Int
    BY <1>2, <1>3, <1>5
  <2>6. s <= Completed(a) /\ Completed(a) \in Int
    BY <1>0, <1>1, <1>3, <1>5, <1>6 DEF Completed
  <2>7. s <= Taken(p, a) /\ Taken(p, a) \in Int
    BY <2>5, <2>6 DEF Taken
  <2> QED
    BY <2>2, <2>4, <2>7
<1> QED
  BY <1>7, <1>8 DEF Free

\* In both forms some block of the column can go on until the stages are over,
\* for any number of blocks and without MPI having to copy a message.
THEOREM NoDeadlock == Spec => []NeverAllBlocked
BY SomeFree, Inductive, PTL

=============================================================================
