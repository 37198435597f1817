------------------------ MODULE ImplicitSweep_proof ------------------------
(***************************************************************************)
(* Proofs about ImplicitSweep, for every block grid, program of columns,    *)
(* hash and pair of block operators.                                        *)
(***************************************************************************)
EXTENDS ImplicitSweep, ImplicitProgram, SequenceTheorems, WellFoundedInduction, TLAPS

-----------------------------------------------------------------------------
(* Geometry of the block grid.                                              *)

LEMMA RankType ==
  ASSUME NEW r \in Rank
  PROVE  /\ r \in [Dir -> Int]
         /\ \A d \in Dir : r[d] \in Nat /\ r[d] < Dims[d] /\ Dims[d] \in Nat
BY DimsAssumption DEF Rank, Dir

LEMMA UpType ==
  ASSUME NEW d \in Dir, NEW r \in Rank
  PROVE  /\ Up(d, r) \in Rank
         /\ \A e \in Dir \ {d} : Up(d, r)[e] = r[e]
         /\ r[d] # Dims[d] - 1 => Up(d, r)[d] = r[d] + 1
BY RankType, DimsAssumption DEF Up, Rank, Dir

LEMMA DownType ==
  ASSUME NEW d \in Dir, NEW r \in Rank
  PROVE  /\ Down(d, r) \in Rank
         /\ \A e \in Dir \ {d} : Down(d, r)[e] = r[e]
         /\ r[d] # 0 => Down(d, r)[d] = r[d] - 1
BY RankType, DimsAssumption DEF Down, Rank, Dir

LEMMA SchedType ==
  ASSUME NEW w \in Work
  PROVE  /\ Sched[w] \in [dir : Dir, slot : Slot, opens : BOOLEAN]
         /\ Sched[w].dir \in Dir /\ Sched[w].slot \in Slot
         /\ w \in 1 .. Len(Sched) /\ Len(Sched) \in Nat
<1>1. w \in 1 .. Len(Sched)
  BY DEF Work
<1>2. Sched[w] \in [dir : Dir, slot : Slot, opens : BOOLEAN]
  BY <1>1, SchedAssumption, ElementOfSeq
<1>3. Sched[w].dir \in Dir /\ Sched[w].slot \in Slot
  BY <1>2
<1>4. Len(Sched) \in Nat
  BY SchedAssumption
<1> QED
  BY <1>1, <1>2, <1>3, <1>4

LEMMA AboveFacts ==
  ASSUME NEW w \in Work, NEW r \in Rank, ~ LastBlock(w, r)
  PROVE  /\ Above(w, r) \in Rank
         /\ Higher(w, r, Above(w, r))
         /\ ~ FirstBlock(w, Above(w, r))
         /\ Below(w, Above(w, r)) = r
<1> DEFINE d == Sched[w].dir
<1>1. d \in Dir
  BY SchedType
<1>2. /\ Above(w, r) \in Rank
      /\ \A e \in Dir \ {d} : Above(w, r)[e] = r[e]
      /\ Above(w, r)[d] = r[d] + 1
  BY <1>1, UpType DEF Above, LastBlock
<1>3. /\ r \in [Dir -> Int] /\ r[d] \in Nat
      /\ Above(w, r) \in [Dir -> Int]
  BY <1>1, <1>2, RankType
<1>4. /\ Below(w, Above(w, r)) \in [Dir -> Int]
      /\ \A e \in Dir \ {d} : Below(w, Above(w, r))[e] = r[e]
      /\ Below(w, Above(w, r))[d] = r[d]
  <2>1. /\ Down(d, Above(w, r)) \in Rank
        /\ \A e \in Dir \ {d} : Down(d, Above(w, r))[e] = Above(w, r)[e]
        /\ Above(w, r)[d] # 0 => Down(d, Above(w, r))[d] = Above(w, r)[d] - 1
    BY <1>1, <1>2, DownType
  <2>2. Above(w, r)[d] # 0
    BY <1>2, <1>3
  <2> QED
    BY <1>2, <1>3, <2>1, <2>2, RankType DEF Below
<1>5. Below(w, Above(w, r)) = r
  <2>1. \A e \in Dir : Below(w, Above(w, r))[e] = r[e]
    BY <1>4
  <2> QED
    BY <1>3, <1>4, <2>1
<1> QED
  BY <1>2, <1>3, <1>5 DEF Higher, SameLine, FirstBlock

LEMMA BelowFacts ==
  ASSUME NEW w \in Work, NEW r \in Rank, ~ FirstBlock(w, r)
  PROVE  /\ Below(w, r) \in Rank
         /\ Higher(w, Below(w, r), r)
         /\ ~ LastBlock(w, Below(w, r))
         /\ Above(w, Below(w, r)) = r
<1> DEFINE d == Sched[w].dir
           b == Below(w, r)
<1>1. d \in Dir
  BY SchedType
<1>2. /\ b \in Rank
      /\ \A e \in Dir \ {d} : b[e] = r[e]
      /\ b[d] = r[d] - 1
  BY <1>1, DownType DEF Below, FirstBlock
<1>3. /\ r \in [Dir -> Int] /\ r[d] \in Nat /\ r[d] < Dims[d]
      /\ Dims[d] \in Nat
  BY <1>1, RankType
<1>4. b[d] # Dims[d] - 1
  BY <1>2, <1>3
<1>5. /\ Up(d, b) \in [Dir -> Int]
      /\ \A e \in Dir \ {d} : Up(d, b)[e] = b[e]
      /\ Up(d, b)[d] = b[d] + 1
  BY <1>1, <1>2, <1>4, UpType, RankType
<1>6. Up(d, b) = r
  <2>1. \A e \in Dir : Up(d, b)[e] = r[e]
    BY <1>2, <1>3, <1>5
  <2> QED
    BY <1>3, <1>5, <2>1
<1> QED
  BY <1>2, <1>3, <1>4, <1>6 DEF Higher, SameLine, LastBlock, Above

\* Below a rank on a line are its lower neighbour and what is below that one.
LEMMA BelowNearest ==
  ASSUME NEW w \in Work, NEW r \in Rank, NEW p \in Rank, Higher(w, p, r)
  PROVE  /\ ~ FirstBlock(w, r)
         /\ p = Below(w, r) \/ Higher(w, p, Below(w, r))
<1> DEFINE d == Sched[w].dir
           b == Below(w, r)
<1>1. d \in Dir
  BY SchedType
<1>2. /\ p \in [Dir -> Int] /\ r \in [Dir -> Int]
      /\ p[d] \in Nat /\ r[d] \in Nat /\ p[d] < r[d]
      /\ \A e \in Dir \ {d} : p[e] = r[e]
  BY <1>1, RankType DEF Higher, SameLine
<1>3. ~ FirstBlock(w, r)
  BY <1>2 DEF FirstBlock
<1>4. /\ b \in [Dir -> Int]
      /\ \A e \in Dir \ {d} : b[e] = r[e]
      /\ b[d] = r[d] - 1
  BY <1>1, <1>3, DownType, RankType DEF Below, FirstBlock
<1>5. CASE p[d] = r[d] - 1
  <2>1. \A e \in Dir : p[e] = b[e]
    BY <1>2, <1>4, <1>5
  <2>2. p = b
    BY <1>2, <1>4, <2>1
  <2> QED
    BY <1>3, <2>2
<1>6. CASE p[d] # r[d] - 1
  BY <1>2, <1>3, <1>4, <1>6 DEF Higher, SameLine
<1> QED
  BY <1>5, <1>6

LEMMA AboveNearest ==
  ASSUME NEW w \in Work, NEW r \in Rank, NEW p \in Rank, Higher(w, r, p)
  PROVE  /\ ~ LastBlock(w, r)
         /\ p = Above(w, r) \/ Higher(w, Above(w, r), p)
<1> DEFINE d == Sched[w].dir
           a == Above(w, r)
<1>1. d \in Dir
  BY SchedType
<1>2. /\ p \in [Dir -> Int] /\ r \in [Dir -> Int]
      /\ p[d] \in Nat /\ r[d] \in Nat /\ r[d] < p[d]
      /\ p[d] < Dims[d] /\ Dims[d] \in Nat
      /\ \A e \in Dir \ {d} : p[e] = r[e]
  BY <1>1, RankType DEF Higher, SameLine
<1>3. ~ LastBlock(w, r)
  BY <1>2 DEF LastBlock
<1>4. /\ a \in [Dir -> Int]
      /\ \A e \in Dir \ {d} : a[e] = r[e]
      /\ a[d] = r[d] + 1
  BY <1>1, <1>3, UpType, RankType DEF Above, LastBlock
<1>5. CASE p[d] = r[d] + 1
  <2>1. \A e \in Dir : p[e] = a[e]
    BY <1>2, <1>4, <1>5
  <2>2. p = a
    BY <1>2, <1>4, <2>1
  <2> QED
    BY <1>3, <2>2
<1>6. CASE p[d] # r[d] + 1
  BY <1>2, <1>3, <1>4, <1>6 DEF Higher, SameLine
<1> QED
  BY <1>5, <1>6

\* No sweep has a rank's upper neighbour of one sweep as its lower neighbour.
LEMMA NoReverse ==
  ASSUME NEW w \in Work, NEW v \in Work, NEW r \in Rank,
         ~ LastBlock(w, r), ~ FirstBlock(v, r)
  PROVE  Above(w, r) # Below(v, r)
<1> DEFINE d == Sched[w].dir
           e == Sched[v].dir
<1>1. d \in Dir /\ e \in Dir
  BY SchedType
<1>2. r[d] \in Nat /\ r[e] \in Nat
  BY <1>1, RankType
<1>3. Above(w, r)[d] = r[d] + 1
  BY <1>1, UpType DEF Above, LastBlock
<1>4. Below(v, r)[d] = r[d] \/ Below(v, r)[d] = r[d] - 1
  BY <1>1, DownType DEF Below, FirstBlock
<1> QED
  BY <1>2, <1>3, <1>4

\* The naturals are well founded.
LEMMA Smallest ==
  ASSUME NEW S \in SUBSET Nat, S # {}
  PROVE  \E n \in S : \A m \in S : n <= m
<1> DEFINE R == OpToRel(<, Nat)
<1>1. IsWellFoundedOn(R, Nat)
  BY NatLessThanWellFounded
<1> HIDE DEF R
<1>2. PICK n \in S : \A m \in S : ~ (<<m, n>> \in R)
  BY <1>1, WFMin
<1>3. ASSUME NEW m \in S
      PROVE  n <= m
  <2>1. ~ (m < n)
    BY <1>2 DEF R, OpToRel
  <2> QED
    BY <2>1
<1> QED
  BY <1>3

\* Induction over the naturals.
LEMMA Induction ==
  ASSUME NEW S, 0 \in S, \A n \in Nat : n \in S => n + 1 \in S
  PROVE  Nat \subseteq S
<1> SUFFICES ASSUME Nat \ S # {} PROVE FALSE
  OBVIOUS
<1>1. PICK n \in Nat \ S : \A m \in Nat \ S : n <= m
  BY Smallest
<1>2. n # 0 /\ n - 1 \in Nat /\ n - 1 < n
  OBVIOUS
<1> QED
  BY <1>1, <1>2

-----------------------------------------------------------------------------
(* The undistributed algorithm: its recursions have a result, along lines of *)
(* any length.                                                              *)

LEMMA CoefficientsFact ==
  ASSUME NEW w \in Work, NEW r \in Rank
  PROVE  RefCoef[w][r] =
           Eliminate(w, r, IF FirstBlock(w, r) THEN Nil ELSE RefCoef[w][Below(w, r)])
<1> DEFINE d == Sched[w].dir
           One(f, q) == Eliminate(w, q, IF FirstBlock(w, q) THEN Nil ELSE f[Below(w, q)])
           Runs(f) == f = [q \in Rank |-> One(f, q)]
           Upto(f, k) == \A q \in Rank : q[d] < k => f[q] = One(f, q)
           Some(k) == \E f : f = [q \in Rank |-> f[q]] /\ Upto(f, k)
           S == { k \in Nat : Some(k) }
<1>1. \A q \in Rank :
        /\ q[d] \in Nat /\ q[d] < Dims[d] /\ Dims[d] \in Nat
        /\ ~ FirstBlock(w, q) => Below(w, q) \in Rank /\ Below(w, q)[d] = q[d] - 1
  <2>1. d \in Dir
    BY SchedType
  <2> QED
    BY <2>1, RankType, DownType DEF Below, FirstBlock
<1>2. 0 \in S
  <2> DEFINE f == [q \in Rank |-> Nil]
  <2>1. f = [q \in Rank |-> f[q]] /\ Upto(f, 0)
    BY <1>1
  <2> HIDE DEF f, Upto
  <2> QED
    BY <2>1
<1>3. ASSUME NEW k \in Nat, Some(k)
      PROVE  Some(k + 1)
  <2>1. PICK f : f = [q \in Rank |-> f[q]] /\ Upto(f, k)
    BY <1>3
  <2> DEFINE h == [q \in Rank |-> IF q[d] < k THEN f[q] ELSE One(f, q)]
  <2>2. \A q \in Rank : h[q] = IF q[d] < k THEN f[q] ELSE One(f, q)
    OBVIOUS
  <2>3. h = [q \in Rank |-> h[q]]
    OBVIOUS
  <2> HIDE DEF h
  <2>4. ASSUME NEW q \in Rank, q[d] < k + 1 PROVE h[q] = One(h, q)
    <3>1. h[q] = One(f, q)
      BY <2>1, <2>2
    <3>2. ~ FirstBlock(w, q) => h[Below(w, q)] = f[Below(w, q)]
      <4> SUFFICES ASSUME ~ FirstBlock(w, q) PROVE h[Below(w, q)] = f[Below(w, q)]
        OBVIOUS
      <4>1. Below(w, q) \in Rank /\ Below(w, q)[d] = q[d] - 1 /\ q[d] \in Nat
        BY <1>1
      <4>2. Below(w, q)[d] < k
        BY <2>4, <4>1
      <4> QED
        BY <2>2, <4>1, <4>2
    <3>3. One(f, q) = One(h, q)
      BY <3>2
    <3> QED
      BY <3>1, <3>3
  <2>5. Upto(h, k + 1)
    BY <2>4
  <2> HIDE DEF Upto
  <2> QED
    BY <2>3, <2>5
<1>4. Nat \subseteq S
  <2> HIDE DEF Some
  <2>1. 0 \in S /\ \A n \in Nat : n \in S => n + 1 \in S
    BY <1>2, <1>3
  <2> HIDE DEF S
  <2> QED
    BY <2>1, Induction
<1>5. PICK f : f = [q \in Rank |-> f[q]] /\ Upto(f, Dims[d])
  BY <1>1, <1>4
<1>6. Runs(f)
  <2>1. \A q \in Rank : f[q] = One(f, q)
    BY <1>1, <1>5
  <2> QED
    BY <1>5, <2>1
<1> DEFINE c == CHOOSE g : Runs(g)
<1>7. Runs(c)
  <2> HIDE DEF Runs
  <2> QED
    BY <1>6
<1>8. RefCoef[w] = c
  BY DEF RefCoef, Coefficients
<1> HIDE DEF c
<1>9. c[r] = One(c, r)
  BY <1>7
<1> QED
  BY <1>8, <1>9

LEMMA SolutionFact ==
  ASSUME NEW w \in Work, NEW r \in Rank
  PROVE  RefSol[w][r] =
           Substitute(w, r, RefCoef[w][r], IF LastBlock(w, r) THEN Nil ELSE RefSol[w][Above(w, r)])
<1> DEFINE d == Sched[w].dir
           top == Dims[d] - 1
           One(f, q) == Substitute(w, q, Coefficients(w)[q],
                                   IF LastBlock(w, q) THEN Nil ELSE f[Above(w, q)])
           Runs(f) == f = [q \in Rank |-> One(f, q)]
           Upto(f, k) == \A q \in Rank : top - q[d] < k => f[q] = One(f, q)
           Some(k) == \E f : f = [q \in Rank |-> f[q]] /\ Upto(f, k)
           S == { k \in Nat : Some(k) }
<1>1. \A q \in Rank :
        /\ top - q[d] \in Nat /\ top - q[d] < Dims[d] /\ Dims[d] \in Nat
        /\ ~ LastBlock(w, q) => Above(w, q) \in Rank /\ top - Above(w, q)[d] = (top - q[d]) - 1
  <2>1. d \in Dir
    BY SchedType
  <2>2. \A q \in Rank : ~ LastBlock(w, q) => Above(w, q) \in Rank /\ Above(w, q)[d] = q[d] + 1
    BY <2>1, UpType DEF Above, LastBlock
  <2>3. \A q \in Rank : q[d] \in Nat /\ q[d] < Dims[d] /\ Dims[d] \in Nat
    BY <2>1, RankType
  <2> QED
    BY <2>2, <2>3
<1> HIDE DEF top
<1>2. 0 \in S
  <2> DEFINE f == [q \in Rank |-> Nil]
  <2>1. f = [q \in Rank |-> f[q]] /\ Upto(f, 0)
    BY <1>1
  <2> HIDE DEF f, Upto
  <2> QED
    BY <2>1
<1>3. ASSUME NEW k \in Nat, Some(k)
      PROVE  Some(k + 1)
  <2>1. PICK f : f = [q \in Rank |-> f[q]] /\ Upto(f, k)
    BY <1>3
  <2> DEFINE h == [q \in Rank |-> IF top - q[d] < k THEN f[q] ELSE One(f, q)]
  <2>2. \A q \in Rank : h[q] = IF top - q[d] < k THEN f[q] ELSE One(f, q)
    OBVIOUS
  <2>3. h = [q \in Rank |-> h[q]]
    OBVIOUS
  <2> HIDE DEF h
  <2>4. ASSUME NEW q \in Rank, top - q[d] < k + 1 PROVE h[q] = One(h, q)
    <3>1. h[q] = One(f, q)
      BY <2>1, <2>2
    <3>2. ~ LastBlock(w, q) => h[Above(w, q)] = f[Above(w, q)]
      <4> SUFFICES ASSUME ~ LastBlock(w, q) PROVE h[Above(w, q)] = f[Above(w, q)]
        OBVIOUS
      <4>1. Above(w, q) \in Rank /\ top - Above(w, q)[d] = (top - q[d]) - 1 /\ top - q[d] \in Nat
        BY <1>1
      <4>2. top - Above(w, q)[d] < k
        BY <2>4, <4>1
      <4> QED
        BY <2>2, <4>1, <4>2
    <3>3. One(f, q) = One(h, q)
      BY <3>2
    <3> QED
      BY <3>1, <3>3
  <2>5. Upto(h, k + 1)
    BY <2>4
  <2> HIDE DEF Upto
  <2> QED
    BY <2>3, <2>5
<1>4. Nat \subseteq S
  <2> HIDE DEF Some
  <2>1. 0 \in S /\ \A n \in Nat : n \in S => n + 1 \in S
    BY <1>2, <1>3
  <2> HIDE DEF S
  <2> QED
    BY <2>1, Induction
<1>5. PICK f : f = [q \in Rank |-> f[q]] /\ Upto(f, Dims[d])
  BY <1>1, <1>4
<1>6. Runs(f)
  <2>1. \A q \in Rank : f[q] = One(f, q)
    BY <1>1, <1>5
  <2> QED
    BY <1>5, <2>1
<1> DEFINE x == CHOOSE g : Runs(g)
<1>7. Runs(x)
  <2> HIDE DEF Runs
  <2> QED
    BY <1>6
<1>8. RefSol[w] = x
  BY DEF RefSol, Solution
<1> HIDE DEF x
<1>9. x[r] = One(x, r)
  BY <1>7
<1>10. Coefficients(w) = RefCoef[w]
  BY DEF RefCoef
<1> QED
  BY <1>8, <1>9, <1>10

-----------------------------------------------------------------------------
(* Types of what the actions put in the state.                              *)

LEMMA KindType ==
  ASSUME NEW w \in Work
  PROVE  ForwardKind(w) \in Kind /\ BackwardKind(w) \in Kind
BY DEF ForwardKind, BackwardKind, Kind

LEMMA TagType ==
  ASSUME NEW r \in Rank, NEW q \in Rank, NEW s \in Slot, NEW k \in Kind
  PROVE  CreateMPITag(q, r, s, k) \in 0 .. (TagUB - 1)
<1>1. Hash(q, r, s, k) \in Nat /\ TagUB \in Nat /\ TagUB > 0
  BY TagAssumption
<1> QED
  BY <1>1 DEF CreateMPITag

LEMMA RefType ==
  ASSUME NEW w \in Work, NEW r \in Rank
  PROVE  RefCoef[w][r] \in Val /\ RefSol[w][r] \in Val
BY DEF Val

LEMMA NilType == Nil \in Val
BY DEF Val

\* The channels' part of TypeOK, which is all the lemmas about MPI need.
NetType == net \in [Rank \X Rank -> Seq(Message)]

\* Posting on an empty channel makes it a channel of that one message.
LEMMA PostEffect ==
  ASSUME NetType, NEW r \in Rank, NEW q \in Rank, NEW s \in Slot,
         NEW k \in Kind, net[<<r, q>>] = << >>, Post(r, q, s, k)
  PROVE  /\ NetType'
         /\ Len(net'[<<r, q>>]) = 1
         /\ net'[<<r, q>>][1].slot = s /\ net'[<<r, q>>][1].kind = k
         /\ net'[<<r, q>>][1].tag = CreateMPITag(q, r, s, k)
         /\ ~ net'[<<r, q>>][1].sent
         /\ \A a, b \in Rank : a # r \/ b # q => net'[<<a, b>>] = net[<<a, b>>]
<1> DEFINE m == [tag |-> CreateMPITag(q, r, s, k), slot |-> s, kind |-> k,
                 sent |-> FALSE, val |-> Nil]
<1>1. m \in Message
  BY TagType, NilType DEF Message
<1>2. /\ Append(<< >>, m) \in Seq(Message)
      /\ Len(Append(<< >>, m)) = 1
      /\ Append(<< >>, m)[1] = m
  BY <1>1, EmptySeq, AppendProperties
<1>3. <<r, q>> \in Rank \X Rank
  OBVIOUS
<1>4. net' = [net EXCEPT ![<<r, q>>] = Append(<< >>, m)]
  BY DEF Post
<1>5. net'[<<r, q>>] = Append(<< >>, m)
  BY <1>3, <1>4 DEF NetType
<1>6. NetType'
  BY <1>2, <1>4 DEF NetType
<1>7. ASSUME NEW a \in Rank, NEW b \in Rank, a # r \/ b # q
      PROVE  net'[<<a, b>>] = net[<<a, b>>]
  BY <1>4, <1>7 DEF NetType
<1> QED
  BY <1>2, <1>5, <1>6, <1>7

\* Receiving from a channel of one message empties it.
LEMMA ReceiveEffect ==
  ASSUME NetType, NEW r \in Rank, NEW q \in Rank, NEW s, NEW k,
         net[<<q, r>>] = << >> \/ Len(net[<<q, r>>]) = 1,
         Receive(r, q, s, k)
  PROVE  /\ NetType'
         /\ Len(net[<<q, r>>]) = 1
         /\ net'[<<q, r>>] = << >>
         /\ buffer' = [buffer EXCEPT ![r][s] = Payload(q, net[<<q, r>>][1])]
         /\ inbox' = [inbox EXCEPT ![r] = Payload(q, net[<<q, r>>][1])]
         /\ \A a, b \in Rank : a # q \/ b # r => net'[<<a, b>>] = net[<<a, b>>]
<1> DEFINE c == net[<<q, r>>]
<1>1. PICK i \in 1 .. Len(c) :
        /\ buffer' = [buffer EXCEPT ![r][s] = Payload(q, c[i])]
        /\ inbox' = [inbox EXCEPT ![r] = Payload(q, c[i])]
        /\ net' = [net EXCEPT ![<<q, r>>] =
                     SubSeq(c, 1, i - 1) \o SubSeq(c, i + 1, Len(c))]
  BY DEF Receive
<1>2. c \in Seq(Message) /\ <<q, r>> \in Rank \X Rank
  BY DEF NetType
<1>3. Len(c) = 1
  BY <1>1, <1>2, EmptySeq
<1>4. i = 1
  BY <1>1, <1>3
<1>5. SubSeq(c, 1, i - 1) = << >> /\ SubSeq(c, i + 1, Len(c)) = << >>
  BY <1>3, <1>4, SubSeqEmpty
<1>6. << >> \in Seq(Message) /\ << >> \o << >> = << >>
  BY EmptySeq, ConcatEmptySeq
<1>7. net' = [net EXCEPT ![<<q, r>>] = << >>]
  BY <1>1, <1>5, <1>6
<1>8. NetType' /\ net'[<<q, r>>] = << >>
  BY <1>2, <1>6, <1>7 DEF NetType
<1>9. ASSUME NEW a \in Rank, NEW b \in Rank, a # q \/ b # r
      PROVE  net'[<<a, b>>] = net[<<a, b>>]
  BY <1>7, <1>9 DEF NetType
<1> QED
  BY <1>1, <1>3, <1>4, <1>8, <1>9

-----------------------------------------------------------------------------
(* The inductive step, action by action.                                    *)

\* A channel no step touches keeps its invariant when what is pending on it
\* stays pending and its sender's unsent message stays in place.
LEMMA ChannelKept ==
  ASSUME NEW a \in Rank, NEW b \in Rank, Channel(a, b),
         net'[<<a, b>>] = net[<<a, b>>],
         \A w \in Work : /\ UpPending(w, a, b) => UpPending(w, a, b)'
                         /\ DownPending(w, a, b) => DownPending(w, a, b)',
         \A w \in Work : \A m :
           /\ UpMessage(w, a, m) /\ UpPending(w, a, b) => UpMessage(w, a, m)'
           /\ DownMessage(w, a, m) => DownMessage(w, a, m)'
  PROVE  Channel(a, b)'
<1> DEFINE c == net[<<a, b>>]
<1>1. CASE c = << >>
  BY <1>1 DEF Channel
<1>2. CASE Len(c) = 1 /\ \E w \in Work : UpPending(w, a, b) /\ UpMessage(w, a, c[1])
  <2>1. PICK w \in Work : UpPending(w, a, b) /\ UpMessage(w, a, c[1])
    BY <1>2
  <2>2. UpPending(w, a, b)'
    BY <2>1
  <2>3. \A m : m = c[1] => UpMessage(w, a, m)'
    BY <2>1
  <2>4. UpMessage(w, a, c[1])'
    BY <2>3 DEF UpMessage, ForwardKind
  <2> QED
    BY <1>2, <2>2, <2>4 DEF Channel
<1>3. CASE Len(c) = 1 /\ \E w \in Work : DownPending(w, a, b) /\ DownMessage(w, a, c[1])
  <2>1. PICK w \in Work : DownPending(w, a, b) /\ DownMessage(w, a, c[1])
    BY <1>3
  <2>2. DownPending(w, a, b)'
    BY <2>1
  <2>3. \A m : m = c[1] => DownMessage(w, a, m)'
    BY <2>1
  <2>4. DownMessage(w, a, c[1])'
    BY <2>3 DEF DownMessage, BackwardKind
  <2> QED
    BY <1>3, <2>2, <2>4 DEF Channel
<1> QED
  BY <1>1, <1>2, <1>3 DEF Channel

\* What is pending on a channel that no step touches is still carried.
LEMMA StillCarried ==
  ASSUME Delivered, NEW a \in Rank, NEW b \in Rank, NEW v \in Work,
         net'[<<a, b>>] = net[<<a, b>>],
         UpPending(v, a, b)' => UpPending(v, a, b),
         DownPending(v, a, b)' => DownPending(v, a, b)
  PROVE  /\ UpPending(v, a, b)' => Carries(a, b, v, ForwardKind(v))'
         /\ DownPending(v, a, b)' => Carries(a, b, v, BackwardKind(v))'
BY DEF Delivered, Carries, CreateMPITag, ForwardKind, BackwardKind

\* A rank whose coefficients are not taken yet waits for what is above it.
LEMMA SenderWaits ==
  ASSUME IInv, NEW w \in Work, NEW r \in Rank, NEW q \in Rank, UpPending(w, r, q)
  PROVE  work[r] = w /\ pc[r] = "recvUpper"
<1>1. ~ LastBlock(w, r) /\ q = Above(w, r) /\ SentUp(r, w) /\ ~ GotLower(q, w)
  BY DEF UpPending
<1>2. Higher(w, r, q) /\ ~ SentDown(q, w)
  BY <1>1, AboveFacts DEF SentDown, GotLower
<1>3. ~ GotUpper(r, w)
  BY <1>2 DEF IInv, Causality
<1> QED
  BY <1>1, <1>3 DEF SentUp, GotUpper

\* A rank that did not take the solution from above yet waits for it.
LEMMA ReceiverWaits ==
  ASSUME IInv, NEW w \in Work, NEW r \in Rank, NEW q \in Rank, DownPending(w, r, q)
  PROVE  work[q] = w /\ pc[q] = "recvUpper"
<1>1. ~ FirstBlock(w, r) /\ q = Below(w, r) /\ SentDown(r, w) /\ ~ GotUpper(q, w)
  BY DEF DownPending
<1>2. Higher(w, q, r) /\ GotLower(r, w)
  BY <1>1, BelowFacts DEF SentDown, GotLower
<1>3. SentUp(q, w)
  BY <1>2 DEF IInv, Causality
<1> QED
  BY <1>1, <1>3 DEF SentUp, GotUpper

LEMMA BeginSweepStep ==
  ASSUME IInv, NEW r \in Rank, BeginSweep(r)
  PROVE  IInv'
<1> DEFINE w == work[r]
           d == Sched[w].dir
           first == r[d] = 0
           last == r[d] = Dims[d] - 1
<1>1. w \in Work /\ d \in Dir /\ pc[r] = "begin"
  BY SchedType DEF IInv, Neighbours, BeginSweep
<1>2. Up(d, r) \in Rank /\ Down(d, r) \in Rank
  BY <1>1, UpType, DownType
<1>3. /\ pc' = [pc EXCEPT ![r] = IF first THEN "eliminate" ELSE "recvLower"]
      /\ UNCHANGED <<work, buffer, inbox, coef, sol, net>>
  BY DEF BeginSweep
<1>4. nb' = [nb EXCEPT ![r] =
          [bblock |-> IF first /\ ~ Periodic[d] THEN @.bblock ELSE Down(d, r),
           tblock |-> IF last /\ ~ Periodic[d] THEN @.tblock ELSE Up(d, r),
           first_block |-> first, last_block |-> last]]
  BY DEF BeginSweep
<1>5. TypeOK'
  <2>1. pc' \in [Rank -> Pc]
    BY <1>3 DEF IInv, TypeOK, Pc
  <2>2. nb' \in [Rank -> [bblock : Rank \cup {Nil}, tblock : Rank \cup {Nil},
                         first_block : BOOLEAN, last_block : BOOLEAN]]
    BY <1>2, <1>4 DEF IInv, TypeOK
  <2> QED
    BY <1>3, <2>1, <2>2 DEF IInv, TypeOK
<1>6. Neighbours'
  <2> SUFFICES ASSUME NEW a \in Rank
               PROVE  LET v == work[a] IN
                      (/\ pc[a] = "done" <=> v \notin Work
                       /\ pc[a] \notin {"begin", "done"} =>
                            /\ nb[a].first_block = FirstBlock(v, a)
                            /\ nb[a].last_block = LastBlock(v, a)
                            /\ ~ FirstBlock(v, a) => nb[a].bblock = Below(v, a)
                            /\ ~ LastBlock(v, a) => nb[a].tblock = Above(v, a)
                       /\ pc[a] = "recvLower" => ~ FirstBlock(v, a)
                       /\ pc[a] = "recvUpper" => ~ LastBlock(v, a))'
    BY DEF Neighbours
  <2>1. CASE a = r
    <3>1. /\ nb'[r].first_block = first /\ nb'[r].last_block = last
          /\ ~ first => nb'[r].bblock = Down(d, r)
          /\ ~ last => nb'[r].tblock = Up(d, r)
      BY <1>4 DEF IInv, TypeOK
    <3>2. pc'[r] = IF first THEN "eliminate" ELSE "recvLower"
      BY <1>3 DEF IInv, TypeOK
    <3> QED
      BY <1>1, <1>3, <2>1, <3>1, <3>2 DEF FirstBlock, LastBlock, Above, Below
  <2>2. CASE a # r
    BY <1>3, <1>4, <2>2 DEF IInv, TypeOK, Neighbours, FirstBlock, LastBlock, Above, Below
  <2> QED
    BY <2>1, <2>2
<1>7. \A a \in Rank, v \in Work :
        /\ SentUp(a, v)' = SentUp(a, v) /\ GotUpper(a, v)' = GotUpper(a, v)
        /\ SentDown(a, v)' = SentDown(a, v)
        /\ ~ FirstBlock(v, a) => GotLower(a, v)' = GotLower(a, v)
  BY <1>1, <1>3 DEF IInv, TypeOK, SentUp, GotUpper, SentDown, GotLower, FirstBlock
<1>8. Causality'
  BY <1>7, BelowNearest DEF IInv, Causality, Higher, SameLine
<1>9. Values'
  BY <1>1, <1>3, <1>7 DEF IInv, TypeOK, Values, FirstBlock, LastBlock
<1>10. Channels'
  <2> SUFFICES ASSUME NEW a \in Rank, NEW b \in Rank
               PROVE  Channel(a, b)'
    BY DEF Channels
  <2>1. Channel(a, b) /\ net'[<<a, b>>] = net[<<a, b>>]
    BY <1>3 DEF IInv, Channels
  <2>2. ASSUME NEW v \in Work
        PROVE  /\ UpPending(v, a, b) => UpPending(v, a, b)'
               /\ DownPending(v, a, b) => DownPending(v, a, b)'
    BY <1>7, AboveFacts DEF UpPending, DownPending, LastBlock, FirstBlock, Above, Below
  <2>3. ASSUME NEW v \in Work, NEW m
        PROVE  /\ UpMessage(v, a, m) => UpMessage(v, a, m)'
               /\ DownMessage(v, a, m) => DownMessage(v, a, m)'
    BY <1>1, <1>3 DEF IInv, TypeOK, UpMessage, DownMessage, ForwardKind, BackwardKind
  <2> QED
    BY <2>1, <2>2, <2>3, ChannelKept
<1>11. Delivered'
  <2> SUFFICES ASSUME NEW a \in Rank, NEW b \in Rank, NEW v \in Work
               PROVE  /\ UpPending(v, a, b)' => Carries(a, b, v, ForwardKind(v))'
                      /\ DownPending(v, a, b)' => Carries(a, b, v, BackwardKind(v))'
    BY DEF Delivered, ForwardKind, BackwardKind, Carries, UpPending, DownPending,
       LastBlock, FirstBlock, Above, Below, CreateMPITag
  <2>1. /\ UpPending(v, a, b)' => UpPending(v, a, b)
        /\ DownPending(v, a, b)' => DownPending(v, a, b)
    BY <1>7, AboveFacts DEF UpPending, DownPending, LastBlock, FirstBlock, Above, Below
  <2> QED
    BY <1>3, <2>1, StillCarried DEF IInv
<1> QED
  BY <1>5, <1>6, <1>8, <1>9, <1>10, <1>11 DEF IInv

LEMMA WaitSendsStep ==
  ASSUME IInv, NEW r \in Rank, WaitSends(r)
  PROVE  IInv'
<1> DEFINE w == work[r]
<1>1. w \in Work /\ w + 1 \in 1 .. (Len(Sched) + 1) /\ pc[r] = "wait"
  BY SchedAssumption, LenProperties DEF IInv, Neighbours, WaitSends, Work
<1>2. /\ work' = [work EXCEPT ![r] = w + 1]
      /\ pc' = [pc EXCEPT ![r] = EntryPc(w + 1, nb[r])]
      /\ UNCHANGED <<nb, buffer, inbox, coef, sol, net>>
  BY DEF WaitSends
<1>3. EntryPc(w + 1, nb[r]) \in {"begin", "recvLower", "eliminate", "done"}
  BY DEF EntryPc
<1>4. TypeOK'
  BY <1>1, <1>2, <1>3 DEF IInv, TypeOK, Pc
<1>5. /\ nb[r].first_block = FirstBlock(w, r)
      /\ nb[r].last_block = LastBlock(w, r)
      /\ ~ FirstBlock(w, r) => nb[r].bblock = Below(w, r)
      /\ ~ LastBlock(w, r) => nb[r].tblock = Above(w, r)
  BY <1>1 DEF IInv, Neighbours
<1>6. \/ pc'[r] = "done" /\ w + 1 \notin Work
      \/ pc'[r] = "begin" /\ w + 1 \in Work
      \/ /\ w + 1 \in Work /\ Sched[w + 1].dir = Sched[w].dir
         /\ pc'[r] = IF FirstBlock(w + 1, r) THEN "eliminate" ELSE "recvLower"
  <2>1. pc'[r] = EntryPc(w + 1, nb[r])
    BY <1>2 DEF IInv, TypeOK
  <2>2. w + 1 \in Work /\ ~ Sched[w + 1].opens => Sched[w + 1].dir = Sched[w].dir
    BY <1>1, OpensAssumption DEF Work
  <2> QED
    BY <1>5, <2>1, <2>2 DEF EntryPc, FirstBlock
<1>7. work'[r] = w + 1
  BY <1>2 DEF IInv, TypeOK
<1>8. Neighbours'
  <2> SUFFICES ASSUME NEW a \in Rank
               PROVE  LET v == work[a] IN
                      (/\ pc[a] = "done" <=> v \notin Work
                       /\ pc[a] \notin {"begin", "done"} =>
                            /\ nb[a].first_block = FirstBlock(v, a)
                            /\ nb[a].last_block = LastBlock(v, a)
                            /\ ~ FirstBlock(v, a) => nb[a].bblock = Below(v, a)
                            /\ ~ LastBlock(v, a) => nb[a].tblock = Above(v, a)
                       /\ pc[a] = "recvLower" => ~ FirstBlock(v, a)
                       /\ pc[a] = "recvUpper" => ~ LastBlock(v, a))'
    BY DEF Neighbours
  <2>1. CASE a = r
    BY <1>2, <1>5, <1>6, <1>7, <2>1 DEF FirstBlock, LastBlock, Above, Below
  <2>2. CASE a # r
    BY <1>2, <2>2 DEF IInv, TypeOK, Neighbours, FirstBlock, LastBlock, Above, Below
  <2> QED
    BY <2>1, <2>2
<1>9. \A a \in Rank, v \in Work :
        /\ SentUp(a, v)' = SentUp(a, v) /\ GotUpper(a, v)' = GotUpper(a, v)
        /\ SentDown(a, v)' = SentDown(a, v)
        /\ ~ FirstBlock(v, a) => GotLower(a, v)' = GotLower(a, v)
  <2> SUFFICES ASSUME NEW a \in Rank, NEW v \in Work
               PROVE  /\ SentUp(a, v)' = SentUp(a, v)
                      /\ GotUpper(a, v)' = GotUpper(a, v)
                      /\ SentDown(a, v)' = SentDown(a, v)
                      /\ ~ FirstBlock(v, a) => GotLower(a, v)' = GotLower(a, v)
    OBVIOUS
  <2>1. v \in Int /\ w \in Int
    BY <1>1, SchedType DEF Work
  <2>2. CASE a = r
    BY <1>1, <1>6, <1>7, <2>1, <2>2
       DEF SentUp, GotUpper, SentDown, GotLower, FirstBlock
  <2>3. CASE a # r
    BY <1>2, <2>3 DEF IInv, TypeOK, SentUp, GotUpper, SentDown, GotLower
  <2> QED
    BY <2>2, <2>3
<1>10. Causality'
  BY <1>9, BelowNearest DEF IInv, Causality, Higher, SameLine
<1>11. Values'
  <2> SUFFICES ASSUME NEW a \in Rank
               PROVE  LET v == work[a] IN
                      (/\ pc[a] = "eliminate" /\ ~ FirstBlock(v, a) =>
                            inbox[a] = RefCoef[v][Below(v, a)]
                       /\ pc[a] \in {"recvUpper", "substitute", "wait"} =>
                            coef[a][Sched[v].slot] = RefCoef[v][a]
                       /\ pc[a] = "substitute" /\ ~ LastBlock(v, a) =>
                            inbox[a] = RefSol[v][Above(v, a)]
                       /\ \A u \in Work :
                            sol[a][u] = IF SentDown(a, u) THEN RefSol[u][a]
                                                          ELSE Nil)'
    BY DEF Values
  <2>1. \A u \in Work : sol'[a][u] = IF SentDown(a, u)' THEN RefSol[u][a] ELSE Nil
    BY <1>2, <1>9 DEF IInv, Values
  <2>2. CASE a = r
    BY <1>6, <1>7, <2>1, <2>2 DEF FirstBlock
  <2>3. CASE a # r
    BY <1>2, <2>1, <2>3 DEF IInv, TypeOK, Values, FirstBlock, LastBlock, Above, Below
  <2> QED
    BY <2>2, <2>3
<1>12. Channels'
  <2> SUFFICES ASSUME NEW a \in Rank, NEW b \in Rank
               PROVE  Channel(a, b)'
    BY DEF Channels
  <2>1. Channel(a, b) /\ net'[<<a, b>>] = net[<<a, b>>]
    BY <1>2 DEF IInv, Channels
  <2>2. ASSUME NEW v \in Work
        PROVE  /\ UpPending(v, a, b) => UpPending(v, a, b)'
               /\ DownPending(v, a, b) => DownPending(v, a, b)'
    BY <1>9, AboveFacts DEF UpPending, DownPending, LastBlock, FirstBlock, Above, Below
  <2>3. CASE a # r
    <3>1. ASSUME NEW v \in Work, NEW m
          PROVE  /\ UpMessage(v, a, m) => UpMessage(v, a, m)'
                 /\ DownMessage(v, a, m) => DownMessage(v, a, m)'
      BY <1>2, <2>3 DEF IInv, TypeOK, UpMessage, DownMessage, ForwardKind, BackwardKind
    <3> QED
      BY <2>1, <2>2, <3>1, ChannelKept
  <2>4. CASE a = r
    <3> DEFINE c == net[<<r, b>>]
    <3>1. CASE c = << >>
      BY <2>1, <2>4, <3>1 DEF Channel
    <3>2. CASE c # << >>
      <4>1. PICK v \in Work :
              /\ Len(c) = 1
              /\ \/ UpPending(v, r, b) /\ UpMessage(v, r, c[1])
                 \/ DownPending(v, r, b) /\ DownMessage(v, r, c[1])
        BY <2>1, <2>4, <3>2 DEF Channel
      <4>2. CASE c[1].sent
        BY <1>2, <2>1, <2>2, <2>4, <4>1, <4>2 DEF Channel, UpMessage, DownMessage,
           ForwardKind, BackwardKind
      <4>3. CASE ~ c[1].sent
        <5>1. /\ v = w /\ DownPending(v, r, b) /\ DownMessage(v, r, c[1])
          BY <1>1, <4>1, <4>3 DEF UpMessage, DownMessage
        <5>2. InFlight(r, b, Sched[w].slot, BackwardKind(w))
          BY <4>1, <4>3, <5>1 DEF InFlight, DownMessage
        <5>3. ~ FirstBlock(w, r) /\ b = Below(w, r)
          BY <5>1 DEF DownPending
        <5> QED
          BY <1>5, <5>2, <5>3 DEF WaitSends
      <4> QED
        BY <4>2, <4>3
    <3> QED
      BY <3>1, <3>2
  <2> QED
    BY <2>3, <2>4
<1>13. Delivered'
  <2> SUFFICES ASSUME NEW a \in Rank, NEW b \in Rank, NEW v \in Work
               PROVE  /\ UpPending(v, a, b)' => Carries(a, b, v, ForwardKind(v))'
                      /\ DownPending(v, a, b)' => Carries(a, b, v, BackwardKind(v))'
    BY DEF Delivered, ForwardKind, BackwardKind, Carries, UpPending, DownPending,
       LastBlock, FirstBlock, Above, Below, CreateMPITag
  <2>1. /\ UpPending(v, a, b)' => UpPending(v, a, b)
        /\ DownPending(v, a, b)' => DownPending(v, a, b)
    BY <1>9, AboveFacts DEF UpPending, DownPending, LastBlock, FirstBlock, Above, Below
  <2> QED
    BY <1>2, <2>1, StillCarried DEF IInv
<1> QED
  BY <1>4, <1>8, <1>10, <1>11, <1>12, <1>13 DEF IInv

LEMMA ForwardSweepStep ==
  ASSUME IInv, NEW r \in Rank, ForwardSweep(r)
  PROVE  IInv'
<1>0. PICK w \in Work : w = work[r]
  BY DEF IInv, Neighbours, ForwardSweep
<1> DEFINE s == Sched[w].slot
           c == Eliminate(w, r, IF nb[r].first_block THEN Nil ELSE inbox[r])
           up == ~ LastBlock(w, r)
           q == Above(w, r)
<1>1. /\ w \in Work /\ w = work[r] /\ s \in Slot /\ pc[r] = "eliminate"
      /\ nb[r].first_block = FirstBlock(w, r)
      /\ nb[r].last_block = LastBlock(w, r)
      /\ up => nb[r].tblock = q /\ q \in Rank
  BY <1>0, SchedType, AboveFacts DEF IInv, Neighbours, ForwardSweep
<1>2. c = RefCoef[w][r]
  <2>1. ~ FirstBlock(w, r) => inbox[r] = RefCoef[w][Below(w, r)]
    BY <1>1 DEF IInv, Values
  <2>2. RefCoef[w][r] =
          Eliminate(w, r, IF FirstBlock(w, r) THEN Nil ELSE RefCoef[w][Below(w, r)])
    BY <1>1, CoefficientsFact
  <2> QED
    BY <1>1, <2>1, <2>2
<1>3. /\ coef' = [coef EXCEPT ![r][s] = RefCoef[w][r]]
      /\ UNCHANGED <<work, nb, inbox, sol>>
      /\ pc' = [pc EXCEPT ![r] = IF up THEN "recvUpper" ELSE "substitute"]
      /\ buffer' = IF up THEN [buffer EXCEPT ![r][s] = RefCoef[w][r]] ELSE buffer
      /\ up => Post(r, q, s, ForwardKind(w))
      /\ ~ up => net' = net
  BY <1>1, <1>2 DEF ForwardSweep
<1>4. \A a \in Rank, v \in Work :
        /\ GotLower(a, v)' = GotLower(a, v) /\ SentDown(a, v)' = SentDown(a, v)
        /\ SentUp(a, v)' = (SentUp(a, v) \/ (a = r /\ v = w))
        /\ GotUpper(a, v)' = (GotUpper(a, v) \/ (a = r /\ v = w /\ ~ up))
  BY <1>1, <1>3 DEF IInv, TypeOK, SentUp, GotUpper, SentDown, GotLower
\* Nothing is outstanding above: the reply to the previous column is in.
<1>5. up => net[<<r, q>>] = << >>
  <2>0. SUFFICES ASSUME up, net[<<r, q>>] # << >>
                 PROVE  FALSE
    OBVIOUS
  <2>1. PICK v \in Work : \/ UpPending(v, r, q)
                          \/ DownPending(v, r, q)
    BY <1>1, <2>0 DEF IInv, Channels, Channel
  <2>2. CASE DownPending(v, r, q)
    BY <1>1, <2>0, <2>2, NoReverse DEF DownPending
  <2>3. CASE UpPending(v, r, q)
    <3>1. v \in Int /\ w \in Int
      BY <1>1, SchedType DEF Work
    <3>2. SentUp(r, v) /\ ~ GotLower(q, v) /\ ~ LastBlock(v, r) /\ q = Above(v, r)
      BY <2>3 DEF UpPending
    <3>3. GotUpper(r, v)
      BY <1>1, <3>1, <3>2 DEF SentUp, GotUpper
    <3>4. SentDown(q, v)
      BY <1>1, <3>2, <3>3, AboveFacts DEF IInv, Causality
    <3> QED
      BY <3>2, <3>4 DEF SentDown, GotLower
  <2> QED
    BY <2>1, <2>2, <2>3
<1>6. up => /\ NetType' /\ Len(net'[<<r, q>>]) = 1
            /\ net'[<<r, q>>][1].slot = s
            /\ net'[<<r, q>>][1].kind = ForwardKind(w)
            /\ net'[<<r, q>>][1].tag = CreateMPITag(q, r, s, ForwardKind(w))
            /\ ~ net'[<<r, q>>][1].sent
            /\ \A a, b \in Rank : a # r \/ b # q => net'[<<a, b>>] = net[<<a, b>>]
  <2>1. SUFFICES ASSUME up
                 PROVE  /\ NetType' /\ Len(net'[<<r, q>>]) = 1
                        /\ net'[<<r, q>>][1].slot = s
                        /\ net'[<<r, q>>][1].kind = ForwardKind(w)
                        /\ net'[<<r, q>>][1].tag = CreateMPITag(q, r, s, ForwardKind(w))
                        /\ ~ net'[<<r, q>>][1].sent
                        /\ \A a, b \in Rank :
                             a # r \/ b # q => net'[<<a, b>>] = net[<<a, b>>]
    OBVIOUS
  <2>2. ForwardKind(w) \in Kind /\ Post(r, q, s, ForwardKind(w)) /\ NetType
    BY <1>3, <2>1, KindType DEF IInv, TypeOK, NetType
  <2>3. q \in Rank /\ s \in Slot /\ net[<<r, q>>] = << >>
    BY <1>1, <1>5, <2>1
  <2> QED
    BY <2>2, <2>3, PostEffect
<1>7. TypeOK'
  BY <1>1, <1>3, <1>6, RefType DEF IInv, TypeOK, Pc, NetType
<1>8. Neighbours'
  BY <1>1, <1>3 DEF IInv, TypeOK, Neighbours, FirstBlock, LastBlock, Above, Below
<1>9. Causality'
  <2> SUFFICES ASSUME NEW v \in Work, NEW a \in Rank, NEW b \in Rank,
                      Higher(v, a, b)
               PROVE  /\ GotLower(b, v)' => SentUp(a, v)'
                      /\ GotUpper(a, v)' => SentDown(b, v)'
    BY DEF Causality, Higher, SameLine
  <2>1. /\ GotLower(b, v) => SentUp(a, v)
        /\ GotUpper(a, v) => SentDown(b, v)
    BY DEF IInv, Causality
  <2>2. ~ LastBlock(v, a)
    BY AboveNearest
  <2> QED
    BY <1>4, <2>1, <2>2
<1>10. Values'
  <2> SUFFICES ASSUME NEW a \in Rank
               PROVE  LET v == work[a] IN
                      (/\ pc[a] = "eliminate" /\ ~ FirstBlock(v, a) =>
                            inbox[a] = RefCoef[v][Below(v, a)]
                       /\ pc[a] \in {"recvUpper", "substitute", "wait"} =>
                            coef[a][Sched[v].slot] = RefCoef[v][a]
                       /\ pc[a] = "substitute" /\ ~ LastBlock(v, a) =>
                            inbox[a] = RefSol[v][Above(v, a)]
                       /\ \A u \in Work :
                            sol[a][u] = IF SentDown(a, u) THEN RefSol[u][a]
                                                          ELSE Nil)'
    BY DEF Values
  <2>1. \A u \in Work : sol'[a][u] = IF SentDown(a, u)' THEN RefSol[u][a] ELSE Nil
    BY <1>3, <1>4 DEF IInv, Values
  <2>2. CASE a = r
    BY <1>1, <1>3, <2>1, <2>2 DEF IInv, TypeOK, LastBlock
  <2>3. CASE a # r
    BY <1>3, <2>1, <2>3 DEF IInv, TypeOK, Values, FirstBlock, LastBlock, Above, Below
  <2> QED
    BY <2>2, <2>3
<1>11. Channels'
  <2> SUFFICES ASSUME NEW a \in Rank, NEW b \in Rank
               PROVE  Channel(a, b)'
    BY DEF Channels
  <2>1. CASE up /\ a = r /\ b = q
    <3>1. up /\ q \in Rank
      BY <1>1, <2>1
    <3>2. ~ GotLower(q, w)
      <4>1. Higher(w, r, q)
        BY <1>1, <3>1, AboveFacts
      <4>2. w \in Int /\ ~ SentUp(r, w)
        BY <1>1, SchedType DEF SentUp, Work
      <4> QED
        BY <1>1, <3>1, <4>1, <4>2 DEF IInv, Causality
    <3>3. SentUp(r, w)' /\ ~ GotLower(q, w)'
      BY <1>1, <1>4, <3>1, <3>2
    <3>4. UpPending(w, r, q)'
      BY <3>1, <3>3 DEF UpPending, LastBlock, Above
    <3>5. UpMessage(w, r, net[<<r, q>>][1])'
      BY <1>1, <1>3, <1>6, <3>1 DEF UpMessage, ForwardKind, IInv, TypeOK
    <3> QED
      BY <1>1, <1>6, <2>1, <3>1, <3>4, <3>5 DEF Channel
  <2>2. CASE ~ (up /\ a = r /\ b = q)
    <3>1. Channel(a, b) /\ net'[<<a, b>>] = net[<<a, b>>]
      BY <1>3, <1>6, <2>2 DEF IInv, Channels
    <3>2. ASSUME NEW v \in Work
          PROVE  /\ UpPending(v, a, b) => UpPending(v, a, b)'
                 /\ DownPending(v, a, b) => DownPending(v, a, b)'
      <4>1. ~ FirstBlock(v, a) /\ b = Below(v, a) => b # r \/ v # w \/ up
        BY BelowFacts
      <4> QED
        BY <1>4, <4>1 DEF UpPending, DownPending, LastBlock, FirstBlock, Above, Below
    <3>3. ASSUME NEW v \in Work, NEW m
          PROVE  /\ UpMessage(v, a, m) => UpMessage(v, a, m)'
                 /\ DownMessage(v, a, m) => DownMessage(v, a, m)'
      BY <1>1, <1>3 DEF IInv, TypeOK, UpMessage, DownMessage, ForwardKind, BackwardKind
    <3> QED
      BY <3>1, <3>2, <3>3, ChannelKept
  <2> QED
    BY <2>1, <2>2
<1>12. Delivered'
  <2> SUFFICES ASSUME NEW a \in Rank, NEW b \in Rank, NEW v \in Work
               PROVE  /\ UpPending(v, a, b)' => Carries(a, b, v, ForwardKind(v))'
                      /\ DownPending(v, a, b)' => Carries(a, b, v, BackwardKind(v))'
    BY DEF Delivered, ForwardKind, BackwardKind, Carries, UpPending, DownPending,
       LastBlock, FirstBlock, Above, Below, CreateMPITag
  <2>1. /\ UpPending(v, a, b)' => UpPending(v, a, b) \/ (up /\ a = r /\ b = q /\ v = w)
        /\ DownPending(v, a, b)' => DownPending(v, a, b)
    BY <1>4 DEF UpPending, DownPending, LastBlock, FirstBlock, Above, Below
  <2>2. CASE up /\ a = r /\ b = q
    <3>1. ~ UpPending(v, r, q) /\ ~ DownPending(v, r, q)
      BY <1>1, <1>5, <2>2 DEF IInv, Delivered, Carries
    <3>2. Carries(r, q, w, ForwardKind(w))'
      BY <1>6, <2>2, EmptySeq DEF Carries, CreateMPITag, ForwardKind
    <3> QED
      BY <2>1, <2>2, <3>1, <3>2
  <2>3. CASE ~ (up /\ a = r /\ b = q)
    <3>1. net'[<<a, b>>] = net[<<a, b>>]
      BY <1>3, <1>6, <2>3
    <3> QED
      BY <2>1, <2>3, <3>1, StillCarried DEF IInv
  <2> QED
    BY <2>2, <2>3
<1> QED
  BY <1>7, <1>8, <1>9, <1>10, <1>11, <1>12 DEF IInv

\* What is pending from below a rank that waits for it is the message of the
\* rank's own column, with the lower neighbour's coefficients.
LEMMA LowerArrives ==
  ASSUME IInv, NEW r \in Rank, NEW w \in Work, w = work[r],
         pc[r] = "recvLower", net[<<Below(w, r), r>>] # << >>
  PROVE  LET b == Below(w, r)
             m == net[<<b, r>>][1]
         IN /\ Len(net[<<b, r>>]) = 1
            /\ UpPending(w, b, r)
            /\ Payload(b, m) = RefCoef[w][b]
<1> DEFINE b == Below(w, r)
           m == net[<<b, r>>][1]
<1>1. ~ FirstBlock(w, r)
  BY DEF IInv, Neighbours
<1>2. /\ b \in Rank /\ Higher(w, b, r) /\ ~ LastBlock(w, b)
      /\ Above(w, b) = r
  BY <1>1, BelowFacts
<1>3. PICK v \in Work :
        /\ Len(net[<<b, r>>]) = 1
        /\ \/ UpPending(v, b, r) /\ UpMessage(v, b, m)
           \/ DownPending(v, b, r) /\ DownMessage(v, b, m)
  BY <1>2 DEF IInv, Channels, Channel
<1>4. UpPending(v, b, r) /\ UpMessage(v, b, m)
  BY <1>2, <1>3, NoReverse DEF DownPending
<1>5. v \in Int /\ w \in Int /\ work[b] \in Int
  BY <1>2, SchedType DEF Work, IInv, TypeOK
<1>6. v = w
  <2>1. SUFFICES ASSUME v # w
                 PROVE  FALSE
    OBVIOUS
  <2>2. v > w
    BY <1>4, <1>5, <2>1 DEF UpPending, GotLower
  <2>3. GotUpper(b, w)
    BY <1>4, <1>5, <2>2 DEF UpPending, SentUp, GotUpper
  <2>4. SentDown(r, w)
    BY <1>2, <2>3 DEF IInv, Causality
  <2> QED
    BY <1>5, <2>4 DEF SentDown
<1>7. Payload(b, m) = RefCoef[w][b]
  BY <1>4, <1>6 DEF UpMessage, Payload
<1> QED
  BY <1>3, <1>4, <1>6, <1>7

LEMMA RecvLowerStep ==
  ASSUME IInv, NEW r \in Rank, RecvLower(r)
  PROVE  IInv'
<1>0. PICK w \in Work : w = work[r]
  BY DEF IInv, Neighbours, RecvLower
<1> DEFINE s == Sched[w].slot
           b == Below(w, r)
<1>1. /\ s \in Slot /\ pc[r] = "recvLower" /\ ~ FirstBlock(w, r)
      /\ nb[r].bblock = b
  BY <1>0, SchedType DEF IInv, Neighbours, RecvLower
<1>2. b \in Rank /\ Higher(w, b, r) /\ ~ LastBlock(w, b) /\ Above(w, b) = r
  BY <1>1, BelowFacts
<1>3. /\ Receive(r, b, s, ForwardKind(w))
      /\ pc' = [pc EXCEPT ![r] = "eliminate"]
      /\ UNCHANGED <<work, nb, coef, sol>>
  BY <1>0, <1>1 DEF RecvLower
<1>4. NetType /\ net[<<b, r>>] # << >>
  BY <1>2, <1>3, EmptySeq DEF Receive, IInv, TypeOK, NetType
<1>5. /\ Len(net[<<b, r>>]) = 1 /\ UpPending(w, b, r)
      /\ Payload(b, net[<<b, r>>][1]) = RefCoef[w][b]
  BY <1>0, <1>1, <1>4, LowerArrives
<1>6. /\ NetType' /\ net'[<<b, r>>] = << >>
      /\ buffer' = [buffer EXCEPT ![r][s] = RefCoef[w][b]]
      /\ inbox' = [inbox EXCEPT ![r] = RefCoef[w][b]]
      /\ \A x, y \in Rank : x # b \/ y # r => net'[<<x, y>>] = net[<<x, y>>]
  BY <1>2, <1>3, <1>4, <1>5, ReceiveEffect
<1>7. TypeOK'
  BY <1>1, <1>2, <1>3, <1>6, RefType DEF IInv, TypeOK, Pc, NetType
<1>8. Neighbours'
  BY <1>0, <1>1, <1>3 DEF IInv, TypeOK, Neighbours, FirstBlock, LastBlock, Above, Below
<1>9. \A a \in Rank, v \in Work :
        /\ GotLower(a, v)' = (GotLower(a, v) \/ (a = r /\ v = w))
        /\ SentUp(a, v)' = SentUp(a, v) /\ GotUpper(a, v)' = GotUpper(a, v)
        /\ SentDown(a, v)' = SentDown(a, v)
  BY <1>0, <1>1, <1>3 DEF IInv, TypeOK, SentUp, GotUpper, SentDown, GotLower
<1>10. Causality'
  <2> SUFFICES ASSUME NEW v \in Work, NEW x \in Rank, NEW y \in Rank,
                      Higher(v, x, y)
               PROVE  /\ GotLower(y, v)' => SentUp(x, v)'
                      /\ GotUpper(x, v)' => SentDown(y, v)'
    BY DEF Causality, Higher, SameLine
  <2>1. /\ GotLower(y, v) => SentUp(x, v)
        /\ GotUpper(x, v) => SentDown(y, v)
    BY DEF IInv, Causality
  \* All below the lower neighbour sent before it did.
  <2>2. y = r /\ v = w => SentUp(x, v)
    <3>1. SUFFICES ASSUME y = r, v = w, x # b
                   PROVE  SentUp(x, w)
      BY <1>5 DEF UpPending
    <3>2. Higher(w, x, b)
      BY <3>1, BelowNearest
    <3>3. GotLower(b, w)
      BY <1>5 DEF UpPending, SentUp, GotLower
    <3> QED
      BY <1>2, <3>2, <3>3 DEF IInv, Causality
  <2> QED
    BY <1>9, <2>1, <2>2
<1>11. Values'
  <2> SUFFICES ASSUME NEW a \in Rank
               PROVE  LET v == work[a] IN
                      (/\ pc[a] = "eliminate" /\ ~ FirstBlock(v, a) =>
                            inbox[a] = RefCoef[v][Below(v, a)]
                       /\ pc[a] \in {"recvUpper", "substitute", "wait"} =>
                            coef[a][Sched[v].slot] = RefCoef[v][a]
                       /\ pc[a] = "substitute" /\ ~ LastBlock(v, a) =>
                            inbox[a] = RefSol[v][Above(v, a)]
                       /\ \A u \in Work :
                            sol[a][u] = IF SentDown(a, u) THEN RefSol[u][a]
                                                          ELSE Nil)'
    BY DEF Values
  <2>1. \A u \in Work : sol'[a][u] = IF SentDown(a, u)' THEN RefSol[u][a] ELSE Nil
    BY <1>3, <1>9 DEF IInv, Values
  <2>2. CASE a = r
    BY <1>0, <1>1, <1>3, <1>6, <2>1, <2>2 DEF IInv, TypeOK, Below
  <2>3. CASE a # r
    BY <1>3, <1>6, <2>1, <2>3 DEF IInv, TypeOK, Values, FirstBlock, LastBlock, Above, Below
  <2> QED
    BY <2>2, <2>3
<1>12. Channels'
  <2> SUFFICES ASSUME NEW x \in Rank, NEW y \in Rank
               PROVE  Channel(x, y)'
    BY DEF Channels
  <2>1. CASE x = b /\ y = r
    BY <1>6, <2>1 DEF Channel
  <2>2. CASE ~ (x = b /\ y = r)
    <3>1. Channel(x, y) /\ net'[<<x, y>>] = net[<<x, y>>]
      BY <1>6, <2>2 DEF IInv, Channels
    <3>2. ASSUME NEW v \in Work
          PROVE  /\ UpPending(v, x, y) => UpPending(v, x, y)'
                 /\ DownPending(v, x, y) => DownPending(v, x, y)'
      <4>1. ~ LastBlock(v, x) /\ y = Above(v, x) /\ v = w /\ y = r => x = b
        BY AboveFacts
      <4> QED
        BY <1>9, <2>2, <4>1 DEF UpPending, DownPending, LastBlock, FirstBlock,
           Above, Below
    <3>3. ASSUME NEW v \in Work, NEW m
          PROVE  /\ UpMessage(v, x, m) => UpMessage(v, x, m)'
                 /\ DownMessage(v, x, m) => DownMessage(v, x, m)'
      BY <1>0, <1>1, <1>3, <1>6 DEF IInv, TypeOK, UpMessage, DownMessage,
         ForwardKind, BackwardKind
    <3> QED
      BY <3>1, <3>2, <3>3, ChannelKept
  <2> QED
    BY <2>1, <2>2
<1>13. Delivered'
  <2> SUFFICES ASSUME NEW x \in Rank, NEW y \in Rank, NEW v \in Work
               PROVE  /\ UpPending(v, x, y)' => Carries(x, y, v, ForwardKind(v))'
                      /\ DownPending(v, x, y)' => Carries(x, y, v, BackwardKind(v))'
    BY DEF Delivered, ForwardKind, BackwardKind, Carries, UpPending, DownPending,
       LastBlock, FirstBlock, Above, Below, CreateMPITag
  <2>1. /\ UpPending(v, x, y)' => UpPending(v, x, y) /\ ~ (y = r /\ v = w)
        /\ DownPending(v, x, y)' => DownPending(v, x, y)
    BY <1>9 DEF UpPending, DownPending, LastBlock, FirstBlock, Above, Below
  \* Nothing else was pending on the channel the message came from.
  <2>2. CASE x = b /\ y = r
    <3>1. ~ DownPending(v, b, r)
      BY <1>2, <2>2, NoReverse DEF UpPending, DownPending
    <3>2. UpPending(v, b, r) => v = w
      BY <1>2, <1>5, SenderWaits
    <3> QED
      BY <2>1, <2>2, <3>1, <3>2
  <2>3. CASE ~ (x = b /\ y = r)
    BY <1>6, <2>1, <2>3, StillCarried DEF IInv
  <2> QED
    BY <2>2, <2>3
<1> QED
  BY <1>7, <1>8, <1>10, <1>11, <1>12, <1>13 DEF IInv

\* What is pending from above a rank that waits for it is the message of the
\* rank's own column, with the upper neighbour's solution.
LEMMA UpperArrives ==
  ASSUME IInv, NEW r \in Rank, NEW w \in Work, w = work[r],
         pc[r] = "recvUpper", net[<<Above(w, r), r>>] # << >>
  PROVE  LET a == Above(w, r)
             m == net[<<a, r>>][1]
         IN /\ Len(net[<<a, r>>]) = 1
            /\ DownPending(w, a, r)
            /\ Payload(a, m) = RefSol[w][a]
<1> DEFINE a == Above(w, r)
           m == net[<<a, r>>][1]
<1>1. ~ LastBlock(w, r)
  BY DEF IInv, Neighbours
<1>2. /\ a \in Rank /\ Higher(w, r, a) /\ ~ FirstBlock(w, a)
      /\ Below(w, a) = r
  BY <1>1, AboveFacts
<1>3. PICK v \in Work :
        /\ Len(net[<<a, r>>]) = 1
        /\ \/ UpPending(v, a, r) /\ UpMessage(v, a, m)
           \/ DownPending(v, a, r) /\ DownMessage(v, a, m)
  BY <1>2 DEF IInv, Channels, Channel
<1>4. DownPending(v, a, r) /\ DownMessage(v, a, m)
  BY <1>2, <1>3, NoReverse DEF UpPending
<1>5. v \in Int /\ w \in Int /\ work[a] \in Int
  BY <1>2, SchedType DEF Work, IInv, TypeOK
<1>6. v = w
  <2>1. SUFFICES ASSUME v # w
                 PROVE  FALSE
    OBVIOUS
  <2>2. v > w
    BY <1>4, <1>5, <2>1 DEF DownPending, GotUpper
  <2>3. Higher(v, r, a)
    BY <1>2, <1>4, AboveFacts, BelowFacts DEF DownPending
  <2>4. GotLower(a, v)
    BY <1>4, <1>5 DEF DownPending, SentDown, GotLower
  <2>5. SentUp(r, v)
    BY <1>2, <2>3, <2>4 DEF IInv, Causality
  <2> QED
    BY <1>5, <2>2, <2>5 DEF SentUp
<1>7. Payload(a, m) = RefSol[w][a]
  BY <1>4, <1>6 DEF DownMessage, Payload
<1> QED
  BY <1>3, <1>4, <1>6, <1>7

LEMMA RecvUpperStep ==
  ASSUME IInv, NEW r \in Rank, RecvUpper(r)
  PROVE  IInv'
<1>0. PICK w \in Work : w = work[r]
  BY DEF IInv, Neighbours, RecvUpper
<1> DEFINE s == Sched[w].slot
           a == Above(w, r)
<1>1. /\ s \in Slot /\ pc[r] = "recvUpper" /\ ~ LastBlock(w, r)
      /\ nb[r].tblock = a
  BY <1>0, SchedType DEF IInv, Neighbours, RecvUpper
<1>2. a \in Rank /\ Higher(w, r, a) /\ ~ FirstBlock(w, a) /\ Below(w, a) = r
  BY <1>1, AboveFacts
<1>3. /\ Receive(r, a, s, BackwardKind(w))
      /\ pc' = [pc EXCEPT ![r] = "substitute"]
      /\ UNCHANGED <<work, nb, coef, sol>>
  BY <1>0, <1>1 DEF RecvUpper
<1>4. NetType /\ net[<<a, r>>] # << >>
  BY <1>2, <1>3, EmptySeq DEF Receive, IInv, TypeOK, NetType
<1>5. /\ Len(net[<<a, r>>]) = 1 /\ DownPending(w, a, r)
      /\ Payload(a, net[<<a, r>>][1]) = RefSol[w][a]
  BY <1>0, <1>1, <1>4, UpperArrives
<1>6. /\ NetType' /\ net'[<<a, r>>] = << >>
      /\ buffer' = [buffer EXCEPT ![r][s] = RefSol[w][a]]
      /\ inbox' = [inbox EXCEPT ![r] = RefSol[w][a]]
      /\ \A x, y \in Rank : x # a \/ y # r => net'[<<x, y>>] = net[<<x, y>>]
  BY <1>2, <1>3, <1>4, <1>5, ReceiveEffect
<1>7. TypeOK'
  BY <1>1, <1>2, <1>3, <1>6, RefType DEF IInv, TypeOK, Pc, NetType
<1>8. Neighbours'
  BY <1>0, <1>1, <1>3 DEF IInv, TypeOK, Neighbours, FirstBlock, LastBlock, Above, Below
<1>9. \A x \in Rank, v \in Work :
        /\ GotLower(x, v)' = GotLower(x, v) /\ SentUp(x, v)' = SentUp(x, v)
        /\ GotUpper(x, v)' = (GotUpper(x, v) \/ (x = r /\ v = w))
        /\ SentDown(x, v)' = SentDown(x, v)
  BY <1>0, <1>1, <1>3 DEF IInv, TypeOK, SentUp, GotUpper, SentDown, GotLower
<1>10. Causality'
  <2> SUFFICES ASSUME NEW v \in Work, NEW x \in Rank, NEW y \in Rank,
                      Higher(v, x, y)
               PROVE  /\ GotLower(y, v)' => SentUp(x, v)'
                      /\ GotUpper(x, v)' => SentDown(y, v)'
    BY DEF Causality, Higher, SameLine
  <2>1. /\ GotLower(y, v) => SentUp(x, v)
        /\ GotUpper(x, v) => SentDown(y, v)
    BY DEF IInv, Causality
  \* All above the upper neighbour sent before it did.
  <2>2. x = r /\ v = w => SentDown(y, v)
    <3>1. SUFFICES ASSUME x = r, v = w, y # a
                   PROVE  SentDown(y, w)
      BY <1>5 DEF DownPending
    <3>2. Higher(w, a, y)
      BY <3>1, AboveNearest
    <3>3. GotUpper(a, w)
      BY <1>5 DEF DownPending, SentDown, GotUpper
    <3> QED
      BY <1>2, <3>2, <3>3 DEF IInv, Causality
  <2> QED
    BY <1>9, <2>1, <2>2
<1>11. Values'
  <2> SUFFICES ASSUME NEW x \in Rank
               PROVE  LET v == work[x] IN
                      (/\ pc[x] = "eliminate" /\ ~ FirstBlock(v, x) =>
                            inbox[x] = RefCoef[v][Below(v, x)]
                       /\ pc[x] \in {"recvUpper", "substitute", "wait"} =>
                            coef[x][Sched[v].slot] = RefCoef[v][x]
                       /\ pc[x] = "substitute" /\ ~ LastBlock(v, x) =>
                            inbox[x] = RefSol[v][Above(v, x)]
                       /\ \A u \in Work :
                            sol[x][u] = IF SentDown(x, u) THEN RefSol[u][x]
                                                          ELSE Nil)'
    BY DEF Values
  <2>1. \A u \in Work : sol'[x][u] = IF SentDown(x, u)' THEN RefSol[u][x] ELSE Nil
    BY <1>3, <1>9 DEF IInv, Values
  <2>2. CASE x = r
    <3>1. coef[r][s] = RefCoef[w][r]
      BY <1>0, <1>1 DEF IInv, Values
    <3> QED
      BY <1>0, <1>1, <1>3, <1>6, <2>1, <2>2, <3>1 DEF IInv, TypeOK, Above
  <2>3. CASE x # r
    BY <1>3, <1>6, <2>1, <2>3 DEF IInv, TypeOK, Values, FirstBlock, LastBlock, Above, Below
  <2> QED
    BY <2>2, <2>3
<1>12. Channels'
  <2> SUFFICES ASSUME NEW x \in Rank, NEW y \in Rank
               PROVE  Channel(x, y)'
    BY DEF Channels
  <2>1. CASE x = a /\ y = r
    BY <1>6, <2>1 DEF Channel
  <2>2. CASE ~ (x = a /\ y = r)
    <3>1. Channel(x, y) /\ net'[<<x, y>>] = net[<<x, y>>]
      BY <1>6, <2>2 DEF IInv, Channels
    <3>2. ASSUME NEW v \in Work
          PROVE  /\ UpPending(v, x, y) => UpPending(v, x, y)'
                 /\ DownPending(v, x, y) => DownPending(v, x, y)'
      <4>1. ~ FirstBlock(v, x) /\ y = Below(v, x) /\ v = w /\ y = r => x = a
        BY BelowFacts
      <4> QED
        BY <1>9, <2>2, <4>1 DEF UpPending, DownPending, LastBlock, FirstBlock,
           Above, Below
    \* The receive overwrites buffer_ only after the send from it was taken:
    \* the answer that is in was computed from it.
    <3>3. ASSUME NEW v \in Work, NEW m
          PROVE  /\ UpMessage(v, x, m) /\ UpPending(v, x, y) => UpMessage(v, x, m)'
                 /\ DownMessage(v, x, m) => DownMessage(v, x, m)'
      <4>1. CASE x # r
        BY <1>0, <1>1, <1>3, <1>6, <4>1 DEF IInv, TypeOK, UpMessage, DownMessage,
           ForwardKind, BackwardKind
      <4>2. CASE x = r
        <5>1. UpMessage(v, x, m) /\ UpPending(v, x, y) => m.sent
          <6>1. SUFFICES ASSUME UpMessage(v, r, m), UpPending(v, r, y), ~ m.sent
                         PROVE  FALSE
            BY <4>2
          <6>2. v = w /\ y = a
            BY <1>0, <6>1 DEF UpMessage, UpPending
          <6>3. GotLower(a, w)
            BY <1>5 DEF DownPending, SentDown, GotLower
          <6> QED
            BY <6>1, <6>2, <6>3 DEF UpPending
        <5>2. DownMessage(v, x, m) => m.sent
          BY <1>1, <4>2 DEF DownMessage
        <5> QED
          BY <5>1, <5>2 DEF UpMessage, DownMessage, ForwardKind, BackwardKind
      <4> QED
        BY <4>1, <4>2
    <3> QED
      BY <3>1, <3>2, <3>3, ChannelKept
  <2> QED
    BY <2>1, <2>2
<1>13. Delivered'
  <2> SUFFICES ASSUME NEW x \in Rank, NEW y \in Rank, NEW v \in Work
               PROVE  /\ UpPending(v, x, y)' => Carries(x, y, v, ForwardKind(v))'
                      /\ DownPending(v, x, y)' => Carries(x, y, v, BackwardKind(v))'
    BY DEF Delivered, ForwardKind, BackwardKind, Carries, UpPending, DownPending,
       LastBlock, FirstBlock, Above, Below, CreateMPITag
  <2>1. /\ UpPending(v, x, y)' => UpPending(v, x, y)
        /\ DownPending(v, x, y)' => DownPending(v, x, y) /\ ~ (y = r /\ v = w)
    BY <1>9 DEF UpPending, DownPending, LastBlock, FirstBlock, Above, Below
  \* Nothing else was pending on the channel the message came from.
  <2>2. CASE x = a /\ y = r
    <3>1. ~ UpPending(v, a, r)
      BY <1>2, <2>2, NoReverse DEF UpPending, DownPending
    <3>2. DownPending(v, a, r) => v = w
      BY <1>2, <1>5, ReceiverWaits
    <3> QED
      BY <2>1, <2>2, <3>1, <3>2
  <2>3. CASE ~ (x = a /\ y = r)
    BY <1>6, <2>1, <2>3, StillCarried DEF IInv
  <2> QED
    BY <2>2, <2>3
<1> QED
  BY <1>7, <1>8, <1>10, <1>11, <1>12, <1>13 DEF IInv

LEMMA BackwardSubstitutionStep ==
  ASSUME IInv, NEW r \in Rank, BackwardSubstitution(r)
  PROVE  IInv'
<1>0. PICK w \in Work : w = work[r]
  BY DEF IInv, Neighbours, BackwardSubstitution
<1> DEFINE s == Sched[w].slot
           down == ~ FirstBlock(w, r)
           q == Below(w, r)
           x == Substitute(w, r, coef[r][s], IF nb[r].last_block THEN Nil ELSE inbox[r])
<1>1. /\ w = work[r] /\ s \in Slot /\ pc[r] = "substitute"
      /\ nb[r].first_block = FirstBlock(w, r)
      /\ nb[r].last_block = LastBlock(w, r)
      /\ down => nb[r].bblock = q /\ q \in Rank
  BY <1>0, SchedType, BelowFacts DEF IInv, Neighbours, BackwardSubstitution
<1>2. x = RefSol[w][r]
  <2>1. /\ ~ LastBlock(w, r) => inbox[r] = RefSol[w][Above(w, r)]
        /\ coef[r][s] = RefCoef[w][r]
    BY <1>1 DEF IInv, Values
  <2>2. RefSol[w][r] =
          Substitute(w, r, RefCoef[w][r],
                     IF LastBlock(w, r) THEN Nil ELSE RefSol[w][Above(w, r)])
    BY <1>1, SolutionFact
  <2> QED
    BY <1>1, <2>1, <2>2
<1>3. /\ sol' = [sol EXCEPT ![r][w] = RefSol[w][r]]
      /\ UNCHANGED <<work, nb, inbox, coef>>
      /\ pc' = [pc EXCEPT ![r] = "wait"]
      /\ buffer' = IF down THEN [buffer EXCEPT ![r][s] = RefSol[w][r]] ELSE buffer
      /\ down => Post(r, q, s, BackwardKind(w))
      /\ ~ down => net' = net
  BY <1>1, <1>2 DEF BackwardSubstitution
<1>4. \A a \in Rank, v \in Work :
        /\ GotLower(a, v)' = GotLower(a, v) /\ SentUp(a, v)' = SentUp(a, v)
        /\ GotUpper(a, v)' = GotUpper(a, v)
        /\ SentDown(a, v)' = (SentDown(a, v) \/ (a = r /\ v = w))
  BY <1>1, <1>3 DEF IInv, TypeOK, SentUp, GotUpper, SentDown, GotLower
\* Nothing is outstanding below: the answer to the previous column is taken.
<1>5. down => net[<<r, q>>] = << >>
  <2>0. SUFFICES ASSUME down, net[<<r, q>>] # << >>
                 PROVE  FALSE
    OBVIOUS
  <2>1. PICK v \in Work : \/ UpPending(v, r, q)
                          \/ DownPending(v, r, q)
    BY <1>1, <2>0 DEF IInv, Channels, Channel
  <2>2. CASE UpPending(v, r, q)
    BY <1>1, <2>0, <2>2, NoReverse DEF UpPending
  <2>3. CASE DownPending(v, r, q)
    <3>1. v \in Int /\ w \in Int
      BY <1>1, SchedType DEF Work
    <3>2. SentDown(r, v) /\ ~ GotUpper(q, v)
      BY <2>3 DEF DownPending
    <3>3. w > v /\ work[q] \in Int
      BY <1>1, <2>0, <3>1, <3>2 DEF SentDown, IInv, TypeOK
    <3>4. GotLower(r, w) /\ Higher(w, q, r)
      BY <1>1, <2>0, BelowFacts DEF GotLower
    <3>5. SentUp(q, w)
      BY <1>1, <2>0, <3>4 DEF IInv, Causality
    <3> QED
      BY <3>1, <3>2, <3>3, <3>5 DEF SentUp, GotUpper
  <2> QED
    BY <2>1, <2>2, <2>3
<1>6. down => /\ NetType' /\ Len(net'[<<r, q>>]) = 1
              /\ net'[<<r, q>>][1].slot = s
              /\ net'[<<r, q>>][1].kind = BackwardKind(w)
              /\ net'[<<r, q>>][1].tag = CreateMPITag(q, r, s, BackwardKind(w))
              /\ ~ net'[<<r, q>>][1].sent
              /\ \A a, b \in Rank : a # r \/ b # q => net'[<<a, b>>] = net[<<a, b>>]
  <2>1. SUFFICES ASSUME down
                 PROVE  /\ NetType' /\ Len(net'[<<r, q>>]) = 1
                        /\ net'[<<r, q>>][1].slot = s
                        /\ net'[<<r, q>>][1].kind = BackwardKind(w)
                        /\ net'[<<r, q>>][1].tag = CreateMPITag(q, r, s, BackwardKind(w))
                        /\ ~ net'[<<r, q>>][1].sent
                        /\ \A a, b \in Rank :
                             a # r \/ b # q => net'[<<a, b>>] = net[<<a, b>>]
    OBVIOUS
  <2>2. BackwardKind(w) \in Kind /\ Post(r, q, s, BackwardKind(w)) /\ NetType
    BY <1>3, <2>1, KindType DEF IInv, TypeOK, NetType
  <2>3. q \in Rank /\ s \in Slot /\ net[<<r, q>>] = << >>
    BY <1>1, <1>5, <2>1
  <2> QED
    BY <2>2, <2>3, PostEffect
<1>7. TypeOK'
  BY <1>1, <1>3, <1>6, RefType DEF IInv, TypeOK, Pc, NetType
<1>8. Neighbours'
  BY <1>1, <1>3 DEF IInv, TypeOK, Neighbours, FirstBlock, LastBlock, Above, Below
<1>9. Causality'
  <2> SUFFICES ASSUME NEW v \in Work, NEW a \in Rank, NEW b \in Rank,
                      Higher(v, a, b)
               PROVE  /\ GotLower(b, v)' => SentUp(a, v)'
                      /\ GotUpper(a, v)' => SentDown(b, v)'
    BY DEF Causality, Higher, SameLine
  <2>1. /\ GotLower(b, v) => SentUp(a, v)
        /\ GotUpper(a, v) => SentDown(b, v)
    BY DEF IInv, Causality
  <2> QED
    BY <1>4, <2>1
<1>10. Values'
  <2> SUFFICES ASSUME NEW a \in Rank
               PROVE  LET v == work[a] IN
                      (/\ pc[a] = "eliminate" /\ ~ FirstBlock(v, a) =>
                            inbox[a] = RefCoef[v][Below(v, a)]
                       /\ pc[a] \in {"recvUpper", "substitute", "wait"} =>
                            coef[a][Sched[v].slot] = RefCoef[v][a]
                       /\ pc[a] = "substitute" /\ ~ LastBlock(v, a) =>
                            inbox[a] = RefSol[v][Above(v, a)]
                       /\ \A u \in Work :
                            sol[a][u] = IF SentDown(a, u) THEN RefSol[u][a]
                                                          ELSE Nil)'
    BY DEF Values
  <2>1. \A u \in Work : sol'[a][u] = IF SentDown(a, u)' THEN RefSol[u][a] ELSE Nil
    BY <1>3, <1>4 DEF IInv, TypeOK, Values
  <2>2. CASE a = r
    <3>1. coef[r][s] = RefCoef[w][r]
      BY <1>1 DEF IInv, Values
    <3> QED
      BY <1>1, <1>3, <2>1, <2>2, <3>1 DEF IInv, TypeOK
  <2>3. CASE a # r
    BY <1>3, <2>1, <2>3 DEF IInv, TypeOK, Values, FirstBlock, LastBlock, Above, Below
  <2> QED
    BY <2>2, <2>3
<1>11. Channels'
  <2> SUFFICES ASSUME NEW a \in Rank, NEW b \in Rank
               PROVE  Channel(a, b)'
    BY DEF Channels
  <2>1. CASE down /\ a = r /\ b = q
    <3>1. down /\ q \in Rank
      BY <1>1, <2>1
    <3>2. ~ GotUpper(q, w)
      <4>1. Higher(w, q, r)
        BY <3>1, BelowFacts
      <4>2. w \in Int /\ ~ SentDown(r, w)
        BY <1>1, SchedType DEF SentDown, Work
      <4> QED
        BY <1>1, <3>1, <4>1, <4>2 DEF IInv, Causality
    <3>3. SentDown(r, w)' /\ ~ GotUpper(q, w)'
      BY <1>1, <1>4, <3>1, <3>2
    <3>4. DownPending(w, r, q)'
      BY <3>1, <3>3 DEF DownPending, FirstBlock, Below
    <3>5. DownMessage(w, r, net[<<r, q>>][1])'
      BY <1>1, <1>3, <1>6, <3>1 DEF DownMessage, BackwardKind, IInv, TypeOK
    <3> QED
      BY <1>1, <1>6, <2>1, <3>1, <3>4, <3>5 DEF Channel
  <2>2. CASE ~ (down /\ a = r /\ b = q)
    <3>1. Channel(a, b) /\ net'[<<a, b>>] = net[<<a, b>>]
      BY <1>3, <1>6, <2>2 DEF IInv, Channels
    <3>2. ASSUME NEW v \in Work
          PROVE  /\ UpPending(v, a, b) => UpPending(v, a, b)'
                 /\ DownPending(v, a, b) => DownPending(v, a, b)'
      BY <1>4 DEF UpPending, DownPending, LastBlock, FirstBlock, Above, Below
    <3>3. ASSUME NEW v \in Work, NEW m
          PROVE  /\ UpMessage(v, a, m) => UpMessage(v, a, m)'
                 /\ DownMessage(v, a, m) => DownMessage(v, a, m)'
      BY <1>1, <1>3 DEF IInv, TypeOK, UpMessage, DownMessage, ForwardKind, BackwardKind
    <3> QED
      BY <3>1, <3>2, <3>3, ChannelKept
  <2> QED
    BY <2>1, <2>2
<1>12. Delivered'
  <2> SUFFICES ASSUME NEW a \in Rank, NEW b \in Rank, NEW v \in Work
               PROVE  /\ UpPending(v, a, b)' => Carries(a, b, v, ForwardKind(v))'
                      /\ DownPending(v, a, b)' => Carries(a, b, v, BackwardKind(v))'
    BY DEF Delivered, ForwardKind, BackwardKind, Carries, UpPending, DownPending,
       LastBlock, FirstBlock, Above, Below, CreateMPITag
  <2>1. /\ UpPending(v, a, b)' => UpPending(v, a, b)
        /\ DownPending(v, a, b)' =>
             DownPending(v, a, b) \/ (down /\ a = r /\ b = q /\ v = w)
    BY <1>4 DEF UpPending, DownPending, LastBlock, FirstBlock, Above, Below
  <2>2. CASE down /\ a = r /\ b = q
    <3>1. ~ UpPending(v, r, q) /\ ~ DownPending(v, r, q)
      BY <1>1, <1>5, <2>2 DEF IInv, Delivered, Carries
    <3>2. Carries(r, q, w, BackwardKind(w))'
      BY <1>6, <2>2, EmptySeq DEF Carries, CreateMPITag, BackwardKind
    <3> QED
      BY <2>1, <2>2, <3>1, <3>2
  <2>3. CASE ~ (down /\ a = r /\ b = q)
    <3>1. net'[<<a, b>>] = net[<<a, b>>]
      BY <1>3, <1>6, <2>3
    <3> QED
      BY <2>1, <2>3, <3>1, StillCarried DEF IInv
  <2> QED
    BY <2>2, <2>3
<1> QED
  BY <1>7, <1>8, <1>9, <1>10, <1>11, <1>12 DEF IInv

\* MPI takes the one message of a channel out of the sender's buffer.
LEMMA TransferStep ==
  ASSUME IInv, NEW r \in Rank, NEW q \in Rank, Transfer(r, q)
  PROVE  IInv'
<1> DEFINE c == net[<<r, q>>]
           m == c[1]
           n == [m EXCEPT !.sent = TRUE, !.val = buffer[r][m.slot]]
<1>1. PICK i \in 1 .. Len(c) :
        /\ ~ c[i].sent
        /\ net' = [net EXCEPT ![<<r, q>>][i] =
                     [c[i] EXCEPT !.sent = TRUE, !.val = buffer[r][c[i].slot]]]
        /\ UNCHANGED <<work, pc, nb, buffer, inbox, coef, sol>>
  BY DEF Transfer
<1>2. c \in Seq(Message) /\ <<r, q>> \in Rank \X Rank
  BY DEF IInv, TypeOK
<1>3. PICK w \in Work :
        /\ Len(c) = 1
        /\ \/ UpPending(w, r, q) /\ UpMessage(w, r, m)
           \/ DownPending(w, r, q) /\ DownMessage(w, r, m)
  BY <1>1, <1>2, EmptySeq DEF IInv, Channels, Channel
<1>4. i = 1
  BY <1>1, <1>3
<1>5. m \in Message /\ ~ m.sent
  BY <1>1, <1>2, <1>3, <1>4, ElementOfSeq
<1>6. n \in Message
  <2>1. m \in [tag : 0 .. (TagUB - 1), slot : Slot, kind : Kind,
               sent : BOOLEAN, val : Val]
    BY <1>5 DEF Message
  <2>2. buffer[r][m.slot] \in Val
    BY <2>1 DEF IInv, TypeOK
  <2> QED
    BY <2>1, <2>2 DEF Message
<1>7. net' = [net EXCEPT ![<<r, q>>] = [c EXCEPT ![1] = n]]
  BY <1>1, <1>4
<1>8. /\ [c EXCEPT ![1] = n] \in Seq(Message)
      /\ Len([c EXCEPT ![1] = n]) = 1
      /\ [c EXCEPT ![1] = n][1] = n
  BY <1>2, <1>3, <1>6, ExceptSeq
<1>9. /\ net' \in [Rank \X Rank -> Seq(Message)]
      /\ Len(net'[<<r, q>>]) = 1 /\ net'[<<r, q>>][1] = n
      /\ \A a, b \in Rank : a # r \/ b # q => net'[<<a, b>>] = net[<<a, b>>]
  BY <1>2, <1>7, <1>8 DEF IInv, TypeOK
<1>10. TypeOK'
  BY <1>1, <1>9 DEF IInv, TypeOK
<1>11. Neighbours'
  BY <1>1 DEF IInv, Neighbours, FirstBlock, LastBlock, Above, Below
<1>12. \A a \in Rank, v \in Work :
         /\ GotLower(a, v)' = GotLower(a, v) /\ SentUp(a, v)' = SentUp(a, v)
         /\ GotUpper(a, v)' = GotUpper(a, v) /\ SentDown(a, v)' = SentDown(a, v)
  BY <1>1 DEF SentUp, GotUpper, SentDown, GotLower
<1>13. Causality'
  BY <1>12 DEF IInv, Causality, Higher, SameLine
<1>14. Values'
  BY <1>1, <1>12 DEF IInv, Values, FirstBlock, LastBlock, Above, Below
<1>15. Channels'
  <2> SUFFICES ASSUME NEW a \in Rank, NEW b \in Rank
               PROVE  Channel(a, b)'
    BY DEF Channels
  <2>1. ASSUME NEW v \in Work
        PROVE  /\ UpPending(v, a, b) => UpPending(v, a, b)'
               /\ DownPending(v, a, b) => DownPending(v, a, b)'
    BY <1>12 DEF UpPending, DownPending, LastBlock, FirstBlock, Above, Below
  <2>2. CASE a = r /\ b = q
    <3>1. n.slot = m.slot /\ n.kind = m.kind /\ n.sent /\ n.val = buffer[r][m.slot]
      BY <1>5 DEF Message
    <3>2. UpMessage(w, r, m) => UpMessage(w, r, net[<<r, q>>][1])'
      BY <1>5, <1>9, <3>1 DEF UpMessage, ForwardKind
    <3>3. DownMessage(w, r, m) => DownMessage(w, r, net[<<r, q>>][1])'
      BY <1>5, <1>9, <3>1 DEF DownMessage, BackwardKind
    <3> QED
      BY <1>3, <1>9, <2>1, <2>2, <3>2, <3>3 DEF Channel
  <2>3. CASE ~ (a = r /\ b = q)
    <3>1. Channel(a, b) /\ net'[<<a, b>>] = net[<<a, b>>]
      BY <1>9, <2>3 DEF IInv, Channels
    <3>2. ASSUME NEW v \in Work, NEW x
          PROVE  /\ UpMessage(v, a, x) => UpMessage(v, a, x)'
                 /\ DownMessage(v, a, x) => DownMessage(v, a, x)'
      BY <1>1 DEF UpMessage, DownMessage, ForwardKind, BackwardKind
    <3> QED
      BY <2>1, <3>1, <3>2, ChannelKept
  <2> QED
    BY <2>2, <2>3
<1>16. Delivered'
  <2> SUFFICES ASSUME NEW a \in Rank, NEW b \in Rank, NEW v \in Work
               PROVE  /\ UpPending(v, a, b)' => Carries(a, b, v, ForwardKind(v))'
                      /\ DownPending(v, a, b)' => Carries(a, b, v, BackwardKind(v))'
    BY DEF Delivered, ForwardKind, BackwardKind, Carries, UpPending, DownPending,
       LastBlock, FirstBlock, Above, Below, CreateMPITag
  <2>1. /\ UpPending(v, a, b)' => UpPending(v, a, b)
        /\ DownPending(v, a, b)' => DownPending(v, a, b)
    BY <1>12 DEF UpPending, DownPending, LastBlock, FirstBlock, Above, Below
  <2>2. CASE a = r /\ b = q
    <3>1. n.tag = m.tag /\ net'[<<r, q>>] # << >>
      BY <1>5, <1>9, EmptySeq DEF Message
    <3>2. ASSUME NEW kind, Carries(r, q, v, kind)
          PROVE  Carries(r, q, v, kind)'
      BY <1>9, <3>1, <3>2 DEF Carries, CreateMPITag
    <3> QED
      BY <2>1, <2>2, <3>2 DEF IInv, Delivered, ForwardKind, BackwardKind
  <2>3. CASE ~ (a = r /\ b = q)
    BY <1>9, <2>1, <2>3, StillCarried DEF IInv
  <2> QED
    BY <2>2, <2>3
<1> QED
  BY <1>10, <1>11, <1>13, <1>14, <1>15, <1>16 DEF IInv

LEMMA StutterStep ==
  ASSUME IInv, UNCHANGED vars
  PROVE  IInv'
<1>1. TypeOK'
  BY DEF IInv, TypeOK, vars
<1>2. Neighbours'
  BY DEF IInv, Neighbours, vars, FirstBlock, LastBlock, Above, Below
<1>3. Causality'
  BY DEF IInv, Causality, vars, Higher, SameLine, GotLower, SentUp, GotUpper,
     SentDown
<1>4. Values'
  BY DEF IInv, Values, vars, FirstBlock, LastBlock, Above, Below, SentDown
<1>5. Channels'
  <2> SUFFICES ASSUME NEW a \in Rank, NEW b \in Rank
               PROVE  Channel(a, b)'
    BY DEF Channels
  <2>1. Channel(a, b) /\ net'[<<a, b>>] = net[<<a, b>>]
    BY DEF IInv, Channels, vars
  <2>2. ASSUME NEW v \in Work
        PROVE  /\ UpPending(v, a, b) => UpPending(v, a, b)'
               /\ DownPending(v, a, b) => DownPending(v, a, b)'
    BY DEF vars, UpPending, DownPending, LastBlock, FirstBlock, Above, Below,
       GotLower, SentUp, GotUpper, SentDown
  <2>3. ASSUME NEW v \in Work, NEW m
        PROVE  /\ UpMessage(v, a, m) => UpMessage(v, a, m)'
               /\ DownMessage(v, a, m) => DownMessage(v, a, m)'
    BY DEF vars, UpMessage, DownMessage, ForwardKind, BackwardKind
  <2> QED
    BY <2>1, <2>2, <2>3, ChannelKept
<1>6. Delivered'
  <2> SUFFICES ASSUME NEW a \in Rank, NEW b \in Rank, NEW v \in Work
               PROVE  /\ UpPending(v, a, b)' => Carries(a, b, v, ForwardKind(v))'
                      /\ DownPending(v, a, b)' => Carries(a, b, v, BackwardKind(v))'
    BY DEF Delivered, ForwardKind, BackwardKind, Carries, UpPending, DownPending,
       LastBlock, FirstBlock, Above, Below, CreateMPITag
  <2>1. /\ UpPending(v, a, b)' => UpPending(v, a, b)
        /\ DownPending(v, a, b)' => DownPending(v, a, b)
    BY DEF vars, UpPending, DownPending, LastBlock, FirstBlock, Above, Below,
       GotLower, SentUp, GotUpper, SentDown
  <2> QED
    BY <2>1, StillCarried DEF IInv, vars
<1> QED
  BY <1>1, <1>2, <1>3, <1>4, <1>5, <1>6 DEF IInv

LEMMA InitIInv == Init => IInv
<1> SUFFICES ASSUME Init
             PROVE  IInv
  OBVIOUS
<1>1. Len(Sched) \in Nat
  BY SchedAssumption
<1>3. \A r \in Rank : /\ work[r] = 1 /\ net = [p \in Rank \X Rank |-> << >>]
                      /\ pc[r] = IF 1 \in Work THEN "begin" ELSE "done"
  BY OpensAssumption DEF Init, EntryPc
<1>4. \A r \in Rank, v \in Work :
        ~ GotLower(r, v) /\ ~ SentUp(r, v) /\ ~ GotUpper(r, v) /\ ~ SentDown(r, v)
  BY <1>1, <1>3 DEF GotLower, SentUp, GotUpper, SentDown, Work
<1>5. TypeOK
  <2>1. net \in [Rank \X Rank -> Seq(Message)]
    BY <1>3, EmptySeq DEF Init
  <2>2. pc \in [Rank -> Pc]
    BY DEF Init, EntryPc, Pc
  <2> QED
    BY <1>1, <2>1, <2>2, NilType DEF Init, TypeOK
<1>6. Neighbours
  BY <1>3 DEF Neighbours
<1>7. Causality
  BY <1>4 DEF Causality
<1>8. Values
  BY <1>3, <1>4 DEF Values, Init
<1>9. Channels
  <2> SUFFICES ASSUME NEW r \in Rank, NEW q \in Rank
               PROVE  net[<<r, q>>] = << >>
    BY DEF Channels, Channel
  <2> QED
    BY <1>3
<1>10. Delivered
  BY <1>4 DEF Delivered, UpPending, DownPending
<1> QED
  BY <1>5, <1>6, <1>7, <1>8, <1>9, <1>10 DEF IInv

\* IInv is inductive: it is the invariant the other theorems rest on.
THEOREM Inductive == Spec => []IInv
<1>1. IInv /\ [Next]_vars => IInv'
  <2> SUFFICES ASSUME IInv, [Next]_vars
               PROVE  IInv'
    OBVIOUS
  <2>1. ASSUME NEW r \in Rank, Step(r)
        PROVE  IInv'
    BY <2>1, BeginSweepStep, RecvLowerStep, ForwardSweepStep, RecvUpperStep,
       BackwardSubstitutionStep, WaitSendsStep DEF Step
  <2>2. ASSUME NEW r \in Rank, NEW q \in Rank, Transfer(r, q)
        PROVE  IInv'
    BY <2>2, TransferStep
  <2>3. ASSUME UNCHANGED vars
        PROVE  IInv'
    BY <2>3, StutterStep
  <2> QED
    BY <2>1, <2>2, <2>3 DEF Next, Finished
<1> QED
  BY <1>1, InitIInv, PTL DEF Spec

\* Types: every value in a buffer, a message or the solution is one that the
\* undistributed solver computes.
THEOREM TypeCorrect == Spec => []TypeOK
<1>1. IInv => TypeOK
  BY DEF IInv
<1> QED
  BY <1>1, Inductive, PTL

\* Each rank ends each column with the undistributed solver's increments.
THEOREM SolvedCorrect == Spec => []Solved
<1>1. IInv => Solved
  <2> SUFFICES ASSUME IInv, NEW r \in Rank, NEW w \in Work
               PROVE  IF sol[r][w] = Nil THEN work[r] <= w ELSE sol[r][w] = RefSol[w][r]
    BY DEF Solved
  <2>1. sol[r][w] = IF SentDown(r, w) THEN RefSol[w][r] ELSE Nil
    BY DEF IInv, Values
  <2> QED
    BY <2>1, SolutionAssumption, SchedType DEF SentDown, IInv, TypeOK
<1> QED
  BY <1>1, Inductive, PTL

\* However long the program, one message is outstanding between two ranks.
THEOREM OneOutstandingCorrect == Spec => []OneOutstanding
<1>1. IInv => OneOutstanding
  <2> SUFFICES ASSUME IInv, NEW r \in Rank, NEW q \in Rank
               PROVE  Len(net[<<r, q>>]) <= 1
    BY DEF OneOutstanding
  <2> QED
    <3>1. net[<<r, q>>] = << >> \/ Len(net[<<r, q>>]) = 1
      BY DEF IInv, Channels, Channel
    <3>2. net[<<r, q>>] = << >> => Len(net[<<r, q>>]) = 0
      BY EmptySeq
    <3>3. \A n : n = 0 \/ n = 1 => n <= 1
      OBVIOUS
    <3> QED
      BY <3>1, <3>2, <3>3
<1> QED
  BY <1>1, Inductive, PTL

\* What an unfinished send reads from buffer_ is what was put there for it.
THEOREM BufferIntactCorrect == Spec => []BufferIntact
<1>1. IInv => BufferIntact
  <2> SUFFICES ASSUME IInv, NEW r \in Rank, NEW q \in Rank,
                      NEW i \in 1 .. Len(net[<<r, q>>]), ~ net[<<r, q>>][i].sent
               PROVE  LET m == net[<<r, q>>][i]
                          w == work[r]
                          forward == q = nb[r].tblock /\ m.kind = ForwardKind(w)
                      IN buffer[r][m.slot] = IF forward THEN coef[r][m.slot]
                                                        ELSE sol[r][w]
    BY DEF BufferIntact
  <2> DEFINE m == net[<<r, q>>][1]
  <2>1. PICK w \in Work :
          /\ Len(net[<<r, q>>]) = 1
          /\ \/ UpPending(w, r, q) /\ UpMessage(w, r, m)
             \/ DownPending(w, r, q) /\ DownMessage(w, r, m)
    BY EmptySeq DEF IInv, Channels, Channel
  <2>2. i = 1 /\ ~ m.sent
    BY <2>1
  <2>3. work[r] = w /\ m.slot = Sched[w].slot
    BY <2>1, <2>2 DEF UpMessage, DownMessage
  <2>4. CASE UpPending(w, r, q) /\ UpMessage(w, r, m)
    <3>1. pc[r] = "recvUpper" /\ buffer[r][m.slot] = RefCoef[w][r]
      BY <2>2, <2>4 DEF UpMessage
    <3>2. q = nb[r].tblock /\ m.kind = ForwardKind(w)
      BY <2>3, <2>4, <3>1 DEF UpPending, UpMessage, IInv, Neighbours
    <3>3. coef[r][m.slot] = RefCoef[w][r]
      BY <2>3, <3>1 DEF IInv, Values
    <3> QED
      BY <2>2, <2>3, <3>1, <3>2, <3>3
  <2>5. CASE DownPending(w, r, q) /\ DownMessage(w, r, m)
    <3>1. pc[r] = "wait" /\ buffer[r][m.slot] = RefSol[w][r]
      BY <2>2, <2>5 DEF DownMessage
    <3>2. ~ (m.kind = ForwardKind(w))
      BY <2>5 DEF DownMessage, ForwardKind, BackwardKind
    <3>3. sol[r][w] = RefSol[w][r]
      BY <2>3, <3>1 DEF IInv, Values, SentDown
    <3> QED
      BY <2>2, <2>3, <3>1, <3>2, <3>3
  <2> QED
    BY <2>1, <2>4, <2>5
<1> QED
  BY <1>1, Inductive, PTL

-----------------------------------------------------------------------------
(* The solver never deadlocks, whatever MPI buffers.                        *)

\* The receive that r posts to q would be answered.
Arrived(r, q, s, kind) ==
  \E i \in 1 .. Len(net[<<q, r>>]) : Matches(r, q, s, kind, i)

\* Rank r can go on: what it waits for, if anything, is there.  The receives
\* and the waits are the only steps with a condition besides pc.
Free(r) ==
  LET w == work[r]
      s == Sched[w].slot
  IN \/ pc[r] \in {"begin", "eliminate", "substitute"}
     \/ pc[r] = "recvLower" /\ Arrived(r, nb[r].bblock, s, ForwardKind(w))
     \/ pc[r] = "recvUpper" /\ Arrived(r, nb[r].tblock, s, BackwardKind(w))
     \/ /\ pc[r] = "wait"
        /\ ~ nb[r].last_block => ~ InFlight(r, nb[r].tblock, s, ForwardKind(w))
        /\ ~ nb[r].first_block => ~ InFlight(r, nb[r].bblock, s, BackwardKind(w))

\* The ranks never all wait for one another, even when no message leaves its
\* sender's buffer before it is received.
NeverAllBlocked == AllDone \/ \E r \in Rank : Free(r)

LEMMA CarriedArrives ==
  ASSUME IInv, NEW r \in Rank, NEW q \in Rank, NEW w \in Work, NEW kind,
         Carries(q, r, w, kind)
  PROVE  Arrived(r, q, Sched[w].slot, kind)
<1>1. Len(net[<<q, r>>]) = 1
  BY DEF Carries, IInv, Channels, Channel
<1>2. Matches(r, q, Sched[w].slot, kind, 1)
  BY <1>1 DEF Matches, Carries
<1> QED
  BY <1>1, <1>2 DEF Arrived

LEMMA SomeFree ==
  ASSUME IInv
  PROVE  NeverAllBlocked
<1> SUFFICES ASSUME ~ AllDone, \A r \in Rank : ~ Free(r)
             PROVE  FALSE
  BY DEF NeverAllBlocked
\* The ranks that are the least far, all in column w.
<1>1. PICK w \in Work, p \in Rank : work[p] = w /\ \A q \in Rank : w <= work[q]
  <2> DEFINE S == { work[r] : r \in Rank }
  <2>1. PICK u \in Rank : pc[u] # "done"
    BY DEF AllDone
  <2>2. Len(Sched) \in Nat /\ work[u] \in Work
    BY <2>1, SchedAssumption DEF IInv, Neighbours
  <2>3. S \in SUBSET Nat /\ work[u] \in S
    BY <2>2 DEF IInv, TypeOK
  <2>4. PICK n \in S : \A m \in S : n <= m
    BY <2>3, Smallest
  <2>5. n <= work[u] /\ n \in 1 .. (Len(Sched) + 1)
    BY <2>3, <2>4 DEF IInv, TypeOK
  <2>6. n \in Work
    BY <2>2, <2>5 DEF Work
  <2> QED
    BY <2>4, <2>6
<1> DEFINE d == Sched[w].dir
           At(r, c) == work[r] = w /\ pc[r] = c
<1>2. d \in Dir /\ w \in Int /\ \A q \in Rank : work[q] \in Int
  BY SchedType DEF Work, IInv, TypeOK
<1>3. ASSUME NEW q \in Rank, work[q] = w
      PROVE  At(q, "recvLower") \/ At(q, "recvUpper") \/ At(q, "wait")
  <2>1. pc[q] \in Pc /\ pc[q] # "done"
    BY <1>3 DEF IInv, TypeOK, Neighbours
  <2> QED
    BY <1>3, <2>1 DEF Pc, Free
\* The lowest of those that wait for coefficients: the rank below sent them.
<1>4. ASSUME NEW q \in Rank, At(q, "recvLower")
      PROVE  FALSE
  <2> DEFINE T == { r \in Rank : At(r, "recvLower") }
             S == { r[d] : r \in T }
  <2>1. S \in SUBSET Nat /\ q[d] \in S
    BY <1>2, <1>4, RankType
  <2>2. PICK r \in T : \A u \in T : r[d] <= u[d]
    <3>1. PICK n \in S : \A m \in S : n <= m
      <4> HIDE DEF S
      <4> QED
        BY <2>1, Smallest
    <3>2. PICK r \in T : r[d] = n
      OBVIOUS
    <3>3. \A u \in T : u[d] \in S
      OBVIOUS
    <3> QED
      BY <3>1, <3>2, <3>3
  <2> DEFINE b == Below(w, r)
  <2>3. /\ r \in Rank /\ At(r, "recvLower") /\ ~ FirstBlock(w, r)
        /\ nb[r].bblock = b
    BY <2>2 DEF IInv, Neighbours
  <2>4. /\ b \in Rank /\ Higher(w, b, r)
        /\ ~ LastBlock(w, b) /\ Above(w, b) = r
    BY <2>3, BelowFacts
  <2>5. ~ At(b, "recvLower")
    <3>1. b[d] < r[d] /\ b[d] \in Nat /\ r[d] \in Nat
      BY <1>2, <2>3, <2>4, RankType DEF Higher
    <3> QED
      BY <2>2, <2>4, <3>1
  <2>6. SentUp(b, w)
    <3>1. work[b] = w \/ work[b] > w
      BY <1>1, <1>2, <2>4
    <3>2. work[b] = w => At(b, "recvUpper") \/ At(b, "wait")
      BY <1>3, <2>4, <2>5
    <3> QED
      BY <3>1, <3>2 DEF SentUp
  <2>7. UpPending(w, b, r)
    BY <1>2, <2>3, <2>4, <2>6 DEF UpPending, GotLower
  <2>8. Arrived(r, b, Sched[w].slot, ForwardKind(w))
    BY <2>3, <2>4, <2>7, CarriedArrives DEF IInv, Delivered
  <2> QED
    BY <2>3, <2>8 DEF Free
\* The highest of those that wait for the solution: the rank above sent it.
<1>5. ASSUME NEW q \in Rank, At(q, "recvUpper")
      PROVE  FALSE
  <2> DEFINE T == { r \in Rank : At(r, "recvUpper") }
             height(r) == Dims[d] - r[d]
             S == { height(r) : r \in T }
  <2>1. S \in SUBSET Nat /\ height(q) \in S
    <3>1. \A r \in Rank : height(r) \in Nat
      BY <1>2, RankType
    <3> QED
      BY <1>5, <3>1
  <2>2. PICK r \in T : \A u \in T : height(r) <= height(u)
    <3>1. PICK n \in S : \A m \in S : n <= m
      <4> HIDE DEF S
      <4> QED
        BY <2>1, Smallest
    <3>2. PICK r \in T : height(r) = n
      OBVIOUS
    <3>3. \A u \in T : height(u) \in S
      OBVIOUS
    <3> QED
      BY <3>1, <3>2, <3>3
  <2> DEFINE a == Above(w, r)
  <2>3. /\ r \in Rank /\ At(r, "recvUpper") /\ ~ LastBlock(w, r)
        /\ nb[r].tblock = a
    BY <2>2 DEF IInv, Neighbours
  <2>4. /\ a \in Rank /\ Higher(w, r, a)
        /\ ~ FirstBlock(w, a) /\ Below(w, a) = r
    BY <2>3, AboveFacts
  <2>5. ~ At(a, "recvUpper")
    <3>1. r[d] < a[d] /\ a[d] \in Nat /\ r[d] \in Nat /\ Dims[d] \in Nat
      BY <1>2, <2>3, <2>4, RankType DEF Higher
    <3>2. ~ (height(r) <= height(a))
      BY <3>1
    <3> QED
      BY <2>2, <2>4, <3>2
  <2>6. SentDown(a, w)
    <3>1. work[a] = w \/ work[a] > w
      BY <1>1, <1>2, <2>4
    <3>2. work[a] = w => At(a, "wait")
      BY <1>3, <1>4, <2>4, <2>5
    <3> QED
      BY <3>1, <3>2 DEF SentDown
  <2>7. DownPending(w, a, r)
    BY <1>2, <2>3, <2>4, <2>6 DEF DownPending, GotUpper
  <2>8. Arrived(r, a, Sched[w].slot, BackwardKind(w))
    BY <2>3, <2>4, <2>7, CarriedArrives DEF IInv, Delivered
  <2> QED
    BY <2>3, <2>8 DEF Free
\* All are at the waits, for a message nobody is still to take.
<1>6. At(p, "wait")
  BY <1>1, <1>3, <1>4, <1>5
<1>7. /\ nb[p].first_block = FirstBlock(w, p)
      /\ nb[p].last_block = LastBlock(w, p)
      /\ ~ FirstBlock(w, p) => nb[p].bblock = Below(w, p) /\ Below(w, p) \in Rank
      /\ ~ LastBlock(w, p) => nb[p].tblock = Above(w, p) /\ Above(w, p) \in Rank
  BY <1>6, AboveFacts, BelowFacts DEF IInv, Neighbours
<1>8. ASSUME NEW q \in Rank, NEW s, NEW kind, InFlight(p, q, s, kind)
      PROVE  \E v \in Work : DownPending(v, p, q)
  <2>1. PICK i \in 1 .. Len(net[<<p, q>>]) : ~ net[<<p, q>>][i].sent
    BY <1>8 DEF InFlight
  <2>2. PICK v \in Work :
          /\ Len(net[<<p, q>>]) = 1
          /\ \/ UpPending(v, p, q) /\ UpMessage(v, p, net[<<p, q>>][1])
             \/ DownPending(v, p, q) /\ DownMessage(v, p, net[<<p, q>>][1])
    BY <2>1, EmptySeq DEF IInv, Channels, Channel
  <2>3. ~ net[<<p, q>>][1].sent
    BY <2>1, <2>2
  <2> QED
    BY <1>6, <2>2, <2>3 DEF UpMessage
<1>9. ASSUME ~ LastBlock(w, p), InFlight(p, Above(w, p), Sched[w].slot, ForwardKind(w))
      PROVE  FALSE
  <2>1. PICK v \in Work : DownPending(v, p, Above(w, p))
    BY <1>7, <1>8, <1>9
  <2> QED
    BY <1>9, <2>1, NoReverse DEF DownPending
<1>10. ASSUME ~ FirstBlock(w, p), InFlight(p, Below(w, p), Sched[w].slot, BackwardKind(w))
       PROVE  FALSE
  <2> DEFINE q == Below(w, p)
  <2>1. PICK v \in Work : DownPending(v, p, q)
    BY <1>7, <1>8, <1>10
  <2>2. q \in Rank /\ work[q] = v /\ pc[q] = "recvUpper"
    BY <1>7, <1>10, <2>1, ReceiverWaits
  \* The rank below would be behind p, which is among the least far, or with it.
  <2>3. v <= w
    BY <1>2, <1>6, <2>1 DEF DownPending, SentDown
  <2>4. work[q] = w
    BY <1>1, <1>2, <2>2, <2>3
  <2> QED
    BY <1>5, <2>2, <2>4
<1> QED
  BY <1>6, <1>7, <1>9, <1>10 DEF Free

\* On every block grid, for every program of columns and every hash, some rank
\* can go on until all are done, without MPI having to buffer a message.
THEOREM NoDeadlock == Spec => []NeverAllBlocked
BY SomeFree, Inductive, PTL

-----------------------------------------------------------------------------
(* The distributed solver implements the abstract one.                      *)

\* BackwardSubstitution publishes increments; every other step stutters.
LEMMA PublishStep ==
  ASSUME IInv, NEW r \in Rank, BackwardSubstitution(r)
  PROVE  Abstract!Next
<1>0. PICK w \in Work : w = work[r]
  BY DEF IInv, Neighbours, BackwardSubstitution
<1>1. IInv'
  BY BackwardSubstitutionStep
<1>2. pc[r] = "substitute" /\ w \in 1 .. Len(Sched)
  BY SchedType DEF BackwardSubstitution
<1>3. \A q \in Rank, v \in Work : SentDown(q, v) => sol[q][v] # Nil
  BY SolutionAssumption DEF IInv, Values
<1>4. sol[r][w] = Nil
  BY <1>0, <1>2, SchedType DEF IInv, Values, SentDown
<1>5. ASSUME NEW q \in Rank, SameLine(w, r, q), NEW v \in 1 .. (w - 1)
      PROVE  sol[q][v] # Nil
  <2>1. v \in Work /\ v < w /\ w \in Int /\ v \in Int
    BY <1>2 DEF Work
  <2>2. work[q] = w \/ work[q] > w
    <3>1. CASE Higher(w, r, q)
      <4>1. GotUpper(r, w)
        BY <1>0, <1>2 DEF GotUpper
      <4>2. SentDown(q, w)
        BY <3>1, <4>1 DEF IInv, Causality
      <4> QED
        BY <4>2 DEF SentDown
    <3>2. CASE Higher(w, q, r)
      <4>1. GotLower(r, w)
        BY <1>0, <1>2 DEF GotLower
      <4>2. SentUp(q, w)
        BY <3>2, <4>1 DEF IInv, Causality
      <4> QED
        BY <4>2 DEF SentUp
    <3>3. CASE q = r
      BY <1>0, <3>3
    <3>4. Higher(w, r, q) \/ Higher(w, q, r) \/ q = r
      <4>1. Sched[w].dir \in Dir
        BY SchedType
      <4>2. /\ q \in [Dir -> Int] /\ r \in [Dir -> Int]
            /\ r[Sched[w].dir] \in Int /\ q[Sched[w].dir] \in Int
        BY <4>1, RankType
      <4>3. CASE r[Sched[w].dir] = q[Sched[w].dir]
        <5>1. \A d \in Dir : r[d] = q[d]
          BY <1>5, <4>3 DEF SameLine
        <5> QED
          BY <4>2, <5>1
      <4>4. CASE r[Sched[w].dir] # q[Sched[w].dir]
        BY <1>5, <4>2, <4>4 DEF Higher, SameLine
      <4> QED
        BY <4>3, <4>4
    <3> QED
      BY <3>1, <3>2, <3>3, <3>4
  <2>3. SentDown(q, v)
    BY <2>1, <2>2 DEF SentDown, IInv, TypeOK
  <2> QED
    BY <1>3, <2>1, <2>3
<1>6. ASSUME NEW q \in Rank, Higher(w, r, q)
      PROVE  sol[q][w] # Nil
  <2>1. GotUpper(r, w)
    BY <1>0, <1>2 DEF GotUpper
  <2> QED
    BY <1>3, <1>6, <2>1 DEF IInv, Causality
<1>7. sol' = [sol EXCEPT ![r][w] = RefSol[w][r]]
  <2>1. sol' = [sol EXCEPT ![r][w] = sol'[r][w]]
    <3>1. PICK x : sol' = [sol EXCEPT ![r][w] = x]
      BY <1>0 DEF BackwardSubstitution
    <3>2. sol \in [Rank -> [Work -> Val]]
      BY DEF IInv, TypeOK
    <3> QED
      BY <3>1, <3>2
  <2>2. SentDown(r, w)'
    BY <1>0 DEF BackwardSubstitution, SentDown, IInv, TypeOK
  <2>3. sol'[r][w] = RefSol[w][r]
    BY <1>1, <2>2 DEF IInv, Values
  <2> QED
    BY <2>1, <2>3
<1>8. sol'[r][w] # Nil
  <2>1. SentDown(r, w)'
    BY <1>0 DEF BackwardSubstitution, SentDown, IInv, TypeOK
  <2>2. sol'[r][w] = RefSol[w][r]
    BY <1>1, <2>1 DEF IInv, Values
  <2> QED
    BY <2>2, SolutionAssumption
<1>9. Abstract!Publish(r, w)
  BY <1>4, <1>5, <1>6, <1>7, <1>8 DEF Abstract!Publish
<1> QED
  BY <1>2, <1>9 DEF Abstract!Next

\* Whatever the grid, program, tags and buffering, the distributed solver is a
\* LineSolve: increments appear from the top of each line down, and only after
\* the whole line has finished its earlier columns.
THEOREM Refinement == Spec => ImplementsLineSolve
<1>1. Init => Abstract!Init
  BY DEF Init, Abstract!Init, Work
<1>2. IInv /\ [Next]_vars => [Abstract!Next]_sol
  <2> SUFFICES ASSUME IInv, [Next]_vars
               PROVE  Abstract!Next \/ sol' = sol
    OBVIOUS
  <2>1. ASSUME NEW r \in Rank, Step(r)
        PROVE  Abstract!Next \/ sol' = sol
    BY <2>1, PublishStep DEF Step, BeginSweep, RecvLower, ForwardSweep,
       RecvUpper, WaitSends
  <2>2. ASSUME NEW r \in Rank, NEW q \in Rank, Transfer(r, q)
        PROVE  sol' = sol
    BY <2>2 DEF Transfer
  <2> QED
    BY <2>1, <2>2 DEF Next, Finished, vars
<1> QED
  BY <1>1, <1>2, Inductive, PTL DEF Spec, ImplementsLineSolve, Abstract!Spec

-----------------------------------------------------------------------------
(* The program of columns.                                                  *)

Column == [dir : Dir, slot : Nat \X Nat, opens : BOOLEAN]

\* A program of columns of which the first of every sweep is marked.
Opening(p) ==
  /\ p \in Seq(Column)
  /\ \A w \in 1 .. Len(p) : (w = 1 \/ p[w].dir # p[w - 1].dir) => p[w].opens

LEMMA SweepOpening ==
  ASSUME NEW d \in Dir, NEW nx \in [Dir -> Nat \ {0}]
  PROVE  Opening(SweepColumns(d, nx))
<1> DEFINE J == nx[JDir[d]]
           top == nx[KDir[d]] * J
           p == SweepColumns(d, nx)
<1>1. J \in Nat /\ J > 0 /\ nx[KDir[d]] \in Nat
  BY DEF Dir, JDir, KDir
<1>2. top \in Nat
  BY <1>1
<1>3. p = [n \in 1 .. top |-> [dir |-> d, slot |-> <<(n - 1) \div J, (n - 1) % J>>, opens |-> n = 1]]
  BY DEF SweepColumns
<1> HIDE DEF J, top, p
<1>4. ASSUME NEW n \in 1 .. top
      PROVE  p[n] \in Column /\ p[n].dir = d /\ (n = 1 => p[n].opens)
  <2>1. (n - 1) \div J \in Nat /\ (n - 1) % J \in Nat
    BY <1>1, <1>2
  <2> QED
    BY <1>3, <2>1 DEF Column
<1>5. p \in [1 .. top -> Column]
  BY <1>3, <1>4
<1>6. p \in Seq(Column) /\ Len(p) = top
  BY <1>2, <1>5
<1>7. \A w \in 1 .. top : w # 1 => w - 1 \in 1 .. top
  BY <1>2
<1> QED
  BY <1>4, <1>6, <1>7 DEF Opening, p

LEMMA ConcatOpening ==
  ASSUME NEW p, NEW q, Opening(p), Opening(q)
  PROVE  Opening(p \o q)
<1>1. p \in Seq(Column) /\ q \in Seq(Column)
  BY DEF Opening
<1>2. /\ p \o q \in Seq(Column) /\ Len(p \o q) = Len(p) + Len(q)
      /\ Len(p) \in Nat /\ Len(q) \in Nat
      /\ \A i \in 1 .. Len(p) + Len(q) : (p \o q)[i] = IF i <= Len(p) THEN p[i] ELSE q[i - Len(p)]
  BY <1>1
<1> DEFINE s == p \o q
<1> HIDE DEF s
<1>3. ASSUME NEW w \in 1 .. Len(p) + Len(q), w = 1 \/ s[w].dir # s[w - 1].dir
      PROVE  s[w].opens
  <2>1. CASE w <= Len(p)
    <3>1. w \in 1 .. Len(p) /\ s[w] = p[w] /\ (w # 1 => s[w - 1] = p[w - 1])
      BY <1>2, <2>1 DEF s
    <3> QED
      BY <1>3, <3>1 DEF Opening
  <2>2. CASE w = Len(p) + 1
    <3>1. 1 \in 1 .. Len(q) /\ s[w] = q[1]
      BY <1>2, <2>2 DEF s
    <3> QED
      BY <3>1 DEF Opening
  <2>3. CASE w > Len(p) + 1
    <3>1. /\ w - Len(p) \in 1 .. Len(q) /\ s[w] = q[w - Len(p)]
          /\ s[w - 1] = q[(w - 1) - Len(p)] /\ w # 1
      BY <1>2, <2>3 DEF s
    <3>2. (w - 1) - Len(p) = (w - Len(p)) - 1
      BY <1>2
    <3> QED
      BY <1>3, <3>1, <3>2 DEF Opening
  <2> QED
    BY <1>2, <2>1, <2>2, <2>3
<1> QED
  BY <1>2, <1>3 DEF Opening, s

\* Whatever directions the flag selects, for blocks of any shape and any number
\* of stages, the program of SolveImplicit3D opens a sweep with its first column
\* and wherever the direction changes, as SchedAssumption and OpensAssumption say.
THEOREM ProgramOpens ==
  ASSUME NEW n \in Nat, NEW flag, NEW nx \in [Dir -> Nat \ {0}]
  PROVE  Opening(Stages(n, flag, nx))
<1> DEFINE p == SolveImplicit3D(flag, nx)
           L == Len(p)
           s == Stages(n, flag, nx)
<1>1. Opening(p)
  <2>1. Opening(<< >>)
    BY DEF Opening
  <2> DEFINE Sweep(d) == IF Swept(d, flag, nx) THEN SweepColumns(d, nx) ELSE << >>
  <2>2. \A d \in Dir : Opening(Sweep(d))
    BY <2>1, SweepOpening
  <2>3. p = Sweep(3) \o Sweep(2) \o Sweep(1)
    BY DEF SolveImplicit3D
  <2> HIDE DEF Sweep
  <2>4. Opening(Sweep(3)) /\ Opening(Sweep(2)) /\ Opening(Sweep(1))
    BY <2>2 DEF Dir
  <2>5. Opening(Sweep(3) \o Sweep(2))
    BY <2>4, ConcatOpening
  <2> QED
    BY <2>3, <2>4, <2>5, ConcatOpening
<1>2. s = [i \in 1 .. (n * L) |-> p[1 + ((i - 1) % L)]]
  BY DEF Stages
<1> HIDE DEF p, s
<1>3. L \in Nat /\ \A j \in 1 .. L : p[j] \in Column
  BY <1>1, ElementOfSeq DEF Opening
<1> HIDE DEF L
<1>4. n * L \in Nat
  BY <1>3
<1>5. ASSUME NEW i \in 1 .. n * L
      PROVE  /\ L > 0 /\ 1 + ((i - 1) % L) \in 1 .. L
             /\ s[i] = p[1 + ((i - 1) % L)]
  <2>1. L # 0
    BY <1>4
  <2>2. L > 0
    BY <1>3, <2>1
  <2>3. (i - 1) % L \in 0 .. L - 1
    BY <1>3, <1>4, <2>2
  <2> QED
    BY <1>2, <1>3, <2>2, <2>3
<1>6. s \in [1 .. n * L -> Column]
  BY <1>2, <1>3, <1>5
<1>7. s \in Seq(Column) /\ Len(s) = n * L
  BY <1>4, <1>6
<1>8. ASSUME NEW i \in 1 .. n * L, i = 1 \/ s[i].dir # s[i - 1].dir
      PROVE  s[i].opens
  <2> DEFINE m == (i - 1) % L
  <2>1. L > 0 /\ m \in 0 .. L - 1 /\ s[i] = p[1 + m]
    BY <1>3, <1>5
  <2>2. CASE m = 0
    <3>1. 1 \in 1 .. L /\ s[i] = p[1]
      BY <1>3, <2>1, <2>2
    <3> QED
      BY <1>1, <3>1 DEF Opening, L
  <2>3. CASE m # 0
    <3>1. i # 1 /\ i - 1 \in 1 .. n * L
      BY <1>3, <1>4, <2>1, <2>3
    <3>2. ((i - 1) - 1) % L = m - 1
      <4> DEFINE x == i - 1
                 q == x \div L
      <4>1. x \in Nat /\ L \in Nat /\ L > 0
        BY <1>3, <1>4, <2>1
      <4> HIDE DEF x
      <4>2. q \in Nat /\ x % L \in 0 .. L - 1 /\ x = L * q + (x % L)
        BY <4>1
      <4>3. m = x % L
        BY DEF x
      <4> HIDE DEF q, m
      <4>4. m - 1 \in 0 .. L - 1 /\ x - 1 = L * q + (m - 1) /\ L * q \in Nat
        BY <2>1, <2>3, <4>1, <4>2, <4>3
      <4> DEFINE l == m - 1
      <4> HIDE DEF l
      <4>5. q \in Nat /\ l \in Nat /\ l < L /\ L * q \in Nat
        BY <4>1, <4>2, <4>4 DEF l
      <4>6. (L * q + l) % L = l
        BY <4>1, <4>5, Z3
      <4> QED
        BY <4>4, <4>6 DEF x, l
    <3>3. s[i - 1] = p[1 + (m - 1)]
      BY <1>5, <3>1, <3>2
    <3>4. 1 + m \in 1 .. L /\ 1 + m # 1 /\ 1 + (m - 1) = (1 + m) - 1
      BY <1>3, <2>1, <2>3
    <3>5. p[1 + m].dir # p[(1 + m) - 1].dir
      BY <1>8, <2>1, <3>1, <3>3, <3>4
    <3> HIDE DEF m
    <3> QED
      BY <1>1, <2>1, <3>4, <3>5 DEF Opening, L
  <2> QED
    BY <2>2, <2>3
<1> QED
  BY <1>7, <1>8 DEF Opening, s, L

=============================================================================
