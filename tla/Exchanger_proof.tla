-------------------------- MODULE Exchanger_proof --------------------------
(***************************************************************************)
(* Proofs about Exchanger: for every mesh, the colours that setColor gives   *)
(* to the ranks are the lines, or the planes, of the mesh.                   *)
(***************************************************************************)
EXTENDS Exchanger, WellFoundedInduction, TLAPS

\* Induction over the naturals, from their being well founded.
LEMMA Induction ==
  ASSUME NEW S, 0 \in S, \A n \in Nat : n \in S => n + 1 \in S
  PROVE  Nat \subseteq S
<1> SUFFICES ASSUME Nat \ S # {} PROVE FALSE
  OBVIOUS
<1>1. PICK n \in Nat \ S : \A m \in Nat \ S : ~ (<<m, n>> \in OpToRel(<, Nat))
  <2> DEFINE R == OpToRel(<, Nat)
  <2>1. IsWellFoundedOn(R, Nat)
    BY NatLessThanWellFounded
  <2> HIDE DEF R
  <2>2. \E x \in Nat \ S : \A y \in Nat \ S : ~ (<<y, x>> \in R)
    BY <2>1, WFMin
  <2> QED
    BY <2>2 DEF R
<1>2. \A m \in Nat : m < n => m \in S
  BY <1>1 DEF OpToRel
<1>3. n # 0 /\ n - 1 \in Nat /\ n - 1 < n
  OBVIOUS
<1> QED
  BY <1>2, <1>3

LEMMA NRanksType == nranks \in Nat
<1>1. Dims[1] \in Nat /\ Dims[2] \in Nat /\ Dims[3] \in Nat
  BY MeshAssumption DEF Dir
<1>2. Dims[1] * Dims[2] \in Nat
  BY <1>1
<1> QED
  BY <1>1, <1>2 DEF nranks

LEMMA SiteType ==
  ASSUME NEW p \in Site
  PROVE  p \in [Dir -> Nat] /\ \A d \in Dir : p[d] \in Nat /\ p[d] < Dims[d]
BY MeshAssumption DEF Site, Dir

LEMMA LocType ==
  ASSUME NEW r \in Rank
  PROVE  /\ loc[r] \in Site /\ loc[r] \in [Dir -> Nat]
         /\ \A d \in Dir : loc[r][d] \in Nat
         /\ r \in Int /\ 0 <= r /\ r < nranks
BY MeshAssumption, SiteType, NRanksType DEF Rank

\* The bottom neighbour: none at the bottom, else the rank of the block below,
\* which comes earlier in the order of the ranks.
LEMMA BottomFact ==
  ASSUME NEW r \in Rank, NEW d \in Dir
  PROVE  /\ loc[r][d] = 0 => Bottom(r, d) = -1
         /\ loc[r][d] # 0 => /\ Bottom(r, d) \in Rank /\ Bottom(r, d) # -1
                             /\ Bottom(r, d) < r
                             /\ loc[Bottom(r, d)] = [loc[r] EXCEPT ![d] = @ - 1]
<1>1. CASE loc[r][d] = 0
  BY <1>1 DEF Bottom
<1>2. CASE loc[r][d] # 0
  <2> DEFINE below == [loc[r] EXCEPT ![d] = @ - 1]
  <2>1. loc[r][d] \in Nat /\ loc[r][d] > 0
    BY <1>2, LocType
  <2>2. below \in Site
    <3>1. loc[r] \in Site
      BY LocType
    <3> QED
      BY <2>1, <3>1, MeshAssumption DEF Site, Dir
  <2>3. \E q \in Rank : loc[q] = below
    BY <2>2, MeshAssumption
  <2>4. Bottom(r, d) = RankAt(below)
    BY <2>1 DEF Bottom, find_bottom
  <2>5. Bottom(r, d) \in Rank /\ loc[Bottom(r, d)] = below
    BY <2>3, <2>4 DEF RankAt
  <2>6. Aligned(loc[Bottom(r, d)], loc[r], {d})
    BY <2>5, LocType DEF Aligned
  <2>7. loc[Bottom(r, d)][d] < loc[r][d]
    BY <2>1, <2>5, LocType
  <2>8. Bottom(r, d) < r
    BY <2>5, <2>6, <2>7, OrderAssumption
  <2>9. Bottom(r, d) # -1
    BY <2>5, LocType
  <2> QED
    BY <1>2, <2>5, <2>8, <2>9
<1> QED
  BY <1>1, <1>2

\* The rank at the bottom of a line comes before all others of the line.
LEMMA BottomIsFirst ==
  ASSUME NEW r \in Rank, NEW s \in Rank, NEW d \in Dir,
         loc[r][d] = 0, Aligned(loc[r], loc[s], {d})
  PROVE  r = s \/ r < s
<1>1. loc[s][d] \in Nat
  BY LocType
<1>2. CASE loc[s][d] = 0
  <2>1. loc[r] = loc[s]
    <3>1. \A e \in Dir : loc[r][e] = loc[s][e]
      BY <1>2 DEF Aligned
    <3> QED
      BY <3>1, LocType
  <2> QED
    BY <2>1, MeshAssumption
<1>3. CASE loc[s][d] # 0
  BY <1>1, <1>3, OrderAssumption
<1> QED
  BY <1>2, <1>3

LEMMA CallsFact ==
  ASSUME NEW d \in Dir
  PROVE  /\ Calls("linear", d) = <<d>>
         /\ \E a, b \in Dir : /\ a # b /\ Dir \ {d} = {a, b}
                              /\ Calls("planar", d) = <<a, b>>
<1>1. Calls("linear", d) = <<d>>
  BY DEF Calls
<1>2. CASE d = 1
  BY <1>1, <1>2 DEF Calls, Dir
<1>3. CASE d = 2
  BY <1>1, <1>3 DEF Calls, Dir
<1>4. CASE d = 3
  BY <1>1, <1>4 DEF Calls, Dir
<1> QED
  BY <1>2, <1>3, <1>4 DEF Dir

-----------------------------------------------------------------------------
(* The inductive invariant.                                                 *)

\* The first setColor of a Regroup, and the second one of a planar exchanger.
First  == todo = Calls(kind, mydir)
Second == kind = "planar" /\ todo = <<Calls(kind, mydir)[2]>>

Typed ==
  /\ kind \in {"linear", "planar"}
  /\ mydir \in Dir \union {Nil}
  /\ brank \in [Rank -> Rank \union {-1}]
  /\ color \in [Rank -> Rank \union {-1}]
  /\ i \in 0 .. nranks /\ c \in 0 .. nranks
  /\ pc \in {"idle", "gather", "color"}
  /\ pc = "idle" => todo = <<>>
  /\ pc # "idle" => mydir \in Dir /\ (First \/ Second)
  /\ pc = "color" => brank = [r \in Rank |-> Bottom(r, Head(todo))] /\ c <= i

\* In the first pass the ranks before i are coloured by line.
FirstPass ==
  pc # "idle" /\ First =>
    /\ pc = "gather" => \A r \in Rank : color[r] = -1
    /\ pc = "color" =>
         /\ \A r \in Rank : color[r] = -1 <=> ~ (r < i)
         /\ \A r \in Rank : r < i => color[r] < c
         /\ \A r, s \in Rank : r < i /\ s < i =>
              (color[r] = color[s] <=> Aligned(loc[r], loc[s], {Head(todo)}))

\* In the second pass the ranks before i have the colour of the block at the
\* bottom of their line along the second direction.
Foot(r) == IF pc = "color" /\ r < i THEN [loc[r] EXCEPT ![Head(todo)] = 0] ELSE loc[r]

SecondPass ==
  pc # "idle" /\ Second =>
    /\ \A r \in Rank : color[r] # -1
    /\ \A r, s \in Rank :
         color[r] = color[s] <=> Aligned(Foot(r), Foot(s), {Calls(kind, mydir)[1]})

IInv == Typed /\ FirstPass /\ SecondPass /\ ColorsAreGroups

-----------------------------------------------------------------------------
(* Each action preserves it.                                                *)

LEMMA InitStep == Init => IInv
<1> SUFFICES ASSUME Init PROVE IInv
  OBVIOUS
<1>1. Typed
  BY NRanksType DEF Init, Typed
<1>2. FirstPass /\ SecondPass /\ ColorsAreGroups
  BY DEF Init, FirstPass, SecondPass, ColorsAreGroups, Ready
<1> QED
  BY <1>1, <1>2 DEF IInv

LEMMA RegroupStep ==
  ASSUME IInv, NEW d \in Dir, Regroup(d)
  PROVE  IInv'
<1>1. kind \in {"linear", "planar"} /\ kind' = kind /\ mydir' = d /\ pc' = "gather"
      /\ todo' = Calls(kind, d)
  BY DEF IInv, Typed, Regroup
<1>2. First' /\ ~ Second'
  <2>1. First'
    BY <1>1 DEF First
  <2>2. ~ Second'
    <3>1. PICK a \in Dir, b \in Dir : Calls("planar", d) = <<a, b>>
      BY CallsFact
    <3>2. <<a, b>> # <<b>>
      OBVIOUS
    <3> QED
      BY <1>1, <3>1, <3>2 DEF Second
  <2> QED
    BY <2>1, <2>2
<1>3. color' = [r \in Rank |-> -1]
  BY DEF Regroup, Cleared
<1>4. Typed'
  BY <1>1, <1>2, <1>3 DEF Typed, IInv, Regroup
<1>5. FirstPass'
  BY <1>1, <1>3 DEF FirstPass
<1>6. SecondPass' /\ ColorsAreGroups'
  BY <1>1, <1>2 DEF SecondPass, ColorsAreGroups, Ready
<1> QED
  BY <1>4, <1>5, <1>6 DEF IInv

LEMMA GatherStep ==
  ASSUME IInv, GatherBottoms
  PROVE  IInv'
<1>1. /\ pc = "gather" /\ pc' = "color" /\ i' = 0 /\ c' = 0
      /\ kind' = kind /\ mydir' = mydir /\ todo' = todo /\ color' = color
      /\ brank' = [r \in Rank |-> Bottom(r, Head(todo))]
      /\ mydir \in Dir /\ (First \/ Second)
  BY DEF GatherBottoms, FirstColor, IInv, Typed
<1>2. (First' <=> First) /\ (Second' <=> Second)
  BY <1>1 DEF First, Second
<1>3. Head(todo) \in Dir
  <2>1. PICK a \in Dir, b \in Dir : Calls("planar", mydir) = <<a, b>>
    BY <1>1, CallsFact
  <2>2. CASE First /\ kind = "linear"
    BY <1>1, <2>2, CallsFact DEF First
  <2>3. CASE First /\ kind = "planar"
    BY <2>1, <2>3 DEF First
  <2>4. CASE Second
    BY <2>1, <2>4 DEF Second
  <2> QED
    BY <1>1, <2>2, <2>3, <2>4 DEF IInv, Typed
<1>4. \A r \in Rank : Bottom(r, Head(todo)) \in Rank \union {-1}
  BY <1>3, BottomFact, LocType
<1>5. Typed'
  BY <1>1, <1>2, <1>4, NRanksType DEF IInv, Typed
<1>6. \A r \in Rank : ~ (r < 0)
  BY LocType
<1>7. FirstPass'
  BY <1>1, <1>2, <1>6 DEF IInv, FirstPass
<1>8. \A r \in Rank : Foot(r)' = Foot(r)
  BY <1>1, <1>6 DEF Foot
<1>9. SecondPass'
  BY <1>1, <1>2, <1>8 DEF IInv, SecondPass
<1>10. ColorsAreGroups'
  BY <1>1 DEF ColorsAreGroups, Ready
<1> QED
  BY <1>5, <1>7, <1>9, <1>10 DEF IInv

\* What an iteration of the loop has to work with.
LEMMA ColorFacts ==
  ASSUME IInv, ColorNext
  PROVE  /\ i \in Rank /\ i \in Nat /\ i' = i + 1 /\ i' \in 0 .. nranks
         /\ pc = "color" /\ pc' = "color" /\ kind' = kind /\ mydir' = mydir
         /\ todo' = todo /\ brank' = brank
         /\ mydir \in Dir /\ (First \/ Second) /\ Head(todo) \in Dir
         /\ First => todo = Calls(kind, mydir)
         /\ (First' <=> First) /\ (Second' <=> Second) /\ ~ (First /\ Second)
         /\ brank[i] = Bottom(i, Head(todo))
         /\ \A r \in Rank : r < i' <=> (r < i \/ r = i)
         /\ color' \in [Rank -> Rank \union {-1}]
         /\ \A r \in Rank : r # i => color'[r] = color[r]
<1>1. i \in 0 .. nranks /\ i < nranks /\ nranks \in Nat
  BY NRanksType DEF IInv, Typed, ColorNext
<1>2. i \in Rank /\ i \in Nat /\ i' = i + 1 /\ i' \in 0 .. nranks
  BY <1>1 DEF ColorNext, Rank
<1>3. /\ pc = "color" /\ pc' = "color" /\ kind' = kind /\ mydir' = mydir
      /\ todo' = todo /\ brank' = brank /\ mydir \in Dir /\ (First \/ Second)
  BY DEF ColorNext, IInv, Typed
<1>4. (First' <=> First) /\ (Second' <=> Second)
  BY <1>3 DEF First, Second
<1>5. Head(todo) \in Dir /\ ~ (First /\ Second)
  <2>1. PICK a \in Dir, b \in Dir : Calls("planar", mydir) = <<a, b>>
    BY <1>3, CallsFact
  <2>2. CASE First /\ kind = "linear"
    BY <1>3, <2>2, CallsFact DEF First, Second
  <2>3. CASE First /\ kind = "planar"
    <3>1. <<a, b>> # <<b>>
      OBVIOUS
    <3> QED
      BY <2>1, <2>3, <3>1 DEF First, Second
  <2>4. CASE Second
    <3>1. <<a, b>> # <<b>>
      OBVIOUS
    <3> QED
      BY <2>1, <2>4, <3>1 DEF First, Second
  <2> QED
    BY <1>3, <2>2, <2>3, <2>4 DEF IInv, Typed
<1>6. brank[i] = Bottom(i, Head(todo))
  BY <1>2, <1>3 DEF IInv, Typed
<1>7. \A r \in Rank : r < i' <=> (r < i \/ r = i)
  BY <1>2, LocType
<1>8. color \in [Rank -> Rank \union {-1}] /\ brank \in [Rank -> Rank \union {-1}]
  BY DEF IInv, Typed
<1>9. c \in Rank
  <2>1. c \in 0 .. nranks /\ c <= i
    BY <1>3 DEF IInv, Typed
  <2> QED
    BY <1>1, <2>1 DEF Rank
<1>10. /\ color' \in [Rank -> Rank \union {-1}]
       /\ \A r \in Rank : r # i => color'[r] = color[r]
  <2>1. CASE Fresh
    <3>1. color' = [color EXCEPT ![i] = c]
      BY <2>1 DEF ColorNext
    <3> QED
      BY <1>2, <1>8, <1>9, <3>1
  <2>2. CASE ~ Fresh /\ brank[i] = -1
    <3>1. color' = color
      BY <2>2 DEF ColorNext
    <3> QED
      BY <1>8, <3>1
  <2>3. CASE ~ Fresh /\ brank[i] # -1
    <3>1. color' = [color EXCEPT ![i] = color[brank[i]]]
      BY <2>3 DEF ColorNext
    <3>2. brank[i] \in Rank
      BY <1>2, <1>8, <2>3
    <3> QED
      BY <1>2, <1>8, <3>1, <3>2
  <2> QED
    BY <2>1, <2>2, <2>3
<1> QED
  BY <1>2, <1>3, <1>4, <1>5, <1>6, <1>7, <1>10 DEF First

LEMMA ColorTyped ==
  ASSUME IInv, ColorNext
  PROVE  Typed'
<1>1. c' \in 0 .. nranks /\ c' <= i'
  <2>1. c \in 0 .. nranks /\ c <= i /\ nranks \in Nat
    BY ColorFacts, NRanksType DEF IInv, Typed
  <2>2. c' = c \/ c' = c + 1
    BY DEF ColorNext
  <2> QED
    BY <2>1, <2>2, ColorFacts
<1> QED
  BY <1>1, ColorFacts DEF Typed, IInv

\* First pass: the next rank begins a line, or takes the colour of its line.
LEMMA ColorFirst ==
  ASSUME IInv, ColorNext
  PROVE  FirstPass'
<1> SUFFICES ASSUME First
             PROVE  /\ \A r \in Rank : color'[r] = -1 <=> ~ (r < i')
                    /\ \A r \in Rank : r < i' => color'[r] < c'
                    /\ \A r, s \in Rank : r < i' /\ s < i' =>
                         (color'[r] = color'[s]
                            <=> Aligned(loc[r], loc[s], {Head(todo)}))
  BY ColorFacts DEF FirstPass
<1> DEFINE d == Head(todo)
           A(r, s) == Aligned(loc[r], loc[s], {d})
<1>1. d \in Dir /\ i \in Rank /\ c \in Nat /\ i \in Nat
  BY ColorFacts DEF IInv, Typed
<1>2. /\ \A r \in Rank : color[r] = -1 <=> ~ (r < i)
      /\ \A r \in Rank : r < i => color[r] < c
      /\ \A r, s \in Rank : r < i /\ s < i => (color[r] = color[s] <=> A(r, s))
  BY ColorFacts DEF IInv, FirstPass
<1>3. \A r \in Rank : color[r] \in Int /\ color'[r] \in Int
  BY ColorFacts, LocType DEF IInv, Typed
<1>4. \A r, s \in Rank : A(r, s) <=> A(s, r)
  BY DEF Aligned
<1>5. \A r \in Rank : A(r, r)
  BY DEF Aligned
<1>6. CASE brank[i] = -1
  <2>1. Fresh
    BY <1>1, <1>2, <1>6 DEF Fresh
  <2>2. color' = [color EXCEPT ![i] = c] /\ c' = c + 1
    BY <2>1 DEF ColorNext
  <2>3. color'[i] = c
    BY <1>1, <2>2 DEF IInv, Typed
  <2>4. loc[i][d] = 0
    BY <1>1, <1>6, ColorFacts, BottomFact
  <2>5. \A r \in Rank : r < i => ~ A(i, r)
    BY <1>1, <2>4, BottomIsFirst, LocType
  <2>6. \A r \in Rank : color'[r] = -1 <=> ~ (r < i')
    BY <1>1, <1>2, <2>3, ColorFacts
  <2>7. \A r \in Rank : r < i' => color'[r] < c'
    BY <1>1, <1>2, <1>3, <2>2, <2>3, ColorFacts
  <2>8. ASSUME NEW r \in Rank, NEW s \in Rank, r < i', s < i'
        PROVE  color'[r] = color'[s] <=> A(r, s)
    <3>1. CASE r = i /\ s = i
      BY <3>1, <1>5
    <3>2. CASE r < i /\ s = i
      <4>1. color'[r] = color[r] /\ color[r] < c
        BY <1>2, <3>2, ColorFacts, LocType
      <4>2. color'[r] # color'[s]
        BY <1>1, <1>3, <2>3, <3>2, <4>1
      <4>3. ~ A(r, s)
        BY <1>4, <2>5, <3>2
      <4> QED
        BY <4>2, <4>3
    <3>3. CASE r = i /\ s < i
      <4>1. color'[s] = color[s] /\ color[s] < c
        BY <1>2, <3>3, ColorFacts, LocType
      <4>2. color'[r] # color'[s]
        BY <1>1, <1>3, <2>3, <3>3, <4>1
      <4>3. ~ A(r, s)
        BY <2>5, <3>3
      <4> QED
        BY <4>2, <4>3
    <3>4. CASE r < i /\ s < i
      <4>1. color'[r] = color[r] /\ color'[s] = color[s]
        BY <3>4, ColorFacts, LocType
      <4> QED
        BY <1>2, <3>4, <4>1
    <3> QED
      BY <2>8, <3>1, <3>2, <3>3, <3>4, ColorFacts
  <2> QED
    BY <2>6, <2>7, <2>8
<1>7. CASE brank[i] # -1
  <2> DEFINE b == brank[i]
  <2>1. b \in Rank /\ b < i /\ loc[b] = [loc[i] EXCEPT ![d] = @ - 1]
    BY <1>1, <1>7, ColorFacts, BottomFact
  <2>2. color' = [color EXCEPT ![i] = color[b]] /\ c' = c
    BY <1>7 DEF ColorNext, Fresh
  <2>3. color'[i] = color[b]
    BY <1>1, <2>2 DEF IInv, Typed
  <2>4. A(b, i) /\ \A r \in Rank : A(b, r) <=> A(i, r)
    BY <1>1, <2>1, LocType DEF Aligned
  <2>5. \A r \in Rank : color'[r] = -1 <=> ~ (r < i')
    <3>1. color'[i] # -1
      BY <1>2, <2>1, <2>3
    <3>2. \A r \in Rank : r # i => (color'[r] = -1 <=> ~ (r < i))
      BY <1>2, ColorFacts
    <3> QED
      BY <3>1, <3>2, ColorFacts
  <2>6. \A r \in Rank : r < i' => color'[r] < c'
    BY <1>1, <1>2, <1>3, <2>1, <2>2, <2>3, ColorFacts
  <2>7. ASSUME NEW r \in Rank, NEW s \in Rank, r < i', s < i'
        PROVE  color'[r] = color'[s] <=> A(r, s)
    <3>1. CASE r = i /\ s = i
      BY <3>1, <1>5
    <3>2. CASE r < i /\ s = i
      <4>0. color[r] = color[b] <=> A(r, b)
        BY <1>2, <2>1, <3>2
      <4>1. color'[r] = color[r] /\ (color[r] = color[b] <=> A(r, b))
        BY <1>1, <3>2, <4>0, ColorFacts, LocType
      <4>2. A(r, b) <=> A(r, s)
        BY <1>4, <2>1, <2>4, <3>2
      <4> QED
        BY <2>3, <3>2, <4>1, <4>2
    <3>3. CASE r = i /\ s < i
      <4>0. color[b] = color[s] <=> A(b, s)
        BY <1>2, <2>1, <3>3
      <4>1. color'[s] = color[s] /\ (color[b] = color[s] <=> A(b, s))
        BY <1>1, <3>3, <4>0, ColorFacts, LocType
      <4> QED
        BY <2>3, <2>4, <3>3, <4>1
    <3>4. CASE r < i /\ s < i
      <4>1. color'[r] = color[r] /\ color'[s] = color[s]
        BY <3>4, ColorFacts, LocType
      <4> QED
        BY <1>2, <3>4, <4>1
    <3> QED
      BY <2>7, <3>1, <3>2, <3>3, <3>4, ColorFacts
  <2> QED
    BY <2>5, <2>6, <2>7
<1> QED
  BY <1>6, <1>7

\* Second pass: the next rank takes the colour of the block at its line's foot.
LEMMA ColorSecond ==
  ASSUME IInv, ColorNext
  PROVE  SecondPass'
<1> SUFFICES ASSUME Second
             PROVE  SecondPass'
  BY ColorFacts DEF SecondPass
<1> DEFINE d == Head(todo)
           D == {Calls(kind, mydir)[1]}
<1>1. d \in Dir /\ i \in Rank /\ i \in Nat
  BY ColorFacts
<1>2. /\ \A r \in Rank : color[r] # -1
      /\ \A r, s \in Rank : color[r] = color[s] <=> Aligned(Foot(r), Foot(s), D)
  BY ColorFacts DEF IInv, SecondPass
<1>0. /\ ~ (i < i) /\ pc = "color" /\ pc' = "color" /\ todo' = todo
      /\ \A r \in Rank : r < i' <=> (r < i \/ r = i)
  BY <1>1, ColorFacts
<1>3. PICK k \in Rank : k = i
  BY <1>1
<1>4. Foot(k) = loc[k] /\ Foot(k)' = [loc[k] EXCEPT ![d] = 0]
  <2>1. k < i' /\ ~ (k < i)
    BY <1>0, <1>3
  <2> QED
    BY <1>0, <2>1 DEF Foot
<1>5. \E q \in Rank : color'[k] = color[q] /\ Foot(k)' = Foot(q)
  <2>1. CASE brank[i] = -1
    <3>1. color' = color
      BY <1>1, <1>2, <2>1 DEF ColorNext, Fresh
    <3>2. loc[k][d] = 0
      BY <1>1, <1>3, <2>1, ColorFacts, BottomFact
    <3>3. Foot(k)' = Foot(k)
      BY <1>1, <1>4, <3>2, LocType
    <3> QED
      BY <3>1, <3>3
  <2>2. CASE brank[i] # -1
    <3>1. PICK q \in Rank : q = brank[i] /\ q < i /\ loc[q] = [loc[k] EXCEPT ![d] = @ - 1]
      BY <1>1, <1>3, <2>2, ColorFacts, BottomFact
    <3>2. color' = [color EXCEPT ![i] = color[q]]
      BY <2>2, <3>1 DEF ColorNext, Fresh
    <3>3. color'[k] = color[q]
      BY <1>3, <3>2 DEF IInv, Typed
    <3>4. Foot(q) = [loc[q] EXCEPT ![d] = 0]
      BY <1>0, <3>1 DEF Foot
    <3>5. Foot(k)' = Foot(q)
      BY <1>1, <1>4, <3>1, <3>4, LocType
    <3> QED
      BY <3>3, <3>5
  <2> QED
    BY <2>1, <2>2
<1>6. ASSUME NEW r \in Rank, r # k
      PROVE  color'[r] = color[r] /\ Foot(r)' = Foot(r)
  <2>1. color'[r] = color[r]
    BY <1>3, <1>6, ColorFacts
  <2>2. r < i' <=> r < i
    BY <1>0, <1>3, <1>6
  <2> QED
    BY <1>0, <2>1, <2>2 DEF Foot
<1>7. ASSUME NEW r \in Rank
      PROVE  \E s \in Rank : color'[r] = color[s] /\ Foot(r)' = Foot(s)
  BY <1>5, <1>6
<1>8. \A r \in Rank : color'[r] # -1
  BY <1>2, <1>7
<1>9. ASSUME NEW r \in Rank, NEW s \in Rank
      PROVE  color'[r] = color'[s] <=> Aligned(Foot(r)', Foot(s)', D)
  <2>1. PICK t \in Rank : color'[r] = color[t] /\ Foot(r)' = Foot(t)
    BY <1>7
  <2>2. PICK u \in Rank : color'[s] = color[u] /\ Foot(s)' = Foot(u)
    BY <1>7
  <2>3. color[t] = color[u] <=> Aligned(Foot(t), Foot(u), D)
    BY <1>2
  <2> QED
    BY <2>1, <2>2, <2>3
<1>10. D' = D
  BY ColorFacts DEF Calls
<1> QED
  BY <1>8, <1>9, <1>10 DEF SecondPass, Aligned

LEMMA ColorStep ==
  ASSUME IInv, ColorNext
  PROVE  IInv'
<1>1. ColorsAreGroups'
  BY ColorFacts DEF ColorsAreGroups, Ready
<1> QED
  BY <1>1, ColorTyped, ColorFirst, ColorSecond DEF IInv

LEMMA SplitStep ==
  ASSUME IInv, SplitComm
  PROVE  IInv'
<1>1. /\ pc = "color" /\ i = nranks /\ todo' = Tail(todo)
      /\ kind' = kind /\ mydir' = mydir /\ brank' = brank /\ color' = color
      /\ mydir \in Dir /\ (First \/ Second)
      /\ pc' = IF Tail(todo) = <<>> THEN "idle" ELSE "gather"
  BY DEF SplitComm, IInv, Typed
<1>2. \A r \in Rank : r < i
  BY <1>1, LocType
<1>3. CASE First /\ kind = "linear"
  <2>1. todo = <<mydir>>
    BY <1>1, <1>3, CallsFact DEF First
  <2>2. Tail(todo) = <<>> /\ Head(todo) = mydir
    BY <2>1
  <2>3. pc' = "idle" /\ todo' = <<>>
    BY <1>1, <2>2
  <2>4. \A r, s \in Rank : color[r] = color[s] <=> Aligned(loc[r], loc[s], {mydir})
    BY <1>1, <1>2, <1>3, <2>2 DEF IInv, FirstPass
  <2>5. ColorsAreGroups'
    BY <1>1, <1>3, <2>4 DEF ColorsAreGroups, Extent, Ready
  <2>6. Typed'
    BY <1>1, <2>3 DEF IInv, Typed, SplitComm
  <2>7. FirstPass' /\ SecondPass'
    BY <2>3 DEF FirstPass, SecondPass
  <2> QED
    BY <2>5, <2>6, <2>7 DEF IInv
<1>4. CASE First /\ kind = "planar"
  <2>1. PICK a \in Dir, b \in Dir : Calls("planar", mydir) = <<a, b>>
    BY <1>1, CallsFact
  <2>2. todo = <<a, b>> /\ Head(todo) = a /\ Tail(todo) = <<b>>
    <3>1. todo = <<a, b>>
      BY <1>4, <2>1 DEF First
    <3>2. Head(<<a, b>>) = a /\ Tail(<<a, b>>) = <<b>>
      OBVIOUS
    <3> QED
      BY <3>1, <3>2
  <2>3. <<b>> # <<>> /\ <<a, b>> # <<b>> /\ <<a, b>>[1] = a /\ <<a, b>>[2] = b
    OBVIOUS
  <2>4. pc' = "gather" /\ todo' = <<b>>
    BY <1>1, <2>2, <2>3
  <2>5. Second' /\ ~ First'
    BY <1>1, <1>4, <2>1, <2>3, <2>4 DEF Second, First
  <2>6. Typed'
    BY <1>1, <2>4, <2>5 DEF IInv, Typed, SplitComm
  <2>7. /\ \A r \in Rank : color[r] # -1
        /\ \A r, s \in Rank : color[r] = color[s] <=> Aligned(loc[r], loc[s], {a})
    BY <1>1, <1>2, <1>4, <2>2 DEF IInv, FirstPass
  <2>8. \A r \in Rank : Foot(r)' = loc[r]
    BY <2>4 DEF Foot
  <2>9. Calls(kind, mydir)' = <<a, b>>
    BY <1>1, <1>4, <2>1 DEF Calls
  <2>10. SecondPass'
    <3>1. Calls(kind, mydir)[1]' = a
      BY <2>3, <2>9
    <3> QED
      BY <1>1, <2>7, <2>8, <3>1 DEF SecondPass, Aligned
  <2>11. FirstPass' /\ ColorsAreGroups'
    BY <2>4, <2>5 DEF FirstPass, ColorsAreGroups, Ready
  <2> QED
    BY <2>6, <2>10, <2>11 DEF IInv
<1>5. CASE Second
  <2>1. PICK a \in Dir, b \in Dir : /\ a # b /\ Dir \ {mydir} = {a, b}
                                    /\ Calls("planar", mydir) = <<a, b>>
    BY <1>1, CallsFact
  <2>2. kind = "planar" /\ Calls(kind, mydir) = <<a, b>> /\ <<a, b>>[1] = a /\ <<a, b>>[2] = b
    BY <1>5, <2>1 DEF Second
  <2>3. todo = <<b>> /\ Head(todo) = b /\ Tail(todo) = <<>>
    BY <1>5, <2>2 DEF Second
  <2>4. pc' = "idle" /\ todo' = <<>>
    BY <1>1, <2>3
  <2>5. \A r \in Rank : Foot(r) = [loc[r] EXCEPT ![b] = 0]
    BY <1>1, <1>2, <2>3 DEF Foot
  <2>6. \A r, s \in Rank : color[r] = color[s] <=> Aligned(Foot(r), Foot(s), {a})
    BY <1>1, <1>5, <2>2 DEF IInv, SecondPass
  <2>7. \A r, s \in Rank :
          Aligned(Foot(r), Foot(s), {a}) <=> Aligned(loc[r], loc[s], {a, b})
    BY <2>1, <2>5, LocType DEF Aligned
  <2>8. ColorsAreGroups'
    <3>1. Extent' = {a, b}
      BY <1>1, <2>1, <2>2 DEF Extent
    <3>2. \A r, s \in Rank : color[r] = color[s] <=> Aligned(loc[r], loc[s], {a, b})
      BY <2>6, <2>7
    <3> QED
      BY <1>1, <3>1, <3>2 DEF ColorsAreGroups, Ready
  <2>9. Typed'
    BY <1>1, <2>4 DEF IInv, Typed, SplitComm
  <2>10. FirstPass' /\ SecondPass'
    BY <2>4 DEF FirstPass, SecondPass
  <2> QED
    BY <2>8, <2>9, <2>10 DEF IInv
<1> QED
  BY <1>1, <1>3, <1>4, <1>5 DEF IInv, Typed

THEOREM Inductive == Spec => []IInv
<1>1. Init => IInv
  BY InitStep
<1>2. IInv /\ [Next]_vars => IInv'
  <2> SUFFICES ASSUME IInv, [Next]_vars PROVE IInv'
    OBVIOUS
  <2>1. CASE UNCHANGED vars
    <3>1. First' = First /\ Second' = Second
      BY <2>1 DEF vars, First, Second
    <3>2. Typed'
      BY <2>1, <3>1 DEF vars, IInv, Typed
    <3>3. FirstPass'
      BY <2>1, <3>1 DEF vars, IInv, FirstPass
    <3>4. \A r \in Rank : Foot(r)' = Foot(r)
      BY <2>1 DEF vars, Foot
    <3>5. SecondPass'
      BY <2>1, <3>1, <3>4 DEF vars, IInv, SecondPass, Aligned
    <3>6. ColorsAreGroups'
      BY <2>1 DEF vars, IInv, ColorsAreGroups, Ready, Extent
    <3> QED
      BY <3>2, <3>3, <3>5, <3>6 DEF IInv
  <2> QED
    BY <2>1, RegroupStep, GatherStep, ColorStep, SplitStep DEF Next
<1> QED
  BY <1>1, <1>2, PTL DEF Spec

\* On every mesh, after every Regroup, the communicators of an exchanger are the
\* lines or the planes of the mesh.
THEOREM GroupsCorrect == Spec => []ColorsAreGroups
<1>1. IInv => ColorsAreGroups
  BY DEF IInv
<1> QED
  BY <1>1, Inductive, PTL

-----------------------------------------------------------------------------
(* The order within a group.                                                *)

\* The remaining directions are directions.
LEMMA InvType == IInv => TypeOK
<1> SUFFICES ASSUME IInv PROVE todo \in Seq(Dir)
  BY DEF IInv, Typed, TypeOK
<1>1. CASE pc = "idle"
  <2>1. todo = <<>>
    BY <1>1 DEF IInv, Typed
  <2> QED
    BY <2>1
<1>2. CASE pc # "idle"
  <2>1. mydir \in Dir /\ (First \/ Second) /\ kind \in {"linear", "planar"}
    BY <1>2 DEF IInv, Typed
  <2>2. PICK a \in Dir, b \in Dir : Calls("planar", mydir) = <<a, b>>
    BY <2>1, CallsFact
  <2>3. <<a, b>> \in Seq(Dir) /\ <<a, b>>[2] = b /\ <<b>> \in Seq(Dir) /\ <<mydir>> \in Seq(Dir)
    BY <2>1
  <2>4. Calls("linear", mydir) = <<mydir>>
    BY <2>1, CallsFact
  <2>5. CASE First
    BY <2>1, <2>2, <2>3, <2>4, <2>5 DEF First
  <2>6. CASE Second
    BY <2>2, <2>3, <2>6 DEF Second
  <2> QED
    BY <2>1, <2>5, <2>6
<1> QED
  BY <1>1, <1>2

\* For every mesh the variables of an exchanger keep their types: the colours
\* do not run out and setColor is called with directions only.
THEOREM TypeCorrect == Spec => []TypeOK
BY InvType, Inductive, PTL

\* The position k of the line along d through rank r's block.
At(r, d, k) == [loc[r] EXCEPT ![d] = k]

LEMMA AtFact ==
  ASSUME NEW r \in Rank, NEW d \in Dir
  PROVE  /\ \A k \in Nat : At(r, d, k)[d] = k /\ Aligned(At(r, d, k), loc[r], {d})
         /\ \A s \in Rank : Aligned(loc[s], loc[r], {d}) => loc[s] = At(r, d, loc[s][d])
BY LocType DEF At, Aligned

\* There is a rank at every position of the line through a rank's block.
LEMMA OnLine ==
  ASSUME NEW r \in Rank, NEW d \in Dir, NEW k \in Nat, k < Dims[d]
  PROVE  \E s \in Rank : loc[s] = At(r, d, k)
<1>1. At(r, d, k) \in Site
  <2>1. loc[r] \in Site /\ \A e \in Dir : Dims[e] \in Nat
    BY LocType, MeshAssumption
  <2>2. k \in 0 .. Dims[1] + Dims[2] + Dims[3]
    BY <2>1 DEF Dir
  <2> QED
    BY <2>1, <2>2 DEF Site, At
<1> QED
  BY <1>1, MeshAssumption

\* The ranks of a line up to n, from the bottom: the blocks 0, 1, ...
Line(g, n, r, d) ==
  /\ g \in Seq(Rank)
  /\ \A k \in 1 .. Len(g) : g[k] < n /\ loc[g[k]] = At(r, d, k - 1)
  /\ \A s \in Rank : s < n /\ Aligned(loc[s], loc[r], {d}) => loc[s][d] < Len(g)

\* The next rank of a line has the block on top of those before.
LEMMA LineGrows ==
  ASSUME NEW r \in Rank, NEW d \in Dir, NEW n \in Rank, NEW g, Line(g, n, r, d)
  PROVE  IF Aligned(loc[n], loc[r], {d}) THEN Line(Append(g, n), n + 1, r, d)
                                        ELSE Line(g, n + 1, r, d)
<1>1. /\ g \in Seq(Rank) /\ Len(g) \in Nat
      /\ \A k \in 1 .. Len(g) :
           g[k] \in Rank /\ g[k] < n /\ loc[g[k]] = At(r, d, k - 1)
      /\ \A s \in Rank : s < n /\ Aligned(loc[s], loc[r], {d}) => loc[s][d] < Len(g)
  <2>1. /\ g \in Seq(Rank)
        /\ \A k \in 1 .. Len(g) : g[k] < n /\ loc[g[k]] = At(r, d, k - 1)
        /\ \A s \in Rank : s < n /\ Aligned(loc[s], loc[r], {d}) => loc[s][d] < Len(g)
    BY Zenon DEF Line
  <2>2. Len(g) \in Nat /\ \A k \in 1 .. Len(g) : g[k] \in Rank
    <3>1. g \in Seq(Rank)
      BY <2>1
    <3> QED
      BY <3>1, SMT
  <2> QED
    BY <2>1, <2>2, Zenon
<1>2. \A s \in Rank : s < n + 1 <=> (s < n \/ s = n)
  <2>1. \A s \in Rank : s \in Int
    BY LocType
  <2> QED
    BY <2>1
<1>3. CASE ~ Aligned(loc[n], loc[r], {d})
  <2>1. \A k \in 1 .. Len(g) : g[k] < n + 1
    BY <1>1, <1>2
  <2>2. \A s \in Rank : s < n + 1 /\ Aligned(loc[s], loc[r], {d}) => loc[s][d] < Len(g)
    BY <1>1, <1>2, <1>3
  <2> QED
    BY <1>1, <1>3, <2>1, <2>2 DEF Line
<1>4. CASE Aligned(loc[n], loc[r], {d})
  <2> DEFINE l == Len(g)
             z == loc[n][d]
  <2>1. /\ z \in Nat /\ l \in Nat /\ z < Dims[d] /\ Dims[d] \in Nat
        /\ loc[n] \in [Dir -> Nat] /\ loc[r] \in [Dir -> Nat]
    BY <1>1, LocType, SiteType, MeshAssumption
  <2>2. loc[n] = At(r, d, z)
    BY <1>4, AtFact
  <2>3. ~ (z < l)
    <3> SUFFICES ASSUME z < l PROVE FALSE
      OBVIOUS
    <3>1. z + 1 \in 1 .. l /\ (z + 1) - 1 = z
      BY <2>1
    <3>2. g[z + 1] \in Rank /\ g[z + 1] < n /\ loc[g[z + 1]] = loc[n]
      BY <1>1, <2>2, <3>1
    <3>3. g[z + 1] = n
      BY <3>2, MeshAssumption
    <3> QED
      BY <3>2, <3>3, LocType
  <2>4. ~ (z > l)
    <3> SUFFICES ASSUME z > l PROVE FALSE
      OBVIOUS
    <3>1. l < Dims[d]
      BY <2>1
    <3>2. PICK t \in Rank : loc[t] = At(r, d, l)
      BY <2>1, <3>1, OnLine
    <3>3. loc[t][d] = l /\ Aligned(loc[t], loc[n], {d}) /\ Aligned(loc[t], loc[r], {d})
      <4>0. At(r, d, l)[d] = l /\ Aligned(At(r, d, l), loc[r], {d})
        BY <2>1, AtFact
      <4>1. loc[t][d] = l /\ Aligned(loc[t], loc[r], {d})
        BY <3>2, <4>0
      <4> QED
        BY <1>4, <4>1 DEF Aligned
    <3>4. t < n
      BY <3>3, OrderAssumption
    <3>5. l < l
      BY <1>1, <3>3, <3>4
    <3> QED
      BY <2>1, <3>5
  <2>5. z = l
    BY <2>1, <2>3, <2>4
  <2>6. /\ Append(g, n) \in Seq(Rank) /\ Len(Append(g, n)) = l + 1
        /\ \A k \in 1 .. l : Append(g, n)[k] = g[k]
        /\ Append(g, n)[l + 1] = n
    BY <1>1
  <2>7. \A k \in 1 .. l + 1 :
          Append(g, n)[k] < n + 1 /\ loc[Append(g, n)[k]] = At(r, d, k - 1)
    <3> SUFFICES ASSUME NEW k \in 1 .. l + 1
                 PROVE  /\ Append(g, n)[k] < n + 1
                        /\ loc[Append(g, n)[k]] = At(r, d, k - 1)
      OBVIOUS
    <3>1. CASE k = l + 1
      <4>1. Append(g, n)[k] = n /\ k - 1 = z
        BY <2>1, <2>5, <2>6, <3>1
      <4> QED
        BY <1>2, <2>2, <4>1
    <3>2. CASE k # l + 1
      <4>1. k \in 1 .. l
        BY <2>1, <3>2
      <4> QED
        BY <1>1, <1>2, <2>6, <4>1
    <3> QED
      BY <3>1, <3>2
  <2>8. \A s \in Rank : s < n + 1 /\ Aligned(loc[s], loc[r], {d}) => loc[s][d] < l + 1
    <3> SUFFICES ASSUME NEW s \in Rank, s < n + 1 /\ Aligned(loc[s], loc[r], {d})
                 PROVE  loc[s][d] < l + 1
      OBVIOUS
    <3>0. s < n + 1 /\ Aligned(loc[s], loc[r], {d})
      OBVIOUS
    <3>1. loc[s][d] \in Nat /\ (s < n \/ s = n)
      BY <1>2, <3>0, LocType
    <3>2. CASE s < n
      <4>1. loc[s][d] < l
        BY <1>1, <3>0, <3>2
      <4> QED
        BY <2>1, <3>1, <4>1
    <3>3. CASE s = n
      BY <2>1, <2>5, <3>3
    <3> QED
      BY <3>1, <3>2, <3>3
  <2>9. Line(Append(g, n), n + 1, r, d)
    BY <2>6, <2>7, <2>8 DEF Line
  <2> QED
    BY <1>4, <2>9
<1> QED
  BY <1>3, <1>4

\* The ranks of a colour when the colours are the lines along d.
LEMMA SplitFact ==
  ASSUME NEW d \in Dir, NEW r \in Rank,
         \A s \in Rank : color[s] = color[r] <=> Aligned(loc[s], loc[r], {d})
  PROVE  Line(Split(r), nranks, r, d)
<1> DEFINE Run(g) ==
             g = [n \in 0 .. nranks |->
                    IF n = 0 THEN <<>>
                    ELSE IF color[n - 1] = color[r] THEN Append(g[n - 1], n - 1) ELSE g[n - 1]]
           To(g, m) ==
             \A n \in 0 .. nranks :
               g[n] = IF n = 0 \/ n > m THEN <<>>
                      ELSE IF color[n - 1] = color[r] THEN Append(g[n - 1], n - 1) ELSE g[n - 1]
           Fcn(g) == g = [n \in 0 .. nranks |-> g[n]]
           Some(m) == \E g : Fcn(g) /\ To(g, m)
           S == { m \in Nat : Some(m) }
<1>1. 0 \in S
  <2> DEFINE h == [n \in 0 .. nranks |-> <<>>]
  <2>1. To(h, 0) /\ Fcn(h)
    BY NRanksType
  <2> HIDE DEF To, Fcn, h
  <2> QED
    BY <2>1
<1>2. ASSUME NEW m \in Nat, Some(m)
      PROVE  Some(m + 1)
  <2>1. PICK g : Fcn(g) /\ To(g, m)
    BY <1>2
  <2> DEFINE h == [n \in 0 .. nranks |->
                     IF n = m + 1
                     THEN IF color[n - 1] = color[r] THEN Append(g[n - 1], n - 1) ELSE g[n - 1]
                     ELSE g[n]]
  <2>2. /\ h = [n \in 0 .. nranks |-> h[n]]
        /\ \A n \in 0 .. nranks :
             h[n] = IF n = m + 1
                    THEN IF color[n - 1] = color[r] THEN Append(g[n - 1], n - 1) ELSE g[n - 1]
                    ELSE g[n]
    OBVIOUS
  <2> HIDE DEF h
  <2>3. ASSUME NEW n \in 0 .. nranks
        PROVE  h[n] = IF n = 0 \/ n > m + 1 THEN <<>>
                      ELSE IF color[n - 1] = color[r] THEN Append(h[n - 1], n - 1) ELSE h[n - 1]
    <3>1. (n # 0 => n - 1 \in 0 .. nranks) /\ n \in Int
      BY NRanksType
    <3>2. CASE n = m + 1
      <4>1. h[n - 1] = g[n - 1] /\ n # 0 /\ ~ (n > m + 1)
        BY <2>2, <3>1, <3>2
      <4> QED
        BY <2>2, <3>2, <4>1
    <3>3. CASE n > m + 1
      <4>1. h[n] = g[n] /\ n > m
        BY <2>2, <3>1, <3>3
      <4> QED
        BY <2>1, <3>3, <4>1
    <3>4. CASE n <= m
      <4>1. h[n] = g[n] /\ (n # 0 => h[n - 1] = g[n - 1]) /\ ~ (n > m) /\ ~ (n > m + 1)
        BY <2>2, <3>1, <3>4
      <4> QED
        BY <2>1, <4>1
    <3> QED
      BY <3>1, <3>2, <3>3, <3>4
  <2>4. To(h, m + 1)
    BY <2>3
  <2>5. Fcn(h)
    BY <2>2
  <2> HIDE DEF To, Fcn
  <2> QED
    BY <2>4, <2>5
<1>3. Nat \subseteq S
  <2> HIDE DEF Some
  <2>1. 0 \in S /\ \A m \in Nat : m \in S => m + 1 \in S
    BY <1>1, <1>2
  <2> HIDE DEF S
  <2> QED
    BY <2>1, Induction
<1>4. \E g : Run(g)
  <2>1. PICK g : Fcn(g) /\ To(g, nranks)
    BY <1>3, NRanksType
  <2>2. Run(g)
    BY <2>1, NRanksType
  <2> QED
    BY <2>2
<1> DEFINE group == CHOOSE g : Run(g)
<1>5. Run(group)
  <2> HIDE DEF Run
  <2> QED
    BY <1>4
<1>6. Split(r) = group[nranks]
  BY DEF Split
<1> HIDE DEF group
<1>7. /\ group[0] = <<>>
      /\ \A n \in Rank : group[n + 1] = IF color[n] = color[r] THEN Append(group[n], n) ELSE group[n]
  <2>1. \A n \in Rank : n + 1 \in 0 .. nranks /\ n + 1 # 0 /\ (n + 1) - 1 = n
    BY LocType, NRanksType
  <2>2. 0 \in 0 .. nranks
    BY NRanksType
  <2> QED
    BY <1>5, <2>1, <2>2
<1> HIDE DEF Run
<1> DEFINE T == { n \in Nat : n <= nranks => Line(group[n], n, r, d) }
<1>8. 0 \in T
  <2>1. \A s \in Rank : ~ (s < 0)
    BY LocType
  <2>2. Line(<<>>, 0, r, d)
    BY <2>1 DEF Line
  <2> QED
    BY <1>7, <2>2
<1>9. ASSUME NEW n \in Nat, n \in T
      PROVE  n + 1 \in T
  <2> SUFFICES ASSUME n + 1 <= nranks PROVE Line(group[n + 1], n + 1, r, d)
    OBVIOUS
  <2>1. n \in Rank /\ n <= nranks
    BY NRanksType DEF Rank
  <2>2. Line(group[n], n, r, d)
    BY <1>9, <2>1
  <2>3. Aligned(loc[n], loc[r], {d}) <=> color[n] = color[r]
    BY <2>1
  <2>4. CASE color[n] = color[r]
    <3>1. group[n + 1] = Append(group[n], n)
      BY <1>7, <2>1, <2>4
    <3>2. Line(Append(group[n], n), n + 1, r, d)
      BY <2>1, <2>2, <2>3, <2>4, LineGrows
    <3> QED
      BY <3>1, <3>2
  <2>5. CASE color[n] # color[r]
    <3>1. group[n + 1] = group[n]
      BY <1>7, <2>1, <2>5
    <3>2. Line(group[n], n + 1, r, d)
      BY <2>1, <2>2, <2>3, <2>5, LineGrows
    <3> QED
      BY <3>1, <3>2
  <2> QED
    BY <2>4, <2>5
<1>10. Nat \subseteq T
  <2> HIDE DEF T
  <2> QED
    BY <1>8, <1>9, Induction
<1> QED
  BY <1>6, <1>10, NRanksType

\* A list of a whole line has a block for every place along it.
LEMMA WholeLine ==
  ASSUME NEW r \in Rank, NEW d \in Dir, NEW g, Line(g, nranks, r, d)
  PROVE  Len(g) = Dims[d]
<1>1. /\ g \in Seq(Rank) /\ Len(g) \in Nat /\ Dims[d] \in Nat /\ Dims[d] > 0
      /\ loc[r] \in [Dir -> Nat]
  <2>1. g \in Seq(Rank)
    BY Zenon DEF Line
  <2>2. Len(g) \in Nat
    BY <2>1
  <2>3. Dims[d] \in Nat /\ Dims[d] > 0 /\ loc[r] \in [Dir -> Nat]
    BY LocType, MeshAssumption
  <2> QED
    BY <2>1, <2>2, <2>3
<1>2. Len(g) <= Dims[d]
  <2> SUFFICES ASSUME Len(g) > Dims[d] PROVE FALSE
    BY <1>1
  <2>1. Len(g) \in 1 .. Len(g) /\ g[Len(g)] \in Rank
    BY <1>1
  <2>2. loc[g[Len(g)]] = At(r, d, Len(g) - 1)
    BY <2>1 DEF Line
  <2>3. loc[g[Len(g)]][d] = Len(g) - 1
    <3>1. Len(g) - 1 \in Nat
      BY <1>1
    <3>2. At(r, d, Len(g) - 1)[d] = Len(g) - 1
      BY <3>1, AtFact
    <3> QED
      BY <2>2, <3>2
  <2>4. loc[g[Len(g)]][d] < Dims[d]
    BY <2>1, LocType, SiteType
  <2> QED
    BY <1>1, <2>3, <2>4
<1>3. Dims[d] <= Len(g)
  <2>1. Dims[d] - 1 \in Nat /\ Dims[d] - 1 < Dims[d]
    BY <1>1
  <2>2. PICK s \in Rank : loc[s] = At(r, d, Dims[d] - 1)
    BY <2>1, OnLine
  <2>3. loc[s][d] = Dims[d] - 1 /\ Aligned(loc[s], loc[r], {d}) /\ s < nranks
    <3>1. At(r, d, Dims[d] - 1)[d] = Dims[d] - 1 /\ Aligned(At(r, d, Dims[d] - 1), loc[r], {d})
      BY <2>1, AtFact
    <3>2. s < nranks
      BY LocType
    <3> QED
      BY <2>2, <3>1, <3>2
  <2>4. loc[s][d] < Len(g)
    BY <2>3 DEF Line
  <2> QED
    BY <1>1, <2>3, <2>4
<1> QED
  BY <1>1, <1>2, <1>3

\* The length of the chain of bottom ranks.
LEMMA PlaceFact ==
  ASSUME NEW d \in Dir, brank = [r \in Rank |-> Bottom(r, d)], NEW r \in Rank
  PROVE  GetRankInGroup(r) = loc[r][d]
<1> DEFINE Run(f) == f = [s \in Rank |-> IF brank[s] = -1 THEN 0 ELSE 1 + f[brank[s]]]
<1>1. \A s \in Rank :
        /\ brank[s] = -1 <=> loc[s][d] = 0
        /\ brank[s] # -1 => brank[s] \in Rank /\ brank[s] < s /\ loc[brank[s]][d] = loc[s][d] - 1
        /\ loc[s][d] \in Nat /\ loc[s] \in [Dir -> Nat]
  BY BottomFact, LocType
<1>2. Run([s \in Rank |-> loc[s][d]])
  <2>1. \A s \in Rank : loc[s][d] = IF brank[s] = -1 THEN 0 ELSE 1 + loc[brank[s]][d]
    BY <1>1
  <2> QED
    BY <1>1, <2>1
<1> DEFINE place == CHOOSE f : Run(f)
<1>3. Run(place)
  <2>1. \E f : Run(f)
    BY <1>2
  <2> HIDE DEF Run
  <2> QED
    BY <2>1
<1>4. GetRankInGroup(r) = place[r]
  BY DEF GetRankInGroup
<1> HIDE DEF place
<1>5. \A s \in Rank : place[s] = IF brank[s] = -1 THEN 0 ELSE 1 + place[brank[s]]
  BY <1>3
<1> HIDE DEF Run
<1> DEFINE T == { n \in Nat : \A s \in Rank : s < n => place[s] = loc[s][d] }
<1>6. 0 \in T
  BY LocType
<1>7. ASSUME NEW n \in Nat, n \in T
      PROVE  n + 1 \in T
  <2> SUFFICES ASSUME NEW s \in Rank, s < n + 1 PROVE place[s] = loc[s][d]
    OBVIOUS
  <2>1. CASE brank[s] = -1
    BY <1>1, <1>5, <2>1
  <2>2. CASE brank[s] # -1
    <3>1. brank[s] \in Rank /\ brank[s] < s /\ loc[brank[s]][d] = loc[s][d] - 1
      BY <1>1, <2>2
    <3>2. brank[s] < n
      BY <3>1, LocType
    <3>3. place[brank[s]] = loc[brank[s]][d]
      BY <1>7, <3>1, <3>2
    <3> QED
      BY <1>1, <1>5, <2>2, <3>1, <3>3
  <2> QED
    BY <2>1, <2>2
<1>8. Nat \subseteq T
  <2> HIDE DEF T
  <2> QED
    BY <1>6, <1>7, Induction
<1>9. r + 1 \in Nat /\ r < r + 1
  BY LocType
<1> QED
  BY <1>4, <1>8, <1>9

\* After a Regroup the communicators are those of the colours, and the bottom
\* ranks of a linear exchanger are those of its direction.
Grouped ==
  Ready => /\ \A r \in Rank : comm[r] = Split(r)
           /\ kind = "linear" => brank = [r \in Rank |-> Bottom(r, mydir)]

LEMMA GroupedStep == IInv /\ Grouped /\ [Next]_vars => Grouped'
<1> SUFFICES ASSUME IInv, Grouped, [Next]_vars, Ready'
             PROVE  /\ \A r \in Rank : comm'[r] = Split(r)'
                    /\ kind' = "linear" => brank' = [r \in Rank |-> Bottom(r, mydir')]
  BY DEF Grouped, Bottom, find_bottom, RankAt
<1>1. CASE UNCHANGED vars
  BY <1>1 DEF vars, Grouped, Ready, Split, Bottom, find_bottom, RankAt
<1>2. CASE SplitComm
  <2>1. /\ pc = "color" /\ kind' = kind /\ mydir' = mydir /\ brank' = brank /\ color' = color
        /\ comm' = [r \in Rank |-> Split(r)]
        /\ mydir \in Dir /\ (First \/ Second) /\ brank = [r \in Rank |-> Bottom(r, Head(todo))]
    BY <1>2 DEF SplitComm, IInv, Typed
  <2>2. \A r \in Rank : Split(r)' = Split(r)
    BY <2>1 DEF Split
  <2>3. kind = "linear" => Head(todo) = mydir
    BY <2>1, CallsFact DEF First, Second
  <2> QED
    BY <2>1, <2>2, <2>3
<1>3. CASE (\E d \in Dir : Regroup(d)) \/ GatherBottoms \/ ColorNext
  <2>1. pc' # "idle"
    BY <1>3 DEF Regroup, GatherBottoms, ColorNext
  <2> QED
    BY <2>1 DEF Ready
<1> QED
  BY <1>1, <1>2, <1>3 DEF Next

LEMMA Stacked == IInv /\ Grouped => StackedBottomUp
<1> SUFFICES ASSUME IInv, Grouped, Ready, kind = "linear", NEW r \in Rank
             PROVE  /\ Len(comm[r]) = Dims[mydir]
                    /\ \A k \in 1 .. Len(comm[r]) :
                         loc[comm[r][k]] = [loc[r] EXCEPT ![mydir] = k - 1]
                    /\ GetRankInGroup(r) = loc[r][mydir]
  BY DEF StackedBottomUp
<1>1. mydir \in Dir /\ comm[r] = Split(r) /\ brank = [s \in Rank |-> Bottom(s, mydir)]
  BY DEF IInv, Typed, Grouped, Ready
<1>2. \A s \in Rank : color[s] = color[r] <=> Aligned(loc[s], loc[r], {mydir})
  BY DEF IInv, ColorsAreGroups, Extent
<1>3. Line(Split(r), nranks, r, mydir)
  BY <1>1, <1>2, SplitFact
<1>4. Len(comm[r]) = Dims[mydir]
  BY <1>1, <1>3, WholeLine
<1>5. \A k \in 1 .. Len(comm[r]) : loc[comm[r][k]] = [loc[r] EXCEPT ![mydir] = k - 1]
  BY <1>1, <1>3 DEF Line, At
<1>6. GetRankInGroup(r) = loc[r][mydir]
  BY <1>1, PlaceFact
<1> QED
  BY <1>4, <1>5, <1>6

\* For every mesh and every order of the ranks that increases along lines: a
\* linear exchanger's communicator has one rank for every block of the line, in
\* order from the bottom, and GetRankInGroup is a block's place in it.
THEOREM StackedCorrect == Spec => []StackedBottomUp
<1>1. Init => Grouped
  BY DEF Init, Grouped, Ready
<1> QED
  BY <1>1, GroupedStep, Stacked, Inductive, PTL DEF Spec

=============================================================================
