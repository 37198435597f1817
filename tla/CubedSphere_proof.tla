------------------------- MODULE CubedSphere_proof -------------------------
(***************************************************************************)
(* Which block meets which across the edges of the cubed sphere, for every  *)
(* number of blocks along an edge.  A block at an edge is written as the     *)
(* a-th block along side s of panel p; TransformOX's table (Seam, and the    *)
(* rectangle where Seam has no entry) then maps (p, s, a) to a side of        *)
(* another panel, and maps that side back.                                   *)
(***************************************************************************)
EXTENDS CubedSphere, TLAPS

\* An index in a panel is the remainder of the index in the mesh.
LEMMA DivMod ==
  ASSUME NEW p \in Nat, NEW l \in 0 .. N - 1
  PROVE  (N * p + l) \div N = p /\ (N * p + l) % N = l
<1>1. N \in Nat /\ N > 0
  BY PanelAssumption
<1>2. l \in Nat /\ l < N /\ N * p \in Nat
  BY <1>1
<1>3. (N * p + l) % N = l
  BY <1>1, <1>2, Z3
<1>4. (N * p + l) \div N = p
  BY <1>1, <1>2, Z3
<1> QED
  BY <1>3, <1>4

\* The block with indices l2 and l3 in a panel.
At(panel, l2, l3) ==
  [lx2 |-> N * ((panel - 1) % 2) + l2, lx3 |-> N * ((panel - 1) \div 2) + l3]

\* The position of a block inside its panel, and its panel, are those it was built from.
LEMMA AtFacts ==
  ASSUME NEW p \in Panel, NEW l2 \in 0 .. N - 1, NEW l3 \in 0 .. N - 1
  PROVE  /\ At(p, l2, l3) \in Block
         /\ FindBlockID(At(p, l2, l3)) = p
         /\ local2(At(p, l2, l3)) = l2 /\ local3(At(p, l2, l3)) = l3
<1>1. N \in Nat /\ N > 0
  BY PanelAssumption
<1>2. /\ (p - 1) % 2 \in 0 .. 1 /\ (p - 1) \div 2 \in 0 .. 2
      /\ 2 * ((p - 1) \div 2) + ((p - 1) % 2) + 1 = p
  BY DEF Panel
<1> DEFINE p2 == (p - 1) % 2
           p3 == (p - 1) \div 2
<1>3. p2 \in 0 .. 1 /\ p3 \in 0 .. 2 /\ 2 * p3 + p2 + 1 = p
  BY <1>2
<1>4. At(p, l2, l3) = [lx2 |-> N * p2 + l2, lx3 |-> N * p3 + l3]
  BY DEF At
<1> HIDE DEF p2, p3
<1>5. /\ (N * p2 + l2) \div N = p2 /\ (N * p2 + l2) % N = l2
      /\ (N * p3 + l3) \div N = p3 /\ (N * p3 + l3) % N = l3
  BY <1>3, DivMod
<1>6. N * p2 + l2 \in 0 .. 2 * N - 1
  <2>1. CASE p2 = 0
    BY <1>1, <2>1
  <2>2. CASE p2 = 1
    BY <1>1, <2>2
  <2> QED
    BY <1>3, <2>1, <2>2
<1>7. N * p3 + l3 \in 0 .. 3 * N - 1
  <2>1. CASE p3 = 0
    BY <1>1, <2>1
  <2>2. CASE p3 = 1
    BY <1>1, <2>2
  <2>3. CASE p3 = 2
    BY <1>1, <2>3
  <2> QED
    BY <1>3, <2>1, <2>2, <2>3
<1> QED
  BY <1>3, <1>4, <1>5, <1>6, <1>7 DEF Block, FindBlockID, local2, local3

\* The indices of a block divide into a panel's and a position in it.
LEMMA Parts ==
  ASSUME NEW b \in Block
  PROVE  \E p2 \in 0 .. 1, p3 \in 0 .. 2, l2, l3 \in 0 .. N - 1 :
           b = [lx2 |-> N * p2 + l2, lx3 |-> N * p3 + l3]
<1>1. N \in Nat /\ N > 0
  BY PanelAssumption
<1>2. b.lx2 \in 0 .. 2 * N - 1 /\ b.lx3 \in 0 .. 3 * N - 1 /\ b = [lx2 |-> b.lx2, lx3 |-> b.lx3]
  BY DEF Block
<1>3. \E p2 \in 0 .. 1, l2 \in 0 .. N - 1 : b.lx2 = N * p2 + l2
  <2>1. CASE b.lx2 < N
    <3>1. b.lx2 = N * 0 + b.lx2
      BY <1>1, <1>2
    <3> QED
      BY <1>1, <1>2, <2>1, <3>1
  <2>2. CASE b.lx2 >= N
    <3>1. b.lx2 = N * 1 + (b.lx2 - N) /\ b.lx2 - N \in 0 .. N - 1
      BY <1>1, <1>2, <2>2
    <3> QED
      BY <3>1
  <2> QED
    BY <1>1, <1>2, <2>1, <2>2
<1>4. \E p3 \in 0 .. 2, l3 \in 0 .. N - 1 : b.lx3 = N * p3 + l3
  <2>1. CASE b.lx3 < N
    <3>1. b.lx3 = N * 0 + b.lx3
      BY <1>1, <1>2
    <3> QED
      BY <1>1, <1>2, <2>1, <3>1
  <2>2. CASE b.lx3 >= N /\ b.lx3 < 2 * N
    <3>1. b.lx3 = N * 1 + (b.lx3 - N) /\ b.lx3 - N \in 0 .. N - 1
      BY <1>1, <1>2, <2>2
    <3> QED
      BY <3>1
  <2>3. CASE b.lx3 >= 2 * N
    <3>1. b.lx3 = N * 2 + (b.lx3 - 2 * N) /\ b.lx3 - 2 * N \in 0 .. N - 1
      BY <1>1, <1>2, <2>3
    <3> QED
      BY <3>1
  <2> QED
    BY <1>1, <1>2, <2>1, <2>2, <2>3
<1> QED
  BY <1>2, <1>3, <1>4

\* Every block lies in a panel, at a position in it.
LEMMA AtBlock ==
  ASSUME NEW b \in Block
  PROVE  \E p \in Panel, l2, l3 \in 0 .. N - 1 : b = At(p, l2, l3)
<1>1. PICK p2 \in 0 .. 1, p3 \in 0 .. 2, l2 \in 0 .. N - 1, l3 \in 0 .. N - 1 :
        b = [lx2 |-> N * p2 + l2, lx3 |-> N * p3 + l3]
  BY Parts
<1>2. /\ 2 * p3 + p2 + 1 \in Panel /\ ((2 * p3 + p2 + 1) - 1) % 2 = p2
      /\ ((2 * p3 + p2 + 1) - 1) \div 2 = p3
  BY DEF Panel
<1> QED
  BY <1>1, <1>2 DEF At

-----------------------------------------------------------------------------
(* The edges of the panels.                                                 *)

\* The edge of panel p at side s, those of the rectangle included.
Joint(p, s) ==
  IF s \in DOMAIN Seam[p] THEN Seam[p][s]
  ELSE Crossing(p + ox2(s) + 2 * ox3(s), Opposite(s), FALSE)

\* The edges that the rectangle has in the right place.
Inner(p, s) ==
  \/ p = 1 /\ s = "down"
  \/ p = 2 /\ s \in {"up", "right"}
  \/ p = 4 /\ s \in {"left", "right"}
  \/ p = 6 /\ s = "left"

\* TransformOX has a case of its own for every edge that the rectangle has wrong.
LEMMA SeamDomain ==
  \A p \in Panel, s \in Side : s \in DOMAIN Seam[p] <=> ~ Inner(p, s)
<1>1. /\ DOMAIN Seam[1] = {"left", "up", "right"} /\ DOMAIN Seam[2] = {"left", "down"}
      /\ DOMAIN Seam[3] = Side /\ DOMAIN Seam[4] = {"up", "down"}
      /\ DOMAIN Seam[5] = Side /\ DOMAIN Seam[6] = {"up", "down", "right"}
  BY DEF Seam, Side
<1> SUFFICES ASSUME NEW p \in Panel, NEW s \in Side
             PROVE  s \in DOMAIN Seam[p] <=> ~ Inner(p, s)
  OBVIOUS
<1>2. CASE p = 1
  BY <1>1, <1>2 DEF Side, Inner
<1>3. CASE p = 2
  BY <1>1, <1>3 DEF Side, Inner
<1>4. CASE p \in {3, 5}
  BY <1>1, <1>4 DEF Side, Inner
<1>5. CASE p = 4
  BY <1>1, <1>5 DEF Side, Inner
<1>6. CASE p = 6
  BY <1>1, <1>6 DEF Side, Inner
<1> QED
  BY <1>2, <1>3, <1>4, <1>5, <1>6 DEF Panel

\* The twenty-four sides of the six panels.
LEMMA JointTable ==
  /\ Joint(1, "up") = Crossing(6, "up", TRUE)      /\ Joint(1, "down") = Crossing(2, "up", FALSE)
  /\ Joint(1, "left") = Crossing(3, "up", FALSE)   /\ Joint(1, "right") = Crossing(4, "up", TRUE)
  /\ Joint(2, "up") = Crossing(1, "down", FALSE)   /\ Joint(2, "down") = Crossing(5, "up", FALSE)
  /\ Joint(2, "left") = Crossing(3, "right", FALSE) /\ Joint(2, "right") = Crossing(4, "left", FALSE)
  /\ Joint(3, "up") = Crossing(1, "left", FALSE)   /\ Joint(3, "down") = Crossing(5, "left", TRUE)
  /\ Joint(3, "left") = Crossing(6, "right", FALSE) /\ Joint(3, "right") = Crossing(2, "left", FALSE)
  /\ Joint(4, "up") = Crossing(1, "right", TRUE)   /\ Joint(4, "down") = Crossing(5, "right", FALSE)
  /\ Joint(4, "left") = Crossing(2, "right", FALSE) /\ Joint(4, "right") = Crossing(6, "left", FALSE)
  /\ Joint(5, "up") = Crossing(2, "down", FALSE)   /\ Joint(5, "down") = Crossing(6, "down", TRUE)
  /\ Joint(5, "left") = Crossing(3, "down", TRUE)  /\ Joint(5, "right") = Crossing(4, "down", FALSE)
  /\ Joint(6, "up") = Crossing(1, "up", TRUE)      /\ Joint(6, "down") = Crossing(5, "down", TRUE)
  /\ Joint(6, "left") = Crossing(4, "right", FALSE) /\ Joint(6, "right") = Crossing(3, "left", FALSE)
<1>1. \A p \in Panel, s \in Side : ~ Inner(p, s) => Joint(p, s) = Seam[p][s]
  BY SeamDomain DEF Joint
<1>2. \A p \in Panel, s \in Side :
        Inner(p, s) => Joint(p, s) = Crossing(p + ox2(s) + 2 * ox3(s), Opposite(s), FALSE)
  BY SeamDomain DEF Joint
<1>3. /\ Seam[1].up = Crossing(6, "up", TRUE) /\ Seam[1].left = Crossing(3, "up", FALSE)
      /\ Seam[1].right = Crossing(4, "up", TRUE) /\ Seam[2].down = Crossing(5, "up", FALSE)
      /\ Seam[2].left = Crossing(3, "right", FALSE)
      /\ Seam[3].up = Crossing(1, "left", FALSE) /\ Seam[3].down = Crossing(5, "left", TRUE)
      /\ Seam[3].left = Crossing(6, "right", FALSE) /\ Seam[3].right = Crossing(2, "left", FALSE)
      /\ Seam[4].up = Crossing(1, "right", TRUE) /\ Seam[4].down = Crossing(5, "right", FALSE)
      /\ Seam[5].up = Crossing(2, "down", FALSE) /\ Seam[5].down = Crossing(6, "down", TRUE)
      /\ Seam[5].left = Crossing(3, "down", TRUE) /\ Seam[5].right = Crossing(4, "down", FALSE)
      /\ Seam[6].up = Crossing(1, "up", TRUE) /\ Seam[6].down = Crossing(5, "down", TRUE)
      /\ Seam[6].right = Crossing(3, "left", FALSE)
  BY DEF Seam
<1>4. /\ ox2("up") = -1 /\ ox3("up") = 0 /\ Opposite("up") = "down"
      /\ ox2("down") = 1 /\ ox3("down") = 0 /\ Opposite("down") = "up"
      /\ ox2("left") = 0 /\ ox3("left") = -1 /\ Opposite("left") = "right"
      /\ ox2("right") = 0 /\ ox3("right") = 1 /\ Opposite("right") = "left"
  BY DEF ox2, ox3, Opposite
<1>5. {1, 2, 3, 4, 5, 6} = Panel /\ {"up", "down", "left", "right"} = Side
  BY DEF Panel, Side
<1>6. /\ Joint(1, "down") = Crossing(2, "up", FALSE)
      /\ Joint(2, "up") = Crossing(1, "down", FALSE)
      /\ Joint(2, "right") = Crossing(4, "left", FALSE)
      /\ Joint(4, "left") = Crossing(2, "right", FALSE)
      /\ Joint(4, "right") = Crossing(6, "left", FALSE)
      /\ Joint(6, "left") = Crossing(4, "right", FALSE)
  <2>1. /\ Inner(1, "down") /\ Inner(2, "up") /\ Inner(2, "right") /\ Inner(4, "left")
        /\ Inner(4, "right") /\ Inner(6, "left")
    BY DEF Inner
  <2>2. /\ Joint(1, "down") = Crossing(1 + ox2("down") + 2 * ox3("down"), Opposite("down"), FALSE)
        /\ Joint(2, "up") = Crossing(2 + ox2("up") + 2 * ox3("up"), Opposite("up"), FALSE)
        /\ Joint(2, "right") = Crossing(2 + ox2("right") + 2 * ox3("right"), Opposite("right"), FALSE)
        /\ Joint(4, "left") = Crossing(4 + ox2("left") + 2 * ox3("left"), Opposite("left"), FALSE)
        /\ Joint(4, "right") = Crossing(4 + ox2("right") + 2 * ox3("right"), Opposite("right"), FALSE)
        /\ Joint(6, "left") = Crossing(6 + ox2("left") + 2 * ox3("left"), Opposite("left"), FALSE)
    BY <1>2, <1>5, <2>1
  <2>3. /\ 1 + ox2("down") + 2 * ox3("down") = 2 /\ 2 + ox2("up") + 2 * ox3("up") = 1
        /\ 2 + ox2("right") + 2 * ox3("right") = 4 /\ 4 + ox2("left") + 2 * ox3("left") = 2
        /\ 4 + ox2("right") + 2 * ox3("right") = 6 /\ 6 + ox2("left") + 2 * ox3("left") = 4
    BY <1>4
  <2> QED
    BY <1>4, <2>2, <2>3
<1>7. \A p \in Panel, s \in Side :
        p \in {3, 5} \/ (p \in {1, 6} /\ s \in {"up", "right"}) \/ (p = 1 /\ s = "left")
        \/ (p = 6 /\ s = "down") \/ (p = 2 /\ s \in {"left", "down"})
        \/ (p = 4 /\ s \in {"up", "down"})
        => Joint(p, s) = Seam[p][s]
  BY <1>1 DEF Inner
<1>8. /\ Joint(1, "up") = Seam[1].up /\ Joint(1, "left") = Seam[1].left
      /\ Joint(1, "right") = Seam[1].right /\ Joint(2, "down") = Seam[2].down
      /\ Joint(2, "left") = Seam[2].left
      /\ Joint(3, "up") = Seam[3].up /\ Joint(3, "down") = Seam[3].down
      /\ Joint(3, "left") = Seam[3].left /\ Joint(3, "right") = Seam[3].right
  BY <1>5, <1>7
<1>9. /\ Joint(4, "up") = Seam[4].up /\ Joint(4, "down") = Seam[4].down
      /\ Joint(5, "up") = Seam[5].up /\ Joint(5, "down") = Seam[5].down
      /\ Joint(5, "left") = Seam[5].left /\ Joint(5, "right") = Seam[5].right
      /\ Joint(6, "up") = Seam[6].up /\ Joint(6, "down") = Seam[6].down
      /\ Joint(6, "right") = Seam[6].right
  BY <1>5, <1>7
<1> QED
  BY <1>3, <1>6, <1>8, <1>9

\* Every edge leads back: TransformOX's cases come in pairs.
LEMMA JointBack ==
  ASSUME NEW p \in Panel, NEW s \in Side
  PROVE  \E q \in Panel, t \in Side, v \in BOOLEAN :
           Joint(p, s) = Crossing(q, t, v) /\ Joint(q, t) = Crossing(p, s, v)
<1>0. {1, 2, 3, 4, 5, 6} = Panel /\ {"up", "down", "left", "right"} = Side
  BY DEF Panel, Side
<1>1. CASE p = 1
  <2>1. CASE s = "up"
    <3>1. Joint(1, "up") = Crossing(6, "up", TRUE) /\ Joint(6, "up") = Crossing(1, "up", TRUE)
      BY JointTable
    <3> QED
      BY <1>0, <1>1, <2>1, <3>1
  <2>2. CASE s = "down"
    <3>1. Joint(1, "down") = Crossing(2, "up", FALSE) /\ Joint(2, "up") = Crossing(1, "down", FALSE)
      BY JointTable
    <3> QED
      BY <1>0, <1>1, <2>2, <3>1
  <2>3. CASE s = "left"
    <3>1. Joint(1, "left") = Crossing(3, "up", FALSE) /\ Joint(3, "up") = Crossing(1, "left", FALSE)
      BY JointTable
    <3> QED
      BY <1>0, <1>1, <2>3, <3>1
  <2>4. CASE s = "right"
    <3>1. Joint(1, "right") = Crossing(4, "up", TRUE) /\ Joint(4, "up") = Crossing(1, "right", TRUE)
      BY JointTable
    <3> QED
      BY <1>0, <1>1, <2>4, <3>1
  <2> QED
    BY <2>1, <2>2, <2>3, <2>4 DEF Side
<1>2. CASE p = 2
  <2>1. CASE s = "up"
    <3>1. Joint(2, "up") = Crossing(1, "down", FALSE) /\ Joint(1, "down") = Crossing(2, "up", FALSE)
      BY JointTable
    <3> QED
      BY <1>0, <1>2, <2>1, <3>1
  <2>2. CASE s = "down"
    <3>1. Joint(2, "down") = Crossing(5, "up", FALSE) /\ Joint(5, "up") = Crossing(2, "down", FALSE)
      BY JointTable
    <3> QED
      BY <1>0, <1>2, <2>2, <3>1
  <2>3. CASE s = "left"
    <3>1. Joint(2, "left") = Crossing(3, "right", FALSE) /\ Joint(3, "right") = Crossing(2, "left", FALSE)
      BY JointTable
    <3> QED
      BY <1>0, <1>2, <2>3, <3>1
  <2>4. CASE s = "right"
    <3>1. Joint(2, "right") = Crossing(4, "left", FALSE) /\ Joint(4, "left") = Crossing(2, "right", FALSE)
      BY JointTable
    <3> QED
      BY <1>0, <1>2, <2>4, <3>1
  <2> QED
    BY <2>1, <2>2, <2>3, <2>4 DEF Side
<1>3. CASE p = 3
  <2>1. CASE s = "up"
    <3>1. Joint(3, "up") = Crossing(1, "left", FALSE) /\ Joint(1, "left") = Crossing(3, "up", FALSE)
      BY JointTable
    <3> QED
      BY <1>0, <1>3, <2>1, <3>1
  <2>2. CASE s = "down"
    <3>1. Joint(3, "down") = Crossing(5, "left", TRUE) /\ Joint(5, "left") = Crossing(3, "down", TRUE)
      BY JointTable
    <3> QED
      BY <1>0, <1>3, <2>2, <3>1
  <2>3. CASE s = "left"
    <3>1. Joint(3, "left") = Crossing(6, "right", FALSE) /\ Joint(6, "right") = Crossing(3, "left", FALSE)
      BY JointTable
    <3> QED
      BY <1>0, <1>3, <2>3, <3>1
  <2>4. CASE s = "right"
    <3>1. Joint(3, "right") = Crossing(2, "left", FALSE) /\ Joint(2, "left") = Crossing(3, "right", FALSE)
      BY JointTable
    <3> QED
      BY <1>0, <1>3, <2>4, <3>1
  <2> QED
    BY <2>1, <2>2, <2>3, <2>4 DEF Side
<1>4. CASE p = 4
  <2>1. CASE s = "up"
    <3>1. Joint(4, "up") = Crossing(1, "right", TRUE) /\ Joint(1, "right") = Crossing(4, "up", TRUE)
      BY JointTable
    <3> QED
      BY <1>0, <1>4, <2>1, <3>1
  <2>2. CASE s = "down"
    <3>1. Joint(4, "down") = Crossing(5, "right", FALSE) /\ Joint(5, "right") = Crossing(4, "down", FALSE)
      BY JointTable
    <3> QED
      BY <1>0, <1>4, <2>2, <3>1
  <2>3. CASE s = "left"
    <3>1. Joint(4, "left") = Crossing(2, "right", FALSE) /\ Joint(2, "right") = Crossing(4, "left", FALSE)
      BY JointTable
    <3> QED
      BY <1>0, <1>4, <2>3, <3>1
  <2>4. CASE s = "right"
    <3>1. Joint(4, "right") = Crossing(6, "left", FALSE) /\ Joint(6, "left") = Crossing(4, "right", FALSE)
      BY JointTable
    <3> QED
      BY <1>0, <1>4, <2>4, <3>1
  <2> QED
    BY <2>1, <2>2, <2>3, <2>4 DEF Side
<1>5. CASE p = 5
  <2>1. CASE s = "up"
    <3>1. Joint(5, "up") = Crossing(2, "down", FALSE) /\ Joint(2, "down") = Crossing(5, "up", FALSE)
      BY JointTable
    <3> QED
      BY <1>0, <1>5, <2>1, <3>1
  <2>2. CASE s = "down"
    <3>1. Joint(5, "down") = Crossing(6, "down", TRUE) /\ Joint(6, "down") = Crossing(5, "down", TRUE)
      BY JointTable
    <3> QED
      BY <1>0, <1>5, <2>2, <3>1
  <2>3. CASE s = "left"
    <3>1. Joint(5, "left") = Crossing(3, "down", TRUE) /\ Joint(3, "down") = Crossing(5, "left", TRUE)
      BY JointTable
    <3> QED
      BY <1>0, <1>5, <2>3, <3>1
  <2>4. CASE s = "right"
    <3>1. Joint(5, "right") = Crossing(4, "down", FALSE) /\ Joint(4, "down") = Crossing(5, "right", FALSE)
      BY JointTable
    <3> QED
      BY <1>0, <1>5, <2>4, <3>1
  <2> QED
    BY <2>1, <2>2, <2>3, <2>4 DEF Side
<1>6. CASE p = 6
  <2>1. CASE s = "up"
    <3>1. Joint(6, "up") = Crossing(1, "up", TRUE) /\ Joint(1, "up") = Crossing(6, "up", TRUE)
      BY JointTable
    <3> QED
      BY <1>0, <1>6, <2>1, <3>1
  <2>2. CASE s = "down"
    <3>1. Joint(6, "down") = Crossing(5, "down", TRUE) /\ Joint(5, "down") = Crossing(6, "down", TRUE)
      BY JointTable
    <3> QED
      BY <1>0, <1>6, <2>2, <3>1
  <2>3. CASE s = "left"
    <3>1. Joint(6, "left") = Crossing(4, "right", FALSE) /\ Joint(4, "right") = Crossing(6, "left", FALSE)
      BY JointTable
    <3> QED
      BY <1>0, <1>6, <2>3, <3>1
  <2>4. CASE s = "right"
    <3>1. Joint(6, "right") = Crossing(3, "left", FALSE) /\ Joint(3, "left") = Crossing(6, "right", FALSE)
      BY JointTable
    <3> QED
      BY <1>0, <1>6, <2>4, <3>1
  <2> QED
    BY <2>1, <2>2, <2>3, <2>4 DEF Side
<1> QED
  BY <1>1, <1>2, <1>3, <1>4, <1>5, <1>6 DEF Panel

\* A block built at a side of a panel lies there.
LEMMA BlockAtFacts ==
  ASSUME NEW p \in Panel, NEW s \in Side, NEW a \in 0 .. N - 1
  PROVE  /\ BlockAt(p, s, a) \in Block /\ FindBlockID(BlockAt(p, s, a)) = p
         /\ OnEdge(BlockAt(p, s, a), s) /\ Along(BlockAt(p, s, a), s) = a
<1>1. N \in Nat /\ N > 0 /\ 0 \in 0 .. N - 1 /\ N - 1 \in 0 .. N - 1
  BY PanelAssumption
<1>2. CASE s = "up"
  <2>1. BlockAt(p, s, a) = At(p, 0, a)
    BY <1>2 DEF BlockAt, At
  <2> QED
    BY <1>1, <1>2, <2>1, AtFacts DEF OnEdge, Along
<1>3. CASE s = "down"
  <2>1. BlockAt(p, s, a) = At(p, N - 1, a)
    BY <1>3 DEF BlockAt, At, bound_lim
  <2> QED
    BY <1>1, <1>3, <2>1, AtFacts DEF OnEdge, Along, bound_lim
<1>4. CASE s = "left"
  <2>1. BlockAt(p, s, a) = At(p, a, 0)
    BY <1>4 DEF BlockAt, At
  <2> QED
    BY <1>1, <1>4, <2>1, AtFacts DEF OnEdge, Along
<1>5. CASE s = "right"
  <2>1. BlockAt(p, s, a) = At(p, a, N - 1)
    BY <1>5 DEF BlockAt, At, bound_lim
  <2> QED
    BY <1>1, <1>5, <2>1, AtFacts DEF OnEdge, Along, bound_lim
<1> QED
  BY <1>2, <1>3, <1>4, <1>5 DEF Side

\* Every block at an edge is built this way.
LEMMA EdgeBlock ==
  ASSUME NEW b \in Block, NEW s \in Side, OnEdge(b, s)
  PROVE  \E p \in Panel, a \in 0 .. N - 1 : b = BlockAt(p, s, a)
<1>1. PICK p \in Panel, l2 \in 0 .. N - 1, l3 \in 0 .. N - 1 : b = At(p, l2, l3)
  BY AtBlock
<1>2. local2(b) = l2 /\ local3(b) = l3
  BY <1>1, AtFacts
<1>3. CASE s = "up"
  BY <1>1, <1>2, <1>3 DEF OnEdge, BlockAt, At
<1>4. CASE s = "down"
  BY <1>1, <1>2, <1>4 DEF OnEdge, BlockAt, At
<1>5. CASE s = "left"
  BY <1>1, <1>2, <1>5 DEF OnEdge, BlockAt, At
<1>6. CASE s = "right"
  BY <1>1, <1>2, <1>6 DEF OnEdge, BlockAt, At
<1> QED
  BY <1>3, <1>4, <1>5, <1>6 DEF Side

\* Where the rectangle already has the edge, adding (ox2, ox3) finds the block.
LEMMA InnerMove ==
  ASSUME NEW p \in Panel, NEW s \in Side, NEW a \in 0 .. N - 1, Inner(p, s)
  PROVE  [lx2 |-> BlockAt(p, s, a).lx2 + ox2(s), lx3 |-> BlockAt(p, s, a).lx3 + ox3(s)]
           = BlockAt(Joint(p, s).to, Opposite(s), a)
<1>1. N \in Nat /\ N > 0 /\ a \in Nat
  BY PanelAssumption
<1>4. CASE p = 1 /\ s = "down"
  <2>1. Joint(p, s).to = 2
    <3>1. Joint(1, "down") = Crossing(2, "up", FALSE)
      BY JointTable
    <3>2. Joint(1, "down").to = 2
      BY <3>1 DEF Crossing
    <3> QED
      BY <1>4, <3>2
  <2>2. BlockAt(1, "down", a) = [lx2 |-> N * 0 + (N - 1), lx3 |-> N * 0 + a]
    BY DEF BlockAt, bound_lim
  <2>3. BlockAt(2, "up", a) = [lx2 |-> N * 1 + 0, lx3 |-> N * 0 + a]
    BY DEF BlockAt
  <2> QED
    BY <1>1, <1>4, <2>1, <2>2, <2>3 DEF ox2, ox3, Opposite
<1>5. CASE p = 2 /\ s = "up"
  <2>1. Joint(p, s).to = 1
    <3>1. Joint(2, "up") = Crossing(1, "down", FALSE)
      BY JointTable
    <3>2. Joint(2, "up").to = 1
      BY <3>1 DEF Crossing
    <3> QED
      BY <1>5, <3>2
  <2>2. BlockAt(2, "up", a) = [lx2 |-> N * 1 + 0, lx3 |-> N * 0 + a]
    BY DEF BlockAt
  <2>3. BlockAt(1, "down", a) = [lx2 |-> N * 0 + (N - 1), lx3 |-> N * 0 + a]
    BY DEF BlockAt, bound_lim
  <2> QED
    BY <1>1, <1>5, <2>1, <2>2, <2>3 DEF ox2, ox3, Opposite
<1>6. CASE p = 2 /\ s = "right"
  <2>1. Joint(p, s).to = 4
    <3>1. Joint(2, "right") = Crossing(4, "left", FALSE)
      BY JointTable
    <3>2. Joint(2, "right").to = 4
      BY <3>1 DEF Crossing
    <3> QED
      BY <1>6, <3>2
  <2>2. BlockAt(2, "right", a) = [lx2 |-> N * 1 + a, lx3 |-> N * 0 + (N - 1)]
    BY DEF BlockAt, bound_lim
  <2>3. BlockAt(4, "left", a) = [lx2 |-> N * 1 + a, lx3 |-> N * 1 + 0]
    BY DEF BlockAt
  <2> QED
    BY <1>1, <1>6, <2>1, <2>2, <2>3 DEF ox2, ox3, Opposite
<1>7. CASE p = 4 /\ s = "left"
  <2>1. Joint(p, s).to = 2
    <3>1. Joint(4, "left") = Crossing(2, "right", FALSE)
      BY JointTable
    <3>2. Joint(4, "left").to = 2
      BY <3>1 DEF Crossing
    <3> QED
      BY <1>7, <3>2
  <2>2. BlockAt(4, "left", a) = [lx2 |-> N * 1 + a, lx3 |-> N * 1 + 0]
    BY DEF BlockAt
  <2>3. BlockAt(2, "right", a) = [lx2 |-> N * 1 + a, lx3 |-> N * 0 + (N - 1)]
    BY DEF BlockAt, bound_lim
  <2> QED
    BY <1>1, <1>7, <2>1, <2>2, <2>3 DEF ox2, ox3, Opposite
<1>8. CASE p = 4 /\ s = "right"
  <2>1. Joint(p, s).to = 6
    <3>1. Joint(4, "right") = Crossing(6, "left", FALSE)
      BY JointTable
    <3>2. Joint(4, "right").to = 6
      BY <3>1 DEF Crossing
    <3> QED
      BY <1>8, <3>2
  <2>2. BlockAt(4, "right", a) = [lx2 |-> N * 1 + a, lx3 |-> N * 1 + (N - 1)]
    BY DEF BlockAt, bound_lim
  <2>3. BlockAt(6, "left", a) = [lx2 |-> N * 1 + a, lx3 |-> N * 2 + 0]
    BY DEF BlockAt
  <2> QED
    BY <1>1, <1>8, <2>1, <2>2, <2>3 DEF ox2, ox3, Opposite
<1>9. CASE p = 6 /\ s = "left"
  <2>1. Joint(p, s).to = 4
    <3>1. Joint(6, "left") = Crossing(4, "right", FALSE)
      BY JointTable
    <3>2. Joint(6, "left").to = 4
      BY <3>1 DEF Crossing
    <3> QED
      BY <1>9, <3>2
  <2>2. BlockAt(6, "left", a) = [lx2 |-> N * 1 + a, lx3 |-> N * 2 + 0]
    BY DEF BlockAt
  <2>3. BlockAt(4, "right", a) = [lx2 |-> N * 1 + a, lx3 |-> N * 1 + (N - 1)]
    BY DEF BlockAt, bound_lim
  <2> QED
    BY <1>1, <1>9, <2>1, <2>2, <2>3 DEF ox2, ox3, Opposite
<1> QED
  BY <1>4, <1>5, <1>6, <1>7, <1>8, <1>9 DEF Inner

\* The block and the side met across an edge of a panel.
LEMMA EdgeTransform ==
  ASSUME NEW p \in Panel, NEW s \in Side, NEW a \in 0 .. N - 1
  PROVE  TransformOX(BlockAt(p, s, a), s) =
           [block |-> BlockAt(Joint(p, s).to, Joint(p, s).at,
                              IF Joint(p, s).rev THEN bound_lim - a ELSE a),
            side  |-> Joint(p, s).at]
<1> DEFINE b == BlockAt(p, s, a)
<1>1. b \in Block /\ FindBlockID(b) = p /\ OnEdge(b, s) /\ Along(b, s) = a
  BY BlockAtFacts
<1>2. Special(b, s) <=> ~ Inner(p, s)
  BY <1>1, SeamDomain DEF Special
<1> HIDE DEF b
<1>3. CASE Inner(p, s)
  <2>1. TransformOX(b, s) =
          [block |-> [lx2 |-> b.lx2 + ox2(s), lx3 |-> b.lx3 + ox3(s)], side |-> Opposite(s)]
    BY <1>1, <1>2, <1>3 DEF TransformOX
  <2>2. [lx2 |-> b.lx2 + ox2(s), lx3 |-> b.lx3 + ox3(s)] = BlockAt(Joint(p, s).to, Opposite(s), a)
    BY <1>3, InnerMove DEF b
  <2>3. Joint(p, s).at = Opposite(s) /\ Joint(p, s).rev = FALSE
    <3>1. Joint(p, s) = Crossing(p + ox2(s) + 2 * ox3(s), Opposite(s), FALSE)
      BY <1>3, SeamDomain DEF Joint
    <3> QED
      BY <3>1 DEF Crossing
  <2> QED
    BY <2>1, <2>2, <2>3 DEF b
<1>4. CASE ~ Inner(p, s)
  <2>1. Joint(p, s) = Seam[p][s]
    BY <1>4, SeamDomain DEF Joint
  <2> QED
    BY <1>1, <1>2, <1>4, <2>1 DEF TransformOX, b
<1> QED
  BY <1>3, <1>4

\* The four sides.
LEMMA Moves ==
  /\ \A b : /\ OnEdge(b, "up") <=> local2(b) = 0
            /\ OnEdge(b, "down") <=> local2(b) = N - 1
            /\ OnEdge(b, "left") <=> local3(b) = 0
            /\ OnEdge(b, "right") <=> local3(b) = N - 1
  /\ ox2("up") = -1 /\ ox3("up") = 0 /\ Opposite("up") = "down"
  /\ ox2("down") = 1 /\ ox3("down") = 0 /\ Opposite("down") = "up"
  /\ ox2("left") = 0 /\ ox3("left") = -1 /\ Opposite("left") = "right"
  /\ ox2("right") = 0 /\ ox3("right") = 1 /\ Opposite("right") = "left"
BY DEF OnEdge, bound_lim, ox2, ox3, Opposite

\* Inside a panel the block met is the next one.
LEMMA InsideTransform ==
  ASSUME NEW b \in Block, NEW s \in Side, ~ OnEdge(b, s)
  PROVE  \E d \in Block :
           /\ TransformOX(b, s) = [block |-> d, side |-> Opposite(s)]
           /\ ~ OnEdge(d, Opposite(s)) /\ FindBlockID(d) = FindBlockID(b)
           /\ TransformOX(d, Opposite(s)) = [block |-> b, side |-> s]
<1>1. N \in Nat /\ N > 0
  BY PanelAssumption
<1>2. PICK p \in Panel, l2 \in 0 .. N - 1, l3 \in 0 .. N - 1 : b = At(p, l2, l3)
  BY AtBlock
<1>3. local2(b) = l2 /\ local3(b) = l3 /\ FindBlockID(b) = p
  BY <1>2, AtFacts
<1> DEFINE d == At(p, l2 + ox2(s), l3 + ox3(s))
<1>4. /\ l2 + ox2(s) \in 0 .. N - 1 /\ l3 + ox3(s) \in 0 .. N - 1
  <2>1. CASE s = "up"
    BY <1>1, <1>3, <2>1, Moves
  <2>2. CASE s = "down"
    BY <1>1, <1>3, <2>2, Moves
  <2>3. CASE s = "left"
    BY <1>1, <1>3, <2>3, Moves
  <2>4. CASE s = "right"
    BY <1>1, <1>3, <2>4, Moves
  <2> QED
    BY <2>1, <2>2, <2>3, <2>4 DEF Side
<1>5. /\ d \in Block /\ FindBlockID(d) = p
      /\ local2(d) = l2 + ox2(s) /\ local3(d) = l3 + ox3(s)
  BY <1>4, AtFacts
<1>6. /\ Opposite(s) \in Side /\ Opposite(Opposite(s)) = s
      /\ ox2(Opposite(s)) = - ox2(s) /\ ox3(Opposite(s)) = - ox3(s)
      /\ ox2(s) \in Int /\ ox3(s) \in Int
  BY DEF Opposite, Side, ox2, ox3
<1>7. ~ OnEdge(d, Opposite(s))
  <2> HIDE DEF d
  <2>1. CASE s = "up"
    BY <1>1, <1>5, <2>1, Moves
  <2>2. CASE s = "down"
    BY <1>1, <1>5, <2>2, Moves
  <2>3. CASE s = "left"
    BY <1>1, <1>5, <2>3, Moves
  <2>4. CASE s = "right"
    BY <1>1, <1>5, <2>4, Moves
  <2> QED
    BY <2>1, <2>2, <2>3, <2>4 DEF Side
<1>8. d = [lx2 |-> b.lx2 + ox2(s), lx3 |-> b.lx3 + ox3(s)]
  <2>1. /\ b.lx2 = N * ((p - 1) % 2) + l2 /\ b.lx3 = N * ((p - 1) \div 2) + l3
        /\ d = [lx2 |-> N * ((p - 1) % 2) + (l2 + ox2(s)), lx3 |-> N * ((p - 1) \div 2) + (l3 + ox3(s))]
    BY <1>2 DEF At
  <2>2. (p - 1) % 2 \in Nat /\ (p - 1) \div 2 \in Nat
    BY DEF Panel
  <2>3. N * ((p - 1) % 2) \in Int /\ N * ((p - 1) \div 2) \in Int
    BY <1>1, <2>2
  <2> HIDE DEF d
  <2> QED
    BY <1>6, <2>1, <2>3
<1>9. b = [lx2 |-> d.lx2 + ox2(Opposite(s)), lx3 |-> d.lx3 + ox3(Opposite(s))]
  <2>1. b.lx2 \in Int /\ b.lx3 \in Int /\ b = [lx2 |-> b.lx2, lx3 |-> b.lx3]
    BY <1>1 DEF Block
  <2> HIDE DEF d
  <2> QED
    BY <1>6, <1>8, <2>1
<1>10. TransformOX(b, s) = [block |-> d, side |-> Opposite(s)]
  <2> HIDE DEF d
  <2> QED
    BY <1>8 DEF TransformOX, Special
<1>11. TransformOX(d, Opposite(s)) = [block |-> b, side |-> s]
  <2> HIDE DEF d
  <2> QED
    BY <1>5, <1>6, <1>7, <1>9 DEF TransformOX, Special
<1> QED
  BY <1>3, <1>5, <1>7, <1>10, <1>11

\* Two sides that meet are each other's neighbours, for every number of blocks.
THEOREM MeetingSides ==
  \A b \in Block, s \in Side :
    /\ Neighbor(b, s) \in Block /\ tox(b, s) \in Side
    /\ TransformOX(Neighbor(b, s), tox(b, s)) = [block |-> b, side |-> s]
<1> SUFFICES ASSUME NEW b \in Block, NEW s \in Side
             PROVE  /\ Neighbor(b, s) \in Block /\ tox(b, s) \in Side
                    /\ TransformOX(Neighbor(b, s), tox(b, s)) = [block |-> b, side |-> s]
  OBVIOUS
<1>1. CASE OnEdge(b, s)
  <2>1. PICK p \in Panel, a \in 0 .. N - 1 : b = BlockAt(p, s, a)
    BY <1>1, EdgeBlock
  <2>2. PICK q \in Panel, t \in Side, v \in BOOLEAN :
          Joint(p, s) = Crossing(q, t, v) /\ Joint(q, t) = Crossing(p, s, v)
    BY JointBack
  <2> DEFINE e == IF v THEN bound_lim - a ELSE a
  <2>3. e \in 0 .. N - 1 /\ (IF v THEN bound_lim - e ELSE e) = a
    BY PanelAssumption DEF bound_lim
  <2>4. /\ Joint(p, s).to = q /\ Joint(p, s).at = t /\ Joint(p, s).rev = v
        /\ Joint(q, t).to = p /\ Joint(q, t).at = s /\ Joint(q, t).rev = v
    BY <2>2 DEF Crossing
  <2>5. TransformOX(b, s) = [block |-> BlockAt(q, t, e), side |-> t]
    BY <2>1, <2>4, EdgeTransform
  <2>6. BlockAt(q, t, e) \in Block
    BY <2>3, BlockAtFacts
  <2>7. TransformOX(BlockAt(q, t, e), t)
          = [block |-> BlockAt(p, s, IF v THEN bound_lim - e ELSE e), side |-> s]
    <3> HIDE DEF e
    <3> QED
      BY <2>3, <2>4, EdgeTransform
  <2> QED
    BY <2>1, <2>3, <2>5, <2>6, <2>7 DEF Neighbor, tox
<1>2. CASE ~ OnEdge(b, s)
  <2>1. Opposite(s) \in Side
    BY DEF Opposite, Side
  <2> QED
    BY <1>2, <2>1, InsideTransform DEF Neighbor, tox
<1> QED
  BY <1>1, <1>2

-----------------------------------------------------------------------------
(* The sphere.                                                              *)

\* The point x along side s of a panel.
Border(s, x) ==
  CASE s = "up"   -> <<-Half, x>>
    [] s = "down" -> <<Half, x>>
    [] s = "left" -> <<x, -Half>>
    [] OTHER      -> <<x, Half>>

\* The two panels agree on where on the sphere a point of their edge is.
SameDirection(p, s, q, t, v) ==
  \A x \in Int : Direction(q, Border(t, x)) = Direction(p, Border(s, IF v THEN - x ELSE x))

\* A panel edge is at the same place of the sphere in both panels, the cells
\* counted backwards where TransformOX counts the blocks backwards.
LEMMA Directions ==
  /\ SameDirection(1, "up", 6, "up", TRUE)
  /\ SameDirection(1, "down", 2, "up", FALSE)
  /\ SameDirection(1, "left", 3, "up", FALSE)
  /\ SameDirection(1, "right", 4, "up", TRUE)
  /\ SameDirection(2, "up", 1, "down", FALSE)
  /\ SameDirection(2, "down", 5, "up", FALSE)
  /\ SameDirection(2, "left", 3, "right", FALSE)
  /\ SameDirection(2, "right", 4, "left", FALSE)
  /\ SameDirection(3, "up", 1, "left", FALSE)
  /\ SameDirection(3, "down", 5, "left", TRUE)
  /\ SameDirection(3, "left", 6, "right", FALSE)
  /\ SameDirection(3, "right", 2, "left", FALSE)
  /\ SameDirection(4, "up", 1, "right", TRUE)
  /\ SameDirection(4, "down", 5, "right", FALSE)
  /\ SameDirection(4, "left", 2, "right", FALSE)
  /\ SameDirection(4, "right", 6, "left", FALSE)
  /\ SameDirection(5, "up", 2, "down", FALSE)
  /\ SameDirection(5, "down", 6, "down", TRUE)
  /\ SameDirection(5, "left", 3, "down", TRUE)
  /\ SameDirection(5, "right", 4, "down", FALSE)
  /\ SameDirection(6, "up", 1, "up", TRUE)
  /\ SameDirection(6, "down", 5, "down", TRUE)
  /\ SameDirection(6, "left", 4, "right", FALSE)
  /\ SameDirection(6, "right", 3, "left", FALSE)
<1>0. Half \in Int
  BY PanelAssumption DEF Half
<1>1. /\ SameDirection(1, "up", 6, "up", TRUE)
      /\ SameDirection(1, "down", 2, "up", FALSE)
      /\ SameDirection(1, "left", 3, "up", FALSE)
      /\ SameDirection(1, "right", 4, "up", TRUE)
  BY <1>0 DEF SameDirection, Direction, Border
<1>2. /\ SameDirection(2, "up", 1, "down", FALSE)
      /\ SameDirection(2, "down", 5, "up", FALSE)
      /\ SameDirection(2, "left", 3, "right", FALSE)
      /\ SameDirection(2, "right", 4, "left", FALSE)
  BY <1>0 DEF SameDirection, Direction, Border
<1>3. /\ SameDirection(3, "up", 1, "left", FALSE)
      /\ SameDirection(3, "down", 5, "left", TRUE)
      /\ SameDirection(3, "left", 6, "right", FALSE)
      /\ SameDirection(3, "right", 2, "left", FALSE)
  BY <1>0 DEF SameDirection, Direction, Border
<1>4. /\ SameDirection(4, "up", 1, "right", TRUE)
      /\ SameDirection(4, "down", 5, "right", FALSE)
      /\ SameDirection(4, "left", 2, "right", FALSE)
      /\ SameDirection(4, "right", 6, "left", FALSE)
  BY <1>0 DEF SameDirection, Direction, Border
<1>5. /\ SameDirection(5, "up", 2, "down", FALSE)
      /\ SameDirection(5, "down", 6, "down", TRUE)
      /\ SameDirection(5, "left", 3, "down", TRUE)
      /\ SameDirection(5, "right", 4, "down", FALSE)
  BY <1>0 DEF SameDirection, Direction, Border
<1>6. /\ SameDirection(6, "up", 1, "up", TRUE)
      /\ SameDirection(6, "down", 5, "down", TRUE)
      /\ SameDirection(6, "left", 4, "right", FALSE)
      /\ SameDirection(6, "right", 3, "left", FALSE)
  BY <1>0 DEF SameDirection, Direction, Border
<1> QED
  BY <1>1, <1>2, <1>3, <1>4, <1>5, <1>6

\* What a flux exchange across side s of panel p rests on: it meets another
\* panel, the two agree on the edge, and dinv says how the cells run.
Glued(p, s) ==
  LET j == Joint(p, s)
  IN /\ j.to # p /\ SameDirection(p, s, j.to, j.at, j.rev)
     /\ dinv[p][Number(s) + 1] = 1 <=> j.rev

\* It does on every side of every panel.
LEMMA GluedSides ==
  \A p \in Panel, s \in Side : Glued(p, s)
<1> SUFFICES ASSUME NEW p \in Panel, NEW s \in Side PROVE Glued(p, s)
  OBVIOUS
<1>0. /\ Number("up") + 1 = 1 /\ Number("down") + 1 = 2
      /\ Number("left") + 1 = 3 /\ Number("right") + 1 = 4
  BY DEF Number
<1>1. CASE p = 1
  <2>1. dinv[1] = <<1, 0, 0, 1>>
    BY DEF dinv
  <2>2. /\ dinv[1][1] = 1 /\ dinv[1][2] = 0
        /\ dinv[1][3] = 0 /\ dinv[1][4] = 1
    BY <2>1
  <2>3. CASE s = "up"
    <3>1. Joint(p, s) = Crossing(6, "up", TRUE)
      BY <1>1, <2>3, JointTable
    <3>2. Joint(p, s).to = 6 /\ Joint(p, s).at = "up" /\ Joint(p, s).rev = TRUE
      BY <3>1 DEF Crossing
    <3>3. SameDirection(p, s, 6, "up", TRUE)
      BY <1>1, <2>3, Directions
    <3>4. SameDirection(p, s, Joint(p, s).to, Joint(p, s).at, Joint(p, s).rev)
      BY <3>2, <3>3, Zenon
    <3>5. dinv[p][Number(s) + 1] = 1 <=> Joint(p, s).rev
      BY <1>0, <1>1, <2>2, <2>3, <3>2
    <3> QED
      BY <1>1, <3>2, <3>4, <3>5 DEF Glued
  <2>4. CASE s = "down"
    <3>1. Joint(p, s) = Crossing(2, "up", FALSE)
      BY <1>1, <2>4, JointTable
    <3>2. Joint(p, s).to = 2 /\ Joint(p, s).at = "up" /\ Joint(p, s).rev = FALSE
      BY <3>1 DEF Crossing
    <3>3. SameDirection(p, s, 2, "up", FALSE)
      BY <1>1, <2>4, Directions
    <3>4. SameDirection(p, s, Joint(p, s).to, Joint(p, s).at, Joint(p, s).rev)
      BY <3>2, <3>3, Zenon
    <3>5. dinv[p][Number(s) + 1] = 1 <=> Joint(p, s).rev
      BY <1>0, <1>1, <2>2, <2>4, <3>2
    <3> QED
      BY <1>1, <3>2, <3>4, <3>5 DEF Glued
  <2>5. CASE s = "left"
    <3>1. Joint(p, s) = Crossing(3, "up", FALSE)
      BY <1>1, <2>5, JointTable
    <3>2. Joint(p, s).to = 3 /\ Joint(p, s).at = "up" /\ Joint(p, s).rev = FALSE
      BY <3>1 DEF Crossing
    <3>3. SameDirection(p, s, 3, "up", FALSE)
      BY <1>1, <2>5, Directions
    <3>4. SameDirection(p, s, Joint(p, s).to, Joint(p, s).at, Joint(p, s).rev)
      BY <3>2, <3>3, Zenon
    <3>5. dinv[p][Number(s) + 1] = 1 <=> Joint(p, s).rev
      BY <1>0, <1>1, <2>2, <2>5, <3>2
    <3> QED
      BY <1>1, <3>2, <3>4, <3>5 DEF Glued
  <2>6. CASE s = "right"
    <3>1. Joint(p, s) = Crossing(4, "up", TRUE)
      BY <1>1, <2>6, JointTable
    <3>2. Joint(p, s).to = 4 /\ Joint(p, s).at = "up" /\ Joint(p, s).rev = TRUE
      BY <3>1 DEF Crossing
    <3>3. SameDirection(p, s, 4, "up", TRUE)
      BY <1>1, <2>6, Directions
    <3>4. SameDirection(p, s, Joint(p, s).to, Joint(p, s).at, Joint(p, s).rev)
      BY <3>2, <3>3, Zenon
    <3>5. dinv[p][Number(s) + 1] = 1 <=> Joint(p, s).rev
      BY <1>0, <1>1, <2>2, <2>6, <3>2
    <3> QED
      BY <1>1, <3>2, <3>4, <3>5 DEF Glued
  <2> QED
    BY <2>3, <2>4, <2>5, <2>6 DEF Side
<1>2. CASE p = 2
  <2>1. dinv[2] = <<0, 0, 0, 0>>
    BY DEF dinv
  <2>2. /\ dinv[2][1] = 0 /\ dinv[2][2] = 0
        /\ dinv[2][3] = 0 /\ dinv[2][4] = 0
    BY <2>1
  <2>3. CASE s = "up"
    <3>1. Joint(p, s) = Crossing(1, "down", FALSE)
      BY <1>2, <2>3, JointTable
    <3>2. Joint(p, s).to = 1 /\ Joint(p, s).at = "down" /\ Joint(p, s).rev = FALSE
      BY <3>1 DEF Crossing
    <3>3. SameDirection(p, s, 1, "down", FALSE)
      BY <1>2, <2>3, Directions
    <3>4. SameDirection(p, s, Joint(p, s).to, Joint(p, s).at, Joint(p, s).rev)
      BY <3>2, <3>3, Zenon
    <3>5. dinv[p][Number(s) + 1] = 1 <=> Joint(p, s).rev
      BY <1>0, <1>2, <2>2, <2>3, <3>2
    <3> QED
      BY <1>2, <3>2, <3>4, <3>5 DEF Glued
  <2>4. CASE s = "down"
    <3>1. Joint(p, s) = Crossing(5, "up", FALSE)
      BY <1>2, <2>4, JointTable
    <3>2. Joint(p, s).to = 5 /\ Joint(p, s).at = "up" /\ Joint(p, s).rev = FALSE
      BY <3>1 DEF Crossing
    <3>3. SameDirection(p, s, 5, "up", FALSE)
      BY <1>2, <2>4, Directions
    <3>4. SameDirection(p, s, Joint(p, s).to, Joint(p, s).at, Joint(p, s).rev)
      BY <3>2, <3>3, Zenon
    <3>5. dinv[p][Number(s) + 1] = 1 <=> Joint(p, s).rev
      BY <1>0, <1>2, <2>2, <2>4, <3>2
    <3> QED
      BY <1>2, <3>2, <3>4, <3>5 DEF Glued
  <2>5. CASE s = "left"
    <3>1. Joint(p, s) = Crossing(3, "right", FALSE)
      BY <1>2, <2>5, JointTable
    <3>2. Joint(p, s).to = 3 /\ Joint(p, s).at = "right" /\ Joint(p, s).rev = FALSE
      BY <3>1 DEF Crossing
    <3>3. SameDirection(p, s, 3, "right", FALSE)
      BY <1>2, <2>5, Directions
    <3>4. SameDirection(p, s, Joint(p, s).to, Joint(p, s).at, Joint(p, s).rev)
      BY <3>2, <3>3, Zenon
    <3>5. dinv[p][Number(s) + 1] = 1 <=> Joint(p, s).rev
      BY <1>0, <1>2, <2>2, <2>5, <3>2
    <3> QED
      BY <1>2, <3>2, <3>4, <3>5 DEF Glued
  <2>6. CASE s = "right"
    <3>1. Joint(p, s) = Crossing(4, "left", FALSE)
      BY <1>2, <2>6, JointTable
    <3>2. Joint(p, s).to = 4 /\ Joint(p, s).at = "left" /\ Joint(p, s).rev = FALSE
      BY <3>1 DEF Crossing
    <3>3. SameDirection(p, s, 4, "left", FALSE)
      BY <1>2, <2>6, Directions
    <3>4. SameDirection(p, s, Joint(p, s).to, Joint(p, s).at, Joint(p, s).rev)
      BY <3>2, <3>3, Zenon
    <3>5. dinv[p][Number(s) + 1] = 1 <=> Joint(p, s).rev
      BY <1>0, <1>2, <2>2, <2>6, <3>2
    <3> QED
      BY <1>2, <3>2, <3>4, <3>5 DEF Glued
  <2> QED
    BY <2>3, <2>4, <2>5, <2>6 DEF Side
<1>3. CASE p = 3
  <2>1. dinv[3] = <<0, 1, 0, 0>>
    BY DEF dinv
  <2>2. /\ dinv[3][1] = 0 /\ dinv[3][2] = 1
        /\ dinv[3][3] = 0 /\ dinv[3][4] = 0
    BY <2>1
  <2>3. CASE s = "up"
    <3>1. Joint(p, s) = Crossing(1, "left", FALSE)
      BY <1>3, <2>3, JointTable
    <3>2. Joint(p, s).to = 1 /\ Joint(p, s).at = "left" /\ Joint(p, s).rev = FALSE
      BY <3>1 DEF Crossing
    <3>3. SameDirection(p, s, 1, "left", FALSE)
      BY <1>3, <2>3, Directions
    <3>4. SameDirection(p, s, Joint(p, s).to, Joint(p, s).at, Joint(p, s).rev)
      BY <3>2, <3>3, Zenon
    <3>5. dinv[p][Number(s) + 1] = 1 <=> Joint(p, s).rev
      BY <1>0, <1>3, <2>2, <2>3, <3>2
    <3> QED
      BY <1>3, <3>2, <3>4, <3>5 DEF Glued
  <2>4. CASE s = "down"
    <3>1. Joint(p, s) = Crossing(5, "left", TRUE)
      BY <1>3, <2>4, JointTable
    <3>2. Joint(p, s).to = 5 /\ Joint(p, s).at = "left" /\ Joint(p, s).rev = TRUE
      BY <3>1 DEF Crossing
    <3>3. SameDirection(p, s, 5, "left", TRUE)
      BY <1>3, <2>4, Directions
    <3>4. SameDirection(p, s, Joint(p, s).to, Joint(p, s).at, Joint(p, s).rev)
      BY <3>2, <3>3, Zenon
    <3>5. dinv[p][Number(s) + 1] = 1 <=> Joint(p, s).rev
      BY <1>0, <1>3, <2>2, <2>4, <3>2
    <3> QED
      BY <1>3, <3>2, <3>4, <3>5 DEF Glued
  <2>5. CASE s = "left"
    <3>1. Joint(p, s) = Crossing(6, "right", FALSE)
      BY <1>3, <2>5, JointTable
    <3>2. Joint(p, s).to = 6 /\ Joint(p, s).at = "right" /\ Joint(p, s).rev = FALSE
      BY <3>1 DEF Crossing
    <3>3. SameDirection(p, s, 6, "right", FALSE)
      BY <1>3, <2>5, Directions
    <3>4. SameDirection(p, s, Joint(p, s).to, Joint(p, s).at, Joint(p, s).rev)
      BY <3>2, <3>3, Zenon
    <3>5. dinv[p][Number(s) + 1] = 1 <=> Joint(p, s).rev
      BY <1>0, <1>3, <2>2, <2>5, <3>2
    <3> QED
      BY <1>3, <3>2, <3>4, <3>5 DEF Glued
  <2>6. CASE s = "right"
    <3>1. Joint(p, s) = Crossing(2, "left", FALSE)
      BY <1>3, <2>6, JointTable
    <3>2. Joint(p, s).to = 2 /\ Joint(p, s).at = "left" /\ Joint(p, s).rev = FALSE
      BY <3>1 DEF Crossing
    <3>3. SameDirection(p, s, 2, "left", FALSE)
      BY <1>3, <2>6, Directions
    <3>4. SameDirection(p, s, Joint(p, s).to, Joint(p, s).at, Joint(p, s).rev)
      BY <3>2, <3>3, Zenon
    <3>5. dinv[p][Number(s) + 1] = 1 <=> Joint(p, s).rev
      BY <1>0, <1>3, <2>2, <2>6, <3>2
    <3> QED
      BY <1>3, <3>2, <3>4, <3>5 DEF Glued
  <2> QED
    BY <2>3, <2>4, <2>5, <2>6 DEF Side
<1>4. CASE p = 4
  <2>1. dinv[4] = <<1, 0, 0, 0>>
    BY DEF dinv
  <2>2. /\ dinv[4][1] = 1 /\ dinv[4][2] = 0
        /\ dinv[4][3] = 0 /\ dinv[4][4] = 0
    BY <2>1
  <2>3. CASE s = "up"
    <3>1. Joint(p, s) = Crossing(1, "right", TRUE)
      BY <1>4, <2>3, JointTable
    <3>2. Joint(p, s).to = 1 /\ Joint(p, s).at = "right" /\ Joint(p, s).rev = TRUE
      BY <3>1 DEF Crossing
    <3>3. SameDirection(p, s, 1, "right", TRUE)
      BY <1>4, <2>3, Directions
    <3>4. SameDirection(p, s, Joint(p, s).to, Joint(p, s).at, Joint(p, s).rev)
      BY <3>2, <3>3, Zenon
    <3>5. dinv[p][Number(s) + 1] = 1 <=> Joint(p, s).rev
      BY <1>0, <1>4, <2>2, <2>3, <3>2
    <3> QED
      BY <1>4, <3>2, <3>4, <3>5 DEF Glued
  <2>4. CASE s = "down"
    <3>1. Joint(p, s) = Crossing(5, "right", FALSE)
      BY <1>4, <2>4, JointTable
    <3>2. Joint(p, s).to = 5 /\ Joint(p, s).at = "right" /\ Joint(p, s).rev = FALSE
      BY <3>1 DEF Crossing
    <3>3. SameDirection(p, s, 5, "right", FALSE)
      BY <1>4, <2>4, Directions
    <3>4. SameDirection(p, s, Joint(p, s).to, Joint(p, s).at, Joint(p, s).rev)
      BY <3>2, <3>3, Zenon
    <3>5. dinv[p][Number(s) + 1] = 1 <=> Joint(p, s).rev
      BY <1>0, <1>4, <2>2, <2>4, <3>2
    <3> QED
      BY <1>4, <3>2, <3>4, <3>5 DEF Glued
  <2>5. CASE s = "left"
    <3>1. Joint(p, s) = Crossing(2, "right", FALSE)
      BY <1>4, <2>5, JointTable
    <3>2. Joint(p, s).to = 2 /\ Joint(p, s).at = "right" /\ Joint(p, s).rev = FALSE
      BY <3>1 DEF Crossing
    <3>3. SameDirection(p, s, 2, "right", FALSE)
      BY <1>4, <2>5, Directions
    <3>4. SameDirection(p, s, Joint(p, s).to, Joint(p, s).at, Joint(p, s).rev)
      BY <3>2, <3>3, Zenon
    <3>5. dinv[p][Number(s) + 1] = 1 <=> Joint(p, s).rev
      BY <1>0, <1>4, <2>2, <2>5, <3>2
    <3> QED
      BY <1>4, <3>2, <3>4, <3>5 DEF Glued
  <2>6. CASE s = "right"
    <3>1. Joint(p, s) = Crossing(6, "left", FALSE)
      BY <1>4, <2>6, JointTable
    <3>2. Joint(p, s).to = 6 /\ Joint(p, s).at = "left" /\ Joint(p, s).rev = FALSE
      BY <3>1 DEF Crossing
    <3>3. SameDirection(p, s, 6, "left", FALSE)
      BY <1>4, <2>6, Directions
    <3>4. SameDirection(p, s, Joint(p, s).to, Joint(p, s).at, Joint(p, s).rev)
      BY <3>2, <3>3, Zenon
    <3>5. dinv[p][Number(s) + 1] = 1 <=> Joint(p, s).rev
      BY <1>0, <1>4, <2>2, <2>6, <3>2
    <3> QED
      BY <1>4, <3>2, <3>4, <3>5 DEF Glued
  <2> QED
    BY <2>3, <2>4, <2>5, <2>6 DEF Side
<1>5. CASE p = 5
  <2>1. dinv[5] = <<0, 1, 1, 0>>
    BY DEF dinv
  <2>2. /\ dinv[5][1] = 0 /\ dinv[5][2] = 1
        /\ dinv[5][3] = 1 /\ dinv[5][4] = 0
    BY <2>1
  <2>3. CASE s = "up"
    <3>1. Joint(p, s) = Crossing(2, "down", FALSE)
      BY <1>5, <2>3, JointTable
    <3>2. Joint(p, s).to = 2 /\ Joint(p, s).at = "down" /\ Joint(p, s).rev = FALSE
      BY <3>1 DEF Crossing
    <3>3. SameDirection(p, s, 2, "down", FALSE)
      BY <1>5, <2>3, Directions
    <3>4. SameDirection(p, s, Joint(p, s).to, Joint(p, s).at, Joint(p, s).rev)
      BY <3>2, <3>3, Zenon
    <3>5. dinv[p][Number(s) + 1] = 1 <=> Joint(p, s).rev
      BY <1>0, <1>5, <2>2, <2>3, <3>2
    <3> QED
      BY <1>5, <3>2, <3>4, <3>5 DEF Glued
  <2>4. CASE s = "down"
    <3>1. Joint(p, s) = Crossing(6, "down", TRUE)
      BY <1>5, <2>4, JointTable
    <3>2. Joint(p, s).to = 6 /\ Joint(p, s).at = "down" /\ Joint(p, s).rev = TRUE
      BY <3>1 DEF Crossing
    <3>3. SameDirection(p, s, 6, "down", TRUE)
      BY <1>5, <2>4, Directions
    <3>4. SameDirection(p, s, Joint(p, s).to, Joint(p, s).at, Joint(p, s).rev)
      BY <3>2, <3>3, Zenon
    <3>5. dinv[p][Number(s) + 1] = 1 <=> Joint(p, s).rev
      BY <1>0, <1>5, <2>2, <2>4, <3>2
    <3> QED
      BY <1>5, <3>2, <3>4, <3>5 DEF Glued
  <2>5. CASE s = "left"
    <3>1. Joint(p, s) = Crossing(3, "down", TRUE)
      BY <1>5, <2>5, JointTable
    <3>2. Joint(p, s).to = 3 /\ Joint(p, s).at = "down" /\ Joint(p, s).rev = TRUE
      BY <3>1 DEF Crossing
    <3>3. SameDirection(p, s, 3, "down", TRUE)
      BY <1>5, <2>5, Directions
    <3>4. SameDirection(p, s, Joint(p, s).to, Joint(p, s).at, Joint(p, s).rev)
      BY <3>2, <3>3, Zenon
    <3>5. dinv[p][Number(s) + 1] = 1 <=> Joint(p, s).rev
      BY <1>0, <1>5, <2>2, <2>5, <3>2
    <3> QED
      BY <1>5, <3>2, <3>4, <3>5 DEF Glued
  <2>6. CASE s = "right"
    <3>1. Joint(p, s) = Crossing(4, "down", FALSE)
      BY <1>5, <2>6, JointTable
    <3>2. Joint(p, s).to = 4 /\ Joint(p, s).at = "down" /\ Joint(p, s).rev = FALSE
      BY <3>1 DEF Crossing
    <3>3. SameDirection(p, s, 4, "down", FALSE)
      BY <1>5, <2>6, Directions
    <3>4. SameDirection(p, s, Joint(p, s).to, Joint(p, s).at, Joint(p, s).rev)
      BY <3>2, <3>3, Zenon
    <3>5. dinv[p][Number(s) + 1] = 1 <=> Joint(p, s).rev
      BY <1>0, <1>5, <2>2, <2>6, <3>2
    <3> QED
      BY <1>5, <3>2, <3>4, <3>5 DEF Glued
  <2> QED
    BY <2>3, <2>4, <2>5, <2>6 DEF Side
<1>6. CASE p = 6
  <2>1. dinv[6] = <<1, 1, 0, 0>>
    BY DEF dinv
  <2>2. /\ dinv[6][1] = 1 /\ dinv[6][2] = 1
        /\ dinv[6][3] = 0 /\ dinv[6][4] = 0
    BY <2>1
  <2>3. CASE s = "up"
    <3>1. Joint(p, s) = Crossing(1, "up", TRUE)
      BY <1>6, <2>3, JointTable
    <3>2. Joint(p, s).to = 1 /\ Joint(p, s).at = "up" /\ Joint(p, s).rev = TRUE
      BY <3>1 DEF Crossing
    <3>3. SameDirection(p, s, 1, "up", TRUE)
      BY <1>6, <2>3, Directions
    <3>4. SameDirection(p, s, Joint(p, s).to, Joint(p, s).at, Joint(p, s).rev)
      BY <3>2, <3>3, Zenon
    <3>5. dinv[p][Number(s) + 1] = 1 <=> Joint(p, s).rev
      BY <1>0, <1>6, <2>2, <2>3, <3>2
    <3> QED
      BY <1>6, <3>2, <3>4, <3>5 DEF Glued
  <2>4. CASE s = "down"
    <3>1. Joint(p, s) = Crossing(5, "down", TRUE)
      BY <1>6, <2>4, JointTable
    <3>2. Joint(p, s).to = 5 /\ Joint(p, s).at = "down" /\ Joint(p, s).rev = TRUE
      BY <3>1 DEF Crossing
    <3>3. SameDirection(p, s, 5, "down", TRUE)
      BY <1>6, <2>4, Directions
    <3>4. SameDirection(p, s, Joint(p, s).to, Joint(p, s).at, Joint(p, s).rev)
      BY <3>2, <3>3, Zenon
    <3>5. dinv[p][Number(s) + 1] = 1 <=> Joint(p, s).rev
      BY <1>0, <1>6, <2>2, <2>4, <3>2
    <3> QED
      BY <1>6, <3>2, <3>4, <3>5 DEF Glued
  <2>5. CASE s = "left"
    <3>1. Joint(p, s) = Crossing(4, "right", FALSE)
      BY <1>6, <2>5, JointTable
    <3>2. Joint(p, s).to = 4 /\ Joint(p, s).at = "right" /\ Joint(p, s).rev = FALSE
      BY <3>1 DEF Crossing
    <3>3. SameDirection(p, s, 4, "right", FALSE)
      BY <1>6, <2>5, Directions
    <3>4. SameDirection(p, s, Joint(p, s).to, Joint(p, s).at, Joint(p, s).rev)
      BY <3>2, <3>3, Zenon
    <3>5. dinv[p][Number(s) + 1] = 1 <=> Joint(p, s).rev
      BY <1>0, <1>6, <2>2, <2>5, <3>2
    <3> QED
      BY <1>6, <3>2, <3>4, <3>5 DEF Glued
  <2>6. CASE s = "right"
    <3>1. Joint(p, s) = Crossing(3, "left", FALSE)
      BY <1>6, <2>6, JointTable
    <3>2. Joint(p, s).to = 3 /\ Joint(p, s).at = "left" /\ Joint(p, s).rev = FALSE
      BY <3>1 DEF Crossing
    <3>3. SameDirection(p, s, 3, "left", FALSE)
      BY <1>6, <2>6, Directions
    <3>4. SameDirection(p, s, Joint(p, s).to, Joint(p, s).at, Joint(p, s).rev)
      BY <3>2, <3>3, Zenon
    <3>5. dinv[p][Number(s) + 1] = 1 <=> Joint(p, s).rev
      BY <1>0, <1>6, <2>2, <2>6, <3>2
    <3> QED
      BY <1>6, <3>2, <3>4, <3>5 DEF Glued
  <2> QED
    BY <2>3, <2>4, <2>5, <2>6 DEF Side
<1> QED
  BY <1>1, <1>2, <1>3, <1>4, <1>5, <1>6 DEF Panel

\* A panel meets another one at one side only.
LEMMA OneMeeting ==
  ASSUME NEW p \in Panel, NEW s \in Side, NEW t \in Side, Joint(p, s).to = Joint(p, t).to
  PROVE  s = t
<1>1. CASE p = 1
  <2>1. /\ Joint(1, "up").to = 6 /\ Joint(1, "down").to = 2
        /\ Joint(1, "left").to = 3 /\ Joint(1, "right").to = 4
    BY JointTable DEF Crossing
  <2> QED
    BY <1>1, <2>1 DEF Side
<1>2. CASE p = 2
  <2>1. /\ Joint(2, "up").to = 1 /\ Joint(2, "down").to = 5
        /\ Joint(2, "left").to = 3 /\ Joint(2, "right").to = 4
    BY JointTable DEF Crossing
  <2> QED
    BY <1>2, <2>1 DEF Side
<1>3. CASE p = 3
  <2>1. /\ Joint(3, "up").to = 1 /\ Joint(3, "down").to = 5
        /\ Joint(3, "left").to = 6 /\ Joint(3, "right").to = 2
    BY JointTable DEF Crossing
  <2> QED
    BY <1>3, <2>1 DEF Side
<1>4. CASE p = 4
  <2>1. /\ Joint(4, "up").to = 1 /\ Joint(4, "down").to = 5
        /\ Joint(4, "left").to = 2 /\ Joint(4, "right").to = 6
    BY JointTable DEF Crossing
  <2> QED
    BY <1>4, <2>1 DEF Side
<1>5. CASE p = 5
  <2>1. /\ Joint(5, "up").to = 2 /\ Joint(5, "down").to = 6
        /\ Joint(5, "left").to = 3 /\ Joint(5, "right").to = 4
    BY JointTable DEF Crossing
  <2> QED
    BY <1>5, <2>1 DEF Side
<1>6. CASE p = 6
  <2>1. /\ Joint(6, "up").to = 1 /\ Joint(6, "down").to = 5
        /\ Joint(6, "left").to = 4 /\ Joint(6, "right").to = 3
    BY JointTable DEF Crossing
  <2> QED
    BY <1>6, <2>1 DEF Side
<1> QED
  BY <1>1, <1>2, <1>3, <1>4, <1>5, <1>6 DEF Panel

\* Along a side, FacePoint is the point at the centre of the cell.
LEMMA FaceAtBorder ==
  ASSUME NEW p \in Panel, NEW s \in Side, NEW a \in 0 .. N - 1, NEW c \in Int
  PROVE  FacePoint(BlockAt(p, s, a), s, c) = Border(s, Centre(a, c))
<1> DEFINE b == BlockAt(p, s, a)
<1>1. Along(b, s) = a
  BY BlockAtFacts
<1> HIDE DEF b
<1>2. FacePoint(b, s, c) = Border(s, Centre(Along(b, s), c))
  <2>1. CASE s = "up"
    BY <2>1 DEF FacePoint, Border, Along
  <2>2. CASE s = "down"
    BY <2>2 DEF FacePoint, Border, Along
  <2>3. CASE s = "left"
    BY <2>3 DEF FacePoint, Border, Along
  <2>4. CASE s = "right"
    BY <2>4 DEF FacePoint, Border, Along
  <2> QED
    BY <2>1, <2>2, <2>3, <2>4 DEF Side
<1> QED
  BY <1>1, <1>2 DEF b

\* Counting the blocks and the cells backwards turns the angle round.
LEMMA CentreBack ==
  ASSUME NEW a \in 0 .. N - 1, NEW c \in 0 .. Cells - 1
  PROVE  Centre(a, c) \in Int /\ Centre(bound_lim - a, Cells - 1 - c) = - Centre(a, c)
<1>1. N \in Int /\ Cells \in Int /\ a \in Int /\ c \in Int
  BY PanelAssumption
<1>2. (N - 1 - a) * Cells = N * Cells - Cells - a * Cells
  BY <1>1, Z3
<1>3. a * Cells \in Int /\ N * Cells \in Int
  BY <1>1
<1> QED
  BY <1>1, <1>2, <1>3 DEF Centre, bound_lim, Half

\* The two blocks at a panel edge meet each other, at one side each, and the cells
\* as dinv orders them lie at the same points of the sphere (cubed_sphere.cpp 314).
THEOREM SharedFaces ==
  ASSUME NEW b \in Block, NEW s \in Side, OnEdge(b, s)
  PROVE  LET d == Neighbor(b, s)
             t == tox(b, s)
         IN /\ d \in Block /\ t \in Side /\ d # b /\ OnEdge(d, t)
            /\ Neighbor(d, t) = b /\ tox(d, t) = s
            /\ \A u \in Side : OnEdge(b, u) /\ Neighbor(b, u) = d => u = s
            /\ \A c \in 0 .. Cells - 1 :
                 Direction(FindBlockID(d),
                           FacePoint(d, t, IF Inverted(d, t) THEN Cells - 1 - c ELSE c))
                   = Direction(FindBlockID(b), FacePoint(b, s, c))
<1>1. PICK p \in Panel, a \in 0 .. N - 1 : b = BlockAt(p, s, a)
  BY EdgeBlock
<1>2. PICK q \in Panel, t \in Side, v \in BOOLEAN :
        Joint(p, s) = Crossing(q, t, v) /\ Joint(q, t) = Crossing(p, s, v)
  BY JointBack
<1>3. /\ Joint(p, s).to = q /\ Joint(p, s).at = t /\ Joint(p, s).rev = v
      /\ Joint(q, t).to = p /\ Joint(q, t).at = s /\ Joint(q, t).rev = v
  BY <1>2 DEF Crossing
<1>4. q # p /\ SameDirection(p, s, q, t, v) /\ (dinv[q][Number(t) + 1] = 1 <=> v)
  BY <1>3, GluedSides DEF Glued
<1> DEFINE e == IF v THEN bound_lim - a ELSE a
           d == BlockAt(q, t, e)
<1>5. e \in 0 .. N - 1
  BY PanelAssumption DEF bound_lim
<1>6. Neighbor(b, s) = d /\ tox(b, s) = t
  BY <1>1, <1>3, EdgeTransform DEF Neighbor, tox
<1>7. /\ FindBlockID(b) = p /\ FindBlockID(d) = q
      /\ d \in Block /\ OnEdge(d, t)
  <2> HIDE DEF e
  <2> QED
    BY <1>1, <1>5, BlockAtFacts
<1>8. Neighbor(d, t) = b /\ tox(d, t) = s
  <2>1. TransformOX(Neighbor(b, s), tox(b, s)) = [block |-> b, side |-> s]
    BY MeetingSides
  <2> HIDE DEF d
  <2> QED
    BY <1>6, <2>1 DEF Neighbor, tox
<1>9. ASSUME NEW u \in Side, OnEdge(b, u), Neighbor(b, u) = d
      PROVE  u = s
  <2>1. PICK p1 \in Panel, a1 \in 0 .. N - 1 : b = BlockAt(p1, u, a1)
    BY <1>9, EdgeBlock
  <2>2. p1 = p
    BY <1>7, <2>1, BlockAtFacts
  <2>3. PICK q1 \in Panel, t1 \in Side, v1 \in BOOLEAN : Joint(p, u) = Crossing(q1, t1, v1)
    BY JointBack
  <2>4. Joint(p, u).to = q1 /\ Joint(p, u).at = t1
    BY <2>3 DEF Crossing
  <2> DEFINE e1 == IF Joint(p, u).rev THEN bound_lim - a1 ELSE a1
  <2>5. e1 \in 0 .. N - 1
    BY PanelAssumption DEF bound_lim
  <2>6. d = BlockAt(q1, t1, e1)
    BY <1>9, <2>1, <2>2, <2>4, EdgeTransform DEF Neighbor
  <2>7. q1 = q
    <3> HIDE DEF e1
    <3> QED
      BY <1>7, <2>5, <2>6, BlockAtFacts
  <2> QED
    BY <1>3, <2>4, <2>7, OneMeeting
<1>10. ASSUME NEW c \in 0 .. Cells - 1
       PROVE  Direction(q, FacePoint(d, t, IF Inverted(d, t) THEN Cells - 1 - c ELSE c))
                = Direction(p, FacePoint(b, s, c))
  <2> DEFINE c1 == IF v THEN Cells - 1 - c ELSE c
  <2>1. Inverted(d, t) <=> v
    BY <1>4, <1>7 DEF Inverted
  <2>2. c1 \in Int /\ c \in Int
    BY PanelAssumption
  <2>3. FacePoint(b, s, c) = Border(s, Centre(a, c))
    BY <1>1, <2>2, FaceAtBorder
  <2>4. FacePoint(d, t, c1) = Border(t, Centre(e, c1))
    <3> HIDE DEF e, c1
    <3> QED
      BY <1>5, <2>2, FaceAtBorder
  <2>5. Centre(e, c1) = (IF v THEN - Centre(a, c) ELSE Centre(a, c)) /\ Centre(a, c) \in Int
    BY CentreBack
  <2>6. Direction(q, Border(t, Centre(e, c1))) = Direction(p, Border(s, Centre(a, c)))
    <3> DEFINE x == Centre(a, c)
    <3>1. x \in Int /\ - x \in Int /\ - (- x) = x
      BY <2>5
    <3>2. \A y \in Int :
            Direction(q, Border(t, y)) = Direction(p, Border(s, IF v THEN - y ELSE y))
      BY <1>4 DEF SameDirection
    <3> HIDE DEF x
    <3>3. Direction(q, Border(t, IF v THEN - x ELSE x)) = Direction(p, Border(s, x))
      BY <3>1, <3>2
    <3> QED
      BY <2>5, <3>3 DEF x
  <2> QED
    BY <2>1, <2>3, <2>4, <2>6
<1>11. d # b
  BY <1>4, <1>7
<1> HIDE DEF d
<1> QED
  BY <1>2, <1>6, <1>7, <1>8, <1>9, <1>10, <1>11

=============================================================================
