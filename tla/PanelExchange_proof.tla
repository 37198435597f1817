------------------------- MODULE PanelExchange_proof -------------------------
(***************************************************************************)
(* Proofs about what blocks exchange across the edges between panels: the    *)
(* states in the middle of CalculateFluxes (FluxSync), for any number of     *)
(* blocks and cells along a panel edge, of stages, and any placement of the  *)
(* blocks on ranks with one block each (OneBlockPerRank); and the ghost cells *)
(* (PanelEdge), for every number of blocks and cells and every depth of the  *)
(* ghost zone.                                                             *)
(*                                                                         *)
(* FluxSync.  Between two blocks that meet there is one edge only (Meeting), *)
(* so that all messages on a channel are of that edge and have the same tag. *)
(* What a block has sent and what it has taken at a side follow from where   *)
(* it is (Sent, Taken), and a channel holds what one has sent and the other  *)
(* has not taken, in order (Links).  A receive therefore takes the message   *)
(* of its own stage, and no block can be two stages ahead.                  *)
(*                                                                         *)
(* PanelEdge.  The tables of PackData are read once, row by row (Rows), and  *)
(* each of the three things they must get right is a predicate on a row: the *)
(* place of the edge on the sphere (SameDirection), the coordinates beyond it *)
(* (SameBasis) and the order of the cells (SameOrder).  EdgeFits puts them    *)
(* together for one cell; the inductive invariant says that the cells of a   *)
(* message reach the ghost cells in the order they were packed.              *)
(***************************************************************************)
EXTENDS FluxSync, PanelEdge, CubedSphere_proof, FiniteSetTheorems, SequenceTheorems,
        WellFoundedInduction

\* One MeshBlock on each rank.
OneBlockPerRank == \A g, h \in Gid : ranklist[g] = ranklist[h] => g = h

\* The rank then runs that block.
LEMMA OwnBlock ==
  ASSUME OneBlockPerRank, NEW g \in Gid
  PROVE  ranklist[g] \in Rank /\ Mine[ranklist[g]] = <<g>>
<1>1. ranklist[g] \in Rank
  BY DEF Rank
<1>2. Own(ranklist[g]) = {g}
  BY DEF OneBlockPerRank, Own
<1>3. Cardinality({g}) = 1
  BY FS_Singleton
<1>4. { h \in {g} : h < g } = {}
  BY DEF Gid
<1>5. Cardinality({ h \in {g} : h < g }) = 0
  BY <1>4, FS_EmptySet
<1>6. Nth({g}, 1) = g
  BY <1>5 DEF Nth
<1>7. Mine[ranklist[g]] = [i \in 1 .. 1 |-> Nth({g}, i)]
  BY <1>1, <1>2, <1>3 DEF Mine
<1> QED
  BY <1>1, <1>6, <1>7

\* Two blocks that meet at an edge: each is across from the other, at one side
\* only, and their faces are the same face of the sphere.
LEMMA Meeting ==
  ASSUME NEW g \in Gid, NEW s \in EdgeSides[g]
  PROVE  LET h == Across[g][s]
             t == Met[g][s]
         IN /\ s \in Side /\ h \in Gid /\ h # g /\ t \in EdgeSides[h]
            /\ Across[h][t] = g /\ Met[h][t] = s
            /\ \A u \in EdgeSides[g] : Across[g][u] = h => u = s
            /\ \A c \in 0 .. Cells - 1 :
                 OnSphere[h][t][IF Inverted(loclist[h], t) THEN Cells - 1 - c ELSE c]
                   = OnSphere[g][s][c]
<1> DEFINE b == loclist[g]
           d == Neighbor(b, s)
           h == Across[g][s]
           t == Met[g][s]
<1>1. b \in Block /\ s \in Side /\ OnEdge(b, s)
  BY PlaceAssumption DEF EdgeSides
<1>2. t = tox(b, s)
  BY DEF Met
<1>3. /\ d \in Block /\ t \in Side /\ d # b /\ OnEdge(d, t)
      /\ Neighbor(d, t) = b /\ tox(d, t) = s
      /\ \A u \in Side : OnEdge(b, u) /\ Neighbor(b, u) = d => u = s
      /\ \A c \in 0 .. Cells - 1 :
           Direction(FindBlockID(d),
                     FacePoint(d, t, IF Inverted(d, t) THEN Cells - 1 - c ELSE c))
             = Direction(FindBlockID(b), FacePoint(b, s, c))
  BY <1>1, <1>2, SharedFaces
<1>4. \A k \in Gid : \A u \in EdgeSides[k] :
        Neighbor(loclist[k], u) \in Block
          => /\ Across[k][u] \in Gid
             /\ loclist[Across[k][u]] = Neighbor(loclist[k], u)
  BY PlaceAssumption DEF Across
<1>5. h \in Gid /\ loclist[h] = d
  BY <1>3, <1>4
<1>6. t \in EdgeSides[h]
  BY <1>3, <1>5 DEF EdgeSides
<1>7. Across[h][t] = g
  <2>1. Across[h][t] \in Gid /\ loclist[Across[h][t]] = b
    BY <1>1, <1>3, <1>4, <1>5, <1>6
  <2> QED
    BY <2>1, PlaceAssumption
<1>8. Met[h][t] = s
  BY <1>3, <1>5, <1>6 DEF Met
<1>9. ASSUME NEW u \in EdgeSides[g], Across[g][u] = h
      PROVE  u = s
  <2>1. u \in Side /\ OnEdge(b, u)
    BY <1>9 DEF EdgeSides
  <2>2. Neighbor(b, u) \in Block
    BY <1>1, <2>1, MeetingSides
  <2>3. Neighbor(b, u) = d
    BY <1>4, <1>5, <1>9, <2>2
  <2> QED
    BY <1>3, <2>1, <2>3
<1>10. ASSUME NEW c \in 0 .. Cells - 1
       PROVE  OnSphere[h][t][IF Inverted(loclist[h], t) THEN Cells - 1 - c ELSE c]
                = OnSphere[g][s][c]
  <2> DEFINE e == IF Inverted(d, t) THEN Cells - 1 - c ELSE c
  <2>1. e \in 0 .. Cells - 1
    BY PanelAssumption
  <2>2. \A k \in Gid, u \in Side, x \in 0 .. Cells - 1 :
          OnSphere[k][u][x] = Direction(FindBlockID(loclist[k]), FacePoint(loclist[k], u, x))
    BY DEF OnSphere
  <2>3. OnSphere[h][t][e] = Direction(FindBlockID(d), FacePoint(d, t, e))
    <3> HIDE DEF e, h, d, t
    <3> QED
      BY <1>3, <1>5, <2>1, <2>2
  <2>4. OnSphere[g][s][c] = Direction(FindBlockID(b), FacePoint(b, s, c))
    BY <1>1, <2>2
  <2> QED
    BY <1>3, <1>5, <2>3, <2>4
<1>11. h # g
  <2> HIDE DEF d
  <2> QED
    BY <1>3, <1>5
<1>12. /\ s \in Side /\ h \in Gid /\ h # g /\ t \in EdgeSides[h]
       /\ Across[h][t] = g /\ Met[h][t] = s
  BY <1>1, <1>5, <1>6, <1>7, <1>8, <1>11
<1>13. /\ \A u \in EdgeSides[g] : Across[g][u] = h => u = s
       /\ \A c \in 0 .. Cells - 1 :
            OnSphere[h][t][IF Inverted(loclist[h], t) THEN Cells - 1 - c ELSE c]
              = OnSphere[g][s][c]
  <2> HIDE DEF h, t
  <2> QED
    BY <1>9, <1>10
<1> HIDE DEF h, t
<1> QED
  BY <1>12, <1>13, Zenon DEF h, t

\* What of it does not speak of points of the sphere.
LEMMA Mutual ==
  \A g \in Gid : \A s \in EdgeSides[g] :
    /\ s \in Side /\ Across[g][s] \in Gid /\ Across[g][s] # g
    /\ Met[g][s] \in Side /\ Met[g][s] \in EdgeSides[Across[g][s]]
    /\ Across[Across[g][s]][Met[g][s]] = g /\ Met[Across[g][s]][Met[g][s]] = s
<1> SUFFICES ASSUME NEW g \in Gid, NEW s \in EdgeSides[g], NEW h, h = Across[g][s],
                    NEW t, t = Met[g][s]
             PROVE  /\ s \in Side /\ h \in Gid /\ h # g /\ t \in Side /\ t \in EdgeSides[h]
                    /\ Across[h][t] = g /\ Met[h][t] = s
  OBVIOUS
<1>1. s \in Side /\ h \in Gid /\ h # g /\ t \in EdgeSides[h] /\ Across[h][t] = g /\ Met[h][t] = s
  BY Meeting
<1>2. t \in Side
  BY <1>1 DEF EdgeSides
<1> QED
  BY <1>1, <1>2

\* The message block g posts at side s.
Message(g, s) ==
  [tag |-> DirTag(Met[g][s], g, Across[g][s]), block |-> g, side |-> s, kept |-> Nil]

\* A block posts one message to each block that it meets, and no other.
LEMMA PostedTo ==
  ASSUME OneBlockPerRank, NEW g \in Gid, NEW h \in Gid
  PROVE  /\ \A s \in EdgeSides[g] : Across[g][s] = h => Posted(g, ranklist[h]) = <<Message(g, s)>>
         /\ (\A s \in EdgeSides[g] : Across[g][s] # h) => Posted(g, ranklist[h]) = << >>
<1> DEFINE P(u) == PostedAt(g, ranklist[h], u, Met[g][u])
<1>1. Posted(g, ranklist[h]) = P("up") \o P("down") \o P("left") \o P("right")
  BY DEF Posted
<1>2. \A u \in EdgeSides[g] : Across[g][u] = h => P(u) = <<Message(g, u)>>
  BY DEF PostedAt, Message
<1>3. \A u : (u \in EdgeSides[g] => Across[g][u] # h) => P(u) = << >>
  <2> SUFFICES ASSUME NEW u, u \in EdgeSides[g] => Across[g][u] # h
               PROVE  P(u) = << >>
    OBVIOUS
  <2>1. u \in EdgeSides[g] => Across[g][u] \in Gid
    BY Meeting
  <2> QED
    BY <2>1 DEF PostedAt, OneBlockPerRank
<1> HIDE DEF P
<1>4. ASSUME NEW s \in EdgeSides[g], Across[g][s] = h
      PROVE  Posted(g, ranklist[h]) = <<Message(g, s)>>
  <2>1. s \in Side /\ \A u \in EdgeSides[g] : Across[g][u] = h => u = s
    BY <1>4, Meeting
  <2>2. P(s) = <<Message(g, s)>> /\ \A u : u # s => P(u) = << >>
    BY <1>2, <1>3, <1>4, <2>1
  <2> DEFINE m == <<Message(g, s)>>
             e == << >>
  <2>3. m \o e = m /\ e \o m = m /\ e \o e = e
    <3>1. m \in Seq({Message(g, s)}) /\ e \in Seq({Message(g, s)})
      OBVIOUS
    <3> QED
      BY <3>1, ConcatEmptySeq
  <2> HIDE DEF m, e
  <2>4. P(s) = m /\ \A u : u # s => P(u) = e
    BY <2>2 DEF m, e
  <2>5. Posted(g, ranklist[h]) = m
    <3>1. CASE s = "up"
      <4>1. P("up") = m /\ P("down") = e /\ P("left") = e /\ P("right") = e
        BY <2>4, <3>1
      <4> QED
        BY <1>1, <2>3, <4>1
    <3>2. CASE s = "down"
      <4>1. P("up") = e /\ P("down") = m /\ P("left") = e /\ P("right") = e
        BY <2>4, <3>2
      <4> QED
        BY <1>1, <2>3, <4>1
    <3>3. CASE s = "left"
      <4>1. P("up") = e /\ P("down") = e /\ P("left") = m /\ P("right") = e
        BY <2>4, <3>3
      <4> QED
        BY <1>1, <2>3, <4>1
    <3>4. CASE s = "right"
      <4>1. P("up") = e /\ P("down") = e /\ P("left") = e /\ P("right") = m
        BY <2>4, <3>4
      <4> QED
        BY <1>1, <2>3, <4>1
    <3> QED
      BY <2>1, <3>1, <3>2, <3>3, <3>4 DEF Side
  <2> QED
    BY <2>5 DEF m
<1>5. ASSUME \A s \in EdgeSides[g] : Across[g][s] # h
      PROVE  Posted(g, ranklist[h]) = << >>
  <2>1. \A u : P(u) = << >>
    BY <1>3, <1>5
  <2> QED
    BY <1>1, <2>1, ConcatEmptySeq
<1> QED
  BY <1>4, <1>5

\* The first message is taken off a channel.
LEMMA FirstRemoved ==
  ASSUME NEW S, NEW c \in Seq(S), Len(c) > 0
  PROVE  /\ RemoveAt(c, 1) \in Seq(S) /\ Len(RemoveAt(c, 1)) = Len(c) - 1
         /\ \A i \in 1 .. Len(c) - 1 : RemoveAt(c, 1)[i] = c[i + 1]
<1>1. RemoveAt(c, 1) = SubSeq(c, 1, 0) \o SubSeq(c, 2, Len(c))
  BY DEF RemoveAt
<1>2. SubSeq(c, 1, 0) = << >>
  BY SubSeqEmpty
<1>3. Len(c) \in Nat /\ \A i \in 2 .. Len(c) : c[i] \in S
  BY ElementOfSeq
<1>4. /\ SubSeq(c, 2, Len(c)) \in Seq(S)
      /\ Len(SubSeq(c, 2, Len(c))) = IF 2 <= Len(c) THEN Len(c) - 2 + 1 ELSE 0
      /\ \A i \in 1 .. Len(c) - 2 + 1 : SubSeq(c, 2, Len(c))[i] = c[2 + i - 1]
  BY <1>3, SubSeqProperties
<1>5. RemoveAt(c, 1) = SubSeq(c, 2, Len(c))
  BY <1>1, <1>2, <1>4, ConcatEmptySeq
<1>6. ASSUME NEW i \in 1 .. Len(c) - 1
      PROVE  SubSeq(c, 2, Len(c))[i] = c[i + 1]
  <2>1. i \in 1 .. Len(c) - 2 + 1 /\ 2 + i - 1 = i + 1
    BY <1>3
  <2> QED
    BY <1>4, <2>1
<1>7. Len(SubSeq(c, 2, Len(c))) = Len(c) - 1
  <2> DEFINE e == SubSeq(c, 2, Len(c))
             l == Len(c)
  <2> HIDE DEF e, l
  <2>1. l \in Nat /\ l > 0 /\ Len(e) = IF 2 <= l THEN l - 2 + 1 ELSE 0
    BY <1>3, <1>4 DEF e, l
  <2>2. Len(e) = l - 1
    BY <2>1
  <2> QED
    BY <2>2 DEF e, l
<1> DEFINE d == SubSeq(c, 2, Len(c))
<1> HIDE DEF d
<1>8. d \in Seq(S) /\ Len(d) = Len(c) - 1 /\ \A i \in 1 .. Len(c) - 1 : d[i] = c[i + 1]
  BY <1>4, <1>6, <1>7 DEF d
<1>9. RemoveAt(c, 1) = d
  BY <1>5 DEF d
<1> QED
  BY <1>8, <1>9, Zenon

-----------------------------------------------------------------------------
(* Where a block is.                                                        *)

\* The last stage whose states g has sent.
Sent(g) ==
  IF pc[ranklist[g]] \in {"send", "done"} THEN stage[ranklist[g]] - 1 ELSE stage[ranklist[g]]

\* The program counters after the receive at a side.
After(s) ==
  CASE s = "up"   -> {"recv2", "recv3", "recv4", "wait"}
    [] s = "down" -> {"recv3", "recv4", "wait"}
    [] s = "left" -> {"recv4", "wait"}
    [] OTHER      -> {"wait"}

\* The last stage whose states g has received at side s.
Taken(g, s) ==
  IF pc[ranklist[g]] \in After(s) THEN stage[ranklist[g]] ELSE stage[ranklist[g]] - 1

\* What g sends at side s in stage n.
Face(g, s, n) ==
  [block |-> g, side |-> s, stage |-> n,
   cells |-> IF Inverted(loclist[g], s) THEN Backward ELSE Forward]

Within(face, s)  == IF SentLeft(s) THEN face.L ELSE face.R
Outside(face, s) == IF SentLeft(s) THEN face.R ELSE face.L

-----------------------------------------------------------------------------
(* The inductive invariant.                                                 *)

MessageType == [tag : Int, block : Gid, side : Side, kept : StripType \union {Nil}]

Typed ==
  /\ stage \in [Rank -> 1 .. Stages + 1] /\ turn = [r \in Rank |-> 1]
  /\ pc \in [Rank -> Pc] /\ \A r \in Rank : pc[r] = "done" <=> stage[r] = Stages + 1
  /\ lr \in [Gid -> [Side -> [L : StripType \union {Nil}, R : StripType \union {Nil}]]]
  /\ buf \in [Gid -> [Side -> StripType \union {Nil}]]
  /\ net \in [Rank -> [Rank -> Seq(MessageType)]]

\* The buffers hold what was sent last, and the faces what was computed and, once
\* received, what was sent across.
Buffers ==
  \A g \in Gid : \A s \in EdgeSides[g] : Sent(g) > 0 =>
    /\ buf[g][s] = Face(g, s, Sent(g))
    /\ Within(lr[g][s], s) = Strip(g, s, Sent(g))
    /\ Taken(g, s) = Sent(g)
         => Outside(lr[g][s], s) = Face(Across[g][s], Met[g][s], Sent(g))

\* Message m carries what g sends at side s in stage n, unless MPI has yet to copy it.
Carries(m, g, s, n) ==
  /\ m.tag = DirTag(Met[g][s], g, Across[g][s]) /\ m.block = g /\ m.side = s
  /\ m.kept = Nil \/ m.kept = Face(g, s, n)

\* Channel c from side s of g, with "sent" stages sent and "taken" of them taken;
\* only its last message may not be copied yet, and that one is of g's stage "now".
Linked(c, taken, sent, now, g, s) ==
  /\ taken <= sent /\ Len(c) = sent - taken
  /\ \A i \in 1 .. Len(c) :
       /\ Carries(c[i], g, s, taken + i)
       /\ c[i].kept = Nil => i = Len(c) /\ sent = now

\* The channel from side s of g to side t of h.
Link(g, s, h, t) ==
  Linked(net[ranklist[g]][ranklist[h]], Taken(h, t), Sent(g), stage[ranklist[g]], g, s)

Links == \A g \in Gid : \A s \in EdgeSides[g] : Link(g, s, Across[g][s], Met[g][s])

\* Blocks that do not meet exchange nothing.
Quiet ==
  \A g, h \in Gid :
    (\A s \in EdgeSides[g] : Across[g][s] # h) => net[ranklist[g]][ranklist[h]] = << >>

IInv == Typed /\ Buffers /\ Links /\ Quiet

\* A rank is its block.
LEMMA TheBlock ==
  ASSUME OneBlockPerRank, Typed, NEW r \in Rank
  PROVE  \E g \in Gid : r = ranklist[g] /\ Mine[r] = <<g>> /\ Current(r) = g
<1>1. PICK g \in Gid : r = ranklist[g]
  BY DEF Rank
<1>2. Mine[r] = <<g>>
  BY <1>1, OwnBlock
<1>3. Current(r) = g
  BY <1>2 DEF Current, Typed
<1> QED
  BY <1>1, <1>2, <1>3

\* What a block can have sent and received.
LEMMA CountTypes ==
  ASSUME OneBlockPerRank, Typed, NEW g \in Gid
  PROVE  /\ stage[ranklist[g]] \in 1 .. Stages + 1 /\ Sent(g) \in 0 .. Stages
         /\ Sent(g) \in {stage[ranklist[g]] - 1, stage[ranklist[g]]}
         /\ \A s \in Side : /\ Taken(g, s) \in {stage[ranklist[g]] - 1, stage[ranklist[g]]}
                            /\ Taken(g, s) \in 0 .. Stages /\ Taken(g, s) <= Sent(g)
<1> DEFINE r == ranklist[g]
<1>1. r \in Rank
  BY OwnBlock
<1>2. /\ stage[r] \in 1 .. Stages + 1 /\ pc[r] \in Pc
      /\ pc[r] = "done" <=> stage[r] = Stages + 1
  BY <1>1 DEF Typed
<1>3. \A s : After(s) \subseteq {"recv2", "recv3", "recv4", "wait"}
  BY DEF After
<1> HIDE DEF r
<1> QED
  BY <1>2, <1>3, StagesAssumption DEF Sent, Taken, r

\* A face that is sent is typed.
LEMMA FaceType ==
  ASSUME NEW g \in Gid, NEW s \in Side, NEW n \in 1 .. Stages
  PROVE  Face(g, s, n) \in StripType /\ Face(g, s, n) # Nil /\ Strip(g, s, n) \in StripType
BY NilAssumption DEF Face, StripType, Strip

-----------------------------------------------------------------------------
(* The steps.                                                               *)

LEMMA InitStep == OneBlockPerRank /\ Init => IInv
<1> SUFFICES ASSUME OneBlockPerRank, Init PROVE IInv
  OBVIOUS
<1>1. Typed
  BY StagesAssumption DEF Init, Typed, Pc
<1>2. \A g \in Gid : /\ ranklist[g] \in Rank /\ Sent(g) = 0
                     /\ \A s \in Side : Taken(g, s) = 0
  <2> SUFFICES ASSUME NEW g \in Gid
               PROVE  /\ ranklist[g] \in Rank /\ Sent(g) = 0
                      /\ \A s \in Side : Taken(g, s) = 0
    OBVIOUS
  <2>1. ranklist[g] \in Rank
    BY OwnBlock
  <2> QED
    BY <2>1 DEF Init, Sent, Taken, After
<1>3. Buffers
  BY <1>2 DEF Buffers
<1>4. \A g, h \in Gid : net[ranklist[g]][ranklist[h]] = << >>
  BY <1>2 DEF Init
<1>5. Links
  <2> SUFFICES ASSUME NEW g \in Gid, NEW s \in EdgeSides[g]
               PROVE  Link(g, s, Across[g][s], Met[g][s])
    BY DEF Links
  <2>1. Across[g][s] \in Gid /\ Met[g][s] \in Side
    BY Meeting DEF EdgeSides
  <2> QED
    BY <1>2, <1>4, <2>1 DEF Link, Linked
<1> QED
  BY <1>1, <1>3, <1>4, <1>5 DEF IInv, Quiet

\* A block whose rank does not move has sent and received as much as before.
LEMMA Unmoved ==
  ASSUME NEW g \in Gid, stage'[ranklist[g]] = stage[ranklist[g]],
         pc'[ranklist[g]] = pc[ranklist[g]]
  PROVE  Sent(g)' = Sent(g) /\ \A s : Taken(g, s)' = Taken(g, s)
BY DEF Sent, Taken

\* What a message holds that has not been received.
LEMMA Contents ==
  ASSUME IInv, OneBlockPerRank, NEW g \in Gid, NEW s \in EdgeSides[g], NEW c, NEW k \in Nat,
         Linked(c, k, Sent(g), stage[ranklist[g]], g, s), Len(c) \in Nat, NEW i \in 1 .. Len(c)
  PROVE  Content(c[i]) = Face(g, s, k + i)
<1>1. Sent(g) \in Nat
  BY CountTypes, StagesAssumption DEF IInv
<1>2. /\ c[i].block = g /\ c[i].side = s /\ (c[i].kept = Nil \/ c[i].kept = Face(g, s, k + i))
      /\ Len(c) = Sent(g) - k /\ (c[i].kept = Nil => i = Len(c))
  BY DEF Linked, Carries
<1>3. CASE c[i].kept = Nil
  <2>1. k + i = Sent(g) /\ Sent(g) > 0
    BY <1>1, <1>2, <1>3
  <2>2. buf[g][s] = Face(g, s, k + i)
    BY <2>1 DEF IInv, Buffers
  <2> QED
    BY <1>2, <1>3, <2>2 DEF Content
<1>4. CASE c[i].kept # Nil
  BY <1>2, <1>4 DEF Content
<1> QED
  BY <1>3, <1>4

\* A channel is a sequence of messages.
LEMMA Channels ==
  ASSUME OneBlockPerRank, Typed, NEW g \in Gid, NEW h \in Gid
  PROVE  /\ net[ranklist[g]][ranklist[h]] \in Seq(MessageType)
         /\ Len(net[ranklist[g]][ranklist[h]]) \in Nat
<1>1. ranklist[g] \in Rank /\ ranklist[h] \in Rank
  BY OwnBlock
<1>2. net[ranklist[g]][ranklist[h]] \in Seq(MessageType)
  BY <1>1 DEF Typed
<1> QED
  BY <1>2, LenProperties

\* A block sends in its next stage; none of what it sent before is uncopied.
LEMMA LinkAppended ==
  ASSUME NEW g, NEW s, NEW k \in Nat, NEW n \in Nat, NEW c, NEW d,
         Len(c) \in Nat, Linked(c, k, n - 1, n, g, s), Len(d) = Len(c) + 1,
         \A i \in 1 .. Len(c) : d[i] = c[i], d[Len(c) + 1] = Message(g, s)
  PROVE  Linked(d, k, n, n, g, s)
<1>1. k <= n - 1 /\ Len(c) = n - 1 - k
  BY DEF Linked
<1>2. ASSUME NEW i \in 1 .. Len(d)
      PROVE  Carries(d[i], g, s, k + i) /\ (d[i].kept = Nil => i = Len(d))
  <2>1. CASE i \in 1 .. Len(c)
    <3>1. Carries(c[i], g, s, k + i) /\ (c[i].kept = Nil => n - 1 = n)
      BY <2>1 DEF Linked
    <3> QED
      BY <2>1, <3>1
  <2>2. CASE i = Len(c) + 1
    <3>1. d[i] = Message(g, s)
      BY <2>2
    <3> QED
      BY <2>2, <3>1 DEF Message, Carries
  <2> QED
    BY <2>1, <2>2
<1>3. k <= n /\ Len(d) = n - k
  BY <1>1
<1> QED
  BY <1>2, <1>3 DEF Linked

\* The first message of a channel is received.
LEMMA LinkTaken ==
  ASSUME NEW g, NEW s, NEW k \in Nat, NEW sent \in Nat, NEW now, NEW c, NEW d,
         Len(c) \in Nat, Linked(c, k, sent, now, g, s), Len(c) > 0, Len(d) = Len(c) - 1,
         \A i \in 1 .. Len(c) - 1 : d[i] = c[i + 1]
  PROVE  Linked(d, k + 1, sent, now, g, s)
<1>1. Len(c) = sent - k
  BY DEF Linked
<1>2. ASSUME NEW i \in 1 .. Len(d)
      PROVE  /\ Carries(d[i], g, s, k + 1 + i)
             /\ d[i].kept = Nil => i = Len(d) /\ sent = now
  <2>1. i + 1 \in 1 .. Len(c) /\ d[i] = c[i + 1]
    OBVIOUS
  <2>2. /\ Carries(c[i + 1], g, s, k + (i + 1))
        /\ c[i + 1].kept = Nil => i + 1 = Len(c) /\ sent = now
    BY <2>1 DEF Linked
  <2>3. k + (i + 1) = k + 1 + i
    BY <2>1
  <2> QED
    BY <2>1, <2>2, <2>3
<1>3. k + 1 <= sent /\ Len(d) = sent - (k + 1)
  BY <1>1
<1> QED
  BY <1>2, <1>3 DEF Linked

LEMMA SendStep ==
  ASSUME OneBlockPerRank, IInv, NEW r \in Rank, Send(r)
  PROVE  IInv'
<1>1. PICK g \in Gid : r = ranklist[g] /\ Current(r) = g
  BY TheBlock DEF IInv
<1> DEFINE n == stage[r]
<1>2. Typed /\ n \in 1 .. Stages /\ pc[r] = "send"
  BY StagesAssumption DEF IInv, Typed, Send
<1>3. /\ stage' = stage /\ turn' = turn /\ pc' = [pc EXCEPT ![r] = "recv1"]
      /\ lr' = [lr EXCEPT ![g] = Saved(g, n)]
      /\ buf' = [buf EXCEPT ![g] =
                   [s \in Side |-> IF s \in EdgeSides[g] THEN Packed(g, s, Saved(g, n)[s])
                                                         ELSE buf[g][s]]]
      /\ net' = [net EXCEPT ![r] = [q \in Rank |-> net[r][q] \o Posted(g, q)]]
  BY <1>1 DEF Send
<1>4. \A k \in Gid : k # g => ranklist[k] # r
  BY <1>1 DEF OneBlockPerRank
<1>5. \A k \in Gid : ranklist[k] \in Rank
  BY DEF Rank
<1>6. \A k \in Gid : k # g => Sent(k)' = Sent(k) /\ \A s : Taken(k, s)' = Taken(k, s)
  BY <1>2, <1>3, <1>4, <1>5, Unmoved DEF Typed
<1>7. pc'[r] = "recv1" /\ stage'[r] = n
  BY <1>2, <1>3 DEF Typed
<1>8. \A s : "recv1" \notin After(s) /\ "send" \notin After(s)
  BY DEF After
<1>9. Sent(g) = n - 1 /\ Sent(g)' = n
  BY <1>1, <1>2, <1>7 DEF Sent
<1>10. \A s : Taken(g, s) = n - 1 /\ Taken(g, s)' = n - 1
  BY <1>1, <1>2, <1>7, <1>8 DEF Taken
<1>11. ASSUME NEW k \in Gid, NEW s PROVE Taken(k, s)' = Taken(k, s)
  <2>1. CASE k # g
    BY <1>6, <2>1
  <2>2. CASE k = g
    <3> HIDE DEF n
    <3>1. Taken(g, s) = n - 1 /\ Taken(g, s)' = n - 1
      BY <1>10
    <3> QED
      BY <2>2, <3>1
  <2> QED
    BY <2>1, <2>2
\* What g posts for the rank of h is appended to the channel.
<1>12. ASSUME NEW h \in Gid, NEW s \in EdgeSides[g], Across[g][s] = h
       PROVE  LET c == net[ranklist[g]][ranklist[h]]
                  d == net'[ranklist[g]][ranklist[h]]
              IN /\ d \in Seq(MessageType) /\ Len(d) = Len(c) + 1
                 /\ \A i \in 1 .. Len(c) : d[i] = c[i]
                 /\ d[Len(c) + 1] = Message(g, s)
  <2> DEFINE c == net[ranklist[g]][ranklist[h]]
             m == Message(g, s)
  <2>1. c \in Seq(MessageType) /\ Len(c) \in Nat
    BY <1>2, Channels
  <2>2. Met[g][s] \in Side /\ Across[g][s] \in Gid /\ s \in Side
    BY Mutual
  <2>3. m \in MessageType
    <3>1. Number(Met[g][s]) \in Int
      BY DEF Number
    <3>2. DirTag(Met[g][s], g, Across[g][s]) \in Int
      BY <2>2, <3>1, PanelAssumption DEF DirTag, Gid
    <3> QED
      BY <2>2, <3>2 DEF Message, MessageType
  <2>4. net'[ranklist[g]][ranklist[h]] = c \o <<m>>
    <3>1. Posted(g, ranklist[h]) = <<m>>
      BY <1>12, PostedTo
    <3> QED
      BY <1>1, <1>2, <1>3, <1>5, <3>1 DEF Typed
  <2>5. <<m>> \in Seq(MessageType) /\ Len(<<m>>) = 1 /\ <<m>>[1] = m
    BY <2>3
  <2> HIDE DEF c, m
  <2>6. /\ c \o <<m>> \in Seq(MessageType) /\ Len(c \o <<m>>) = Len(c) + 1
        /\ \A i \in 1 .. Len(c) + 1 :
             (c \o <<m>>)[i] = IF i <= Len(c) THEN c[i] ELSE <<m>>[i - Len(c)]
    BY <2>1, <2>5, ConcatProperties
  <2>7. (c \o <<m>>)[Len(c) + 1] = m /\ \A i \in 1 .. Len(c) : (c \o <<m>>)[i] = c[i]
    <3> DEFINE e == c \o <<m>>
               l == Len(c)
               x == <<m>>
    <3> HIDE DEF e, l, x
    <3>1. l \in Nat /\ x[1] = m
          /\ \A i \in 1 .. l + 1 : e[i] = IF i <= l THEN c[i] ELSE x[i - l]
      BY <2>1, <2>5, <2>6 DEF e, l, x
    <3>2. e[l + 1] = x[1] /\ \A i \in 1 .. l : e[i] = c[i]
      BY <3>1
    <3> QED
      BY <3>1, <3>2 DEF e, l, x
  <2> QED
    BY <2>4, <2>6, <2>7 DEF c, m
<1>13. ASSUME NEW a \in Gid, NEW h \in Gid, a # g \/ \A s \in EdgeSides[g] : Across[g][s] # h
       PROVE  net'[ranklist[a]][ranklist[h]] = net[ranklist[a]][ranklist[h]]
  <2>1. CASE a # g
    BY <1>2, <1>3, <1>4, <1>5, <2>1 DEF Typed
  <2>2. CASE a = g
    <3>1. Posted(g, ranklist[h]) = << >>
      BY <1>13, <2>2, PostedTo
    <3>2. net[ranklist[g]][ranklist[h]] \in Seq(MessageType)
      BY <1>2, Channels
    <3>3. net[ranklist[g]][ranklist[h]] \o << >> = net[ranklist[g]][ranklist[h]]
      BY <3>2, ConcatEmptySeq
    <3> QED
      BY <1>1, <1>2, <1>3, <1>5, <2>2, <3>1, <3>3 DEF Typed
  <2> QED
    BY <2>1, <2>2
<1>14. Quiet'
  <2> SUFFICES ASSUME NEW a \in Gid, NEW h \in Gid, \A s \in EdgeSides[a] : Across[a][s] # h
               PROVE  net'[ranklist[a]][ranklist[h]] = << >>
    BY DEF Quiet
  <2>1. net'[ranklist[a]][ranklist[h]] = net[ranklist[a]][ranklist[h]]
    BY <1>13
  <2> QED
    BY <2>1 DEF IInv, Quiet
<1>15. Links'
  <2> SUFFICES ASSUME NEW a \in Gid, NEW s \in EdgeSides[a], NEW h, h = Across[a][s],
                      NEW t, t = Met[a][s]
               PROVE  Linked(net'[ranklist[a]][ranklist[h]], Taken(h, t)', Sent(a)',
                             stage'[ranklist[a]], a, s)
    BY DEF Links, Link
  <2> DEFINE c == net[ranklist[a]][ranklist[h]]
             d == net'[ranklist[a]][ranklist[h]]
             k == Taken(h, t)
  <2>1. h \in Gid /\ h # a /\ t \in Side
    BY Meeting DEF EdgeSides
  <2>2. Linked(c, k, Sent(a), stage[ranklist[a]], a, s)
    BY DEF IInv, Links, Link
  <2>3. Taken(h, t)' = k
    BY <1>11, <2>1
  <2>4. Len(c) \in Nat /\ k \in Nat
    <3>1. Len(c) \in Nat
      BY <1>2, <2>1, Channels
    <3>2. k \in 0 .. Stages
      BY <1>2, <2>1, CountTypes
    <3> HIDE DEF c, k
    <3> QED
      BY <3>1, <3>2, StagesAssumption
  <2>5. CASE a # g
    <3>1. d = c /\ Sent(a)' = Sent(a) /\ stage' = stage
      BY <1>3, <1>6, <1>13, <2>1, <2>5
    <3> QED
      BY <2>2, <2>3, <3>1
  <2>6. CASE a = g
    <3>1. /\ Len(d) = Len(c) + 1 /\ \A i \in 1 .. Len(c) : d[i] = c[i]
          /\ d[Len(c) + 1] = Message(g, s)
      BY <1>12, <2>1, <2>6
    <3>2. Linked(c, k, n - 1, n, g, s) /\ n \in Nat
      BY <1>1, <1>2, <1>9, <2>2, <2>6
    <3> HIDE DEF c, d, k, n
    <3>3. Linked(d, k, n, n, g, s)
      BY <2>4, <3>1, <3>2, LinkAppended
    <3> QED
      BY <1>1, <1>3, <1>9, <2>3, <2>6, <3>3 DEF n, d
  <2> QED
    BY <2>5, <2>6
<1>16. Buffers'
  <2> SUFFICES ASSUME NEW k \in Gid, NEW s \in EdgeSides[k], Sent(k)' > 0
               PROVE  /\ buf'[k][s] = Face(k, s, Sent(k)')
                      /\ Within(lr'[k][s], s) = Strip(k, s, Sent(k)')
                      /\ Taken(k, s)' = Sent(k)'
                           => Outside(lr'[k][s], s) = Face(Across[k][s], Met[k][s], Sent(k)')
    BY DEF Buffers
  <2>1. CASE k # g
    <3>1. buf'[k] = buf[k] /\ lr'[k] = lr[k] /\ Sent(k)' = Sent(k) /\ Taken(k, s)' = Taken(k, s)
      BY <1>2, <1>3, <1>6, <2>1 DEF Typed
    <3> QED
      BY <3>1 DEF IInv, Buffers
  <2>2. CASE k = g
    <3>1. s \in Side
      BY <2>2 DEF EdgeSides
    <3>2. buf'[g][s] = Packed(g, s, Saved(g, n)[s]) /\ lr'[g][s] = Saved(g, n)[s]
      BY <1>2, <1>3, <2>2, <3>1 DEF Typed, Saved
    <3>3. Within(Saved(g, n)[s], s) = Strip(g, s, n)
      BY <3>1 DEF Within, Saved
    <3>4. Packed(g, s, Saved(g, n)[s]) = Face(g, s, n)
      BY <3>1 DEF Packed, Saved, Face, Strip
    <3>5. Taken(g, s)' # Sent(g)'
      BY <1>2, <1>9, <1>10
    <3> QED
      BY <1>9, <2>2, <3>2, <3>3, <3>4, <3>5
  <2> QED
    BY <2>1, <2>2
<1>17. Typed'
  <2>1. stage' \in [Rank -> 1 .. Stages + 1] /\ turn' = [q \in Rank |-> 1]
    BY <1>2, <1>3 DEF Typed
  <2>2. /\ pc' \in [Rank -> Pc] /\ \A q \in Rank : pc'[q] = "done" <=> stage'[q] = Stages + 1
    BY <1>2, <1>3 DEF Typed, Pc
  <2>3. \A s \in Side : Strip(g, s, n) \in StripType /\ Face(g, s, n) \in StripType
    BY <1>2, FaceType
  <2>4. Saved(g, n) \in [Side -> [L : StripType \union {Nil}, R : StripType \union {Nil}]]
    BY <2>3 DEF Saved
  <2>5. \A s \in Side : Packed(g, s, Saved(g, n)[s]) = Face(g, s, n)
    BY DEF Packed, Saved, Face, Strip
  <2>6. lr' \in [Gid -> [Side -> [L : StripType \union {Nil}, R : StripType \union {Nil}]]]
    BY <1>2, <1>3, <2>4 DEF Typed
  <2>7. buf' \in [Gid -> [Side -> StripType \union {Nil}]]
    BY <1>2, <1>3, <2>3, <2>5 DEF Typed
  <2>8. net' \in [Rank -> [Rank -> Seq(MessageType)]]
    <3>1. \A q \in Rank : net[r][q] \o Posted(g, q) \in Seq(MessageType)
      <4> SUFFICES ASSUME NEW h \in Gid
                   PROVE  net[r][ranklist[h]] \o Posted(g, ranklist[h]) \in Seq(MessageType)
        BY DEF Rank
      <4>1. net'[ranklist[g]][ranklist[h]] \in Seq(MessageType)
        <5>1. CASE \E s \in EdgeSides[g] : Across[g][s] = h
          BY <1>12, <5>1
        <5>2. CASE \A s \in EdgeSides[g] : Across[g][s] # h
          <6>1. net'[ranklist[g]][ranklist[h]] = net[ranklist[g]][ranklist[h]]
            BY <1>13, <5>2
          <6>2. net[ranklist[g]][ranklist[h]] \in Seq(MessageType)
            BY <1>2, Channels, Zenon
          <6> QED
            BY <6>1, <6>2
        <5> QED
          BY <5>1, <5>2
      <4>2. net'[ranklist[g]][ranklist[h]] = net[r][ranklist[h]] \o Posted(g, ranklist[h])
        BY <1>1, <1>2, <1>3, <1>5 DEF Typed
      <4> QED
        BY <4>1, <4>2
    <3> QED
      BY <1>2, <1>3, <3>1 DEF Typed
  <2> QED
    BY <2>1, <2>2, <2>6, <2>7, <2>8 DEF Typed
<1> QED
  BY <1>14, <1>15, <1>16, <1>17 DEF IInv

\* A block waits: MPI has copied what is left of what it sent.
LEMMA LinkCopied ==
  ASSUME NEW g \in Gid, NEW s \in Side, NEW k \in Nat, NEW sent \in 0 .. Stages,
         NEW now, NEW later,
         NEW c, NEW d, Len(c) \in Nat, Linked(c, k, sent, now, g, s), Len(d) = Len(c),
         \A i \in 1 .. Len(c) : /\ d[i].tag = c[i].tag /\ d[i].block = c[i].block
                                /\ d[i].side = c[i].side /\ d[i].kept = Face(g, s, k + i)
  PROVE  Linked(d, k, sent, later, g, s)
<1>1. k <= sent /\ Len(c) = sent - k
  BY DEF Linked
<1>2. ASSUME NEW i \in 1 .. Len(c)
      PROVE  Carries(d[i], g, s, k + i) /\ d[i].kept # Nil
  <2>1. k + i \in 1 .. Stages
    BY <1>1, StagesAssumption
  <2>2. Face(g, s, k + i) # Nil
    BY <2>1, FaceType
  <2>3. Carries(c[i], g, s, k + i)
    BY DEF Linked
  <2> QED
    BY <2>2, <2>3 DEF Carries
<1> QED
  BY <1>1, <1>2 DEF Linked

LEMMA RecvStep ==
  ASSUME OneBlockPerRank, IInv, NEW r \in Rank, NEW i \in 1 .. 4, Recv(r, i)
  PROVE  IInv'
<1>1. PICK g \in Gid : r = ranklist[g] /\ Current(r) = g
  BY TheBlock DEF IInv
<1> DEFINE n == stage[r]
           s == neighbor[i]
           from == Across[g][s]
           q == ranklist[from]
           found == Matching(q, r, DirTag(s, from, g))
           k == Min(found)
           before == <<"recv1", "recv2", "recv3", "recv4">>[i]
           after == <<"recv2", "recv3", "recv4", "wait">>[i]
<1>2. /\ pc[r] = before /\ pc' = [pc EXCEPT ![r] = after]
      /\ stage' = stage /\ turn' = turn /\ buf' = buf
      /\ IF s \notin EdgeSides[g] THEN lr' = lr /\ net' = net
         ELSE /\ Arrived(q, r, DirTag(s, from, g))
              /\ found # {} =>
                   /\ lr' = [lr EXCEPT ![g][s] = Unpacked(lr[g][s], s, Content(net[q][r][k]))]
                   /\ net' = [net EXCEPT ![q][r] = RemoveAt(net[q][r], k)]
  BY <1>1, Zenon DEF Recv
<1>3. /\ s \in Side /\ before \in Pc \ {"send", "done"} /\ after \in Pc \ {"send", "done"}
      /\ before \notin After(s) /\ after \in After(s)
      /\ \A u \in Side : u # s => (before \in After(u) <=> after \in After(u))
  <2>1. CASE i = 1
    BY <2>1 DEF neighbor, Side, After, Pc
  <2>2. CASE i = 2
    BY <2>2 DEF neighbor, Side, After, Pc
  <2>3. CASE i = 3
    BY <2>3 DEF neighbor, Side, After, Pc
  <2>4. CASE i = 4
    BY <2>4 DEF neighbor, Side, After, Pc
  <2> QED
    BY <2>1, <2>2, <2>3, <2>4
<1> HIDE DEF s, before, after
<1>4. Typed /\ pc'[r] = after /\ stage'[r] = n
  BY <1>2 DEF IInv, Typed
<1>5. n \in 1 .. Stages
  BY <1>2, <1>3, <1>4, StagesAssumption DEF Typed
<1>6. \A h \in Gid : ranklist[h] \in Rank /\ (h # g => ranklist[h] # r)
  BY <1>1 DEF OneBlockPerRank, Rank
<1>7. \A h \in Gid : h # g => Sent(h)' = Sent(h) /\ \A u : Taken(h, u)' = Taken(h, u)
  BY <1>2, <1>4, <1>6, Unmoved DEF Typed
<1>8. Sent(g) = n /\ Sent(g)' = n /\ Taken(g, s) = n - 1 /\ Taken(g, s)' = n
  BY <1>1, <1>2, <1>3, <1>4 DEF Sent, Taken
<1>9. \A u \in Side : u # s => Taken(g, u)' = Taken(g, u)
  BY <1>1, <1>2, <1>3, <1>4 DEF Taken
<1>10. \A h \in Gid : Sent(h)' = Sent(h)
  BY <1>7, <1>8
<1>11. /\ stage' \in [Rank -> 1 .. Stages + 1] /\ turn' = [p \in Rank |-> 1]
       /\ pc' \in [Rank -> Pc] /\ \A p \in Rank : pc'[p] = "done" <=> stage'[p] = Stages + 1
       /\ buf' \in [Gid -> [Side -> StripType \union {Nil}]]
  BY <1>2, <1>3, <1>4, <1>5 DEF Typed
<1>12. CASE s \notin EdgeSides[g]
  <2>1. lr' = lr /\ net' = net
    BY <1>2, <1>12
  <2>2. Typed'
    <3>1. /\ lr' \in [Gid -> [Side -> [L : StripType \union {Nil}, R : StripType \union {Nil}]]]
          /\ net' \in [Rank -> [Rank -> Seq(MessageType)]]
      BY <1>4, <2>1 DEF Typed
    <3> QED
      BY <1>11, <3>1 DEF Typed
  <2>3. \A h \in Gid : \A u \in EdgeSides[h] : Taken(h, u)' = Taken(h, u)
    <3>1. \A u \in EdgeSides[g] : u \in Side /\ u # s
      BY <1>12 DEF EdgeSides
    <3>2. ASSUME NEW h \in Gid, NEW u \in EdgeSides[h] PROVE Taken(h, u)' = Taken(h, u)
      <4>1. CASE h # g
        BY <1>7, <4>1, Zenon
      <4>2. CASE h = g
        BY <1>9, <3>1, <4>2, Zenon
      <4> QED
        BY <4>1, <4>2
    <3> QED
      BY <3>2
  <2>4. Buffers'
    BY <1>2, <1>10, <2>1, <2>3 DEF IInv, Buffers
  <2>5. Links'
    <3> SUFFICES ASSUME NEW a \in Gid, NEW u \in EdgeSides[a], NEW h, h = Across[a][u],
                        NEW t, t = Met[a][u]
                 PROVE  Linked(net'[ranklist[a]][ranklist[h]], Taken(h, t)', Sent(a)',
                               stage'[ranklist[a]], a, u)
      BY DEF Links, Link
    <3>1. h \in Gid /\ t \in EdgeSides[h]
      BY Meeting
    <3>2. Linked(net[ranklist[a]][ranklist[h]], Taken(h, t), Sent(a), stage[ranklist[a]], a, u)
      BY DEF IInv, Links, Link
    <3> QED
      BY <1>2, <1>10, <2>1, <2>3, <3>1, <3>2
  <2>6. Quiet'
    BY <2>1 DEF IInv, Quiet
  <2> QED
    BY <2>2, <2>4, <2>5, <2>6 DEF IInv
<1>13. CASE s \in EdgeSides[g]
  <2> DEFINE t == Met[g][s]
             c == net[q][r]
             d == net'[q][r]
  <2>1. /\ from \in Gid /\ from # g /\ t \in EdgeSides[from] /\ t \in Side
        /\ Across[from][t] = g /\ Met[from][t] = s
        /\ \A u \in EdgeSides[from] : Across[from][u] = g => u = t
        /\ \A u \in EdgeSides[g] : Across[g][u] = from => u = s
        /\ Across[g][s] = from /\ Met[g][s] = t
    <3>1. /\ from \in Gid /\ from # g /\ t \in EdgeSides[from]
          /\ Across[from][t] = g /\ Met[from][t] = s
          /\ \A u \in EdgeSides[g] : Across[g][u] = from => u = s
      BY <1>13, Meeting
    <3>2. \A u \in EdgeSides[from] : Across[from][u] = g => u = t
      BY <3>1, Meeting
    <3> QED
      BY <3>1, <3>2 DEF EdgeSides
  <2> HIDE DEF from, t
  <2>2. c \in Seq(MessageType) /\ Len(c) \in Nat /\ DOMAIN c = 1 .. Len(c)
    <3>1. c \in Seq(MessageType)
      BY <1>1, <1>4, <2>1, Channels
    <3> HIDE DEF c
    <3> QED
      BY <3>1, LenProperties
  <2>3. Linked(c, n - 1, Sent(from), stage[q], from, t)
    <3>1. Link(from, t, g, s)
      BY <2>1 DEF IInv, Links
    <3> QED
      BY <1>1, <1>8, <3>1 DEF Link
  <2>4. found = 1 .. Len(c)
    <3>1. \A j \in 1 .. Len(c) : c[j].tag = DirTag(s, from, g)
      <4> SUFFICES ASSUME NEW j \in 1 .. Len(c) PROVE c[j].tag = DirTag(s, from, g)
        OBVIOUS
      <4> HIDE DEF c
      <4>1. Carries(c[j], from, t, n - 1 + j)
        BY <2>3 DEF Linked
      <4>2. c[j].tag = DirTag(Met[from][t], from, Across[from][t])
        BY <4>1 DEF Carries
      <4> QED
        BY <2>1, <4>2
    <3>2. found = { j \in DOMAIN c : c[j].tag = DirTag(s, from, g) }
      BY DEF Matching
    <3> HIDE DEF c, found
    <3> QED
      BY <2>2, <3>1, <3>2
  <2>5. Len(c) > 0 /\ found # {}
    <3>1. found # {}
      BY <1>2, <1>13 DEF Arrived
    <3> HIDE DEF c, found
    <3> QED
      BY <2>2, <2>4, <3>1
  <2>6. k = 1
    <3>1. 1 \in found /\ \A j \in found : j \in Int /\ 1 <= j
      BY <2>2, <2>4, <2>5
    <3> HIDE DEF found
    <3> QED
      BY <3>1 DEF Min
  <2>7. Content(c[1]) = Face(from, t, n)
    <3>1. n - 1 \in Nat /\ (n - 1) + 1 = n /\ 1 \in 1 .. Len(c)
      BY <1>5, <2>2, <2>5, StagesAssumption
    <3> DEFINE p == n - 1
    <3>2. Linked(c, p, Sent(from), stage[ranklist[from]], from, t)
      BY <2>3
    <3> HIDE DEF c, p
    <3>3. Content(c[1]) = Face(from, t, p + 1)
      BY <2>1, <2>2, <3>1, <3>2, Contents DEF p
    <3> QED
      BY <3>1, <3>3 DEF p
  <2>8. /\ lr' = [lr EXCEPT ![g][s] = Unpacked(lr[g][s], s, Face(from, t, n))]
        /\ net' = [net EXCEPT ![q][r] = RemoveAt(c, 1)]
    BY <1>2, <1>13, <2>5, <2>6, <2>7
  <2> HIDE DEF k, found
  <2>9. q \in Rank /\ q # r
    BY <1>1, <1>6, <2>1
  <2>10. d \in Seq(MessageType) /\ Len(d) = Len(c) - 1 /\ \A j \in 1 .. Len(c) - 1 : d[j] = c[j + 1]
    <3>1. d = RemoveAt(c, 1)
      BY <1>4, <2>8, <2>9 DEF Typed
    <3> QED
      BY <2>2, <2>5, <3>1, FirstRemoved
  <2>11. \A a, b \in Gid : a # from \/ b # g
           => net'[ranklist[a]][ranklist[b]] = net[ranklist[a]][ranklist[b]]
    BY <1>1, <1>4, <1>6, <2>1, <2>8, <2>9 DEF Typed, OneBlockPerRank
  <2>12. Typed'
    <3>1. Face(from, t, n) \in StripType
      BY <1>5, <2>1, FaceType
    <3>2. Unpacked(lr[g][s], s, Face(from, t, n)) \in [L : StripType \union {Nil}, R : StripType \union {Nil}]
      <4> HIDE DEF from, t, n
      <4>1. lr[g][s] \in [L : StripType \union {Nil}, R : StripType \union {Nil}]
        BY <1>3, <1>4 DEF Typed
      <4> QED
        BY <3>1, <4>1 DEF Unpacked
    <3>3. lr' \in [Gid -> [Side -> [L : StripType \union {Nil}, R : StripType \union {Nil}]]]
      BY <1>3, <1>4, <2>8, <3>2 DEF Typed
    <3>4. net' \in [Rank -> [Rank -> Seq(MessageType)]]
      <4>1. RemoveAt(c, 1) \in Seq(MessageType)
        BY <2>2, <2>5, FirstRemoved
      <4> HIDE DEF q, c
      <4> QED
        BY <1>4, <2>8, <2>9, <4>1 DEF Typed
    <3> QED
      BY <1>11, <3>3, <3>4 DEF Typed
  <2>13. Quiet'
    <3> SUFFICES ASSUME NEW a \in Gid, NEW h \in Gid, \A u \in EdgeSides[a] : Across[a][u] # h
                 PROVE  net'[ranklist[a]][ranklist[h]] = << >>
      BY DEF Quiet
    <3>1. a # from \/ h # g
      BY <2>1
    <3> QED
      BY <2>11, <3>1 DEF IInv, Quiet
  <2>14. Links'
    <3> SUFFICES ASSUME NEW a \in Gid, NEW u \in EdgeSides[a], NEW h, h = Across[a][u],
                        NEW v, v = Met[a][u]
                 PROVE  Linked(net'[ranklist[a]][ranklist[h]], Taken(h, v)', Sent(a)',
                               stage'[ranklist[a]], a, u)
      BY DEF Links, Link
    <3>1. h \in Gid /\ v \in EdgeSides[h] /\ Across[h][v] = a
      BY Mutual
    <3>2. Linked(net[ranklist[a]][ranklist[h]], Taken(h, v), Sent(a), stage[ranklist[a]], a, u)
      BY DEF IInv, Links, Link
    <3>3. CASE a = from /\ h = g
      <4>1. u = t /\ v = s
        BY <2>1, <3>3
      <4>2. n - 1 \in Nat /\ Sent(from) \in Nat /\ (n - 1) + 1 = n
        <5>1. Sent(from) \in 0 .. Stages
          BY <1>4, <2>1, CountTypes
        <5> HIDE DEF n
        <5> QED
          BY <1>5, <5>1, StagesAssumption
      <4>3. Linked(d, n, Sent(from), stage[q], from, t)
        <5> HIDE DEF from, t, c, d, n, q
        <5> QED
          BY <2>2, <2>3, <2>5, <2>10, <4>2, LinkTaken
      <4> QED
        BY <1>1, <1>2, <1>8, <1>10, <2>1, <3>3, <4>1, <4>3
    <3>4. CASE a # from \/ h # g
      <4>1. Taken(h, v)' = Taken(h, v)
        <5>1. CASE h # g
          BY <1>7, <3>1, <5>1
        <5>2. CASE h = g
          <6>1. v # s /\ v \in Side
            BY <2>1, <3>1, <3>4, <5>2 DEF EdgeSides
          <6> QED
            BY <1>9, <5>2, <6>1
        <5> QED
          BY <5>1, <5>2
      <4> QED
        BY <1>2, <1>10, <2>11, <3>1, <3>2, <3>4, <4>1
    <3> QED
      BY <3>3, <3>4
  <2>15. Buffers'
    <3> SUFFICES ASSUME NEW h \in Gid, NEW u \in EdgeSides[h], Sent(h)' > 0
                 PROVE  /\ buf'[h][u] = Face(h, u, Sent(h)')
                        /\ Within(lr'[h][u], u) = Strip(h, u, Sent(h)')
                        /\ Taken(h, u)' = Sent(h)'
                             => Outside(lr'[h][u], u) = Face(Across[h][u], Met[h][u], Sent(h)')
      BY DEF Buffers
    <3>1. u \in Side /\ Sent(h)' = Sent(h)
      BY <1>10 DEF EdgeSides
    <3>2. /\ buf[h][u] = Face(h, u, Sent(h)) /\ Within(lr[h][u], u) = Strip(h, u, Sent(h))
          /\ Taken(h, u) = Sent(h)
               => Outside(lr[h][u], u) = Face(Across[h][u], Met[h][u], Sent(h))
      BY <3>1 DEF IInv, Buffers
    <3>3. CASE h = g /\ u = s
      <4>1. lr'[g][s] = Unpacked(lr[g][s], s, Face(from, t, n))
        BY <1>3, <1>4, <2>8 DEF Typed
      <4>2. lr[g][s] \in [L : StripType \union {Nil}, R : StripType \union {Nil}]
        BY <1>3, <1>4 DEF Typed
      <4>3. /\ Within(lr'[g][s], s) = Within(lr[g][s], s)
            /\ Outside(lr'[g][s], s) = Face(from, t, n)
        <5> HIDE DEF from, t, n
        <5> QED
          BY <1>3, <4>1, <4>2 DEF Unpacked, Within, Outside, StoredLeft, SentLeft, Side
      <4> QED
        BY <1>2, <1>8, <2>1, <3>1, <3>2, <3>3, <4>3
    <3>4. CASE h # g \/ u # s
      <4>1. lr'[h][u] = lr[h][u]
        BY <1>3, <1>4, <2>8, <3>1, <3>4 DEF Typed
      <4>2. Taken(h, u)' = Taken(h, u)
        BY <1>7, <1>9, <3>1, <3>4
      <4> QED
        BY <1>2, <3>1, <3>2, <4>1, <4>2
    <3> QED
      BY <3>3, <3>4
  <2> QED
    BY <2>12, <2>13, <2>14, <2>15 DEF IInv
<1> QED
  BY <1>12, <1>13

LEMMA WaitStep ==
  ASSUME OneBlockPerRank, IInv, NEW r \in Rank, Wait(r) \/ WaitBuffered(r)
  PROVE  IInv'
<1>1. PICK g \in Gid : r = ranklist[g] /\ Current(r) = g /\ Mine[r] = <<g>>
  BY TheBlock DEF IInv
<1> DEFINE n == stage[r]
           next == IF n = Stages THEN "done" ELSE "send"
<1>2. Typed
  BY DEF IInv
<1>3. /\ pc[r] = "wait" /\ lr' = lr /\ buf' = buf /\ turn' = [turn EXCEPT ![r] = 1]
      /\ stage' = [stage EXCEPT ![r] = n + 1] /\ pc' = [pc EXCEPT ![r] = next]
  <2>1. turn[r] = Len(Mine[r])
    BY <1>1, <1>2 DEF Typed
  <2> QED
    BY <2>1 DEF Wait, WaitBuffered, Advance
<1>4. n \in 1 .. Stages /\ turn' = turn /\ stage'[r] = n + 1 /\ pc'[r] = next
  BY <1>2, <1>3, StagesAssumption DEF Typed
<1>5. \A h \in Gid : ranklist[h] \in Rank /\ (h # g => ranklist[h] # r)
  BY <1>1 DEF OneBlockPerRank, Rank
<1>6. \A h \in Gid : h # g => Sent(h)' = Sent(h) /\ \A u : Taken(h, u)' = Taken(h, u)
  BY <1>2, <1>3, <1>5, Unmoved DEF Typed
<1>7. Sent(g) = n /\ Sent(g)' = n
  BY <1>1, <1>3, <1>4 DEF Sent
<1>8. \A u \in Side : Taken(g, u) = n /\ Taken(g, u)' = n
  <2>1. \A u \in Side : "wait" \in After(u) /\ "send" \notin After(u) /\ "done" \notin After(u)
    BY DEF After, Side
  <2> QED
    BY <1>1, <1>3, <1>4, <2>1 DEF Taken
<1>9. \A h \in Gid : Sent(h)' = Sent(h) /\ \A u \in Side : Taken(h, u)' = Taken(h, u)
  BY <1>6, <1>7, <1>8
<1>10. \A a, h \in Gid : a # g => net'[ranklist[a]][ranklist[h]] = net[ranklist[a]][ranklist[h]]
  BY <1>1, <1>2, <1>5 DEF Typed, Wait, WaitBuffered
\* What is left of what g sent has been copied.
<1>11. ASSUME NEW q \in Rank
       PROVE  LET c == net[r][q]
                  d == net'[r][q]
              IN /\ Len(d) = Len(c) /\ d \in Seq(MessageType)
                 /\ \A i \in 1 .. Len(c) :
                      /\ d[i].tag = c[i].tag /\ d[i].block = c[i].block /\ d[i].side = c[i].side
                      /\ c[i].block = g => d[i].kept = Content(c[i])
  <2> DEFINE c == net[r][q]
             d == net'[r][q]
  <2>1. c \in Seq(MessageType) /\ Len(c) \in Nat /\ DOMAIN c = 1 .. Len(c)
        /\ \A i \in 1 .. Len(c) : c[i] \in MessageType
    <3>1. c \in Seq(MessageType)
      BY <1>2 DEF Typed
    <3> HIDE DEF c
    <3> QED
      BY <3>1, LenProperties, ElementOfSeq
  <2>2. CASE Wait(r)
    <3>1. d = c
      BY <2>2 DEF Wait
    <3>2. \A i \in 1 .. Len(c) : ~ Pending(c[i], g)
      BY <1>1, <2>1, <2>2 DEF Wait, AnyPending
    <3> HIDE DEF c, d
    <3> QED
      BY <2>1, <3>1, <3>2 DEF Pending, Content, c, d
  <2>3. CASE WaitBuffered(r)
    <3>1. d = [i \in DOMAIN c |-> IF Pending(c[i], g)
                                 THEN [c[i] EXCEPT !.kept = Content(c[i])] ELSE c[i]]
      BY <1>1, <1>2, <2>3 DEF WaitBuffered, Typed
    <3>2. \A i \in 1 .. Len(c) : Content(c[i]) \in StripType \union {Nil}
      BY <1>2, <2>1 DEF Typed, Content, MessageType
    <3> HIDE DEF c, d
    <3>3. \A i \in 1 .. Len(c) :
            /\ d[i] \in MessageType
            /\ d[i].tag = c[i].tag /\ d[i].block = c[i].block /\ d[i].side = c[i].side
            /\ c[i].block = g => d[i].kept = Content(c[i])
      <4> SUFFICES ASSUME NEW i \in 1 .. Len(c)
                   PROVE  /\ d[i] \in MessageType
                          /\ d[i].tag = c[i].tag /\ d[i].block = c[i].block /\ d[i].side = c[i].side
                          /\ c[i].block = g => d[i].kept = Content(c[i])
        OBVIOUS
      <4> DEFINE m == c[i]
                 x == Content(c[i])
      <4>1. m \in MessageType /\ x \in StripType \union {Nil}
        BY <2>1, <3>2
      <4>2. d[i] = IF Pending(m, g) THEN [m EXCEPT !.kept = x] ELSE m
        BY <2>1, <3>1
      <4>3. ~ Pending(m, g) /\ m.block = g => x = m.kept
        BY DEF Pending, Content
      <4> HIDE DEF m, x
      <4>4. /\ d[i] \in MessageType
            /\ d[i].tag = m.tag /\ d[i].block = m.block /\ d[i].side = m.side
            /\ m.block = g => d[i].kept = x
        BY <4>1, <4>2, <4>3 DEF MessageType
      <4> QED
        BY <4>4 DEF m, x
    <3>4. d \in Seq(MessageType) /\ Len(d) = Len(c)
      <4>1. d \in [1 .. Len(c) -> MessageType]
        BY <2>1, <3>1, <3>3
      <4> QED
        BY <2>1, <4>1
    <3> QED
      BY <3>3, <3>4 DEF c, d
  <2> QED
    BY <2>2, <2>3
<1>12. Typed'
  <2>1. \A p \in Rank : pc'[p] = "done" <=> stage'[p] = Stages + 1
    <3>1. pc[r] # "done" /\ (next = "done" <=> n + 1 = Stages + 1)
      BY <1>3, <1>4, StagesAssumption
    <3> HIDE DEF next, n
    <3> QED
      BY <1>2, <1>3, <1>4, <3>1 DEF Typed
  <2>2. stage' \in [Rank -> 1 .. Stages + 1] /\ pc' \in [Rank -> Pc]
    <3>1. n + 1 \in 1 .. Stages + 1 /\ next \in Pc
      BY <1>4, StagesAssumption DEF Pc
    <3> HIDE DEF next, n
    <3> QED
      BY <1>2, <1>3, <3>1 DEF Typed
  <2>3. net' \in [Rank -> [Rank -> Seq(MessageType)]]
    <3>1. CASE Wait(r)
      BY <1>2, <3>1 DEF Wait, Typed
    <3>2. CASE WaitBuffered(r)
      <4>1. \A q \in Rank : net'[r][q] \in Seq(MessageType)
        BY <1>11
      <4>2. net' = [net EXCEPT ![r] = net'[r]] /\ DOMAIN net'[r] = Rank
            /\ net'[r] = [q \in Rank |-> net'[r][q]]
        BY <1>2, <3>2 DEF WaitBuffered, Typed
      <4>3. net'[r] \in [Rank -> Seq(MessageType)]
        BY <4>1, <4>2
      <4> QED
        BY <1>2, <4>2, <4>3 DEF Typed
    <3> QED
      BY <3>1, <3>2
  <2> QED
    BY <1>2, <1>3, <1>4, <2>1, <2>2, <2>3 DEF Typed
<1>13. Buffers'
  <2>1. \A h \in Gid : \A u \in EdgeSides[h] : Taken(h, u)' = Taken(h, u) /\ Sent(h)' = Sent(h)
    BY <1>9 DEF EdgeSides
  <2> QED
    BY <1>3, <2>1 DEF IInv, Buffers
<1>14. Quiet'
  <2> SUFFICES ASSUME NEW a \in Gid, NEW h \in Gid, \A u \in EdgeSides[a] : Across[a][u] # h
               PROVE  net'[ranklist[a]][ranklist[h]] = << >>
    BY DEF Quiet
  <2>1. net[ranklist[a]][ranklist[h]] = << >>
    BY DEF IInv, Quiet
  <2>2. CASE a # g
    BY <1>10, <2>1, <2>2
  <2>3. CASE a = g
    <3> DEFINE d == net'[r][ranklist[h]]
    <3>1. d \in Seq(MessageType) /\ Len(d) = 0
      BY <1>1, <1>5, <1>11, <2>1, <2>3
    <3> HIDE DEF d
    <3>2. d = << >>
      BY <3>1, EmptySeq
    <3> QED
      BY <1>1, <2>3, <3>2 DEF d
  <2> QED
    BY <2>2, <2>3
<1>15. Links'
  <2> SUFFICES ASSUME NEW a \in Gid, NEW u \in EdgeSides[a], NEW h, h = Across[a][u],
                      NEW v, v = Met[a][u]
               PROVE  Linked(net'[ranklist[a]][ranklist[h]], Taken(h, v)', Sent(a)',
                             stage'[ranklist[a]], a, u)
    BY DEF Links, Link
  <2> DEFINE c == net[ranklist[a]][ranklist[h]]
             d == net'[ranklist[a]][ranklist[h]]
             k == Taken(h, v)
  <2>1. h \in Gid /\ v \in Side /\ u \in Side
    BY Meeting DEF EdgeSides
  <2>2. Linked(c, k, Sent(a), stage[ranklist[a]], a, u)
    BY DEF IInv, Links, Link
  <2>3. Sent(a)' = Sent(a) /\ Taken(h, v)' = k
    BY <1>9, <2>1
  <2>4. CASE a # g
    <3>1. d = c /\ stage'[ranklist[a]] = stage[ranklist[a]]
      BY <1>2, <1>3, <1>5, <1>10, <2>1, <2>4 DEF Typed
    <3> QED
      BY <2>2, <2>3, <3>1
  <2>5. CASE a = g
    <3>1. Len(c) \in Nat /\ k \in Nat /\ Sent(g) \in 0 .. Stages
      <4>1. Len(c) \in Nat
        BY <1>2, <2>1, Channels, Zenon
      <4>2. Sent(g) \in 0 .. Stages
        BY <1>2, CountTypes
      <4>3. k \in 0 .. Stages
        BY <1>2, <2>1, CountTypes
      <4> HIDE DEF c, k
      <4> QED
        BY <4>1, <4>2, <4>3, StagesAssumption
    <3>2. /\ Len(d) = Len(c)
          /\ \A i \in 1 .. Len(c) :
               /\ d[i].tag = c[i].tag /\ d[i].block = c[i].block /\ d[i].side = c[i].side
               /\ c[i].block = g => d[i].kept = Content(c[i])
      <4>1. ranklist[h] \in Rank /\ ranklist[a] = r
        BY <1>1, <1>5, <2>1, <2>5
      <4> QED
        BY <1>11, <4>1
    <3> HIDE DEF c, d, k
    <3>3. \A i \in 1 .. Len(c) : c[i].block = g /\ Content(c[i]) = Face(g, u, k + i)
      <4>1. \A i \in 1 .. Len(c) : c[i].block = g
        BY <2>2, <2>5 DEF Linked, Carries
      <4>2. \A i \in 1 .. Len(c) : Content(c[i]) = Face(g, u, k + i)
        <5>1. u \in EdgeSides[g] /\ Linked(c, k, Sent(g), stage[ranklist[g]], g, u)
          BY <2>2, <2>5
        <5> QED
          BY <3>1, <5>1, Contents
      <4> QED
        BY <4>1, <4>2
    <3>4. Linked(d, k, Sent(g), n + 1, g, u)
      <4>1. \A i \in 1 .. Len(c) :
              /\ d[i].tag = c[i].tag /\ d[i].block = c[i].block /\ d[i].side = c[i].side
              /\ d[i].kept = Face(g, u, k + i)
        BY <3>2, <3>3
      <4>2. Linked(c, k, Sent(g), stage[ranklist[g]], g, u)
        BY <2>2, <2>5
      <4> QED
        BY <2>1, <3>1, <3>2, <4>1, <4>2, LinkCopied
    <3> QED
      BY <1>1, <1>4, <2>3, <2>5, <3>4 DEF d
  <2> QED
    BY <2>4, <2>5
<1> QED
  BY <1>12, <1>13, <1>14, <1>15 DEF IInv

LEMMA NextStep == OneBlockPerRank /\ IInv /\ [Next]_vars => IInv'
<1> SUFFICES ASSUME OneBlockPerRank, IInv, [Next]_vars PROVE IInv'
  OBVIOUS
<1>1. CASE UNCHANGED vars
  BY <1>1 DEF vars, IInv, Typed, Buffers, Links, Link, Quiet, Sent, Taken
<1>2. ASSUME NEW r \in Rank, Send(r) PROVE IInv'
  BY <1>2, SendStep
<1>3. ASSUME NEW r \in Rank, NEW i \in 1 .. 4, Recv(r, i) PROVE IInv'
  BY <1>3, RecvStep
<1>4. ASSUME NEW r \in Rank, Wait(r) \/ WaitBuffered(r) PROVE IInv'
  BY <1>4, WaitStep
<1> QED
  BY <1>1, <1>2, <1>3, <1>4 DEF Next, Finished

-----------------------------------------------------------------------------
(* The theorems.                                                            *)

\* The invariant is inductive, whatever the placement with one block per rank.
THEOREM Inductive ==
  ASSUME OneBlockPerRank
  PROVE  Spec => []IInv
<1>1. Init => IInv
  BY InitStep
<1>2. IInv /\ [Next]_vars => IInv'
  BY NextStep
<1> QED
  BY <1>1, <1>2, PTL DEF Spec

\* Where a block has completed an exchange, between what it sent and took.
LEMMA Progress ==
  ASSUME OneBlockPerRank, Typed, NEW g \in Gid
  PROVE  /\ Current(ranklist[g]) = g
         /\ Completed(g) \in Nat /\ Sent(g) \in Nat /\ Sent(g) <= Completed(g) + 1
         /\ \A s \in Side : Taken(g, s) \in Nat /\ Completed(g) <= Taken(g, s)
         /\ pc[ranklist[g]] \in {"send", "wait", "done"}
              => Completed(g) = Sent(g) /\ \A s \in Side : Taken(g, s) = Sent(g)
<1> DEFINE r == ranklist[g]
<1>1. r \in Rank /\ Current(r) = g /\ ~ g < g
  <2>1. r \in Rank /\ Mine[r] = <<g>>
    BY OwnBlock
  <2> QED
    BY <2>1 DEF Typed, Current, Gid
<1>2. Completed(g) = IF pc[r] = "wait" THEN stage[r] ELSE stage[r] - 1
  BY <1>1 DEF Completed
<1>3. stage[r] \in 1 .. Stages + 1
  BY <1>1 DEF Typed
<1>4. \A s \in Side : "wait" \in After(s) /\ "send" \notin After(s) /\ "done" \notin After(s)
  BY DEF After, Side
<1> HIDE DEF r
<1> QED
  BY <1>1, <1>2, <1>3, <1>4, StagesAssumption DEF Sent, Taken, r

\* Every variable keeps its type.
THEOREM TypeCorrect ==
  ASSUME OneBlockPerRank
  PROVE  Spec => []TypeOK
<1>1. ASSUME IInv PROVE TypeOK
  <2>1. Typed
    BY <1>1 DEF IInv
  <2>2. \A r \in Rank : turn[r] \in DOMAIN Mine[r]
    <3> SUFFICES ASSUME NEW r \in Rank PROVE turn[r] \in DOMAIN Mine[r]
      OBVIOUS
    <3>1. PICK g \in Gid : Mine[r] = <<g>>
      BY <2>1, TheBlock
    <3> QED
      BY <2>1, <3>1 DEF Typed
  <2>3. ASSUME NEW q \in Rank, NEW r \in Rank, NEW i \in DOMAIN net[q][r]
        PROVE  /\ ranklist[net[q][r][i].block] = q
               /\ net[q][r][i].kept \in StripType \union {Nil}
    <3>1. PICK g \in Gid, h \in Gid : q = ranklist[g] /\ r = ranklist[h]
      BY DEF Rank
    <3> DEFINE c == net[q][r]
    <3>2. c \in Seq(MessageType)
      BY <2>1 DEF Typed
    <3>3. CASE \A s \in EdgeSides[g] : Across[g][s] # h
      <4>1. c = << >>
        BY <1>1, <3>1, <3>3 DEF IInv, Quiet
      <4> QED
        BY <4>1
    <3>4. CASE \E s \in EdgeSides[g] : Across[g][s] = h
      <4>1. PICK s \in EdgeSides[g] : Across[g][s] = h
        BY <3>4
      <4>2. Linked(c, Taken(h, Met[g][s]), Sent(g), stage[q], g, s)
        BY <1>1, <3>1, <4>1 DEF IInv, Links, Link
      <4> HIDE DEF c
      <4>3. i \in 1 .. Len(c) /\ c[i] \in MessageType
        BY <3>2, LenProperties, ElementOfSeq DEF c
      <4>4. c[i].block = g
        BY <4>2, <4>3 DEF Linked, Carries
      <4> QED
        BY <3>1, <4>3, <4>4 DEF MessageType, c
    <3> QED
      BY <3>3, <3>4
  <2> QED
    BY <2>1, <2>2, <2>3 DEF Typed, TypeOK
<1> QED
  BY <1>1, Inductive, PTL

LEMMA Apart ==
  ASSUME NEW a \in Nat, NEW b \in Nat, NEW x \in Nat, NEW y \in Nat,
         b <= x, a <= b, x <= y + 1
  PROVE  a - y <= 1
OBVIOUS

\* Blocks that share a panel edge are never more than one stage apart.
THEOREM NeverTwoStagesApart ==
  ASSUME OneBlockPerRank
  PROVE  Spec => []OneStageApart
<1>1. ASSUME IInv PROVE OneStageApart
  <2> SUFFICES ASSUME NEW g \in Gid, NEW s \in EdgeSides[g]
               PROVE  Completed(g) - Completed(Across[g][s]) <= 1
    BY DEF OneStageApart
  <2> DEFINE h == Across[g][s]
             t == Met[g][s]
  <2>1. h \in Gid /\ t \in EdgeSides[h] /\ Across[h][t] = g /\ Met[h][t] = s /\ s \in Side
    BY Mutual
  <2>2. Link(h, t, g, s) /\ Typed
    BY <1>1, <2>1 DEF IInv, Links
  <2> HIDE DEF h, t
  <2>3. Taken(g, s) <= Sent(h)
    BY <2>2 DEF Link, Linked
  <2>4. Completed(g) \in Nat /\ Taken(g, s) \in Nat /\ Completed(g) <= Taken(g, s)
    BY <2>1, <2>2, Progress, Zenon
  <2>5. Completed(h) \in Nat /\ Sent(h) \in Nat /\ Sent(h) <= Completed(h) + 1
    BY <2>1, <2>2, Progress, Zenon
  <2>6. Completed(g) - Completed(h) <= 1
    BY <2>3, <2>4, <2>5, Apart, Zenon
  <2> QED
    BY <2>6 DEF h
<1> QED
  BY <1>1, Inductive, PTL

\* Both blocks at a panel edge solve the same Riemann problem, cell by cell.
THEOREM SameProblem ==
  ASSUME OneBlockPerRank
  PROVE  Spec => []SameRiemannProblem
<1>1. ASSUME IInv PROVE SameRiemannProblem
  <2>1. Typed
    BY <1>1 DEF IInv
  <2> SUFFICES ASSUME NEW g \in Gid, Completed(g) > 0,
                      Current(ranklist[g]) = g => pc[ranklist[g]] \in {"send", "wait", "done"},
                      NEW s \in EdgeSides[g]
               PROVE  Joined(g, s)
    BY DEF SameRiemannProblem
  <2> DEFINE h == Across[g][s]
             t == Met[g][s]
             n == Completed(g)
             outer == Face(h, t, n)
  <2>2. s \in Side /\ n > 0 /\ Sent(g) = n /\ Taken(g, s) = n
    <3>1. s \in Side
      BY DEF EdgeSides
    <3>2. pc[ranklist[g]] \in {"send", "wait", "done"}
      BY <2>1, Progress
    <3>3. Completed(g) = Sent(g) /\ Taken(g, s) = Sent(g)
      BY <2>1, <3>1, <3>2, Progress
    <3> QED
      BY <3>1, <3>3
  <2>3. Within(lr[g][s], s) = Strip(g, s, n) /\ Outside(lr[g][s], s) = outer
    BY <1>1, <2>2 DEF IInv, Buffers
  <2>4. /\ h \in Gid /\ h # g /\ t \in Side
        /\ \A c \in 0 .. Cells - 1 :
             OnSphere[h][t][IF Inverted(loclist[h], t) THEN Cells - 1 - c ELSE c]
               = OnSphere[g][s][c]
    BY Meeting DEF EdgeSides
  <2>5. n \in 1 .. Stages
    BY <2>1, <2>2, CountTypes
  <2>6. outer # Nil
    BY <2>4, <2>5, FaceType
  <2> HIDE DEF n
  <2>7. outer.stage = n /\ outer.block = h /\ outer.side = t
    BY DEF Face
  <2>8. ASSUME NEW i \in 1 .. Cells
        PROVE  OnSphere[h][t][outer.cells[i]] = OnSphere[g][s][i - 1]
    <3>1. i - 1 \in 0 .. Cells - 1 /\ Cells - 1 - (i - 1) = Cells - i
      BY PanelAssumption
    <3>2. outer.cells[i] = IF Inverted(loclist[h], t) THEN Cells - i ELSE i - 1
      BY DEF Face, Forward, Backward
    <3> HIDE DEF h, t, outer
    <3>3. OnSphere[h][t][IF Inverted(loclist[h], t) THEN Cells - 1 - (i - 1) ELSE i - 1]
            = OnSphere[g][s][i - 1]
      BY <2>4, <3>1
    <3> QED
      BY <3>1, <3>2, <3>3
  <2> HIDE DEF h, t, outer
  <2> QED
    BY <2>3, <2>4, <2>6, <2>7, <2>8, Zenon DEF Joined, Within, Outside, n
<1> QED
  BY <1>1, Inductive, PTL

-----------------------------------------------------------------------------
(* Freedom from deadlock.                                                   *)

\* A set of numbers has a least one.
LEMMA Least ==
  ASSUME NEW S, S \subseteq Nat, S # {}
  PROVE  \E n \in S : \A m \in S : n <= m
<1>1. PICK n \in S : \A m \in S : ~ (<<m, n>> \in OpToRel(<, Nat))
  <2> DEFINE R == OpToRel(<, Nat)
  <2>1. IsWellFoundedOn(R, Nat)
    BY NatLessThanWellFounded
  <2> HIDE DEF R
  <2>2. \E x \in S : \A y \in S : ~ (<<y, x>> \in R)
    BY <2>1, WFMin
  <2> QED
    BY <2>2 DEF R
<1>2. \A m \in S : m \in Nat /\ n \in Nat /\ ~ (m < n)
  <2> TAKE m \in S
  <2>1. m \in Nat /\ n \in Nat /\ ~ (<<m, n>> \in OpToRel(<, Nat))
    BY <1>1
  <2> QED
    BY <2>1 DEF OpToRel
<1> QED
  BY <1>2

\* A block that receives from one that has sent in the same or a later stage finds
\* its message.
LEMMA Comes ==
  ASSUME OneBlockPerRank, IInv, NEW g \in Gid, NEW s \in EdgeSides[g],
         Taken(g, s) < Sent(Across[g][s])
  PROVE  Arrived(ranklist[Across[g][s]], ranklist[g], DirTag(s, Across[g][s], g))
<1> DEFINE from == Across[g][s]
           t == Met[g][s]
           c == net[ranklist[from]][ranklist[g]]
           k == Taken(g, s)
<1>1. /\ s \in Side /\ from \in Gid /\ t \in EdgeSides[from]
      /\ Across[from][t] = g /\ Met[from][t] = s
  BY Mutual
<1>2. Linked(c, k, Sent(from), stage[ranklist[from]], from, t)
  BY <1>1 DEF IInv, Links, Link
<1>3. c \in Seq(MessageType) /\ Len(c) \in Nat
  BY <1>1, Channels DEF IInv
<1>4. k \in Nat /\ Sent(from) \in Nat /\ k < Sent(from)
  BY <1>1, CountTypes, StagesAssumption DEF IInv
<1> HIDE DEF c, from, t, k
<1>5. 1 \in 1 .. Len(c) /\ DOMAIN c = 1 .. Len(c)
  BY <1>2, <1>3, <1>4, LenProperties DEF Linked
<1>6. Carries(c[1], from, t, k + 1)
  BY <1>2, <1>5 DEF Linked
<1>7. c[1].tag = DirTag(s, from, g)
  BY <1>1, <1>6 DEF Carries
<1>8. 1 \in { j \in DOMAIN c : c[j].tag = DirTag(s, from, g) }
  BY <1>5, <1>7
<1>9. Matching(ranklist[from], ranklist[g], DirTag(s, from, g)) # {}
  BY <1>8 DEF Matching, c
<1> QED
  BY <1>9 DEF Arrived, from

\* MPI still reads a message of a block only if the block across has yet to take it.
LEMMA Uncopied ==
  ASSUME OneBlockPerRank, IInv, NEW g \in Gid, AnyPending(ranklist[g], g)
  PROVE  \E s \in EdgeSides[g] : Taken(Across[g][s], Met[g][s]) < Sent(g)
<1>0. PICK q \in Rank : \E i \in DOMAIN net[ranklist[g]][q] : Pending(net[ranklist[g]][q][i], g)
  BY DEF AnyPending
<1>1. PICK i \in DOMAIN net[ranklist[g]][q] : Pending(net[ranklist[g]][q][i], g)
  BY <1>0
<1>2. PICK h \in Gid : q = ranklist[h]
  BY DEF Rank
<1> DEFINE c == net[ranklist[g]][ranklist[h]]
<1>3. c \in Seq(MessageType) /\ Len(c) \in Nat
  BY Channels DEF IInv
<1>4. c # << >>
  BY <1>1, <1>2
<1>5. PICK s \in EdgeSides[g] : Across[g][s] = h
  BY <1>4 DEF IInv, Quiet
<1>6. Linked(c, Taken(h, Met[g][s]), Sent(g), stage[ranklist[g]], g, s)
  BY <1>5 DEF IInv, Links, Link
<1>7. /\ Met[g][s] \in Side /\ Sent(g) \in Nat /\ Taken(h, Met[g][s]) \in Nat
  BY <1>5, Mutual, CountTypes, StagesAssumption DEF IInv
<1> HIDE DEF c
<1>8. Len(c) # 0
  BY <1>3, <1>4, EmptySeq
<1>9. Taken(h, Met[g][s]) < Sent(g)
  BY <1>3, <1>6, <1>7, <1>8 DEF Linked
<1> QED
  BY <1>5, <1>9

\* Of the ranks that are furthest behind one is not waiting: one that has yet to
\* send; if there is none, one that receives; if all wait, each of them.
THEOREM NoDeadlock ==
  ASSUME OneBlockPerRank
  PROVE  Spec => []NeverAllBlocked
<1>1. ASSUME IInv PROVE NeverAllBlocked
  <2> SUFFICES ASSUME NEW p \in Rank, pc[p] # "done"
               PROVE  \E r \in Rank : Free(r)
    BY DEF NeverAllBlocked
  <2>1. Typed
    BY <1>1 DEF IInv
  <2>2. \A r \in Rank : /\ stage[r] \in 1 .. Stages + 1 /\ stage[r] \in Nat /\ pc[r] \in Pc
                        /\ pc[r] = "done" <=> stage[r] = Stages + 1
    BY <2>1, StagesAssumption DEF Typed
  <2>3. PICK n \in Nat : /\ \E r \in Rank : n = stage[r]
                         /\ \A r \in Rank : n <= stage[r]
    <3> DEFINE S == { stage[r] : r \in Rank }
    <3>1. S \subseteq Nat /\ S # {}
      BY <2>2
    <3>2. PICK m \in S : \A x \in S : m <= x
      BY <3>1, Least
    <3> QED
      BY <3>1, <3>2
  <2>4. n \in 1 .. Stages
    BY <2>2, <2>3, StagesAssumption
  <2>5. \A r \in Rank : stage[r] = n => pc[r] \in Pc \ {"done"}
    BY <2>2, <2>4, StagesAssumption
  <2>6. \A r \in Rank : \E g \in Gid : r = ranklist[g] /\ Current(r) = g
    BY <2>1, TheBlock
  <2>7. \A g \in Gid : ranklist[g] \in Rank
    BY DEF Rank
  <2>8. CASE \E r \in Rank : stage[r] = n /\ pc[r] = "send"
    <3>1. PICK r \in Rank : stage[r] = n /\ pc[r] = "send"
      BY <2>8
    <3>2. \A i \in 1 .. 4 : pc[r] # <<"recv1", "recv2", "recv3", "recv4">>[i]
      BY <3>1
    <3>3. Free(r)
      BY <3>1, <3>2 DEF Free
    <3> QED
      BY <3>3
  <2>9. CASE /\ ~ \E r \in Rank : stage[r] = n /\ pc[r] = "send"
             /\ \E r \in Rank : stage[r] = n /\ pc[r] # "wait"
    <3>1. PICK r \in Rank : stage[r] = n /\ pc[r] # "wait"
      BY <2>9
    <3>2. PICK g \in Gid : r = ranklist[g] /\ Current(r) = g
      BY <2>6
    <3>3. ASSUME NEW i \in 1 .. 4, NEW s, s = neighbor[i], s \in EdgeSides[g],
                 pc[r] = <<"recv1", "recv2", "recv3", "recv4">>[i]
          PROVE  Arrived(ranklist[Across[g][s]], r, DirTag(s, Across[g][s], g))
      <4>1. s \in Side /\ Across[g][s] \in Gid
        BY <3>3, Mutual
      <4>2. pc[r] \notin After(s)
        <5>1. CASE i = 1
          BY <3>3, <5>1 DEF neighbor, After
        <5>2. CASE i = 2
          BY <3>3, <5>2 DEF neighbor, After
        <5>3. CASE i = 3
          BY <3>3, <5>3 DEF neighbor, After
        <5>4. CASE i = 4
          BY <3>3, <5>4 DEF neighbor, After
        <5> QED
          BY <5>1, <5>2, <5>3, <5>4
      <4>3. Taken(g, s) = n - 1
        BY <3>1, <3>2, <4>2 DEF Taken
      <4>4. Sent(Across[g][s]) >= n
        <5> DEFINE q == ranklist[Across[g][s]]
        <5>1. q \in Rank /\ stage[q] \in Nat /\ n <= stage[q]
          BY <2>2, <2>3, <2>7, <4>1
        <5>2. stage[q] = n => pc[q] \notin {"send", "done"}
          BY <2>5, <2>9, <5>1
        <5> HIDE DEF q
        <5>3. n <= IF pc[q] \in {"send", "done"} THEN stage[q] - 1 ELSE stage[q]
          BY <5>1, <5>2
        <5> QED
          BY <5>3 DEF Sent, q
      <4>5. Taken(g, s) < Sent(Across[g][s])
        <5>1. Sent(Across[g][s]) \in Nat
          BY <2>1, <4>1, CountTypes, StagesAssumption
        <5> QED
          BY <4>3, <4>4, <5>1
      <4> QED
        BY <1>1, <3>2, <3>3, <4>5, Comes
    <3>4. pc[r] # "done"
      BY <2>5, <3>1
    <3>5. Free(r)
      BY <3>1, <3>2, <3>3, <3>4 DEF Free
    <3> QED
      BY <3>5
  <2>10. CASE \A r \in Rank : stage[r] = n => pc[r] = "wait"
    <3>1. PICK r \in Rank : stage[r] = n
      BY <2>3
    <3>2. PICK g \in Gid : r = ranklist[g] /\ Current(r) = g
      BY <2>6
    <3>3. ~ AnyPending(r, g)
      <4> SUFFICES ASSUME AnyPending(r, g) PROVE FALSE
        OBVIOUS
      <4>1. PICK s \in EdgeSides[g] : Taken(Across[g][s], Met[g][s]) < Sent(g)
        BY <1>1, <3>2, Uncopied
      <4> DEFINE h == Across[g][s]
                 t == Met[g][s]
                 q == ranklist[h]
      <4>2. h \in Gid /\ t \in Side
        BY Mutual
      <4>3. q \in Rank /\ stage[q] \in Nat /\ n <= stage[q]
        BY <2>2, <2>3, <2>7, <4>2
      <4>4. Sent(g) = n
        BY <2>10, <3>1, <3>2 DEF Sent
      <4>5. stage[q] = n => pc[q] \in After(t)
        <5>1. "wait" \in After(t)
          BY DEF After
        <5> QED
          BY <2>10, <4>3, <5>1
      <4>6. Taken(h, t) >= n
        <5> HIDE DEF q
        <5>1. (IF pc[q] \in After(t) THEN stage[q] ELSE stage[q] - 1) >= n
          BY <4>3, <4>5
        <5> QED
          BY <5>1 DEF Taken, q
      <4>7. Taken(h, t) \in Int
        BY <2>1, <4>2, CountTypes, StagesAssumption
      <4> QED
        BY <4>1, <4>4, <4>6, <4>7
    <3>4. pc[r] = "wait"
      BY <2>10, <3>1
    <3>5. \A i \in 1 .. 4 : pc[r] # <<"recv1", "recv2", "recv3", "recv4">>[i]
      BY <3>4
    <3>6. Free(r)
      BY <3>2, <3>3, <3>4, <3>5 DEF Free
    <3> QED
      BY <3>6
  <2> QED
    BY <2>8, <2>9, <2>10
<1> QED
  BY <1>1, Inductive, PTL

\* Where a block is in a stage; the edges of the blocks, as EdgeStages names them.
LEMMA CompletedIs ==
  ASSUME OneBlockPerRank, Typed, NEW g \in Gid
  PROVE  /\ ranklist[g] \in Rank /\ Current(ranklist[g]) = g
         /\ Completed(g) = IF pc[ranklist[g]] = "wait" THEN stage[ranklist[g]]
                                                       ELSE stage[ranklist[g]] - 1
<1>1. ranklist[g] \in Rank /\ Current(ranklist[g]) = g
  BY OwnBlock, Progress
<1>2. ~ g < g
  BY DEF Gid
<1> QED
  BY <1>1, <1>2 DEF Completed

\* A step completes a stage of a block at most, and then all that the block has
\* waited for was sent by blocks that had completed the stage before.
LEMMA CompleteStep ==
  ASSUME OneBlockPerRank, IInv, IInv', NEW r \in Rank,
         Send(r) \/ Wait(r) \/ WaitBuffered(r) \/ \E i \in 1 .. 4 : Recv(r, i)
  PROVE  \/ \A h \in Gid : Completed(h)' = Completed(h)
         \/ \E g \in Gid :
              /\ Completed(g)' = Completed(g) + 1 /\ Completed(g) < Stages
              /\ \A s \in EdgeSides[g] : Completed(Across[g][s]) >= Completed(g)
              /\ \A h \in Gid : h # g => Completed(h)' = Completed(h)
<1>1. PICK g \in Gid : r = ranklist[g]
  BY DEF Rank
<1>2. Typed /\ Typed'
  BY DEF IInv
<1> DEFINE n == stage[r]
<1>3. \A h \in Gid : ranklist[h] \in Rank /\ (h # g => ranklist[h] # r)
  BY <1>1 DEF OneBlockPerRank, Rank
<1>4. \A h \in Gid :
        Completed(h) = IF pc[ranklist[h]] = "wait" THEN stage[ranklist[h]]
                       ELSE stage[ranklist[h]] - 1
  BY <1>2, CompletedIs
<1>5. \A h \in Gid :
        Completed(h)' = IF pc'[ranklist[h]] = "wait" THEN stage'[ranklist[h]]
                        ELSE stage'[ranklist[h]] - 1
  <2> SUFFICES ASSUME NEW h \in Gid
               PROVE  Completed(h)' = IF pc'[ranklist[h]] = "wait" THEN stage'[ranklist[h]]
                                      ELSE stage'[ranklist[h]] - 1
    OBVIOUS
  <2>1. ranklist[h] \in Rank /\ Mine[ranklist[h]] = <<h>> /\ ~ h < h
    <3>1. ranklist[h] \in Rank /\ Mine[ranklist[h]] = <<h>>
      BY OwnBlock
    <3>2. ~ h < h
      BY DEF Gid
    <3> QED
      BY <3>1, <3>2
  <2>2. turn'[ranklist[h]] = 1
    BY <1>2, <2>1 DEF Typed
  <2>3. Current(ranklist[h])' = h
    BY <2>1, <2>2 DEF Current
  <2> QED
    BY <2>1, <2>3 DEF Completed
<1>6. n \in 1 .. Stages + 1
  BY <1>2 DEF Typed
<1>7. ASSUME NEW x, NEW y, stage' = [stage EXCEPT ![r] = x], pc' = [pc EXCEPT ![r] = y]
      PROVE  \A h \in Gid : h # g => Completed(h)' = Completed(h)
  <2> SUFFICES ASSUME NEW h \in Gid, h # g PROVE Completed(h)' = Completed(h)
    OBVIOUS
  <2>1. stage'[ranklist[h]] = stage[ranklist[h]] /\ pc'[ranklist[h]] = pc[ranklist[h]]
    BY <1>2, <1>3, <1>7 DEF Typed
  <2> QED
    BY <1>4, <1>5, <2>1
<1>8. CASE Send(r)
  <2>1. stage' = stage /\ pc[r] = "send" /\ pc' = [pc EXCEPT ![r] = "recv1"]
    BY <1>8 DEF Send
  <2>2. \A h \in Gid : h # g => Completed(h)' = Completed(h)
    <3>1. stage' = [stage EXCEPT ![r] = stage[r]]
      BY <1>2, <2>1 DEF Typed
    <3> QED
      BY <1>7, <2>1, <3>1
  <2>3. pc'[r] = "recv1"
    BY <1>1, <1>2, <1>3, <2>1 DEF Typed
  <2>4. Completed(g)' = Completed(g)
    BY <1>1, <1>4, <1>5, <2>1, <2>3
  <2> QED
    BY <2>2, <2>4
<1>9. CASE Wait(r) \/ WaitBuffered(r)
  <2>1. turn[r] = Len(Mine[r])
    <3>1. Mine[r] = <<g>>
      BY <1>1, OwnBlock
    <3>2. turn[r] = 1
      BY <1>2 DEF Typed
    <3> QED
      BY <3>1, <3>2
  <2>2. /\ pc[r] = "wait" /\ stage' = [stage EXCEPT ![r] = n + 1]
        /\ pc' = [pc EXCEPT ![r] = IF n = Stages THEN "done" ELSE "send"]
    BY <1>9, <2>1 DEF Wait, WaitBuffered, Advance
  <2>3. \A h \in Gid : h # g => Completed(h)' = Completed(h)
    BY <1>7, <2>2
  <2>4. pc'[r] # "wait" /\ stage'[r] = n + 1
    BY <1>2, <2>2 DEF Typed
  <2>5. Completed(g)' = Completed(g)
    <3>1. Completed(g)' = stage'[r] - 1 /\ Completed(g) = n
      BY <1>1, <1>4, <1>5, <2>2, <2>4
    <3> DEFINE x == stage'[r]
    <3> HIDE DEF n, x
    <3>2. x = n + 1 /\ Completed(g)' = x - 1 /\ Completed(g) = n
      BY <2>4, <3>1 DEF x
    <3> QED
      BY <1>6, <3>2, StagesAssumption
  <2> QED
    BY <2>3, <2>5
<1>10. ASSUME NEW i \in 1 .. 4, Recv(r, i)
       PROVE  \/ \A h \in Gid : Completed(h)' = Completed(h)
              \/ /\ Completed(g)' = Completed(g) + 1 /\ Completed(g) < Stages
                 /\ \A s \in EdgeSides[g] : Completed(Across[g][s]) >= Completed(g)
                 /\ \A h \in Gid : h # g => Completed(h)' = Completed(h)
  <2> DEFINE before == <<"recv1", "recv2", "recv3", "recv4">>[i]
             after == <<"recv2", "recv3", "recv4", "wait">>[i]
  <2>1. stage' = stage /\ pc[r] = before /\ pc' = [pc EXCEPT ![r] = after]
    BY <1>10, Zenon DEF Recv
  <2>2. before # "wait" /\ (after = "wait" \/ after # "wait") /\ before # "done"
    BY DEF Pc
  <2> HIDE DEF before, after
  <2>3. \A h \in Gid : h # g => Completed(h)' = Completed(h)
    <3>1. stage' = [stage EXCEPT ![r] = stage[r]]
      BY <1>2, <2>1 DEF Typed
    <3> QED
      BY <1>7, <2>1, <3>1
  <2>4. pc'[r] = after /\ stage'[r] = n
    BY <1>2, <2>1 DEF Typed
  <2>5. Completed(g) = n - 1
    BY <1>1, <1>4, <2>1, <2>2
  <2>6. CASE after # "wait"
    <3>1. Completed(g)' = n - 1
      BY <1>1, <1>5, <2>4, <2>6
    <3> QED
      BY <2>3, <2>5, <3>1
  <2>7. CASE after = "wait"
    <3>1. Completed(g)' = n
      BY <1>1, <1>5, <2>4, <2>7
    <3>2. n # Stages + 1
      BY <1>2, <2>1, <2>2 DEF Typed
    <3>3. ASSUME NEW s \in EdgeSides[g]
          PROVE  Completed(Across[g][s]) >= Completed(g)
      <4> DEFINE h == Across[g][s]
                 t == Met[g][s]
      <4>1. /\ s \in Side /\ h \in Gid /\ h # g /\ t \in Side /\ t \in EdgeSides[h]
            /\ Across[h][t] = g /\ Met[h][t] = s
        BY Mutual
      <4> HIDE DEF h, t
      <4>2. Link(h, t, g, s)'
        BY <4>1 DEF IInv, Links
      <4>3. Taken(g, s)' <= Sent(h)'
        BY <4>2 DEF Link, Linked
      <4>4. Taken(g, s)' = n
        <5>1. "wait" \in After(s)
          BY <4>1 DEF After, Side
        <5> QED
          BY <1>1, <2>4, <2>7, <5>1 DEF Taken
      <4>5. Sent(h)' \in {stage[ranklist[h]] - 1, stage[ranklist[h]]}
        BY <2>1 DEF Sent
      <4>6. /\ stage[ranklist[h]] \in 1 .. Stages + 1
            /\ Completed(h) \in {stage[ranklist[h]] - 1, stage[ranklist[h]]}
        BY <1>2, <1>3, <1>4, <4>1 DEF Typed
      <4>7. Completed(h) >= n - 1
        <5> DEFINE x == stage[ranklist[h]]
        <5> HIDE DEF x, n
        <5>1. Sent(h)' \in {x - 1, x} /\ x \in 1 .. Stages + 1 /\ Completed(h) \in {x - 1, x}
          BY <4>5, <4>6 DEF x
        <5> QED
          BY <1>6, <4>3, <4>4, <5>1, StagesAssumption
      <4> QED
        BY <2>5, <4>7 DEF h
    <3>4. Completed(g)' = Completed(g) + 1 /\ Completed(g) < Stages
      <4> HIDE DEF n
      <4> QED
        BY <1>6, <2>5, <3>1, <3>2, StagesAssumption
    <3> QED
      BY <2>3, <3>3, <3>4, Zenon
  <2> QED
    BY <2>6, <2>7
<1> QED
  BY <1>8, <1>9, <1>10

\* The exchange implements the abstract order of the stages.
THEOREM Refinement ==
  ASSUME OneBlockPerRank
  PROVE  Spec => ImplementsEdgeStages
<1> DEFINE completed == [g \in Gid |-> Completed(g)]
<1>1. Init => Abstract!Init
  <2> SUFFICES ASSUME Init PROVE completed = [g \in Gid |-> 0]
    BY DEF Abstract!Init
  <2> SUFFICES ASSUME NEW g \in Gid PROVE Completed(g) = 0
    OBVIOUS
  <2>1. Typed
    BY InitStep DEF IInv
  <2>2. ranklist[g] \in Rank
    BY OwnBlock
  <2> QED
    BY <2>1, <2>2, CompletedIs DEF Init
<1>2. IInv /\ [Next]_vars => [Abstract!Next]_completed
  <2> SUFFICES ASSUME IInv, [Next]_vars
               PROVE  Abstract!Next \/ completed' = completed
    OBVIOUS
  <2>1. CASE UNCHANGED vars
    BY <2>1 DEF vars, Completed, Current
  <2>2. ASSUME NEW r \in Rank,
               Send(r) \/ Wait(r) \/ WaitBuffered(r) \/ \E i \in 1 .. 4 : Recv(r, i)
        PROVE  Abstract!Next \/ completed' = completed
    <3>1. IInv'
      BY <2>2, SendStep, RecvStep, WaitStep
    <3>2. CASE \A h \in Gid : Completed(h)' = Completed(h)
      BY <3>2
    <3>3. ASSUME NEW g \in Gid,
                 Completed(g)' = Completed(g) + 1, Completed(g) < Stages,
                 \A s \in EdgeSides[g] : Completed(Across[g][s]) >= Completed(g),
                 \A h \in Gid : h # g => Completed(h)' = Completed(h)
          PROVE  Abstract!Next
      <4>1. completed' = [completed EXCEPT ![g] = completed[g] + 1]
        BY <3>3
      <4>2. \A h \in Gid : (\E s \in EdgeSides[g] : Across[g][s] = h) => completed[h] >= completed[g]
        BY <3>3
      <4>3. completed[g] < Stages
        BY <3>3
      <4>4. Abstract!Complete(g)
        BY <4>1, <4>2, <4>3 DEF Abstract!Complete
      <4> QED
        BY <4>4 DEF Abstract!Next
    <3> QED
      BY <2>2, <3>1, <3>2, <3>3, CompleteStep
  <2> QED
    BY <2>1, <2>2 DEF Next, Finished
<1> QED
  BY <1>1, <1>2, Inductive, PTL DEF Spec, ImplementsEdgeStages, Abstract!Spec

-----------------------------------------------------------------------------
(* The ghost cells.                                                         *)

\* The four sides.
LEMMA Numbers ==
  /\ Number("up") + 1 = 1 /\ Number("down") + 1 = 2
  /\ Number("left") + 1 = 3 /\ Number("right") + 1 = 4
  /\ CrossesX2("up") /\ CrossesX2("down") /\ ~ CrossesX2("left") /\ ~ CrossesX2("right")
  /\ AtStart("up") /\ ~ AtStart("down") /\ AtStart("left") /\ ~ AtStart("right")
BY DEF Number, CrossesX2, AtStart

\* What the tables say of side s of panel p: it meets side t of panel q, the
\* cells run backwards along it (v), how it is packed and where q lies.
Row(p, s, q, t, v, way, end) ==
  /\ Joint(p, s) = Crossing(q, t, v)
  /\ dinv[p][Number(s) + 1] = 1 <=> v
  /\ tgbid[p][Number(s) + 1] = q
  /\ Turn[p][Number(s) + 1] = way
  /\ tgside[p][Number(s) + 1] = end

\* The tables, row by row.
LEMMA Rows ==
  /\ Row(1, "up", 6, "up", TRUE, 2, -1)
  /\ Row(1, "down", 2, "up", FALSE, 0, -1)
  /\ Row(1, "left", 3, "up", FALSE, 3, -1)
  /\ Row(1, "right", 4, "up", TRUE, 1, -1)
  /\ Row(2, "up", 1, "down", FALSE, 0, 1)
  /\ Row(2, "down", 5, "up", FALSE, 0, -1)
  /\ Row(2, "left", 3, "right", FALSE, 0, 1)
  /\ Row(2, "right", 4, "left", FALSE, 0, -1)
  /\ Row(3, "up", 1, "left", FALSE, 1, -1)
  /\ Row(3, "down", 5, "left", TRUE, 3, -1)
  /\ Row(3, "left", 6, "right", FALSE, 0, 1)
  /\ Row(3, "right", 2, "left", FALSE, 0, -1)
  /\ Row(4, "up", 1, "right", TRUE, 3, 1)
  /\ Row(4, "down", 5, "right", FALSE, 1, 1)
  /\ Row(4, "left", 2, "right", FALSE, 0, 1)
  /\ Row(4, "right", 6, "left", FALSE, 0, -1)
  /\ Row(5, "up", 2, "down", FALSE, 0, 1)
  /\ Row(5, "down", 6, "down", TRUE, 2, 1)
  /\ Row(5, "left", 3, "down", TRUE, 1, 1)
  /\ Row(5, "right", 4, "down", FALSE, 3, 1)
  /\ Row(6, "up", 1, "up", TRUE, 2, -1)
  /\ Row(6, "down", 5, "down", TRUE, 2, 1)
  /\ Row(6, "left", 4, "right", FALSE, 0, 1)
  /\ Row(6, "right", 3, "left", FALSE, 0, -1)
<1>1. /\ Row(1, "up", 6, "up", TRUE, 2, -1)
      /\ Row(1, "down", 2, "up", FALSE, 0, -1)
      /\ Row(1, "left", 3, "up", FALSE, 3, -1)
      /\ Row(1, "right", 4, "up", TRUE, 1, -1)
  <2>1. /\ dinv[1] = <<1, 0, 0, 1>> /\ tgbid[1] = <<6, 2, 3, 4>>
        /\ Turn[1] = <<2, 0, 3, 1>> /\ tgside[1] = <<-1, -1, -1, -1>>
    BY DEF dinv, tgbid, Turn, tgside
  <2>2. /\ dinv[1][1] = 1 /\ tgbid[1][1] = 6 /\ Turn[1][1] = 2 /\ tgside[1][1] = -1
        /\ dinv[1][2] # 1 /\ tgbid[1][2] = 2 /\ Turn[1][2] = 0 /\ tgside[1][2] = -1
        /\ dinv[1][3] # 1 /\ tgbid[1][3] = 3 /\ Turn[1][3] = 3 /\ tgside[1][3] = -1
        /\ dinv[1][4] = 1 /\ tgbid[1][4] = 4 /\ Turn[1][4] = 1 /\ tgside[1][4] = -1
    BY <2>1
  <2>3. Row(1, "up", 6, "up", TRUE, 2, -1)
    BY <2>2, Numbers, JointTable DEF Row
  <2>4. Row(1, "down", 2, "up", FALSE, 0, -1)
    BY <2>2, Numbers, JointTable DEF Row
  <2>5. Row(1, "left", 3, "up", FALSE, 3, -1)
    BY <2>2, Numbers, JointTable DEF Row
  <2>6. Row(1, "right", 4, "up", TRUE, 1, -1)
    BY <2>2, Numbers, JointTable DEF Row
  <2> QED
    BY <2>3, <2>4, <2>5, <2>6
<1>2. /\ Row(2, "up", 1, "down", FALSE, 0, 1)
      /\ Row(2, "down", 5, "up", FALSE, 0, -1)
      /\ Row(2, "left", 3, "right", FALSE, 0, 1)
      /\ Row(2, "right", 4, "left", FALSE, 0, -1)
  <2>1. /\ dinv[2] = <<0, 0, 0, 0>> /\ tgbid[2] = <<1, 5, 3, 4>>
        /\ Turn[2] = <<0, 0, 0, 0>> /\ tgside[2] = <<1, -1, 1, -1>>
    BY DEF dinv, tgbid, Turn, tgside
  <2>2. /\ dinv[2][1] # 1 /\ tgbid[2][1] = 1 /\ Turn[2][1] = 0 /\ tgside[2][1] = 1
        /\ dinv[2][2] # 1 /\ tgbid[2][2] = 5 /\ Turn[2][2] = 0 /\ tgside[2][2] = -1
        /\ dinv[2][3] # 1 /\ tgbid[2][3] = 3 /\ Turn[2][3] = 0 /\ tgside[2][3] = 1
        /\ dinv[2][4] # 1 /\ tgbid[2][4] = 4 /\ Turn[2][4] = 0 /\ tgside[2][4] = -1
    BY <2>1
  <2>3. Row(2, "up", 1, "down", FALSE, 0, 1)
    BY <2>2, Numbers, JointTable DEF Row
  <2>4. Row(2, "down", 5, "up", FALSE, 0, -1)
    BY <2>2, Numbers, JointTable DEF Row
  <2>5. Row(2, "left", 3, "right", FALSE, 0, 1)
    BY <2>2, Numbers, JointTable DEF Row
  <2>6. Row(2, "right", 4, "left", FALSE, 0, -1)
    BY <2>2, Numbers, JointTable DEF Row
  <2> QED
    BY <2>3, <2>4, <2>5, <2>6
<1>3. /\ Row(3, "up", 1, "left", FALSE, 1, -1)
      /\ Row(3, "down", 5, "left", TRUE, 3, -1)
      /\ Row(3, "left", 6, "right", FALSE, 0, 1)
      /\ Row(3, "right", 2, "left", FALSE, 0, -1)
  <2>1. /\ dinv[3] = <<0, 1, 0, 0>> /\ tgbid[3] = <<1, 5, 6, 2>>
        /\ Turn[3] = <<1, 3, 0, 0>> /\ tgside[3] = <<-1, -1, 1, -1>>
    BY DEF dinv, tgbid, Turn, tgside
  <2>2. /\ dinv[3][1] # 1 /\ tgbid[3][1] = 1 /\ Turn[3][1] = 1 /\ tgside[3][1] = -1
        /\ dinv[3][2] = 1 /\ tgbid[3][2] = 5 /\ Turn[3][2] = 3 /\ tgside[3][2] = -1
        /\ dinv[3][3] # 1 /\ tgbid[3][3] = 6 /\ Turn[3][3] = 0 /\ tgside[3][3] = 1
        /\ dinv[3][4] # 1 /\ tgbid[3][4] = 2 /\ Turn[3][4] = 0 /\ tgside[3][4] = -1
    BY <2>1
  <2>3. Row(3, "up", 1, "left", FALSE, 1, -1)
    BY <2>2, Numbers, JointTable DEF Row
  <2>4. Row(3, "down", 5, "left", TRUE, 3, -1)
    BY <2>2, Numbers, JointTable DEF Row
  <2>5. Row(3, "left", 6, "right", FALSE, 0, 1)
    BY <2>2, Numbers, JointTable DEF Row
  <2>6. Row(3, "right", 2, "left", FALSE, 0, -1)
    BY <2>2, Numbers, JointTable DEF Row
  <2> QED
    BY <2>3, <2>4, <2>5, <2>6
<1>4. /\ Row(4, "up", 1, "right", TRUE, 3, 1)
      /\ Row(4, "down", 5, "right", FALSE, 1, 1)
      /\ Row(4, "left", 2, "right", FALSE, 0, 1)
      /\ Row(4, "right", 6, "left", FALSE, 0, -1)
  <2>1. /\ dinv[4] = <<1, 0, 0, 0>> /\ tgbid[4] = <<1, 5, 2, 6>>
        /\ Turn[4] = <<3, 1, 0, 0>> /\ tgside[4] = <<1, 1, 1, -1>>
    BY DEF dinv, tgbid, Turn, tgside
  <2>2. /\ dinv[4][1] = 1 /\ tgbid[4][1] = 1 /\ Turn[4][1] = 3 /\ tgside[4][1] = 1
        /\ dinv[4][2] # 1 /\ tgbid[4][2] = 5 /\ Turn[4][2] = 1 /\ tgside[4][2] = 1
        /\ dinv[4][3] # 1 /\ tgbid[4][3] = 2 /\ Turn[4][3] = 0 /\ tgside[4][3] = 1
        /\ dinv[4][4] # 1 /\ tgbid[4][4] = 6 /\ Turn[4][4] = 0 /\ tgside[4][4] = -1
    BY <2>1
  <2>3. Row(4, "up", 1, "right", TRUE, 3, 1)
    BY <2>2, Numbers, JointTable DEF Row
  <2>4. Row(4, "down", 5, "right", FALSE, 1, 1)
    BY <2>2, Numbers, JointTable DEF Row
  <2>5. Row(4, "left", 2, "right", FALSE, 0, 1)
    BY <2>2, Numbers, JointTable DEF Row
  <2>6. Row(4, "right", 6, "left", FALSE, 0, -1)
    BY <2>2, Numbers, JointTable DEF Row
  <2> QED
    BY <2>3, <2>4, <2>5, <2>6
<1>5. /\ Row(5, "up", 2, "down", FALSE, 0, 1)
      /\ Row(5, "down", 6, "down", TRUE, 2, 1)
      /\ Row(5, "left", 3, "down", TRUE, 1, 1)
      /\ Row(5, "right", 4, "down", FALSE, 3, 1)
  <2>1. /\ dinv[5] = <<0, 1, 1, 0>> /\ tgbid[5] = <<2, 6, 3, 4>>
        /\ Turn[5] = <<0, 2, 1, 3>> /\ tgside[5] = <<1, 1, 1, 1>>
    BY DEF dinv, tgbid, Turn, tgside
  <2>2. /\ dinv[5][1] # 1 /\ tgbid[5][1] = 2 /\ Turn[5][1] = 0 /\ tgside[5][1] = 1
        /\ dinv[5][2] = 1 /\ tgbid[5][2] = 6 /\ Turn[5][2] = 2 /\ tgside[5][2] = 1
        /\ dinv[5][3] = 1 /\ tgbid[5][3] = 3 /\ Turn[5][3] = 1 /\ tgside[5][3] = 1
        /\ dinv[5][4] # 1 /\ tgbid[5][4] = 4 /\ Turn[5][4] = 3 /\ tgside[5][4] = 1
    BY <2>1
  <2>3. Row(5, "up", 2, "down", FALSE, 0, 1)
    BY <2>2, Numbers, JointTable DEF Row
  <2>4. Row(5, "down", 6, "down", TRUE, 2, 1)
    BY <2>2, Numbers, JointTable DEF Row
  <2>5. Row(5, "left", 3, "down", TRUE, 1, 1)
    BY <2>2, Numbers, JointTable DEF Row
  <2>6. Row(5, "right", 4, "down", FALSE, 3, 1)
    BY <2>2, Numbers, JointTable DEF Row
  <2> QED
    BY <2>3, <2>4, <2>5, <2>6
<1>6. /\ Row(6, "up", 1, "up", TRUE, 2, -1)
      /\ Row(6, "down", 5, "down", TRUE, 2, 1)
      /\ Row(6, "left", 4, "right", FALSE, 0, 1)
      /\ Row(6, "right", 3, "left", FALSE, 0, -1)
  <2>1. /\ dinv[6] = <<1, 1, 0, 0>> /\ tgbid[6] = <<1, 5, 4, 3>>
        /\ Turn[6] = <<2, 2, 0, 0>> /\ tgside[6] = <<-1, 1, 1, -1>>
    BY DEF dinv, tgbid, Turn, tgside
  <2>2. /\ dinv[6][1] = 1 /\ tgbid[6][1] = 1 /\ Turn[6][1] = 2 /\ tgside[6][1] = -1
        /\ dinv[6][2] = 1 /\ tgbid[6][2] = 5 /\ Turn[6][2] = 2 /\ tgside[6][2] = 1
        /\ dinv[6][3] # 1 /\ tgbid[6][3] = 4 /\ Turn[6][3] = 0 /\ tgside[6][3] = 1
        /\ dinv[6][4] # 1 /\ tgbid[6][4] = 3 /\ Turn[6][4] = 0 /\ tgside[6][4] = -1
    BY <2>1
  <2>3. Row(6, "up", 1, "up", TRUE, 2, -1)
    BY <2>2, Numbers, JointTable DEF Row
  <2>4. Row(6, "down", 5, "down", TRUE, 2, 1)
    BY <2>2, Numbers, JointTable DEF Row
  <2>5. Row(6, "left", 4, "right", FALSE, 0, 1)
    BY <2>2, Numbers, JointTable DEF Row
  <2>6. Row(6, "right", 3, "left", FALSE, 0, -1)
    BY <2>2, Numbers, JointTable DEF Row
  <2> QED
    BY <2>3, <2>4, <2>5, <2>6
<1> QED
  BY <1>1, <1>2, <1>3, <1>4, <1>5, <1>6

-----------------------------------------------------------------------------
(* The sphere.                                                              *)

\* The point w beyond side s of a panel and at x along it.
Beyond(s, x, w) ==
  CASE s = "up"   -> <<-w, x>>
    [] s = "down" -> <<w, x>>
    [] s = "left" -> <<x, -w>>
    [] OTHER      -> <<x, w>>

\* The interpolation's coordinates of a point beyond the edge, in the basis of
\* the panel across.
SameBasis(p, s, q, t, end) ==
  \A x, w \in Int :
    LET swapped == CrossesX2(s) /\ <<p, q>> \in ({3, 4} \X {1, 5}) \union ({1, 5} \X {3, 4})
    IN Basis(q, IF CrossesX2(s) /\ ~ swapped THEN <<end * w, x>> ELSE <<x, end * w>>)
         = Basis(q, Beyond(t, x, w))

\* At every edge the interpolation names the point in the coordinates of the
\* panel across.
LEMMA Bases ==
  /\ SameBasis(1, "up", 6, "up", -1)
  /\ SameBasis(1, "down", 2, "up", -1)
  /\ SameBasis(1, "left", 3, "up", -1)
  /\ SameBasis(1, "right", 4, "up", -1)
  /\ SameBasis(2, "up", 1, "down", 1)
  /\ SameBasis(2, "down", 5, "up", -1)
  /\ SameBasis(2, "left", 3, "right", 1)
  /\ SameBasis(2, "right", 4, "left", -1)
  /\ SameBasis(3, "up", 1, "left", -1)
  /\ SameBasis(3, "down", 5, "left", -1)
  /\ SameBasis(3, "left", 6, "right", 1)
  /\ SameBasis(3, "right", 2, "left", -1)
  /\ SameBasis(4, "up", 1, "right", 1)
  /\ SameBasis(4, "down", 5, "right", 1)
  /\ SameBasis(4, "left", 2, "right", 1)
  /\ SameBasis(4, "right", 6, "left", -1)
  /\ SameBasis(5, "up", 2, "down", 1)
  /\ SameBasis(5, "down", 6, "down", 1)
  /\ SameBasis(5, "left", 3, "down", 1)
  /\ SameBasis(5, "right", 4, "down", 1)
  /\ SameBasis(6, "up", 1, "up", -1)
  /\ SameBasis(6, "down", 5, "down", 1)
  /\ SameBasis(6, "left", 4, "right", 1)
  /\ SameBasis(6, "right", 3, "left", -1)
<1>1. /\ SameBasis(1, "up", 6, "up", -1)
      /\ SameBasis(1, "down", 2, "up", -1)
      /\ SameBasis(1, "left", 3, "up", -1)
      /\ SameBasis(1, "right", 4, "up", -1)
  BY Numbers DEF SameBasis, Basis, Beyond
<1>2. /\ SameBasis(2, "up", 1, "down", 1)
      /\ SameBasis(2, "down", 5, "up", -1)
      /\ SameBasis(2, "left", 3, "right", 1)
      /\ SameBasis(2, "right", 4, "left", -1)
  BY Numbers DEF SameBasis, Basis, Beyond
<1>3. /\ SameBasis(3, "up", 1, "left", -1)
      /\ SameBasis(3, "down", 5, "left", -1)
      /\ SameBasis(3, "left", 6, "right", 1)
      /\ SameBasis(3, "right", 2, "left", -1)
  BY Numbers DEF SameBasis, Basis, Beyond
<1>4. /\ SameBasis(4, "up", 1, "right", 1)
      /\ SameBasis(4, "down", 5, "right", 1)
      /\ SameBasis(4, "left", 2, "right", 1)
      /\ SameBasis(4, "right", 6, "left", -1)
  BY Numbers DEF SameBasis, Basis, Beyond
<1>5. /\ SameBasis(5, "up", 2, "down", 1)
      /\ SameBasis(5, "down", 6, "down", 1)
      /\ SameBasis(5, "left", 3, "down", 1)
      /\ SameBasis(5, "right", 4, "down", 1)
  BY Numbers DEF SameBasis, Basis, Beyond
<1>6. /\ SameBasis(6, "up", 1, "up", -1)
      /\ SameBasis(6, "down", 5, "down", 1)
      /\ SameBasis(6, "left", 4, "right", 1)
      /\ SameBasis(6, "right", 3, "left", -1)
  BY Numbers DEF SameBasis, Basis, Beyond
<1> QED
  BY <1>1, <1>2, <1>3, <1>4, <1>5, <1>6

-----------------------------------------------------------------------------
(* The order of the cells.                                                  *)

\* A place in the message is a layer and an index.
LEMMA Places ==
  ASSUME NEW p \in 0 .. Size - 1
  PROVE  /\ p % NGHOST \in 0 .. NGHOST - 1 /\ p \div NGHOST \in 0 .. Cells - 1
         /\ p % Cells \in 0 .. Cells - 1 /\ p \div Cells \in 0 .. NGHOST - 1
<1>1. NGHOST \in Nat /\ NGHOST > 0 /\ Cells \in Nat /\ Cells > 0
  BY PanelAssumption, DepthAssumption
<1>2. p \in Nat /\ p < NGHOST * Cells
  BY <1>1 DEF Size
<1>3. p % NGHOST \in 0 .. NGHOST - 1 /\ p \div NGHOST \in 0 .. Cells - 1
  BY <1>1, <1>2, Z3
<1>4. p % Cells \in 0 .. Cells - 1 /\ p \div Cells \in 0 .. NGHOST - 1
  BY <1>1, <1>2, Z3
<1> QED
  BY <1>3, <1>4

\* The p-th cell that is packed is the one its ghost cell wants.
SameOrder(s, t, v, way) ==
  \A p \in 0 .. Size - 1 :
    LET jk    == Packing(s, way, p)
        layer == IF CrossesX2(s) THEN jk[1] ELSE jk[2]
        c     == IF CrossesX2(s) THEN jk[2] ELSE jk[1]
        g     == GhostCell(t, p)
    IN /\ layer \in Depth /\ c \in Index
       /\ (IF AtStart(s) THEN layer ELSE NGHOST - 1 - layer) = g[1]
       /\ c = IF v THEN Cells - 1 - g[2] ELSE g[2]

\* PackData chooses the packing that the receiver's order of unpacking wants.
LEMMA Orders ==
  /\ SameOrder("up", "up", TRUE, 2)
  /\ SameOrder("up", "down", FALSE, 0)
  /\ SameOrder("up", "left", FALSE, 1)
  /\ SameOrder("up", "right", TRUE, 3)
  /\ SameOrder("down", "up", FALSE, 0)
  /\ SameOrder("down", "down", TRUE, 2)
  /\ SameOrder("down", "left", TRUE, 3)
  /\ SameOrder("down", "right", FALSE, 1)
  /\ SameOrder("left", "up", FALSE, 3)
  /\ SameOrder("left", "down", TRUE, 1)
  /\ SameOrder("left", "right", FALSE, 0)
  /\ SameOrder("right", "up", TRUE, 1)
  /\ SameOrder("right", "down", FALSE, 3)
  /\ SameOrder("right", "left", FALSE, 0)
<1>1. \A p \in 0 .. Size - 1 :
        /\ p % NGHOST \in 0 .. NGHOST - 1 /\ p \div NGHOST \in 0 .. Cells - 1
        /\ p % Cells \in 0 .. Cells - 1 /\ p \div Cells \in 0 .. NGHOST - 1
  BY Places
<1>2. NGHOST \in Nat /\ NGHOST > 0 /\ Cells \in Nat /\ Cells > 0
  BY PanelAssumption, DepthAssumption
<1>3. \A p \in 0 .. Size - 1 :
        /\ GhostCell("up", p) = <<NGHOST - 1 - (p % NGHOST), p \div NGHOST>>
        /\ GhostCell("down", p) = <<p % NGHOST, p \div NGHOST>>
        /\ GhostCell("left", p) = <<NGHOST - 1 - p \div Cells, p % Cells>>
        /\ GhostCell("right", p) = <<p \div Cells, p % Cells>>
  BY Numbers DEF GhostCell
<1>4. \A p \in 0 .. Size - 1 : \A s \in {"up", "down"} :
        /\ Packing(s, 0, p) = <<p % NGHOST, p \div NGHOST>>
        /\ Packing(s, 1, p) = <<NGHOST - 1 - p \div Cells, p % Cells>>
        /\ Packing(s, 2, p) = <<NGHOST - 1 - (p % NGHOST), Cells - 1 - p \div NGHOST>>
        /\ Packing(s, 3, p) = <<p \div Cells, Cells - 1 - (p % Cells)>>
  <2> SUFFICES ASSUME NEW p \in 0 .. Size - 1, NEW s \in {"up", "down"}
               PROVE  /\ Packing(s, 0, p) = <<p % NGHOST, p \div NGHOST>>
                      /\ Packing(s, 1, p) = <<NGHOST - 1 - p \div Cells, p % Cells>>
                      /\ Packing(s, 2, p) = <<NGHOST - 1 - (p % NGHOST), Cells - 1 - p \div NGHOST>>
                      /\ Packing(s, 3, p) = <<p \div Cells, Cells - 1 - (p % Cells)>>
    OBVIOUS
  <2>1. nj(s) = NGHOST /\ nk(s) = Cells
    BY Numbers DEF nj, nk
  <2>2. Packing(s, 0, p) = <<p % nj(s), p \div nj(s)>>
    BY DEF Packing
  <2>3. Packing(s, 1, p) = <<nj(s) - 1 - p \div nk(s), p % nk(s)>>
    BY DEF Packing
  <2>4. Packing(s, 2, p) = <<nj(s) - 1 - (p % nj(s)), nk(s) - 1 - p \div nj(s)>>
    BY DEF Packing
  <2>5. Packing(s, 3, p) = <<p \div nk(s), nk(s) - 1 - (p % nk(s))>>
    BY DEF Packing
  <2> QED
    BY <2>1, <2>2, <2>3, <2>4, <2>5
<1>5. \A p \in 0 .. Size - 1 : \A s \in {"left", "right"} :
        /\ Packing(s, 0, p) = <<p % Cells, p \div Cells>>
        /\ Packing(s, 1, p) = <<Cells - 1 - p \div NGHOST, p % NGHOST>>
        /\ Packing(s, 3, p) = <<p \div NGHOST, NGHOST - 1 - (p % NGHOST)>>
  <2> SUFFICES ASSUME NEW p \in 0 .. Size - 1, NEW s \in {"left", "right"}
               PROVE  /\ Packing(s, 0, p) = <<p % Cells, p \div Cells>>
                      /\ Packing(s, 1, p) = <<Cells - 1 - p \div NGHOST, p % NGHOST>>
                      /\ Packing(s, 3, p) = <<p \div NGHOST, NGHOST - 1 - (p % NGHOST)>>
    OBVIOUS
  <2>1. nj(s) = Cells /\ nk(s) = NGHOST
    BY Numbers DEF nj, nk
  <2>2. Packing(s, 0, p) = <<p % nj(s), p \div nj(s)>>
    BY DEF Packing
  <2>3. Packing(s, 1, p) = <<nj(s) - 1 - p \div nk(s), p % nk(s)>>
    BY DEF Packing
  <2>4. Packing(s, 3, p) = <<p \div nk(s), nk(s) - 1 - (p % nk(s))>>
    BY DEF Packing
  <2> QED
    BY <2>1, <2>2, <2>3, <2>4
<1>6. SameOrder("up", "up", TRUE, 2)
  BY <1>1, <1>2, <1>3, <1>4, Numbers DEF SameOrder, Depth, Index
<1>7. SameOrder("up", "down", FALSE, 0)
  BY <1>1, <1>2, <1>3, <1>4, Numbers DEF SameOrder, Depth, Index
<1>8. SameOrder("up", "left", FALSE, 1)
  BY <1>1, <1>2, <1>3, <1>4, Numbers DEF SameOrder, Depth, Index
<1>9. SameOrder("up", "right", TRUE, 3)
  BY <1>1, <1>2, <1>3, <1>4, Numbers DEF SameOrder, Depth, Index
<1>10. SameOrder("down", "up", FALSE, 0)
  BY <1>1, <1>2, <1>3, <1>4, Numbers DEF SameOrder, Depth, Index
<1>11. SameOrder("down", "down", TRUE, 2)
  BY <1>1, <1>2, <1>3, <1>4, Numbers DEF SameOrder, Depth, Index
<1>12. SameOrder("down", "left", TRUE, 3)
  BY <1>1, <1>2, <1>3, <1>4, Numbers DEF SameOrder, Depth, Index
<1>13. SameOrder("down", "right", FALSE, 1)
  BY <1>1, <1>2, <1>3, <1>4, Numbers DEF SameOrder, Depth, Index
<1>14. SameOrder("left", "up", FALSE, 3)
  BY <1>1, <1>2, <1>3, <1>5, Numbers DEF SameOrder, Depth, Index
<1>15. SameOrder("left", "down", TRUE, 1)
  BY <1>1, <1>2, <1>3, <1>5, Numbers DEF SameOrder, Depth, Index
<1>16. SameOrder("left", "right", FALSE, 0)
  BY <1>1, <1>2, <1>3, <1>5, Numbers DEF SameOrder, Depth, Index
<1>17. SameOrder("right", "up", TRUE, 1)
  BY <1>1, <1>2, <1>3, <1>5, Numbers DEF SameOrder, Depth, Index
<1>18. SameOrder("right", "down", FALSE, 3)
  BY <1>1, <1>2, <1>3, <1>5, Numbers DEF SameOrder, Depth, Index
<1>19. SameOrder("right", "left", FALSE, 0)
  BY <1>1, <1>2, <1>3, <1>5, Numbers DEF SameOrder, Depth, Index
<1> QED
  BY <1>6, <1>7, <1>8, <1>9, <1>10, <1>11, <1>12, <1>13, <1>14, <1>15, <1>16, <1>17, <1>18, <1>19

\* What the exchange across a side of a panel rests on.
Edge(p, s, q, t, v, way, end) ==
  /\ Row(p, s, q, t, v, way, end) /\ SameDirection(p, s, q, t, v)
  /\ SameBasis(p, s, q, t, end) /\ SameOrder(s, t, v, way)

\* All of it, for every side of every panel.
LEMMA Edges ==
  ASSUME NEW p \in Panel, NEW s \in Side
  PROVE  \E q \in Panel, t \in Side, v \in BOOLEAN, way \in 0 .. 3, end \in {-1, 1} :
           Edge(p, s, q, t, v, way, end)
<1>0. {1, 2, 3, 4, 5, 6} = Panel /\ {"up", "down", "left", "right"} = Side
  BY DEF Panel, Side
<1>1. CASE p = 1
  <2>1. CASE s = "up"
    <3>1. Edge(1, "up", 6, "up", TRUE, 2, -1)
      BY Rows, Directions, Bases, Orders DEF Edge
    <3>2. \E q \in Panel, t \in Side, v \in BOOLEAN, way \in 0 .. 3, end \in {-1, 1} :
            Edge(1, "up", q, t, v, way, end)
      <4> USE DEF Panel, Side
      <4> WITNESS 6 \in Panel, "up" \in Side, TRUE \in BOOLEAN, 2 \in 0 .. 3, -1 \in {-1, 1}
      <4> QED
        BY <3>1
    <3> QED
      BY <1>1, <2>1, <3>2
  <2>2. CASE s = "down"
    <3>1. Edge(1, "down", 2, "up", FALSE, 0, -1)
      BY Rows, Directions, Bases, Orders DEF Edge
    <3>2. \E q \in Panel, t \in Side, v \in BOOLEAN, way \in 0 .. 3, end \in {-1, 1} :
            Edge(1, "down", q, t, v, way, end)
      <4> USE DEF Panel, Side
      <4> WITNESS 2 \in Panel, "up" \in Side, FALSE \in BOOLEAN, 0 \in 0 .. 3, -1 \in {-1, 1}
      <4> QED
        BY <3>1
    <3> QED
      BY <1>1, <2>2, <3>2
  <2>3. CASE s = "left"
    <3>1. Edge(1, "left", 3, "up", FALSE, 3, -1)
      BY Rows, Directions, Bases, Orders DEF Edge
    <3>2. \E q \in Panel, t \in Side, v \in BOOLEAN, way \in 0 .. 3, end \in {-1, 1} :
            Edge(1, "left", q, t, v, way, end)
      <4> USE DEF Panel, Side
      <4> WITNESS 3 \in Panel, "up" \in Side, FALSE \in BOOLEAN, 3 \in 0 .. 3, -1 \in {-1, 1}
      <4> QED
        BY <3>1
    <3> QED
      BY <1>1, <2>3, <3>2
  <2>4. CASE s = "right"
    <3>1. Edge(1, "right", 4, "up", TRUE, 1, -1)
      BY Rows, Directions, Bases, Orders DEF Edge
    <3>2. \E q \in Panel, t \in Side, v \in BOOLEAN, way \in 0 .. 3, end \in {-1, 1} :
            Edge(1, "right", q, t, v, way, end)
      <4> USE DEF Panel, Side
      <4> WITNESS 4 \in Panel, "up" \in Side, TRUE \in BOOLEAN, 1 \in 0 .. 3, -1 \in {-1, 1}
      <4> QED
        BY <3>1
    <3> QED
      BY <1>1, <2>4, <3>2
  <2> QED
    BY <2>1, <2>2, <2>3, <2>4 DEF Side
<1>2. CASE p = 2
  <2>1. CASE s = "up"
    <3>1. Edge(2, "up", 1, "down", FALSE, 0, 1)
      BY Rows, Directions, Bases, Orders DEF Edge
    <3>2. \E q \in Panel, t \in Side, v \in BOOLEAN, way \in 0 .. 3, end \in {-1, 1} :
            Edge(2, "up", q, t, v, way, end)
      <4> USE DEF Panel, Side
      <4> WITNESS 1 \in Panel, "down" \in Side, FALSE \in BOOLEAN, 0 \in 0 .. 3, 1 \in {-1, 1}
      <4> QED
        BY <3>1
    <3> QED
      BY <1>2, <2>1, <3>2
  <2>2. CASE s = "down"
    <3>1. Edge(2, "down", 5, "up", FALSE, 0, -1)
      BY Rows, Directions, Bases, Orders DEF Edge
    <3>2. \E q \in Panel, t \in Side, v \in BOOLEAN, way \in 0 .. 3, end \in {-1, 1} :
            Edge(2, "down", q, t, v, way, end)
      <4> USE DEF Panel, Side
      <4> WITNESS 5 \in Panel, "up" \in Side, FALSE \in BOOLEAN, 0 \in 0 .. 3, -1 \in {-1, 1}
      <4> QED
        BY <3>1
    <3> QED
      BY <1>2, <2>2, <3>2
  <2>3. CASE s = "left"
    <3>1. Edge(2, "left", 3, "right", FALSE, 0, 1)
      BY Rows, Directions, Bases, Orders DEF Edge
    <3>2. \E q \in Panel, t \in Side, v \in BOOLEAN, way \in 0 .. 3, end \in {-1, 1} :
            Edge(2, "left", q, t, v, way, end)
      <4> USE DEF Panel, Side
      <4> WITNESS 3 \in Panel, "right" \in Side, FALSE \in BOOLEAN, 0 \in 0 .. 3, 1 \in {-1, 1}
      <4> QED
        BY <3>1
    <3> QED
      BY <1>2, <2>3, <3>2
  <2>4. CASE s = "right"
    <3>1. Edge(2, "right", 4, "left", FALSE, 0, -1)
      BY Rows, Directions, Bases, Orders DEF Edge
    <3>2. \E q \in Panel, t \in Side, v \in BOOLEAN, way \in 0 .. 3, end \in {-1, 1} :
            Edge(2, "right", q, t, v, way, end)
      <4> USE DEF Panel, Side
      <4> WITNESS 4 \in Panel, "left" \in Side, FALSE \in BOOLEAN, 0 \in 0 .. 3, -1 \in {-1, 1}
      <4> QED
        BY <3>1
    <3> QED
      BY <1>2, <2>4, <3>2
  <2> QED
    BY <2>1, <2>2, <2>3, <2>4 DEF Side
<1>3. CASE p = 3
  <2>1. CASE s = "up"
    <3>1. Edge(3, "up", 1, "left", FALSE, 1, -1)
      BY Rows, Directions, Bases, Orders DEF Edge
    <3>2. \E q \in Panel, t \in Side, v \in BOOLEAN, way \in 0 .. 3, end \in {-1, 1} :
            Edge(3, "up", q, t, v, way, end)
      <4> USE DEF Panel, Side
      <4> WITNESS 1 \in Panel, "left" \in Side, FALSE \in BOOLEAN, 1 \in 0 .. 3, -1 \in {-1, 1}
      <4> QED
        BY <3>1
    <3> QED
      BY <1>3, <2>1, <3>2
  <2>2. CASE s = "down"
    <3>1. Edge(3, "down", 5, "left", TRUE, 3, -1)
      BY Rows, Directions, Bases, Orders DEF Edge
    <3>2. \E q \in Panel, t \in Side, v \in BOOLEAN, way \in 0 .. 3, end \in {-1, 1} :
            Edge(3, "down", q, t, v, way, end)
      <4> USE DEF Panel, Side
      <4> WITNESS 5 \in Panel, "left" \in Side, TRUE \in BOOLEAN, 3 \in 0 .. 3, -1 \in {-1, 1}
      <4> QED
        BY <3>1
    <3> QED
      BY <1>3, <2>2, <3>2
  <2>3. CASE s = "left"
    <3>1. Edge(3, "left", 6, "right", FALSE, 0, 1)
      BY Rows, Directions, Bases, Orders DEF Edge
    <3>2. \E q \in Panel, t \in Side, v \in BOOLEAN, way \in 0 .. 3, end \in {-1, 1} :
            Edge(3, "left", q, t, v, way, end)
      <4> USE DEF Panel, Side
      <4> WITNESS 6 \in Panel, "right" \in Side, FALSE \in BOOLEAN, 0 \in 0 .. 3, 1 \in {-1, 1}
      <4> QED
        BY <3>1
    <3> QED
      BY <1>3, <2>3, <3>2
  <2>4. CASE s = "right"
    <3>1. Edge(3, "right", 2, "left", FALSE, 0, -1)
      BY Rows, Directions, Bases, Orders DEF Edge
    <3>2. \E q \in Panel, t \in Side, v \in BOOLEAN, way \in 0 .. 3, end \in {-1, 1} :
            Edge(3, "right", q, t, v, way, end)
      <4> USE DEF Panel, Side
      <4> WITNESS 2 \in Panel, "left" \in Side, FALSE \in BOOLEAN, 0 \in 0 .. 3, -1 \in {-1, 1}
      <4> QED
        BY <3>1
    <3> QED
      BY <1>3, <2>4, <3>2
  <2> QED
    BY <2>1, <2>2, <2>3, <2>4 DEF Side
<1>4. CASE p = 4
  <2>1. CASE s = "up"
    <3>1. Edge(4, "up", 1, "right", TRUE, 3, 1)
      BY Rows, Directions, Bases, Orders DEF Edge
    <3>2. \E q \in Panel, t \in Side, v \in BOOLEAN, way \in 0 .. 3, end \in {-1, 1} :
            Edge(4, "up", q, t, v, way, end)
      <4> USE DEF Panel, Side
      <4> WITNESS 1 \in Panel, "right" \in Side, TRUE \in BOOLEAN, 3 \in 0 .. 3, 1 \in {-1, 1}
      <4> QED
        BY <3>1
    <3> QED
      BY <1>4, <2>1, <3>2
  <2>2. CASE s = "down"
    <3>1. Edge(4, "down", 5, "right", FALSE, 1, 1)
      BY Rows, Directions, Bases, Orders DEF Edge
    <3>2. \E q \in Panel, t \in Side, v \in BOOLEAN, way \in 0 .. 3, end \in {-1, 1} :
            Edge(4, "down", q, t, v, way, end)
      <4> USE DEF Panel, Side
      <4> WITNESS 5 \in Panel, "right" \in Side, FALSE \in BOOLEAN, 1 \in 0 .. 3, 1 \in {-1, 1}
      <4> QED
        BY <3>1
    <3> QED
      BY <1>4, <2>2, <3>2
  <2>3. CASE s = "left"
    <3>1. Edge(4, "left", 2, "right", FALSE, 0, 1)
      BY Rows, Directions, Bases, Orders DEF Edge
    <3>2. \E q \in Panel, t \in Side, v \in BOOLEAN, way \in 0 .. 3, end \in {-1, 1} :
            Edge(4, "left", q, t, v, way, end)
      <4> USE DEF Panel, Side
      <4> WITNESS 2 \in Panel, "right" \in Side, FALSE \in BOOLEAN, 0 \in 0 .. 3, 1 \in {-1, 1}
      <4> QED
        BY <3>1
    <3> QED
      BY <1>4, <2>3, <3>2
  <2>4. CASE s = "right"
    <3>1. Edge(4, "right", 6, "left", FALSE, 0, -1)
      BY Rows, Directions, Bases, Orders DEF Edge
    <3>2. \E q \in Panel, t \in Side, v \in BOOLEAN, way \in 0 .. 3, end \in {-1, 1} :
            Edge(4, "right", q, t, v, way, end)
      <4> USE DEF Panel, Side
      <4> WITNESS 6 \in Panel, "left" \in Side, FALSE \in BOOLEAN, 0 \in 0 .. 3, -1 \in {-1, 1}
      <4> QED
        BY <3>1
    <3> QED
      BY <1>4, <2>4, <3>2
  <2> QED
    BY <2>1, <2>2, <2>3, <2>4 DEF Side
<1>5. CASE p = 5
  <2>1. CASE s = "up"
    <3>1. Edge(5, "up", 2, "down", FALSE, 0, 1)
      BY Rows, Directions, Bases, Orders DEF Edge
    <3>2. \E q \in Panel, t \in Side, v \in BOOLEAN, way \in 0 .. 3, end \in {-1, 1} :
            Edge(5, "up", q, t, v, way, end)
      <4> USE DEF Panel, Side
      <4> WITNESS 2 \in Panel, "down" \in Side, FALSE \in BOOLEAN, 0 \in 0 .. 3, 1 \in {-1, 1}
      <4> QED
        BY <3>1
    <3> QED
      BY <1>5, <2>1, <3>2
  <2>2. CASE s = "down"
    <3>1. Edge(5, "down", 6, "down", TRUE, 2, 1)
      BY Rows, Directions, Bases, Orders DEF Edge
    <3>2. \E q \in Panel, t \in Side, v \in BOOLEAN, way \in 0 .. 3, end \in {-1, 1} :
            Edge(5, "down", q, t, v, way, end)
      <4> USE DEF Panel, Side
      <4> WITNESS 6 \in Panel, "down" \in Side, TRUE \in BOOLEAN, 2 \in 0 .. 3, 1 \in {-1, 1}
      <4> QED
        BY <3>1
    <3> QED
      BY <1>5, <2>2, <3>2
  <2>3. CASE s = "left"
    <3>1. Edge(5, "left", 3, "down", TRUE, 1, 1)
      BY Rows, Directions, Bases, Orders DEF Edge
    <3>2. \E q \in Panel, t \in Side, v \in BOOLEAN, way \in 0 .. 3, end \in {-1, 1} :
            Edge(5, "left", q, t, v, way, end)
      <4> USE DEF Panel, Side
      <4> WITNESS 3 \in Panel, "down" \in Side, TRUE \in BOOLEAN, 1 \in 0 .. 3, 1 \in {-1, 1}
      <4> QED
        BY <3>1
    <3> QED
      BY <1>5, <2>3, <3>2
  <2>4. CASE s = "right"
    <3>1. Edge(5, "right", 4, "down", FALSE, 3, 1)
      BY Rows, Directions, Bases, Orders DEF Edge
    <3>2. \E q \in Panel, t \in Side, v \in BOOLEAN, way \in 0 .. 3, end \in {-1, 1} :
            Edge(5, "right", q, t, v, way, end)
      <4> USE DEF Panel, Side
      <4> WITNESS 4 \in Panel, "down" \in Side, FALSE \in BOOLEAN, 3 \in 0 .. 3, 1 \in {-1, 1}
      <4> QED
        BY <3>1
    <3> QED
      BY <1>5, <2>4, <3>2
  <2> QED
    BY <2>1, <2>2, <2>3, <2>4 DEF Side
<1>6. CASE p = 6
  <2>1. CASE s = "up"
    <3>1. Edge(6, "up", 1, "up", TRUE, 2, -1)
      BY Rows, Directions, Bases, Orders DEF Edge
    <3>2. \E q \in Panel, t \in Side, v \in BOOLEAN, way \in 0 .. 3, end \in {-1, 1} :
            Edge(6, "up", q, t, v, way, end)
      <4> USE DEF Panel, Side
      <4> WITNESS 1 \in Panel, "up" \in Side, TRUE \in BOOLEAN, 2 \in 0 .. 3, -1 \in {-1, 1}
      <4> QED
        BY <3>1
    <3> QED
      BY <1>6, <2>1, <3>2
  <2>2. CASE s = "down"
    <3>1. Edge(6, "down", 5, "down", TRUE, 2, 1)
      BY Rows, Directions, Bases, Orders DEF Edge
    <3>2. \E q \in Panel, t \in Side, v \in BOOLEAN, way \in 0 .. 3, end \in {-1, 1} :
            Edge(6, "down", q, t, v, way, end)
      <4> USE DEF Panel, Side
      <4> WITNESS 5 \in Panel, "down" \in Side, TRUE \in BOOLEAN, 2 \in 0 .. 3, 1 \in {-1, 1}
      <4> QED
        BY <3>1
    <3> QED
      BY <1>6, <2>2, <3>2
  <2>3. CASE s = "left"
    <3>1. Edge(6, "left", 4, "right", FALSE, 0, 1)
      BY Rows, Directions, Bases, Orders DEF Edge
    <3>2. \E q \in Panel, t \in Side, v \in BOOLEAN, way \in 0 .. 3, end \in {-1, 1} :
            Edge(6, "left", q, t, v, way, end)
      <4> USE DEF Panel, Side
      <4> WITNESS 4 \in Panel, "right" \in Side, FALSE \in BOOLEAN, 0 \in 0 .. 3, 1 \in {-1, 1}
      <4> QED
        BY <3>1
    <3> QED
      BY <1>6, <2>3, <3>2
  <2>4. CASE s = "right"
    <3>1. Edge(6, "right", 3, "left", FALSE, 0, -1)
      BY Rows, Directions, Bases, Orders DEF Edge
    <3>2. \E q \in Panel, t \in Side, v \in BOOLEAN, way \in 0 .. 3, end \in {-1, 1} :
            Edge(6, "right", q, t, v, way, end)
      <4> USE DEF Panel, Side
      <4> WITNESS 3 \in Panel, "left" \in Side, FALSE \in BOOLEAN, 0 \in 0 .. 3, -1 \in {-1, 1}
      <4> QED
        BY <3>1
    <3> QED
      BY <1>6, <2>4, <3>2
  <2> QED
    BY <2>1, <2>2, <2>3, <2>4 DEF Side
<1> QED
  BY <1>1, <1>2, <1>3, <1>4, <1>5, <1>6 DEF Panel

-----------------------------------------------------------------------------
(* Blocks at an edge.                                                       *)

\* The k-th cell of the message block b packs at its side s.
Cell(b, s, k) == SentCell(b, s, Packing(s, TurnOf(b, s), k))

\* A cell of the face lies at a point of the side.
LEMMA OnBorder ==
  ASSUME NEW p \in Panel, NEW s \in Side, NEW a \in 0 .. N - 1, NEW c
  PROVE  FacePoint(BlockAt(p, s, a), s, c) = Border(s, Centre(a, c))
<1> DEFINE b == BlockAt(p, s, a)
<1>1. Along(b, s) = a
  BY BlockAtFacts
<1> HIDE DEF b
<1>2. FacePoint(b, s, c) = Border(s, Centre(Along(b, s), c))
  <2>1. CASE s = "up"
    BY <2>1 DEF FacePoint, Border, Along
  <2>2. CASE s = "down"
    BY <2>2 DEF FacePoint, Border, Along
  <2>3. CASE s = "left"
    BY <2>3 DEF FacePoint, Border, Along
  <2>4. CASE s = "right"
    BY <2>4 DEF FacePoint, Border, Along
  <2> QED
    BY <2>1, <2>2, <2>3, <2>4 DEF Side
<1> QED
  BY <1>1, <1>2 DEF b

\* Counted from the other end, a cell has the opposite angle.
LEMMA Mirror ==
  ASSUME NEW a \in 0 .. N - 1, NEW c \in Index
  PROVE  /\ Centre(a, c) \in Int
         /\ Centre(bound_lim - a, Cells - 1 - c) = - Centre(a, c)
<1>1. N \in Nat /\ Cells \in Nat /\ a \in Int /\ c \in Int
  BY PanelAssumption DEF Index
<1>2. a * Cells \in Int /\ N * Cells \in Int
  BY <1>1
<1>3. (N - 1 - a) * Cells = N * Cells - Cells - a * Cells
  BY <1>1
<1> QED
  BY <1>1, <1>2, <1>3 DEF Centre, Half, bound_lim

\* The block across an edge and what the tables say of it.
LEMMA MetSide ==
  ASSUME NEW b \in Block, NEW s \in Side, OnEdge(b, s)
  PROVE  \E p, q \in Panel, t \in Side, v \in BOOLEAN, way \in 0 .. 3, end \in {-1, 1},
            a, e \in 0 .. N - 1 :
           /\ Edge(p, s, q, t, v, way, end)
           /\ b = BlockAt(p, s, a) /\ FindBlockID(b) = p /\ Along(b, s) = a
           /\ e = IF v THEN bound_lim - a ELSE a
           /\ Neighbor(b, s) = BlockAt(q, t, e) /\ tox(b, s) = t /\ FindBlockID(Neighbor(b, s)) = q
<1>1. PICK p \in Panel, a \in 0 .. N - 1 : b = BlockAt(p, s, a)
  BY EdgeBlock
<1>2. PICK q \in Panel, t \in Side, v \in BOOLEAN, way \in 0 .. 3, end \in {-1, 1} :
        Edge(p, s, q, t, v, way, end)
  BY Edges
<1> DEFINE e == IF v THEN bound_lim - a ELSE a
<1>3. e \in 0 .. N - 1
  BY PanelAssumption DEF bound_lim
<1>4. Joint(p, s).to = q /\ Joint(p, s).at = t /\ Joint(p, s).rev = v
  BY <1>2 DEF Edge, Row, Crossing
<1>5. TransformOX(b, s) = [block |-> BlockAt(q, t, e), side |-> t]
  BY <1>1, <1>4, EdgeTransform
<1>6. FindBlockID(b) = p /\ Along(b, s) = a /\ FindBlockID(BlockAt(q, t, e)) = q
  BY <1>1, <1>3, BlockAtFacts
<1> QED
  BY <1>1, <1>2, <1>3, <1>5, <1>6 DEF Neighbor, tox

\* In its own array the slab is taken from the edge inwards.
LEMMA FromTheEdge ==
  ASSUME NEW s \in Side, NEW layer
  PROVE  k_now(s, layer) = IF AtStart(s) THEN layer ELSE NGHOST - 1 - layer
<1>1. NGHOST \in Nat /\ Cells \in Nat /\ Cells > NGHOST + 1
  BY PanelAssumption, DepthAssumption
<1>2. (SlabStart(s) < (NGHOST + Cells - 1) - NGHOST) <=> AtStart(s)
  <2>1. CASE AtStart(s)
    BY <1>1, <2>1 DEF SlabStart
  <2>2. CASE ~ AtStart(s)
    BY <1>1, <2>2 DEF SlabStart
  <2> QED
    BY <2>1, <2>2
<1> QED
  BY <1>2 DEF k_now

\* A packed cell is as deep as its ghost cell and, counted backwards where the
\* edge runs backwards, at the same index.
LEMMA CellOf ==
  ASSUME NEW b \in Block, NEW s \in Side, NEW t \in Side, NEW v \in BOOLEAN,
         SameOrder(s, t, v, TurnOf(b, s)), NEW k \in 0 .. Size - 1
  PROVE  /\ Cell(b, s, k).depth \in Depth /\ Cell(b, s, k).index \in Index
         /\ Cell(b, s, k).depth = GhostCell(t, k)[1]
         /\ Cell(b, s, k).index = IF v THEN Cells - 1 - GhostCell(t, k)[2] ELSE GhostCell(t, k)[2]
         /\ OnEdge(b, s) =>
              Cell(b, s, k).at = Projection(b, s, Cell(b, s, k).depth, Cell(b, s, k).index)
<1> DEFINE jk    == Packing(s, TurnOf(b, s), k)
           layer == IF CrossesX2(s) THEN jk[1] ELSE jk[2]
           c     == IF CrossesX2(s) THEN jk[2] ELSE jk[1]
           depth == IF AtStart(s) THEN layer ELSE NGHOST - 1 - layer
<1>1. /\ layer \in Depth /\ c \in Index /\ depth = GhostCell(t, k)[1]
      /\ c = IF v THEN Cells - 1 - GhostCell(t, k)[2] ELSE GhostCell(t, k)[2]
  BY DEF SameOrder
<1>2. Cell(b, s, k) = [depth |-> depth, index |-> c,
                       at |-> IF OnEdge(b, s) THEN Projection(b, s, depth, c) ELSE <<0, 0>>]
  <2>1. k_now(s, layer) = depth
    BY FromTheEdge
  <2> QED
    BY <2>1 DEF Cell, SentCell
<1>3. depth \in Depth
  BY <1>1, DepthAssumption DEF Depth
<1> HIDE DEF layer, c, depth
<1> QED
  BY <1>1, <1>2, <1>3

\* A place in the message is a ghost cell.
LEMMA GhostRange ==
  ASSUME NEW t \in Side, NEW k \in 0 .. Size - 1
  PROVE  GhostCell(t, k) \in Depth \X Index
<1>1. NGHOST \in Nat /\ Cells \in Nat
  BY PanelAssumption, DepthAssumption
<1>2. CASE CrossesX2(t)
  BY <1>1, <1>2, Places DEF GhostCell, Depth, Index
<1>3. CASE ~ CrossesX2(t)
  BY <1>1, <1>3, Places DEF GhostCell, Depth, Index
<1> QED
  BY <1>2, <1>3

\* Division with remainder.
LEMMA Quotient ==
  ASSUME NEW n \in Nat \ {0}, NEW q \in Nat, NEW r \in 0 .. n - 1, NEW m \in Nat, q < m
  PROVE  /\ n * q + r \in 0 .. n * m - 1
         /\ (n * q + r) \div n = q /\ (n * q + r) % n = r
<1>1. n \in Nat /\ n > 0 /\ r \in Nat /\ r < n
  OBVIOUS
<1>2. (n * q + r) \div n = q
  BY <1>1, Z3
<1>3. (n * q + r) % n = r
  BY <1>1, Z3
<1>4. n * (m - 1 - q) \in Nat /\ n * (m - 1 - q) = n * m - n - n * q
  BY <1>1
<1>5. n * q \in Nat /\ n * m \in Nat
  BY <1>1
<1>6. n * q + r \in 0 .. n * m - 1
  BY <1>1, <1>4, <1>5
<1> QED
  BY <1>2, <1>3, <1>6

\* Every ghost cell has its place in the message.
LEMMA EveryGhost ==
  ASSUME NEW t \in Side, NEW g \in Depth \X Index
  PROVE  \E k \in 0 .. Size - 1 : GhostCell(t, k) = g
<1>1. NGHOST \in Nat \ {0} /\ Cells \in Nat \ {0} /\ Size = Cells * NGHOST /\ Size = NGHOST * Cells
  BY PanelAssumption, DepthAssumption DEF Size
<1>2. g[1] \in 0 .. NGHOST - 1 /\ g[2] \in 0 .. Cells - 1 /\ g = <<g[1], g[2]>>
  BY DEF Depth, Index
<1> DEFINE layer == IF AtStart(t) THEN NGHOST - 1 - g[1] ELSE g[1]
<1>3. /\ layer \in 0 .. NGHOST - 1 /\ layer \in Nat /\ layer < NGHOST
      /\ g[1] = IF AtStart(t) THEN NGHOST - 1 - layer ELSE layer
      /\ g[2] \in Nat /\ g[2] < Cells
  BY <1>1, <1>2
<1> HIDE DEF layer
<1>4. CASE CrossesX2(t)
  <2>1. /\ NGHOST * g[2] + layer \in 0 .. Size - 1
        /\ (NGHOST * g[2] + layer) \div NGHOST = g[2] /\ (NGHOST * g[2] + layer) % NGHOST = layer
    <3>1. Cells \in Nat
      BY <1>1
    <3>2. /\ NGHOST * g[2] + layer \in 0 .. NGHOST * Cells - 1
          /\ (NGHOST * g[2] + layer) \div NGHOST = g[2] /\ (NGHOST * g[2] + layer) % NGHOST = layer
      BY <1>1, <1>3, <3>1, Quotient, Zenon
    <3> QED
      BY <1>1, <3>2, Zenon
  <2>2. GhostCell(t, NGHOST * g[2] + layer) = <<g[1], g[2]>>
    BY <1>3, <1>4, <2>1 DEF GhostCell
  <2> QED
    BY <1>2, <2>1, <2>2
<1>5. CASE ~ CrossesX2(t)
  <2>1. /\ Cells * layer + g[2] \in 0 .. Size - 1
        /\ (Cells * layer + g[2]) \div Cells = layer /\ (Cells * layer + g[2]) % Cells = g[2]
    <3>1. /\ Cells \in Nat \ {0} /\ layer \in Nat /\ g[2] \in 0 .. Cells - 1
          /\ NGHOST \in Nat /\ layer < NGHOST
      BY <1>1, <1>2, <1>3
    <3>2. /\ Cells * layer + g[2] \in 0 .. Cells * NGHOST - 1
          /\ (Cells * layer + g[2]) \div Cells = layer /\ (Cells * layer + g[2]) % Cells = g[2]
      BY <3>1, Quotient, Zenon
    <3> QED
      BY <1>1, <3>2, Zenon
  <2>2. GhostCell(t, Cells * layer + g[2]) = <<g[1], g[2]>>
    BY <1>3, <1>5, <2>1 DEF GhostCell
  <2> QED
    BY <1>2, <2>1, <2>2
<1> QED
  BY <1>4, <1>5

-----------------------------------------------------------------------------
(* What a cell carries to a ghost cell.                                     *)

\* A ghost cell is filled from the cell that meets the edge where it does.
Aligned(b, s, g, cell) ==
  /\ cell.depth = g[1]
  /\ OnEdge(b, s) =>
       Direction(FindBlockID(Neighbor(b, s)), FacePoint(Neighbor(b, s), tox(b, s), g[2]))
         = Direction(FindBlockID(b), FacePoint(b, s, cell.index))
  /\ ~ OnEdge(b, s) => cell.index = g[2]

\* Its velocities are in the basis of the receiver's panel at the ghost cell.
Based(b, s, g, cell) ==
  OnEdge(b, s) =>
    /\ FindBlockID(Neighbor(b, s)) = tgbid[FindBlockID(b)][Number(s) + 1]
    /\ Basis(FindBlockID(Neighbor(b, s)), cell.at)
         = Basis(FindBlockID(Neighbor(b, s)), GhostPoint(Neighbor(b, s), tox(b, s), g[1], g[2]))

\* Inside a panel.
LEMMA InsideFits ==
  ASSUME NEW b \in Block, NEW s \in Side, ~ OnEdge(b, s), NEW k \in 0 .. Size - 1
  PROVE  /\ Cell(b, s, k).depth \in Depth /\ Cell(b, s, k).index \in Index
         /\ Aligned(b, s, GhostCell(tox(b, s), k), Cell(b, s, k))
<1>1. Opposite(s) \in Side /\ SameOrder(s, Opposite(s), FALSE, 0)
  <2>1. CASE s = "up"
    BY <2>1, Moves, Orders DEF Side
  <2>2. CASE s = "down"
    BY <2>2, Moves, Orders DEF Side
  <2>3. CASE s = "left"
    BY <2>3, Moves, Orders DEF Side
  <2>4. CASE s = "right"
    BY <2>4, Moves, Orders DEF Side
  <2> QED
    BY <2>1, <2>2, <2>3, <2>4 DEF Side
<1>2. tox(b, s) = Opposite(s) /\ TurnOf(b, s) = 0
  BY InsideTransform DEF tox, TurnOf
<1>3. SameOrder(s, Opposite(s), FALSE, TurnOf(b, s))
  BY <1>1, <1>2
<1>4. /\ Cell(b, s, k).depth \in Depth /\ Cell(b, s, k).index \in Index
      /\ Cell(b, s, k).depth = GhostCell(Opposite(s), k)[1]
      /\ Cell(b, s, k).index = IF FALSE THEN Cells - 1 - GhostCell(Opposite(s), k)[2]
                               ELSE GhostCell(Opposite(s), k)[2]
  BY <1>1, <1>3, CellOf
<1> QED
  BY <1>2, <1>4 DEF Aligned

\* Across an edge of a panel.
LEMMA EdgeFits ==
  ASSUME NEW b \in Block, NEW s \in Side, OnEdge(b, s), NEW k \in 0 .. Size - 1
  PROVE  /\ Cell(b, s, k).depth \in Depth /\ Cell(b, s, k).index \in Index
         /\ Aligned(b, s, GhostCell(tox(b, s), k), Cell(b, s, k))
         /\ Based(b, s, GhostCell(tox(b, s), k), Cell(b, s, k))
<1>1. PICK p \in Panel, q \in Panel, t \in Side, v \in BOOLEAN, way \in 0 .. 3, end \in {-1, 1},
           a \in 0 .. N - 1, e \in 0 .. N - 1 :
        /\ Edge(p, s, q, t, v, way, end)
        /\ b = BlockAt(p, s, a) /\ FindBlockID(b) = p /\ Along(b, s) = a
        /\ e = IF v THEN bound_lim - a ELSE a
        /\ Neighbor(b, s) = BlockAt(q, t, e) /\ tox(b, s) = t /\ FindBlockID(Neighbor(b, s)) = q
  BY MetSide
<1> DEFINE cell == Cell(b, s, k)
           g == GhostCell(t, k)
           x == Centre(e, g[2])
           w == 2 * g[1] + 1 + Half
<1>2. TurnOf(b, s) = way
  BY <1>1 DEF TurnOf, Edge, Row
<1>3. /\ cell.depth \in Depth /\ cell.index \in Index /\ cell.depth = g[1]
      /\ cell.index = IF v THEN Cells - 1 - g[2] ELSE g[2]
      /\ cell.at = Projection(b, s, cell.depth, cell.index)
  BY <1>1, <1>2, CellOf DEF Edge
<1>4. g \in Depth \X Index /\ g[1] \in Depth /\ g[2] \in Index
  BY GhostRange
<1>5. NGHOST \in Nat /\ Cells \in Nat /\ N \in Nat /\ Half \in Int
  BY PanelAssumption, DepthAssumption DEF Half
<1> HIDE DEF cell, g
<1>6. x \in Int /\ Centre(a, cell.index) = IF v THEN - x ELSE x
  <2>1. CASE v
    <3>1. a = bound_lim - e /\ cell.index = Cells - 1 - g[2]
      BY <1>1, <1>3, <1>5, <2>1 DEF bound_lim
    <3> QED
      BY <1>4, <2>1, <3>1, Mirror
  <2>2. CASE ~ v
    BY <1>1, <1>3, <1>4, <2>2, Mirror
  <2> QED
    BY <2>1, <2>2
<1>7. w \in Int
  BY <1>4, <1>5 DEF Depth
<1> HIDE DEF x, w
<1>8. /\ FacePoint(Neighbor(b, s), t, g[2]) = Border(t, x)
      /\ FacePoint(b, s, cell.index) = Border(s, IF v THEN - x ELSE x)
  <2>1. FacePoint(BlockAt(q, t, e), t, g[2]) = Border(t, Centre(e, g[2]))
    BY OnBorder
  <2>2. FacePoint(BlockAt(p, s, a), s, cell.index) = Border(s, Centre(a, cell.index))
    BY OnBorder
  <2> QED
    BY <1>1, <1>6, <2>1, <2>2 DEF x
<1>9. Direction(q, FacePoint(Neighbor(b, s), t, g[2])) = Direction(p, FacePoint(b, s, cell.index))
  BY <1>1, <1>6, <1>8 DEF Edge, SameDirection
<1>10. Basis(q, cell.at) = Basis(q, Beyond(t, x, w))
  <2> DEFINE along == IF CrossesX2(s) THEN Centre(local3(b), cell.index)
                      ELSE Centre(local2(b), cell.index)
             turned == IF Inverted(b, s) THEN - along ELSE along
             beyond == tgside[FindBlockID(b)][Number(s) + 1] * (2 * cell.depth + 1 + Half)
  <2>1. along = Centre(a, cell.index)
    BY <1>1 DEF Along, CrossesX2
  <2>2. Inverted(b, s) <=> v
    BY <1>1 DEF Inverted, Edge, Row
  <2>3. turned = x
    BY <1>6, <2>1, <2>2
  <2>4. beyond = end * w
    BY <1>1, <1>3 DEF w, Edge, Row
  <2>5. Swapped(b, s) <=>
          /\ CrossesX2(s)
          /\ <<p, q>> \in ({3, 4} \X {1, 5}) \union ({1, 5} \X {3, 4})
    BY <1>1 DEF Swapped, Edge, Row
  <2>6. cell.at = IF CrossesX2(s) /\ ~ Swapped(b, s) THEN <<beyond, turned>> ELSE <<turned, beyond>>
    BY <1>3 DEF Projection
  <2> HIDE DEF along, turned, beyond
  <2> QED
    BY <1>1, <1>6, <1>7, <2>3, <2>4, <2>5, <2>6 DEF Edge, SameBasis
<1>11. GhostPoint(Neighbor(b, s), t, g[1], g[2]) = Beyond(t, x, w)
  <2>1. GhostPoint(Neighbor(b, s), t, g[1], g[2])
          = LET out == IF AtStart(t) THEN -(2 * g[1] + 1) ELSE 2 * g[1] + 1
            IN IF CrossesX2(t) THEN <<Border(t, x)[1] + out, Border(t, x)[2]>>
               ELSE <<Border(t, x)[1], Border(t, x)[2] + out>>
    BY <1>8 DEF GhostPoint
  <2>2. g[1] \in Int
    BY <1>4, <1>5 DEF Depth
  <2>3. CASE t = "up"
    BY <1>5, <2>1, <2>2, <2>3, Numbers DEF Border, Beyond, w
  <2>4. CASE t = "down"
    BY <1>5, <2>1, <2>2, <2>4, Numbers DEF Border, Beyond, w
  <2>5. CASE t = "left"
    BY <1>5, <2>1, <2>2, <2>5, Numbers DEF Border, Beyond, w
  <2>6. CASE t = "right"
    BY <1>5, <2>1, <2>2, <2>6, Numbers DEF Border, Beyond, w
  <2> QED
    BY <2>3, <2>4, <2>5, <2>6 DEF Side
<1>12. q = tgbid[p][Number(s) + 1]
  BY <1>1 DEF Edge, Row
<1> QED
  BY <1>1, <1>3, <1>9, <1>10, <1>11, <1>12 DEF cell, g, Aligned, Based

-----------------------------------------------------------------------------
(* The theorems.                                                            *)

CellSet(b, s) == { Cell(b, s, k) : k \in 0 .. Size - 1 }

\* The cells taken from the buffer so far.
Unloaded == IF phase = "pack" THEN 0 ELSE Size - Len(buffer)

Types ==
  /\ block \in Block /\ side \in Side /\ phase \in {"pack", "unpack", "done"}
  /\ buffer \in Seq(CellSet(block, side))
  /\ ghost \in [Depth \X Index -> SUBSET CellSet(block, side)]

Buffered ==
  /\ phase = "pack" => Len(buffer) < Size
  /\ phase = "unpack" => Len(buffer) \in 1 .. Size
  /\ phase = "done" => Len(buffer) = 0
  /\ \A i \in 1 .. Len(buffer) : buffer[i] = Cell(block, side, Unloaded + i - 1)

Delivered ==
  /\ \A g \in Depth \X Index : \A cell \in ghost[g] :
       \E k \in 0 .. Size - 1 : g = GhostCell(tox(block, side), k) /\ cell = Cell(block, side, k)
  /\ \A k \in 0 .. Unloaded - 1 : ghost[GhostCell(tox(block, side), k)] # {}

\* The inductive invariant.
GhostInv == Types /\ Buffered /\ Delivered

\* A message holds at least one cell.
LEMMA SizePositive == Size \in Nat \ {0}
<1>1. NGHOST \in Nat \ {0} /\ Cells \in Nat \ {0}
  BY PanelAssumption, DepthAssumption
<1> QED
  BY <1>1 DEF Size

\* Initially nothing is packed.
LEMMA GhostInitially == GhostInit => GhostInv
<1> SUFFICES ASSUME GhostInit PROVE GhostInv
  OBVIOUS
<1>1. Types
  BY DEF GhostInit, Types
<1>2. Buffered
  BY SizePositive DEF GhostInit, Buffered
<1>3. Delivered
  BY DEF GhostInit, Delivered, Unloaded
<1> QED
  BY <1>1, <1>2, <1>3 DEF GhostInv

\* Packing the next cell keeps the invariant.
LEMMA Packs ==
  ASSUME GhostInv, PackCell
  PROVE  GhostInv'
<1>1. /\ phase = "pack" /\ block' = block /\ side' = side /\ ghost' = ghost
      /\ buffer' = Append(buffer, Cell(block, side, Len(buffer)))
      /\ phase' = IF Len(buffer) + 1 = Size THEN "unpack" ELSE "pack"
  BY DEF PackCell, Cell
<1>2. /\ buffer \in Seq(CellSet(block, side)) /\ Len(buffer) \in Nat /\ Len(buffer) < Size
      /\ \A i \in 1 .. Len(buffer) : buffer[i] = Cell(block, side, i - 1)
  BY <1>1 DEF GhostInv, Types, Buffered, Unloaded
<1>3. Cell(block, side, Len(buffer)) \in CellSet(block, side)
  BY <1>2, SizePositive DEF CellSet
<1>4. /\ buffer' \in Seq(CellSet(block, side)) /\ Len(buffer') = Len(buffer) + 1
      /\ \A i \in 1 .. Len(buffer) + 1 : buffer'[i] = Cell(block, side, i - 1)
  <2>1. /\ buffer' \in Seq(CellSet(block, side)) /\ Len(buffer') = Len(buffer) + 1
        /\ \A i \in 1 .. Len(buffer) : buffer'[i] = buffer[i]
        /\ buffer'[Len(buffer) + 1] = Cell(block, side, Len(buffer))
    BY <1>1, <1>2, <1>3
  <2> QED
    BY <1>2, <2>1
<1>5. CellSet(block, side)' = CellSet(block, side)
  BY <1>1
<1>6. Unloaded = 0 /\ Unloaded' = 0
  BY <1>1, <1>2, <1>4, SizePositive DEF Unloaded
<1>7. Types'
  BY <1>1, <1>4, <1>5 DEF GhostInv, Types
<1>8. Buffered'
  <2>1. \A i \in 1 .. Len(buffer') : buffer'[i] = Cell(block, side, Unloaded' + i - 1)
    BY <1>2, <1>4, <1>6
  <2>2. \A i \in 1 .. Len(buffer') : buffer'[i] = Cell(block', side', Unloaded' + i - 1)
    BY <1>1, <2>1
  <2>3. /\ phase' = "pack" => Len(buffer') < Size
        /\ phase' = "unpack" => Len(buffer') \in 1 .. Size
        /\ phase' # "done"
    <3>1. Len(buffer') = Len(buffer) + 1 /\ Len(buffer) \in Nat /\ Len(buffer) < Size
      BY <1>2, <1>4
    <3>2. Size \in Nat
      BY SizePositive
    <3> QED
      BY <1>1, <3>1, <3>2
  <2> QED
    BY <2>2, <2>3 DEF Buffered
<1>9. Delivered'
  BY <1>1, <1>6 DEF GhostInv, Delivered
<1> QED
  BY <1>7, <1>8, <1>9 DEF GhostInv

\* Unpacking the next cell keeps the invariant.
LEMMA Unpacks ==
  ASSUME GhostInv, UnpackCell
  PROVE  GhostInv'
<1> DEFINE p == Size - Len(buffer)
           here == GhostCell(tox(block, side), p)
<1>1. /\ phase = "unpack" /\ block' = block /\ side' = side /\ buffer' = Tail(buffer)
      /\ ghost' = [ghost EXCEPT ![here] = {Head(buffer)}]
      /\ phase' = IF Len(buffer) = 1 THEN "done" ELSE "unpack"
  BY DEF UnpackCell, TargetSide
<1>2. /\ buffer \in Seq(CellSet(block, side)) /\ Len(buffer) \in 1 .. Size /\ Len(buffer) \in Nat
      /\ \A i \in 1 .. Len(buffer) : buffer[i] = Cell(block, side, p + i - 1)
      /\ p \in 0 .. Size - 1 /\ Unloaded = p
  BY <1>1, SizePositive DEF GhostInv, Types, Buffered, Unloaded
<1>3. /\ buffer' \in Seq(CellSet(block, side)) /\ Len(buffer') = Len(buffer) - 1
      /\ \A i \in 1 .. Len(buffer) - 1 : buffer'[i] = buffer[i + 1]
      /\ Head(buffer) = buffer[1] /\ Head(buffer) \in CellSet(block, side)
  BY <1>1, <1>2
<1>4. Head(buffer) = Cell(block, side, p)
  BY <1>2, <1>3
<1>5. block \in Block /\ side \in Side /\ tox(block, side) \in Side
  BY MeetingSides DEF GhostInv, Types
<1>6. here \in Depth \X Index
  BY <1>2, <1>5, GhostRange
<1>7. Unloaded' = p + 1
  BY <1>1, <1>2, <1>3, SizePositive DEF Unloaded
<1>8. /\ ghost \in [Depth \X Index -> SUBSET CellSet(block, side)]
      /\ \A g \in Depth \X Index : \A cell \in ghost[g] :
           \E k \in 0 .. Size - 1 : g = GhostCell(tox(block, side), k) /\ cell = Cell(block, side, k)
      /\ \A k \in 0 .. p - 1 : ghost[GhostCell(tox(block, side), k)] # {}
  BY <1>2 DEF GhostInv, Types, Delivered
<1> HIDE DEF p, here
<1>9. Types'
  <2>1. ghost' \in [Depth \X Index -> SUBSET CellSet(block, side)]
    BY <1>1, <1>3, <1>8
  <2> QED
    BY <1>1, <1>3, <1>5, <2>1 DEF Types
<1>10. Buffered'
  <2>1. \A i \in 1 .. Len(buffer') : buffer'[i] = Cell(block', side', Unloaded' + i - 1)
    <3> SUFFICES ASSUME NEW i \in 1 .. Len(buffer')
                 PROVE  buffer'[i] = Cell(block', side', Unloaded' + i - 1)
      OBVIOUS
    <3>1. i \in 1 .. Len(buffer) - 1 /\ i + 1 \in 1 .. Len(buffer)
      BY <1>2, <1>3
    <3>2. buffer'[i] = Cell(block, side, p + (i + 1) - 1)
      BY <1>2, <1>3, <3>1
    <3>3. p + (i + 1) - 1 = Unloaded' + i - 1
      BY <1>2, <1>7, <3>1
    <3> QED
      BY <1>1, <3>2, <3>3
  <2> QED
    BY <1>1, <1>2, <1>3, <2>1, SizePositive DEF Buffered
<1>11. Delivered'
  <2>1. \A g \in Depth \X Index : \A cell \in ghost'[g] :
          \E k \in 0 .. Size - 1 : g = GhostCell(tox(block, side), k) /\ cell = Cell(block, side, k)
    <3> SUFFICES ASSUME NEW g \in Depth \X Index, NEW cell \in ghost'[g]
                 PROVE  \E k \in 0 .. Size - 1 :
                          g = GhostCell(tox(block, side), k) /\ cell = Cell(block, side, k)
      OBVIOUS
    <3>1. CASE g = here
      <4>1. cell = Cell(block, side, p)
        BY <1>1, <1>4, <1>6, <1>8, <3>1
      <4> QED
        BY <1>2, <3>1, <4>1 DEF here
    <3>2. CASE g # here
      BY <1>1, <1>8, <3>2
    <3> QED
      BY <3>1, <3>2
  <2>2. \A k \in 0 .. p : ghost'[GhostCell(tox(block, side), k)] # {}
    <3> SUFFICES ASSUME NEW k \in 0 .. p
                 PROVE  ghost'[GhostCell(tox(block, side), k)] # {}
      OBVIOUS
    <3>1. GhostCell(tox(block, side), k) \in Depth \X Index
      <4>1. k \in 0 .. Size - 1
        BY <1>2, SizePositive
      <4> QED
        BY <1>5, <4>1, GhostRange
    <3>2. CASE GhostCell(tox(block, side), k) = here
      BY <1>1, <1>6, <1>8, <3>2
    <3>3. CASE GhostCell(tox(block, side), k) # here
      <4>1. k \in 0 .. p - 1
        BY <1>2, <3>3 DEF here
      <4> QED
        BY <1>1, <1>8, <3>1, <3>3, <4>1
    <3> QED
      BY <3>2, <3>3
  <2>3. Unloaded' - 1 = p
    BY <1>2, <1>7
  <2> QED
    BY <1>1, <2>1, <2>2, <2>3 DEF Delivered
<1> QED
  BY <1>9, <1>10, <1>11 DEF GhostInv

\* The inductive invariant: a message holds the cells of the slab in the order of
\* packing, and every ghost cell filled so far holds the cell at its place.
THEOREM GhostInductive == GhostSpec => []GhostInv
<1>1. GhostInit => GhostInv
  BY GhostInitially
<1>2. GhostInv /\ [GhostNext]_ghostVars => GhostInv'
  <2> SUFFICES ASSUME GhostInv, [GhostNext]_ghostVars PROVE GhostInv'
    OBVIOUS
  <2>1. CASE PackCell
    BY <2>1, Packs
  <2>2. CASE UnpackCell
    BY <2>2, Unpacks
  <2>3. CASE UNCHANGED ghostVars
    BY <2>3 DEF ghostVars, GhostInv, Types, Buffered, Delivered, Unloaded
  <2> QED
    BY <2>1, <2>2, <2>3 DEF GhostNext
<1> QED
  BY <1>1, <1>2, PTL DEF GhostSpec

\* Every variable keeps its type; a ghost cell is filled at most once and all
\* are filled in the end.
THEOREM GhostTypeCorrect == GhostSpec => []GhostTypeOK
<1>1. GhostInv => GhostTypeOK
  <2> SUFFICES ASSUME GhostInv PROVE GhostTypeOK
    OBVIOUS
  <2>1. /\ block \in Block /\ side \in Side /\ phase \in {"pack", "unpack", "done"}
        /\ Len(buffer) \in Nat /\ Len(buffer) <= Size
    BY SizePositive DEF GhostInv, Types, Buffered
  <2>2. \A cell \in CellSet(block, side) : cell.depth \in Depth /\ cell.index \in Index
    BY <2>1, InsideFits, EdgeFits DEF CellSet
  <2>3. \A i \in 1 .. Len(buffer) : buffer[i] \in CellSet(block, side)
    BY DEF GhostInv, Types
  <2>4. phase = "done" => Filled = Depth \X Index
    <3> SUFFICES ASSUME phase = "done", NEW g \in Depth \X Index PROVE ghost[g] # {}
      BY DEF Filled
    <3>1. tox(block, side) \in Side
      BY <2>1, MeetingSides
    <3>2. PICK k \in 0 .. Size - 1 : GhostCell(tox(block, side), k) = g
      BY <3>1, EveryGhost
    <3>3. Unloaded = Size
      BY SizePositive DEF GhostInv, Buffered, Unloaded
    <3> QED
      BY <3>2, <3>3 DEF GhostInv, Delivered
  <2> QED
    BY <2>1, <2>2, <2>3, <2>4 DEF GhostTypeOK
<1> QED
  BY <1>1, GhostInductive, PTL

\* Two sides that meet are each other's neighbours: the receiver looks for the
\* message at the side the sender addressed.
THEOREM AlwaysReciprocal == GhostSpec => []Reciprocal
<1>1. GhostInv => Reciprocal
  BY MeetingSides DEF GhostInv, Types, Reciprocal, Target, TargetSide
<1> QED
  BY <1>1, GhostInductive, PTL

\* Whatever the number of blocks, of cells and the depth of the ghost zone, a
\* ghost cell is filled from the cell at the same place of the sphere.
THEOREM AlwaysAligned == GhostSpec => []GhostAligned
<1>1. GhostInv => GhostAligned
  <2> SUFFICES ASSUME GhostInv, NEW g \in Filled, NEW cell \in ghost[g]
               PROVE  Aligned(block, side, g, cell)
    BY DEF GhostAligned, Aligned, Target, TargetSide
  <2>1. block \in Block /\ side \in Side /\ g \in Depth \X Index
    BY DEF GhostInv, Types, Filled
  <2>2. PICK k \in 0 .. Size - 1 : g = GhostCell(tox(block, side), k) /\ cell = Cell(block, side, k)
    BY <2>1 DEF GhostInv, Delivered
  <2> QED
    BY <2>1, <2>2, InsideFits, EdgeFits
<1> QED
  BY <1>1, GhostInductive, PTL

\* The velocities that fill a ghost cell are in the basis of the receiver's panel
\* at that cell.
THEOREM AlwaysProjected == GhostSpec => []GhostProjected
<1>1. GhostInv => GhostProjected
  <2> SUFFICES ASSUME GhostInv, NEW g \in Filled, NEW cell \in ghost[g]
               PROVE  Based(block, side, g, cell)
    BY DEF GhostProjected, Based, Target, TargetSide
  <2>1. block \in Block /\ side \in Side /\ g \in Depth \X Index
    BY DEF GhostInv, Types, Filled
  <2>2. PICK k \in 0 .. Size - 1 : g = GhostCell(tox(block, side), k) /\ cell = Cell(block, side, k)
    BY <2>1 DEF GhostInv, Delivered
  <2> QED
    BY <2>1, <2>2, EdgeFits DEF Based
<1> QED
  BY <1>1, GhostInductive, PTL

\* The states exchanged for the fluxes of a face are projected at the receiver's
\* point of that face.
THEOREM FaceAlwaysProjected == GhostSpec => []FaceProjected
<1>1. GhostInv => FaceProjected
  <2> SUFFICES ASSUME GhostInv, OnEdge(block, side), NEW c \in Index
               PROVE  FaceProjection(block, side, c) =
                        FacePoint(Target, TargetSide, IF Inverted(block, side) THEN Cells - 1 - c ELSE c)
    BY DEF FaceProjected
  <2>1. PICK p \in Panel, q \in Panel, t \in Side, v \in BOOLEAN, way \in 0 .. 3, end \in {-1, 1},
             a \in 0 .. N - 1, e \in 0 .. N - 1 :
          /\ Edge(p, side, q, t, v, way, end)
          /\ block = BlockAt(p, side, a) /\ FindBlockID(block) = p /\ Along(block, side) = a
          /\ e = IF v THEN bound_lim - a ELSE a
          /\ Neighbor(block, side) = BlockAt(q, t, e) /\ tox(block, side) = t
          /\ FindBlockID(Neighbor(block, side)) = q
    BY MetSide DEF GhostInv, Types
  <2>2. Inverted(block, side) <=> v
    BY <2>1 DEF Inverted, Edge, Row
  <2> DEFINE x == Centre(a, c)
             d == IF v THEN - x ELSE x
             i == IF v THEN Cells - 1 - c ELSE c
  <2>3. x \in Int /\ Centre(e, i) = d
    <3>1. CASE v
      BY <2>1, <3>1, Mirror
    <3>2. CASE ~ v
      BY <2>1, <3>2, Mirror
    <3> QED
      BY <3>1, <3>2
  <2> HIDE DEF x, d, i
  <2>4. FacePoint(Target, TargetSide, i) = Border(t, d)
    BY <2>1, <2>3, OnBorder DEF Target, TargetSide
  <2>5. FaceProjection(block, side, c) = Border(t, d)
    <3> DEFINE y == FacePoint(block, side, c)
               pos_along == IF CrossesX2(side) THEN y[2] ELSE y[1]
               f == IF Inverted(block, side) THEN - pos_along ELSE pos_along
    <3>1. side \in Side
      BY DEF GhostInv, Types
    <3>2. y = Border(side, x)
      BY <2>1, <3>1, OnBorder DEF x
    <3> HIDE DEF y
    <3>3. pos_along = x
      BY <3>1, <3>2, Numbers DEF Border, Side
    <3>4. f = d
      BY <2>2, <3>3 DEF d
    <3>5. FaceProjection(block, side, c) =
            CASE t = "down"  -> <<Half, f>>
              [] t = "up"    -> <<-Half, f>>
              [] t = "right" -> <<f, Half>>
              [] t = "left"  -> <<f, -Half>>
      BY <2>1 DEF FaceProjection, y
    <3> HIDE DEF pos_along, f
    <3> QED
      BY <3>4, <3>5 DEF Border, Side
  <2> QED
    BY <2>2, <2>4, <2>5 DEF i
<1> QED
  BY <1>1, GhostInductive, PTL
=============================================================================
