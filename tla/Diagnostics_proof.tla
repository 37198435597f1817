-------------------------- MODULE Diagnostics_proof --------------------------
(***************************************************************************)
(* Proofs about Diagnostics: whatever the diagnostics, the outputs and the   *)
(* cycles they are due, and however the ranks interleave, what is written    *)
(* are averages over the right blocks and cycles, and the collective calls   *)
(* never leave every rank waiting.                                          *)
(*                                                                         *)
(* All ranks run one program, which depends on the input file and on nothing *)
(* that a rank has computed.  The inductive invariant has the states this    *)
(* program goes through, as far as the first rank has come, and each rank's   *)
(* place among them.                                                        *)
(***************************************************************************)
EXTENDS Diagnostics, FiniteSetTheorems, WellFoundedInduction, TLAPS

LEMMA Induction ==
  ASSUME NEW S, 0 \in S, \A n \in Nat : n \in S => n + 1 \in S
  PROVE  Nat \subseteq S
<1> SUFFICES ASSUME Nat \ S # {} PROVE FALSE
  OBVIOUS
<1>1. PICK n \in Nat \ S : \A m \in Nat \ S : ~ (<<m, n>> \in OpToRel(<, Nat))
  <2> DEFINE R == OpToRel(<, Nat)
  <2>1. IsWellFoundedOn(R, Nat)
    BY NatLessThanWellFounded
  <2> HIDE DEF R
  <2>2. \E x \in Nat \ S : \A y \in Nat \ S : ~ (<<y, x>> \in R)
    BY <2>1, WFMin
  <2> QED
    BY <2>2 DEF R
<1>2. \A m \in Nat : m < n => m \in S
  BY <1>1 DEF OpToRel
<1>3. n # 0 /\ n - 1 \in Nat /\ n - 1 < n
  OBVIOUS
<1> QED
  BY <1>2, <1>3

-----------------------------------------------------------------------------
(* The program of a rank.                                                   *)

Output == (1 .. Len(Due)) \X Diag

\* What a rank is about, all but the numbers it adds up.
Control(r) ==
  [pc |-> pc[r], cycle |-> cycle[r], todo |-> todo[r], ncycle |-> ncycle[r],
   last |-> last[r], calls |-> calls[r], reduces |-> reduces[r]]

Controls ==
  [pc : Pc, cycle : 0 .. Cycles, todo : Seq(Output), ncycle : [Diag -> Nat],
   last : [Diag -> 0 .. Cycles], calls : Nat, reduces : Nat]

Finalizing(c) == c.pc \in {"x2", "x3", "pack", "reduce", "divide"}
Waits(c) == c.pc \in {"newdt", "x2", "x3"}

\* The diagnostic that c finalizes, and the cycles that have been added up for
\* diagnostic d.
Now(c) == Head(c.todo)[2]
Added(c, d) ==
  IF Accumulates(d) THEN (c.last[d] + 1) .. (IF c.pc = "newdt" THEN c.cycle + 1 ELSE c.cycle)
                    ELSE {c.cycle}

Sound(c) ==
  /\ c.pc \in {"stage", "newdt"} => c.cycle < Cycles
  /\ c.pc \in {"stage", "newdt", "done"} => c.todo = << >>
  /\ Finalizing(c) => /\ c.todo # << >>
                      /\ Planar(Now(c))
                      /\ Accumulates(Now(c)) => c.ncycle[Now(c)] > 0
  /\ \A d \in Diag :
       /\ c.last[d] <= c.cycle
       /\ c.ncycle[d] = IF ~ Accumulates(d) THEN 0
                        ELSE IF c.pc = "newdt" THEN (c.cycle + 1) - c.last[d]
                        ELSE c.cycle - c.last[d]

State == { c \in Controls : Sound(c) }

\* The block r's own part of a sum over the plane.
Part(r, c) == [sum |-> {r} \X Added(c, Now(c)), n |-> 1, vol |-> {r}]

\* What data of d holds in a rank in state c whose output of d holds w.
Holds(r, c, w, d) ==
  IF Finalizing(c) /\ d = Now(c)
  THEN IF c.pc = "divide"
       THEN [sum |-> Plane[r] \X Added(c, d), n |-> 1, vol |-> Plane[r]]
       ELSE Part(r, c)
  ELSE IF Accumulates(d) /\ c.ncycle[d] > 0
  THEN [sum |-> {r} \X Added(c, d), n |-> 1, vol |-> {}]
  ELSE IF w = Nil THEN Zero ELSE w.value

\* AverageRight of one output.
Right(r, d, x) ==
  LET blocks == IF Planar(d) THEN Plane[r] ELSE {r}
      since == (x.since + 1) .. x.at
      Average(of) == [sum |-> blocks \X of, n |-> Cardinality(of),
                      vol |-> IF Planar(d) THEN blocks ELSE {}]
  IN x.value = IF Accumulates(d) /\ since # {} THEN Average(since)
               ELSE IF Accumulates(d) /\ Planar(d) THEN x.before
               ELSE Average({x.at})

Local(r) ==
  /\ Control(r) \in State
  /\ data[r] \in [Diag -> Value] /\ sent[r] \in Value
  /\ written[r] \in [Diag -> Written \cup {Nil}]
  /\ \A d \in Diag :
       /\ data[r][d] = Holds(r, Control(r), written[r][d], d)
       /\ written[r][d] # Nil => Right(r, d, written[r][d])

\* The program: what a rank does next.
AtOnce(c) == ~ Planar(Now(c)) \/ (Accumulates(Now(c)) /\ c.ncycle[Now(c)] = 0)

Wrote(c) ==
  [c EXCEPT !.pc = "output", !.todo = Tail(c.todo),
            !.ncycle = [c.ncycle EXCEPT ![Now(c)] = 0],
            !.last = [c.last EXCEPT ![Now(c)] = c.cycle]]

\* To place a, with k more calls on all ranks and m more ReduceAll.
Go(c, a, k, m) ==
  [c EXCEPT !.pc = a, !.calls = c.calls + k, !.reduces = c.reduces + m]

After(c) ==
  CASE c.pc = "stage" ->
         [Go(c, "newdt", 1, 0) EXCEPT !.ncycle =
                  [d \in Diag |-> IF Accumulates(d) THEN c.ncycle[d] + 1 ELSE 0]]
    [] c.pc = "newdt" ->
         [Go(c, "output", 0, 0) EXCEPT !.cycle = c.cycle + 1, !.todo = OutputsAfter(c.cycle + 1)]
    [] c.pc = "output" /\ c.todo = << >> ->
         Go(c, IF c.cycle = Cycles THEN "done" ELSE "stage", 0, 0)
    [] c.pc = "output" /\ c.todo # << >> /\ AtOnce(c) -> Wrote(c)
    [] c.pc = "output" /\ c.todo # << >> /\ ~ AtOnce(c) ->
         Go(c, "x2", 1, 0)
    [] c.pc = "x2" -> Go(c, "x3", 1, 0)
    [] c.pc = "x3" -> Go(c, "pack", 0, 0)
    [] c.pc = "pack" -> Go(c, "reduce", 0, 1)
    [] c.pc = "reduce" -> Go(c, "divide", 0, 0)
    [] c.pc = "divide" -> Wrote(c)

Start(t) ==
  [pc |-> IF t = 0 THEN "output" ELSE "stage", cycle |-> t,
   todo |-> IF t = 0 THEN OutputsAfter(0) ELSE << >>,
   ncycle |-> [d \in Diag |-> 0], last |-> [d \in Diag |-> t],
   calls |-> 0, reduces |-> 0]

LEMMA Sizes ==
  /\ Cycles \in Nat /\ Cycles > 0 /\ Len(Diags) \in Nat /\ Len(Diags) > 0
  /\ Len(Due) \in Nat
  /\ \A d \in Diag : d \in Nat /\ Diags[d] \in Kind
  /\ \A t \in Starts : t \in 0 .. Cycles - 1
<1>1. Diags \in Seq(Kind) /\ Diags # << >> /\ Due \in Seq(SUBSET Nat)
  BY DiagnosticsAssumption
<1>2. Len(Diags) \in Nat /\ Len(Diags) > 0 /\ Len(Due) \in Nat
  BY <1>1
<1>3. \A d \in Diag : d \in Nat /\ Diags[d] \in Kind
  BY <1>1, <1>2 DEF Diag
<1> QED
  BY <1>2, <1>3, DiagnosticsAssumption

\* A number below n * k is in one of k ranges of n.
LEMMA Ranges ==
  ASSUME NEW n \in Nat, n > 0, NEW k \in Nat, NEW x \in Nat, x < n * k
  PROVE  x \div n \in 0 .. k - 1 /\ x % n \in 0 .. n - 1
<1> DEFINE q == x \div n
           l == x % n
<1>1. q \in Int /\ l \in 0 .. n - 1 /\ x = n * q + l
  OBVIOUS
<1> HIDE DEF q, l
<1>2. n * q \in Int /\ n * q <= x /\ x < n * q + n
  BY <1>1
<1>3. q >= 0
  <2> SUFFICES ASSUME q <= -1 PROVE FALSE
    BY <1>1
  <2>1. n * q <= n * (-1)
    BY <1>1
  <2> QED
    BY <1>2, <2>1
<1>4. q < k
  <2> SUFFICES ASSUME k <= q PROVE FALSE
    BY <1>1
  <2>1. n * k <= n * q
    BY <1>1
  <2> QED
    BY <1>2, <2>1
<1>5. q \in 0 .. k - 1
  BY <1>1, <1>3, <1>4
<1> QED
  BY <1>1, <1>5 DEF q, l

LEMMA AllPairsType == AllPairs \in Seq(Output)
<1> DEFINE n == Len(Due) * Len(Diags)
<1>1. n \in Nat /\ n = Len(Diags) * Len(Due)
  BY Sizes
<1>2. ASSUME NEW i \in 1 .. n
      PROVE  AllPairs[i] \in Output
  <2>1. i - 1 \in Nat /\ i - 1 < Len(Diags) * Len(Due)
    BY <1>1
  <2>2. (i - 1) \div Len(Diags) \in 0 .. Len(Due) - 1 /\ (i - 1) % Len(Diags) \in 0 .. Len(Diags) - 1
    BY <2>1, Ranges, Sizes
  <2>3. ((i - 1) \div Len(Diags)) + 1 \in 1 .. Len(Due) /\ ((i - 1) % Len(Diags)) + 1 \in Diag
    BY <2>2, Sizes DEF Diag
  <2>4. AllPairs[i] = <<((i - 1) \div Len(Diags)) + 1, ((i - 1) % Len(Diags)) + 1>>
    BY <1>2 DEF AllPairs
  <2> QED
    BY <2>3, <2>4 DEF Output
<1>3. AllPairs = [i \in 1 .. n |-> AllPairs[i]]
  BY DEF AllPairs
<1> HIDE DEF n
<1> QED
  BY <1>1, <1>2, <1>3

\* The loops of MakeOutputs give outputs and diagnostics that there are.
LEMMA OutputsFact ==
  ASSUME NEW t
  PROVE  OutputsAfter(t) \in Seq(Output)
<1> DEFINE IsDue(p) == t \in {0, Cycles} \/ t \in Due[p[1]]
           L == Len(AllPairs)
           Run(g) == g = [i \in 0 .. L |->
                            IF i = 0 THEN << >>
                            ELSE IF IsDue(AllPairs[i]) THEN Append(g[i - 1], AllPairs[i])
                                                       ELSE g[i - 1]]
           To(g, m) ==
             \A i \in 0 .. L :
               g[i] = IF i = 0 \/ i > m THEN << >>
                      ELSE IF IsDue(AllPairs[i]) THEN Append(g[i - 1], AllPairs[i])
                                                 ELSE g[i - 1]
           Fcn(g) == g = [i \in 0 .. L |-> g[i]]
           Some(m) == \E g : Fcn(g) /\ To(g, m)
           S == { m \in Nat : Some(m) }
<1>0. L \in Nat /\ AllPairs \in Seq(Output)
  BY AllPairsType
<1> HIDE DEF L, IsDue
<1>1. 0 \in S
  <2> DEFINE h == [i \in 0 .. L |-> << >>]
  <2>1. To(h, 0) /\ Fcn(h)
    BY <1>0
  <2> HIDE DEF To, Fcn, h
  <2> QED
    BY <2>1
<1>2. ASSUME NEW m \in Nat, Some(m)
      PROVE  Some(m + 1)
  <2>1. PICK g : Fcn(g) /\ To(g, m)
    BY <1>2
  <2> DEFINE h == [i \in 0 .. L |->
                     IF i = m + 1
                     THEN IF IsDue(AllPairs[i]) THEN Append(g[i - 1], AllPairs[i]) ELSE g[i - 1]
                     ELSE g[i]]
  <2>2. /\ h = [i \in 0 .. L |-> h[i]]
        /\ \A i \in 0 .. L :
             h[i] = IF i = m + 1
                    THEN IF IsDue(AllPairs[i]) THEN Append(g[i - 1], AllPairs[i]) ELSE g[i - 1]
                    ELSE g[i]
    OBVIOUS
  <2> HIDE DEF h
  <2>3. ASSUME NEW i \in 0 .. L
        PROVE  h[i] = IF i = 0 \/ i > m + 1 THEN << >>
                      ELSE IF IsDue(AllPairs[i]) THEN Append(h[i - 1], AllPairs[i]) ELSE h[i - 1]
    <3>1. (i # 0 => i - 1 \in 0 .. L) /\ i \in Int
      BY <1>0
    <3>2. CASE i = m + 1
      <4>1. h[i - 1] = g[i - 1] /\ i # 0 /\ ~ (i > m + 1)
        BY <2>2, <3>1, <3>2
      <4> QED
        BY <2>2, <3>2, <4>1
    <3>3. CASE i > m + 1
      <4>1. h[i] = g[i] /\ i > m
        BY <2>2, <3>1, <3>3
      <4> QED
        BY <2>1, <3>3, <4>1
    <3>4. CASE i <= m
      <4>1. h[i] = g[i] /\ (i # 0 => h[i - 1] = g[i - 1]) /\ ~ (i > m) /\ ~ (i > m + 1)
        BY <2>2, <3>1, <3>4
      <4> QED
        BY <2>1, <4>1
    <3> QED
      BY <3>1, <3>2, <3>3, <3>4
  <2>4. To(h, m + 1)
    BY <2>3
  <2>5. Fcn(h)
    BY <2>2
  <2> HIDE DEF To, Fcn
  <2> QED
    BY <2>4, <2>5
<1>3. Nat \subseteq S
  <2> HIDE DEF Some
  <2>1. 0 \in S /\ \A m \in Nat : m \in S => m + 1 \in S
    BY <1>1, <1>2
  <2> HIDE DEF S
  <2> QED
    BY <2>1, Induction
<1>4. \E g : Run(g)
  <2>1. PICK g : Fcn(g) /\ To(g, L)
    BY <1>0, <1>3
  <2>2. Run(g)
    BY <1>0, <2>1
  <2> QED
    BY <2>2
<1> DEFINE upto == CHOOSE g : Run(g)
<1>5. Run(upto)
  <2> HIDE DEF Run
  <2> QED
    BY <1>4
<1>6. OutputsAfter(t) = upto[L]
  BY DEF OutputsAfter, L, IsDue
<1> HIDE DEF upto
<1>7. /\ upto[0] = << >>
      /\ \A i \in 1 .. L : upto[i] = IF IsDue(AllPairs[i]) THEN Append(upto[i - 1], AllPairs[i])
                                                            ELSE upto[i - 1]
  <2>1. 0 \in 0 .. L /\ \A i \in 1 .. L : i \in 0 .. L /\ i # 0
    BY <1>0
  <2> QED
    BY <1>5, <2>1
<1> HIDE DEF Run
<1> DEFINE T == { i \in Nat : i <= L => upto[i] \in Seq(Output) }
<1>8. 0 \in T
  <2>1. upto[0] \in Seq(Output)
    BY <1>7
  <2> QED
    BY <2>1
<1>9. ASSUME NEW i \in Nat, i \in T
      PROVE  i + 1 \in T
  <2> SUFFICES ASSUME i + 1 <= L PROVE upto[i + 1] \in Seq(Output)
    OBVIOUS
  <2>1. i + 1 \in 1 .. L /\ (i + 1) - 1 = i /\ upto[i] \in Seq(Output)
    BY <1>0, <1>9
  <2>2. AllPairs[i + 1] \in Output
    BY <1>0, <2>1 DEF L
  <2>3. upto[i + 1] = IF IsDue(AllPairs[i + 1]) THEN Append(upto[i], AllPairs[i + 1]) ELSE upto[i]
    BY <1>7, <2>1
  <2>4. Append(upto[i], AllPairs[i + 1]) \in Seq(Output)
    BY <2>1, <2>2
  <2> QED
    BY <2>1, <2>3, <2>4
<1>10. Nat \subseteq T
  <2> HIDE DEF T
  <2> QED
    BY <1>8, <1>9, Induction
<1> QED
  BY <1>0, <1>6, <1>10

-----------------------------------------------------------------------------
(* The states of the program.                                               *)

LEMMA AfterFact ==
  ASSUME NEW c
  PROVE  /\ c.pc = "stage" => After(c) =
              [Go(c, "newdt", 1, 0) EXCEPT !.ncycle =
                  [d \in Diag |-> IF Accumulates(d) THEN c.ncycle[d] + 1 ELSE 0]]
         /\ c.pc = "newdt" => After(c) =
              [Go(c, "output", 0, 0) EXCEPT !.cycle = c.cycle + 1, !.todo = OutputsAfter(c.cycle + 1)]
         /\ c.pc = "output" /\ c.todo = << >> => After(c) =
              Go(c, IF c.cycle = Cycles THEN "done" ELSE "stage", 0, 0)
         /\ c.pc = "output" /\ c.todo # << >> /\ AtOnce(c) => After(c) = Wrote(c)
         /\ c.pc = "output" /\ c.todo # << >> /\ ~ AtOnce(c) => After(c) =
              Go(c, "x2", 1, 0)
         /\ c.pc = "x2" => After(c) = Go(c, "x3", 1, 0)
         /\ c.pc = "x3" => After(c) = Go(c, "pack", 0, 0)
         /\ c.pc = "pack" => After(c) = Go(c, "reduce", 0, 1)
         /\ c.pc = "reduce" => After(c) = Go(c, "divide", 0, 0)
         /\ c.pc = "divide" => After(c) = Wrote(c)
<1> DEFINE a == c.pc
<1>1. CASE a = "stage"
  BY <1>1 DEF After
<1>2. CASE a = "newdt"
  BY <1>2 DEF After
<1>3. CASE a = "output"
  BY <1>3 DEF After
<1>4. CASE a = "x2"
  BY <1>4 DEF After
<1>5. CASE a = "x3"
  BY <1>5 DEF After
<1>6. CASE a = "pack"
  BY <1>6 DEF After
<1>7. CASE a = "reduce"
  BY <1>7 DEF After
<1>8. CASE a = "divide"
  BY <1>8 DEF After
<1> QED
  BY <1>1, <1>2, <1>3, <1>4, <1>5, <1>6, <1>7, <1>8

\* The diagnostic at the head of what there is to do.
LEMMA NowFact ==
  ASSUME NEW todo_ \in Seq(Output), todo_ # << >>
  PROVE  Head(todo_)[2] \in Diag /\ Tail(todo_) \in Seq(Output)
<1>1. Head(todo_) \in Output /\ Tail(todo_) \in Seq(Output)
  OBVIOUS
<1> QED
  BY <1>1 DEF Output

LEMMA GoFact ==
  ASSUME NEW c \in Controls, NEW a \in Pc, NEW k \in Nat, NEW m \in Nat
  PROVE  /\ Go(c, a, k, m) \in Controls
         /\ Go(c, a, k, m).pc = a /\ Go(c, a, k, m).cycle = c.cycle
         /\ Go(c, a, k, m).todo = c.todo /\ Go(c, a, k, m).ncycle = c.ncycle
         /\ Go(c, a, k, m).last = c.last
         /\ Go(c, a, k, m).calls = c.calls + k /\ Go(c, a, k, m).reduces = c.reduces + m
<1>1. c.calls + k \in Nat /\ c.reduces + m \in Nat
  BY DEF Controls
<1> QED
  BY <1>1 DEF Controls, Go

LEMMA WroteState ==
  ASSUME NEW c \in State, c.todo # << >>, c.pc \in {"output", "divide"}
  PROVE  Wrote(c) \in State
<1>1. c \in Controls /\ Sound(c)
  BY DEF State
<1>2. Now(c) \in Diag /\ Tail(c.todo) \in Seq(Output)
  BY <1>1, NowFact DEF Controls, Now
<1>3. Wrote(c) \in Controls
  BY <1>1, <1>2 DEF Controls, Wrote, Pc
<1> DEFINE e == Wrote(c)
<1>4. /\ e.pc = "output" /\ e.cycle = c.cycle
      /\ e.ncycle = [c.ncycle EXCEPT ![Now(c)] = 0]
      /\ e.last = [c.last EXCEPT ![Now(c)] = c.cycle]
  BY <1>1 DEF Controls, Wrote
<1> HIDE DEF e
<1>5. ASSUME NEW d \in Diag
      PROVE  /\ e.last[d] <= e.cycle
             /\ e.ncycle[d] = IF ~ Accumulates(d) THEN 0 ELSE e.cycle - e.last[d]
  <2>1. /\ c.ncycle \in [Diag -> Nat] /\ c.last \in [Diag -> 0 .. Cycles] /\ c.cycle \in 0 .. Cycles
        /\ c.last[d] <= c.cycle
        /\ c.ncycle[d] = IF ~ Accumulates(d) THEN 0 ELSE c.cycle - c.last[d]
    BY <1>1 DEF Controls, Sound
  <2>2. CASE d = Now(c)
    <3>1. e.last[d] = c.cycle /\ e.ncycle[d] = 0
      BY <1>4, <2>1, <2>2
    <3> QED
      BY <1>4, <2>1, <3>1, Sizes
  <2>3. CASE d # Now(c)
    <3>1. e.last[d] = c.last[d] /\ e.ncycle[d] = c.ncycle[d]
      BY <1>4, <2>1, <2>3
    <3> QED
      BY <1>4, <2>1, <3>1
  <2> QED
    BY <2>2, <2>3
<1>6. Sound(e)
  BY <1>4, <1>5 DEF Sound, Finalizing
<1> QED
  BY <1>3, <1>6 DEF State, e

LEMMA AfterState ==
  ASSUME NEW c \in State, c.pc # "done"
  PROVE  After(c) \in State
<1>1. c \in Controls /\ Sound(c)
  BY DEF State
<1>2. /\ c.pc \in Pc /\ c.cycle \in 0 .. Cycles /\ c.todo \in Seq(Output)
      /\ c.ncycle \in [Diag -> Nat] /\ c.last \in [Diag -> 0 .. Cycles]
      /\ c.calls \in Nat /\ c.reduces \in Nat
      /\ Cycles \in Nat
  BY <1>1, Sizes DEF Controls
<1>3. CASE c.pc = "stage"
  <2> DEFINE g == Go(c, "newdt", 1, 0)
             f == [d \in Diag |-> IF Accumulates(d) THEN c.ncycle[d] + 1 ELSE 0]
             e == [g EXCEPT !.ncycle = f]
  <2>0. /\ g \in Controls /\ g.pc = "newdt" /\ g.cycle = c.cycle /\ g.todo = c.todo
        /\ g.last = c.last
    BY <1>1, GoFact DEF Pc
  <2>3. After(c) = e
    BY <1>3, AfterFact
  <2> HIDE DEF g
  <2>1. /\ e.pc = "newdt" /\ e.cycle = c.cycle /\ e.todo = c.todo /\ e.last = c.last
        /\ e.ncycle = f
    BY <2>0 DEF Controls
  <2>2. e \in Controls
    <3>1. f \in [Diag -> Nat]
      BY <1>2
    <3> HIDE DEF f
    <3> QED
      BY <2>0, <3>1 DEF Controls
  <2> HIDE DEF e
  <2>4. ASSUME NEW d \in Diag
        PROVE  /\ e.last[d] <= e.cycle
               /\ e.ncycle[d] = IF ~ Accumulates(d) THEN 0 ELSE (e.cycle + 1) - e.last[d]
    <3>1. /\ c.last[d] <= c.cycle /\ c.last[d] \in Int /\ c.cycle \in Int
          /\ c.ncycle[d] = IF ~ Accumulates(d) THEN 0 ELSE c.cycle - c.last[d]
      BY <1>1, <1>2, <1>3 DEF Sound
    <3> QED
      BY <2>1, <3>1
  <2>5. Sound(e)
    BY <1>1, <1>3, <2>1, <2>4 DEF Sound, Finalizing
  <2> QED
    BY <2>2, <2>3, <2>5 DEF State
<1>4. CASE c.pc = "newdt"
  <2> DEFINE g == Go(c, "output", 0, 0)
             e == [g EXCEPT !.cycle = c.cycle + 1, !.todo = OutputsAfter(c.cycle + 1)]
  <2>0. g \in Controls /\ g.pc = "output" /\ g.last = c.last /\ g.ncycle = c.ncycle
    BY <1>1, GoFact DEF Pc
  <2>3. After(c) = e
    BY <1>4, AfterFact
  <2> HIDE DEF g
  <2>1. /\ e.pc = "output" /\ e.cycle = c.cycle + 1 /\ e.last = c.last /\ e.ncycle = c.ncycle
    BY <2>0 DEF Controls
  <2>2. e \in Controls
    <3>1. c.cycle + 1 \in 0 .. Cycles
      BY <1>1, <1>2, <1>4 DEF Sound
    <3> QED
      BY <2>0, <3>1, OutputsFact DEF Controls
  <2> HIDE DEF e
  <2>4. ASSUME NEW d \in Diag
        PROVE  /\ e.last[d] <= e.cycle
               /\ e.ncycle[d] = IF ~ Accumulates(d) THEN 0 ELSE e.cycle - e.last[d]
    <3>1. /\ c.last[d] <= c.cycle /\ c.last[d] \in Int /\ c.cycle \in Int
          /\ c.ncycle[d] = IF ~ Accumulates(d) THEN 0 ELSE (c.cycle + 1) - c.last[d]
      BY <1>1, <1>2, <1>4 DEF Sound
    <3> QED
      BY <2>1, <3>1
  <2>5. Sound(e)
    BY <2>1, <2>4 DEF Sound, Finalizing
  <2> QED
    BY <2>2, <2>3, <2>5 DEF State
<1>5. CASE c.pc = "output" /\ c.todo = << >>
  <2> DEFINE a == IF c.cycle = Cycles THEN "done" ELSE "stage"
             e == Go(c, a, 0, 0)
  <2>0. After(c) = e /\ a \in Pc
    BY <1>5, AfterFact DEF Pc
  <2>6. a \in {"stage", "done"} /\ (a = "stage" => c.cycle < Cycles)
    BY <1>2
  <2> HIDE DEF a
  <2>1. /\ e.pc = a /\ e.cycle = c.cycle
        /\ e.last = c.last /\ e.ncycle = c.ncycle /\ e.todo = << >> /\ e \in Controls
    BY <1>1, <1>5, <2>0, GoFact
  <2> HIDE DEF e
  <2>2. e \in Controls
    BY <2>1
  <2>3. After(c) = e
    BY <2>0
  <2>4. e.pc = "stage" => e.cycle < Cycles
    BY <2>1, <2>6
  <2>5. Sound(e)
    BY <1>1, <1>5, <2>1, <2>4, <2>6 DEF Sound, Finalizing
  <2> QED
    BY <2>2, <2>3, <2>5 DEF State
<1>6. CASE c.pc = "output" /\ c.todo # << >> /\ AtOnce(c)
  BY <1>6, AfterFact, WroteState
<1>7. CASE c.pc = "output" /\ c.todo # << >> /\ ~ AtOnce(c)
  <2> DEFINE e == Go(c, "x2", 1, 0)
  <2>1. /\ e.pc = "x2" /\ e.cycle = c.cycle /\ e.last = c.last /\ e.ncycle = c.ncycle
        /\ e.todo = c.todo
    BY <1>1, GoFact DEF Pc
  <2>2. e \in Controls
    BY <1>1, GoFact DEF Pc
  <2>3. After(c) = e
    BY <1>7, AfterFact
  <2> HIDE DEF e
  <2>4. Now(e) = Now(c) /\ Now(c) \in Diag
    BY <1>2, <1>7, <2>1, NowFact DEF Now
  <2>5. Planar(Now(c)) /\ (Accumulates(Now(c)) => c.ncycle[Now(c)] > 0)
    BY <1>2, <1>7, <2>4 DEF AtOnce
  <2>6. Sound(e)
    BY <1>1, <1>7, <2>1, <2>4, <2>5 DEF Sound, Finalizing
  <2> QED
    BY <2>2, <2>3, <2>6 DEF State
<1>8. CASE c.pc \in {"x2", "x3", "pack", "reduce"}
  <2> DEFINE e == After(c)
  <2>1. /\ e \in Controls /\ Finalizing(e)
        /\ e.cycle = c.cycle /\ e.last = c.last /\ e.ncycle = c.ncycle /\ e.todo = c.todo
    <3>1. CASE c.pc = "x2"
      <4> DEFINE g == Go(c, "x3", 1, 0)
      <4>1. After(c) = g
        BY <3>1, AfterFact
      <4>2. /\ g \in Controls /\ g.pc = "x3" /\ g.cycle = c.cycle /\ g.last = c.last
            /\ g.ncycle = c.ncycle /\ g.todo = c.todo
        BY <1>1, GoFact DEF Pc
      <4> HIDE DEF g
      <4> QED
        BY <4>1, <4>2 DEF Finalizing
    <3>2. CASE c.pc = "x3"
      <4> DEFINE g == Go(c, "pack", 0, 0)
      <4>1. After(c) = g
        BY <3>2, AfterFact
      <4>2. /\ g \in Controls /\ g.pc = "pack" /\ g.cycle = c.cycle /\ g.last = c.last
            /\ g.ncycle = c.ncycle /\ g.todo = c.todo
        BY <1>1, GoFact DEF Pc
      <4> HIDE DEF g
      <4> QED
        BY <4>1, <4>2 DEF Finalizing
    <3>3. CASE c.pc = "pack"
      <4> DEFINE g == Go(c, "reduce", 0, 1)
      <4>1. After(c) = g
        BY <3>3, AfterFact
      <4>2. /\ g \in Controls /\ g.pc = "reduce" /\ g.cycle = c.cycle /\ g.last = c.last
            /\ g.ncycle = c.ncycle /\ g.todo = c.todo
        BY <1>1, GoFact DEF Pc
      <4> HIDE DEF g
      <4> QED
        BY <4>1, <4>2 DEF Finalizing
    <3>4. CASE c.pc = "reduce"
      <4> DEFINE g == Go(c, "divide", 0, 0)
      <4>1. After(c) = g
        BY <3>4, AfterFact
      <4>2. /\ g \in Controls /\ g.pc = "divide" /\ g.cycle = c.cycle /\ g.last = c.last
            /\ g.ncycle = c.ncycle /\ g.todo = c.todo
        BY <1>1, GoFact DEF Pc
      <4> HIDE DEF g
      <4> QED
        BY <4>1, <4>2 DEF Finalizing
    <3> QED
      BY <1>8, <3>1, <3>2, <3>3, <3>4
  <2> HIDE DEF e
  <2>2. Now(e) = Now(c) /\ Finalizing(c)
    BY <1>8, <2>1 DEF Now, Finalizing
  <2>3. Sound(e)
    BY <1>1, <1>8, <2>1, <2>2 DEF Sound, Finalizing
  <2> QED
    BY <2>1, <2>3 DEF State, e
<1>9. CASE c.pc = "divide"
  <2>1. c.todo # << >>
    BY <1>1, <1>9 DEF Sound, Finalizing
  <2> QED
    BY <1>9, <2>1, AfterFact, WroteState
<1> QED
  BY <1>2, <1>3, <1>4, <1>5, <1>6, <1>7, <1>8, <1>9 DEF Pc

\* What a step of the program does to the numbers of its calls.
LEMMA AfterCounts ==
  ASSUME NEW c \in State, c.pc # "done"
  PROVE  LET e == After(c) IN
         /\ e.calls >= c.calls /\ e.reduces >= c.reduces
         /\ e.pc = "reduce" => c.pc = "pack" /\ e.reduces = c.reduces + 1
         /\ e.pc # "reduce" => e.reduces = c.reduces
         /\ e.pc = "pack" => c.pc = "x3"
         /\ e.pc = "x3" => c.pc = "x2" /\ e.calls = c.calls + 1
         /\ ~ Waits(e) => e.calls = c.calls
<1>1. c \in Controls
  BY DEF State
<1>2. c.pc \in Pc /\ c.calls \in Nat /\ c.reduces \in Nat
  BY <1>1 DEF Controls
<1>3. CASE c.pc = "stage"
  <2> DEFINE g == Go(c, "newdt", 1, 0)
             f == [d \in Diag |-> IF Accumulates(d) THEN c.ncycle[d] + 1 ELSE 0]
  <2>1. After(c) = [g EXCEPT !.ncycle = f]
    BY <1>3, AfterFact
  <2>2. g \in Controls /\ g.pc = "newdt" /\ g.calls = c.calls + 1 /\ g.reduces = c.reduces + 0
    BY <1>1, GoFact DEF Pc
  <2> HIDE DEF g, f
  <2> QED
    BY <1>2, <1>3, <2>1, <2>2 DEF Controls, Waits
<1>4. CASE c.pc = "newdt"
  <2> DEFINE g == Go(c, "output", 0, 0)
  <2>1. After(c) = [g EXCEPT !.cycle = c.cycle + 1, !.todo = OutputsAfter(c.cycle + 1)]
    BY <1>4, AfterFact
  <2>2. g \in Controls /\ g.pc = "output" /\ g.calls = c.calls + 0 /\ g.reduces = c.reduces + 0
    BY <1>1, GoFact DEF Pc
  <2> HIDE DEF g
  <2> QED
    BY <1>2, <1>4, <2>1, <2>2 DEF Controls, Waits
<1>5. CASE c.pc = "output" /\ c.todo = << >>
  <2> DEFINE a == IF c.cycle = Cycles THEN "done" ELSE "stage"
             g == Go(c, a, 0, 0)
  <2>1. After(c) = g /\ a \in {"done", "stage"} /\ a \in Pc
    BY <1>5, AfterFact DEF Pc
  <2> HIDE DEF a
  <2>2. g.pc = a /\ g.calls = c.calls + 0 /\ g.reduces = c.reduces + 0
    BY <1>1, <2>1, GoFact
  <2> HIDE DEF g
  <2> QED
    BY <1>2, <1>5, <2>1, <2>2 DEF Waits
<1>6. CASE (c.pc = "output" /\ c.todo # << >> /\ AtOnce(c)) \/ c.pc = "divide"
  <2>1. After(c) = Wrote(c)
    BY <1>6, AfterFact
  <2> QED
    BY <1>1, <1>2, <2>1 DEF Controls, Waits, Wrote
<1>7. CASE c.pc = "output" /\ c.todo # << >> /\ ~ AtOnce(c)
  <2> DEFINE g == Go(c, "x2", 1, 0)
  <2>1. After(c) = g
    BY <1>7, AfterFact
  <2>2. g.pc = ("x2") /\ g.calls = c.calls + 1 /\ g.reduces = c.reduces + 0
    BY <1>1, GoFact DEF Pc
  <2> HIDE DEF g
  <2> QED
    BY <1>2, <1>7, <2>1, <2>2 DEF Waits
<1>8. CASE c.pc = "x2"
  <2> DEFINE g == Go(c, "x3", 1, 0)
  <2>1. After(c) = g
    BY <1>8, AfterFact
  <2>2. g.pc = ("x3") /\ g.calls = c.calls + 1 /\ g.reduces = c.reduces + 0
    BY <1>1, GoFact DEF Pc
  <2> HIDE DEF g
  <2> QED
    BY <1>2, <1>8, <2>1, <2>2 DEF Waits
<1>9. CASE c.pc = "x3"
  <2> DEFINE g == Go(c, "pack", 0, 0)
  <2>1. After(c) = g
    BY <1>9, AfterFact
  <2>2. g.pc = ("pack") /\ g.calls = c.calls + 0 /\ g.reduces = c.reduces + 0
    BY <1>1, GoFact DEF Pc
  <2> HIDE DEF g
  <2> QED
    BY <1>2, <1>9, <2>1, <2>2 DEF Waits
<1>10. CASE c.pc = "pack"
  <2> DEFINE g == Go(c, "reduce", 0, 1)
  <2>1. After(c) = g
    BY <1>10, AfterFact
  <2>2. g.pc = ("reduce") /\ g.calls = c.calls + 0 /\ g.reduces = c.reduces + 1
    BY <1>1, GoFact DEF Pc
  <2> HIDE DEF g
  <2> QED
    BY <1>2, <1>10, <2>1, <2>2 DEF Waits
<1>11. CASE c.pc = "reduce"
  <2> DEFINE g == Go(c, "divide", 0, 0)
  <2>1. After(c) = g
    BY <1>11, AfterFact
  <2>2. g.pc = ("divide") /\ g.calls = c.calls + 0 /\ g.reduces = c.reduces + 0
    BY <1>1, GoFact DEF Pc
  <2> HIDE DEF g
  <2> QED
    BY <1>2, <1>11, <2>1, <2>2 DEF Waits
<1> QED
  BY <1>2, <1>3, <1>4, <1>5, <1>6, <1>7, <1>8, <1>9, <1>10, <1>11 DEF Pc

-----------------------------------------------------------------------------
(* The program as a sequence of states, as far as some rank has come.       *)

Program(p) ==
  /\ p \in Seq(State) /\ Len(p) > 0
  /\ \A i \in 1 .. Len(p) - 1 : p[i].pc # "done" /\ p[i + 1] = After(p[i])

LEMMA ProgramStep ==
  ASSUME NEW p, Program(p), NEW i \in 1 .. Len(p), i + 1 <= Len(p)
  PROVE  /\ p[i] \in State /\ p[i + 1] \in State
         /\ p[i + 1].calls >= p[i].calls /\ p[i + 1].reduces >= p[i].reduces
         /\ p[i + 1].pc = "reduce" => p[i].pc = "pack" /\ p[i + 1].reduces = p[i].reduces + 1
         /\ p[i + 1].pc # "reduce" => p[i + 1].reduces = p[i].reduces
         /\ p[i + 1].pc = "pack" => p[i].pc = "x3"
         /\ p[i + 1].pc = "x3" => p[i].pc = "x2" /\ p[i + 1].calls = p[i].calls + 1
<1>1. p \in Seq(State) /\ Len(p) \in Nat /\ i \in 1 .. Len(p) - 1
  BY DEF Program
<1>2. p[i] \in State /\ p[i].pc # "done" /\ p[i + 1] = After(p[i]) /\ p[i + 1] \in State
  BY <1>1 DEF Program
<1> QED
  BY <1>2, AfterCounts

LEMMA ProgramType ==
  ASSUME NEW p, Program(p), NEW i \in 1 .. Len(p)
  PROVE  p[i] \in State /\ p[i].calls \in Nat /\ p[i].reduces \in Nat /\ Len(p) \in Nat
<1>1. p[i] \in State /\ Len(p) \in Nat
  BY DEF Program
<1> QED
  BY <1>1 DEF State, Controls

\* The numbers of calls grow along the program.
LEMMA Grows ==
  ASSUME NEW p, Program(p), NEW i \in 1 .. Len(p), NEW j \in 1 .. Len(p), i <= j
  PROVE  /\ p[j].calls >= p[i].calls /\ p[j].reduces >= p[i].reduces
         /\ i < j /\ p[j].pc = "reduce" => p[j].reduces > p[i].reduces
<1> DEFINE Up(k) == /\ p[k].calls >= p[i].calls /\ p[k].reduces >= p[i].reduces
                    /\ i < k /\ p[k].pc = "reduce" => p[k].reduces > p[i].reduces
           S == { k \in Nat : i <= k /\ k <= Len(p) => Up(k) }
<1>0. i \in Nat /\ j \in Nat /\ Len(p) \in Nat /\ i > 0
  BY ProgramType
<1>1. 0 \in S
  BY <1>0
<1>2. ASSUME NEW k \in Nat, k \in S
      PROVE  k + 1 \in S
  <2> SUFFICES ASSUME i <= k + 1, k + 1 <= Len(p) PROVE Up(k + 1)
    OBVIOUS
  <2>1. CASE i = k + 1
    <3>1. p[i].calls \in Nat /\ p[i].reduces \in Nat
      BY ProgramType
    <3> QED
      BY <2>1, <3>1, <1>0
  <2>2. CASE i # k + 1
    <3>1. i <= k /\ k \in 1 .. Len(p) /\ k + 1 \in 1 .. Len(p)
      BY <1>0, <2>2
    <3>2. Up(k)
      BY <1>0, <1>2, <3>1
    <3>3. /\ p[k].calls \in Nat /\ p[k].reduces \in Nat /\ p[i].calls \in Nat /\ p[i].reduces \in Nat
          /\ p[k + 1].calls \in Nat /\ p[k + 1].reduces \in Nat
      BY <3>1, ProgramType
    <3>4. /\ p[k + 1].calls >= p[k].calls /\ p[k + 1].reduces >= p[k].reduces
          /\ p[k + 1].pc = "reduce" => p[k + 1].reduces = p[k].reduces + 1
      BY <3>1, ProgramStep
    <3> DEFINE c1 == p[i].calls
               c2 == p[k].calls
               c3 == p[k + 1].calls
               r1 == p[i].reduces
               r2 == p[k].reduces
               r3 == p[k + 1].reduces
               at == p[k + 1].pc = "reduce"
    <3>5. /\ c1 \in Nat /\ c2 \in Nat /\ c3 \in Nat /\ r1 \in Nat /\ r2 \in Nat /\ r3 \in Nat
          /\ c2 >= c1 /\ r2 >= r1 /\ c3 >= c2 /\ r3 >= r2 /\ (at => r3 = r2 + 1)
      BY <3>2, <3>3, <3>4, Zenon
    <3> HIDE DEF c1, c2, c3, r1, r2, r3, at
    <3>6. c3 >= c1 /\ r3 >= r1 /\ (at => r3 > r1)
      BY <3>5
    <3> QED
      BY <3>6, Zenon DEF c1, c3, r1, r3, at
  <2> QED
    BY <2>1, <2>2
<1>3. Nat \subseteq S
  <2> HIDE DEF S
  <2> QED
    BY <1>1, <1>2, Induction
<1> QED
  BY <1>0, <1>3

\* Between a ReduceAll and the next one all ranks regroup.
LEMMA Between ==
  ASSUME NEW p, Program(p), NEW i \in 1 .. Len(p), NEW j \in 1 .. Len(p), i < j,
         p[i].pc = "reduce", p[j].reduces > p[i].reduces
  PROVE  \E m \in i + 1 .. j - 1 : Waits(p[m]) /\ p[m].calls > p[i].calls
<1>0. i \in Nat /\ j \in Nat /\ Len(p) \in Nat /\ i > 0 /\ i <= Len(p) /\ j <= Len(p)
  BY ProgramType
<1> DEFINE More(k) == p[k].reduces > p[i].reduces => \E l \in i + 1 .. k : p[l].pc = "reduce"
           S == { k \in Nat : i <= k /\ k <= Len(p) => More(k) }
<1>1. 0 \in S
  BY <1>0
<1>2. ASSUME NEW k \in Nat, k \in S
      PROVE  k + 1 \in S
  <2> SUFFICES ASSUME i <= k + 1, k + 1 <= Len(p) PROVE More(k + 1)
    OBVIOUS
  <2>1. CASE i = k + 1
    <3>1. p[i].reduces \in Nat
      BY ProgramType
    <3> QED
      BY <2>1, <3>1
  <2>2. CASE i # k + 1
    <3>1. i <= k /\ k \in 1 .. Len(p) /\ k + 1 \in 1 .. Len(p)
      BY <1>0, <2>2
    <3>2. More(k)
      BY <1>0, <1>2, <3>1
    <3>3. p[k + 1].pc # "reduce" => p[k + 1].reduces = p[k].reduces
      BY <3>1, ProgramStep
    <3>4. \A l \in i + 1 .. k : l \in i + 1 .. k + 1
      BY <1>0
    <3>5. k + 1 \in i + 1 .. k + 1
      BY <1>0, <3>1
    <3> QED
      BY <3>2, <3>3, <3>4, <3>5
  <2> QED
    BY <2>1, <2>2
<1>3. Nat \subseteq S
  <2> HIDE DEF S
  <2> QED
    BY <1>1, <1>2, Induction
<1>4. PICK k \in i + 1 .. j : p[k].pc = "reduce"
  BY <1>0, <1>3
<1>5. k - 1 \in 1 .. Len(p) /\ (k - 1) + 1 = k /\ i <= k - 1 /\ k - 1 < j /\ k \in Nat
  BY <1>0
<1>6. p[k - 1].pc = "pack"
  BY <1>0, <1>4, <1>5, ProgramStep
<1>7. i <= k - 2 /\ k - 2 \in 1 .. Len(p) /\ (k - 2) + 1 = k - 1 /\ k - 1 <= Len(p)
  <2>1. i # k - 1
    BY <1>6
  <2> QED
    BY <1>0, <1>5, <2>1
<1>8. p[k - 2].pc = "x3"
  <2>1. p[(k - 2) + 1].pc = "pack" => p[k - 2].pc = "x3"
    BY <1>7, ProgramStep
  <2> QED
    BY <1>6, <1>7, <2>1
<1>9. i <= k - 3 /\ k - 3 \in 1 .. Len(p) /\ (k - 3) + 1 = k - 2 /\ k - 2 <= Len(p)
  <2>1. i # k - 2
    BY <1>8
  <2> QED
    BY <1>0, <1>5, <1>7, <2>1
<1>10. p[k - 2].calls = p[k - 3].calls + 1
  <2>1. p[(k - 3) + 1].pc = "x3" => p[(k - 3) + 1].calls = p[k - 3].calls + 1
    BY <1>9, ProgramStep
  <2> QED
    BY <1>8, <1>9, <2>1
<1>11. p[k - 3].calls >= p[i].calls /\ p[k - 3].calls \in Nat /\ p[i].calls \in Nat
  BY <1>9, Grows, ProgramType
<1>12. k - 2 \in i + 1 .. j - 1 /\ Waits(p[k - 2])
  <2>1. k - 2 \in i + 1 .. j - 1
    BY <1>0, <1>5, <1>9
  <2>2. Waits(p[k - 2])
    BY <1>8 DEF Waits
  <2> QED
    BY <2>1, <2>2
<1>13. p[k - 2].calls > p[i].calls
  BY <1>10, <1>11
<1> QED
  BY <1>12, <1>13

-----------------------------------------------------------------------------
(* The ranks on the program.                                                *)

\* n[r] is how far r has come: all ranks have made the calls that one of them
\* has returned from, and r has sent its own part of the sum it is in.
Along(p, n) ==
  /\ Program(p)
  /\ n \in [Rank -> 1 .. Len(p)]
  /\ \A r \in Rank : Control(r) = p[n[r]]
  /\ \A q \in Rank, r \in Rank, m \in Nat :
       m > 0 /\ m < n[q] /\ Waits(p[m]) => calls[r] >= p[m].calls
  /\ \A r \in Rank, m \in Nat :
       m > 0 /\ m <= n[r] /\ p[m].pc = "reduce" /\ p[m].reduces = reduces[r]
         => sent[r] = Part(r, p[m])

Typed ==
  /\ pc \in [Rank -> Pc] /\ cycle \in [Rank -> 0 .. Cycles] /\ todo \in [Rank -> Seq(Output)]
  /\ data \in [Rank -> [Diag -> Value]] /\ ncycle \in [Rank -> [Diag -> Nat]]
  /\ calls \in [Rank -> Nat] /\ reduces \in [Rank -> Nat] /\ sent \in [Rank -> Value]
  /\ last \in [Rank -> [Diag -> 0 .. Cycles]]
  /\ written \in [Rank -> [Diag -> Written \cup {Nil}]]

IInv ==
  /\ Typed
  /\ \A r \in Rank : Local(r)
  /\ \E p, n : Along(p, n)

LEMMA ControlFact ==
  ASSUME NEW r
  PROVE  /\ Control(r).pc = pc[r] /\ Control(r).cycle = cycle[r]
         /\ Control(r).todo = todo[r] /\ Control(r).ncycle = ncycle[r]
         /\ Control(r).last = last[r] /\ Control(r).calls = calls[r]
         /\ Control(r).reduces = reduces[r]
BY DEF Control

LEMMA ControlFactNext ==
  ASSUME NEW r
  PROVE  /\ Control(r)'.pc = pc'[r] /\ Control(r)'.cycle = cycle'[r]
         /\ Control(r)'.todo = todo'[r] /\ Control(r)'.ncycle = ncycle'[r]
         /\ Control(r)'.last = last'[r] /\ Control(r)'.calls = calls'[r]
         /\ Control(r)'.reduces = reduces'[r]
BY DEF Control

\* A program that goes one state further, if p[i] is where it ends.
LEMMA Longer ==
  ASSUME NEW p, Program(p), NEW i \in 1 .. Len(p), p[i].pc # "done"
  PROVE  \E p2 : /\ Program(p2) /\ Len(p) <= Len(p2) /\ i + 1 <= Len(p2)
                 /\ \A j \in 1 .. Len(p) : p2[j] = p[j]
                 /\ p2[i + 1] = After(p[i])
<1>0. p \in Seq(State) /\ Len(p) \in Nat /\ i \in Nat /\ p[i] \in State /\ i <= Len(p) /\ Len(p) > 0
  BY DEF Program
<1>1. CASE i < Len(p)
  <2>1. i \in 1 .. Len(p) - 1
    BY <1>0, <1>1
  <2>2. p[i + 1] = After(p[i]) /\ i + 1 <= Len(p)
    BY <1>0, <2>1 DEF Program
  <2> QED
    BY <1>0, <2>2
<1>2. CASE i = Len(p)
  <2> DEFINE a == After(p[i])
             p2 == Append(p, a)
  <2>1. a \in State
    BY <1>0, AfterState
  <2> HIDE DEF a
  <2>2. /\ p2 \in Seq(State) /\ Len(p2) = Len(p) + 1
        /\ \A j \in 1 .. Len(p) : p2[j] = p[j]
        /\ p2[Len(p) + 1] = a
    BY <1>0, <2>1
  <2> HIDE DEF p2
  <2>3. ASSUME NEW j \in 1 .. Len(p2) - 1
        PROVE  p2[j].pc # "done" /\ p2[j + 1] = After(p2[j])
    <3>1. j \in 1 .. Len(p)
      BY <1>0, <2>2
    <3>2. CASE j = Len(p)
      <4>1. p2[j] = p[i] /\ p2[j + 1] = a
        BY <1>2, <2>2, <3>1, <3>2
      <4> QED
        BY <4>1 DEF a
    <3>3. CASE j # Len(p)
      <4>1. j \in 1 .. Len(p) - 1 /\ j + 1 \in 1 .. Len(p)
        BY <1>0, <3>1, <3>3
      <4>2. p[j].pc # "done" /\ p[j + 1] = After(p[j])
        BY <4>1 DEF Program
      <4> QED
        BY <2>2, <3>1, <4>1, <4>2
    <3> QED
      BY <3>2, <3>3
  <2>4. Program(p2)
    BY <1>0, <2>2, <2>3 DEF Program
  <2>5. p2[i + 1] = After(p[i])
    BY <1>2, <2>2 DEF a
  <2>6. Len(p) <= Len(p2) /\ i + 1 <= Len(p2)
    BY <1>0, <1>2, <2>2
  <2> QED
    BY <2>2, <2>4, <2>5, <2>6
<1> QED
  BY <1>0, <1>1, <1>2

\* What a step of r does to r.
Moves(r) ==
  /\ pc[r] # "done"
  /\ Control(r)' = After(Control(r))
  /\ Waits(Control(r)) => Returns(r)
  /\ IF pc'[r] = "reduce" THEN sent'[r] = Part(r, Control(r)') ELSE sent'[r] = sent[r]
  /\ Local(r)'

\* A step of r does nothing to another rank.
Others(r) ==
  \A q \in Rank \ {r} :
    /\ pc'[q] = pc[q] /\ cycle'[q] = cycle[q] /\ todo'[q] = todo[q] /\ data'[q] = data[q]
    /\ ncycle'[q] = ncycle[q] /\ calls'[q] = calls[q] /\ reduces'[q] = reduces[q]
    /\ sent'[q] = sent[q] /\ last'[q] = last[q] /\ written'[q] = written[q]

LEMMA AlongStep ==
  ASSUME NEW p, NEW n, Along(p, n), NEW r \in Rank, Moves(r), Others(r)
  PROVE  \E p2, n2 : Along(p2, n2)'
<1> DEFINE i == n[r]
<1>1. /\ Program(p) /\ i \in 1 .. Len(p) /\ p[i] = Control(r) /\ n \in [Rank -> 1 .. Len(p)]
      /\ Len(p) \in Nat /\ \A q \in Rank : n[q] \in 1 .. Len(p) /\ Control(q) = p[n[q]]
  BY DEF Along, Program
<1>2. p[i] \in State /\ p[i].pc # "done"
  BY <1>1, ProgramType, ControlFact DEF Moves
<1>3. PICK p2 : /\ Program(p2) /\ Len(p) <= Len(p2) /\ i + 1 <= Len(p2)
                /\ \A j \in 1 .. Len(p) : p2[j] = p[j]
                /\ p2[i + 1] = After(p[i])
  BY <1>1, <1>2, Longer
<1> DEFINE n2 == [n EXCEPT ![r] = i + 1]
<1>4. /\ n2 \in [Rank -> 1 .. Len(p2)] /\ n2[r] = i + 1
      /\ \A q \in Rank \ {r} : n2[q] = n[q]
  <2>1. Len(p2) \in Nat
    BY <1>3 DEF Program
  <2>2. i + 1 \in 1 .. Len(p2) /\ \A q \in Rank : n[q] \in 1 .. Len(p2)
    BY <1>1, <1>3, <2>1
  <2> HIDE DEF i
  <2> QED
    BY <1>1, <2>2
<1> HIDE DEF n2
<1>5. \A q \in Rank : Control(q)' = p2[n2[q]]
  <2>1. Control(r)' = p2[n2[r]]
    BY <1>1, <1>3, <1>4 DEF Moves
  <2>2. ASSUME NEW q \in Rank \ {r}
        PROVE  Control(q)' = p2[n2[q]]
    <3>1. Control(q)' = Control(q)
      BY DEF Control, Others
    <3> QED
      BY <1>1, <1>3, <1>4, <3>1
  <2> QED
    BY <2>1, <2>2
<1>6. /\ p2[i + 1].calls >= p[i].calls /\ p2[i + 1].reduces >= p[i].reduces
      /\ p2[i + 1].pc = "reduce" => p2[i + 1].reduces = p[i].reduces + 1
      /\ p2[i + 1].pc # "reduce" => p2[i + 1].reduces = p[i].reduces
      /\ p[i].calls \in Nat /\ p2[i + 1].calls \in Nat /\ p[i].reduces \in Nat
  <2>1. i \in 1 .. Len(p2) /\ p2[i] = p[i]
    BY <1>1, <1>3
  <2>2. i + 1 \in 1 .. Len(p2)
    BY <1>1, <1>3
  <2> HIDE DEF i
  <2>3. /\ p2[i + 1].calls >= p2[i].calls /\ p2[i + 1].reduces >= p2[i].reduces
        /\ p2[i + 1].pc = "reduce" => p2[i + 1].reduces = p2[i].reduces + 1
        /\ p2[i + 1].pc # "reduce" => p2[i + 1].reduces = p2[i].reduces
    BY <1>3, <2>1, <2>2, ProgramStep
  <2>4. p2[i].calls \in Nat /\ p2[i + 1].calls \in Nat /\ p2[i].reduces \in Nat
    BY <1>3, <2>1, <2>2, ProgramType
  <2> QED
    BY <2>1, <2>3, <2>4, Zenon
<1>7. /\ calls'[r] = p2[i + 1].calls /\ calls[r] = p[i].calls
      /\ reduces'[r] = p2[i + 1].reduces /\ reduces[r] = p[i].reduces
      /\ pc'[r] = p2[i + 1].pc
  BY <1>1, <1>4, <1>5, ControlFact, ControlFactNext
<1>8. ASSUME NEW q \in Rank, NEW s \in Rank, NEW m \in Nat, m > 0, m < n2[q], Waits(p2[m])
      PROVE  calls'[s] >= p2[m].calls
  <2>1. m \in 1 .. Len(p) /\ p2[m] = p[m]
    <3>1. n2[q] <= Len(p) + 1
      <4>1. CASE q = r
        BY <1>1, <1>4, <4>1
      <4>2. CASE q # r
        BY <1>1, <1>4, <4>2
      <4> QED
        BY <4>1, <4>2
    <3>2. m \in 1 .. Len(p)
      <4>1. n2[q] \in Int /\ m < n2[q] /\ m > 0 /\ Len(p) \in Nat
        BY <1>1, <1>4, <1>8
      <4> QED
        BY <3>1, <4>1
    <3> QED
      BY <1>3, <3>2
  <2>2. p[m].calls \in Nat
    BY <1>1, <2>1, ProgramType
  <2>3. calls[s] >= p[m].calls
    <3>1. CASE m < n[q]
      BY <1>8, <2>1, <3>1 DEF Along
    <3>2. CASE ~ (m < n[q])
      <4>1. q = r /\ m = i
        BY <1>1, <1>4, <1>8, <3>2
      <4>2. Returns(r)
        BY <1>1, <1>8, <2>1, <4>1 DEF Moves
      <4> QED
        BY <1>7, <4>1, <4>2 DEF Returns
    <3> QED
      BY <3>1, <3>2
  <2>4. calls[s] \in Nat /\ calls'[s] \in Nat /\ calls'[s] >= calls[s]
    <3>1. CASE s = r
      BY <1>6, <1>7, <3>1
    <3>2. CASE s # r
      <4>1. calls'[s] = calls[s]
        BY <3>2 DEF Others
      <4>2. calls[s] \in Nat
        BY <1>1, ProgramType, ControlFact
      <4> QED
        BY <4>1, <4>2
    <3> QED
      BY <3>1, <3>2
  <2> QED
    BY <2>1, <2>2, <2>3, <2>4
<1>9. ASSUME NEW q \in Rank, NEW m \in Nat, m > 0, m <= n2[q], p2[m].pc = "reduce",
             p2[m].reduces = reduces'[q]
      PROVE  sent'[q] = Part(q, p2[m])
  <2>1. CASE q # r
    <3>1. m \in 1 .. Len(p) /\ p2[m] = p[m] /\ m <= n[q]
      BY <1>1, <1>3, <1>4, <1>9, <2>1
    <3>2. sent'[q] = sent[q] /\ reduces'[q] = reduces[q]
      BY <2>1 DEF Others
    <3> QED
      BY <1>9, <3>1, <3>2 DEF Along
  <2>2. CASE q = r /\ m = i + 1
    <3>1. pc'[r] = "reduce" /\ Control(r)' = p2[m]
      BY <1>4, <1>5, <1>7, <1>9, <2>2
    <3> QED
      BY <2>2, <3>1 DEF Moves
  <2>3. CASE q = r /\ m # i + 1
    <3>1. m \in 1 .. Len(p) /\ p2[m] = p[m] /\ m <= i
      BY <1>1, <1>3, <1>4, <1>9, <2>3
    <3>2. p[i].reduces >= p[m].reduces /\ p[m].reduces \in Nat
      BY <1>1, <3>1, Grows, ProgramType
    <3>3. p2[i + 1].pc # "reduce"
      BY <1>6, <1>7, <1>9, <2>3, <3>1, <3>2
    <3>4. sent'[r] = sent[r] /\ reduces'[r] = reduces[r]
      BY <1>6, <1>7, <3>3 DEF Moves
    <3> QED
      BY <1>9, <2>3, <3>1, <3>4 DEF Along
  <2> QED
    BY <2>1, <2>2, <2>3
<1>10. Along(p2, n2)'
  BY <1>3, <1>4, <1>5, <1>8, <1>9 DEF Along
<1> QED
  BY <1>10

\* The ranks that ReduceAll waits for have sent their parts of one sum.
LEMMA SentRight ==
  ASSUME NEW p, NEW n, Along(p, n), NEW r \in Rank, pc[r] = "reduce", NEW q \in Rank,
         reduces[q] >= reduces[r]
  PROVE  sent[q] = Part(q, Control(r))
<1> DEFINE i == n[r]
           j == n[q]
<1>1. /\ Program(p) /\ i \in 1 .. Len(p) /\ j \in 1 .. Len(p)
      /\ p[i] = Control(r) /\ p[j] = Control(q)
  BY DEF Along
<1>2. p[i].pc = "reduce" /\ p[i].reduces = reduces[r] /\ p[j].reduces = reduces[q]
      /\ p[i].calls = calls[r]
  BY <1>1, ControlFact
<1>3. i \in Nat /\ j \in Nat /\ p[i].reduces \in Nat /\ p[j].reduces \in Nat /\ p[i].calls \in Nat
  BY <1>1, ProgramType
<1> HIDE DEF i, j
<1>4. i <= j
  <2> SUFFICES ASSUME j < i PROVE FALSE
    BY <1>3
  <2>1. p[i].reduces > p[j].reduces
    BY <1>1, <1>2, <1>3, Grows
  <2> QED
    BY <1>2, <1>3, <2>1
<1>5. p[j].reduces = p[i].reduces
  <2> SUFFICES ASSUME p[j].reduces # p[i].reduces PROVE FALSE
    OBVIOUS
  <2>1. p[j].reduces > p[i].reduces /\ i < j
    BY <1>2, <1>3, <1>4
  <2>2. PICK m \in i + 1 .. j - 1 : Waits(p[m]) /\ p[m].calls > p[i].calls
    BY <1>1, <1>2, <2>1, Between
  <2>3. m \in Nat /\ m > 0 /\ m < j
    BY <1>3, <2>2
  <2>4. calls[r] >= p[m].calls
    BY <2>2, <2>3 DEF Along, j
  <2>5. p[m].calls \in Nat
    <3>1. m \in 1 .. Len(p)
      BY <1>1, <1>3, <2>3
    <3> QED
      BY <1>1, <3>1, ProgramType
  <2> QED
    BY <1>2, <1>3, <2>2, <2>4, <2>5
<1>6. i > 0 /\ p[i].reduces = reduces[q]
  BY <1>1, <1>2, <1>5
<1>7. sent[q] = Part(q, p[i])
  BY <1>2, <1>3, <1>4, <1>6 DEF Along, j
<1> QED
  BY <1>1, <1>7

-----------------------------------------------------------------------------
(* What data and the outputs hold.                                          *)

LEMMA AddedFact ==
  ASSUME NEW c \in State, NEW d \in Diag
  PROVE  Added(c, d) \subseteq 0 .. Cycles
<1>1. /\ c.cycle \in 0 .. Cycles /\ c.last[d] \in 0 .. Cycles /\ Cycles \in Nat
      /\ c.pc = "newdt" => c.cycle < Cycles
  BY Sizes DEF State, Controls, Sound
<1> QED
  BY <1>1 DEF Added

LEMMA ZeroValue == Zero \in Value
BY Sizes DEF Zero, Value

LEMMA HoldsType ==
  ASSUME NEW c \in State, NEW d \in Diag, NEW r \in Rank, NEW w \in Written \cup {Nil}
  PROVE  Holds(r, c, w, d) \in Value
<1>1. Added(c, d) \subseteq 0 .. Cycles /\ Plane[r] \subseteq Rank /\ 1 \in 1 .. Cycles
  BY AddedFact, DiagnosticsAssumption, Sizes
<1>2. [sum |-> Plane[r] \X Added(c, d), n |-> 1, vol |-> Plane[r]] \in Value
  BY <1>1 DEF Value
<1>3. d = Now(c) => Part(r, c) \in Value
  BY <1>1 DEF Value, Part
<1>4. [sum |-> {r} \X Added(c, d), n |-> 1, vol |-> {}] \in Value
  BY <1>1 DEF Value
<1>5. (IF w = Nil THEN Zero ELSE w.value) \in Value
  BY ZeroValue DEF Written
<1> QED
  BY <1>2, <1>3, <1>4, <1>5 DEF Holds

\* The four values that Finalize can leave in data are the right ones.
LEMMA Writes ==
  ASSUME NEW c \in State, c.pc \in {"output", "divide"}, c.todo # << >>, NEW r \in Rank,
         NEW w \in Written \cup {Nil}, NEW v,
         LET d == Now(c) IN
         \/ /\ ~ Planar(d) /\ c.ncycle[d] > 0
            /\ v = [sum |-> {r} \X Added(c, d), n |-> c.ncycle[d], vol |-> {}]
         \/ /\ ~ Planar(d) /\ c.ncycle[d] = 0
            /\ v = [sum |-> {<<r, c.cycle>>}, n |-> 1, vol |-> {}]
         \/ /\ Planar(d) /\ Accumulates(d) /\ c.ncycle[d] = 0
            /\ v = IF w = Nil THEN Zero ELSE w.value
         \/ /\ Planar(d) /\ (Accumulates(d) => c.ncycle[d] > 0)
            /\ v = [sum |-> Plane[r] \X Added(c, d),
                    n |-> IF Accumulates(d) THEN c.ncycle[d] ELSE 1, vol |-> Plane[r]]
  PROVE  LET x == [value |-> v, at |-> c.cycle, since |-> c.last[Now(c)],
                   before |-> IF w = Nil THEN Zero ELSE w.value]
         IN v \in Value /\ x \in Written /\ x # Nil /\ Right(r, Now(c), x)
<1> DEFINE d == Now(c)
           b == c.last[d]
           t == c.cycle
           z == IF w = Nil THEN Zero ELSE w.value
           x == [value |-> v, at |-> t, since |-> b, before |-> z]
           S == (b + 1) .. t
<1>1. d \in Diag
  <2>1. c.todo \in Seq(Output)
    BY DEF State, Controls
  <2> QED
    BY <2>1, NowFact DEF Now
<1>2. /\ b \in 0 .. Cycles /\ t \in 0 .. Cycles /\ b <= t /\ Cycles \in Nat /\ Cycles > 0
      /\ c.ncycle[d] = IF ~ Accumulates(d) THEN 0 ELSE t - b
  BY <1>1, Sizes DEF State, Controls, Sound
<1>3. /\ Accumulates(d) => Added(c, d) = S
      /\ ~ Accumulates(d) => Added(c, d) = {t}
  BY DEF Added
<1>4. Cardinality(S) = t - b /\ Cardinality({t}) = 1
  <2>1. b + 1 \in Int /\ t \in Int
    BY <1>2
  <2>2. Cardinality(S) = IF b + 1 > t THEN 0 ELSE t - (b + 1) + 1
    BY <2>1, FS_Interval
  <2> HIDE DEF S
  <2>3. Cardinality(S) = t - b
    BY <1>2, <2>2
  <2> QED
    BY <2>3, FS_Singleton
<1>5. c.ncycle[d] > 0 => S # {} /\ c.ncycle[d] \in 1 .. Cycles /\ c.ncycle[d] = Cardinality(S)
                         /\ Accumulates(d)
  <2>1. S # {} <=> b < t
    BY <1>2
  <2> HIDE DEF S, d, b, t
  <2> QED
    BY <1>2, <1>4, <2>1
<1>6. Accumulates(d) /\ c.ncycle[d] = 0 => S = {}
  BY <1>2
<1>7. ~ Planar(d) => Accumulates(d)
  BY DEF Planar, Accumulates
<1>8. z \in Value
  BY ZeroValue DEF Written
<1>9. Added(c, d) \subseteq 0 .. Cycles /\ Plane[r] \subseteq Rank /\ 1 \in 1 .. Cycles
  BY <1>1, <1>2, AddedFact, DiagnosticsAssumption
<1> HIDE DEF S, z
<1>10. v \in Value /\ v = (LET blocks == IF Planar(d) THEN Plane[r] ELSE {r}
                               Average(of) == [sum |-> blocks \X of, n |-> Cardinality(of),
                                               vol |-> IF Planar(d) THEN blocks ELSE {}]
                           IN IF Accumulates(d) /\ S # {} THEN Average(S)
                              ELSE IF Accumulates(d) /\ Planar(d) THEN z
                              ELSE Average({t}))
  <2> HIDE DEF t, b
  <2>1. CASE ~ Planar(d) /\ c.ncycle[d] > 0
    <3>1. v = [sum |-> {r} \X Added(c, d), n |-> c.ncycle[d], vol |-> {}]
      BY <2>1 DEF d
    <3> HIDE DEF d
    <3>2. v \in Value
      BY <1>5, <1>9, <2>1, <3>1 DEF Value
    <3> QED
      BY <1>3, <1>5, <2>1, <3>1, <3>2
  <2>2. CASE ~ Planar(d) /\ c.ncycle[d] = 0
    <3>1. v = [sum |-> {<<r, t>>}, n |-> 1, vol |-> {}]
      BY <2>2 DEF d, t
    <3> HIDE DEF d
    <3>2. {<<r, t>>} = {r} \X {t}
      OBVIOUS
    <3>3. v \in Value
      BY <1>2, <1>9, <3>1 DEF Value
    <3> QED
      BY <1>4, <1>6, <1>7, <2>2, <3>1, <3>2, <3>3
  <2>3. CASE Planar(d) /\ Accumulates(d) /\ c.ncycle[d] = 0
    <3>1. v = z
      BY <2>3 DEF d, z
    <3> HIDE DEF d
    <3> QED
      BY <1>6, <1>8, <2>3, <3>1
  <2>4. CASE Planar(d) /\ (Accumulates(d) => c.ncycle[d] > 0)
    <3>1. v = [sum |-> Plane[r] \X Added(c, d),
               n |-> IF Accumulates(d) THEN c.ncycle[d] ELSE 1, vol |-> Plane[r]]
      BY <1>2, <2>4 DEF d
    <3> HIDE DEF d
    <3>2. v \in Value
      <4>1. (IF Accumulates(d) THEN c.ncycle[d] ELSE 1) \in 1 .. Cycles
        BY <1>5, <1>9, <2>4
      <4> QED
        BY <1>9, <3>1, <4>1 DEF Value
    <3>3. CASE Accumulates(d)
      BY <1>3, <1>5, <2>4, <3>1, <3>2, <3>3
    <3>4. CASE ~ Accumulates(d)
      BY <1>3, <1>4, <2>4, <3>1, <3>2, <3>4
    <3> QED
      BY <3>3, <3>4
  <2>5. c.ncycle[d] = 0 \/ c.ncycle[d] > 0
    BY <1>2 DEF t, b
  <2> QED
    BY <1>7, <2>1, <2>2, <2>3, <2>4, <2>5
<1>11. x \in Written
  BY <1>2, <1>8, <1>10 DEF Written
<1>12. x # Nil
  BY <1>11, NilAssumption
<1>13. Right(r, d, x)
  <2>1. x.value = v /\ x.at = t /\ x.since = b /\ x.before = z
    OBVIOUS
  <2> HIDE DEF x
  <2> QED
    BY <1>10, <2>1 DEF Right, S
<1> QED
  BY <1>10, <1>11, <1>12, <1>13 DEF z

-----------------------------------------------------------------------------
(* The steps.                                                               *)

Shape ==
  /\ pc' = [q \in Rank |-> pc'[q]] /\ cycle' = [q \in Rank |-> cycle'[q]]
  /\ todo' = [q \in Rank |-> todo'[q]] /\ data' = [q \in Rank |-> data'[q]]
  /\ ncycle' = [q \in Rank |-> ncycle'[q]] /\ calls' = [q \in Rank |-> calls'[q]]
  /\ reduces' = [q \in Rank |-> reduces'[q]] /\ sent' = [q \in Rank |-> sent'[q]]
  /\ last' = [q \in Rank |-> last'[q]] /\ written' = [q \in Rank |-> written'[q]]

\* Every variable is a function of the ranks, and a step of r changes r's part.
LEMMA StepShape ==
  ASSUME Typed, NEW r \in Rank, Step(r)
  PROVE  Others(r) /\ Shape
<1>1. CASE Progress(r)
  BY <1>1 DEF Typed, Progress, Call, files, Others, Shape
<1>2. CASE NewTimeStep(r)
  BY <1>2 DEF Typed, NewTimeStep, mpi, files, Others, Shape
<1>3. CASE OutputsDone(r)
  BY <1>3 DEF Typed, OutputsDone, local, mpi, files, Others, Shape
<1>4. ASSUME NEW v, Write(r, v)
      PROVE  Others(r) /\ Shape
  <2> DEFINE d == Current(r)
             a == [data[r] EXCEPT ![d] = v]
             b == [ncycle[r] EXCEPT ![d] = 0]
             l == [last[r] EXCEPT ![d] = cycle[r]]
             x == [value |-> v, at |-> cycle[r], since |-> last[r][d],
                   before |-> IF written[r][d] = Nil THEN Zero ELSE written[r][d].value]
             w == [written[r] EXCEPT ![d] = x]
  <2>1. /\ data' = [data EXCEPT ![r] = a] /\ ncycle' = [ncycle EXCEPT ![r] = b]
        /\ last' = [last EXCEPT ![r] = l]
    BY <1>4 DEF Typed, Write
  <2>2. written' = [written EXCEPT ![r] = w]
    BY <1>4 DEF Typed, Write
  <2>3. /\ todo' = [todo EXCEPT ![r] = Tail(@)] /\ pc' = [pc EXCEPT ![r] = "output"]
        /\ cycle' = cycle /\ calls' = calls /\ reduces' = reduces /\ sent' = sent
    BY <1>4 DEF Write, mpi
  <2> HIDE DEF a, b, l, w
  <2> QED
    BY <2>1, <2>2, <2>3 DEF Typed, Others, Shape
<1>5. CASE FinalizeMean(r) \/ FinalizeAgain(r) \/ Divide(r)
  BY <1>4, <1>5 DEF FinalizeMean, FinalizeAgain, Divide
<1>6. CASE FinalizePlanar(r)
  BY <1>6 DEF Typed, FinalizePlanar, Call, files, Others, Shape
<1>7. CASE Regroup(r)
  BY <1>7 DEF Typed, Regroup, Call, local, files, Others, Shape
<1>8. CASE Regrouped(r)
  BY <1>8 DEF Typed, Regrouped, local, mpi, files, Others, Shape
<1>9. CASE PackData(r)
  BY <1>9 DEF Typed, PackData, local, files, Others, Shape
<1>10. CASE ReduceAll(r)
  BY <1>10 DEF Typed, ReduceAll, mpi, files, Others, Shape
<1> QED
  BY <1>1, <1>2, <1>3, <1>5, <1>6, <1>7, <1>8, <1>9, <1>10 DEF Step

LEMMA ControlEqual ==
  ASSUME NEW r, NEW e \in State, e.pc = pc'[r], e.cycle = cycle'[r], e.todo = todo'[r],
         e.ncycle = ncycle'[r], e.last = last'[r], e.calls = calls'[r], e.reduces = reduces'[r]
  PROVE  Control(r)' = e
<1>1. e \in Controls
  BY DEF State
<1> QED
  BY <1>1 DEF Controls, Control

\* What holds stays as long as nothing is added and nothing is finalized.
LEMMA HoldsSame ==
  ASSUME NEW c, NEW e, NEW d, NEW r, NEW w,
         ~ (Finalizing(c) /\ d = Now(c)), ~ (Finalizing(e) /\ d = Now(e)),
         e.ncycle[d] = c.ncycle[d], Accumulates(d) => Added(e, d) = Added(c, d)
  PROVE  Holds(r, e, w, d) = Holds(r, c, w, d)
BY DEF Holds

\* A step of r that leaves data and the output of d alone.
LEMMA LocalNext ==
  ASSUME NEW r, Local(r), Control(r)' \in State, data'[r] \in [Diag -> Value],
         sent'[r] \in Value, written'[r] = written[r],
         \A d \in Diag : data'[r][d] = Holds(r, Control(r)', written[r][d], d)
  PROVE  Local(r)'
BY DEF Local

LEMMA ControlType ==
  ASSUME NEW r, Control(r) \in State
  PROVE  /\ pc[r] \in Pc /\ cycle[r] \in 0 .. Cycles /\ todo[r] \in Seq(Output)
         /\ ncycle[r] \in [Diag -> Nat] /\ last[r] \in [Diag -> 0 .. Cycles]
         /\ calls[r] \in Nat /\ reduces[r] \in Nat /\ Cycles \in Nat
         /\ Now(Control(r)) = Current(r)
         /\ todo[r] # << >> => Current(r) \in Diag
<1>1. Control(r) \in Controls
  BY DEF State
<1>2. /\ pc[r] \in Pc /\ cycle[r] \in 0 .. Cycles /\ todo[r] \in Seq(Output)
      /\ ncycle[r] \in [Diag -> Nat] /\ last[r] \in [Diag -> 0 .. Cycles]
      /\ calls[r] \in Nat /\ reduces[r] \in Nat
  BY <1>1, ControlFact DEF Controls
<1>3. Now(Control(r)) = Current(r)
  BY ControlFact DEF Now, Current
<1>4. todo[r] # << >> => Current(r) \in Diag
  BY <1>2, NowFact DEF Current
<1> QED
  BY <1>2, <1>3, <1>4, Sizes

LEMMA WriteMoves ==
  ASSUME Typed, NEW r \in Rank, Local(r), pc[r] \in {"output", "divide"}, todo[r] # << >>,
         After(Control(r)) = Wrote(Control(r)), NEW v, Write(r, v),
         LET c == Control(r)
             d == Now(c)
             w == written[r][d] IN
         \/ /\ ~ Planar(d) /\ c.ncycle[d] > 0
            /\ v = [sum |-> {r} \X Added(c, d), n |-> c.ncycle[d], vol |-> {}]
         \/ /\ ~ Planar(d) /\ c.ncycle[d] = 0
            /\ v = [sum |-> {<<r, c.cycle>>}, n |-> 1, vol |-> {}]
         \/ /\ Planar(d) /\ Accumulates(d) /\ c.ncycle[d] = 0
            /\ v = IF w = Nil THEN Zero ELSE w.value
         \/ /\ Planar(d) /\ (Accumulates(d) => c.ncycle[d] > 0)
            /\ v = [sum |-> Plane[r] \X Added(c, d),
                    n |-> IF Accumulates(d) THEN c.ncycle[d] ELSE 1, vol |-> Plane[r]]
  PROVE  Moves(r)
<1> DEFINE c == Control(r)
           d == Now(c)
           w == written[r][d]
           x == [value |-> v, at |-> cycle[r], since |-> last[r][d],
                 before |-> IF w = Nil THEN Zero ELSE w.value]
<1>1. /\ c \in State /\ d = Current(r) /\ d \in Diag
      /\ c.pc = pc[r] /\ c.todo = todo[r] /\ c.cycle = cycle[r] /\ c.ncycle = ncycle[r]
      /\ c.last = last[r] /\ c.calls = calls[r] /\ c.reduces = reduces[r]
      /\ w \in Written \cup {Nil}
      /\ c.ncycle \in [Diag -> Nat] /\ c.last \in [Diag -> 0 .. Cycles]
      /\ data[r] \in [Diag -> Value] /\ written[r] \in [Diag -> Written \cup {Nil}]
      /\ sent[r] \in Value
  BY ControlType, ControlFact DEF Local
<1>2. v \in Value /\ x \in Written /\ x # Nil /\ Right(r, d, x)
  <2>1. LET y == [value |-> v, at |-> c.cycle, since |-> c.last[d],
                  before |-> IF w = Nil THEN Zero ELSE w.value]
        IN v \in Value /\ y \in Written /\ y # Nil /\ Right(r, d, y)
    BY <1>1, Writes
  <2> QED
    BY <1>1, <2>1
<1>3. /\ pc'[r] = "output" /\ cycle'[r] = cycle[r] /\ todo'[r] = Tail(todo[r])
      /\ ncycle'[r] = [ncycle[r] EXCEPT ![d] = 0] /\ last'[r] = [last[r] EXCEPT ![d] = cycle[r]]
      /\ calls'[r] = calls[r] /\ reduces'[r] = reduces[r] /\ sent'[r] = sent[r]
  <2> HIDE DEF d
  <2> QED
    BY <1>1 DEF Typed, Write, mpi
<1>4. data'[r] = [data[r] EXCEPT ![d] = v] /\ written'[r] = [written[r] EXCEPT ![d] = x]
  <2> HIDE DEF d
  <2> QED
    BY <1>1 DEF Typed, Write
<1> DEFINE e == Wrote(c)
<1>5. e \in State
  BY <1>1, WroteState
<1>7. /\ e.pc = "output" /\ e.cycle = c.cycle /\ e.todo = Tail(c.todo)
      /\ e.ncycle = [c.ncycle EXCEPT ![d] = 0] /\ e.last = [c.last EXCEPT ![d] = c.cycle]
      /\ e.calls = c.calls /\ e.reduces = c.reduces
  <2>1. c \in Controls
    BY <1>1 DEF State
  <2> HIDE DEF c
  <2> QED
    BY <2>1 DEF Controls, Wrote
<1> HIDE DEF e, x, d, c
<1>6. Control(r)' = e
  BY <1>1, <1>3, <1>5, <1>7, ControlEqual
<1>8. ASSUME NEW f \in Diag
      PROVE  /\ data'[r][f] = Holds(r, e, written'[r][f], f)
             /\ written'[r][f] # Nil => Right(r, f, written'[r][f])
             /\ data'[r][f] \in Value /\ written'[r][f] \in Written \cup {Nil}
  <2>1. CASE f = d
    <3>1. data'[r][f] = v /\ written'[r][f] = x /\ e.ncycle[f] = 0
      BY <1>1, <1>4, <1>7, <2>1
    <3>2. Holds(r, e, x, f) = v
      BY <1>2, <1>7, <3>1 DEF Holds, Finalizing, x
    <3> QED
      BY <1>2, <2>1, <3>1, <3>2
  <2>2. CASE f # d
    <3>1. /\ data'[r][f] = data[r][f] /\ written'[r][f] = written[r][f]
          /\ e.ncycle[f] = c.ncycle[f] /\ e.last[f] = c.last[f]
      BY <1>1, <1>4, <1>7, <2>2
    <3>2. Added(e, f) = Added(c, f)
      BY <1>1, <1>7, <3>1 DEF Added
    <3>3. ~ (Finalizing(c) /\ f = Now(c)) /\ ~ (Finalizing(e) /\ f = Now(e))
      BY <1>7, <2>2 DEF Finalizing, d
    <3>4. Holds(r, e, written[r][f], f) = Holds(r, c, written[r][f], f)
      BY <3>1, <3>2, <3>3, HoldsSame
    <3> QED
      BY <1>1, <3>1, <3>4 DEF Local, c
  <2> QED
    BY <2>1, <2>2
<1>9. data'[r] \in [Diag -> Value] /\ written'[r] \in [Diag -> Written \cup {Nil}]
  <2>1. /\ data'[r] = [f \in Diag |-> data'[r][f]]
        /\ written'[r] = [f \in Diag |-> written'[r][f]]
    BY <1>1, <1>4
  <2> QED
    BY <1>8, <2>1
<1>10. Local(r)'
  BY <1>1, <1>3, <1>5, <1>6, <1>8, <1>9 DEF Local
<1>11. ~ Waits(c)
  BY <1>1 DEF Waits
<1> QED
  BY <1>1, <1>3, <1>6, <1>10, <1>11 DEF Moves, c, e

\* What is left to show of a step that writes nothing.
LEMMA MovesTo ==
  ASSUME NEW r \in Rank, Local(r), pc[r] # "done", NEW e, e = After(Control(r)),
         e.pc = pc'[r], e.cycle = cycle'[r], e.todo = todo'[r], e.ncycle = ncycle'[r],
         e.last = last'[r], e.calls = calls'[r], e.reduces = reduces'[r],
         Waits(Control(r)) => Returns(r),
         IF pc'[r] = "reduce" THEN sent'[r] = Part(r, e) ELSE sent'[r] = sent[r],
         sent'[r] \in Value, written'[r] = written[r],
         data'[r] = [d \in Diag |-> data'[r][d]],
         \A d \in Diag : data'[r][d] = Holds(r, e, written[r][d], d)
  PROVE  Moves(r)
<1>1. e \in State
  BY AfterState, ControlFact DEF Local
<1>2. Control(r)' = e
  BY <1>1, ControlEqual
<1>3. data'[r] \in [Diag -> Value]
  <2>1. \A d \in Diag : data'[r][d] \in Value
    BY <1>1, HoldsType DEF Local
  <2> QED
    BY <2>1
<1>4. Local(r)'
  BY <1>1, <1>2, <1>3, LocalNext
<1> QED
  BY <1>2, <1>4 DEF Moves

\* The state of r and what the program makes of it.
LEMMA LocalFact ==
  ASSUME NEW r \in Rank, Local(r)
  PROVE  /\ Control(r) \in State /\ Control(r) \in Controls /\ Sound(Control(r))
         /\ data[r] \in [Diag -> Value] /\ sent[r] \in Value
         /\ data[r] = [d \in Diag |-> data[r][d]]
         /\ \A d \in Diag : data[r][d] = Holds(r, Control(r), written[r][d], d)
BY DEF Local, State

LEMMA ProgressMoves ==
  ASSUME Typed, NEW r \in Rank, Local(r), Progress(r)
  PROVE  Moves(r)
<1> DEFINE c == Control(r)
           f == [d \in Diag |-> IF Accumulates(d) THEN c.ncycle[d] + 1 ELSE 0]
           g == Go(c, "newdt", 1, 0)
           e == [g EXCEPT !.ncycle = f]
<1>1. /\ c \in State /\ c \in Controls /\ Sound(c) /\ sent[r] \in Value
      /\ \A d \in Diag : data[r][d] = Holds(r, c, written[r][d], d)
  BY LocalFact
<1>2. /\ c.pc = pc[r] /\ c.todo = todo[r] /\ c.cycle = cycle[r] /\ c.ncycle = ncycle[r]
      /\ c.last = last[r] /\ c.calls = calls[r] /\ c.reduces = reduces[r]
      /\ ncycle[r] \in [Diag -> Nat] /\ last[r] \in [Diag -> 0 .. Cycles]
      /\ cycle[r] \in 0 .. Cycles /\ calls[r] \in Nat /\ reduces[r] \in Nat
  BY <1>1, ControlFact, ControlType
<1>3. c.pc = "stage"
  BY <1>2 DEF Progress
<1>4. After(c) = e
  BY <1>3, AfterFact
<1>5. /\ g \in Controls /\ g.pc = "newdt" /\ g.cycle = c.cycle /\ g.todo = c.todo
      /\ g.last = c.last /\ g.calls = c.calls + 1 /\ g.reduces = c.reduces + 0
  BY <1>1, GoFact DEF Pc
<1> HIDE DEF g, f
<1>6. /\ e.pc = "newdt" /\ e.cycle = c.cycle /\ e.todo = c.todo /\ e.ncycle = f
      /\ e.last = c.last /\ e.calls = c.calls + 1 /\ e.reduces = c.reduces
  BY <1>2, <1>5 DEF Controls
<1>7. /\ pc'[r] = "newdt" /\ cycle'[r] = cycle[r] /\ todo'[r] = todo[r] /\ last'[r] = last[r]
      /\ calls'[r] = calls[r] + 1 /\ reduces'[r] = reduces[r] /\ sent'[r] = sent[r]
      /\ written'[r] = written[r]
      /\ ncycle'[r] = [d \in Diag |-> IF Accumulates(d) THEN ncycle[r][d] + 1 ELSE 0]
      /\ data'[r] = [d \in Diag |->
           IF Accumulates(d)
           THEN [Zero EXCEPT !.sum = Cleared(r, d) \cup {<<r, cycle[r] + 1>>}]
           ELSE data[r][d]]
  BY DEF Typed, Progress, Call, files
<1>8. ncycle'[r] = f
  BY <1>2, <1>7 DEF f
<1> HIDE DEF e, c
<1>9. ASSUME NEW d \in Diag
      PROVE  data'[r][d] = Holds(r, e, written[r][d], d)
  <2>0. ~ Finalizing(c) /\ ~ Finalizing(e)
    BY <1>3, <1>6 DEF Finalizing
  <2>1. CASE Accumulates(d)
    <3>1. /\ e.ncycle[d] = c.ncycle[d] + 1 /\ c.ncycle[d] \in Nat
          /\ c.ncycle[d] = c.cycle - c.last[d] /\ c.last[d] <= c.cycle
          /\ c.cycle \in Nat /\ c.last[d] \in Nat
      BY <1>1, <1>2, <1>3, <1>6, <2>1, Sizes DEF Sound, f
    <3>2. Added(e, d) = (c.last[d] + 1) .. (c.cycle + 1)
      BY <1>6, <2>1 DEF Added
    <3>3. Added(c, d) = (c.last[d] + 1) .. c.cycle
      BY <1>3, <2>1 DEF Added
    <3>4. (c.last[d] + 1) .. (c.cycle + 1) =
            (IF c.ncycle[d] = 0 THEN {} ELSE (c.last[d] + 1) .. c.cycle) \cup {c.cycle + 1}
      BY <3>1
    <3>5. Cleared(r, d) = {r} \X (IF c.ncycle[d] = 0 THEN {} ELSE (c.last[d] + 1) .. c.cycle)
      <4>1. CASE c.ncycle[d] = 0
        <5>1. Cleared(r, d) = {}
          BY <1>2, <4>1 DEF Cleared
        <5> QED
          BY <4>1, <5>1
      <4>2. CASE c.ncycle[d] # 0
        <5>1. data[r][d] = [sum |-> {r} \X Added(c, d), n |-> 1, vol |-> {}]
          BY <1>1, <2>0, <2>1, <3>1, <4>2 DEF Holds
        <5>2. Cleared(r, d) = {r} \X Added(c, d)
          BY <1>2, <4>2, <5>1 DEF Cleared
        <5> QED
          BY <3>3, <4>2, <5>2
      <4> QED
        BY <4>1, <4>2
    <3>6. Cleared(r, d) \cup {<<r, cycle[r] + 1>>} = {r} \X Added(e, d)
      <4> DEFINE A == IF c.ncycle[d] = 0 THEN {} ELSE (c.last[d] + 1) .. c.cycle
                 t == c.cycle + 1
      <4>1. Added(e, d) = A \cup {t} /\ Cleared(r, d) = {r} \X A /\ cycle[r] + 1 = t
        BY <1>2, <3>2, <3>4, <3>5
      <4> HIDE DEF A, t
      <4> QED
        BY <4>1
    <3>7. data'[r][d] = [sum |-> {r} \X Added(e, d), n |-> 1, vol |-> {}]
      BY <1>7, <2>1, <3>6 DEF Zero
    <3>8. e.ncycle[d] > 0
      BY <3>1
    <3> QED
      BY <2>0, <2>1, <3>7, <3>8 DEF Holds
  <2>2. CASE ~ Accumulates(d)
    <3>1. data'[r][d] = data[r][d]
      BY <1>7, <2>2
    <3> QED
      BY <1>1, <2>0, <2>2, <3>1 DEF Holds
  <2> QED
    BY <2>1, <2>2
<1>10. data'[r] = [d \in Diag |-> data'[r][d]]
  BY <1>7
<1>11. ~ Waits(c) /\ pc[r] # "done"
  BY <1>2, <1>3 DEF Waits
<1>12. /\ e = After(Control(r)) /\ e.pc = pc'[r] /\ e.cycle = cycle'[r] /\ e.todo = todo'[r]
       /\ e.ncycle = ncycle'[r] /\ e.last = last'[r] /\ e.calls = calls'[r]
       /\ e.reduces = reduces'[r] /\ ~ Waits(Control(r)) /\ pc'[r] # "reduce"
  BY <1>2, <1>4, <1>6, <1>7, <1>8, <1>11 DEF c
<1>13. sent'[r] = sent[r] /\ sent'[r] \in Value /\ written'[r] = written[r]
  BY <1>1, <1>7
<1> QED
  BY <1>9, <1>10, <1>11, <1>12, <1>13, MovesTo

\* A step from one place to another within an output, or at the end of them.
LEMMA GoMoves ==
  ASSUME Typed, NEW r \in Rank, Local(r), pc[r] # "done",
         NEW a \in Pc, NEW k \in Nat, NEW m \in Nat,
         After(Control(r)) = Go(Control(r), a, k, m),
         pc' = [pc EXCEPT ![r] = a], calls'[r] = calls[r] + k, reduces'[r] = reduces[r] + m,
         UNCHANGED <<cycle, todo, ncycle, files>>,
         Waits(Control(r)) => Returns(r),
         IF a = "reduce" THEN sent'[r] = Part(r, Control(r)) ELSE sent'[r] = sent[r],
         sent'[r] \in Value, pc[r] # "newdt", a # "newdt",
         data'[r] = [d \in Diag |-> data'[r][d]],
         \A d \in Diag :
           \/ data'[r][d] = data[r][d] /\ d # Current(r)
           \/ /\ data'[r][d] = data[r][d]
              /\ (Finalizing(Control(r)) /\ pc[r] # "divide")
                   <=> (a \in {"x2", "x3", "pack", "reduce"})
              /\ pc[r] # "divide" /\ a # "divide"
           \/ /\ d = Current(r) /\ a \in {"x2", "x3", "pack", "reduce"}
              /\ data'[r][d] = Part(r, Control(r))
           \/ /\ d = Current(r) /\ a = "divide"
              /\ data'[r][d] = [sum |-> Plane[r] \X Added(Control(r), d), n |-> 1,
                                vol |-> Plane[r]]
  PROVE  Moves(r)
<1> DEFINE c == Control(r)
           e == Go(c, a, k, m)
<1>1. /\ c \in State /\ c \in Controls /\ Sound(c)
      /\ \A d \in Diag : data[r][d] = Holds(r, c, written[r][d], d)
  BY LocalFact
<1>2. /\ c.pc = pc[r] /\ c.todo = todo[r] /\ c.cycle = cycle[r] /\ c.ncycle = ncycle[r]
      /\ c.last = last[r] /\ c.calls = calls[r] /\ c.reduces = reduces[r]
      /\ Now(c) = Current(r)
  BY <1>1, ControlFact, ControlType
<1>3. /\ e.pc = a /\ e.cycle = c.cycle /\ e.todo = c.todo /\ e.ncycle = c.ncycle
      /\ e.last = c.last /\ e.calls = c.calls + k /\ e.reduces = c.reduces + m
  BY <1>1, GoFact
<1>4. pc'[r] = a
  BY DEF Typed
<1>5. e = After(c)
  OBVIOUS
<1> HIDE DEF e, c
<1>6. Now(e) = Now(c)
  BY <1>3 DEF Now
<1>7. \A d : Added(e, d) = Added(c, d)
  BY <1>2, <1>3 DEF Added
<1>8. Part(r, e) = Part(r, c)
  BY <1>6, <1>7 DEF Part
<1>9. ASSUME NEW d \in Diag
      PROVE  data'[r][d] = Holds(r, e, written[r][d], d)
  <2>1. data[r][d] = Holds(r, c, written[r][d], d)
    BY <1>1
  <2>2. CASE data'[r][d] = data[r][d] /\ d # Current(r)
    BY <1>2, <1>3, <1>6, <1>7, <2>1, <2>2 DEF Holds
  <2>3. CASE /\ data'[r][d] = data[r][d]
             /\ (Finalizing(Control(r)) /\ pc[r] # "divide")
                   <=> (a \in {"x2", "x3", "pack", "reduce"})
             /\ pc[r] # "divide" /\ a # "divide"
    <3>1. Finalizing(c) <=> Finalizing(e)
      BY <1>2, <1>3, <2>3 DEF Finalizing, c
    <3> QED
      BY <1>2, <1>3, <1>6, <1>7, <1>8, <2>1, <2>3, <3>1 DEF Holds
  <2>4. CASE /\ d = Current(r) /\ a \in {"x2", "x3", "pack", "reduce"}
             /\ data'[r][d] = Part(r, Control(r))
    <3>1. Finalizing(e) /\ d = Now(e) /\ e.pc # "divide"
      BY <1>2, <1>3, <1>6, <2>4 DEF Finalizing
    <3> QED
      BY <1>8, <2>4, <3>1 DEF Holds, c
  <2>5. CASE /\ d = Current(r) /\ a = "divide"
             /\ data'[r][d] = [sum |-> Plane[r] \X Added(Control(r), d), n |-> 1,
                               vol |-> Plane[r]]
    <3>1. Finalizing(e) /\ d = Now(e) /\ e.pc = "divide"
      BY <1>2, <1>3, <1>6, <2>5 DEF Finalizing
    <3> QED
      BY <1>7, <2>5, <3>1 DEF Holds, c
  <2> QED
    BY <2>2, <2>3, <2>4, <2>5
<1>10. /\ cycle' = cycle /\ todo' = todo /\ ncycle' = ncycle /\ last' = last
       /\ written' = written
  BY DEF files
<1>11. IF pc'[r] = "reduce" THEN sent'[r] = Part(r, e) ELSE sent'[r] = sent[r]
  BY <1>4, <1>8 DEF c
<1> QED
  BY <1>2, <1>3, <1>4, <1>5, <1>9, <1>10, <1>11, MovesTo DEF c

LEMMA NewTimeStepMoves ==
  ASSUME Typed, NEW r \in Rank, Local(r), NewTimeStep(r)
  PROVE  Moves(r)
<1> DEFINE c == Control(r)
           g == Go(c, "output", 0, 0)
           e == [g EXCEPT !.cycle = c.cycle + 1, !.todo = OutputsAfter(c.cycle + 1)]
<1>1. /\ c \in State /\ c \in Controls /\ sent[r] \in Value
      /\ data[r] = [d \in Diag |-> data[r][d]]
      /\ \A d \in Diag : data[r][d] = Holds(r, c, written[r][d], d)
  BY LocalFact
<1>2. /\ c.pc = pc[r] /\ c.todo = todo[r] /\ c.cycle = cycle[r] /\ c.ncycle = ncycle[r]
      /\ c.last = last[r] /\ c.calls = calls[r] /\ c.reduces = reduces[r]
      /\ cycle[r] \in 0 .. Cycles /\ calls[r] \in Nat /\ reduces[r] \in Nat
  BY <1>1, ControlFact, ControlType
<1>3. c.pc = "newdt" /\ Returns(r)
  BY <1>2 DEF NewTimeStep
<1>4. After(c) = e
  BY <1>3, AfterFact
<1>5. /\ g \in Controls /\ g.pc = "output" /\ g.ncycle = c.ncycle
      /\ g.last = c.last /\ g.calls = c.calls + 0 /\ g.reduces = c.reduces + 0
  BY <1>1, GoFact DEF Pc
<1> HIDE DEF g
<1>6. /\ e.pc = "output" /\ e.cycle = c.cycle + 1 /\ e.todo = OutputsAfter(c.cycle + 1)
      /\ e.ncycle = c.ncycle /\ e.last = c.last /\ e.calls = c.calls /\ e.reduces = c.reduces
  BY <1>2, <1>5 DEF Controls
<1>7. /\ pc'[r] = "output" /\ cycle'[r] = cycle[r] + 1 /\ todo'[r] = OutputsAfter(cycle[r] + 1)
      /\ data' = data /\ ncycle' = ncycle /\ calls' = calls /\ reduces' = reduces
      /\ sent' = sent /\ last' = last /\ written' = written
  BY DEF Typed, NewTimeStep, mpi, files
<1> HIDE DEF e, c
<1>9. ASSUME NEW d \in Diag
      PROVE  data'[r][d] = Holds(r, e, written[r][d], d)
  <2>1. ~ Finalizing(c) /\ ~ Finalizing(e)
    BY <1>3, <1>6 DEF Finalizing
  <2>2. Accumulates(d) => Added(e, d) = Added(c, d)
    BY <1>3, <1>6 DEF Added
  <2>3. Holds(r, e, written[r][d], d) = Holds(r, c, written[r][d], d)
    BY <1>6, <2>1, <2>2, HoldsSame
  <2> QED
    BY <1>1, <1>7, <2>3
<1>12. /\ e = After(Control(r)) /\ e.pc = pc'[r] /\ e.cycle = cycle'[r] /\ e.todo = todo'[r]
       /\ e.ncycle = ncycle'[r] /\ e.last = last'[r] /\ e.calls = calls'[r]
       /\ e.reduces = reduces'[r] /\ pc'[r] # "reduce" /\ pc[r] # "done"
  BY <1>2, <1>3, <1>4, <1>6, <1>7 DEF c
<1> QED
  BY <1>1, <1>3, <1>7, <1>9, <1>12, MovesTo

LEMMA OutputsDoneMoves ==
  ASSUME Typed, NEW r \in Rank, Local(r), OutputsDone(r)
  PROVE  Moves(r)
<1> DEFINE c == Control(r)
           a == IF cycle[r] = Cycles THEN "done" ELSE "stage"
<1>1. /\ c \in State /\ sent[r] \in Value /\ data[r] = [d \in Diag |-> data[r][d]]
      /\ c.pc = pc[r] /\ c.todo = todo[r] /\ c.cycle = cycle[r]
      /\ calls[r] \in Nat /\ reduces[r] \in Nat
  BY LocalFact, ControlFact, ControlType
<1>2. pc[r] = "output" /\ todo[r] = << >> /\ pc' = [pc EXCEPT ![r] = a]
  BY DEF OutputsDone
<1>3. UNCHANGED <<local, mpi, files>>
  BY DEF OutputsDone
<1>4. /\ data' = data /\ calls'[r] = calls[r] + 0 /\ reduces'[r] = reduces[r] + 0
      /\ sent' = sent /\ UNCHANGED <<cycle, todo, ncycle, files>>
  BY <1>1, <1>3 DEF local, mpi
<1>5. After(c) = Go(c, a, 0, 0)
  BY <1>1, <1>2, AfterFact
<1>6. a \in Pc /\ a \in {"done", "stage"}
  BY DEF Pc
<1> HIDE DEF a
<1>7. ~ Finalizing(c) /\ ~ Waits(c) /\ a # "reduce" /\ a # "newdt" /\ a # "divide"
      /\ a \notin {"x2", "x3", "pack", "reduce"}
  BY <1>1, <1>2, <1>6 DEF Finalizing, Waits
<1> QED
  BY <1>1, <1>2, <1>4, <1>5, <1>6, <1>7, GoMoves

\* Regroup, Regrouped and PackData go on to place a in the same Finalize.
LEMMA InsideMoves ==
  ASSUME Typed, NEW r \in Rank, Local(r), NEW a \in {"x3", "pack", "reduce"},
         pc[r] \in {"x2", "x3", "pack"}, NEW k \in Nat, NEW m \in Nat,
         After(Control(r)) = Go(Control(r), a, k, m),
         pc' = [pc EXCEPT ![r] = a], calls'[r] = calls[r] + k, reduces'[r] = reduces[r] + m,
         UNCHANGED <<local, files>>, Waits(Control(r)) => Returns(r),
         IF a = "reduce" THEN sent'[r] = data[r][Current(r)] ELSE sent'[r] = sent[r]
  PROVE  Moves(r)
<1> DEFINE c == Control(r)
<1>1. /\ c \in State /\ Sound(c) /\ sent[r] \in Value /\ data[r] = [d \in Diag |-> data[r][d]]
      /\ c.pc = pc[r] /\ c.todo = todo[r] /\ Now(c) = Current(r)
      /\ data[r] \in [Diag -> Value]
      /\ todo[r] # << >> => Current(r) \in Diag
      /\ \A d \in Diag : data[r][d] = Holds(r, c, written[r][d], d)
  BY LocalFact, ControlFact, ControlType
<1>2. Finalizing(c) /\ pc[r] # "divide" /\ pc[r] # "done" /\ pc[r] # "newdt"
  BY <1>1 DEF Finalizing
<1>3. Current(r) \in Diag
  BY <1>1, <1>2 DEF Sound
<1>4. data[r][Current(r)] = Part(r, c)
  BY <1>1, <1>2, <1>3 DEF Holds
<1>5. /\ data' = data /\ UNCHANGED <<cycle, todo, ncycle, files>>
  BY DEF local
<1>6. IF a = "reduce" THEN sent'[r] = Part(r, c) ELSE sent'[r] = sent[r]
  BY <1>4
<1>7. sent'[r] \in Value
  BY <1>1, <1>3
<1>8. a \in Pc /\ a # "newdt" /\ a # "divide" /\ a \in {"x2", "x3", "pack", "reduce"}
  BY DEF Pc
<1> QED
  BY <1>1, <1>2, <1>5, <1>6, <1>7, <1>8, GoMoves

LEMMA RegroupMoves ==
  ASSUME Typed, NEW r \in Rank, Local(r), Regroup(r) \/ Regrouped(r) \/ PackData(r)
  PROVE  Moves(r)
<1> DEFINE c == Control(r)
<1>1. c.pc = pc[r] /\ calls[r] \in Nat /\ reduces[r] \in Nat
  BY ControlFact, ControlType, LocalFact
<1>2. CASE Regroup(r)
  <2>1. /\ pc[r] = "x2" /\ Returns(r) /\ pc' = [pc EXCEPT ![r] = "x3"]
        /\ calls' = [calls EXCEPT ![r] = @ + 1] /\ reduces' = reduces /\ sent' = sent
        /\ UNCHANGED <<local, files>>
    BY <1>2 DEF Regroup, Call
  <2>2. After(c) = Go(c, "x3", 1, 0)
    BY <1>1, <2>1, AfterFact
  <2>3. calls'[r] = calls[r] + 1 /\ reduces'[r] = reduces[r] + 0
    BY <1>1, <2>1 DEF Typed
  <2> QED
    BY <2>1, <2>2, <2>3, InsideMoves
<1>3. CASE Regrouped(r)
  <2>1. /\ pc[r] = "x3" /\ Returns(r) /\ pc' = [pc EXCEPT ![r] = "pack"]
        /\ calls' = calls /\ reduces' = reduces /\ sent' = sent
        /\ UNCHANGED <<local, files>>
    BY <1>3 DEF Regrouped, mpi
  <2>2. After(c) = Go(c, "pack", 0, 0)
    BY <1>1, <2>1, AfterFact
  <2>3. calls'[r] = calls[r] + 0 /\ reduces'[r] = reduces[r] + 0
    BY <1>1, <2>1
  <2> QED
    BY <2>1, <2>2, <2>3, InsideMoves
<1>4. CASE PackData(r)
  <2>1. /\ pc[r] = "pack" /\ pc' = [pc EXCEPT ![r] = "reduce"]
        /\ sent' = [sent EXCEPT ![r] = data[r][Current(r)]]
        /\ reduces' = [reduces EXCEPT ![r] = @ + 1] /\ calls' = calls
        /\ UNCHANGED <<local, files>>
    BY <1>4 DEF PackData
  <2>2. After(c) = Go(c, "reduce", 0, 1)
    BY <1>1, <2>1, AfterFact
  <2>3. /\ calls'[r] = calls[r] + 0 /\ reduces'[r] = reduces[r] + 1
        /\ sent'[r] = data[r][Current(r)]
    BY <1>1, <2>1 DEF Typed
  <2>4. ~ Waits(c)
    BY <1>1, <2>1 DEF Waits
  <2> QED
    BY <2>1, <2>2, <2>3, <2>4, InsideMoves
<1> QED
  BY <1>2, <1>3, <1>4

LEMMA FinalizePlanarMoves ==
  ASSUME Typed, NEW r \in Rank, Local(r), FinalizePlanar(r)
  PROVE  Moves(r)
<1> DEFINE c == Control(r)
           f == Current(r)
           x == [sum |-> IF Accumulates(f) THEN data[r][f].sum ELSE {<<r, cycle[r]>>},
                 n |-> 1, vol |-> {r}]
<1>1. /\ c \in State /\ Sound(c) /\ sent[r] \in Value /\ data[r] = [d \in Diag |-> data[r][d]]
      /\ c.pc = pc[r] /\ c.todo = todo[r] /\ Now(c) = f /\ c.ncycle = ncycle[r]
      /\ c.cycle = cycle[r] /\ calls[r] \in Nat /\ reduces[r] \in Nat
      /\ todo[r] # << >> => f \in Diag
      /\ \A d \in Diag : data[r][d] = Holds(r, c, written[r][d], d)
  BY LocalFact, ControlFact, ControlType
<1> HIDE DEF f, c
<1>2. /\ pc[r] = "output" /\ todo[r] # << >> /\ Planar(f)
      /\ Accumulates(f) => ncycle[r][f] > 0
  BY DEF FinalizePlanar, Running, f
<1>3. /\ data' = [data EXCEPT ![r][f] = x]
      /\ pc' = [pc EXCEPT ![r] = "x2"] /\ calls' = [calls EXCEPT ![r] = @ + 1]
      /\ reduces' = reduces /\ sent' = sent /\ UNCHANGED <<cycle, todo, ncycle, files>>
  BY DEF FinalizePlanar, Call, f
<1>4. f \in Diag /\ ~ Finalizing(c)
  BY <1>1, <1>2 DEF Finalizing
<1>5. After(c) = Go(c, "x2", 1, 0)
  <2>1. ~ AtOnce(c)
    BY <1>1, <1>2 DEF AtOnce
  <2> QED
    BY <1>1, <1>2, <2>1, AfterFact
<1>6. x = Part(r, c)
  <2>1. CASE Accumulates(f)
    <3>1. data[r][f] = [sum |-> {r} \X Added(c, f), n |-> 1, vol |-> {}]
      BY <1>1, <1>2, <1>4, <2>1 DEF Holds
    <3>2. data[r][f].sum = {r} \X Added(c, f)
      BY <3>1
    <3> QED
      BY <1>1, <2>1, <3>2 DEF Part
  <2>2. CASE ~ Accumulates(f)
    <3>1. Added(c, f) = {c.cycle}
      BY <2>2 DEF Added
    <3>2. {<<r, cycle[r]>>} = {r} \X {cycle[r]}
      OBVIOUS
    <3> QED
      BY <1>1, <2>2, <3>1, <3>2 DEF Part
  <2> QED
    BY <2>1, <2>2
<1> HIDE DEF x
<1>7. /\ data'[r][f] = x /\ \A d \in Diag : d # f => data'[r][d] = data[r][d]
      /\ data'[r] = [d \in Diag |-> data'[r][d]]
  <2>1. data'[r] = [data[r] EXCEPT ![f] = x]
    BY <1>3 DEF Typed
  <2> QED
    BY <1>1, <1>4, <2>1
<1>8. calls'[r] = calls[r] + 1 /\ reduces'[r] = reduces[r] + 0
  BY <1>1, <1>3 DEF Typed
<1>9. ~ Waits(c) /\ "x2" \in Pc /\ pc[r] # "done" /\ pc[r] # "newdt" /\ sent'[r] \in Value
  BY <1>1, <1>2, <1>3 DEF Waits, Pc
<1>10. \A d \in Diag :
         \/ data'[r][d] = data[r][d] /\ d # Current(r)
         \/ /\ d = Current(r) /\ "x2" \in {"x2", "x3", "pack", "reduce"}
            /\ data'[r][d] = Part(r, Control(r))
  BY <1>6, <1>7 DEF f, c
<1>11. /\ After(Control(r)) = Go(Control(r), "x2", 1, 0) /\ ~ Waits(Control(r))
       /\ pc' = [pc EXCEPT ![r] = "x2"] /\ sent' = sent
       /\ UNCHANGED <<cycle, todo, ncycle, files>>
       /\ data'[r] = [d \in Diag |-> data'[r][d]]
  BY <1>3, <1>5, <1>7, <1>9 DEF c
<1>12. 0 \in Nat /\ 1 \in Nat
  OBVIOUS
<1> HIDE DEF x
<1> QED
  BY <1>8, <1>9, <1>10, <1>11, <1>12, GoMoves

LEMMA ReduceAllMoves ==
  ASSUME Typed, NEW r \in Rank, Local(r), ReduceAll(r),
         NEW p, NEW n, Along(p, n)
  PROVE  Moves(r)
<1> DEFINE c == Control(r)
           f == Current(r)
           A == Added(c, f)
           x == [sum |-> UNION { sent[q].sum : q \in Plane[r] }, n |-> 1,
                 vol |-> UNION { sent[q].vol : q \in Plane[r] }]
<1>1. /\ c \in State /\ Sound(c) /\ sent[r] \in Value /\ data[r] = [d \in Diag |-> data[r][d]]
      /\ c.pc = pc[r] /\ c.todo = todo[r] /\ Now(c) = f /\ calls[r] \in Nat /\ reduces[r] \in Nat
      /\ todo[r] # << >> => f \in Diag
  BY LocalFact, ControlFact, ControlType
<1>2. /\ pc[r] = "reduce" /\ \A q \in Plane[r] : reduces[q] >= reduces[r]
  BY DEF ReduceAll, Together, Arrived
<1>3. \A q \in Plane[r] : q \in Rank /\ sent[q] = Part(q, c)
  <2>1. Plane[r] \subseteq Rank
    BY DiagnosticsAssumption
  <2> QED
    BY <1>2, <2>1, SentRight
<1> HIDE DEF f, c
<1>4. \A q \in Plane[r] : sent[q].sum = {q} \X A /\ sent[q].vol = {q}
  <2> TAKE q \in Plane[r]
  <2>1. sent[q] = [sum |-> {q} \X A, n |-> 1, vol |-> {q}]
    BY <1>1, <1>3 DEF Part
  <2> HIDE DEF A
  <2> QED
    BY <2>1
<1>5. x = [sum |-> Plane[r] \X A, n |-> 1, vol |-> Plane[r]]
  <2> HIDE DEF A
  <2>1. UNION { sent[q].sum : q \in Plane[r] } = Plane[r] \X A
    BY <1>4
  <2>2. UNION { sent[q].vol : q \in Plane[r] } = Plane[r]
    BY <1>4
  <2> QED
    BY <2>1, <2>2
<1>6. /\ data' = [data EXCEPT ![r][f] = x] /\ pc' = [pc EXCEPT ![r] = "divide"]
      /\ calls' = calls /\ reduces' = reduces /\ sent' = sent
      /\ UNCHANGED <<cycle, todo, ncycle, files>>
  BY DEF ReduceAll, Together, mpi, f
<1>7. Finalizing(c) /\ todo[r] # << >> /\ f \in Diag
  BY <1>1, <1>2 DEF Sound, Finalizing
<1>8. After(c) = Go(c, "divide", 0, 0)
  BY <1>1, <1>2, AfterFact
<1> HIDE DEF x
<1>9. /\ data'[r][f] = x /\ \A d \in Diag : d # f => data'[r][d] = data[r][d]
      /\ data'[r] = [d \in Diag |-> data'[r][d]]
  <2>1. data'[r] = [data[r] EXCEPT ![f] = x]
    BY <1>6 DEF Typed
  <2> QED
    BY <1>1, <1>7, <2>1
<1>10. calls'[r] = calls[r] + 0 /\ reduces'[r] = reduces[r] + 0
  BY <1>1, <1>6
<1>11. ~ Waits(c) /\ "divide" \in Pc /\ pc[r] # "done" /\ pc[r] # "newdt" /\ sent'[r] \in Value
  BY <1>1, <1>2, <1>6 DEF Waits, Pc
<1>12. \A d \in Diag :
         \/ data'[r][d] = data[r][d] /\ d # Current(r)
         \/ /\ d = Current(r) /\ "divide" = "divide"
            /\ data'[r][d] = [sum |-> Plane[r] \X Added(Control(r), d), n |-> 1,
                              vol |-> Plane[r]]
  BY <1>5, <1>9 DEF f, c
<1>13. \A d \in Diag :
         \/ data'[r][d] = data[r][d] /\ d # Current(r)
         \/ /\ data'[r][d] = data[r][d]
            /\ (Finalizing(Control(r)) /\ pc[r] # "divide")
                 <=> ("divide" \in {"x2", "x3", "pack", "reduce"})
            /\ pc[r] # "divide" /\ "divide" # "divide"
         \/ /\ d = Current(r) /\ "divide" \in {"x2", "x3", "pack", "reduce"}
            /\ data'[r][d] = Part(r, Control(r))
         \/ /\ d = Current(r) /\ "divide" = "divide"
            /\ data'[r][d] = [sum |-> Plane[r] \X Added(Control(r), d), n |-> 1,
                              vol |-> Plane[r]]
  BY <1>12, Zenon
<1>14. /\ After(Control(r)) = Go(Control(r), "divide", 0, 0)
       /\ Waits(Control(r)) => Returns(r)
       /\ IF "divide" = "reduce" THEN sent'[r] = Part(r, Control(r)) ELSE sent'[r] = sent[r]
       /\ "divide" # "newdt" /\ 0 \in Nat
       /\ data'[r] = [d \in Diag |-> data'[r][d]]
  BY <1>6, <1>8, <1>9, <1>11 DEF c
<1> QED
  BY <1>6, <1>10, <1>11, <1>13, <1>14, GoMoves, ZenonT(40)

LEMMA FinalizeAtOnceMoves ==
  ASSUME Typed, NEW r \in Rank, Local(r), FinalizeMean(r) \/ FinalizeAgain(r)
  PROVE  Moves(r)
<1> DEFINE c == Control(r)
           f == Current(r)
           w == written[r][f]
<1>1. /\ c \in State /\ Sound(c)
      /\ c.pc = pc[r] /\ c.todo = todo[r] /\ Now(c) = f /\ c.ncycle = ncycle[r]
      /\ c.cycle = cycle[r] /\ ncycle[r] \in [Diag -> Nat]
      /\ todo[r] # << >> => f \in Diag
      /\ \A d \in Diag : data[r][d] = Holds(r, c, written[r][d], d)
  BY LocalFact, ControlFact, ControlType
<1> HIDE DEF f, c
<1>2. pc[r] = "output" /\ todo[r] # << >>
  BY DEF FinalizeMean, FinalizeAgain
<1>3. f \in Diag /\ ~ Finalizing(c) /\ ncycle[r][f] \in Nat
  BY <1>1, <1>2 DEF Finalizing
<1>4. data[r][f] = IF Accumulates(f) /\ ncycle[r][f] > 0
                   THEN [sum |-> {r} \X Added(c, f), n |-> 1, vol |-> {}]
                   ELSE IF w = Nil THEN Zero ELSE w.value
  BY <1>1, <1>3 DEF Holds
<1>5. CASE FinalizeMean(r)
  <2>1. ~ Planar(f) /\ Accumulates(f)
    BY <1>5 DEF FinalizeMean, Planar, Accumulates, f
  <2>2. After(c) = Wrote(c)
    BY <1>1, <1>2, <2>1, AfterFact DEF AtOnce
  <2>3. CASE Running(r)
    <3>1. ncycle[r][f] > 0
      BY <2>3 DEF Running, f
    <3> DEFINE v == [sum |-> {r} \X Added(c, f), n |-> ncycle[r][f], vol |-> {}]
    <3>2. data[r][f] = [sum |-> {r} \X Added(c, f), n |-> 1, vol |-> {}]
      BY <1>4, <2>1, <3>1
    <3>3. [data[r][f] EXCEPT !.n = ncycle[r][f]] = v
      BY <3>2
    <3>4. Write(r, v)
      BY <1>5, <2>3, <3>3 DEF FinalizeMean, f
    <3>5. ~ Planar(Now(c)) /\ c.ncycle[Now(c)] > 0
          /\ v = [sum |-> {r} \X Added(c, Now(c)), n |-> c.ncycle[Now(c)], vol |-> {}]
      BY <1>1, <2>1, <3>1
    <3> HIDE DEF v
    <3> QED
      BY <1>2, <2>2, <3>4, <3>5, WriteMoves DEF c
  <2>4. CASE ~ Running(r)
    <3>1. ncycle[r][f] = 0
      BY <1>3, <2>4 DEF Running, f
    <3> DEFINE v == [sum |-> {<<r, cycle[r]>>}, n |-> 1, vol |-> {}]
    <3>3. [Zero EXCEPT !.sum = {<<r, cycle[r]>>}] = v
      BY DEF Zero
    <3>4. Write(r, v)
      BY <1>5, <2>4, <3>3 DEF FinalizeMean
    <3>5. ~ Planar(Now(c)) /\ c.ncycle[Now(c)] = 0
          /\ v = [sum |-> {<<r, c.cycle>>}, n |-> 1, vol |-> {}]
      BY <1>1, <2>1, <3>1
    <3> HIDE DEF v
    <3> QED
      BY <1>2, <2>2, <3>4, <3>5, WriteMoves DEF c
  <2> QED
    BY <2>3, <2>4
<1>6. CASE FinalizeAgain(r)
  <2>1. /\ Planar(f) /\ Accumulates(f) /\ ~ (ncycle[r][f] > 0) /\ Write(r, data[r][f])
    BY <1>6 DEF FinalizeAgain, Running, f
  <2>2. ncycle[r][f] = 0 /\ data[r][f] = IF w = Nil THEN Zero ELSE w.value
    BY <1>3, <1>4, <2>1
  <2>3. After(c) = Wrote(c)
    <3>1. AtOnce(c)
      BY <1>1, <2>1, <2>2 DEF AtOnce
    <3> QED
      BY <1>1, <1>2, <3>1, AfterFact
  <2>4. /\ Planar(Now(c)) /\ Accumulates(Now(c)) /\ c.ncycle[Now(c)] = 0
        /\ data[r][f] = IF written[r][Now(c)] = Nil THEN Zero ELSE written[r][Now(c)].value
    BY <1>1, <2>1, <2>2
  <2> DEFINE v == data[r][f]
  <2>5. Write(r, v)
    BY <2>1
  <2>6. v = IF written[r][Now(c)] = Nil THEN Zero ELSE written[r][Now(c)].value
    BY <2>4
  <2> HIDE DEF v
  <2> QED
    BY <1>2, <2>3, <2>4, <2>5, <2>6, WriteMoves DEF c
<1> QED
  BY <1>5, <1>6

LEMMA DivideMoves ==
  ASSUME Typed, NEW r \in Rank, Local(r), Divide(r)
  PROVE  Moves(r)
<1> DEFINE c == Control(r)
           f == Current(r)
           k == IF Accumulates(f) THEN ncycle[r][f] ELSE 1
           v == [sum |-> Plane[r] \X Added(c, f), n |-> k, vol |-> Plane[r]]
<1>1. /\ c \in State /\ Sound(c)
      /\ c.pc = pc[r] /\ c.todo = todo[r] /\ Now(c) = f /\ c.ncycle = ncycle[r]
      /\ todo[r] # << >> => f \in Diag
      /\ \A d \in Diag : data[r][d] = Holds(r, c, written[r][d], d)
  BY LocalFact, ControlFact, ControlType
<1> HIDE DEF f, c
<1>2. /\ pc[r] = "divide" /\ Write(r, [data[r][f] EXCEPT !.n = k])
  BY DEF Divide, f
<1>3. /\ Finalizing(c) /\ todo[r] # << >> /\ f \in Diag /\ Planar(f)
      /\ Accumulates(f) => c.ncycle[f] > 0
  BY <1>1, <1>2 DEF Sound, Finalizing
<1>4. data[r][f] = [sum |-> Plane[r] \X Added(c, f), n |-> 1, vol |-> Plane[r]]
  BY <1>1, <1>2, <1>3 DEF Holds
<1>5. [data[r][f] EXCEPT !.n = k] = v
  <2> HIDE DEF k
  <2> QED
    BY <1>4
<1>6. Write(r, v)
  BY <1>2, <1>5
<1>7. After(c) = Wrote(c)
  BY <1>1, <1>2, AfterFact
<1>8. /\ Planar(Now(c)) /\ (Accumulates(Now(c)) => c.ncycle[Now(c)] > 0)
      /\ v = [sum |-> Plane[r] \X Added(c, Now(c)),
              n |-> IF Accumulates(Now(c)) THEN c.ncycle[Now(c)] ELSE 1, vol |-> Plane[r]]
  BY <1>1, <1>3
<1> HIDE DEF v
<1> QED
  BY <1>2, <1>3, <1>6, <1>7, <1>8, WriteMoves DEF c

LEMMA StepMoves ==
  ASSUME IInv, NEW r \in Rank, Step(r)
  PROVE  Moves(r)
<1>1. Typed /\ Local(r)
  BY DEF IInv
<1>2. PICK p, n : Along(p, n)
  BY DEF IInv
<1> QED
  BY <1>1, <1>2, ProgressMoves, NewTimeStepMoves, OutputsDoneMoves, FinalizeAtOnceMoves,
     FinalizePlanarMoves, RegroupMoves, ReduceAllMoves, DivideMoves DEF Step

-----------------------------------------------------------------------------
(* The invariant.                                                           *)

LEMMA StartState ==
  ASSUME NEW t \in Starts
  PROVE  Start(t) \in State
<1>1. /\ t \in 0 .. Cycles /\ t < Cycles /\ t \in Nat
      /\ OutputsAfter(0) \in Seq(Output)
  BY Sizes, OutputsFact
<1> DEFINE e == Start(t)
<1>2. /\ e.pc = (IF t = 0 THEN "output" ELSE "stage") /\ e.cycle = t
      /\ e.todo = (IF t = 0 THEN OutputsAfter(0) ELSE << >>)
      /\ e.ncycle = [d \in Diag |-> 0] /\ e.last = [d \in Diag |-> t]
  BY DEF Start
<1>3. e \in Controls
  BY <1>1 DEF Start, Controls, Pc
<1> HIDE DEF e
<1>4. \A d \in Diag : e.last[d] = t /\ e.ncycle[d] = 0
  BY <1>2
<1>5. Sound(e)
  BY <1>1, <1>2, <1>4 DEF Sound, Finalizing
<1> QED
  BY <1>3, <1>5 DEF State, e

LEMMA Initially == Init => IInv
<1> SUFFICES ASSUME Init PROVE IInv
  OBVIOUS
<1>1. PICK t \in Starts :
        /\ cycle = [r \in Rank |-> t]
        /\ pc = [r \in Rank |-> IF t = 0 THEN "output" ELSE "stage"]
        /\ todo = [r \in Rank |-> IF t = 0 THEN OutputsAfter(0) ELSE << >>]
        /\ data = [r \in Rank |-> [d \in Diag |-> Zero]]
        /\ ncycle = [r \in Rank |-> [d \in Diag |-> 0]]
        /\ calls = [r \in Rank |-> 0] /\ reduces = [r \in Rank |-> 0]
        /\ sent = [r \in Rank |-> Zero]
        /\ last = [r \in Rank |-> [d \in Diag |-> t]]
        /\ written = [r \in Rank |-> [d \in Diag |-> Nil]]
  BY DEF Init
<1> DEFINE e == Start(t)
<1>2. e \in State /\ t \in 0 .. Cycles /\ OutputsAfter(0) \in Seq(Output)
  BY StartState, Sizes, OutputsFact
<1>3. \A r \in Rank : Control(r) = e
  BY <1>1 DEF Control, Start
<1>4. /\ e.pc \in {"output", "stage"} /\ e.calls = 0 /\ e.reduces = 0
      /\ \A d \in Diag : e.ncycle[d] = 0
  BY DEF Start
<1> HIDE DEF e
<1>5. Typed
  BY <1>1, <1>2, ZeroValue DEF Typed, Pc
<1>6. ASSUME NEW r \in Rank
      PROVE  Local(r)
  <2>1. \A d \in Diag : data[r][d] = Zero /\ written[r][d] = Nil
    BY <1>1
  <2>2. \A d \in Diag : Holds(r, e, Nil, d) = Zero
    BY <1>4 DEF Holds, Finalizing
  <2>3. /\ data[r] \in [Diag -> Value] /\ sent[r] \in Value
        /\ written[r] \in [Diag -> Written \cup {Nil}]
    BY <1>5 DEF Typed
  <2> QED
    BY <1>2, <1>3, <2>1, <2>2, <2>3 DEF Local
<1>7. \E p, n : Along(p, n)
  <2> DEFINE p == <<e>>
             n == [r \in Rank |-> 1]
  <2>1. p \in Seq(State) /\ Len(p) = 1 /\ p[1] = e
    BY <1>2
  <2> HIDE DEF p
  <2>2. Program(p)
    BY <2>1 DEF Program
  <2>3. n \in [Rank -> 1 .. Len(p)] /\ \A r \in Rank : n[r] = 1
    BY <2>1
  <2> HIDE DEF n
  <2>4. \A m \in Nat : m > 0 /\ m <= 1 => m = 1
    OBVIOUS
  <2>5. \A m \in Nat : ~ (m > 0 /\ m < 1)
    OBVIOUS
  <2>6. Along(p, n)
    BY <1>3, <1>4, <2>1, <2>2, <2>3, <2>4, <2>5 DEF Along
  <2> QED
    BY <2>6
<1> QED
  BY <1>5, <1>6, <1>7 DEF IInv

LEMMA StepInductive ==
  ASSUME IInv, NEW r \in Rank, Step(r)
  PROVE  IInv'
<1>1. Moves(r) /\ Others(r) /\ Shape
  BY StepMoves, StepShape DEF IInv
<1>2. ASSUME NEW q \in Rank
      PROVE  Local(q)'
  <2>1. CASE q = r
    BY <1>1, <2>1 DEF Moves
  <2>2. CASE q # r
    <3>1. /\ Control(q)' = Control(q) /\ data'[q] = data[q] /\ sent'[q] = sent[q]
          /\ written'[q] = written[q]
      BY <1>1, <2>2 DEF Others, Control
    <3>2. Local(q)
      BY DEF IInv
    <3> QED
      BY <3>1, <3>2 DEF Local
  <2> QED
    BY <2>1, <2>2
<1>3. ASSUME NEW q \in Rank
      PROVE  /\ pc'[q] \in Pc /\ cycle'[q] \in 0 .. Cycles /\ todo'[q] \in Seq(Output)
             /\ ncycle'[q] \in [Diag -> Nat] /\ last'[q] \in [Diag -> 0 .. Cycles]
             /\ calls'[q] \in Nat /\ reduces'[q] \in Nat
             /\ data'[q] \in [Diag -> Value] /\ sent'[q] \in Value
             /\ written'[q] \in [Diag -> Written \cup {Nil}]
  <2>1. Control(q)' \in State
    BY <1>2 DEF Local
  <2>2. Control(q)' \in Controls
    BY <2>1 DEF State
  <2>3. /\ pc'[q] \in Pc /\ cycle'[q] \in 0 .. Cycles /\ todo'[q] \in Seq(Output)
        /\ ncycle'[q] \in [Diag -> Nat] /\ last'[q] \in [Diag -> 0 .. Cycles]
        /\ calls'[q] \in Nat /\ reduces'[q] \in Nat
    BY <2>2, ControlFactNext DEF Controls
  <2> QED
    BY <1>2, <2>3 DEF Local
<1>4. Typed'
  BY <1>1, <1>3 DEF Typed, Shape
<1>5. \E p, n : Along(p, n)'
  <2>1. PICK p, n : Along(p, n)
    BY DEF IInv
  <2> QED
    BY <1>1, <2>1, AlongStep
<1> QED
  BY <1>2, <1>4, <1>5 DEF IInv

\* IInv is an invariant of the specification: the ranks are on one program, none
\* of them past a collective call that another has not made, and what each holds
\* is what its place on the program says.
THEOREM Inductive == Spec => []IInv
<1>1. Init => IInv
  BY Initially
<1>2. IInv /\ [Next]_vars => IInv'
  <2> SUFFICES ASSUME IInv, [Next]_vars PROVE IInv'
    OBVIOUS
  <2>1. CASE \E r \in Rank : Step(r)
    BY <2>1, StepInductive
  <2>2. CASE UNCHANGED vars
    <3>1. /\ UNCHANGED <<pc, cycle, todo, data, ncycle, calls, reduces, sent, last, written>>
      BY <2>2 DEF vars, local, mpi, files
    <3>2. \A r : Control(r)' = Control(r)
      BY <3>1 DEF Control
    <3>3. Typed'
      BY <3>1 DEF IInv, Typed
    <3>4. ASSUME NEW r \in Rank PROVE Local(r)'
      <4>1. Local(r)
        BY DEF IInv
      <4> QED
        BY <3>1, <3>2, <4>1 DEF Local
    <3>5. \E p, n : Along(p, n)'
      <4>1. PICK p, n : Along(p, n)
        BY DEF IInv
      <4>2. Along(p, n)'
        BY <3>1, <3>2, <4>1 DEF Along
      <4> QED
        BY <4>2
    <3> QED
      BY <3>3, <3>4, <3>5 DEF IInv
  <2> QED
    BY <2>1, <2>2 DEF Next, Finished
<1> QED
  BY <1>1, <1>2, PTL DEF Spec

\* Every variable keeps its type; in particular no average divides by zero
\* cycles (hydro_mean.cpp, hydro_flux.cpp, radiative_flux.cpp).
THEOREM TypeCorrect == Spec => []TypeOK
<1>1. IInv => TypeOK
  <2> SUFFICES ASSUME IInv PROVE TypeOK
    OBVIOUS
  <2>1. /\ pc \in [Rank -> Pc] /\ cycle \in [Rank -> 0 .. Cycles] /\ todo \in [Rank -> Seq(Output)]
        /\ data \in [Rank -> [Diag -> Value]] /\ ncycle \in [Rank -> [Diag -> Nat]]
        /\ calls \in [Rank -> Nat] /\ reduces \in [Rank -> Nat] /\ sent \in [Rank -> Value]
        /\ last \in [Rank -> [Diag -> 0 .. Cycles]]
        /\ written \in [Rank -> [Diag -> Written \cup {Nil}]]
    BY DEF IInv, Typed
  <2>2. ASSUME NEW r \in Rank, NEW d \in Diag
        PROVE  ncycle[r][d] \in 0 .. Cycles
    <3>1. /\ Control(r) \in Controls /\ Sound(Control(r))
      BY LocalFact DEF IInv
    <3>2. /\ last[r][d] \in 0 .. Cycles /\ cycle[r] \in 0 .. Cycles /\ Cycles \in Nat
          /\ ncycle[r][d] = IF ~ Accumulates(d) THEN 0
                            ELSE IF pc[r] = "newdt" THEN (cycle[r] + 1) - last[r][d]
                            ELSE cycle[r] - last[r][d]
          /\ last[r][d] <= cycle[r] /\ (pc[r] = "newdt" => cycle[r] < Cycles)
      BY <2>1, <3>1, ControlFact, Sizes DEF Sound
    <3> QED
      BY <3>2
  <2>3. ncycle \in [Rank -> [Diag -> 0 .. Cycles]]
    BY <2>1, <2>2
  <2>4. \A r \in Rank : \A i \in DOMAIN todo[r] : todo[r][i] \in (1 .. Len(Due)) \X Diag
    BY <2>1 DEF Output
  <2> QED
    BY <2>1, <2>3, <2>4 DEF TypeOK
<1> QED
  BY <1>1, Inductive, PTL

\* What an output holds is the average over the right blocks and cycles, however
\* the ranks interleave and whatever the diagnostics and outputs (AverageRight).
THEOREM AverageCorrect == Spec => []AverageRight
<1>1. IInv => AverageRight
  <2> SUFFICES ASSUME IInv, NEW r \in Rank, NEW d \in Diag, written[r][d] # Nil
               PROVE  Right(r, d, written[r][d])
    BY DEF AverageRight, Right
  <2> QED
    BY DEF IInv, Local
<1> QED
  BY <1>1, Inductive, PTL

\* As long as some rank has not finished, a rank that is furthest behind can go
\* on: the collective calls of Regroup, ReduceAll and NewTimeStep never leave all
\* ranks waiting, however many ranks and planes there are.
THEOREM NoDeadlock == Spec => []NeverAllBlocked
<1>1. IInv => NeverAllBlocked
  <2> SUFFICES ASSUME IInv, NEW s \in Rank, pc[s] # "done"
               PROVE  \E r \in Rank : /\ pc[r] # "done"
                                      /\ pc[r] \in {"newdt", "x2", "x3"} => Returns(r)
                                      /\ pc[r] = "reduce" => Arrived(r)
    BY DEF NeverAllBlocked
  <2>1. PICK p, n : Along(p, n)
    BY DEF IInv
  <2>2. /\ Program(p) /\ Len(p) \in Nat
        /\ \A r \in Rank : n[r] \in 1 .. Len(p) /\ n[r] \in Nat /\ Control(r) = p[n[r]]
    BY <2>1 DEF Along, Program
  <2>3. PICK r \in Rank : \A q \in Rank : n[r] <= n[q]
    <3> DEFINE S == { n[q] : q \in Rank }
               T == { m \in Nat : \A k \in S : m <= k }
    <3>1. 0 \in T
      BY <2>2
    <3>2. ~ (Nat \subseteq T)
      <4>1. n[s] \in S /\ n[s] \in Nat /\ n[s] + 1 \in Nat /\ ~ (n[s] + 1 <= n[s])
        BY <2>2
      <4> QED
        BY <4>1
    <3>3. PICK m \in Nat : m \in T /\ m + 1 \notin T
      BY <3>1, <3>2, Induction
    <3>4. PICK k \in S : ~ (m + 1 <= k)
      BY <3>3
    <3>5. k \in Nat /\ m <= k /\ k = m
      BY <2>2, <3>3, <3>4
    <3> QED
      BY <3>3, <3>4, <3>5
  <2>4. \A q \in Rank : calls[q] >= calls[r] /\ reduces[q] >= reduces[r]
    <3> TAKE q \in Rank
    <3>1. /\ p[n[q]].calls >= p[n[r]].calls /\ p[n[q]].reduces >= p[n[r]].reduces
      BY <2>2, <2>3, Grows
    <3> QED
      BY <2>2, <3>1, ControlFact
  <2>5. pc[r] # "done"
    <3> SUFFICES ASSUME pc[r] = "done" PROVE FALSE
      OBVIOUS
    <3>1. p[n[r]].pc = "done"
      BY <2>2, ControlFact
    <3>2. n[r] = Len(p)
      <4> SUFFICES ASSUME n[r] # Len(p) PROVE FALSE
        OBVIOUS
      <4>1. n[r] \in 1 .. Len(p) - 1
        BY <2>2
      <4> QED
        BY <2>2, <3>1, <4>1 DEF Program
    <3>3. n[s] = n[r]
      BY <2>2, <2>3, <3>2
    <3> QED
      BY <2>2, <3>1, <3>3, ControlFact
  <2>6. Returns(r)
    BY <2>4 DEF Returns
  <2>7. Arrived(r)
    BY <2>4, DiagnosticsAssumption DEF Arrived, Together
  <2> QED
    BY <2>5, <2>6, <2>7
<1> QED
  BY <1>1, Inductive, PTL

=============================================================================
