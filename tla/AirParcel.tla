----------------------------- MODULE AirParcel -----------------------------
(***************************************************************************)
(* The parcel of air of src/src/air_parcel.cpp: one cell's dry air, vapours, *)
(* clouds, chemistry and tracers, which the physics packages gather from    *)
(* the cell's arrays, convert between four sets of variables and distribute  *)
(* back.  The slots of the parcel change their meaning with its type:       *)
(*                                                                         *)
(*            d (w[IDN])       m (w[n], c[n])   e (w[IPR])        u (w[IVX])*)
(*  MassFrac  total density    mass fractions   pressure          velocity *)
(*  MassConc  dry density      densities        internal energy   momentum *)
(*  MoleFrac  temperature      mole fractions   pressure          velocity *)
(*  MoleConc  dry moles        moles            energy + latent   molar u  *)
(*                                                                         *)
(* The conversions are those of the code, over exact rational numbers.  The *)
(* three velocity components are treated alike: one stands for all.         *)
(***************************************************************************)
EXTENDS Integers, FiniteSetsExt

CONSTANTS
  Vapor, Cloud,      \* species 1 .. NVAPOR and the NCLOUD species after them
  MuRatio,           \* MuRatio[n]: molecular weight relative to dry air
  CvRatioMass,       \* CvRatioMass[n]: specific heat relative to dry air
  LatentMole,        \* LatentMole[n]: GetLatentEnergyMole of a cloud
  Rd, Mu0,           \* gas constant and molecular weight of dry air
  IGm1,              \* 1 / (gammad_ref - 1)
  Air,               \* the cells' contents the parcels start from
  MaxOps             \* bound: operations on one cell

ASSUME SpeciesAssumption == Vapor \cap Cloud = {} /\ Vapor \cup Cloud # {}

Species == Vapor \cup Cloud

-----------------------------------------------------------------------------
(* Rational numbers <<numerator, denominator>> in lowest terms.             *)

Gcd[p \in Nat \X Nat] == IF p[2] = 0 THEN p[1] ELSE Gcd[<<p[2], p[1] % p[2]>>]

Sign(n) == IF n < 0 THEN -1 ELSE 1

Q(num, den) ==
  LET g == Gcd[<<Sign(num) * num, Sign(den) * den>>] * Sign(den)
  IN <<num \div g, den \div g>>

Zero == <<0, 1>>
One  == <<1, 1>>
Half == <<1, 2>>

a \oplus b  == Q(a[1] * b[2] + b[1] * a[2], a[2] * b[2])
a \ominus b == Q(a[1] * b[2] - b[1] * a[2], a[2] * b[2])
a \otimes b == LET p == Q(a[1], b[2])  q == Q(b[1], a[2])
               IN <<p[1] * q[1], p[2] * q[2]>>
a \oslash b == a \otimes Q(b[2], b[1])

Sum(f(_), S) ==
  MapThenFoldSet(LAMBDA a, b : a \oplus b, Zero, f,
                 LAMBDA T : CHOOSE n \in T : TRUE, S)

-----------------------------------------------------------------------------
(* Thermodynamics: the constants of the species.                            *)

InvMuRatio(n)  == One \oslash MuRatio[n]
Rgas           == Rd \otimes Mu0
Cvd            == Rd \otimes IGm1
CvMass(n)      == CvRatioMass[n] \otimes Cvd
CvRatioMole(n) == CvRatioMass[n] \otimes MuRatio[n]

-----------------------------------------------------------------------------
(* The conversions.                                                         *)

\* A field of every species, transformed.
Each(a, f(_)) == [n \in Species |-> f(n) \otimes a.m[n]]

Total(a) == Sum(LAMBDA n : a.m[n], Species)
Clouds(a) == Sum(LAMBDA n : a.m[n], Cloud)

MassFracToMoleFrac(a) ==
  LET sum == One \oplus Sum(LAMBDA n : a.m[n] \otimes (InvMuRatio(n) \ominus One), Species)
      g   == (One \oplus Sum(LAMBDA n : a.m[n] \otimes (InvMuRatio(n) \ominus One), Vapor))
               \ominus Clouds(a)
  IN [a EXCEPT !.type = "MoleFrac",
               !.m = Each(a, LAMBDA n : InvMuRatio(n) \oslash sum),
               !.d = a.e \oslash ((a.d \otimes Rd) \otimes g)]

\* Mutant of MoleSum: the clouds have no mass.
MoleSumGas(a) == One \oplus Sum(LAMBDA n : a.m[n] \otimes (MuRatio[n] \ominus One), Vapor)

\* Mutant of Gas: the clouds take up room.
GasAll(a) == One

\* The molecular weight relative to dry air and the gaseous part of the mole
\* fractions a.m.
MoleSum(a) == One \oplus Sum(LAMBDA n : a.m[n] \otimes (MuRatio[n] \ominus One), Species)
Gas(a)     == One \ominus Clouds(a)

MoleFracToMassFrac(a) ==
  [a EXCEPT !.type = "MassFrac",
            !.m = Each(a, LAMBDA n : MuRatio[n] \oslash MoleSum(a)),
            !.d = (MoleSum(a) \otimes a.e) \oslash ((a.d \otimes Gas(a)) \otimes Rd)]

MassConcToMoleFrac(a) ==
  LET rho  == a.d \oplus Total(a)
      sum  == a.d \oplus Sum(LAMBDA n : a.m[n] \otimes InvMuRatio(n), Species)
      cvt  == (a.d \otimes Cvd) \oplus Sum(LAMBDA n : a.m[n] \otimes CvMass(n), Species)
      rhoR == (a.d \oplus Sum(LAMBDA n : a.m[n] \otimes InvMuRatio(n), Vapor))
                \otimes (Rgas \oslash Mu0)
      tem  == a.e \oslash cvt
  IN [a EXCEPT !.type = "MoleFrac",
               !.m = Each(a, LAMBDA n : InvMuRatio(n) \oslash sum),
               !.d = tem, !.e = rhoR \otimes tem,
               !.u = a.u \oslash rho, !.x = a.x \oslash a.d]

MoleFracToMassConc(a) ==
  LET rho == (a.e \otimes MoleSum(a)) \oslash ((Rd \otimes a.d) \otimes Gas(a))
      m   == Each(a, LAMBDA n : (rho \otimes MuRatio[n]) \oslash MoleSum(a))
      dry == rho \ominus Sum(LAMBDA n : m[n], Species)
      cvt == (dry \otimes Cvd) \oplus Sum(LAMBDA n : m[n] \otimes CvMass(n), Species)
  IN [a EXCEPT !.type = "MassConc", !.m = m, !.d = dry, !.e = cvt \otimes a.d,
               !.u = a.u \otimes rho, !.x = a.x \otimes dry]

MassFracToMassConc(a) ==
  LET dry  == a.d \otimes (One \ominus Total(a))
      m    == Each(a, LAMBDA n : a.d)
      fsig == dry \oplus Sum(LAMBDA n : m[n] \otimes CvRatioMass[n], Species)
      feps == dry \oplus Sum(LAMBDA n : m[n] \otimes InvMuRatio(n), Vapor)
  IN [a EXCEPT !.type = "MassConc", !.m = m, !.d = dry,
               !.e = ((IGm1 \otimes a.e) \otimes fsig) \oslash feps,
               !.u = a.u \otimes a.d, !.x = a.x \otimes dry]

\* inv_rhod is the dry density itself: the tracers are multiplied by it.
MassConcToMassFrac(a) ==
  LET rho  == a.d \oplus Total(a)
      b    == [a EXCEPT !.m = Each(a, LAMBDA n : One \oslash rho)]
      fsig == One \oplus Sum(LAMBDA n : b.m[n] \otimes (CvRatioMass[n] \ominus One), Species)
      feps == (One \oplus Sum(LAMBDA n : b.m[n] \otimes (InvMuRatio(n) \ominus One), Vapor))
                \ominus Clouds(b)
  IN [b EXCEPT !.type = "MassFrac", !.d = rho,
               !.e = (a.e \otimes feps) \oslash (IGm1 \otimes fsig),
               !.u = a.u \oslash rho, !.x = a.x \otimes a.d]

\* Mutant of DryDensity: the vapours count as dry.
DryDensityGas(a, p, t) == p \oslash (t \otimes Rd)

\* Density of the dry air of the mole fractions a.m at pressure p and
\* temperature t: its part of the gas.
DryDensity(a, p, t) ==
  (((One \ominus Total(a)) \oslash Gas(a)) \otimes p) \oslash (t \otimes Rd)

MoleFracToMoleConc(a) ==
  LET tmols == a.e \oslash ((Rgas \otimes a.d) \otimes Gas(a))
      fsig  == One \oplus Sum(LAMBDA n : (CvRatioMole(n) \ominus One) \otimes a.m[n], Species)
      LE    == Sum(LAMBDA n : a.m[n] \otimes LatentMole[n], Cloud)
      cvd   == Rgas \otimes IGm1
  IN [a EXCEPT !.type = "MoleConc",
               !.m = Each(a, LAMBDA n : tmols),
               !.d = tmols \otimes (One \ominus Total(a)),
               !.e = tmols \otimes (((cvd \otimes a.d) \otimes fsig) \ominus LE),
               !.u = a.u \otimes tmols,
               !.x = a.x \otimes DryDensity(a, a.e, a.d)]

MoleConcToMoleFrac(a) ==
  LET tmols == a.d \oplus Total(a)
      fsig  == a.d \oplus Sum(LAMBDA n : CvRatioMole(n) \otimes a.m[n], Species)
      LE    == Sum(LAMBDA n : a.m[n] \otimes LatentMole[n], Cloud)
      b     == [a EXCEPT !.m = Each(a, LAMBDA n : One \oslash tmols)]
      tem   == (a.e \oplus LE) \oslash ((Rgas \otimes IGm1) \otimes fsig)
      p     == ((Gas(b) \otimes tmols) \otimes Rgas) \otimes tem
  IN [b EXCEPT !.type = "MoleFrac", !.d = tem, !.e = p,
               !.u = a.u \oslash tmols,
               !.x = a.x \oslash DryDensity(b, p, tem)]

Type == {"MassFrac", "MassConc", "MoleFrac", "MoleConc"}

\* ConvertTo: the dispatch on the two types.  The four conversions between
\* MoleConc and the mass types throw NotImplementedError.
Implemented(from, to) ==
  {from, to} \notin {{"MassFrac", "MoleConc"}, {"MassConc", "MoleConc"}}

Convert(a, to) ==
  CASE a.type = to -> a
    [] a.type = "MassFrac" /\ to = "MoleFrac" -> MassFracToMoleFrac(a)
    [] a.type = "MoleFrac" /\ to = "MassFrac" -> MoleFracToMassFrac(a)
    [] a.type = "MassConc" /\ to = "MoleFrac" -> MassConcToMoleFrac(a)
    [] a.type = "MoleFrac" /\ to = "MassConc" -> MoleFracToMassConc(a)
    [] a.type = "MassFrac" /\ to = "MassConc" -> MassFracToMassConc(a)
    [] a.type = "MassConc" /\ to = "MassFrac" -> MassConcToMassFrac(a)
    [] a.type = "MoleFrac" /\ to = "MoleConc" -> MoleFracToMoleConc(a)
    [] a.type = "MoleConc" /\ to = "MoleFrac" -> MoleConcToMoleFrac(a)

-----------------------------------------------------------------------------
(* The cell's arrays.  Primitive: gas density, mass fractions of the gas,   *)
(* pressure and velocity in phydro->w, clouds and chemistry per dry air in  *)
(* pmicro->w and pchem->w.  Conserved: densities, momentum and total energy *)
(* of the gas alone in phydro->u, densities of the others.                  *)

GatherPrimitive(p) ==
  LET rhod == p.d \otimes (One \ominus Sum(LAMBDA n : p.m[n], Vapor))
      rho  == p.d \oplus Sum(LAMBDA n : rhod \otimes p.m[n], Cloud)
  IN [p EXCEPT !.type = "MassFrac", !.d = rho,
               !.m = Each(p, LAMBDA n : (IF n \in Vapor THEN p.d ELSE rhod) \oslash rho),
               !.q = (p.q \otimes rhod) \oslash rho]

\* Mutant of DistributePrimitive: chemistry is scaled like the vapours.
DistributePrimitiveGas(a) ==
  LET rhod == a.d \otimes (One \ominus Total(a))
      rhog == a.d \otimes Gas(a)
  IN [a EXCEPT !.type = "Primitive", !.d = rhog,
               !.m = Each(a, LAMBDA n : a.d \oslash (IF n \in Vapor THEN rhog ELSE rhod)),
               !.q = (a.q \otimes a.d) \oslash rhog]

\* Of a parcel of mass fractions.
DistributePrimitive(a) ==
  LET rhod == a.d \otimes (One \ominus Total(a))
      rhog == a.d \otimes Gas(a)
  IN [a EXCEPT !.type = "Primitive", !.d = rhog,
               !.m = Each(a, LAMBDA n : a.d \oslash (IF n \in Vapor THEN rhog ELSE rhod)),
               !.q = (a.q \otimes a.d) \oslash rhod]

\* Mass and heat capacity of the gas, of the dry density a.d and densities a.m.
GasMass(a) == a.d \oplus Sum(LAMBDA n : a.m[n], Vapor)
GasCv(a)   == (a.d \otimes Cvd) \oplus Sum(LAMBDA n : a.m[n] \otimes CvMass(n), Vapor)
CloudCv(a) == Sum(LAMBDA n : a.m[n] \otimes CvMass(n), Cloud)

GatherConserved(c) ==
  LET rho == GasMass(c)
      KE  == (Half \otimes (c.u \otimes c.u)) \oslash rho
      tem == (c.e \ominus KE) \oslash GasCv(c)
  IN [c EXCEPT !.type = "MassConc",
               !.u = c.u \oplus (Clouds(c) \otimes (c.u \oslash rho)),
               !.e = (GasCv(c) \oplus CloudCv(c)) \otimes tem]

\* Of a parcel of mass concentrations.
DistributeConserved(a) ==
  LET rho == a.d \oplus Total(a)
      tem == a.e \oslash (GasCv(a) \oplus CloudCv(a))
      vx  == a.u \oslash rho
  IN [a EXCEPT !.type = "Conserved",
               !.u = a.u \ominus (Clouds(a) \otimes vx),
               !.e = (a.e \ominus (CloudCv(a) \otimes tem))
                       \oplus ((Half \otimes GasMass(a)) \otimes (vx \otimes vx))]

-----------------------------------------------------------------------------
(* What the variables mean, whatever the code does with them.               *)

\* The arrays of a cell that holds the contents b: densities b.dry and b.m of
\* the species, temperature b.t, velocity b.v, chemistry b.q and tracer b.x
\* per mass of dry air.
AsPrimitive(b) ==
  LET gas == b.dry \oplus Sum(LAMBDA n : b.m[n], Vapor)
  IN [type |-> "Primitive", d |-> gas,
      m |-> [n \in Species |-> b.m[n] \oslash (IF n \in Vapor THEN gas ELSE b.dry)],
      e |-> (Rd \otimes b.t) \otimes
              (b.dry \oplus Sum(LAMBDA n : b.m[n] \oslash MuRatio[n], Vapor)),
      u |-> b.v, q |-> b.q, x |-> b.x]

AsConserved(b) ==
  LET gas == b.dry \oplus Sum(LAMBDA n : b.m[n], Vapor)
      cv  == (b.dry \otimes Cvd) \oplus Sum(LAMBDA n : b.m[n] \otimes CvMass(n), Vapor)
  IN [type |-> "Conserved", d |-> b.dry, m |-> b.m,
      e |-> (cv \otimes b.t) \oplus (Half \otimes (gas \otimes (b.v \otimes b.v))),
      u |-> gas \otimes b.v, q |-> b.q \otimes b.dry, x |-> b.x \otimes b.dry]

\* Moles per volume of the whole parcel: its gas fills the volume.
Moles(a) ==
  IF a.type = "MoleConc" THEN a.d \oplus Total(a)
  ELSE (a.e \oslash (Rgas \otimes a.d)) \oslash (One \ominus Clouds(a))

\* The densities of dry air and of the species n.
Dry(a) ==
  CASE a.type = "MassFrac" -> a.d \otimes (One \ominus Total(a))
    [] a.type = "MassConc" -> a.d
    [] a.type = "MoleFrac" -> (Moles(a) \otimes (One \ominus Total(a))) \otimes Mu0
    [] a.type = "MoleConc" -> a.d \otimes Mu0

Density(a, n) ==
  CASE a.type = "MassFrac" -> a.d \otimes a.m[n]
    [] a.type = "MassConc" -> a.m[n]
    [] a.type = "MoleFrac" -> (Moles(a) \otimes a.m[n]) \otimes (Mu0 \otimes MuRatio[n])
    [] a.type = "MoleConc" -> a.m[n] \otimes (Mu0 \otimes MuRatio[n])

Temperature(a) ==
  LET cv == (Dry(a) \otimes Cvd) \oplus Sum(LAMBDA n : Density(a, n) \otimes CvMass(n), Species)
      gas == Dry(a) \oplus Sum(LAMBDA n : Density(a, n) \oslash MuRatio[n], Vapor)
      latent == Sum(LAMBDA n : a.m[n] \otimes LatentMole[n], Cloud)
  IN CASE a.type = "MassFrac" -> a.e \oslash (Rd \otimes gas)
       [] a.type = "MassConc" -> a.e \oslash cv
       [] a.type = "MoleFrac" -> a.d
       [] a.type = "MoleConc" -> (a.e \oplus latent) \oslash cv

Velocity(a) ==
  CASE a.type \in {"MassFrac", "MoleFrac"} -> a.u
    [] a.type = "MassConc" -> a.u \oslash (a.d \oplus Total(a))
    [] a.type = "MoleConc" -> a.u \oslash Moles(a)

\* Tracer per mass of dry air.
Tracer(a) ==
  IF a.type \in {"MassFrac", "MoleFrac", "Primitive"} THEN a.x
  ELSE IF a.type = "Conserved" THEN a.x \oslash a.d
  ELSE a.x \oslash Dry(a)

Matter(a) == [dry |-> Dry(a), m |-> [n \in Species |-> Density(a, n)],
              t |-> Temperature(a), v |-> Velocity(a)]

-----------------------------------------------------------------------------
VARIABLES
  air,      \* the contents of the cell, never changed
  prim,     \* the cell's part of phydro->w, pmicro->w, pchem->w, ptracer->w
  cons,     \* the same of ...->u
  parcel,   \* the AirParcel in hand
  from,     \* the array it was gathered from
  ops       \* number of operations, bounded by MaxOps

vars == <<air, prim, cons, parcel, from, ops>>

\* A cell after PrimitiveToConserved and the gather of its parcel.
Init ==
  /\ air \in Air
  /\ prim = AsPrimitive(air)
  /\ cons = AsConserved(air)
  /\ from = "primitive"
  /\ parcel = GatherPrimitive(prim)
  /\ ops = 0

Count == ops < MaxOps /\ ops' = ops + 1

\* gather_from_primitive and gather_from_conserved.
Gather ==
  /\ Count
  /\ \/ from' = "primitive" /\ parcel' = GatherPrimitive(prim)
     \/ from' = "conserved" /\ parcel' = GatherConserved(cons)
  /\ UNCHANGED <<air, prim, cons>>

\* ToMassFraction, ToMassConcentration, ToMoleFraction, ToMoleConcentration.
ConvertTo(t) ==
  /\ Count
  /\ parcel.type # t /\ Implemented(parcel.type, t)
  /\ parcel' = Convert(parcel, t)
  /\ UNCHANGED <<air, prim, cons, from>>

\* distribute_to_primitive: a copy of the parcel is converted.
ToPrimitive ==
  /\ Count
  /\ Implemented(parcel.type, "MassFrac")
  /\ prim' = DistributePrimitive(Convert(parcel, "MassFrac"))
  /\ UNCHANGED <<air, cons, parcel, from>>

\* distribute_to_conserved.
ToConserved ==
  /\ Count
  /\ Implemented(parcel.type, "MassConc")
  /\ cons' = DistributeConserved(Convert(parcel, "MassConc"))
  /\ UNCHANGED <<air, prim, parcel, from>>

Next ==
  \/ Gather
  \/ \E t \in Type : ConvertTo(t)
  \/ ToPrimitive
  \/ ToConserved

Spec == Init /\ [][Next]_vars

-----------------------------------------------------------------------------
(* Properties.                                                              *)

\* The state of the cell and of the parcel is one of air: the density or the
\* temperature in w[IDN] is positive and no species is negative.
TypeOK ==
  /\ parcel.type \in Type /\ prim.type = "Primitive" /\ cons.type = "Conserved"
  /\ from \in {"primitive", "conserved"} /\ ops \in 0 .. MaxOps
  /\ \A a \in {prim, cons, parcel} :
       a.d[1] > 0 /\ \A n \in Species : a.m[n][1] >= 0

\* Whatever is gathered, converted and distributed, in whatever order, the
\* parcel and both arrays describe the same air: densities of all species,
\* temperature and velocity (air_parcel.cpp 140-487, 558-778).
MatterKept ==
  LET HydroAndClouds(a) == [d |-> a.d, m |-> a.m, e |-> a.e, u |-> a.u]
      b == [dry |-> air.dry, m |-> air.m, t |-> air.t, v |-> air.v]
  IN /\ HydroAndClouds(prim) = HydroAndClouds(AsPrimitive(air))
     /\ HydroAndClouds(cons) = HydroAndClouds(AsConserved(air))
     /\ Matter(parcel) = b

\* No operation invents a tracer mixing ratio, except the one that multiplies
\* the tracers by the dry density it should divide by: MassConc to MassFrac,
\* called for or on the way to the primitive array (air_parcel.cpp 343-390).
TracerKept ==
  [][ LET scales == \/ parcel.type = "MassConc" /\ parcel'.type = "MassFrac" /\ from' = from
                    \/ parcel.type = "MassConc" /\ prim' # prim
          Ratios == {Tracer(prim), Tracer(cons), Tracer(parcel)}
      IN ~ scales => {Tracer(prim'), Tracer(cons'), Tracer(parcel')} \subseteq Ratios ]_vars

\* Chemistry is not converted with the rest of the parcel, but a parcel that
\* goes back to the array it came from leaves the chemistry there as it was,
\* through any conversions (air_parcel.cpp 596, 648, 703, 772).
ChemistryKept ==
  [][ /\ from = "primitive" => prim'.q = prim.q
      /\ from = "conserved" => cons'.q = cons.q ]_vars
=============================================================================
