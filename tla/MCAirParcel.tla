---------------------------- MODULE MCAirParcel ----------------------------
(* Finite instance of AirParcel: one vapour, one cloud, small rationals.    *)
EXTENDS AirParcel

MCMuRatio == [n \in {"vapor", "cloud"} |-> IF n = "vapor" THEN <<2, 1>> ELSE <<3, 1>>]
MCCvRatio == [n \in {"vapor", "cloud"} |-> IF n = "vapor" THEN <<2, 1>> ELSE <<1, 2>>]
MCLatent == [n \in {"cloud"} |-> <<5, 1>>]
MCRd == One
MCMu0 == <<2, 1>>
MCIGm1 == <<2, 1>>

\* Dry and moist, clear and cloudy air, at rest and moving.
MCAir ==
  { [dry |-> Q(d, 2), m |-> [n \in Species |-> IF n \in Vapor THEN Q(v, 1) ELSE Q(c, 1)],
     t |-> Q(t, 1), v |-> Q(u, 1), q |-> One, x |-> One] :
    d \in {1, 2, 4}, v \in {0, 2}, c \in {0, 3}, t \in {1, 2}, u \in {0, 2} }
=============================================================================
