--------------------------- MODULE MCDiagnostics ---------------------------
(* Two planes of two ranks, all diagnostics, two outputs.                 *)
EXTENDS Diagnostics

MCPlane == [r \in 0 .. 3 |-> IF r < 2 THEN {0, 1} ELSE {2, 3}]
MCDiags == <<"mean", "hydroflux", "radflux", "anomaly", "w_avg">>
MCDue == <<{2, 4}, {2, 3}>>
=============================================================================
