-------------------------- MODULE MCIncidentPoller --------------------------
(* IncidentPoller with the intervals of the code, 3 s, 8 s and 30 s, in    *)
(* units of two seconds, rounded up.                                       *)
EXTENDS IncidentPoller
=============================================================================
