----------------------------- MODULE MCWatchdog -----------------------------
(* Finite instances of Watchdog; the configurations give the knobs, scaled *)
(* down from 3, 4, 60, 4 and 4 intervals.                                  *)
EXTENDS Watchdog
=============================================================================
