----------------------------- MODULE MCHeartbeat -----------------------------
(* Two pages for one screen layout, and a layout with a second screen.     *)
EXTENDS Heartbeat
CONSTANTS wall, signage
MCOutputs == {[screens |-> 1, pages |-> 1], [screens |-> 1, pages |-> 2], [screens |-> 2, pages |-> 1]}
=============================================================================
