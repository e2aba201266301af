------------------------------- MODULE Replica -------------------------------
(* What the local cache promises of the mirrored tables: a copy that       *)
(* follows the backend row by row, never backwards and never with what the *)
(* backend has not written yet; and a cursor that only grows and vouches   *)
(* for every change up to it.  What is vouched for is not touched again    *)
(* before the backend changes it.                                          *)
EXTENDS Naturals

CONSTANT Row

VARIABLES
    source,     \* backend rows: live or tombstoned, and when last changed
    copy,       \* the stamp of each copied row, 0: no row
    vouched     \* every change up to this stamp is copied

Copied(r) == copy[r] = IF source[r].live THEN source[r].at ELSE 0

Init ==
    /\ source = [r \in Row |-> [live |-> FALSE, at |-> 0]]
    /\ copy = [r \in Row |-> 0]
    /\ vouched = 0

(* Rows change at the backend, later than anything that was vouched for.   *)
Change ==
    /\ source' \in [Row -> [live : BOOLEAN, at : Nat]]
    /\ \A r \in Row : source'[r] # source[r] =>
          source[r].at < source'[r].at /\ vouched < source'[r].at
    /\ UNCHANGED <<copy, vouched>>

(* Some rows are brought forward: each to a later stamp, or removed        *)
(* because the backend has changed it since.                               *)
Follow ==
    /\ copy' \in [Row -> Nat]
    /\ \A r \in Row : copy'[r] # copy[r] =>
          /\ vouched < source[r].at
          /\ copy[r] < source[r].at /\ copy'[r] <= source[r].at
          /\ copy'[r] # 0 => copy[r] < copy'[r]
    /\ UNCHANGED <<source, vouched>>

Advance ==
    /\ vouched' \in Nat /\ vouched < vouched'
    /\ \A r \in Row : source[r].at <= vouched' => Copied(r)
    /\ UNCHANGED <<source, copy>>

Next == Change \/ Follow \/ Advance

Spec == Init /\ [][Next]_<<source, copy, vouched>>
=============================================================================
