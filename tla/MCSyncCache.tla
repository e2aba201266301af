----------------------------- MODULE MCSyncCache -----------------------------
(* Finite instances of SyncCache: two media rows and one row of another    *)
(* table.                                                                  *)
EXTENDS SyncCache

MCMedia == {1, 2}
MCOther == {3}
=============================================================================
