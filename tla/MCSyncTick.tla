----------------------------- MODULE MCSyncTick -----------------------------
(* One part of the wall's video, two of one rotation video; two events.    *)
EXTENDS SyncTick
CONSTANTS wall, v1
MCPart == {<<wall, Webm>>, <<v1, Webm>>, <<v1, Mp4>>}
(* The wall changes and may change back; or the rotation video's webm is   *)
(* changed, or withdrawn while its mp4 is still listed; or its mp4 is      *)
(* listed before its webm.                                                 *)
Changes(p, n) == [q \in MCPart |-> IF q = p THEN n ELSE 0]
MCStarts ==
    {[listed |-> {<<wall, Webm>>}, changes |-> Changes(<<wall, Webm>>, 2)],
     [listed |-> {<<v1, Webm>>, <<v1, Mp4>>}, changes |-> Changes(<<v1, Webm>>, 1)],
     [listed |-> {<<v1, Mp4>>}, changes |-> Changes(<<v1, Webm>>, 1)]}
=============================================================================
