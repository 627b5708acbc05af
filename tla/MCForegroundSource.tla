------------------------- MODULE MCForegroundSource -------------------------
(* ForegroundSource on small instances: the daemon's own window and three  *)
(* processes.  Two of them share a launcher's identity, as the processes   *)
(* of one game do.                                                         *)
EXTENDS ForegroundSource, TLC

CONSTANTS ludexd, p1, p2, p3, k1, k2

MCPid == {ludexd, p1, p2, p3}

MCAllGames == {p1, p2, p3}

MCKeys == p1 :> k1 @@ p2 :> k1 @@ p3 :> k2

MCBoth == {TRUE, FALSE}
=============================================================================
