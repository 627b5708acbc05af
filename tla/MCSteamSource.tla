--------------------------- MODULE MCSteamSource ---------------------------
(* SteamSource on small instances. *)
EXTENDS SteamSource, TLC

AppSymmetry == Permutations(App)
=============================================================================
