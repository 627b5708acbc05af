----------------------------- MODULE MCCliMerge -----------------------------
(* CliMerge on small instances. *)
EXTENDS CliMerge, TLC

MCNoIdle == {0}

MCNoSkew == {0}

(* The session bus answers. *)
MCBusUp == {TRUE}

KeySymmetry == Permutations(GameKey)
=============================================================================
