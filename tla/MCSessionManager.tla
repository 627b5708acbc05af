-------------------------- MODULE MCSessionManager --------------------------
(* SessionManager on small instances. *)
EXTENDS SessionManager, TLC

(* No billable idle, and some: more than a session just opened has lasted. *)
MCIdleBilled == {0, 1}

MCNoSkew == {0}

(* The wall clock can fall behind the monotonic one, and catch up. *)
MCSkews == {-1, 0}

KeySymmetry == Permutations(GameKey)
=============================================================================
