---------------------------- MODULE MCIdleSources ----------------------------
(***************************************************************************)
(* Half seconds for a tick, a session that opens and closes anywhere in    *)
(* the handshake, and a compositor that may die and start again.           *)
(***************************************************************************)
EXTENDS IdleSources
=============================================================================
