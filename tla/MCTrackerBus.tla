---------------------------- MODULE MCTrackerBus -----------------------------
(***************************************************************************)
(* A client that makes calls one after another, beside the scheduler and   *)
(* the command line.                                                       *)
(***************************************************************************)
EXTENDS TrackerBus

CONSTANTS gui, hades
=============================================================================
