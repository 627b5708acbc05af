------------------------------ MODULE CliMerge ------------------------------
(***************************************************************************)
(* `ludex merge` (crates/ludex-cli/src/merge.rs) beside the daemon of      *)
(* SessionManager.tla.  The command asks the session bus whether the       *)
(* daemon is up, and then, in a step of its own, runs the transaction      *)
(* ApplicationRepo::merge_into on the daemon's database.  Of the manager's *)
(* handlers only handle_started issues two statements a merge can part:    *)
(* the second then fails on its foreign key, which is StartFails.          *)
(***************************************************************************)
EXTENDS SessionManager

CONSTANTS BusReachable,   \* answers the command's connection attempt can give
          BootMayRace     \* whether a daemon may come up under a cleared merge

ASSUME MergeAssumption == BusReachable \subseteq BOOLEAN /\ BootMayRace \in BOOLEAN

VARIABLE cleared    \* << >>, or <<src, dst>> of a merge that passed its check

mergeVars == <<vars, cleared>>

MergeInit == Init /\ cleared = << >>

(* daemon_active: no bus, no daemon.  The name is held from Boot to Exit. *)
DaemonActive(reachable) == reachable /\ phase \in Up

CheckDaemon(src, dst) ==
  /\ cleared = << >>
  /\ \E reachable \in BusReachable : ~ DaemonActive(reachable)
  /\ cleared' = <<src, dst>>
  /\ UNCHANGED vars

(* The transaction, or an error that rolls it back. *)
RunMerge ==
  /\ cleared # << >>
  /\ cleared' = << >>
  /\ \/ MergeInto(cleared[1], cleared[2])
     \/ UNCHANGED storeVars
  /\ UNCHANGED <<procVars, clockVars, faultVars>>

Daemon ==
  /\ Next
  /\ (phase \notin Up /\ phase' \in Up) => (BootMayRace \/ cleared = << >>)
  /\ UNCHANGED cleared

MergeNext ==
  \/ Daemon
  \/ \E src, dst \in DOMAIN applications : CheckDaemon(src, dst)
  \/ RunMerge

MergeSpec == MergeInit /\ [][MergeNext]_mergeVars

-----------------------------------------------------------------------------
(* Properties.  StatsMatchClosedRows and OneOpenRowPerApplication are those *)
(* of SessionStore.tla and SessionManager.tla: merging two histories keeps  *)
(* the counters exact as long as the daemon is down, orphans a crash left   *)
(* included, and never gives an application two open rows, whoever races.   *)

(* "both null -> stays null, one side null -> picks the non-null, both set  *)
(* -> picks the later" (application.rs:336): what a merge does to the       *)
(* destination's last_played_at.                                            *)
MergePicksTheNonNull ==
  [][cleared # << >> /\ applications' # applications /\ cleared' = << >> =>
       LET known == {applications[cleared[1]].last, applications[cleared[2]].last} \ {NULL}
       IN  applications'[cleared[2]].last = IF known = {} THEN NULL ELSE Max(known)]_mergeVars

=============================================================================
