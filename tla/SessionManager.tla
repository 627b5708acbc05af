--------------------------- MODULE SessionManager ---------------------------
(***************************************************************************)
(* The daemon's session bookkeeper (crates/ludex-daemon/src/               *)
(* session_manager.rs) over the store, together with what happens around   *)
(* it: the sources that feed its channel, the D-Bus method that deletes    *)
(* sessions, the daemon's boot, crash, restart and shutdown, and database  *)
(* statements that fail.                                                   *)
(*                                                                         *)
(* Two clocks: `now` is CLOCK_MONOTONIC, which only runtimes read;         *)
(* `now + skew` is the wall clock, which only timestamps read, and `skew`  *)
(* moves when the system suspends or NTP steps it.                         *)
(*                                                                         *)
(* Every handler is one step: the manager is a single task, and no other   *)
(* task writes what it reads between its awaits (an open row cannot be     *)
(* deleted, see DeleteSessionsAndRecompute).  The shared blocklist is read *)
(* as an arbitrary answer; TrackerBus.tla is about its contents.           *)
(***************************************************************************)
EXTENDS SessionStore, Sequences

CONSTANTS HeartbeatInterval,  \* HEARTBEAT_INTERVAL_SECS
          IdleBilled,         \* answers billable_idle_seconds_since can give
          Skews,              \* wall clock minus monotonic clock
          InboxCapacity,      \* EVENT_CHANNEL_CAPACITY
          MaxSessions,        \* bound: sessions ever opened
          MaxTime,            \* bound: the monotonic clock
          MaxFailures,        \* bound: statements that fail
          MaxCrashes          \* bound: crashes

ASSUME ManagerAssumption ==
  /\ HeartbeatInterval \in Nat \ {0}
  /\ IdleBilled \subseteq Nat
  /\ Skews \subseteq Int /\ 0 \in Skews
  /\ InboxCapacity \in Nat \ {0}
  /\ MaxSessions \in Nat /\ MaxTime \in Nat
  /\ MaxFailures \in Nat /\ MaxCrashes \in Nat

VARIABLES phase,      \* where the daemon process is
          open,       \* SessionManager.open: key -> OpenSession
          inbox,      \* the event channel
          now,        \* the monotonic clock
          skew,       \* wall clock minus monotonic clock
          nextBeat,   \* when the heartbeat interval next fires
          feed,       \* whether a source still holds a sender of the channel
          stopAt,     \* the timestamp close_all_open took
          failures,   \* statements that failed so far
          crashes     \* crashes so far

stopVars == <<feed, stopAt>>
procVars == <<phase, open, inbox, nextBeat, stopVars>>
clockVars == <<now, skew>>
faultVars == <<failures, crashes>>
vars == <<storeVars, procVars, clockVars, faultVars>>

(* "winding" is "stopping" without a shutdown: the channel has closed.  A   *)
(* "deserted" daemon has no manager and goes on serving D-Bus.             *)
Phase == {"off", "crashed", "recovering", "running", "winding", "deserted", "stopping"}

Up == Phase \ {"off", "crashed"}

GameEvent == [kind: {"started", "stopped"}, key: GameKey, at: Int]

OpenSession == [session: Nat, app: Nat, started: Nat]

Wall == now + skew

TrackedRows == {open[k].session : k \in DOMAIN open}

KeyOf(s) == CHOOSE k \in DOMAIN open : open[k].session = s

Init ==
  /\ sessions = << >> /\ applications = << >>
  /\ lastSession = 0 /\ lastApp = 0
  /\ phase = "off" /\ open = << >> /\ inbox = << >>
  /\ now = 0 /\ skew = 0 /\ nextBeat = 0 /\ feed = "gone" /\ stopAt = 0
  /\ failures = 0 /\ crashes = 0

-----------------------------------------------------------------------------
(* Runtime accounting. *)

(* Plausible mistakes: no clamp, and the wall clock for the monotonic one. *)
RuntimesUnclamped(o, idle) ==
  [full |-> now - o.started, interactive |-> (now - o.started) - idle]

RuntimesOnWallClock(o, idle) ==
  LET full == Wall - o.started
  IN  [full |-> full, interactive |-> IF idle > full THEN 0 ELSE full - idle]

(* runtimes_for: the monotonic time since the session opened, and that     *)
(* less the billable idle time, clamped into 0..full.                      *)
RuntimesFor(o, idle) ==
  LET full == now - o.started
  IN  [full |-> full, interactive |-> IF idle > full THEN 0 ELSE full - idle]

StatementFails ==
  /\ failures < MaxFailures
  /\ failures' = failures + 1
  /\ UNCHANGED crashes

-----------------------------------------------------------------------------
(* The sources. *)

(* Any source may report any key, a duplicate included; a full channel     *)
(* makes it wait.                                                          *)
Emit(kind, k) ==
  /\ phase = "running" /\ feed = "live" /\ Len(inbox) < InboxCapacity
  /\ inbox' = Append(inbox, [kind |-> kind, key |-> k, at |-> Wall])
  /\ UNCHANGED <<storeVars, phase, open, nextBeat, stopVars, clockVars, faultVars>>

-----------------------------------------------------------------------------
(* The manager's event loop. *)

Receive(kind) ==
  /\ phase = "running" /\ inbox # << >>
  /\ Head(inbox).kind = kind
  /\ inbox' = Tail(inbox)
  /\ UNCHANGED <<phase, nextBeat, stopVars, clockVars>>

Track(k, s, a) ==
  open' = [j \in DOMAIN open \cup {k} |->
             IF j = k THEN [session |-> s, app |-> a, started |-> now]
             ELSE open[j]]

(* handle_started on a blocked or an already open key. *)
IgnoreStarted ==
  /\ Receive("started")
  /\ UNCHANGED <<storeVars, open, faultVars>>

(* handle_started for a key whose application row exists. *)
StartKnown ==
  /\ Receive("started")
  /\ LET e == Head(inbox)
     IN  /\ e.key \notin DOMAIN open
         /\ \E a \in AppsOf(e.key) :
              \/ /\ HasOpenRow(a)       \* Error::OpenSessionExists: dropped
                 /\ UNCHANGED <<storeVars, open, faultVars>>
              \/ /\ ~ HasOpenRow(a) /\ lastSession < MaxSessions
                 /\ Begin(a, e.at)
                 /\ Track(e.key, lastSession + 1, a)
                 /\ UNCHANGED <<applications, lastApp, faultVars>>

(* handle_started for a key never seen: the application row is committed   *)
(* before, and whether or not, the session row is.                         *)
StartNew ==
  /\ Receive("started")
  /\ LET e == Head(inbox)
     IN  /\ AppsOf(e.key) = {} /\ e.key \notin DOMAIN open
         /\ CreateApplication(e.key)
         /\ \/ /\ lastSession < MaxSessions
               /\ Begin(lastApp + 1, e.at)
               /\ Track(e.key, lastSession + 1, lastApp + 1)
               /\ UNCHANGED faultVars
            \/ /\ StatementFails
               /\ UNCHANGED <<sessions, lastSession, open>>

(* Any statement of handle_started fails with nothing committed. *)
StartFails ==
  /\ Receive("started")
  /\ Head(inbox).key \notin DOMAIN open
  /\ StatementFails
  /\ UNCHANGED <<storeVars, open>>

(* A plausible mistake: the entry is read, not removed. *)
KeepEntry(k) == k \in DOMAIN open /\ open' = open

Forget(k) == open' = [j \in DOMAIN open \ {k} |-> open[j]]

(* handle_stopped: the entry leaves the map before the close is tried. *)
HandleStopped ==
  /\ Receive("stopped")
  /\ LET e == Head(inbox)
     IN  IF e.key \notin DOMAIN open
         THEN UNCHANGED <<storeVars, open, faultVars>>
         ELSE LET o == open[e.key]
              IN  /\ Forget(e.key)
                  /\ \/ /\ \E idle \in IdleBilled :
                             CloseAndRollup(o.session, o.app,
                               RuntimesFor(o, idle), e.at, "terminated")
                        /\ UNCHANGED <<lastSession, lastApp, faultVars>>
                     \/ /\ StatementFails
                        /\ UNCHANGED storeVars

(* heartbeat_open_sessions writes the rows in map order and gives up at    *)
(* the first failure: `done` are the keys written before it.               *)
HeartbeatOpenSessions ==
  /\ phase = "running" /\ now = nextBeat
  /\ nextBeat' = nextBeat + HeartbeatInterval
  /\ \E done \in SUBSET DOMAIN open :
       /\ IF done = DOMAIN open THEN UNCHANGED faultVars ELSE StatementFails
       /\ \E idle \in [done -> IdleBilled] :
            LET ids == {open[k].session : k \in done}
            IN  Heartbeat(ids,
                  [s \in ids |-> RuntimesFor(open[KeyOf(s)], idle[KeyOf(s)])], Wall)
  /\ UNCHANGED <<applications, lastSession, lastApp, phase, open, inbox, stopVars, clockVars>>

-----------------------------------------------------------------------------
(* The daemon's life. *)

(* daemon::run up to recovery; `dbus::serve` has taken the bus name. *)
Boot ==
  /\ phase \in {"off", "crashed"}
  /\ phase' = "recovering"
  /\ UNCHANGED <<storeVars, open, inbox, nextBeat, stopVars, clockVars, faultVars>>

(* A plausible mistake: a row with a young heartbeat is somebody else's. *)
AgedOrphans == {s \in OpenRows : sessions[s].heartbeat + HeartbeatInterval < Wall}

(* list_all_orphans: every open row, whatever the age of its heartbeat. *)
Orphans == OpenRows

(* A plausible mistake: recovery closes a row as if it had never beaten. *)
RecoverFromNothing(s) ==
  /\ phase = "recovering" /\ s \in Orphans
  /\ CloseAndRollup(s, sessions[s].app, [full |-> 0, interactive |-> 0],
                    sessions[s].heartbeat, "recovered")
  /\ UNCHANGED <<lastSession, lastApp, procVars, clockVars, faultVars>>

(* One turn of the loop of recover_orphans. *)
RecoverOrphan(s) ==
  /\ phase = "recovering" /\ s \in Orphans
  /\ LET row == sessions[s]
     IN  CloseAndRollup(s, row.app,
           [full |-> row.full, interactive |-> row.interactive],
           row.heartbeat, "recovered")
  /\ UNCHANGED <<lastSession, lastApp, procVars, clockVars, faultVars>>

(* A failed list or close ends recovery, and with it the process. *)
RecoveryFails ==
  /\ phase = "recovering"
  /\ StatementFails
  /\ phase' = "crashed"
  /\ UNCHANGED <<storeVars, open, inbox, nextBeat, stopVars, clockVars>>

(* Recovery is over: the manager's task starts, fed by whichever sources   *)
(* the session offers, none perhaps, and the interval discards its         *)
(* immediate first tick.                                                   *)
StartManager ==
  /\ phase = "recovering" /\ Orphans = {}
  /\ phase' = "running"
  /\ nextBeat' = now + HeartbeatInterval
  /\ feed' \in {"live", "gone"}
  /\ UNCHANGED <<storeVars, open, inbox, stopAt, clockVars, faultVars>>

(* The last source task ends, with an error or without. *)
SourcesExit ==
  /\ phase = "running" /\ feed = "live"
  /\ feed' = "gone"
  /\ UNCHANGED <<storeVars, phase, open, inbox, nextBeat, stopAt, clockVars, faultVars>>

(* recv returns None once the senders are gone and the queue is drained.   *)
ChannelCloses ==
  /\ phase = "running" /\ feed = "gone" /\ inbox = << >>
  /\ phase' = "winding" /\ stopAt' = Wall /\ nextBeat' = 0
  /\ UNCHANGED <<storeVars, open, inbox, feed, clockVars, faultVars>>

(* The termination signal.  The shutdown arm of the manager's select is    *)
(* free to win over events already queued: they are never handled, nor is  *)
(* what the sources, told as well, send from here on.                      *)
Shutdown ==
  /\ phase \in {"running", "winding", "deserted"}
  /\ phase' = "stopping" /\ inbox' = << >> /\ feed' = "gone" /\ nextBeat' = 0
  /\ stopAt' = IF phase = "running" THEN Wall ELSE stopAt
  /\ UNCHANGED <<storeVars, open, clockVars, faultVars>>

(* One turn of the loop of close_all_open, which logs a failure and goes on. *)
CloseAllOpen(k) ==
  /\ phase \in {"stopping", "winding"} /\ k \in DOMAIN open
  /\ Forget(k)
  /\ \/ /\ \E idle \in IdleBilled :
             CloseAndRollup(open[k].session, open[k].app,
               RuntimesFor(open[k], idle), stopAt, "terminated")
        /\ UNCHANGED <<lastSession, lastApp, faultVars>>
     \/ /\ StatementFails
        /\ UNCHANGED storeVars
  /\ UNCHANGED <<phase, inbox, nextBeat, stopVars, clockVars>>

(* A plausible mistake: the task ends with sessions still to close. *)
ExitUndrained ==
  /\ phase = "stopping"
  /\ phase' = "off" /\ open' = << >> /\ stopAt' = 0
  /\ UNCHANGED <<storeVars, inbox, nextBeat, feed, clockVars, faultVars>>

(* The process waits for the manager's task, and is done. *)
Exit ==
  /\ phase = "stopping" /\ open = << >>
  /\ phase' = "off" /\ stopAt' = 0
  /\ UNCHANGED <<storeVars, open, inbox, nextBeat, feed, clockVars, faultVars>>

(* Nobody waits for a task that ended before the signal came. *)
Desert ==
  /\ phase = "winding" /\ open = << >>
  /\ phase' = "deserted" /\ stopAt' = 0
  /\ UNCHANGED <<storeVars, open, inbox, nextBeat, feed, clockVars, faultVars>>

Crash ==
  /\ phase \in Up
  /\ crashes < MaxCrashes
  /\ crashes' = crashes + 1
  /\ phase' = "crashed" /\ open' = << >> /\ inbox' = << >>
  /\ feed' = "gone" /\ nextBeat' = 0 /\ stopAt' = 0
  /\ UNCHANGED <<storeVars, clockVars, failures>>

-----------------------------------------------------------------------------
(* Around it. *)

(* The D-Bus method delete_sessions, served from before recovery until the *)
(* connection is dropped after the manager's task ends.                    *)
DeleteSessions(ids) ==
  /\ phase \in Up
  /\ DeleteSessionsAndRecompute(ids)
  /\ UNCHANGED <<procVars, clockVars, faultVars>>

(* The clock does not pass a heartbeat that is due: the loop takes far     *)
(* less than a unit of time to come round.                                 *)
Tick ==
  /\ now < MaxTime
  /\ phase = "running" => now < nextBeat
  /\ now' = now + 1
  /\ UNCHANGED <<storeVars, procVars, skew, faultVars>>

StepWallClock ==
  /\ skew' \in Skews \ {skew}
  /\ UNCHANGED <<storeVars, procVars, now, faultVars>>

-----------------------------------------------------------------------------
Handle == IgnoreStarted \/ StartKnown \/ StartNew \/ StartFails \/ HandleStopped

Recover == \/ \E s \in Orphans : RecoverOrphan(s)
           \/ RecoveryFails
           \/ StartManager

Stop == ChannelCloses \/ (\E k \in DOMAIN open : CloseAllOpen(k)) \/ Desert \/ Exit

Next ==
  \/ \E kind \in {"started", "stopped"}, k \in GameKey : Emit(kind, k)
  \/ Handle
  \/ HeartbeatOpenSessions
  \/ Boot
  \/ Recover
  \/ SourcesExit
  \/ Shutdown
  \/ Stop
  \/ Crash
  \/ \E ids \in SUBSET (1..lastSession) : DeleteSessions(ids)
  \/ Tick
  \/ StepWallClock

(* Fairness: the manager's task is scheduled, systemd restarts a daemon    *)
(* that died (Restart=on-failure, not after a clean exit), and its loops   *)
(* over rows run on.  Sources, users and the clock owe nothing.            *)
Fairness ==
  /\ WF_vars(Handle)
  /\ WF_vars(phase = "crashed" /\ Boot)
  /\ WF_vars(Recover)
  /\ WF_vars(Stop)

Spec == Init /\ [][Next]_vars /\ Fairness

-----------------------------------------------------------------------------
(* Properties. *)

ManagerTypeOK ==
  /\ phase \in Phase
  /\ open \in [DOMAIN open -> OpenSession] /\ DOMAIN open \subseteq GameKey
  /\ inbox \in Seq(GameEvent)
  /\ now \in Nat /\ skew \in Int /\ nextBeat \in Nat
  /\ feed \in {"live", "gone"} /\ stopAt \in Int
  /\ failures \in Nat /\ crashes \in Nat

TypeOK == StoreTypeOK /\ ManagerTypeOK

(* What the manager remembers of a session is true of its row: the row     *)
(* exists, is open, belongs to the application the entry names, which is   *)
(* the key's own, and no two keys share one.  Boot, recovery, deletes and  *)
(* failed statements all go by without breaking the tie that lets a later  *)
(* Stopped close the right row.                                            *)
TrackedRowsAreOpen ==
  /\ \A k \in DOMAIN open :
       LET o == open[k]
       IN  /\ o.session \in OpenRows
           /\ sessions[o.session].app = o.app
           /\ o.app \in AppsOf(k)
  /\ \A j, k \in DOMAIN open : open[j].session = open[k].session => j = k

(* One interval, and one more for each of f failures. *)
Lag(f) == HeartbeatInterval + HeartbeatInterval * f

(* "A crash after a heartbeat loses at most that interval's worth of       *)
(* runtime" (session_manager.rs): while the manager runs, the row of a     *)
(* tracked session is at most one interval behind the clock, and one more  *)
(* for every statement that failed.                                        *)
HeartbeatLag ==
  phase = "running" =>
    \A k \in DOMAIN open :
      (now - open[k].started) - sessions[open[k].session].full
        <= Lag(failures)

(* As long as no statement failed, no open row is ever left to itself: a   *)
(* manager that runs or stops tracks them all, and its task, when it ends, *)
(* leaves none.                                                            *)
OpenRowsAccountedFor ==
  failures = 0 =>
    CASE phase \in {"running", "winding", "stopping"} -> OpenRows = TrackedRows
      [] phase \in {"deserted", "off"} -> OpenRows = {}
      [] OTHER -> TRUE

(* Every row a crash left open is closed, or deleted, in the end, and the  *)
(* manager comes up: recovery cannot wedge on what it finds.               *)
CrashIsRecovered == (phase = "crashed") ~> (phase = "running" /\ OpenRows = {})

(* A shutdown under way ends, with every tracked session let go. *)
ShutdownCompletes == (phase = "stopping") ~> (phase \in {"off", "crashed"})

(* The inductive invariant SessionManagerProofs.tla proves: the above and  *)
(* what it rests on.  Rows belong to known applications; an application    *)
(* has one open row; a daemon that is not running tracks nothing; a row    *)
(* never claims more than the time since its session opened; and the next  *)
(* heartbeat is at hand, no row being further behind it than the lag.      *)
RowsHaveApplications ==
  \A s \in DOMAIN sessions : sessions[s].app \in DOMAIN applications

OneOpenRowPerApplication ==
  \A s, t \in OpenRows : sessions[s].app = sessions[t].app => s = t

TracksOnlyWhileUp == phase \in {"running", "winding", "stopping"} \/ DOMAIN open = {}

RuntimeWithinElapsed ==
  \A k \in DOMAIN open :
    sessions[open[k].session].full <= now - open[k].started

BeatAtHand ==
  phase = "running" =>
    /\ now <= nextBeat /\ nextBeat <= now + HeartbeatInterval
    /\ \A k \in DOMAIN open :
         nextBeat <= open[k].started + sessions[open[k].session].full + Lag(failures)

InductiveInvariant ==
  /\ TypeOK
  /\ TrackedRowsAreOpen
  /\ RowsHaveApplications
  /\ OneOpenRowPerApplication
  /\ TracksOnlyWhileUp
  /\ RuntimeWithinElapsed
  /\ BeatAtHand

(* The ledger this bookkeeping promises: of a row, its application, its    *)
(* runtime and whether it is settled; of an application, its total.        *)
Ledger == INSTANCE PlaytimeLedger WITH
  rows <- [s \in DOMAIN sessions |-> [app |-> sessions[s].app,
                                      full |-> sessions[s].full,
                                      state |-> IF sessions[s].ended = NULL
                                                THEN "open" ELSE "closed"]],
  total <- [a \in DOMAIN applications |-> applications[a].full]

(* Through crashes, recovery, failed statements and deletes, the tables    *)
(* move only as the ledger may.                                            *)
ImplementsLedger == Ledger!Spec

=============================================================================
