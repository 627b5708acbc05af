----------------------------- MODULE IdleSources -----------------------------
(***************************************************************************)
(* Who drives the idle tracker: the Wayland worker thread of               *)
(* ludex-daemon/src/idle_wayland.rs, the task that waits for its report,   *)
(* and the logind watcher of idle.rs the task falls back to.               *)
(*                                                                         *)
(* The compositor, logind and the user are the environment.  The thread    *)
(* has no timeout of its own inside a roundtrip, so it may be held up      *)
(* anywhere for any time.  Sessions open at every tick and are billed      *)
(* beside them.                                                            *)
(***************************************************************************)
EXTENDS IdleTracker, Functions

CONSTANTS Window,       \* FIRST_CONNECT_WINDOW, in ticks
          SetupWatchdog,\* SETUP_WATCHDOG, in ticks
          Graces,       \* settings of the cutscene grace, in seconds
          Notifier,     \* versions of ext_idle_notifier_v1: "good" is 2 or above
          MaxStarts     \* bound: starts of the compositor

ASSUME SourcesAssumption ==
  /\ Window \in Nat /\ SetupWatchdog \in Nat /\ Window < SetupWatchdog
  /\ Graces \subseteq Nat /\ Notifier \subseteq {"old", "good"} /\ MaxStarts \in Nat

VARIABLES user,       \* whether there is input: "active" or "away"
          moved,      \* bound: the user came or went since the last tick
          compositor, \* what answers on the worker's socket
          starts,     \* how often the compositor has started
          worker,     \* where the worker thread is
          reported,   \* whether the worker has used up first_setup
          wire,       \* the worker's connection: "none", "up" or "broken"
          events,     \* notification events not dispatched yet
          idled,      \* whether the compositor's last event was Idled
          task,       \* where the async side is
          channel,    \* the oneshot the worker reports through
          missed,     \* history: a report arrived after the last look at the channel
          stray,      \* history: the worker wrote after the task had given up on it
          changed,    \* whether the stream of logind's IdleHint has a change to yield
          sessions    \* history: sessions that opened before or after each tick

socket == <<compositor, starts>>
environment == <<user, moved, socket>>
thread == <<worker, reported, wire, events, idled>>
async == <<task, channel, missed>>
vars == <<now, tracker, environment, thread, async, stray, changed, sessions>>

\* What a session that opens now, or just after the tick, takes with it.
SessionsOfTick ==
  {[start |-> now, base |-> SessionStartBaseline],
   [start |-> now + 1, base |-> SessionStartBaseline']}

TypeOK ==
  /\ TrackerTypeOK
  /\ user \in {"active", "away"} /\ changed \in BOOLEAN
  /\ compositor \in {"absent", "mute"} \cup Notifier /\ starts \in 0..MaxStarts
  /\ worker \in {"open", "registry", "arming", "report", "dispatch", "gone"}
  /\ wire \in {"none", "up", "broken"} /\ (worker = "dispatch" => reported)
  /\ events \in Seq({"Idled", "Resumed"}) /\ idled \in BOOLEAN
  /\ task \in {"waiting", "conceding", "wayland", "fallback", "logind", "off", "stopped"}
  /\ channel \in {"empty", "ok", "err", "closed"}
  /\ missed \in BOOLEAN /\ stray \in BOOLEAN /\ reported \in BOOLEAN /\ moved \in BOOLEAN
  /\ sessions \subseteq [start : 0..now, base : [count : 0..Len(closed), open : 0..MaxTime]]

Init ==
  /\ TrackerInit
  /\ user = "active" /\ moved = FALSE /\ compositor = "absent" /\ starts = 0
  /\ worker = "open" /\ reported = FALSE /\ wire = "none" /\ events = << >> /\ idled = FALSE
  /\ task = "waiting" /\ channel = "empty" /\ missed = FALSE
  /\ stray = FALSE /\ changed = FALSE /\ sessions = {}

-----------------------------------------------------------------------------
(* The environment. *)

Tick ==
  /\ now < MaxTime /\ now' = now + 1 /\ moved' = FALSE
  /\ UNCHANGED tracker /\ sessions' = sessions \cup SessionsOfTick
  /\ UNCHANGED <<user, compositor, starts, thread, async, stray, changed>>

(* Input comes or stops, and logind's hint follows.  A compositor with an  *)
(* armed notification reports the return at once.                          *)
UserMoves ==
  /\ ~moved /\ moved' = TRUE
  /\ user' = IF user = "away" THEN "active" ELSE "away"
  /\ IF user = "away" /\ idled /\ wire = "up"
     THEN events' = Append(events, "Resumed") /\ idled' = FALSE
     ELSE UNCHANGED <<events, idled>>
  /\ changed' = (changed \/ task = "logind")
  /\ UNCHANGED <<now, tracker, compositor, starts, worker, reported, wire,
                 async, stray, sessions>>

(* Input has been absent for the onset, which is a tick. *)
CompositorIdles ==
  /\ wire = "up" /\ worker \in {"arming", "report", "dispatch"} /\ ~idled
  /\ user = "away" /\ ~moved
  /\ events = << >>  \* bound: one absence on the wire at a time
  /\ events' = Append(events, "Idled") /\ idled' = TRUE
  /\ UNCHANGED <<now, tracker, environment, worker, reported, wire, async,
                 stray, changed, sessions>>

(* A socket accepts before its compositor serves it.                       *)
CompositorStarts ==
  /\ worker # "gone"
  /\ \/ /\ compositor = "absent" /\ starts < MaxStarts
        /\ compositor' = "mute" /\ starts' = starts + 1
     \/ compositor = "mute" /\ compositor' \in Notifier /\ UNCHANGED starts
  /\ UNCHANGED <<now, tracker, user, moved, thread, async, stray, changed, sessions>>

CompositorDies ==
  /\ worker # "gone" /\ compositor # "absent" /\ compositor' = "absent"
  /\ wire' = IF wire = "up" THEN "broken" ELSE wire
  /\ UNCHANGED <<now, tracker, user, moved, starts, worker, reported, events, idled,
                 async, stray, changed, sessions>>

-----------------------------------------------------------------------------
(* The worker thread. *)

\* The task has given up on the worker, and another source may be writing.
GivenUp == task \in {"fallback", "logind", "off"}

(* The connection is closed.  Without a worker the socket is of no more    *)
(* interest.                                                               *)
Hangs(state) ==
  /\ wire' = "none" /\ events' = << >> /\ idled' = FALSE /\ worker' = state
  /\ IF state = "gone" THEN compositor' = "absent" /\ starts' = 0
     ELSE UNCHANGED socket

OpenConnection ==
  /\ worker = "open" /\ compositor # "absent"
  /\ worker' = "registry" /\ wire' = "up"
  /\ UNCHANGED <<now, tracker, environment, reported, events, idled, async,
                 stray, changed, sessions>>

(* Both globals are there, and new enough: bind them, ask for the          *)
(* notification.                                                           *)
RegistryRoundtrip ==
  /\ worker = "registry" /\ wire = "up" /\ compositor = "good"
  /\ worker' = "arming"
  /\ UNCHANGED <<now, tracker, environment, reported, wire, events, idled, async,
                 stray, changed, sessions>>

ArmRoundtrip ==
  /\ worker = "arming" /\ wire = "up"
  /\ worker' = IF reported THEN "dispatch" ELSE "report"
  /\ UNCHANGED <<now, tracker, environment, reported, wire, events, idled, async,
                 stray, changed, sessions>>

(* A compositor that answers may not have registered its globals yet.      *)
Transient ==
  \/ worker = "open" /\ compositor = "absent"
  \/ worker = "registry" /\ (wire = "broken" \/ compositor \in Notifier)
  \/ worker = "arming" /\ wire = "broken"

Definitive == worker = "registry" /\ wire = "up" /\ compositor = "old"

(* A first attempt gives up on a definitive answer, or past the window;    *)
(* one that reconnects never does.  The backoff is the time until the next *)
(* attempt.                                                                *)
ConnectFails ==
  /\ Transient \/ Definitive
  /\ IF ~reported /\ (Definitive \/ now >= Window)
     THEN /\ Hangs("gone") /\ reported' = TRUE
          /\ channel' = IF channel = "empty" THEN "err" ELSE channel
     ELSE Hangs("open") /\ UNCHANGED <<reported, channel>>
  /\ UNCHANGED <<now, tracker, user, moved, task, missed, stray, changed, sessions>>

\* Plausible mistake: the result of the send is ignored.
SendUnheard ==
  /\ channel' = IF channel = "empty" THEN "ok" ELSE channel
  /\ missed' = (task = "conceding") /\ worker' = "dispatch"
  /\ UNCHANGED <<wire, events, idled, socket>>

(* A send finds the channel closed, or leaves its value there whether or   *)
(* not anybody looks again.                                                *)
Send ==
  IF channel = "closed" THEN Hangs("gone") /\ UNCHANGED <<channel, missed>>
  ELSE /\ channel' = "ok" /\ missed' = (task = "conceding") /\ worker' = "dispatch"
       /\ UNCHANGED <<wire, events, idled, socket>>

\* Plausible mistake: the sender is not used up.
ReportAgain ==
  /\ worker = "report" /\ Send
  /\ UNCHANGED <<now, tracker, user, moved, reported, task, stray, changed, sessions>>

Report ==
  /\ worker = "report" /\ Send /\ reported' = TRUE
  /\ UNCHANGED <<now, tracker, user, moved, task, stray, changed, sessions>>

(* handle_notification_event, in blocking_dispatch, or already at the end  *)
(* of connect, of events read together with the answer to its roundtrip.   *)
Dispatch ==
  /\ worker \in {"report", "dispatch"} /\ events # << >>
  /\ SetIdle(Head(events) = "Idled") /\ events' = Tail(events)
  /\ stray' = (stray \/ GivenUp)
  /\ UNCHANGED <<now, environment, worker, reported, wire, idled, async, changed, sessions>>

\* Plausible mistake: the open interval is left to the next connection.
LeaveOpen == UNCHANGED tracker

\* The resume can no longer be observed.
Seal == SetIdle(FALSE)

(* The connection is gone, or broke the protocol: seal, then reconnect, or *)
(* end.                                                                    *)
DispatchFails ==
  /\ worker = "dispatch" /\ events = << >> /\ Seal
  /\ \/ wire = "broken" /\ Hangs("open")
     \/ Hangs("gone")
  /\ stray' = (stray \/ GivenUp)
  /\ UNCHANGED <<now, user, moved, reported, async, changed, sessions>>

-----------------------------------------------------------------------------
(* The task: run_watcher of idle_wayland.rs, then run_watcher of idle.rs.  *)

HearReport ==
  /\ task = "waiting" /\ channel \in {"ok", "err"}
  /\ task' = IF channel = "ok" THEN "wayland" ELSE "fallback"
  /\ channel' = "closed"
  /\ UNCHANGED <<now, tracker, environment, thread, missed, stray, changed, sessions>>

\* Plausible mistake: the worker is trusted to report.
NoWatchdog == FALSE

WatchdogElapsed == now >= SetupWatchdog

(* The select looks at the channel, finds it empty and the sleep elapsed;  *)
(* the receiver is dropped only when the select is left.                   *)
WatchdogFires ==
  /\ task = "waiting" /\ channel = "empty" /\ WatchdogElapsed
  /\ task' = "conceding"
  /\ UNCHANGED <<now, tracker, environment, thread, channel, missed, stray, changed, sessions>>

DropReceiver ==
  /\ task = "conceding" /\ task' = "fallback" /\ channel' = "closed"
  /\ UNCHANGED <<now, tracker, environment, thread, missed, stray, changed, sessions>>

(* No system bus, no session of the user's, or no proxy: tracking is off.  *)
NoLogind ==
  /\ task = "fallback" /\ task' = "off"
  /\ UNCHANGED <<now, tracker, environment, thread, channel, missed, stray, changed, sessions>>

(* The hint is read, FALSE when it cannot be; the stream of its changes    *)
(* begins with what it is.                                                 *)
StartLogind ==
  /\ task = "fallback" /\ task' = "logind" /\ changed' = TRUE
  /\ \E idle \in {user = "away", FALSE} : SetIdle(idle)
  /\ UNCHANGED <<now, environment, thread, channel, missed, stray, sessions>>

HearHint ==
  /\ task = "logind" /\ changed /\ changed' = FALSE
  /\ \E idle \in {user = "away", FALSE} : SetIdle(idle)
  /\ UNCHANGED <<now, environment, thread, async, stray, sessions>>

StreamEnds ==
  /\ task = "logind" /\ task' = "off"
  /\ UNCHANGED <<now, tracker, environment, thread, channel, missed, stray, changed, sessions>>

(* The thread goes on until the process exits, soon after.                 *)
Shutdown ==
  /\ task \in {"waiting", "wayland", "logind"} /\ task' = "stopped" /\ channel' = "closed"
  /\ UNCHANGED <<now, tracker, environment, thread, missed, stray, changed, sessions>>

-----------------------------------------------------------------------------
Environment ==
  \/ Tick \/ UserMoves \/ CompositorIdles \/ CompositorStarts \/ CompositorDies

Worker ==
  \/ OpenConnection \/ RegistryRoundtrip \/ ArmRoundtrip \/ ConnectFails
  \/ Report \/ Dispatch \/ DispatchFails

Task ==
  \/ HearReport \/ WatchdogFires \/ DropReceiver \/ NoLogind \/ StartLogind
  \/ HearHint \/ StreamEnds \/ Shutdown

Next == task # "stopped" /\ (Environment \/ Worker \/ Task)

(* What the async runtime and its timers owe; the thread owes nothing.     *)
Fairness ==
  /\ WF_vars(Tick) /\ WF_vars(HearReport)
  /\ WF_vars(WatchdogFires) /\ WF_vars(DropReceiver)

Spec == Init /\ [][Next]_vars /\ Fairness

-----------------------------------------------------------------------------
(* Correctness. *)

\* Every stretch the tracker called idle, the open one up to now.
Stretches == Range(spans) \cup (IF since = Never THEN {} ELSE {<<since, now>>})

(* The idle ticks that lie past the grace of their stretch. *)
PastGrace(grace) == UNION {(s[1] + grace * Second)..(s[2] - 1) : s \in Stretches}

(* A session is billed the idle time that passed during it and past the    *)
(* grace of each absence, whatever absences it began or ended in: never    *)
(* more than a second too much, however many they were, and at most a      *)
(* second too little for each: billable_idle_seconds_since.                *)
BillsItsOwnIdleTime ==
  \A grace \in Graces : LET idle == PastGrace(grace) IN \A s \in sessions :
    LET billed == Second * BillableIdleSecondsSince(s.base, grace)
        exact == Cardinality({t \in idle : t >= s.start})
        new == Len(Intervals) - s.base.count
    IN  /\ billed <= exact + (Second - 1)
        /\ exact <= billed + new * (Second - 1)

(* The Wayland worker and the logind watcher never drive the tracker       *)
(* together, unless the worker's report arrived after the last look at the *)
(* channel and before the receiver was dropped.                            *)
OneSourceServes == worker = "dispatch" /\ task \in {"fallback", "logind"} => missed

(* While the tracker has an interval open and the user is back, something  *)
(* that will seal it is still on its way: no resume is lost to a           *)
(* reconnection, a roundtrip or the change of sources.                     *)
NoResumeIsLost ==
  since # Never /\ user = "active" /\ ~stray =>
    \/ "Resumed" \in Range(events) \/ wire = "broken"
    \/ task = "logind" /\ changed
    \/ task \in {"fallback", "off", "stopped"}

(* A worker stuck in a roundtrip never leaves the daemon without a         *)
(* decision on its idle source: SETUP_WATCHDOG.                            *)
SetupSettles == task = "waiting" ~> task \in {"wayland", "fallback", "stopped"}
=============================================================================
