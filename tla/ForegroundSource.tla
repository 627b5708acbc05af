-------------------------- MODULE ForegroundSource --------------------------
(***************************************************************************)
(* The KWin foreground source (crates/ludex-daemon/src/sources/kwin and    *)
(* proc/pidfd.rs): windows become active, processes exit, a grace timer    *)
(* runs, and one task turns all of it into Started and Stopped events.     *)
(*                                                                         *)
(* The task's select is biased: exits first, then the timer, then          *)
(* activations.  A handler is several steps, for it awaits the gate and    *)
(* the event channel, and processes exit and settings change meanwhile.    *)
(* Whether the gate takes a live process for a game may vary from one      *)
(* activation to the next (GPU memory, fullscreen); the key it attributes  *)
(* does not.  A process id is not reused.  Display names and executable    *)
(* paths only ride along and are left out.                                 *)
(***************************************************************************)
EXTENDS Integers, Sequences, FiniteSetsExt

CONSTANTS Pid,            \* processes that own windows
          OwnPid,         \* the daemon's own process
          GamePid,        \* those the gate may take for a game
          Key,            \* game identities
          KeyOf,          \* native_key: the identity of each game process
          PauseSettings,  \* values pause_when_backgrounded takes
          MaxQueue,       \* bound: activations waiting
          MaxWatchers     \* bound: watchers told apart on one process

ASSUME SourceAssumption ==
  /\ OwnPid \in Pid /\ GamePid \subseteq Pid \ {OwnPid}
  /\ KeyOf \in [GamePid -> Key]
  /\ PauseSettings \subseteq BOOLEAN /\ PauseSettings # {}
  /\ MaxQueue \in Nat /\ MaxWatchers \in Nat \ {0}

VARIABLES alive,        \* processes running
          activations,  \* the channel from the D-Bus handler
          exits,        \* the channel from the pidfd watchers
          watchers,     \* how many watchers wait on each process
          pause,        \* the shared config's pause_when_backgrounded
          task,         \* where the source's task is
          fg,           \* FgState
          timer,        \* the grace timer
          balance       \* per key, Started less Stopped events ever sent

vars == <<alive, activations, exits, watchers, pause, task, fg, timer, balance>>

NotTracked == [mode |-> "NotTracked"]

Tracked(p) == [mode |-> "Tracked", pid |-> p, key |-> KeyOf[p]]

Backgrounded(p) == [mode |-> "TrackedBackgrounded", pid |-> p, key |-> KeyOf[p]]

FgState == {NotTracked} \cup {Tracked(p) : p \in GamePid} \cup {Backgrounded(p) : p \in GamePid}

(* FgState::current, as the set of what it borrows. *)
Current(state) == IF state.mode = "NotTracked" THEN {} ELSE {state.pid}

StartEvent(p) == [kind |-> "Start", pid |-> p, key |-> KeyOf[p]]

StopEvent(state) == [kind |-> "Stop", key |-> state.key]

Outcome(events, state, op) == [events |-> events, state |-> state, timer |-> op]

Noop(state) == Outcome(<< >>, state, "NoChange")

-----------------------------------------------------------------------------
(* transition.rs: the pure functions. *)

(* A plausible mistake: the game left behind is not stopped. *)
SwitchWithoutStop(state, p) ==
  Outcome(<<StartEvent(p)>>, Tracked(p),
          IF state.mode = "TrackedBackgrounded" THEN "Cancel" ELSE "NoChange")

(* An accepted window that is not the one tracked. *)
SwitchTo(state, p) ==
  Outcome((IF state.mode = "NotTracked" THEN << >> ELSE <<StopEvent(state)>>)
            \o <<StartEvent(p)>>,
          Tracked(p),
          IF state.mode = "TrackedBackgrounded" THEN "Cancel" ELSE "NoChange")

(* A window that is no game takes the foreground. *)
LoseForeground(state, paused) ==
  IF state.mode = "Tracked" /\ paused
  THEN Outcome(<< >>, Backgrounded(state.pid), "Start")
  ELSE Noop(state)

(* next_action, for an activation of p that the gate accepts or not. *)
NextAction(state, p, accepted, paused) ==
  IF p \in Current(state)
  THEN IF state.mode = "TrackedBackgrounded"
       THEN Outcome(<< >>, Tracked(p), "Cancel") ELSE Noop(state)
  ELSE IF accepted THEN SwitchTo(state, p)
  ELSE LoseForeground(state, paused)

(* A plausible mistake: a leftover timer changes nothing. *)
TimeoutForgets(state, paused) ==
  IF state.mode = "TrackedBackgrounded" /\ paused
  THEN Outcome(<<StopEvent(state)>>, NotTracked, "NoChange")
  ELSE Noop(state)

OnGraceTimeout(state, paused) ==
  CASE state.mode # "TrackedBackgrounded" -> Noop(state)
    [] state.mode = "TrackedBackgrounded" /\ paused ->
         Outcome(<<StopEvent(state)>>, NotTracked, "NoChange")
    [] OTHER -> Outcome(<< >>, Tracked(state.pid), "NoChange")

(* Plausible mistakes: an exit leaves the timer running, or counts only    *)
(* while the game is in front.                                             *)
ExitKeepsTimer(state, p) ==
  IF p \in Current(state)
  THEN Outcome(<<StopEvent(state)>>, NotTracked, "NoChange")
  ELSE Noop(state)

ExitInFrontOnly(state, p) ==
  IF state.mode = "Tracked" /\ p \in Current(state)
  THEN Outcome(<<StopEvent(state)>>, NotTracked, "Cancel")
  ELSE Noop(state)

OnTrackedExit(state, p) ==
  IF p \in Current(state)
  THEN Outcome(<<StopEvent(state)>>, NotTracked, "Cancel")
  ELSE Noop(state)

-----------------------------------------------------------------------------
Idle == [at |-> "select"]

Decided(p, gate) == [at |-> "decided", pid |-> p, gate |-> gate]

Applying(outcome) == [at |-> "apply", outcome |-> outcome]

Init ==
  /\ alive = Pid /\ activations = << >> /\ exits = << >>
  /\ watchers = [p \in Pid |-> 0]
  /\ pause \in PauseSettings
  /\ task = Idle /\ fg = NotTracked /\ timer = "off"
  /\ balance = [k \in Key |-> 0]

-----------------------------------------------------------------------------
(* The desktop, the kernel and the settings. *)

(* A window of p becomes active and the KWin script reports it. *)
Activate(p) ==
  /\ p \in alive /\ Len(activations) < MaxQueue
  /\ activations' = Append(activations, p)
  /\ UNCHANGED <<alive, exits, watchers, pause, task, fg, timer, balance>>

ProcessExits(p) ==
  /\ p \in alive \ {OwnPid}
  /\ alive' = alive \ {p}
  /\ UNCHANGED <<activations, exits, watchers, pause, task, fg, timer, balance>>

(* The task pidfd::watch spawned: the descriptor became readable. *)
WatcherFires(p) ==
  /\ p \notin alive /\ watchers[p] > 0
  /\ watchers' = [watchers EXCEPT ![p] = @ - 1]
  /\ exits' = Append(exits, p)
  /\ UNCHANGED <<alive, activations, pause, task, fg, timer, balance>>

(* The D-Bus setter of pause_when_backgrounded. *)
SetPause ==
  /\ pause' \in PauseSettings \ {pause}
  /\ UNCHANGED <<alive, activations, exits, watchers, task, fg, timer, balance>>

GraceElapses ==
  /\ timer = "running"
  /\ timer' = "due"
  /\ UNCHANGED <<alive, activations, exits, watchers, pause, task, fg, balance>>

-----------------------------------------------------------------------------
(* The source's task. *)

TakeExit ==
  /\ task = Idle /\ exits # << >>
  /\ exits' = Tail(exits)
  /\ task' = Applying(OnTrackedExit(fg, Head(exits)))
  /\ UNCHANGED <<alive, activations, watchers, pause, fg, timer, balance>>

TakeTimeout ==
  /\ task = Idle /\ exits = << >> /\ timer = "due"
  /\ timer' = "off"
  /\ task' = Applying(OnGraceTimeout(fg, pause))
  /\ UNCHANGED <<alive, activations, exits, watchers, pause, fg, balance>>

(* handle_activation up to the gate's answer: a process that is gone has   *)
(* no executable to read and is rejected.                                  *)
TakeActivation ==
  /\ task = Idle /\ exits = << >> /\ timer # "due" /\ activations # << >>
  /\ activations' = Tail(activations)
  /\ LET p == Head(activations)
     IN  IF p = OwnPid THEN task' = Idle
         ELSE \E gate \in {"reject"} \cup (IF p \in GamePid \cap alive THEN {"accept"} ELSE {}) :
                task' = Decided(p, gate)
  /\ UNCHANGED <<alive, exits, watchers, pause, fg, timer, balance>>

(* The rest of it, with the setting as it is by then. *)
Decide ==
  /\ task.at = "decided"
  /\ task' = Applying(NextAction(fg, task.pid, task.gate = "accept", pause))
  /\ UNCHANGED <<alive, activations, exits, watchers, pause, fg, timer, balance>>

Counted(event) ==
  balance' = [balance EXCEPT ![event.key] = IF event.kind = "Start" THEN @ + 1 ELSE @ - 1]

(* One event of apply_outcome enters the channel.  After a Started the     *)
(* process gets its watcher, unless pidfd_open fails, as it must on one    *)
(* that is gone: that error is dropped.                                    *)
SendEvent ==
  LET outcome == task.outcome
      event == Head(outcome.events)
  IN  /\ task.at = "apply" /\ outcome.events # << >>
      /\ Counted(event)
      /\ \/ /\ event.kind = "Start" /\ event.pid \in alive
            /\ watchers' = [watchers EXCEPT ![event.pid] = Min({@ + 1, MaxWatchers})]
         \/ UNCHANGED watchers
      /\ task' = Applying(Outcome(Tail(outcome.events), outcome.state, outcome.timer))
      /\ UNCHANGED <<alive, activations, exits, pause, fg, timer>>

FinishOutcome ==
  /\ task.at = "apply" /\ task.outcome.events = << >>
  /\ fg' = task.outcome.state
  /\ timer' = CASE task.outcome.timer = "NoChange" -> timer
                [] task.outcome.timer = "Start" -> "running"
                [] task.outcome.timer = "Cancel" -> "off"
  /\ task' = Idle
  /\ UNCHANGED <<alive, activations, exits, watchers, pause, balance>>

(* Shutdown, wherever the loop is free to see it: the game still tracked   *)
(* gets its Stopped.                                                       *)
Shutdown ==
  /\ task = Idle
  /\ task' = [at |-> "done"]
  /\ fg' = NotTracked
  /\ IF fg = NotTracked THEN UNCHANGED balance ELSE Counted(StopEvent(fg))
  /\ UNCHANGED <<alive, activations, exits, watchers, pause, timer>>

-----------------------------------------------------------------------------
Loop == TakeExit \/ TakeTimeout \/ TakeActivation \/ Decide \/ SendEvent \/ FinishOutcome

Next ==
  \/ \E p \in Pid : Activate(p) \/ ProcessExits(p) \/ WatcherFires(p)
  \/ SetPause
  \/ GraceElapses
  \/ Loop
  \/ Shutdown

(* Fairness: tokio runs the task and the watchers, the manager drains the  *)
(* event channel, time passes.  Users and processes owe nothing.           *)
Fairness ==
  /\ WF_vars(Loop)
  /\ WF_vars(GraceElapses)
  /\ \A p \in Pid : WF_vars(WatcherFires(p))

Spec == Init /\ [][Next]_vars /\ Fairness

-----------------------------------------------------------------------------
(* Properties. *)

Event == [kind : {"Start"}, pid : GamePid, key : Key] \cup [kind : {"Stop"}, key : Key]

Outcomes == [events : Seq(Event), state : FgState, timer : {"NoChange", "Start", "Cancel"}]

TypeOK ==
  /\ alive \subseteq Pid /\ pause \in PauseSettings
  /\ activations \in Seq(Pid) /\ exits \in Seq(Pid)
  /\ watchers \in [Pid -> 0..MaxWatchers]
  /\ fg \in FgState /\ timer \in {"off", "running", "due"}
  /\ \/ task \in {Idle, [at |-> "done"]}
     \/ task \in [at : {"decided"}, pid : Pid \ {OwnPid}, gate : {"accept", "reject"}]
     \/ task \in [at : {"apply"}, outcome : Outcomes]
  /\ balance \in [Key -> 0..1]

(* What the channel was told is what the source tracks: between handlers,  *)
(* exactly the tracked game has a Started without its Stopped.  A game is  *)
(* never started twice, stopped twice, or left open behind another.        *)
ToldWhatIsTracked ==
  task.at \in {"select", "decided", "done"} =>
    \A k \in Key : balance[k] = (IF fg # NotTracked /\ fg.key = k THEN 1 ELSE 0)

(* Between handlers a grace timer is armed exactly while a game is in the  *)
(* background, so that no stale timer cuts a later absence short and none  *)
(* is missing.                                                             *)
TimerIffBackgrounded ==
  task.at = "select" => (timer # "off" <=> fg.mode = "TrackedBackgrounded")

Tracks(p) == fg # NotTracked /\ fg.pid = p

(* Word of p's exit is on its way. *)
ExitAnnounced(p) == watchers[p] > 0 \/ \E i \in 1..Len(exits) : exits[i] = p

(* "Catch the case where a game process exits without the foreground       *)
(* changing" (pidfd.rs): a tracked process that is watched and exits is    *)
(* let go, whatever is in front and whatever the settings.                 *)
WatchedExitStops ==
  \A p \in GamePid : (Tracks(p) /\ p \notin alive /\ ExitAnnounced(p)) ~> ~ Tracks(p)

(* A game in the background does not stay there: it comes back, ends, or   *)
(* the grace period ends it.                                               *)
BackgroundIsTransient ==
  (fg.mode = "TrackedBackgrounded") ~> (fg.mode # "TrackedBackgrounded")

=============================================================================
