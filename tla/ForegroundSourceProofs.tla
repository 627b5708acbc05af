------------------------ MODULE ForegroundSourceProofs ------------------------
(***************************************************************************)
(* What holds of the KWin source for any processes, keys and settings, and *)
(* queues of any length.                                                   *)
(***************************************************************************)
EXTENDS ForegroundSource, SequenceTheorems, TLAPS

USE SourceAssumption

-----------------------------------------------------------------------------
(* The inductive invariant. *)

(* What a channel that was told of `state' and nothing else has been told. *)
Told(state) == [k \in Key |-> IF state # NotTracked /\ state.key = k THEN 1 ELSE 0]

InBackground(state) == state.mode = "TrackedBackgrounded"

TimerFits(state) == timer # "off" <=> InBackground(state)

(* The events left to send take the channel from what it was told to the   *)
(* next state, and the timer operation takes the timer there.              *)
EventsFit(events, state) ==
  \/ events = << >> /\ balance = Told(state)
  \/ \E p \in GamePid :
       events = <<StartEvent(p)>> /\ balance = Told(NotTracked) /\ state = Tracked(p)
  \/ \E left \in FgState \ {NotTracked} :
       events = <<StopEvent(left)>> /\ balance = Told(left) /\ state = NotTracked
  \/ \E left \in FgState \ {NotTracked}, p \in GamePid :
       /\ events = <<StopEvent(left), StartEvent(p)>>
       /\ balance = Told(left) /\ state = Tracked(p)

OperationFits(op, state) ==
  /\ op = "NoChange" => TimerFits(state)
  /\ op = "Start" => InBackground(state)
  /\ op = "Cancel" => ~ InBackground(state)

Operation == {"NoChange", "Start", "Cancel"}

Pending(o) ==
  \E events \in Seq(Event), state \in FgState, op \in Operation :
    o = Outcome(events, state, op) /\ EventsFit(events, state) /\ OperationFits(op, state)

WorldOK ==
  /\ alive \subseteq Pid /\ pause \in PauseSettings
  /\ activations \in Seq(Pid) /\ exits \in Seq(Pid)
  /\ watchers \in [Pid -> 0..MaxWatchers]
  /\ fg \in FgState /\ timer \in {"off", "running", "due"}

Settled == balance = Told(fg) /\ TimerFits(fg)

TaskOK ==
  \/ task = Idle /\ Settled
  \/ \E p \in Pid \ {OwnPid}, gate \in {"accept", "reject"} :
       task = Decided(p, gate) /\ (gate = "accept" => p \in GamePid) /\ Settled
  \/ \E o : task = Applying(o) /\ Pending(o)
  \/ task = [at |-> "done"] /\ balance = Told(fg)

IInv == WorldOK /\ TaskOK

-----------------------------------------------------------------------------
(* Lemmas about states and events. *)

LEMMA StatesOf ==
  ASSUME NEW state \in FgState
  PROVE  \/ state = NotTracked
         \/ \E p \in GamePid : state = Tracked(p) \/ state = Backgrounded(p)
  BY DEF FgState

LEMMA StateFacts ==
  /\ NotTracked \in FgState /\ ~ InBackground(NotTracked) /\ Current(NotTracked) = {}
  /\ \A p \in GamePid :
       /\ KeyOf[p] \in Key
       /\ Tracked(p) \in FgState /\ Tracked(p) # NotTracked
       /\ Tracked(p).key = KeyOf[p] /\ Tracked(p).pid = p /\ ~ InBackground(Tracked(p))
       /\ Tracked(p).mode = "Tracked"
       /\ Backgrounded(p) \in FgState /\ Backgrounded(p) # NotTracked
       /\ Backgrounded(p).key = KeyOf[p] /\ Backgrounded(p).pid = p
       /\ InBackground(Backgrounded(p))
  <1>1. NotTracked \in FgState /\ ~ InBackground(NotTracked) /\ Current(NotTracked) = {}
    BY DEF FgState, NotTracked, InBackground, Current
  <1>2. ASSUME NEW p \in GamePid
        PROVE  /\ KeyOf[p] \in Key
               /\ Tracked(p) \in FgState /\ Backgrounded(p) \in FgState
    BY DEF FgState
  <1>3. ASSUME NEW p \in GamePid
        PROVE  /\ Tracked(p).key = KeyOf[p] /\ Tracked(p).pid = p /\ ~ InBackground(Tracked(p))
               /\ Backgrounded(p).key = KeyOf[p] /\ Backgrounded(p).pid = p
               /\ InBackground(Backgrounded(p)) /\ Tracked(p).mode = "Tracked"
    BY DEF Tracked, Backgrounded, InBackground
  <1>4. ASSUME NEW p \in GamePid
        PROVE  Tracked(p) # NotTracked /\ Backgrounded(p) # NotTracked
    <2>1. NotTracked.mode = "NotTracked"
      BY DEF NotTracked
    <2>2. Tracked(p).mode = "Tracked" /\ Backgrounded(p).mode = "TrackedBackgrounded"
      BY DEF Tracked, Backgrounded
    <2> QED
      BY <2>1, <2>2
  <1> QED
    BY <1>1, <1>2, <1>3, <1>4

LEMMA TrackedFacts ==
  ASSUME NEW state \in FgState, state # NotTracked
  PROVE  /\ state.pid \in GamePid /\ state.key = KeyOf[state.pid] /\ state.key \in Key
         /\ state.mode # "NotTracked" /\ Current(state) = {state.pid}
         /\ StopEvent(state) \in Event
  <1>1. PICK p \in GamePid : state = Tracked(p) \/ state = Backgrounded(p)
    BY StatesOf
  <1>2. state.pid = p /\ state.key = KeyOf[p] /\ KeyOf[p] \in Key
    BY <1>1, StateFacts
  <1>3. state.mode # "NotTracked"
    BY <1>1 DEF Tracked, Backgrounded
  <1>4. Current(state) = {state.pid}
    BY <1>3 DEF Current
  <1>5. StopEvent(state) \in Event
    BY <1>2 DEF StopEvent, Event
  <1> QED
    BY <1>2, <1>3, <1>4, <1>5

LEMMA ModeTells ==
  ASSUME NEW state \in FgState
  PROVE  /\ state.mode = "NotTracked" <=> state = NotTracked
         /\ InBackground(state) => state = Backgrounded(state.pid)
  <1>1. CASE state = NotTracked
    BY <1>1, StateFacts DEF NotTracked, InBackground
  <1>2. ASSUME NEW p \in GamePid, state = Tracked(p) PROVE state.mode = "Tracked"
    BY <1>2 DEF Tracked
  <1>3. ASSUME NEW p \in GamePid, state = Backgrounded(p)
        PROVE  state.mode = "TrackedBackgrounded" /\ state.pid = p
    BY <1>3 DEF Backgrounded
  <1> QED
    BY <1>1, <1>2, <1>3, StatesOf, TrackedFacts, StateFacts DEF InBackground

LEMMA StartIsEvent ==
  ASSUME NEW p \in GamePid
  PROVE  /\ StartEvent(p) \in Event /\ StartEvent(p).key = KeyOf[p]
         /\ StartEvent(p).kind = "Start" /\ StartEvent(p).pid = p
  BY DEF StartEvent, Event

LEMMA StopIsEvent ==
  ASSUME NEW state
  PROVE  StopEvent(state).kind = "Stop" /\ StopEvent(state).key = state.key
  BY DEF StopEvent

(* One event takes the balance from one game to the other. *)
LEMMA BalanceFacts ==
         /\ Told(NotTracked) = [k \in Key |-> 0]
         /\ \A state \in FgState : Told(state) \in [Key -> 0..1]
         /\ \A left \in FgState \ {NotTracked} :
              [Told(left) EXCEPT ![left.key] = @ - 1] = Told(NotTracked)
         /\ \A p \in GamePid :
              [Told(NotTracked) EXCEPT ![KeyOf[p]] = @ + 1] = Told(Tracked(p))
  <1>1. Told(NotTracked) = [k \in Key |-> 0]
    BY DEF Told
  <1>2. \A state \in FgState : Told(state) \in [Key -> 0..1]
    BY DEF Told
  <1>3. ASSUME NEW left \in FgState \ {NotTracked}
        PROVE  [Told(left) EXCEPT ![left.key] = @ - 1] = Told(NotTracked)
    <2>1. left.key \in Key
      BY TrackedFacts
    <2> QED
      BY <1>1, <2>1 DEF Told
  <1>4. ASSUME NEW p \in GamePid
        PROVE  [Told(NotTracked) EXCEPT ![KeyOf[p]] = @ + 1] = Told(Tracked(p))
    <2>1. Tracked(p) # NotTracked /\ Tracked(p).key = KeyOf[p]
      BY StateFacts
    <2> QED
      BY <1>1, <2>1 DEF Told
  <1> QED
    BY <1>1, <1>2, <1>3, <1>4

LEMMA PairFacts ==
  ASSUME NEW x, NEW y
  PROVE  /\ << >> \o <<y>> = <<y>> /\ <<x>> \o <<y>> = <<x, y>>
         /\ Head(<<x>>) = x /\ Tail(<<x>>) = << >>
         /\ Head(<<x, y>>) = x /\ Tail(<<x, y>>) = <<y>>
         /\ <<x>> # << >> /\ <<x, y>> # << >>
  <1> DEFINE S == {x, y}
  <1>1. <<x>> \in Seq(S) /\ <<y>> \in Seq(S) /\ <<x, y>> \in Seq(S)
    OBVIOUS
  <1>2. << >> \o <<y>> = <<y>>
    BY <1>1, EmptySeq, ConcatEmptySeq
  <1>3. <<x>> \o <<y>> = <<x, y>>
    <2>1. <<x>> \o <<y>> \in Seq(S) /\ Len(<<x>> \o <<y>>) = 2 /\ Len(<<x, y>>) = 2
      BY <1>1
    <2>2. \A i \in 1..2 : (<<x>> \o <<y>>)[i] = <<x, y>>[i]
      BY <1>1
    <2> QED
      BY <1>1, <2>1, <2>2, SeqEqual
  <1>4. Head(<<x>>) = x /\ Head(<<x, y>>) = x /\ <<x>> # << >> /\ <<x, y>> # << >>
    OBVIOUS
  <1>5. Tail(<<x>>) = << >>
    OBVIOUS
  <1>6. Tail(<<x, y>>) = <<y>>
    OBVIOUS
  <1> QED
    BY <1>2, <1>3, <1>4, <1>5, <1>6
-----------------------------------------------------------------------------
(* The transitions: what they make of a settled state is pending. *)

LEMMA NoopPends ==
  ASSUME WorldOK, Settled
  PROVE  Pending(Noop(fg))
  <1>1. << >> \in Seq(Event)
    OBVIOUS
  <1>2. EventsFit(<< >>, fg) /\ OperationFits("NoChange", fg)
    BY DEF Settled, EventsFit, OperationFits
  <1> QED
    BY <1>1, <1>2 DEF Pending, Noop, WorldOK, Operation

LEMMA StopPends ==
  ASSUME WorldOK, Settled, fg # NotTracked, NEW op \in Operation, OperationFits(op, NotTracked)
  PROVE  Pending(Outcome(<<StopEvent(fg)>>, NotTracked, op))
  <1>1. <<StopEvent(fg)>> \in Seq(Event) /\ NotTracked \in FgState
    BY TrackedFacts, StateFacts DEF WorldOK
  <1>2. EventsFit(<<StopEvent(fg)>>, NotTracked)
    BY DEF EventsFit, Settled, WorldOK
  <1> QED
    BY <1>1, <1>2 DEF Pending

LEMMA MovePends ==
  ASSUME WorldOK, Settled, fg # NotTracked, NEW state \in FgState, state # NotTracked,
         state.key = fg.key, NEW op \in Operation, OperationFits(op, state)
  PROVE  Pending(Outcome(<< >>, state, op))
  <1>1. << >> \in Seq(Event)
    OBVIOUS
  <1>2. Told(state) = Told(fg)
    BY DEF Told
  <1>3. EventsFit(<< >>, state)
    BY <1>2 DEF EventsFit, Settled
  <1> QED
    BY <1>1, <1>3 DEF Pending

LEMMA SwitchPends ==
  ASSUME WorldOK, Settled, NEW p \in GamePid
  PROVE  Pending(SwitchTo(fg, p))
  <1> DEFINE op == IF fg.mode = "TrackedBackgrounded" THEN "Cancel" ELSE "NoChange"
  <1>1. fg \in FgState /\ Tracked(p) \in FgState /\ ~ InBackground(Tracked(p))
    BY StateFacts DEF WorldOK
  <1>2. op \in Operation /\ OperationFits(op, Tracked(p))
    BY <1>1 DEF Operation, OperationFits, Settled, TimerFits, InBackground
  <1> HIDE DEF op
  <1>3. StartEvent(p) \in Event
    BY StartIsEvent
  <1>4. CASE fg = NotTracked
    <2>1. SwitchTo(fg, p) = Outcome(<<StartEvent(p)>>, Tracked(p), op)
      BY <1>1, <1>4, ModeTells, PairFacts DEF SwitchTo, op
    <2>2. EventsFit(<<StartEvent(p)>>, Tracked(p))
      BY <1>4 DEF EventsFit, Settled
    <2>3. <<StartEvent(p)>> \in Seq(Event)
      BY <1>3
    <2> QED
      BY <1>1, <1>2, <2>1, <2>2, <2>3 DEF Pending
  <1>5. CASE fg # NotTracked
    <2>1. SwitchTo(fg, p) = Outcome(<<StopEvent(fg), StartEvent(p)>>, Tracked(p), op)
      BY <1>1, <1>5, ModeTells, PairFacts DEF SwitchTo, op
    <2>2. EventsFit(<<StopEvent(fg), StartEvent(p)>>, Tracked(p))
      BY <1>1, <1>5 DEF EventsFit, Settled
    <2>3. StopEvent(fg) \in Event
      BY <1>1, <1>5, TrackedFacts
    <2>4. <<StopEvent(fg), StartEvent(p)>> \in Seq(Event)
      BY <1>3, <2>3
    <2> QED
      BY <1>1, <1>2, <2>1, <2>2, <2>4 DEF Pending
  <1> QED
    BY <1>4, <1>5

LEMMA ActivationPends ==
  ASSUME WorldOK, Settled, NEW p \in Pid, NEW accepted, NEW paused, accepted => p \in GamePid
  PROVE  Pending(NextAction(fg, p, accepted, paused))
  <1>1. fg \in FgState
    BY DEF WorldOK
  <1>2. CASE p \in Current(fg) /\ InBackground(fg)
    <2>1. fg # NotTracked /\ fg.pid = p /\ p \in GamePid /\ fg.key = KeyOf[p]
      BY <1>1, <1>2, StateFacts, TrackedFacts
    <2>2. OperationFits("Cancel", Tracked(p)) /\ "Cancel" \in Operation
      BY <2>1, StateFacts DEF OperationFits, Operation
    <2>3. Pending(Outcome(<< >>, Tracked(p), "Cancel"))
      BY <2>1, <2>2, StateFacts, MovePends
    <2> QED
      BY <1>2, <2>3 DEF NextAction, InBackground
  <1>3. CASE p \in Current(fg) /\ ~ InBackground(fg)
    BY <1>3, NoopPends DEF NextAction, InBackground
  <1>4. CASE p \notin Current(fg) /\ accepted
    BY <1>4, SwitchPends DEF NextAction
  <1>5. CASE p \notin Current(fg) /\ ~ accepted
    <2>1. CASE fg.mode = "Tracked" /\ paused
      <3>1. fg # NotTracked /\ fg.pid \in GamePid /\ fg.key = KeyOf[fg.pid]
        BY <1>1, <2>1, ModeTells, TrackedFacts
      <3>2. OperationFits("Start", Backgrounded(fg.pid)) /\ "Start" \in Operation
        BY <3>1, StateFacts DEF OperationFits, Operation
      <3>3. Pending(Outcome(<< >>, Backgrounded(fg.pid), "Start"))
        BY <3>1, <3>2, StateFacts, MovePends
      <3> QED
        BY <1>5, <2>1, <3>3 DEF NextAction, LoseForeground
    <2>2. CASE ~ (fg.mode = "Tracked" /\ paused)
      BY <1>5, <2>2, NoopPends DEF NextAction, LoseForeground
    <2> QED
      BY <2>1, <2>2
  <1> QED
    BY <1>2, <1>3, <1>4, <1>5

LEMMA ExitPends ==
  ASSUME WorldOK, Settled, NEW p
  PROVE  Pending(OnTrackedExit(fg, p))
  <1>1. CASE p \in Current(fg)
    <2>1. fg # NotTracked
      BY <1>1, StateFacts
    <2>2. "Cancel" \in Operation /\ OperationFits("Cancel", NotTracked)
      BY StateFacts DEF Operation, OperationFits
    <2> QED
      BY <1>1, <2>1, <2>2, StopPends DEF OnTrackedExit
  <1>2. CASE p \notin Current(fg)
    BY <1>2, NoopPends DEF OnTrackedExit
  <1> QED
    BY <1>1, <1>2

-----------------------------------------------------------------------------
(* The steps. *)

LEMMA TailStays ==
  ASSUME NEW S, NEW q \in Seq(S), q # << >>
  PROVE  Head(q) \in S /\ Tail(q) \in Seq(S)
  OBVIOUS

LEMMA TaskStages ==
  /\ Idle.at = "select"
  /\ \A p, gate : /\ Decided(p, gate).at = "decided" /\ Decided(p, gate).pid = p
                  /\ Decided(p, gate).gate = gate
  /\ \A o : Applying(o).at = "apply" /\ Applying(o).outcome = o
  /\ [at |-> "done"].at = "done"
  BY DEF Idle, Decided, Applying

LEMMA AtSelect ==
  ASSUME TaskOK, task.at = "select" \/ task = Idle
  PROVE  task = Idle /\ Settled
  BY TaskStages DEF TaskOK

LEMMA AtDecided ==
  ASSUME TaskOK, task.at = "decided"
  PROVE  task.pid \in Pid /\ (task.gate = "accept" => task.pid \in GamePid) /\ Settled
  BY TaskStages DEF TaskOK

LEMMA AtApply ==
  ASSUME TaskOK, task.at = "apply"
  PROVE  task = Applying(task.outcome) /\ Pending(task.outcome)
  BY TaskStages DEF TaskOK

LEMMA InitHolds == Init => IInv
  <1> SUFFICES ASSUME Init PROVE IInv
    OBVIOUS
  <1>1. << >> \in Seq(Pid) /\ 0 \in 0..MaxWatchers
    OBVIOUS
  <1>2. WorldOK
    BY <1>1, StateFacts DEF Init, WorldOK
  <1>3. TaskOK
    BY StateFacts, BalanceFacts DEF Init, TaskOK, Settled, TimerFits
  <1> QED
    BY <1>2, <1>3 DEF IInv

(* What happens outside the task leaves the task, what it tracks, and      *)
(* whether a timer is set.                                                 *)
LEMMA OutsideKeepsTask ==
  ASSUME TaskOK, UNCHANGED <<task, fg, balance>>, timer' # "off" <=> timer # "off"
  PROVE  TaskOK'
  <1>1. Settled' <=> Settled
    BY DEF Settled, TimerFits, Told
  <1>2. \A o : Pending(o)' <=> Pending(o)
    BY DEF Pending, EventsFit, OperationFits, TimerFits, Told
  <1>3. CASE task = Idle
    BY <1>1, <1>3, AtSelect DEF TaskOK
  <1>4. CASE \E p \in Pid \ {OwnPid}, gate \in {"accept", "reject"} :
               task = Decided(p, gate) /\ (gate = "accept" => p \in GamePid) /\ Settled
    BY <1>1, <1>4 DEF TaskOK
  <1>5. CASE \E o : task = Applying(o) /\ Pending(o)
    BY <1>2, <1>5 DEF TaskOK
  <1>6. CASE task = [at |-> "done"] /\ balance = Told(fg)
    BY <1>6 DEF TaskOK, Told
  <1> QED
    BY <1>3, <1>4, <1>5, <1>6 DEF TaskOK

LEMMA OutsideStep ==
  ASSUME IInv,
         \/ \E p \in Pid : Activate(p) \/ ProcessExits(p) \/ WatcherFires(p)
         \/ SetPause \/ GraceElapses \/ UNCHANGED vars
  PROVE  IInv'
  <1>1. UNCHANGED <<task, fg, balance>> /\ (timer' # "off" <=> timer # "off")
    BY DEF Activate, ProcessExits, WatcherFires, SetPause, GraceElapses, vars
  <1>2. TaskOK'
    BY <1>1, OutsideKeepsTask DEF IInv
  <1>3. ASSUME NEW p \in Pid, Activate(p) PROVE WorldOK'
    BY <1>3 DEF Activate, IInv, WorldOK
  <1>4. ASSUME NEW p \in Pid, ProcessExits(p) PROVE WorldOK'
    BY <1>4 DEF ProcessExits, IInv, WorldOK
  <1>5. ASSUME NEW p \in Pid, WatcherFires(p) PROVE WorldOK'
    <2>1. watchers[p] - 1 \in 0..MaxWatchers
      BY <1>5 DEF WatcherFires, IInv, WorldOK
    <2>2. watchers' \in [Pid -> 0..MaxWatchers]
      BY <1>5, <2>1 DEF WatcherFires, IInv, WorldOK
    <2> QED
      BY <1>5, <2>2 DEF WatcherFires, IInv, WorldOK
  <1>6. CASE SetPause
    BY <1>2, <1>6 DEF SetPause, IInv, WorldOK
  <1>7. CASE GraceElapses
    BY <1>2, <1>7 DEF GraceElapses, IInv, WorldOK
  <1>8. CASE UNCHANGED vars
    BY <1>2, <1>8 DEF vars, IInv, WorldOK
  <1> QED
    BY <1>2, <1>3, <1>4, <1>5, <1>6, <1>7, <1>8 DEF IInv

(* A handler hands its outcome on. *)
LEMMA Handing ==
  ASSUME NEW o, Pending(o), UNCHANGED <<fg, balance, timer>>, task' = Applying(o)
  PROVE  TaskOK'
  <1>1. Pending(o)'
    BY DEF Pending, EventsFit, OperationFits, TimerFits, Told
  <1> QED
    BY <1>1 DEF TaskOK

LEMMA TakeExitStep == IInv /\ TakeExit => IInv'
  <1> SUFFICES ASSUME IInv, TakeExit PROVE IInv'
    OBVIOUS
  <1>1. Settled
    BY AtSelect DEF IInv, TakeExit
  <1>2. TaskOK'
    BY <1>1, ExitPends, Handing DEF IInv, TakeExit
  <1>3. WorldOK'
    BY TailStays DEF IInv, WorldOK, TakeExit
  <1> QED
    BY <1>2, <1>3 DEF IInv

(* The timer is off already when its outcome pends. *)
LEMMA TakeTimeoutStep == IInv /\ TakeTimeout => IInv'
  <1> SUFFICES ASSUME IInv, TakeTimeout PROVE IInv'
    OBVIOUS
  <1>1. Settled /\ WorldOK /\ timer' = "off" /\ UNCHANGED <<fg, balance>>
        /\ task' = Applying(OnGraceTimeout(fg, pause))
    BY AtSelect DEF IInv, TakeTimeout
  <1>2. InBackground(fg) /\ fg \in FgState
    BY <1>1 DEF Settled, TimerFits, TakeTimeout, WorldOK
  <1>3. fg # NotTracked /\ fg.pid \in GamePid /\ fg.key = KeyOf[fg.pid]
    BY <1>2, StateFacts, TrackedFacts
  <1>4. PICK old \in FgState : old = fg
    BY <1>2
  <1>5. balance' = Told(old) /\ old # NotTracked /\ InBackground(old) /\ old.pid \in GamePid
        /\ old.key = KeyOf[old.pid]
    BY <1>1, <1>2, <1>3, <1>4 DEF Settled
  <1>6. WorldOK'
    BY <1>1 DEF WorldOK, TakeTimeout
  <1>7. CASE pause
    <2>1. task' = Applying(Outcome(<<StopEvent(old)>>, NotTracked, "NoChange"))
      BY <1>1, <1>4, <1>5, <1>7 DEF OnGraceTimeout, InBackground
    <2>2. <<StopEvent(old)>> \in Seq(Event) /\ NotTracked \in FgState /\ "NoChange" \in Operation
      BY <1>5, TrackedFacts, StateFacts DEF Operation
    <2>3. EventsFit(<<StopEvent(old)>>, NotTracked)'
      BY <1>5 DEF EventsFit
    <2>4. OperationFits("NoChange", NotTracked)'
      BY <1>1, StateFacts DEF OperationFits, TimerFits
    <2>5. Pending(Outcome(<<StopEvent(old)>>, NotTracked, "NoChange"))'
      BY <2>2, <2>3, <2>4 DEF Pending
    <2> QED
      BY <1>6, <2>1, <2>5 DEF IInv, TaskOK
  <1>8. CASE ~ pause
    <2>1. task' = Applying(Outcome(<< >>, Tracked(old.pid), "NoChange"))
      BY <1>1, <1>4, <1>5, <1>8 DEF OnGraceTimeout, InBackground
    <2>2. << >> \in Seq(Event) /\ Tracked(old.pid) \in FgState /\ "NoChange" \in Operation
      BY <1>5, StateFacts DEF Operation
    <2>3. EventsFit(<< >>, Tracked(old.pid))'
      <3>1. Told(Tracked(old.pid)) = Told(old)
        BY <1>5, StateFacts DEF Told
      <3> QED
        BY <1>5, <3>1 DEF EventsFit
    <2>4. OperationFits("NoChange", Tracked(old.pid))'
      BY <1>1, <1>5, StateFacts DEF OperationFits, TimerFits
    <2>5. Pending(Outcome(<< >>, Tracked(old.pid), "NoChange"))'
      BY <2>2, <2>3, <2>4 DEF Pending
    <2> QED
      BY <1>6, <2>1, <2>5 DEF IInv, TaskOK
  <1> QED
    BY <1>7, <1>8

LEMMA SettledStays ==
  ASSUME Settled, UNCHANGED <<fg, balance, timer>>
  PROVE  Settled'
  BY DEF Settled, TimerFits, Told

LEMMA TakeActivationStep == IInv /\ TakeActivation => IInv'
  <1> SUFFICES ASSUME IInv, TakeActivation PROVE IInv'
    OBVIOUS
  <1> DEFINE p == Head(activations)
  <1>1. Settled'
    BY AtSelect, SettledStays DEF IInv, TakeActivation
  <1>2. p \in Pid /\ activations' \in Seq(Pid)
    BY TailStays DEF IInv, WorldOK, TakeActivation
  <1>3. WorldOK'
    BY <1>2 DEF IInv, WorldOK, TakeActivation
  <1>4. CASE p = OwnPid
    <2>1. task' = Idle
      BY <1>4 DEF TakeActivation
    <2> QED
      BY <1>1, <1>3, <2>1 DEF IInv, TaskOK
  <1>5. CASE p # OwnPid
    <2>1. PICK gate \in {"reject"} \cup (IF p \in GamePid \cap alive THEN {"accept"} ELSE {}) :
            task' = Decided(p, gate)
      BY <1>5 DEF TakeActivation
    <2>2. gate \in {"accept", "reject"} /\ (gate = "accept" => p \in GamePid)
      BY <2>1
    <2> HIDE DEF p
    <2> QED
      BY <1>1, <1>2, <1>3, <1>5, <2>1, <2>2 DEF IInv, TaskOK
  <1> QED
    BY <1>4, <1>5

LEMMA DecideStep == IInv /\ Decide => IInv'
  <1> SUFFICES ASSUME IInv, Decide PROVE IInv'
    OBVIOUS
  <1>1. Settled /\ task.pid \in Pid /\ (task.gate = "accept" => task.pid \in GamePid)
    BY AtDecided DEF IInv, Decide
  <1>2. Pending(NextAction(fg, task.pid, task.gate = "accept", pause))
    BY <1>1, ActivationPends DEF IInv
  <1>3. TaskOK'
    BY <1>2, Handing DEF Decide
  <1>4. WorldOK'
    BY DEF IInv, WorldOK, Decide
  <1> QED
    BY <1>3, <1>4 DEF IInv

LEMMA OutcomeFacts ==
  ASSUME NEW events, NEW state, NEW op
  PROVE  /\ Outcome(events, state, op).events = events
         /\ Outcome(events, state, op).state = state
         /\ Outcome(events, state, op).timer = op
  BY DEF Outcome

(* Sending an event takes the balance one event on. *)
LEMMA SendEventStep == IInv /\ SendEvent => IInv'
  <1> SUFFICES ASSUME IInv, SendEvent PROVE IInv'
    OBVIOUS
  <1> DEFINE o == task.outcome
  <1>1. Pending(o) /\ o.events # << >> /\ task' = Applying(Outcome(Tail(o.events), o.state, o.timer))
        /\ UNCHANGED <<alive, activations, exits, pause, fg, timer>>
    BY AtApply DEF IInv, SendEvent
  <1>2. PICK events \in Seq(Event), state \in FgState, op \in Operation :
          o = Outcome(events, state, op) /\ EventsFit(events, state) /\ OperationFits(op, state)
    BY <1>1 DEF Pending
  <1>3. events # << >> /\ task' = Applying(Outcome(Tail(events), state, op))
        /\ Head(o.events) = Head(events) /\ Tail(events) \in Seq(Event) /\ Head(events) \in Event
    <2>1. o.events = events /\ o.state = state /\ o.timer = op
      BY <1>2, OutcomeFacts
    <2> HIDE DEF o
    <2> QED
      BY <1>1, <2>1, TailStays
  <1>4. Counted(Head(events))
    BY <1>3 DEF SendEvent
  <1> HIDE DEF o
  <1>5. OperationFits(op, state)'
    BY <1>1, <1>2 DEF OperationFits, TimerFits
  <1>6. EventsFit(Tail(events), state)'
    <2>1. CASE \E p \in GamePid :
                 events = <<StartEvent(p)>> /\ balance = Told(NotTracked) /\ state = Tracked(p)
      <3>1. PICK p \in GamePid :
              events = <<StartEvent(p)>> /\ balance = Told(NotTracked) /\ state = Tracked(p)
        BY <2>1
      <3>2. Head(events) = StartEvent(p) /\ Tail(events) = << >>
        BY <3>1, PairFacts
      <3>3. balance' = [balance EXCEPT ![KeyOf[p]] = @ + 1]
        BY <1>4, <3>2, StartIsEvent DEF Counted
      <3>4. balance' = Told(state)
        BY <3>1, <3>3, BalanceFacts
      <3> QED
        BY <3>2, <3>4 DEF EventsFit, Told
    <2>2. CASE \E left \in FgState \ {NotTracked} :
                 events = <<StopEvent(left)>> /\ balance = Told(left) /\ state = NotTracked
      <3>1. PICK left \in FgState \ {NotTracked} :
              events = <<StopEvent(left)>> /\ balance = Told(left) /\ state = NotTracked
        BY <2>2
      <3>2. Head(events) = StopEvent(left) /\ Tail(events) = << >>
        BY <3>1, PairFacts
      <3>3. balance' = [balance EXCEPT ![left.key] = @ - 1]
        BY <1>4, <3>2, StopIsEvent DEF Counted
      <3>4. balance' = Told(state)
        BY <3>1, <3>3, BalanceFacts
      <3> QED
        BY <3>2, <3>4 DEF EventsFit, Told
    <2>3. CASE \E left \in FgState \ {NotTracked}, p \in GamePid :
                 /\ events = <<StopEvent(left), StartEvent(p)>>
                 /\ balance = Told(left) /\ state = Tracked(p)
      <3>1. PICK left \in FgState \ {NotTracked}, p \in GamePid :
              /\ events = <<StopEvent(left), StartEvent(p)>>
              /\ balance = Told(left) /\ state = Tracked(p)
        BY <2>3
      <3>2. Head(events) = StopEvent(left) /\ Tail(events) = <<StartEvent(p)>>
        BY <3>1, PairFacts
      <3>3. balance' = [balance EXCEPT ![left.key] = @ - 1]
        BY <1>4, <3>2, StopIsEvent DEF Counted
      <3>4. balance' = Told(NotTracked)
        BY <3>1, <3>3, BalanceFacts
      <3> QED
        BY <3>1, <3>2, <3>4 DEF EventsFit, Told
    <2> QED
      BY <1>2, <1>3, <2>1, <2>2, <2>3 DEF EventsFit
  <1>7. Pending(Outcome(Tail(events), state, op))'
    BY <1>2, <1>3, <1>5, <1>6 DEF Pending
  <1>8. TaskOK'
    BY <1>3, <1>7 DEF TaskOK
  <1>9. watchers' \in [Pid -> 0..MaxWatchers]
    <2>1. watchers \in [Pid -> 0..MaxWatchers]
      BY DEF IInv, WorldOK
    <2>2. \A n \in Nat : Min({n + 1, MaxWatchers}) \in 0..MaxWatchers
      <3>1. ASSUME NEW n \in Nat PROVE Min({n + 1, MaxWatchers}) \in 0..MaxWatchers
        <4>1. \E x \in {n + 1, MaxWatchers} : \A y \in {n + 1, MaxWatchers} : x =< y
          OBVIOUS
        <4>2. /\ Min({n + 1, MaxWatchers}) \in {n + 1, MaxWatchers}
              /\ \A y \in {n + 1, MaxWatchers} : Min({n + 1, MaxWatchers}) =< y
          BY <4>1 DEF Min
        <4> QED
          BY <4>2
      <3> QED
        BY <3>1
    <2>3. ASSUME NEW p \in Pid PROVE Min({watchers[p] + 1, MaxWatchers}) \in 0..MaxWatchers
      <3>1. watchers[p] \in Nat
        BY <2>1
      <3> QED
        BY <2>2, <3>1
    <2>4. ASSUME NEW p, watchers' = [watchers EXCEPT ![p] = Min({@ + 1, MaxWatchers})]
          PROVE  watchers' \in [Pid -> 0..MaxWatchers]
      BY <2>1, <2>3, <2>4
    <2>5. \/ watchers' = [watchers EXCEPT ![Head(task.outcome.events).pid] = Min({@ + 1, MaxWatchers})]
          \/ UNCHANGED watchers
      BY DEF SendEvent
    <2> QED
      BY <2>1, <2>4, <2>5
  <1>10. WorldOK'
    BY <1>1, <1>9 DEF IInv, WorldOK
  <1> QED
    BY <1>8, <1>10 DEF IInv

LEMMA FinishOutcomeStep == IInv /\ FinishOutcome => IInv'
  <1> SUFFICES ASSUME IInv, FinishOutcome PROVE IInv'
    OBVIOUS
  <1>1. PICK events \in Seq(Event), state \in FgState, op \in Operation :
          /\ task.outcome = Outcome(events, state, op)
          /\ EventsFit(events, state) /\ OperationFits(op, state)
    BY AtApply DEF IInv, FinishOutcome, Pending
  <1>2. events = << >> /\ fg' = state /\ task' = Idle
        /\ UNCHANGED <<alive, activations, exits, watchers, pause, balance>>
        /\ timer' = CASE op = "NoChange" -> timer [] op = "Start" -> "running"
                      [] op = "Cancel" -> "off"
    <2>1. task.outcome.events = events /\ task.outcome.state = state /\ task.outcome.timer = op
      BY <1>1, OutcomeFacts
    <2> QED
      BY <2>1 DEF FinishOutcome
  <1>3. balance' = Told(state)
    BY <1>1, <1>2, PairFacts DEF EventsFit
  <1>4. timer' \in {"off", "running", "due"} /\ (timer' # "off" <=> InBackground(state))
    BY <1>1, <1>2 DEF OperationFits, TimerFits, Operation, IInv, WorldOK
  <1>5. Settled'
    BY <1>2, <1>3, <1>4 DEF Settled, TimerFits, Told, InBackground
  <1>6. WorldOK'
    BY <1>1, <1>2, <1>4 DEF IInv, WorldOK
  <1> QED
    BY <1>2, <1>5, <1>6 DEF IInv, TaskOK

LEMMA ShutdownStep == IInv /\ Shutdown => IInv'
  <1> SUFFICES ASSUME IInv, Shutdown PROVE IInv'
    OBVIOUS
  <1>1. balance = Told(fg) /\ fg \in FgState /\ task' = [at |-> "done"] /\ fg' = NotTracked
        /\ UNCHANGED <<alive, activations, exits, watchers, pause, timer>>
    BY AtSelect DEF IInv, Settled, WorldOK, Shutdown
  <1>2. balance' = Told(NotTracked)
    <2>1. CASE fg = NotTracked
      BY <1>1, <2>1 DEF Shutdown
    <2>2. CASE fg # NotTracked
      BY <1>1, <2>2, StopIsEvent, BalanceFacts DEF Shutdown, Counted
    <2> QED
      BY <2>1, <2>2
  <1>3. TaskOK'
    BY <1>1, <1>2 DEF TaskOK, Told
  <1>4. WorldOK'
    BY <1>1, StateFacts DEF IInv, WorldOK
  <1> QED
    BY <1>3, <1>4 DEF IInv

-----------------------------------------------------------------------------
(* The theorems. *)

(* The strengthened invariant: between an event and the next of the same   *)
(* outcome the channel is exactly as far behind the source as the events   *)
(* left to send: kwin/mod.rs and transition.rs.                            *)
THEOREM InvariantHolds == Spec => []IInv
  <1>1. IInv /\ [Next]_vars => IInv'
    BY OutsideStep, TakeExitStep, TakeTimeoutStep, TakeActivationStep, DecideStep,
       SendEventStep, FinishOutcomeStep, ShutdownStep DEF Next, Loop
  <1> QED
    BY <1>1, InitHolds, PTL DEF Spec

LEMMA BalanceIsTyped == IInv => balance \in [Key -> 0..1]
  <1> SUFFICES ASSUME IInv PROVE balance \in [Key -> 0..1]
    OBVIOUS
  <1>1. NotTracked \in FgState /\ fg \in FgState
    BY StateFacts DEF IInv, WorldOK
  <1>2. CASE balance = Told(fg)
    BY <1>1, <1>2, BalanceFacts
  <1>3. CASE \E o : Pending(o)
    <2>1. \E state \in FgState : balance = Told(state)
      BY <1>1, <1>3 DEF Pending, EventsFit
    <2> QED
      BY <2>1, BalanceFacts
  <1> QED
    BY <1>2, <1>3 DEF IInv, TaskOK, Settled

(* Types; that no game is ever started twice or stopped twice is in the    *)
(* range of `balance': event.rs:10.                                        *)
THEOREM TypesHold == Spec => []TypeOK
  <1>1. ASSUME IInv PROVE TypeOK
    <2>1. \/ task \in {Idle, [at |-> "done"]}
          \/ task \in [at : {"decided"}, pid : Pid \ {OwnPid}, gate : {"accept", "reject"}]
          \/ task \in [at : {"apply"}, outcome : Outcomes]
      <3>1. ASSUME NEW o, Pending(o) PROVE o \in Outcomes
        BY <3>1 DEF Pending, Outcome, Outcomes, Operation
      <3>2. ASSUME NEW o, task = Applying(o), Pending(o)
            PROVE  task \in [at : {"apply"}, outcome : Outcomes]
        BY <3>1, <3>2 DEF Applying
      <3>3. ASSUME NEW p \in Pid \ {OwnPid}, NEW gate \in {"accept", "reject"}, task = Decided(p, gate)
            PROVE  task \in [at : {"decided"}, pid : Pid \ {OwnPid}, gate : {"accept", "reject"}]
        BY <3>3 DEF Decided
      <3> QED
        BY <1>1, <3>2, <3>3 DEF IInv, TaskOK
    <2> QED
      BY <1>1, <2>1, BalanceIsTyped DEF IInv, WorldOK, TypeOK
  <1> QED
    BY <1>1, InvariantHolds, PTL

(* Between handlers the channel was told exactly of the tracked game:      *)
(* transition.rs and kwin/mod.rs.                                          *)
THEOREM ToldHolds == Spec => []ToldWhatIsTracked
  <1>1. ASSUME IInv, task.at \in {"select", "decided", "done"} PROVE balance = Told(fg)
    BY <1>1, TaskStages DEF IInv, TaskOK, Settled
  <1>2. IInv => ToldWhatIsTracked
    BY <1>1 DEF ToldWhatIsTracked, Told
  <1> QED
    BY <1>2, InvariantHolds, PTL

(* Between handlers a timer is armed exactly for a game in the background. *)
THEOREM TimerHolds == Spec => []TimerIffBackgrounded
  <1>1. IInv => TimerIffBackgrounded
    BY AtSelect DEF IInv, Settled, TimerFits, InBackground, TimerIffBackgrounded
  <1> QED
    BY <1>1, InvariantHolds, PTL
=============================================================================
