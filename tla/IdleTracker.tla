----------------------------- MODULE IdleTracker -----------------------------
(***************************************************************************)
(* The idle accumulator the session manager samples: IdleTracker of        *)
(* ludex-daemon/src/idle.rs.  One mutex makes every operation one step.    *)
(* Time is the monotonic clock in ticks, Second of them to a second, since *)
(* the code rounds every duration down to whole seconds.                   *)
(***************************************************************************)
EXTENDS Integers, Sequences, FiniteSets

CONSTANTS Second,  \* ticks of the clock in a second
          MaxTime  \* bound: the clock, in ticks

ASSUME TrackerAssumption == Second \in Nat \ {0} /\ MaxTime \in Nat

Never == MaxTime + 1  \* of an interval that is not open

VARIABLES now,    \* the monotonic clock
          closed, \* durations of the sealed intervals, in seconds
          since,  \* when the open interval began, or Never
          spans   \* history: when each sealed interval began and ended

tracker == <<closed, since, spans>>

TrackerTypeOK ==
  /\ now \in 0..MaxTime
  /\ since \in 0..now \cup {Never}
  /\ spans \in Seq((0..now) \X (0..now))
  /\ closed \in Seq(0..MaxTime) /\ Len(closed) = Len(spans)

TrackerInit == now = 0 /\ closed = << >> /\ since = Never /\ spans = << >>

SecondsSince(t) == (now - t) \div Second

(* Edge-triggered: a repeated TRUE or FALSE changes nothing. *)
SetIdle(idle) ==
  IF idle = (since # Never) THEN UNCHANGED tracker
  ELSE IF idle THEN since' = now /\ UNCHANGED <<closed, spans>>
  ELSE /\ since' = Never
       /\ closed' = Append(closed, SecondsSince(since))
       /\ spans' = Append(spans, <<since, now>>)

(* What a session takes when it opens. *)
SessionStartBaseline ==
  [count |-> Len(closed), open |-> IF since = Never THEN 0 ELSE SecondsSince(since)]

(* Every interval so far, the open one up to now. *)
Intervals == IF since = Never THEN closed ELSE Append(closed, SecondsSince(since))

\* Plausible mistake: the part before the session is forgiven, and the grace after it.
ForgivenPerSession(base, grace, first) == IF first THEN base.open + grace ELSE grace

(* The first interval after the baseline is the one that was open then.    *)
Forgiven(base, grace, first) ==
  IF first /\ base.open > grace THEN base.open ELSE grace

(* The idle seconds a session that opened at `base' is charged: of every   *)
(* interval since then, those beyond the forgiven ones.                    *)
BillableIdleSecondsSince(base, grace) ==
  LET charged(i) == {second \in 1..Intervals[i] :
                       second > Forgiven(base, grace, i = base.count + 1)}
  IN  Cardinality(UNION {{i} \X charged(i) : i \in (base.count + 1)..Len(Intervals)})
=============================================================================
