-------------------------- MODULE IdleSourcesProofs --------------------------
(***************************************************************************)
(* What holds of the idle sources for any clock, windows and grace, and    *)
(* however long a roundtrip holds the worker up.                           *)
(***************************************************************************)
EXTENDS IdleSources, SequenceTheorems, FiniteSums

-----------------------------------------------------------------------------
(* The inductive invariant. *)

(* The oneshot channel: the worker sends at most once, the task closes it  *)
(* when it leaves the select, and a report nobody hears is one that came   *)
(* between the last look and the drop.                                     *)
HandshakeOK ==
  /\ worker = "report" => ~reported
  /\ channel = "err" => worker = "gone"
  /\ channel = "ok" => reported
  /\ task = "wayland" => reported
  /\ ~reported => channel \in {"empty", "closed"}
  /\ task \in {"wayland", "fallback", "logind", "off", "stopped"} => channel = "closed"
  /\ task \in {"waiting", "conceding"} => channel # "closed"
  /\ reported /\ worker # "gone" /\ task = "waiting" => channel = "ok"
  /\ reported /\ worker # "gone" /\ task \in {"conceding", "fallback", "logind", "off"} => missed

(* The notification's events: at most one absence and the return from it.  *)
EventsOK ==
  /\ events \in {<< >>, <<"Idled">>, <<"Idled", "Resumed">>, <<"Resumed">>}
  /\ events = <<"Idled">> => idled
  /\ events \in {<<"Idled", "Resumed">>, <<"Resumed">>} => ~idled
  /\ idled /\ wire = "up" => user = "away"
  /\ worker = "open" => events = << >> /\ ~idled
  /\ worker = "gone" => events = << >> /\ ~idled
  /\ worker = "registry" => events = << >> /\ ~idled
  /\ worker \in {"registry", "arming", "report", "dispatch"} => wire # "none"

Returning == wire = "broken" \/ events \in {<<"Idled", "Resumed">>, <<"Resumed">>} \/ idled

(* An open interval is the worker's to seal until the task turns to        *)
(* logind, whose hint seals it from then on.                               *)
IntervalOK ==
  ~stray /\ since # Never =>
    /\ task = "logind" /\ user = "active" => changed
    /\ task \in {"waiting", "conceding", "wayland"} =>
         worker \in {"report", "dispatch"} /\ Returning

IInv == TypeOK /\ HandshakeOK /\ EventsOK /\ IntervalOK

-----------------------------------------------------------------------------
(* Lemmas. *)

LEMMA QuotientIsSmaller ==
  ASSUME NEW a \in Nat, NEW b \in Nat \ {0}
  PROVE  a \div b \in 0..a
  <1>1. a \div b \in Int /\ a \div b >= 0
    OBVIOUS
  <1>2. b * (a \div b) <= a
    OBVIOUS
  <1>3. a \div b <= b * (a \div b)
    BY <1>1
  <1> QED
    BY <1>1, <1>2, <1>3

LEMMA TailIsTyped ==
  ASSUME NEW S, NEW s \in Seq(S), s # << >>
  PROVE  Tail(s) \in Seq(S)
  OBVIOUS

(* An edge leaves the tracker typed and every sealed interval where it was. *)
LEMMA SetIdleIsTyped ==
  ASSUME TrackerTypeOK, NEW idle \in BOOLEAN, SetIdle(idle), now' = now
  PROVE  TrackerTypeOK' /\ Len(closed') >= Len(closed)
  <1>1. Second \in Nat \ {0} /\ MaxTime \in Nat /\ now \in 0..MaxTime
    BY TrackerAssumption DEF TrackerTypeOK
  <1>2. CASE UNCHANGED tracker
    BY <1>2 DEF TrackerTypeOK, tracker, Never
  <1>3. CASE since' = now /\ UNCHANGED <<closed, spans>>
    BY <1>1, <1>3 DEF TrackerTypeOK, Never
  <1>4. CASE /\ since # Never /\ since' = Never
             /\ closed' = Append(closed, SecondsSince(since))
             /\ spans' = Append(spans, <<since, now>>)
    <2>1. since \in 0..now
      BY <1>4 DEF TrackerTypeOK
    <2>2. now - since \in Nat /\ now - since <= MaxTime
      BY <1>1, <2>1
    <2>3. SecondsSince(since) \in 0..(now - since)
      BY <1>1, <2>2, QuotientIsSmaller DEF SecondsSince
    <2>4. SecondsSince(since) \in 0..MaxTime
      BY <1>1, <2>2, <2>3
    <2>5. closed' \in Seq(0..MaxTime) /\ Len(closed') = Len(closed) + 1
      BY <1>4, <2>4 DEF TrackerTypeOK
    <2>6. <<since, now>> \in (0..now) \X (0..now)
      BY <1>1, <2>1
    <2>7. spans' \in Seq((0..now) \X (0..now)) /\ Len(spans') = Len(spans) + 1
      BY <1>4, <2>6 DEF TrackerTypeOK
    <2>8. Len(closed) \in Nat
      BY DEF TrackerTypeOK
    <2>9. since' \in 0..now' \cup {Never'}
      BY <1>4 DEF Never
    <2> QED
      BY <1>1, <2>5, <2>7, <2>8, <2>9 DEF TrackerTypeOK
  <1>5. Len(closed) \in Nat
    BY DEF TrackerTypeOK
  <1> QED
    BY <1>2, <1>3, <1>4, <1>5 DEF SetIdle, tracker

-----------------------------------------------------------------------------
(* Types. *)

(* The parts of TypeOK, each for provers of its own. *)
StatesOK ==
  /\ user \in {"active", "away"}
  /\ compositor \in {"absent", "mute"} \cup Notifier /\ starts \in 0..MaxStarts
  /\ worker \in {"open", "registry", "arming", "report", "dispatch", "gone"}
  /\ wire \in {"none", "up", "broken"} /\ events \in Seq({"Idled", "Resumed"})
  /\ task \in {"waiting", "conceding", "wayland", "fallback", "logind", "off", "stopped"}
  /\ channel \in {"empty", "ok", "err", "closed"}

FlagsOK ==
  /\ worker = "dispatch" => reported
  /\ idled \in BOOLEAN /\ reported \in BOOLEAN /\ moved \in BOOLEAN
  /\ missed \in BOOLEAN /\ stray \in BOOLEAN /\ changed \in BOOLEAN

SessionsOK ==
  sessions \subseteq [start : 0..now, base : [count : 0..Len(closed), open : 0..MaxTime]]

LEMMA TypesInParts == TypeOK <=> TrackerTypeOK /\ StatesOK /\ FlagsOK /\ SessionsOK
  BY Zenon DEF TypeOK, StatesOK, FlagsOK, SessionsOK

LEMMA InitTyped == Init => TypeOK
  <1> SUFFICES ASSUME Init PROVE TypeOK
    OBVIOUS
  <1>1. 0 \in 0..MaxTime /\ 0 \in 0..MaxStarts
    BY SourcesAssumption, TrackerAssumption
  <1>2. TrackerTypeOK
    BY <1>1 DEF Init, TrackerInit, TrackerTypeOK, Never
  <1>3. StatesOK
    BY <1>1 DEF Init, StatesOK
  <1>4. FlagsOK
    BY DEF Init, FlagsOK
  <1>5. SessionsOK
    BY DEF Init, SessionsOK
  <1> QED
    BY <1>2, <1>3, <1>4, <1>5, TypesInParts

LEMMA HangingStates ==
  ASSUME StatesOK, NEW state \in {"open", "gone"}, Hangs(state)
  PROVE  /\ worker' \in {"open", "gone"} /\ wire' = "none" /\ events' \in Seq({"Idled", "Resumed"})
         /\ compositor' \in {"absent", "mute"} \cup Notifier /\ starts' \in 0..MaxStarts
  <1>1. << >> \in Seq({"Idled", "Resumed"}) /\ 0 \in 0..MaxStarts
    BY SourcesAssumption
  <1>2. CASE state = "gone"
    BY <1>1, <1>2 DEF Hangs
  <1>3. CASE state = "open"
    BY <1>1, <1>3 DEF Hangs, socket, StatesOK
  <1> QED
    BY <1>2, <1>3

LEMMA StatesStep == ASSUME StatesOK, [Next]_vars PROVE StatesOK'
  <1> USE DEF environment, socket, thread, async
  <1>1. CASE UNCHANGED vars
    BY <1>1 DEF vars, StatesOK
  <1>2. CASE Tick
    BY <1>2, SourcesAssumption DEF Tick, StatesOK
  <1>3. CASE UserMoves
    <2>1. Append(events, "Resumed") \in Seq({"Idled", "Resumed"})
      BY DEF StatesOK
    <2> QED
      BY <1>3, <2>1 DEF UserMoves, StatesOK
  <1>4. CASE CompositorIdles
    <2>1. Append(events, "Idled") \in Seq({"Idled", "Resumed"})
      BY DEF StatesOK
    <2> QED
      BY <1>4, <2>1 DEF CompositorIdles, StatesOK
  <1>5. CASE CompositorStarts
    BY <1>5, SourcesAssumption DEF CompositorStarts, StatesOK
  <1>6. CASE CompositorDies
    BY <1>6, SourcesAssumption DEF CompositorDies, StatesOK
  <1>7. CASE OpenConnection
    BY <1>7, SourcesAssumption DEF OpenConnection, StatesOK
  <1>8. CASE RegistryRoundtrip
    BY <1>8, SourcesAssumption DEF RegistryRoundtrip, StatesOK
  <1>9. CASE ArmRoundtrip
    BY <1>9, SourcesAssumption DEF ArmRoundtrip, StatesOK
  <1>10. CASE ConnectFails
    <2>1. CASE Hangs("gone") /\ channel' = IF channel = "empty" THEN "err" ELSE channel
      BY <1>10, <2>1, HangingStates DEF ConnectFails, StatesOK
    <2>2. CASE Hangs("open") /\ UNCHANGED channel
      BY <1>10, <2>2, HangingStates DEF ConnectFails, StatesOK
    <2> QED
      BY <1>10, <2>1, <2>2 DEF ConnectFails
  <1>11. CASE Report
    <2>1. CASE Hangs("gone") /\ UNCHANGED <<channel, missed>>
      BY <1>11, <2>1, HangingStates DEF Report, StatesOK
    <2>2. CASE channel' = "ok" /\ worker' = "dispatch" /\ UNCHANGED <<wire, events, idled, socket>>
      BY <1>11, <2>2 DEF Report, StatesOK
    <2> QED
      BY <1>11, <2>1, <2>2 DEF Report, Send
  <1>12. CASE Dispatch
    <2>1. Tail(events) \in Seq({"Idled", "Resumed"})
      BY <1>12, TailIsTyped DEF Dispatch, StatesOK
    <2> QED
      BY <1>12, <2>1 DEF Dispatch, StatesOK
  <1>13. CASE DispatchFails
    <2>1. Hangs("open") \/ Hangs("gone")
      BY <1>13 DEF DispatchFails
    <2> QED
      BY <1>13, <2>1, HangingStates DEF DispatchFails, StatesOK
  <1>14. CASE HearReport
    BY <1>14, SourcesAssumption DEF HearReport, StatesOK
  <1>15. CASE WatchdogFires
    BY <1>15, SourcesAssumption DEF WatchdogFires, StatesOK
  <1>16. CASE DropReceiver
    BY <1>16, SourcesAssumption DEF DropReceiver, StatesOK
  <1>17. CASE NoLogind
    BY <1>17, SourcesAssumption DEF NoLogind, StatesOK
  <1>18. CASE StartLogind
    BY <1>18, SourcesAssumption DEF StartLogind, StatesOK
  <1>19. CASE HearHint
    BY <1>19, SourcesAssumption DEF HearHint, StatesOK
  <1>20. CASE StreamEnds
    BY <1>20, SourcesAssumption DEF StreamEnds, StatesOK
  <1>21. CASE Shutdown
    BY <1>21, SourcesAssumption DEF Shutdown, StatesOK
  <1> QED
    BY <1>1, <1>2, <1>3, <1>4, <1>5, <1>6, <1>7, <1>8, <1>9, <1>10, <1>11,
       <1>12, <1>13, <1>14, <1>15, <1>16, <1>17, <1>18, <1>19, <1>20, <1>21
    DEF Next, Environment, Worker, Task

LEMMA FlagsStep == ASSUME FlagsOK, [Next]_vars PROVE FlagsOK'
  <1> USE DEF environment, socket, thread, async
  <1>1. CASE UNCHANGED vars
    BY <1>1 DEF vars, FlagsOK
  <1>2. CASE Tick
    BY <1>2 DEF Tick, FlagsOK
  <1>3. CASE UserMoves
    BY <1>3 DEF UserMoves, FlagsOK
  <1>4. CASE CompositorIdles
    BY <1>4 DEF CompositorIdles, FlagsOK
  <1>5. CASE CompositorStarts
    BY <1>5 DEF CompositorStarts, FlagsOK
  <1>6. CASE CompositorDies
    BY <1>6 DEF CompositorDies, FlagsOK
  <1>7. CASE OpenConnection
    BY <1>7 DEF OpenConnection, FlagsOK
  <1>8. CASE RegistryRoundtrip
    BY <1>8 DEF RegistryRoundtrip, FlagsOK
  <1>9. CASE ArmRoundtrip
    BY <1>9 DEF ArmRoundtrip, FlagsOK
  <1>10. CASE ConnectFails
    BY <1>10 DEF ConnectFails, Hangs, FlagsOK
  <1>11. CASE Report
    BY <1>11 DEF Report, Send, Hangs, FlagsOK
  <1>12. CASE Dispatch
    BY <1>12 DEF Dispatch, FlagsOK
  <1>13. CASE DispatchFails
    BY <1>13 DEF DispatchFails, Hangs, FlagsOK
  <1>14. CASE HearReport
    BY <1>14 DEF HearReport, FlagsOK
  <1>15. CASE WatchdogFires
    BY <1>15 DEF WatchdogFires, FlagsOK
  <1>16. CASE DropReceiver
    BY <1>16 DEF DropReceiver, FlagsOK
  <1>17. CASE NoLogind
    BY <1>17 DEF NoLogind, FlagsOK
  <1>18. CASE StartLogind
    BY <1>18 DEF StartLogind, FlagsOK
  <1>19. CASE HearHint
    BY <1>19 DEF HearHint, FlagsOK
  <1>20. CASE StreamEnds
    BY <1>20 DEF StreamEnds, FlagsOK
  <1>21. CASE Shutdown
    BY <1>21 DEF Shutdown, FlagsOK
  <1> QED
    BY <1>1, <1>2, <1>3, <1>4, <1>5, <1>6, <1>7, <1>8, <1>9, <1>10, <1>11,
       <1>12, <1>13, <1>14, <1>15, <1>16, <1>17, <1>18, <1>19, <1>20, <1>21
    DEF Next, Environment, Worker, Task

LEMMA TickKeepsTypes == TypeOK /\ Tick => TrackerTypeOK' /\ SessionsOK'
  <1> SUFFICES ASSUME TypeOK, Tick PROVE TrackerTypeOK' /\ SessionsOK'
    OBVIOUS
  <1>1. now \in Nat /\ now + 1 \in 0..MaxTime /\ now' = now + 1 /\ MaxTime \in Nat
    BY TrackerAssumption DEF Tick, TypeOK, TrackerTypeOK
  <1>2. UNCHANGED <<closed, since, spans>> /\ UNCHANGED <<user, changed, compositor, starts>>
        /\ UNCHANGED <<worker, reported, wire, events, idled>>
        /\ UNCHANGED <<task, channel, missed, stray>> /\ moved' = FALSE
    BY DEF Tick, tracker, thread, async
  <1>3. 0..now \subseteq 0..now'
    BY <1>1
  <1>4. spans' \in Seq((0..now') \X (0..now'))
    <2>1. spans \in Seq((0..now) \X (0..now))
      BY DEF TypeOK, TrackerTypeOK
    <2> QED
      BY <1>2, <1>3, <2>1
  <1>5. TrackerTypeOK'
    BY <1>1, <1>2, <1>3, <1>4 DEF TypeOK, TrackerTypeOK, Never
  <1>6. SessionStartBaseline \in [count : 0..Len(closed), open : 0..MaxTime]
    <2>1. Len(closed) \in Nat
      BY DEF TypeOK, TrackerTypeOK
    <2>2. since # Never => SecondsSince(since) \in 0..MaxTime
      <3>1. since # Never => now - since \in Nat /\ now - since <= MaxTime
        BY <1>1 DEF TypeOK, TrackerTypeOK
      <3>2. since # Never => SecondsSince(since) \in 0..(now - since)
        BY <3>1, QuotientIsSmaller, TrackerAssumption DEF SecondsSince
      <3> QED
        BY <1>1, <3>1, <3>2
    <2>3. 0 \in 0..MaxTime
      BY <1>1
    <2> QED
      BY <2>1, <2>2, <2>3 DEF SessionStartBaseline
  <1>7. SessionStartBaseline' \in [count : 0..Len(closed), open : 0..MaxTime]
    <2>1. Len(closed) \in Nat
      BY DEF TypeOK, TrackerTypeOK
    <2>2. since # Never => SecondsSince(since)' \in 0..MaxTime
      <3>1. since # Never => now' - since \in Nat /\ now' - since <= MaxTime
        BY <1>1 DEF TypeOK, TrackerTypeOK
      <3>2. since # Never => SecondsSince(since)' \in 0..(now' - since)
        BY <1>2, <3>1, QuotientIsSmaller, TrackerAssumption DEF SecondsSince
      <3> QED
        BY <1>1, <3>1, <3>2
    <2>3. 0 \in 0..MaxTime
      BY <1>1
    <2> QED
      BY <1>2, <2>1, <2>2, <2>3 DEF SessionStartBaseline, Never
  <1>8. sessions' \subseteq [start : 0..now', base : [count : 0..Len(closed), open : 0..MaxTime]]
    <2>1. sessions \subseteq [start : 0..now', base : [count : 0..Len(closed), open : 0..MaxTime]]
      BY <1>3 DEF TypeOK
    <2>2. now \in 0..now' /\ now + 1 \in 0..now'
      BY <1>1
    <2> QED
      BY <1>6, <1>7, <2>1, <2>2 DEF Tick, SessionsOfTick
  <1> QED
    BY <1>2, <1>5, <1>8 DEF SessionsOK

(* Sessions only ever look at what is already there. *)
LEMMA SessionsStay ==
  ASSUME TrackerTypeOK, SessionsOK, TrackerTypeOK', Len(closed') >= Len(closed),
         now' = now, UNCHANGED sessions
  PROVE  TrackerTypeOK' /\ SessionsOK'
  <1>1. Len(closed) \in Nat /\ Len(closed') \in Nat
    BY DEF TrackerTypeOK
  <1>2. 0..Len(closed) \subseteq 0..Len(closed')
    BY <1>1
  <1> QED
    BY <1>2 DEF SessionsOK

LEMMA TrackerStays ==
  ASSUME TrackerTypeOK, SessionsOK, now' = now, UNCHANGED tracker, UNCHANGED sessions
  PROVE  TrackerTypeOK' /\ SessionsOK'
  BY DEF TrackerTypeOK, SessionsOK, tracker, Never

LEMMA TrackerStep ==
  ASSUME TrackerTypeOK, SessionsOK, StatesOK, FlagsOK, [Next]_vars
  PROVE  TrackerTypeOK' /\ SessionsOK'
  <1> USE TrackerStays
  <1>1. CASE UNCHANGED vars
    BY <1>1 DEF vars
  <1>2. CASE Tick
    BY <1>2, TickKeepsTypes, TypesInParts
  <1>3. CASE UserMoves
    BY <1>3 DEF UserMoves
  <1>4. CASE CompositorIdles
    BY <1>4 DEF CompositorIdles
  <1>5. CASE CompositorStarts
    BY <1>5 DEF CompositorStarts
  <1>6. CASE CompositorDies
    BY <1>6 DEF CompositorDies
  <1>7. CASE OpenConnection
    BY <1>7 DEF OpenConnection
  <1>8. CASE RegistryRoundtrip
    BY <1>8 DEF RegistryRoundtrip
  <1>9. CASE ArmRoundtrip
    BY <1>9 DEF ArmRoundtrip
  <1>10. CASE ConnectFails
    BY <1>10 DEF ConnectFails, Hangs
  <1>11. CASE Report
    BY <1>11 DEF Report, Send, Hangs
  <1>12. CASE Dispatch
    <2>1. (Head(events) = "Idled") \in BOOLEAN /\ now' = now /\ UNCHANGED sessions
      BY <1>12 DEF Dispatch
    <2>2. TrackerTypeOK' /\ Len(closed') >= Len(closed)
      BY <1>12, <2>1, SetIdleIsTyped DEF Dispatch
    <2> QED
      BY <2>1, <2>2, SessionsStay
  <1>13. CASE DispatchFails
    <2>1. SetIdle(FALSE) /\ now' = now /\ UNCHANGED sessions
      BY <1>13 DEF DispatchFails, Seal
    <2>2. TrackerTypeOK' /\ Len(closed') >= Len(closed)
      BY <2>1, SetIdleIsTyped
    <2> QED
      BY <2>1, <2>2, SessionsStay
  <1>14. CASE HearReport
    BY <1>14 DEF HearReport
  <1>15. CASE WatchdogFires
    BY <1>15 DEF WatchdogFires
  <1>16. CASE DropReceiver
    BY <1>16 DEF DropReceiver
  <1>17. CASE NoLogind
    BY <1>17 DEF NoLogind
  <1>18. CASE StartLogind
    <2>1. PICK idle \in {user = "away", FALSE} : SetIdle(idle)
      BY <1>18 DEF StartLogind
    <2>2. idle \in BOOLEAN
      BY <2>1
    <2>3. now' = now /\ UNCHANGED sessions
      BY <1>18 DEF StartLogind
    <2>4. TrackerTypeOK' /\ Len(closed') >= Len(closed)
      BY <2>1, <2>2, <2>3, SetIdleIsTyped
    <2> QED
      BY <2>3, <2>4, SessionsStay
  <1>19. CASE HearHint
    <2>1. PICK idle \in {user = "away", FALSE} : SetIdle(idle)
      BY <1>19 DEF HearHint
    <2>2. idle \in BOOLEAN
      BY <2>1
    <2>3. now' = now /\ UNCHANGED sessions
      BY <1>19 DEF HearHint
    <2>4. TrackerTypeOK' /\ Len(closed') >= Len(closed)
      BY <2>1, <2>2, <2>3, SetIdleIsTyped
    <2> QED
      BY <2>3, <2>4, SessionsStay
  <1>20. CASE StreamEnds
    BY <1>20 DEF StreamEnds
  <1>21. CASE Shutdown
    BY <1>21 DEF Shutdown
  <1> QED
    BY <1>1, <1>2, <1>3, <1>4, <1>5, <1>6, <1>7, <1>8, <1>9, <1>10, <1>11,
       <1>12, <1>13, <1>14, <1>15, <1>16, <1>17, <1>18, <1>19, <1>20, <1>21
    DEF Next, Environment, Worker, Task

LEMMA TypesStep == ASSUME TypeOK, [Next]_vars PROVE TypeOK'
  <1>1. TrackerTypeOK' /\ StatesOK' /\ FlagsOK' /\ SessionsOK'
    BY TypesInParts, TrackerStep, StatesStep, FlagsStep
  <1> QED
    BY Zenon, <1>1 DEF TypeOK, TrackerTypeOK, StatesOK, FlagsOK, SessionsOK
-----------------------------------------------------------------------------
(* The handshake. *)

LEMMA HandshakeStep ==
  ASSUME StatesOK, HandshakeOK, [Next]_vars
  PROVE  HandshakeOK'
  <1> USE DEF environment, socket, thread, async
  <1>1. CASE UNCHANGED vars
    BY <1>1 DEF vars, StatesOK, HandshakeOK
  <1>2. CASE Tick
    BY <1>2 DEF Tick, StatesOK, HandshakeOK
  <1>3. CASE UserMoves
    BY <1>3 DEF UserMoves, StatesOK, HandshakeOK
  <1>4. CASE CompositorIdles
    BY <1>4 DEF CompositorIdles, StatesOK, HandshakeOK
  <1>5. CASE CompositorStarts
    BY <1>5 DEF CompositorStarts, StatesOK, HandshakeOK
  <1>6. CASE CompositorDies
    BY <1>6 DEF CompositorDies, StatesOK, HandshakeOK
  <1>7. CASE OpenConnection
    BY <1>7 DEF OpenConnection, StatesOK, HandshakeOK
  <1>8. CASE RegistryRoundtrip
    BY <1>8 DEF RegistryRoundtrip, StatesOK, HandshakeOK
  <1>9. CASE ArmRoundtrip
    BY <1>9 DEF ArmRoundtrip, StatesOK, HandshakeOK
  <1>10. CASE ConnectFails
    BY <1>10 DEF ConnectFails, Transient, Definitive, Hangs, StatesOK, HandshakeOK
  <1>11. CASE Report
    BY <1>11 DEF Report, Send, Hangs, StatesOK, HandshakeOK
  <1>12. CASE Dispatch
    BY <1>12 DEF Dispatch, GivenUp, StatesOK, HandshakeOK
  <1>13. CASE DispatchFails
    BY <1>13 DEF DispatchFails, Seal, Hangs, StatesOK, HandshakeOK
  <1>14. CASE HearReport
    BY <1>14 DEF HearReport, StatesOK, HandshakeOK
  <1>15. CASE WatchdogFires
    BY <1>15 DEF WatchdogFires, StatesOK, HandshakeOK
  <1>16. CASE DropReceiver
    BY <1>16 DEF DropReceiver, StatesOK, HandshakeOK
  <1>17. CASE NoLogind
    BY <1>17 DEF NoLogind, StatesOK, HandshakeOK
  <1>18. CASE StartLogind
    BY <1>18 DEF StartLogind, StatesOK, HandshakeOK
  <1>19. CASE HearHint
    BY <1>19 DEF HearHint, StatesOK, HandshakeOK
  <1>20. CASE StreamEnds
    BY <1>20 DEF StreamEnds, StatesOK, HandshakeOK
  <1>21. CASE Shutdown
    BY <1>21 DEF Shutdown, StatesOK, HandshakeOK
  <1> QED
    BY <1>1, <1>2, <1>3, <1>4, <1>5, <1>6, <1>7, <1>8, <1>9, <1>10, <1>11,
       <1>12, <1>13, <1>14, <1>15, <1>16, <1>17, <1>18, <1>19, <1>20, <1>21
    DEF Next, Environment, Worker, Task

-----------------------------------------------------------------------------
(* Events and intervals. *)

LEMMA EventFacts ==
  /\ Append(<< >>, "Idled") = <<"Idled">>
  /\ Append(<< >>, "Resumed") = <<"Resumed">>
  /\ Append(<<"Idled">>, "Resumed") = <<"Idled", "Resumed">>
  /\ Head(<<"Idled">>) = "Idled" /\ Head(<<"Resumed">>) = "Resumed"
  /\ Head(<<"Idled", "Resumed">>) = "Idled"
  /\ Tail(<<"Idled">>) = << >> /\ Tail(<<"Resumed">>) = << >>
  /\ Tail(<<"Idled", "Resumed">>) = <<"Resumed">>
  <1>1. Append(<< >>, "Idled") = <<"Idled">> /\ Append(<< >>, "Resumed") = <<"Resumed">>
    OBVIOUS
  <1>2. Append(<<"Idled">>, "Resumed") = <<"Idled", "Resumed">>
    <2>1. /\ Append(<<"Idled">>, "Resumed") \in Seq({"Idled", "Resumed"})
          /\ <<"Idled", "Resumed">> \in Seq({"Idled", "Resumed"})
      OBVIOUS
    <2>2. Len(Append(<<"Idled">>, "Resumed")) = 2 /\ Len(<<"Idled", "Resumed">>) = 2
      OBVIOUS
    <2>3. \A i \in 1..2 : Append(<<"Idled">>, "Resumed")[i] = <<"Idled", "Resumed">>[i]
      OBVIOUS
    <2> QED
      BY <2>1, <2>2, <2>3, SeqEqual
  <1>3. Head(<<"Idled">>) = "Idled" /\ Head(<<"Resumed">>) = "Resumed"
        /\ Head(<<"Idled", "Resumed">>) = "Idled"
    OBVIOUS
  <1>4. Tail(<<"Idled">>) = << >> /\ Tail(<<"Resumed">>) = << >>
    OBVIOUS
  <1>5. Tail(<<"Idled", "Resumed">>) = <<"Resumed">>
    OBVIOUS
  <1> QED
    BY <1>1, <1>2, <1>3, <1>4, <1>5

LEMMA EventsDiffer ==
  /\ << >> # <<"Idled">> /\ << >> # <<"Resumed">> /\ << >> # <<"Idled", "Resumed">>
  /\ <<"Idled">> # <<"Resumed">> /\ <<"Idled">> # <<"Idled", "Resumed">>
  /\ <<"Resumed">> # <<"Idled", "Resumed">>
  OBVIOUS

LEMMA EventsStep ==
  ASSUME StatesOK, FlagsOK, EventsOK, [Next]_vars
  PROVE  EventsOK'
  <1> USE DEF environment, socket, thread, async
  <1>1. CASE UNCHANGED vars
    BY <1>1 DEF vars, StatesOK, FlagsOK, EventsOK
  <1>2. CASE Tick
    BY <1>2 DEF Tick, StatesOK, FlagsOK, EventsOK
  <1>3. CASE UserMoves
    BY <1>3, EventFacts, EventsDiffer DEF UserMoves, StatesOK, FlagsOK, EventsOK
  <1>4. CASE CompositorIdles
    BY <1>4, EventFacts, EventsDiffer DEF CompositorIdles, StatesOK, FlagsOK, EventsOK
  <1>5. CASE CompositorStarts
    BY <1>5 DEF CompositorStarts, StatesOK, FlagsOK, EventsOK
  <1>6. CASE CompositorDies
    BY <1>6 DEF CompositorDies, StatesOK, FlagsOK, EventsOK
  <1>7. CASE OpenConnection
    BY <1>7 DEF OpenConnection, StatesOK, FlagsOK, EventsOK
  <1>8. CASE RegistryRoundtrip
    BY <1>8 DEF RegistryRoundtrip, StatesOK, FlagsOK, EventsOK
  <1>9. CASE ArmRoundtrip
    BY <1>9 DEF ArmRoundtrip, StatesOK, FlagsOK, EventsOK
  <1>10. CASE ConnectFails
    BY <1>10 DEF ConnectFails, Transient, Definitive, Hangs, StatesOK, FlagsOK, EventsOK
  <1>11. CASE Report
    BY <1>11 DEF Report, Send, Hangs, StatesOK, FlagsOK, EventsOK
  <1>12. CASE Dispatch
    BY <1>12, EventFacts, EventsDiffer DEF Dispatch, GivenUp, StatesOK, FlagsOK, EventsOK
  <1>13. CASE DispatchFails
    BY <1>13, EventFacts, EventsDiffer DEF DispatchFails, Seal, Hangs, StatesOK, FlagsOK, EventsOK
  <1>14. CASE HearReport
    BY <1>14 DEF HearReport, StatesOK, FlagsOK, EventsOK
  <1>15. CASE WatchdogFires
    BY <1>15 DEF WatchdogFires, StatesOK, FlagsOK, EventsOK
  <1>16. CASE DropReceiver
    BY <1>16 DEF DropReceiver, StatesOK, FlagsOK, EventsOK
  <1>17. CASE NoLogind
    BY <1>17 DEF NoLogind, StatesOK, FlagsOK, EventsOK
  <1>18. CASE StartLogind
    BY <1>18 DEF StartLogind, StatesOK, FlagsOK, EventsOK
  <1>19. CASE HearHint
    BY <1>19 DEF HearHint, StatesOK, FlagsOK, EventsOK
  <1>20. CASE StreamEnds
    BY <1>20 DEF StreamEnds, StatesOK, FlagsOK, EventsOK
  <1>21. CASE Shutdown
    BY <1>21 DEF Shutdown, StatesOK, FlagsOK, EventsOK
  <1> QED
    BY <1>1, <1>2, <1>3, <1>4, <1>5, <1>6, <1>7, <1>8, <1>9, <1>10, <1>11,
       <1>12, <1>13, <1>14, <1>15, <1>16, <1>17, <1>18, <1>19, <1>20, <1>21
    DEF Next, Environment, Worker, Task

LEMMA IntervalStep ==
  ASSUME StatesOK, FlagsOK, HandshakeOK, EventsOK, IntervalOK, TrackerTypeOK, [Next]_vars
  PROVE  IntervalOK'
  <1> USE DEF environment, socket, thread, async
  <1>1. CASE UNCHANGED vars
    BY <1>1 DEF vars, StatesOK, HandshakeOK, EventsOK, IntervalOK, Returning,
         SetIdle, tracker, Never
  <1>2. CASE Tick
    BY <1>2 DEF Tick, StatesOK, HandshakeOK, EventsOK, IntervalOK, Returning,
         SetIdle, tracker, Never
  <1>3. CASE UserMoves
    BY <1>3, EventFacts, EventsDiffer DEF UserMoves, StatesOK, HandshakeOK, EventsOK, IntervalOK, Returning,
         SetIdle, tracker, Never
  <1>4. CASE CompositorIdles
    BY <1>4, EventFacts, EventsDiffer DEF CompositorIdles, StatesOK, HandshakeOK, EventsOK, IntervalOK, Returning,
         SetIdle, tracker, Never
  <1>5. CASE CompositorStarts
    BY <1>5 DEF CompositorStarts, StatesOK, HandshakeOK, EventsOK, IntervalOK, Returning,
         SetIdle, tracker, Never
  <1>6. CASE CompositorDies
    BY <1>6 DEF CompositorDies, StatesOK, HandshakeOK, EventsOK, IntervalOK, Returning,
         SetIdle, tracker, Never
  <1>7. CASE OpenConnection
    BY <1>7 DEF OpenConnection, StatesOK, HandshakeOK, EventsOK, IntervalOK, Returning,
         SetIdle, tracker, Never
  <1>8. CASE RegistryRoundtrip
    BY <1>8 DEF RegistryRoundtrip, StatesOK, HandshakeOK, EventsOK, IntervalOK, Returning,
         SetIdle, tracker, Never
  <1>9. CASE ArmRoundtrip
    BY <1>9 DEF ArmRoundtrip, StatesOK, HandshakeOK, EventsOK, IntervalOK, Returning,
         SetIdle, tracker, Never
  <1>10. CASE ConnectFails
    BY <1>10 DEF ConnectFails, Transient, Definitive, Hangs, StatesOK, HandshakeOK, EventsOK, IntervalOK, Returning,
         SetIdle, tracker, Never
  <1>11. CASE Report
    BY <1>11 DEF Report, Send, Hangs, StatesOK, HandshakeOK, EventsOK, IntervalOK, Returning,
         SetIdle, tracker, Never
  <1>12. CASE Dispatch
    BY <1>12, EventFacts, EventsDiffer DEF Dispatch, GivenUp, StatesOK, HandshakeOK, EventsOK, IntervalOK, Returning,
         SetIdle, tracker, Never
  <1>13. CASE DispatchFails
    BY <1>13, EventFacts, EventsDiffer DEF DispatchFails, Seal, Hangs, StatesOK, HandshakeOK, EventsOK, IntervalOK, Returning,
         SetIdle, tracker, Never
  <1>14. CASE HearReport
    BY <1>14 DEF HearReport, StatesOK, HandshakeOK, EventsOK, IntervalOK, Returning,
         SetIdle, tracker, Never
  <1>15. CASE WatchdogFires
    BY <1>15 DEF WatchdogFires, StatesOK, HandshakeOK, EventsOK, IntervalOK, Returning,
         SetIdle, tracker, Never
  <1>16. CASE DropReceiver
    BY <1>16 DEF DropReceiver, StatesOK, HandshakeOK, EventsOK, IntervalOK, Returning,
         SetIdle, tracker, Never
  <1>17. CASE NoLogind
    BY <1>17 DEF NoLogind, StatesOK, HandshakeOK, EventsOK, IntervalOK, Returning,
         SetIdle, tracker, Never
  <1>18. CASE StartLogind
    BY <1>18 DEF StartLogind, StatesOK, HandshakeOK, EventsOK, IntervalOK, Returning,
         SetIdle, tracker, Never
  <1>19. CASE HearHint
    BY <1>19 DEF HearHint, StatesOK, HandshakeOK, EventsOK, IntervalOK, Returning,
         SetIdle, tracker, Never
  <1>20. CASE StreamEnds
    BY <1>20 DEF StreamEnds, StatesOK, HandshakeOK, EventsOK, IntervalOK, Returning,
         SetIdle, tracker, Never
  <1>21. CASE Shutdown
    BY <1>21 DEF Shutdown, StatesOK, HandshakeOK, EventsOK, IntervalOK, Returning,
         SetIdle, tracker, Never
  <1> QED
    BY <1>1, <1>2, <1>3, <1>4, <1>5, <1>6, <1>7, <1>8, <1>9, <1>10, <1>11,
       <1>12, <1>13, <1>14, <1>15, <1>16, <1>17, <1>18, <1>19, <1>20, <1>21
    DEF Next, Environment, Worker, Task

-----------------------------------------------------------------------------
(* The theorems about the sources. *)

(* The strengthened invariant holds in every reachable state: what         *)
(* idle_wayland.rs:386-446 and idle.rs:362-381 keep between them.          *)
THEOREM InvariantHolds == Spec => []IInv
  <1>1. Init => IInv
    <2>1. Init => HandshakeOK
      BY DEF Init, HandshakeOK
    <2>2. Init => EventsOK
      BY DEF Init, EventsOK
    <2>3. Init => IntervalOK
      BY DEF Init, TrackerInit, IntervalOK
    <2> QED
      BY <2>1, <2>2, <2>3, InitTyped DEF IInv
  <1>2. IInv /\ [Next]_vars => IInv'
    <2> SUFFICES ASSUME IInv, [Next]_vars PROVE IInv'
      OBVIOUS
    <2>1. TrackerTypeOK /\ StatesOK /\ FlagsOK
      BY TypesInParts DEF IInv
    <2>2. TypeOK'
      BY TypesStep DEF IInv
    <2> QED
      BY <2>1, <2>2, HandshakeStep, EventsStep, IntervalStep DEF IInv
  <1> QED
    BY <1>1, <1>2, PTL DEF Spec

(* Types: every duration the tracker keeps is a natural no greater than    *)
(* the clock, and no session starts past it: idle.rs:66-183.               *)
THEOREM TypesHold == Spec => []TypeOK
  <1>1. IInv => TypeOK
    BY DEF IInv
  <1> QED
    BY <1>1, InvariantHolds, PTL

(* The Wayland worker and the logind watcher drive the tracker together    *)
(* only after a report that came between the task's last look at the       *)
(* channel and its drop: idle_wayland.rs:386-446.                          *)
THEOREM OneSourceHolds == Spec => []OneSourceServes
  <1>1. IInv => OneSourceServes
    BY DEF IInv, TypeOK, HandshakeOK, OneSourceServes
  <1> QED
    BY <1>1, InvariantHolds, PTL

(* No resume is lost to a reconnection, a roundtrip or the change of       *)
(* sources: idle_wayland.rs:310-381.                                       *)
THEOREM ResumesHold == Spec => []NoResumeIsLost
  <1>1. ASSUME IInv PROVE NoResumeIsLost
    <2> SUFFICES ASSUME since # Never, user = "active", ~stray
                 PROVE  \/ "Resumed" \in Range(events) \/ wire = "broken"
                        \/ task = "logind" /\ changed
                        \/ task \in {"fallback", "off", "stopped"}
      BY DEF NoResumeIsLost
    <2>1. CASE task = "logind"
      BY <1>1, <2>1 DEF IInv, IntervalOK
    <2>2. CASE task \in {"waiting", "conceding", "wayland"}
      <3>1. Returning /\ worker \in {"report", "dispatch"}
        BY <1>1, <2>2 DEF IInv, IntervalOK
      <3>2. wire \in {"up", "broken"}
        BY <1>1, <3>1 DEF IInv, TypeOK, EventsOK
      <3>3. CASE events = <<"Idled", "Resumed">>
        <4>1. events[2] = "Resumed" /\ 2 \in DOMAIN events
          BY <3>3
        <4> QED
          BY <4>1 DEF Range
      <3>4. CASE events = <<"Resumed">>
        <4>1. events[1] = "Resumed" /\ 1 \in DOMAIN events
          BY <3>4
        <4> QED
          BY <4>1 DEF Range
      <3>5. CASE idled
        BY <1>1, <3>2, <3>5 DEF IInv, EventsOK
      <3> QED
        BY <3>1, <3>3, <3>4, <3>5 DEF Returning
    <2> QED
      BY <1>1, <2>1, <2>2 DEF IInv, TypeOK
  <1> QED
    BY <1>1, InvariantHolds, PTL

-----------------------------------------------------------------------------
(* The bill.  Its sums are sizes of unions of disjoint sets, bounded set   *)
(* by set: an induction on the number of stretches, by the least one for   *)
(* which the bounds would fail.                                            *)

(* A stretch that lies within the session: rounding down costs less than a *)
(* second.                                                                 *)
LEMMA WholeStretch ==
  ASSUME NEW unit \in Nat \ {0}, NEW length \in Nat, NEW grace \in Nat,
         NEW billed, billed = (IF length \div unit > grace THEN length \div unit - grace ELSE 0),
         NEW exact, exact = (IF length > unit * grace THEN length - unit * grace ELSE 0)
  PROVE  unit * billed <= exact /\ exact <= unit * billed + (unit - 1)
  <1>1. PICK q \in Nat : q = length \div unit
    OBVIOUS
  <1>2. unit * q <= length /\ length <= unit * q + (unit - 1)
    BY <1>1
  <1>3. unit * q \in Nat /\ unit * grace \in Nat
    BY <1>1
  <1>4. CASE q > grace
    <2>1. billed = q - grace /\ unit * billed = unit * q - unit * grace
      BY <1>1, <1>4
    <2>2. unit * grace <= unit * q
      BY <1>1, <1>4
    <2> QED
      BY <1>2, <1>3, <2>1, <2>2
  <1>5. CASE q <= grace
    <2>1. billed = 0 /\ unit * billed = 0
      BY <1>1, <1>5
    <2>2. unit * q <= unit * grace
      BY <1>1, <1>5
    <2> QED
      BY <1>2, <1>3, <2>1, <2>2
  <1> QED
    BY <1>1, <1>4, <1>5

(* The stretch a session began in: the part before the session is rounded  *)
(* down too, so that the bill may be a second too high.                    *)
SecondsForgiven(unit, before, grace) ==
  IF before \div unit > grace THEN before \div unit ELSE grace

SecondsBilled(unit, length, forgiven) ==
  IF length \div unit > forgiven THEN length \div unit - forgiven ELSE 0

TicksLost(before, after, past) ==
  IF past <= before THEN after ELSE IF before + after > past THEN before + after - past ELSE 0

LEMMA StretchAtStart ==
  ASSUME NEW unit \in Nat \ {0}, NEW before \in Nat, NEW after \in Nat, NEW grace \in Nat
  PROVE  LET billed == SecondsBilled(unit, before + after, SecondsForgiven(unit, before, grace))
             exact == TicksLost(before, after, unit * grace)
         IN  unit * billed <= exact + (unit - 1) /\ exact <= unit * billed + (unit - 1)
  <1> DEFINE forgiven == SecondsForgiven(unit, before, grace)
             billed == SecondsBilled(unit, before + after, forgiven)
             exact == TicksLost(before, after, unit * grace)
  <1> USE DEF SecondsForgiven, SecondsBilled, TicksLost
  <1>1. PICK q \in Nat : q = (before + after) \div unit
    OBVIOUS
  <1>2. PICK o \in Nat : o = before \div unit
    OBVIOUS
  <1>3. unit * q <= before + after /\ before + after <= unit * q + (unit - 1)
    BY <1>1
  <1>4. unit * o <= before /\ before <= unit * o + (unit - 1)
    BY <1>2
  <1>5. unit * q \in Nat /\ unit * o \in Nat /\ unit * grace \in Nat
    BY <1>1, <1>2
  <1>6. CASE o > grace
    <2>1. unit * grace <= unit * o
      BY <1>2, <1>6
    <2>2. exact = after /\ forgiven = o
      BY <1>2, <1>4, <1>5, <1>6, <2>1
    <2>3. CASE q > o
      <3>1. billed = q - o /\ unit * billed = unit * q - unit * o
        BY <1>1, <1>2, <2>2, <2>3
      <3> QED
        BY <1>3, <1>4, <1>5, <2>2, <3>1
    <2>4. CASE q <= o
      <3>1. billed = 0 /\ unit * billed = 0
        BY <1>1, <1>2, <2>2, <2>4
      <3>2. unit * q <= unit * o
        BY <1>1, <1>2, <2>4
      <3> QED
        BY <1>3, <1>4, <1>5, <2>2, <3>1, <3>2
    <2> QED
      BY <1>1, <1>2, <2>3, <2>4
  <1>7. CASE o <= grace
    <2>1. unit * o <= unit * grace /\ forgiven = grace
      BY <1>2, <1>7
    <2>2. CASE q > grace
      <3>1. billed = q - grace
        BY <1>1, <2>1, <2>2
      <3>2. unit * (q - grace) = unit * q - unit * grace
        BY <1>1
      <3>3. unit * grace <= unit * q
        BY <1>1, <2>2
      <3> HIDE DEF billed, forgiven
      <3> QED
        BY <1>3, <1>4, <1>5, <2>1, <3>1, <3>2, <3>3
    <2>3. CASE q <= grace
      <3>1. billed = 0 /\ unit * billed = 0
        BY <1>1, <2>1, <2>3
      <3>2. unit * q <= unit * grace
        BY <1>1, <2>3
      <3> QED
        BY <1>3, <1>4, <1>5, <2>1, <3>1, <3>2
    <2> QED
      BY <1>1, <2>2, <2>3
  <1> QED
    BY <1>2, <1>6, <1>7

LEMMA DisjointUnion ==
  ASSUME NEW S, NEW T, IsFiniteSet(S), IsFiniteSet(T), S \cap T = {}
  PROVE  IsFiniteSet(S \cup T) /\ Cardinality(S \cup T) = Cardinality(S) + Cardinality(T)
  <1>1. Cardinality(S \cap T) = 0
    BY FS_EmptySet
  <1>2. Cardinality(S) \in Nat /\ Cardinality(T) \in Nat
    BY FS_CardinalityType
  <1>3. IsFiniteSet(S \cup T)
        /\ Cardinality(S \cup T) = Cardinality(S) + Cardinality(T) - Cardinality(S \cap T)
    BY FS_Union
  <1>4. \A m, n \in Nat : m + n - 0 = m + n
    OBVIOUS
  <1> QED
    BY <1>1, <1>2, <1>3, <1>4

(* Two families of disjoint finite sets, each set of the one bounded by    *)
(* that of the other, but for the first.                                   *)
PartsBounded(unit, first, last, B, E) ==
  /\ \A i \in (first + 1)..last :
       /\ IsFiniteSet(B[i]) /\ IsFiniteSet(E[i])
       /\ unit * Cardinality(B[i])
            <= Cardinality(E[i]) + (IF i = first + 1 THEN unit - 1 ELSE 0)
       /\ Cardinality(E[i]) <= unit * Cardinality(B[i]) + (unit - 1)
  /\ \A i, j \in (first + 1)..last : i < j => B[i] \cap B[j] = {} /\ E[i] \cap E[j] = {}

AllOf(B, first, last) == UNION {B[i] : i \in (first + 1)..last}

(* Bounds on the parts add up to bounds on the unions.                     *)
LEMMA BoundsAddUp ==
  ASSUME NEW unit \in Nat \ {0}, NEW first \in Nat, NEW last \in Nat, first <= last,
         NEW B, NEW E, PartsBounded(unit, first, last, B, E)
  PROVE  LET billed == unit * Cardinality(AllOf(B, first, last))
             exact == Cardinality(AllOf(E, first, last))
         IN  /\ billed <= exact + (unit - 1)
             /\ exact <= billed + (last - first) * (unit - 1)
  <1> DEFINE UB(k) == UNION {B[i] : i \in (first + 1)..(first + k)}
             UE(k) == UNION {E[i] : i \in (first + 1)..(first + k)}
             Good(k) ==
               /\ IsFiniteSet(UB(k)) /\ IsFiniteSet(UE(k))
               /\ unit * Cardinality(UB(k))
                    <= Cardinality(UE(k)) + (IF k = 0 THEN 0 ELSE unit - 1)
               /\ Cardinality(UE(k)) <= unit * Cardinality(UB(k)) + k * (unit - 1)
             bad == {k \in 0..(last - first) : ~Good(k)}
  <1>1. Good(0)
    <2>1. UB(0) = {} /\ UE(0) = {}
      OBVIOUS
    <2>2. Cardinality(UB(0)) = 0 /\ Cardinality(UE(0)) = 0 /\ IsFiniteSet(UB(0)) /\ IsFiniteSet(UE(0))
      BY <2>1, FS_EmptySet
    <2> QED
      BY <2>2
  <1>2. ASSUME NEW k \in 0..(last - first), k + 1 <= last - first, Good(k)
        PROVE  Good(k + 1)
    <2> DEFINE n == first + (k + 1)
    <2>1. n \in (first + 1)..last /\ (n = first + 1 <=> k = 0) /\ k + 1 # 0
      <3>1. k \in Nat /\ n \in Int /\ n <= last /\ n >= first + 1
        <4>1. k \in Nat /\ k + 1 <= last - first
          BY <1>2
        <4> QED
          BY <4>1
      <3>2. n = first + 1 <=> k = 0
        BY <3>1
      <3> QED
        BY <3>1, <3>2
    <2>2. UB(k + 1) = UB(k) \cup B[n] /\ UE(k + 1) = UE(k) \cup E[n]
      <3>1. (first + 1)..(first + (k + 1)) = (first + 1)..(first + k) \cup {n}
        OBVIOUS
      <3> HIDE DEF n
      <3> QED
        BY <3>1
    <2>3. UB(k) \cap B[n] = {} /\ UE(k) \cap E[n] = {}
      <3>1. \A i \in (first + 1)..(first + k) : i \in (first + 1)..last /\ i < n
        OBVIOUS
      <3>2. \A i \in (first + 1)..(first + k) : B[i] \cap B[n] = {} /\ E[i] \cap E[n] = {}
        BY <2>1, <3>1 DEF PartsBounded
      <3> HIDE DEF n
      <3> QED
        BY <3>2
    <2>4. /\ IsFiniteSet(B[n]) /\ IsFiniteSet(E[n])
          /\ unit * Cardinality(B[n]) <= Cardinality(E[n]) + (IF k = 0 THEN unit - 1 ELSE 0)
          /\ Cardinality(E[n]) <= unit * Cardinality(B[n]) + (unit - 1)
      BY <2>1 DEF PartsBounded
    <2> HIDE DEF n
    <2>5. /\ IsFiniteSet(UB(k)) /\ IsFiniteSet(UE(k))
          /\ unit * Cardinality(UB(k))
               <= Cardinality(UE(k)) + (IF k = 0 THEN 0 ELSE unit - 1)
          /\ Cardinality(UE(k)) <= unit * Cardinality(UB(k)) + k * (unit - 1)
      BY <1>2
    <2> HIDE DEF UB, UE
    <2>6. /\ IsFiniteSet(UB(k + 1))
          /\ Cardinality(UB(k + 1)) = Cardinality(UB(k)) + Cardinality(B[n])
      BY <2>2, <2>3, <2>4, <2>5, DisjointUnion
    <2>7. /\ IsFiniteSet(UE(k + 1))
          /\ Cardinality(UE(k + 1)) = Cardinality(UE(k)) + Cardinality(E[n])
      BY <2>2, <2>3, <2>4, <2>5, DisjointUnion
    <2>8. PICK b \in Nat, e \in Nat, c \in Nat, d \in Nat :
            /\ b = Cardinality(UB(k)) /\ e = Cardinality(UE(k))
            /\ c = Cardinality(B[n]) /\ d = Cardinality(E[n])
      BY <2>4, <2>5, FS_CardinalityType
    <2>9. unit * (b + c) = unit * b + unit * c /\ (k + 1) * (unit - 1) = k * (unit - 1) + (unit - 1)
          /\ unit * b \in Nat /\ unit * c \in Nat /\ k * (unit - 1) \in Nat
      OBVIOUS
    <2>10. unit * (b + c) <= (e + d) + (unit - 1) /\ e + d <= unit * (b + c) + (k + 1) * (unit - 1)
      BY <2>4, <2>5, <2>8, <2>9
    <2> QED
      BY <2>1, <2>6, <2>7, <2>8, <2>10
  <1> HIDE DEF Good
  <1>3. bad = {}
    <2> SUFFICES ASSUME bad # {} PROVE FALSE
      OBVIOUS
    <2>1. bad \in SUBSET Nat
      OBVIOUS
    <2>2. PICK k \in bad : \A m \in bad : k <= m
      BY <2>1, LeastNatural
    <2>3. k # 0
      BY <1>1, <2>2
    <2>4. k - 1 \in 0..(last - first) /\ (k - 1) + 1 = k /\ k - 1 \notin bad
      BY <2>1, <2>2, <2>3
    <2>5. Good(k - 1) /\ (k - 1) + 1 <= last - first
      BY <2>2, <2>4
    <2> QED
      BY <1>2, <2>2, <2>4, <2>5
  <1>4. Good(last - first) /\ last - first \in Nat /\ first + (last - first) = last
    BY <1>3
  <1>5. IF last - first = 0 THEN 0 <= unit - 1 ELSE TRUE
    OBVIOUS
  <1>6. UB(last - first) = AllOf(B, first, last) /\ UE(last - first) = AllOf(E, first, last)
    BY <1>4 DEF AllOf
  <1>7. /\ unit * Cardinality(UB(last - first))
             <= Cardinality(UE(last - first)) + (IF last - first = 0 THEN 0 ELSE unit - 1)
        /\ Cardinality(UE(last - first))
             <= unit * Cardinality(UB(last - first)) + (last - first) * (unit - 1)
        /\ Cardinality(UE(last - first)) \in Nat /\ Cardinality(UB(last - first)) \in Nat
    BY <1>4, FS_CardinalityType DEF Good
  <1> HIDE DEF UB, UE
  <1>8. unit * Cardinality(UB(last - first)) \in Nat
    <2>1. \A m \in Nat : unit * m \in Nat
      OBVIOUS
    <2> QED
      BY <1>7, <2>1
  <1>9. unit * Cardinality(UB(last - first)) <= Cardinality(UE(last - first)) + (unit - 1)
    <2>1. CASE last - first = 0
      BY <1>7, <1>8, <2>1
    <2>2. CASE last - first # 0
      BY <1>7, <2>2
    <2> QED
      BY <2>1, <2>2
  <1> QED
    BY <1>6, <1>7, <1>9

(* The stretches in order, the open one last.                              *)
StretchCount == Len(spans) + (IF since = Never THEN 0 ELSE 1)
StretchAt(i) == IF i <= Len(spans) THEN spans[i] ELSE <<since, now>>

(* What was sealed, in whole seconds, and stretches that never overlap.    *)
SpansOK ==
  \A i \in 1..Len(spans) :
    /\ spans[i][1] <= spans[i][2]
    /\ closed[i] = (spans[i][2] - spans[i][1]) \div Second
    /\ \A j \in 1..Len(spans) : i < j => spans[i][2] <= spans[j][1]
    /\ since # Never => spans[i][2] <= since

(* A session's baseline tells the stretches that ended before it from      *)
(* those that did not, and how much of the first of these was over.        *)
BaselineOK(s) ==
  /\ \A i \in 1..s.base.count : spans[i][2] <= s.start
  /\ \A i \in (s.base.count + 1)..Len(spans) : s.start <= spans[i][2]
  /\ StretchCount = s.base.count => s.base.open = 0
  /\ s.base.count < StretchCount =>
       LET began == StretchAt(s.base.count + 1)[1]
       IN  s.base.open = IF began <= s.start THEN (s.start - began) \div Second ELSE 0

BillingOK == SpansOK /\ \A s \in sessions : BaselineOK(s)

LEMMA CountsAreNatural ==
  ASSUME TrackerTypeOK
  PROVE  /\ Len(spans) \in Nat /\ Len(closed) = Len(spans) /\ now \in Nat
         /\ StretchCount \in Nat
         /\ since = Never => StretchCount = Len(spans)
         /\ since # Never => StretchCount = Len(spans) + 1 /\ since \in 0..now
         /\ Len(Intervals) = StretchCount
  <1>1. /\ Len(spans) \in Nat /\ Len(closed) = Len(spans) /\ now \in Nat
        /\ since # Never => since \in 0..now
    BY TrackerAssumption DEF TrackerTypeOK
  <1>2. /\ StretchCount \in Nat
        /\ since = Never => StretchCount = Len(spans)
        /\ since # Never => StretchCount = Len(spans) + 1
    BY <1>1 DEF StretchCount
  <1>3. Len(Intervals) = StretchCount
    <2>1. CASE since = Never
      BY <1>1, <1>2, <2>1 DEF Intervals
    <2>2. CASE since # Never
      <3>1. Len(Append(closed, SecondsSince(since))) = Len(closed) + 1
        BY AppendProperties DEF TrackerTypeOK
      <3> QED
        BY <1>1, <1>2, <2>2, <3>1 DEF Intervals
    <2> QED
      BY <2>1, <2>2
  <1> QED
    BY <1>1, <1>2, <1>3

(* Each stretch, whether sealed or open.                                   *)
LEMMA StretchFacts ==
  ASSUME TrackerTypeOK, SpansOK, NEW i \in 1..StretchCount
  PROVE  /\ StretchAt(i)[1] \in Nat /\ StretchAt(i)[2] \in Nat
         /\ StretchAt(i)[1] <= StretchAt(i)[2] /\ StretchAt(i)[2] <= now
         /\ Intervals[i] = (StretchAt(i)[2] - StretchAt(i)[1]) \div Second
  <1>1. CASE i <= Len(spans)
    <2>1. i \in 1..Len(spans) /\ StretchAt(i) = spans[i] /\ i \in 1..Len(closed)
      BY <1>1, CountsAreNatural DEF StretchAt
    <2>2. spans[i] \in (0..now) \X (0..now)
      BY <2>1 DEF TrackerTypeOK
    <2>3. Intervals[i] = closed[i]
      <3>1. CASE since = Never
        BY <3>1 DEF Intervals
      <3>2. CASE since # Never
        <4>1. Append(closed, SecondsSince(since))[i] = closed[i]
          BY <2>1 DEF TrackerTypeOK
        <4> QED
          BY <3>2, <4>1 DEF Intervals
      <3> QED
        BY <3>1, <3>2
    <2>4. spans[i][1] \in Nat /\ spans[i][2] \in Nat /\ spans[i][2] <= now
      BY <2>2, CountsAreNatural
    <2> QED
      BY <2>1, <2>3, <2>4 DEF SpansOK
  <1>2. CASE ~(i <= Len(spans))
    <2>1. since # Never /\ i = Len(closed) + 1 /\ since \in 0..now /\ now \in Nat
      BY <1>2, CountsAreNatural
    <2>2. StretchAt(i) = <<since, now>>
      BY <1>2 DEF StretchAt
    <2>3. Append(closed, SecondsSince(since))[i] = SecondsSince(since)
      BY <2>1 DEF TrackerTypeOK
    <2>4. Intervals[i] = (now - since) \div Second
      BY <2>1, <2>3 DEF Intervals, SecondsSince
    <2> QED
      BY <2>1, <2>2, <2>4
  <1> QED
    BY <1>1, <1>2

LEMMA StretchesInOrder ==
  ASSUME TrackerTypeOK, SpansOK, NEW i \in 1..StretchCount, NEW j \in 1..StretchCount, i < j
  PROVE  StretchAt(i)[2] <= StretchAt(j)[1]
  <1>1. i \in 1..Len(spans) /\ StretchAt(i) = spans[i]
    BY CountsAreNatural DEF StretchAt
  <1>2. CASE j <= Len(spans)
    <2>1. j \in 1..Len(spans) /\ StretchAt(j) = spans[j]
      BY <1>2, CountsAreNatural DEF StretchAt
    <2> QED
      BY <1>1, <2>1 DEF SpansOK
  <1>3. CASE ~(j <= Len(spans))
    <2>1. since # Never /\ StretchAt(j) = <<since, now>>
      BY <1>3, CountsAreNatural DEF StretchAt
    <2> QED
      BY <1>1, <2>1 DEF SpansOK
  <1> QED
    BY <1>2, <1>3

LEMMA StretchesAre ==
  ASSUME TrackerTypeOK
  PROVE  Stretches = {StretchAt(i) : i \in 1..StretchCount}
  <1>1. Range(spans) = {spans[i] : i \in 1..Len(spans)}
    <2>1. DOMAIN spans = 1..Len(spans)
      BY DEF TrackerTypeOK
    <2> QED
      BY <2>1 DEF Range
  <1>2. \A i \in 1..Len(spans) : StretchAt(i) = spans[i]
    BY DEF StretchAt
  <1>3. CASE since = Never
    BY <1>1, <1>2, <1>3, CountsAreNatural DEF Stretches
  <1>4. CASE since # Never
    <2>1. 1..StretchCount = 1..Len(spans) \cup {Len(spans) + 1}
      BY <1>4, CountsAreNatural
    <2>2. StretchAt(Len(spans) + 1) = <<since, now>>
      BY CountsAreNatural DEF StretchAt
    <2>3. {StretchAt(i) : i \in 1..StretchCount} = Range(spans) \cup {<<since, now>>}
      <3> DEFINE n == Len(spans) + 1
                 open == <<since, now>>
      <3>1. 1..StretchCount = 1..Len(spans) \cup {n} /\ StretchAt(n) = open
        BY <2>1, <2>2
      <3> HIDE DEF n, open
      <3>2. {StretchAt(i) : i \in 1..StretchCount} = Range(spans) \cup {open}
        BY <1>1, <1>2, <3>1
      <3> QED
        BY <3>2 DEF open
    <2> QED
      BY <1>4, <2>3 DEF Stretches
  <1> QED
    BY <1>3, <1>4

Ticks(from, to) == IF from > to THEN 0 ELSE to - from + 1

LEMMA IntervalSize ==
  ASSUME NEW from \in Int, NEW to \in Int
  PROVE  IsFiniteSet(from..to) /\ Cardinality(from..to) = Ticks(from, to)
  BY FS_Interval, Zenon DEF Ticks

(* What a session is charged of one stretch, and what it lost there.       *)
Charged(s, grace, i) ==
  {i} \X {second \in 1..Intervals[i] : second > Forgiven(s.base, grace, i = s.base.count + 1)}

Lost(s, grace, i) ==
  {t \in (StretchAt(i)[1] + grace * Second)..(StretchAt(i)[2] - 1) : t >= s.start}

LEMMA StretchIsBilled ==
  ASSUME TypeOK, BillingOK, NEW grace \in Nat, NEW s \in sessions,
         NEW i \in (s.base.count + 1)..StretchCount
  PROVE  /\ IsFiniteSet(Charged(s, grace, i)) /\ IsFiniteSet(Lost(s, grace, i))
         /\ Second * Cardinality(Charged(s, grace, i))
              <= Cardinality(Lost(s, grace, i)) + (IF i = s.base.count + 1 THEN Second - 1 ELSE 0)
         /\ Cardinality(Lost(s, grace, i))
              <= Second * Cardinality(Charged(s, grace, i)) + (Second - 1)
  <1> DEFINE first == s.base.count + 1
             b == StretchAt(i)[1]
             e == StretchAt(i)[2]
             f == Forgiven(s.base, grace, i = first)
             charged == {second \in 1..Intervals[i] : second > f}
             lost == {t \in (b + grace * Second)..(e - 1) : t >= s.start}
             billed == IF Intervals[i] > f THEN Intervals[i] - f ELSE 0
             lower == IF b + grace * Second >= s.start THEN b + grace * Second ELSE s.start
             exact == IF e > lower THEN e - lower ELSE 0
  <1>1. TrackerTypeOK /\ SpansOK /\ BaselineOK(s) /\ Second \in Nat \ {0}
    BY TrackerAssumption DEF TypeOK, BillingOK
  <1>2. /\ s.start \in Nat /\ s.start <= now
        /\ s.base.count \in Nat /\ s.base.count <= Len(closed) /\ s.base.open \in Nat
    <2>1. s \in [start : 0..now, base : [count : 0..Len(closed), open : 0..MaxTime]]
      BY DEF TypeOK
    <2> QED
      BY <1>1, <2>1, CountsAreNatural, TrackerAssumption
  <1>3. i \in 1..StretchCount /\ first \in 1..StretchCount /\ first <= i /\ i \in Nat
    BY <1>1, <1>2, CountsAreNatural
  <1>4. b \in Nat /\ e \in Nat /\ b <= e /\ e <= now /\ Intervals[i] = (e - b) \div Second
    BY <1>1, <1>3, StretchFacts
  <1>5. Intervals[i] \in Nat
    BY <1>1, <1>4
  <1>6. f = IF i = first /\ s.base.open > grace THEN s.base.open ELSE grace
    BY DEF Forgiven
  <1>7. f \in Nat
    BY <1>2, <1>6
  <1>8. s.start <= e
    <2>1. CASE first <= Len(spans)
      <3>1. first \in (s.base.count + 1)..Len(spans) /\ StretchAt(first) = spans[first]
        BY <1>1, <1>2, <2>1, CountsAreNatural DEF StretchAt
      <3>2. s.start <= StretchAt(first)[2]
        BY <1>1, <3>1 DEF BaselineOK
      <3>3. CASE i = first
        BY <3>2, <3>3
      <3>4. CASE first < i
        <4>1. StretchAt(first)[2] <= b
          BY <1>1, <1>3, <3>4, StretchesInOrder
        <4>2. StretchAt(first)[2] \in Nat
          BY <1>1, <1>3, StretchFacts
        <4> QED
          BY <1>2, <1>4, <3>2, <4>1, <4>2
      <3> QED
        BY <1>2, <1>3, <3>3, <3>4
    <2>2. CASE ~(first <= Len(spans))
      <3>1. e = now
        BY <1>1, <1>2, <1>3, <2>2, CountsAreNatural DEF StretchAt
      <3> QED
        BY <1>2, <3>1
    <2> QED
      BY <2>1, <2>2
  <1>9. i # first => s.start <= b
    <2> SUFFICES ASSUME i # first PROVE s.start <= b
      OBVIOUS
    <2>1. first < i /\ first <= Len(spans)
      BY <1>1, <1>2, <1>3, CountsAreNatural
    <2>2. first \in (s.base.count + 1)..Len(spans) /\ StretchAt(first) = spans[first]
      BY <1>1, <1>2, <2>1, CountsAreNatural DEF StretchAt
    <2>3. s.start <= StretchAt(first)[2]
      BY <1>1, <2>2 DEF BaselineOK
    <2>4. StretchAt(first)[2] <= b
      BY <1>1, <1>3, <2>1, StretchesInOrder
    <2>5. StretchAt(first)[2] \in Nat
      BY <1>1, <1>3, StretchFacts
    <2> QED
      BY <1>2, <1>4, <2>3, <2>4, <2>5
  <1>10. i = first => s.base.open = IF b <= s.start THEN (s.start - b) \div Second ELSE 0
    BY <1>1, <1>2, <1>3, CountsAreNatural DEF BaselineOK
  <1> HIDE DEF f, b, e, first
  <1>11. IsFiniteSet({i} \X charged) /\ Cardinality({i} \X charged) = billed
    <2>1. charged = (f + 1)..Intervals[i]
      BY <1>5, <1>7
    <2>2. IsFiniteSet(charged) /\ Cardinality(charged) = billed
      <3>1. f + 1 \in Int /\ Intervals[i] \in Int
        BY <1>5, <1>7
      <3>2. /\ IsFiniteSet((f + 1)..Intervals[i])
            /\ Cardinality((f + 1)..Intervals[i]) = Ticks(f + 1, Intervals[i])
        BY <3>1, IntervalSize
      <3>3. Ticks(f + 1, Intervals[i]) = billed
        BY <1>5, <1>7 DEF Ticks
      <3> QED
        BY <2>1, <3>2, <3>3
    <2>3. IsFiniteSet({i}) /\ Cardinality({i}) = 1
      BY FS_Singleton
    <2>4. billed \in Nat
      BY <1>5, <1>7
    <2> HIDE DEF charged, billed
    <2>5. IsFiniteSet({i} \X charged) /\ Cardinality({i} \X charged) = 1 * billed
      BY <2>2, <2>3, FS_Product
    <2> QED
      BY <2>4, <2>5
  <1>12. IsFiniteSet(lost) /\ Cardinality(lost) = exact
    <2>1. grace * Second \in Nat
      BY <1>1
    <2>2. lower \in Nat /\ lost = lower..(e - 1)
      BY <1>2, <1>4, <2>1
    <2> HIDE DEF lower, lost
    <2>3. lower \in Int /\ e - 1 \in Int
      BY <1>4, <2>2
    <2>4. IsFiniteSet(lower..(e - 1)) /\ Cardinality(lower..(e - 1)) = Ticks(lower, e - 1)
      BY <2>3, IntervalSize
    <2>5. Ticks(lower, e - 1) = exact
      BY <1>4, <2>2 DEF Ticks
    <2> QED
      BY <2>2, <2>4, <2>5
  <1>13. Second * billed <= exact + (IF i = first THEN Second - 1 ELSE 0)
         /\ exact <= Second * billed + (Second - 1)
    <2> DEFINE length == e - b
               past == Second * grace
    <2>1. length \in Nat /\ past \in Nat /\ grace * Second = past
      BY <1>1, <1>4
    <2>2. CASE s.start <= b /\ f = grace
      <3>1. exact = IF length > past THEN length - past ELSE 0
        BY <1>2, <1>4, <2>1, <2>2
      <3>2. billed = IF length \div Second > grace THEN length \div Second - grace ELSE 0
        BY <1>4, <2>2
      <3> HIDE DEF length, exact, billed
      <3>3. Second * billed <= exact /\ exact <= Second * billed + (Second - 1)
        BY <1>1, <2>1, <3>1, <3>2, WholeStretch DEF past
      <3>4. exact \in Nat /\ Second * billed \in Int
        BY <1>1, <1>5, <1>7, <1>4, <2>1, <2>2, <3>1 DEF billed, length
      <3> QED
        BY <1>1, <3>3, <3>4
    <2>3. CASE i = first /\ b <= s.start
      <3> DEFINE before == s.start - b
                 after == e - s.start
      <3>1. before \in Nat /\ after \in Nat /\ before + after = length
        BY <1>2, <1>4, <1>8, <2>3
      <3>2. f = SecondsForgiven(Second, before, grace)
        BY <1>6, <1>10, <2>3 DEF SecondsForgiven
      <3>3. exact = TicksLost(before, after, past)
        BY <1>2, <1>4, <1>8, <2>1, <2>3 DEF TicksLost
      <3>4. billed = SecondsBilled(Second, before + after, f)
        BY <1>4, <3>1 DEF SecondsBilled
      <3> HIDE DEF exact, billed, before, after
      <3>5. Second * billed <= exact + (Second - 1) /\ exact <= Second * billed + (Second - 1)
        BY <1>1, <3>1, <3>2, <3>3, <3>4, StretchAtStart, Zenon
      <3> QED
        BY <2>3, <3>5
    <2>4. (s.start <= b /\ f = grace) \/ (i = first /\ b <= s.start)
      <3>1. CASE i = first /\ ~(b <= s.start)
        BY <1>2, <1>4, <1>6, <1>10, <3>1
      <3>2. CASE i # first
        BY <1>6, <1>9, <3>2
      <3> QED
        BY <3>1, <3>2
    <2> QED
      BY <2>2, <2>3, <2>4
  <1>14. /\ IsFiniteSet({i} \X charged) /\ IsFiniteSet(lost)
         /\ Second * Cardinality({i} \X charged)
              <= Cardinality(lost) + (IF i = first THEN Second - 1 ELSE 0)
         /\ Cardinality(lost) <= Second * Cardinality({i} \X charged) + (Second - 1)
    BY <1>11, <1>12, <1>13
  <1> QED
    BY <1>14, Zenon DEF first, f, b, e, Charged, Lost

(* What BillsItsOwnIdleTime says, of a state that satisfies the invariant. *)
LEMMA BillsAreRight ==
  ASSUME TypeOK, BillingOK, NEW grace \in Nat, NEW s \in sessions
  PROVE  LET billed == Second * BillableIdleSecondsSince(s.base, grace)
             exact == Cardinality({t \in PastGrace(grace) : t >= s.start})
             new == Len(Intervals) - s.base.count
         IN  /\ billed <= exact + (Second - 1)
             /\ exact <= billed + new * (Second - 1)
  <1> DEFINE first == s.base.count
             last == StretchCount
             B == [i \in (first + 1)..last |-> Charged(s, grace, i)]
             E == [i \in (first + 1)..last |-> Lost(s, grace, i)]
             ticks(i) == (StretchAt(i)[1] + grace * Second)..(StretchAt(i)[2] - 1)
  <1>1. TrackerTypeOK /\ SpansOK /\ BaselineOK(s) /\ Second \in Nat \ {0}
    BY TrackerAssumption DEF TypeOK, BillingOK
  <1>2. /\ first \in Nat /\ first <= Len(spans) /\ last \in Nat /\ first <= last
        /\ Len(spans) \in Nat /\ s.start \in Nat /\ Len(Intervals) = last
    <2>1. s \in [start : 0..now, base : [count : 0..Len(closed), open : 0..MaxTime]]
      BY DEF TypeOK
    <2> QED
      BY <1>1, <2>1, CountsAreNatural
  <1>3. ASSUME NEW i \in (first + 1)..last
        PROVE  /\ IsFiniteSet(B[i]) /\ IsFiniteSet(E[i])
               /\ Second * Cardinality(B[i])
                    <= Cardinality(E[i]) + (IF i = first + 1 THEN Second - 1 ELSE 0)
               /\ Cardinality(E[i]) <= Second * Cardinality(B[i]) + (Second - 1)
    <2>1. B[i] = Charged(s, grace, i) /\ E[i] = Lost(s, grace, i)
      OBVIOUS
    <2> HIDE DEF B, E
    <2> QED
      BY <2>1, StretchIsBilled
  <1>4. \A i, j \in (first + 1)..last : i < j => B[i] \cap B[j] = {} /\ E[i] \cap E[j] = {}
    <2> SUFFICES ASSUME NEW i \in (first + 1)..last, NEW j \in (first + 1)..last, i < j
                 PROVE  B[i] \cap B[j] = {} /\ E[i] \cap E[j] = {}
      OBVIOUS
    <2>1. i \in 1..last /\ j \in 1..last /\ i # j
      BY <1>2
    <2>2. B[i] \cap B[j] = {}
      <3>1. Charged(s, grace, i) \cap Charged(s, grace, j) = {}
        BY <2>1 DEF Charged
      <3> QED
        BY <3>1
    <2>3. ticks(i) \cap ticks(j) = {}
      <3>1. /\ StretchAt(i)[2] <= StretchAt(j)[1]
            /\ StretchAt(i)[1] \in Nat /\ StretchAt(i)[2] \in Nat
            /\ StretchAt(j)[1] \in Nat /\ StretchAt(j)[2] \in Nat
        BY <1>1, <2>1, StretchFacts, StretchesInOrder
      <3>2. grace * Second \in Nat
        BY <1>1
      <3> QED
        BY <3>1, <3>2
    <2> HIDE DEF ticks
    <2>4. Lost(s, grace, i) \subseteq ticks(i) /\ Lost(s, grace, j) \subseteq ticks(j)
      BY DEF Lost, ticks
    <2> QED
      BY <2>2, <2>3, <2>4
  <1>5. BillableIdleSecondsSince(s.base, grace) = Cardinality(AllOf(B, first, last))
    <2>1. {Charged(s, grace, i) : i \in (first + 1)..last} = {B[i] : i \in (first + 1)..last}
      OBVIOUS
    <2>2. BillableIdleSecondsSince(s.base, grace) =
            Cardinality(UNION {Charged(s, grace, i) : i \in (first + 1)..last})
      BY <1>2, Zenon DEF BillableIdleSecondsSince, Charged
    <2> QED
      BY <2>1, <2>2 DEF AllOf
  <1>6. {t \in PastGrace(grace) : t >= s.start} = AllOf(E, first, last)
    <2>1. PastGrace(grace) = UNION {ticks(i) : i \in 1..last}
      BY <1>1, StretchesAre DEF PastGrace
    <2>2. ASSUME NEW i \in 1..first PROVE Lost(s, grace, i) = {}
      <3>1. i \in 1..Len(spans) /\ StretchAt(i) = spans[i] /\ i \in 1..last
        BY <1>2 DEF StretchAt
      <3>2. StretchAt(i)[2] <= s.start
        BY <1>1, <3>1 DEF BaselineOK
      <3>3. StretchAt(i)[1] \in Nat /\ StretchAt(i)[2] \in Nat
        BY <1>1, <3>1, StretchFacts
      <3>4. grace * Second \in Nat
        BY <1>1
      <3> QED
        BY <1>2, <3>2, <3>3, <3>4 DEF Lost
    <2>3. \A i \in (first + 1)..last : E[i] = Lost(s, grace, i)
      OBVIOUS
    <2>4. 1..last = 1..first \cup (first + 1)..last
      BY <1>2
    <2>5. {t \in UNION {ticks(i) : i \in 1..last} : t >= s.start} = UNION {Lost(s, grace, i) : i \in 1..last}
      <3> HIDE DEF ticks, last
      <3> QED
        BY DEF Lost, ticks
    <2> HIDE DEF E, ticks, last, first
    <2>6. UNION {Lost(s, grace, i) : i \in 1..last} = UNION {E[i] : i \in (first + 1)..last}
      BY <2>2, <2>3, <2>4
    <2> QED
      BY <2>1, <2>5, <2>6 DEF AllOf
  <1> HIDE DEF B, E, first, last
  <1>7. PartsBounded(Second, first, last, B, E)
    BY <1>3, <1>4 DEF PartsBounded
  <1>8. LET billed == Second * Cardinality(AllOf(B, first, last))
            exact == Cardinality(AllOf(E, first, last))
        IN  /\ billed <= exact + (Second - 1)
            /\ exact <= billed + (last - first) * (Second - 1)
    BY <1>1, <1>2, <1>7, BoundsAddUp
  <1> QED
    BY <1>2, <1>5, <1>6, <1>8 DEF first

-----------------------------------------------------------------------------
(* The clock moves, or the tracker sees an edge, or neither.               *)
LEMMA TrackerMoves ==
  ASSUME [Next]_vars
  PROVE  \/ Tick
         \/ /\ now' = now /\ UNCHANGED sessions
            /\ UNCHANGED tracker \/ \E idle \in BOOLEAN : SetIdle(idle)
  <1> USE DEF thread, async, environment, socket
  <1>1. CASE UNCHANGED vars
    BY <1>1 DEF vars
  <1>2. CASE UserMoves \/ CompositorIdles \/ CompositorStarts \/ CompositorDies
    BY <1>2 DEF UserMoves, CompositorIdles, CompositorStarts, CompositorDies
  <1>3. CASE OpenConnection \/ RegistryRoundtrip \/ ArmRoundtrip \/ ConnectFails \/ Report
    BY <1>3 DEF OpenConnection, RegistryRoundtrip, ArmRoundtrip, ConnectFails, Report
  <1>4. CASE Dispatch
    <2>1. (Head(events) = "Idled") \in BOOLEAN
      OBVIOUS
    <2> QED
      BY <1>4, <2>1 DEF Dispatch
  <1>5. CASE DispatchFails
    BY <1>5 DEF DispatchFails, Seal
  <1>6. CASE HearReport \/ WatchdogFires \/ DropReceiver \/ NoLogind \/ StreamEnds \/ Shutdown
    BY <1>6 DEF HearReport, WatchdogFires, DropReceiver, NoLogind, StreamEnds, Shutdown
  <1>7. CASE StartLogind \/ HearHint
    <2>1. PICK idle \in {user = "away", FALSE} : SetIdle(idle)
      BY <1>7 DEF StartLogind, HearHint
    <2>2. now' = now /\ UNCHANGED sessions
      BY <1>7 DEF StartLogind, HearHint
    <2> QED
      BY <2>1, <2>2
  <1> QED
    BY <1>1, <1>2, <1>3, <1>4, <1>5, <1>6, <1>7 DEF Next, Environment, Worker, Task

(* An edge opens an interval now, or seals the open one.                   *)
LEMMA Edges ==
  ASSUME NEW idle \in BOOLEAN, SetIdle(idle)
  PROVE  \/ UNCHANGED <<closed, since, spans>>
         \/ since = Never /\ since' = now /\ UNCHANGED <<closed, spans>>
         \/ /\ since # Never /\ since' = Never
            /\ closed' = Append(closed, SecondsSince(since))
            /\ spans' = Append(spans, <<since, now>>)
  BY DEF SetIdle, tracker

LEMMA OpeningKeepsBills ==
  ASSUME TypeOK, BillingOK, TypeOK', since = Never, since' = now, now' = now,
         UNCHANGED <<closed, spans, sessions>>
  PROVE  BillingOK'
  <1>1. TrackerTypeOK /\ TrackerTypeOK' /\ SpansOK
    BY DEF TypeOK, BillingOK
  <1>2. \A i \in 1..Len(spans) : spans[i][2] <= now
    <2>1. \A i \in 1..Len(spans) : spans[i] \in (0..now) \X (0..now)
      BY <1>1 DEF TrackerTypeOK
    <2> QED
      BY <2>1
  <1>3. SpansOK'
    BY <1>1, <1>2 DEF SpansOK
  <1>4. now # Never /\ now \in Nat /\ Never' = Never
    BY <1>1, TrackerAssumption DEF TrackerTypeOK, Never
  <1>5. StretchCount = Len(spans) /\ StretchCount' = Len(spans) + 1 /\ Len(spans) \in Nat
        /\ Len(closed) = Len(spans)
    BY <1>1, <1>4, CountsAreNatural DEF StretchCount
  <1>6. ASSUME NEW s \in sessions PROVE BaselineOK(s)'
    <2>1. s \in [start : 0..now, base : [count : 0..Len(closed), open : 0..MaxTime]]
      BY DEF TypeOK
    <2>2. BaselineOK(s) /\ s.start \in Nat /\ s.start <= now /\ s.base.count \in 0..Len(spans)
      BY <1>4, <1>5, <2>1 DEF BillingOK
    <2>3. s.base.count + 1 <= Len(spans) =>
            /\ StretchAt(s.base.count + 1)' = StretchAt(s.base.count + 1)
            /\ s.base.count < StretchCount
      BY <1>5, <2>2 DEF StretchAt
    <2>4. ~(s.base.count + 1 <= Len(spans)) =>
            StretchAt(s.base.count + 1)'[1] = now /\ s.base.count = StretchCount
      BY <1>5, <2>2 DEF StretchAt
    <2>5. now <= s.start => (s.start - now) \div Second = 0
      <3>1. now <= s.start => s.start - now = 0
        BY <1>4, <2>2
      <3>2. 0 \div Second = 0
        BY TrackerAssumption
      <3> QED
        BY <3>1, <3>2
    <2> QED
      BY <1>5, <2>2, <2>3, <2>4, <2>5 DEF BaselineOK
  <1> QED
    BY <1>3, <1>6 DEF BillingOK

LEMMA SealingKeepsBills ==
  ASSUME TypeOK, BillingOK, TypeOK', since # Never, since' = Never, now' = now,
         closed' = Append(closed, SecondsSince(since)), spans' = Append(spans, <<since, now>>),
         UNCHANGED sessions
  PROVE  BillingOK'
  <1> DEFINE n == Len(spans) + 1
             sealed == <<since, now>>
  <1>1. TrackerTypeOK /\ TrackerTypeOK' /\ SpansOK
    BY DEF TypeOK, BillingOK
  <1>2. /\ Len(spans) \in Nat /\ Len(closed) = Len(spans) /\ now \in Nat /\ since \in 0..now
        /\ StretchCount = n /\ Never' = Never
    BY <1>1, CountsAreNatural DEF Never
  <1>3. /\ Len(spans') = n /\ spans'[n] = sealed /\ closed'[n] = (now - since) \div Second
        /\ \A i \in 1..Len(spans) : spans'[i] = spans[i] /\ closed'[i] = closed[i]
    BY <1>1, <1>2 DEF TrackerTypeOK, SecondsSince
  <1>4. sealed[1] = since /\ sealed[2] = now
    OBVIOUS
  <1> HIDE DEF sealed
  <1>5. SpansOK'
    <2> SUFFICES ASSUME NEW i \in 1..Len(spans')
                 PROVE  /\ spans'[i][1] <= spans'[i][2]
                        /\ closed'[i] = (spans'[i][2] - spans'[i][1]) \div Second
                        /\ \A j \in 1..Len(spans') : i < j => spans'[i][2] <= spans'[j][1]
      BY <1>2 DEF SpansOK
    <2>1. CASE i = n
      BY <1>2, <1>3, <1>4, <2>1
    <2>2. CASE i # n
      <3>1. i \in 1..Len(spans)
        BY <1>2, <1>3, <2>2
      <3>2. \A j \in 1..Len(spans') : j = n \/ j \in 1..Len(spans)
        BY <1>2, <1>3
      <3> HIDE DEF n
      <3> QED
        BY <1>1, <1>3, <1>4, <3>1, <3>2 DEF SpansOK
    <2> QED
      BY <2>1, <2>2
  <1>6. StretchCount' = StretchCount
    BY <1>2, <1>3 DEF StretchCount
  <1>7. \A i \in 1..n : StretchAt(i)' = StretchAt(i)
    BY <1>2, <1>3 DEF StretchAt, sealed
  <1>8. ASSUME NEW s \in sessions PROVE BaselineOK(s)'
    <2>1. s \in [start : 0..now, base : [count : 0..Len(closed), open : 0..MaxTime]]
      BY DEF TypeOK
    <2>2. BaselineOK(s) /\ s.start \in Nat /\ s.start <= now /\ s.base.count \in 0..Len(spans)
      BY <1>2, <2>1 DEF BillingOK
    <2>3. s.base.count + 1 \in 1..n
      BY <1>2, <2>2
    <2>4. \A i \in 1..s.base.count : spans'[i][2] <= s.start
      <3>1. \A i \in 1..s.base.count : i \in 1..Len(spans)
        BY <1>2, <2>2
      <3> QED
        BY <1>3, <2>2, <3>1 DEF BaselineOK
    <2>5. \A i \in (s.base.count + 1)..Len(spans') : s.start <= spans'[i][2]
      <3>1. \A i \in (s.base.count + 1)..Len(spans') :
              i = n \/ i \in (s.base.count + 1)..Len(spans)
        BY <1>2, <1>3, <2>2
      <3>2. \A i \in (s.base.count + 1)..Len(spans) : i \in 1..Len(spans)
        BY <1>2, <2>2
      <3> HIDE DEF n
      <3> QED
        BY <1>3, <1>4, <2>2, <3>1, <3>2 DEF BaselineOK
    <2> QED
      BY <1>6, <1>7, <2>2, <2>3, <2>4, <2>5 DEF BaselineOK
  <1> QED
    BY <1>5, <1>8 DEF BillingOK

(* A session that opens at a tick, or just after it, starts with what the  *)
(* tracker shows then.                                                     *)
LEMMA BaselineBegins ==
  ASSUME TrackerTypeOK, NEW s, s.start \in {now, now + 1}, s.base.count = Len(closed),
         s.base.open = IF since = Never THEN 0 ELSE (s.start - since) \div Second
  PROVE  BaselineOK(s)
  <1>1. /\ Len(spans) \in Nat /\ s.base.count = Len(spans) /\ now \in Nat
        /\ since = Never => StretchCount = Len(spans)
        /\ since # Never => StretchCount = Len(spans) + 1 /\ since \in 0..now
    BY CountsAreNatural
  <1>2. \A i \in 1..Len(spans) : spans[i][2] <= s.start
    <2>1. \A i \in 1..Len(spans) : spans[i] \in (0..now) \X (0..now)
      BY DEF TrackerTypeOK
    <2> QED
      BY <1>1, <2>1
  <1>3. since # Never => StretchAt(Len(spans) + 1)[1] = since
    BY <1>1 DEF StretchAt
  <1> QED
    BY <1>1, <1>2, <1>3 DEF BaselineOK

LEMMA TickKeepsBills ==
  ASSUME TypeOK, BillingOK, TypeOK', Tick
  PROVE  BillingOK'
  <1>1. TrackerTypeOK /\ TrackerTypeOK' /\ SpansOK
    BY DEF TypeOK, BillingOK
  <1>2. UNCHANGED <<closed, since, spans>> /\ now' = now + 1 /\ now \in Nat
    BY <1>1, TrackerAssumption DEF Tick, tracker, TrackerTypeOK
  <1>3. SpansOK'
    BY <1>1, <1>2 DEF SpansOK, Never
  <1>4. ASSUME NEW s \in sessions' PROVE BaselineOK(s)
    <2>1. CASE s \in sessions
      BY <2>1 DEF BillingOK
    <2>2. CASE s = [start |-> now, base |-> SessionStartBaseline]
      <3>1. /\ s.start = now /\ s.base.count = Len(closed)
            /\ s.base.open = IF since = Never THEN 0 ELSE (now - since) \div Second
        BY <2>2 DEF SessionStartBaseline, SecondsSince
      <3> QED
        BY <1>1, <3>1, BaselineBegins
    <2>3. CASE s = [start |-> now + 1, base |-> SessionStartBaseline']
      <3>1. /\ s.start = now + 1 /\ s.base.count = Len(closed)
            /\ s.base.open = IF since = Never THEN 0 ELSE ((now + 1) - since) \div Second
        BY <1>2, <2>3 DEF SessionStartBaseline, SecondsSince, Never
      <3> QED
        BY <1>1, <3>1, BaselineBegins
    <2> QED
      BY <2>1, <2>2, <2>3 DEF Tick, SessionsOfTick
  <1>5. ASSUME NEW s \in sessions' PROVE BaselineOK(s)'
    <2>1. BaselineOK(s)
      BY <1>4
    <2>2. StretchCount' = StretchCount
      BY <1>2 DEF StretchCount, Never
    <2>3. StretchAt(s.base.count + 1)'[1] = StretchAt(s.base.count + 1)[1]
      BY <1>2 DEF StretchAt
    <2> QED
      BY <1>2, <2>1, <2>2, <2>3 DEF BaselineOK
  <1> QED
    BY <1>3, <1>5 DEF BillingOK

LEMMA BillingStep == ASSUME TypeOK, BillingOK, TypeOK', [Next]_vars PROVE BillingOK'
  <1>1. CASE Tick
    BY <1>1, TickKeepsBills
  <1>2. CASE now' = now /\ UNCHANGED sessions /\ UNCHANGED <<closed, since, spans>>
    <2>1. SpansOK'
      BY <1>2 DEF BillingOK, SpansOK, Never
    <2>2. ASSUME NEW s \in sessions PROVE BaselineOK(s)'
      <3>1. BaselineOK(s)
        BY DEF BillingOK
      <3> QED
        BY <1>2, <3>1 DEF BaselineOK, StretchCount, StretchAt, Never
    <2> QED
      BY <1>2, <2>1, <2>2 DEF BillingOK
  <1>3. CASE now' = now /\ UNCHANGED sessions /\ \E idle \in BOOLEAN : SetIdle(idle)
    <2>1. PICK idle \in BOOLEAN : SetIdle(idle)
      BY <1>3
    <2>2. CASE since = Never /\ since' = now /\ UNCHANGED <<closed, spans>>
      BY <1>3, <2>2, OpeningKeepsBills
    <2>3. CASE /\ since # Never /\ since' = Never
               /\ closed' = Append(closed, SecondsSince(since))
               /\ spans' = Append(spans, <<since, now>>)
      BY <1>3, <2>3, SealingKeepsBills
    <2> QED
      BY <1>2, <1>3, <2>1, <2>2, <2>3, Edges
  <1> QED
    BY <1>1, <1>2, <1>3, TrackerMoves DEF tracker

(* Every reachable state satisfies the invariant of the bill: what         *)
(* set_idle and session_start_baseline keep, idle.rs:106-142, 195-216.     *)
THEOREM BillingHolds == Spec => []BillingOK
  <1>1. Init => BillingOK
    <2> SUFFICES ASSUME Init PROVE BillingOK
      OBVIOUS
    <2>1. spans = << >> /\ sessions = {}
      BY DEF Init, TrackerInit
    <2>2. Len(spans) = 0
      BY <2>1
    <2> QED
      BY <2>1, <2>2 DEF BillingOK, SpansOK
  <1>2. TypeOK /\ TypeOK' /\ BillingOK /\ [Next]_vars => BillingOK'
    BY BillingStep
  <1> QED
    BY <1>1, <1>2, TypesHold, PTL DEF Spec

(* A session is billed its own idle time past the grace, with less than a  *)
(* second too much for all of it and less than a second too little for     *)
(* each absence: billable_idle_seconds_since, idle.rs:144-183.             *)
THEOREM BillsHold == Spec => []BillsItsOwnIdleTime
  <1>1. ASSUME TypeOK, BillingOK PROVE BillsItsOwnIdleTime
    <2>1. ASSUME NEW grace \in Graces, NEW s \in sessions
          PROVE  LET billed == Second * BillableIdleSecondsSince(s.base, grace)
                     exact == Cardinality({t \in PastGrace(grace) : t >= s.start})
                     new == Len(Intervals) - s.base.count
                 IN  /\ billed <= exact + (Second - 1)
                     /\ exact <= billed + new * (Second - 1)
      <3>1. grace \in Nat
        BY SourcesAssumption
      <3> QED
        BY <1>1, <3>1, BillsAreRight
    <2> QED
      BY <2>1 DEF BillsItsOwnIdleTime
  <1> QED
    BY <1>1, TypesHold, BillingHolds, PTL
=============================================================================
