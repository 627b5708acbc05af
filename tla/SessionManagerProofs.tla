------------------------ MODULE SessionManagerProofs ------------------------
(***************************************************************************)
(* What holds of the session manager for every set of keys, every          *)
(* heartbeat interval and every bound.  In four parts:                     *)
(*                                                                         *)
(* The invariants of SessionManager.tla, and its account of the open rows. *)
(*                                                                         *)
(* Its bookkeeping adds up: it implements PlaytimeLedger.tla.              *)
(*                                                                         *)
(* The aggregates of every application are those its closed rows give:     *)
(* StatsMatchClosedRows and LastPlayedIsAClosedRow of SessionStore.tla.    *)
(*                                                                         *)
(* Merging never gives an application two open rows, whoever the command   *)
(* races and whatever the bus told it: OneOpenRowPerApplication of         *)
(* CliMerge.tla.  A merge behind the manager's back takes a tracked row's  *)
(* application away, so the ties of the first part are gone; what is left  *)
(* is that rows have applications and that the manager's entries name      *)
(* distinct rows.  As long as no daemon can be there, those ties hold too, *)
(* and the counters add up.                                                *)
(***************************************************************************)
EXTENDS CliMerge, FiniteSums

USE StoreAssumption, ManagerAssumption

-----------------------------------------------------------------------------
(* What each transaction does to the rows. *)

(* runtimes_for returns a pair the CHECK constraints accept. *)
LEMMA RuntimesAreLegal ==
  ASSUME NEW o \in OpenSession, NEW idle \in IdleBilled,
         now \in Nat, o.started <= now
  PROVE  /\ RuntimesFor(o, idle).full = now - o.started
         /\ RuntimesFor(o, idle).full \in Nat
         /\ RuntimesFor(o, idle).interactive \in Nat
         /\ RuntimesFor(o, idle).interactive <= RuntimesFor(o, idle).full
  BY DEF RuntimesFor, OpenSession

(* Closing an open row ends that row and no other, and leaves the set of   *)
(* applications and their keys alone.                                      *)
LEMMA CloseClosesOneRow ==
  ASSUME StoreTypeOK, NEW s \in OpenRows, NEW a, NEW run, NEW at \in Int,
         run.full \in Nat, run.interactive \in Nat, run.interactive <= run.full,
         NEW reason \in ExitReason, CloseAndRollup(s, a, run, at, reason),
         UNCHANGED <<lastSession, lastApp>>
  PROVE  /\ StoreTypeOK'
         /\ DOMAIN sessions' = DOMAIN sessions
         /\ OpenRows' = OpenRows \ {s}
         /\ \A t \in DOMAIN sessions \ {s} : sessions'[t] = sessions[t]
         /\ sessions'[s].app = sessions[s].app
         /\ sessions'[s].full = run.full
         /\ sessions'[s].ended # NULL
         /\ DOMAIN applications' = DOMAIN applications
         /\ \A b \in DOMAIN applications : applications'[b].key = applications[b].key
  <1>1. s \in DOMAIN sessions /\ sessions[s] \in SessionRow /\ sessions[s].ended = NULL
    BY DEF OpenRows, StoreTypeOK
  <1>2. sessions' = [sessions EXCEPT ![s] = [@ EXCEPT !.ended = at, !.heartbeat = at,
                        !.full = run.full, !.interactive = run.interactive, !.exit = reason]]
    BY DEF CloseAndRollup, StillOpen
  <1>3. /\ sessions'[s] \in SessionRow
        /\ sessions'[s].ended = at /\ sessions'[s].full = run.full
        /\ sessions'[s].interactive = run.interactive
        /\ sessions'[s].app = sessions[s].app
    BY <1>1, <1>2 DEF SessionRow
  <1>4. /\ DOMAIN sessions' = DOMAIN sessions
        /\ \A t \in DOMAIN sessions \ {s} : sessions'[t] = sessions[t]
    BY <1>2
  <1>5. OpenRows' = OpenRows \ {s}
    BY <1>3, <1>4 DEF OpenRows
  <1>6. /\ DOMAIN applications' = DOMAIN applications
        /\ \A b \in DOMAIN applications : applications'[b].key = applications[b].key
    BY DEF CloseAndRollup, StillOpen, RolledUp
  <1>7. StoreTypeOK'
    <2>1. sessions' \in [DOMAIN sessions' -> SessionRow]
      BY <1>2, <1>3, <1>4 DEF StoreTypeOK
    <2>2. \A t \in DOMAIN sessions' : sessions'[t].interactive <= sessions'[t].full
      BY <1>3, <1>4 DEF StoreTypeOK
    <2> QED
      BY <1>4, <1>6, <2>1, <2>2 DEF StoreTypeOK
  <1> QED
    BY <1>3, <1>4, <1>5, <1>6, <1>7

(* A new row is open, belongs to the application named, and is beyond      *)
(* every id in use.                                                        *)
LEMMA BeginAddsOneRow ==
  ASSUME StoreTypeOK, NEW a \in Nat, NEW at \in Int, Begin(a, at)
  PROVE  /\ lastSession + 1 \notin DOMAIN sessions
         /\ DOMAIN sessions' = DOMAIN sessions \cup {lastSession + 1}
         /\ OpenRows' = OpenRows \cup {lastSession + 1}
         /\ \A t \in DOMAIN sessions : sessions'[t] = sessions[t]
         /\ sessions'[lastSession + 1].app = a
         /\ sessions'[lastSession + 1].full = 0
         /\ sessions'[lastSession + 1].ended = NULL
         /\ sessions' \in [DOMAIN sessions' -> SessionRow]
         /\ \A t \in DOMAIN sessions' : sessions'[t].interactive <= sessions'[t].full
         /\ lastSession' \in Nat /\ DOMAIN sessions' \subseteq 1..lastSession'
  <1> DEFINE n == lastSession + 1
  <1>1. n \notin DOMAIN sessions
    BY DEF StoreTypeOK
  <1>2. /\ DOMAIN sessions' = DOMAIN sessions \cup {n}
        /\ sessions'[n] = [app |-> a, ended |-> NULL, heartbeat |-> at,
                           full |-> 0, interactive |-> 0, exit |-> NULL]
        /\ \A t \in DOMAIN sessions : sessions'[t] = sessions[t]
    BY <1>1 DEF Begin
  <1>3. sessions'[n] \in SessionRow
    BY <1>2 DEF SessionRow
  <1>4. sessions' \in [DOMAIN sessions' -> SessionRow]
    BY <1>2, <1>3 DEF Begin, StoreTypeOK
  <1>5. OpenRows' = OpenRows \cup {n}
    BY <1>1, <1>2 DEF OpenRows
  <1>6. \A t \in DOMAIN sessions' : sessions'[t].interactive <= sessions'[t].full
    BY <1>2 DEF StoreTypeOK
  <1>7. lastSession' \in Nat /\ DOMAIN sessions' \subseteq 1..lastSession'
    BY <1>2 DEF Begin, StoreTypeOK
  <1> QED
    BY <1>1, <1>2, <1>4, <1>5, <1>6, <1>7

(* A heartbeat moves the runtimes of open rows and nothing else. *)
LEMMA HeartbeatKeepsRows ==
  ASSUME StoreTypeOK, NEW ids, NEW run, NEW at \in Int,
         \A s \in ids : /\ run[s].full \in Nat /\ run[s].interactive \in Nat
                        /\ run[s].interactive <= run[s].full,
         Heartbeat(ids, run, at), UNCHANGED <<applications, lastSession, lastApp>>
  PROVE  /\ StoreTypeOK'
         /\ DOMAIN sessions' = DOMAIN sessions
         /\ OpenRows' = OpenRows
         /\ \A t \in DOMAIN sessions \ (ids \cap OpenRows) : sessions'[t] = sessions[t]
         /\ \A t \in DOMAIN sessions : sessions'[t].app = sessions[t].app
         /\ \A t \in ids \cap OpenRows :
              /\ sessions'[t].full = run[t].full
              /\ sessions'[t].ended = NULL
  <1>1. DOMAIN sessions' = DOMAIN sessions
    BY DEF Heartbeat
  <1>2. \A t \in DOMAIN sessions \ (ids \cap OpenRows) : sessions'[t] = sessions[t]
    BY DEF Heartbeat, StillOpen
  <1>3. ASSUME NEW t \in ids \cap OpenRows
        PROVE  /\ sessions'[t] \in SessionRow
               /\ sessions'[t].full = run[t].full
               /\ sessions'[t].interactive = run[t].interactive
               /\ sessions'[t].app = sessions[t].app
               /\ sessions'[t].ended = NULL
    <2>1. t \in DOMAIN sessions /\ sessions[t] \in SessionRow /\ sessions[t].ended = NULL
      BY DEF OpenRows, StoreTypeOK
    <2>2. sessions'[t] = [sessions[t] EXCEPT !.heartbeat = at, !.full = run[t].full,
                                             !.interactive = run[t].interactive]
      BY <2>1 DEF Heartbeat, StillOpen
    <2> QED
      BY <2>1, <2>2 DEF SessionRow
  <1>4. sessions' \in [DOMAIN sessions' -> SessionRow]
    <2>1. \A t \in DOMAIN sessions : sessions'[t] \in SessionRow
      BY <1>2, <1>3 DEF StoreTypeOK
    <2> QED
      BY <2>1 DEF Heartbeat
  <1>5. OpenRows' = OpenRows
    BY <1>1, <1>2, <1>3 DEF OpenRows
  <1>6. \A t \in DOMAIN sessions' : sessions'[t].interactive <= sessions'[t].full
    BY <1>1, <1>2, <1>3 DEF StoreTypeOK
  <1>7. StoreTypeOK'
    BY <1>1, <1>4, <1>6 DEF StoreTypeOK
  <1> QED
    BY <1>1, <1>2, <1>3, <1>5, <1>7

(* A delete takes closed rows only. *)
LEMMA DeleteKeepsOpenRows ==
  ASSUME StoreTypeOK, NEW ids, DeleteSessionsAndRecompute(ids)
  PROVE  /\ StoreTypeOK'
         /\ DOMAIN sessions' = DOMAIN sessions \ ids
         /\ OpenRows' = OpenRows
         /\ \A t \in DOMAIN sessions' : sessions'[t] = sessions[t]
         /\ DOMAIN applications' = DOMAIN applications
         /\ \A a \in DOMAIN applications : applications'[a].key = applications[a].key
  <1>1. /\ sessions' = [s \in DOMAIN sessions \ ids |-> sessions[s]]
        /\ DOMAIN applications' = DOMAIN applications
        /\ ids \cap OpenRows = {}
        /\ UNCHANGED <<lastSession, lastApp>>
    BY DEF DeleteSessionsAndRecompute, MayDelete
  <1>2. \A a \in DOMAIN applications : applications'[a].key = applications[a].key
    BY DEF DeleteSessionsAndRecompute, Rebuilt
  <1>3. OpenRows' = OpenRows
    BY <1>1 DEF OpenRows
  <1>4. StoreTypeOK'
    BY <1>1, <1>2 DEF StoreTypeOK
  <1> QED
    BY <1>1, <1>2, <1>3, <1>4

(* Creating an application disturbs none of those there are. *)
LEMMA CreateAddsOneApplication ==
  ASSUME StoreTypeOK, NEW k \in GameKey, CreateApplication(k)
  PROVE  /\ lastApp + 1 \notin DOMAIN applications
         /\ lastApp' \in Nat
         /\ DOMAIN applications' = DOMAIN applications \cup {lastApp + 1}
         /\ DOMAIN applications' \subseteq 1..lastApp'
         /\ applications'[lastApp + 1].key = k
         /\ \A a \in DOMAIN applications : applications'[a] = applications[a]
         /\ \A a \in DOMAIN applications' : applications'[a].key \in GameKey
  <1>1. lastApp + 1 \notin DOMAIN applications
    BY DEF StoreTypeOK
  <1>2. /\ DOMAIN applications' = DOMAIN applications \cup {lastApp + 1}
        /\ applications'[lastApp + 1].key = k
        /\ \A a \in DOMAIN applications : applications'[a] = applications[a]
    BY <1>1 DEF CreateApplication
  <1> QED
    BY <1>1, <1>2 DEF CreateApplication, StoreTypeOK

(* Each failure allows one more interval. *)
LEMMA LagGrows ==
  ASSUME NEW f \in Nat
  PROVE  /\ Lag(f) \in Nat /\ HeartbeatInterval <= Lag(f)
         /\ Lag(f + 1) = Lag(f) + HeartbeatInterval
  <1>1. HeartbeatInterval * f \in Nat
    BY SMT
  <1>2. HeartbeatInterval * (f + 1) = HeartbeatInterval * f + HeartbeatInterval
    BY SMT
  <1> QED
    BY <1>1, <1>2 DEF Lag

-----------------------------------------------------------------------------
(* The steps, in the shapes the actions share. *)

LEMMA ReceiveTakesAnEvent ==
  ASSUME TypeOK, NEW kind, Receive(kind)
  PROVE  /\ Head(inbox) \in GameEvent
         /\ inbox' \in Seq(GameEvent)
         /\ phase = "running"
         /\ UNCHANGED <<phase, nextBeat, feed, stopAt, now, skew>>
  BY DEF Receive, TypeOK, ManagerTypeOK, clockVars, stopVars

(* A session begins and is tracked, for a key that was not, on an          *)
(* application without an open row.                                        *)
LEMMA TrackingPreserves ==
  ASSUME InductiveInvariant, phase = "running",
         NEW k \in GameKey, k \notin DOMAIN open,
         NEW a \in Nat, \A s \in OpenRows : sessions[s].app # a,
         NEW at \in Int, Begin(a, at), Track(k, lastSession + 1, a),
         a \in DOMAIN applications', applications'[a].key = k,
         DOMAIN applications \subseteq DOMAIN applications',
         \A b \in DOMAIN applications : applications'[b].key = applications[b].key,
         \A b \in DOMAIN applications' : applications'[b].key \in GameKey,
         lastApp' \in Nat, DOMAIN applications' \subseteq 1..lastApp',
         inbox' \in Seq(GameEvent),
         UNCHANGED <<phase, nextBeat, feed, stopAt, clockVars, faultVars>>
  PROVE  InductiveInvariant'
  <1> USE DEF InductiveInvariant
  <1> DEFINE n == lastSession + 1
  <1>0. StoreTypeOK /\ ManagerTypeOK
    BY DEF TypeOK
  <1>1. /\ n \notin DOMAIN sessions
        /\ DOMAIN sessions' = DOMAIN sessions \cup {n}
        /\ OpenRows' = OpenRows \cup {n}
        /\ \A t \in DOMAIN sessions : sessions'[t] = sessions[t]
        /\ sessions'[n].app = a /\ sessions'[n].full = 0
        /\ sessions' \in [DOMAIN sessions' -> SessionRow]
        /\ \A t \in DOMAIN sessions' : sessions'[t].interactive <= sessions'[t].full
        /\ lastSession' \in Nat /\ DOMAIN sessions' \subseteq 1..lastSession'
    BY <1>0, BeginAddsOneRow
  <1>2. /\ DOMAIN open' = DOMAIN open \cup {k}
        /\ open'[k] = [session |-> n, app |-> a, started |-> now]
        /\ \A j \in DOMAIN open : open'[j] = open[j]
    BY DEF Track
  <1>3. \A j \in DOMAIN open : open[j].session \in OpenRows /\ open[j].session # n
    BY <1>1 DEF TrackedRowsAreOpen, OpenRows
  <1>4. StoreTypeOK'
    BY <1>0, <1>1 DEF StoreTypeOK
  <1>5. ManagerTypeOK'
    <2>1. open'[k] \in OpenSession
      <3>1. now \in Nat
        BY <1>0 DEF ManagerTypeOK
      <3>2. lastSession \in Nat
        BY <1>0 DEF StoreTypeOK
      <3>3. n \in Nat
        BY <3>2
      <3> QED
        BY <1>2, <3>1, <3>3 DEF OpenSession
    <2>2. open' \in [DOMAIN open' -> OpenSession]
      BY <1>0, <1>2, <2>1 DEF Track, ManagerTypeOK
    <2> QED
      BY <1>0, <1>2, <2>2 DEF ManagerTypeOK, clockVars, faultVars
  <1>6. TrackedRowsAreOpen'
    <2>1. ASSUME NEW j \in DOMAIN open'
          PROVE  /\ open'[j].session \in OpenRows'
                 /\ sessions'[open'[j].session].app = open'[j].app
                 /\ open'[j].app \in AppsOf(j)'
      <3>1. CASE j = k
        BY <1>1, <1>2, <3>1 DEF AppsOf
      <3>2. CASE j \in DOMAIN open
        <4>1. open'[j] = open[j] /\ open[j].session \in DOMAIN sessions
          BY <1>2, <1>3, <3>2 DEF OpenRows
        <4>2. open[j].app \in AppsOf(j)'
          BY <3>2 DEF AppsOf, TrackedRowsAreOpen
        <4> QED
          BY <1>1, <1>3, <3>2, <4>1, <4>2 DEF TrackedRowsAreOpen
      <3> QED
        BY <1>2, <3>1, <3>2
    <2>2. \A i, j \in DOMAIN open' : open'[i].session = open'[j].session => i = j
      BY <1>2, <1>3 DEF TrackedRowsAreOpen
    <2> QED
      BY <2>1, <2>2 DEF TrackedRowsAreOpen
  <1>7. RowsHaveApplications'
    BY <1>1 DEF RowsHaveApplications
  <1>8. OneOpenRowPerApplication'
    BY <1>1 DEF OneOpenRowPerApplication, OpenRows
  <1>9. TracksOnlyWhileUp'
    BY DEF TracksOnlyWhileUp
  <1>10. RuntimeWithinElapsed'
    <2>1. ASSUME NEW j \in DOMAIN open
          PROVE  sessions'[open'[j].session].full <= now' - open'[j].started
      BY <1>1, <1>2, <1>3 DEF RuntimeWithinElapsed, OpenRows, clockVars
    <2>2. sessions'[open'[k].session].full <= now' - open'[k].started
      <3>1. /\ sessions'[open'[k].session].full = 0 /\ open'[k].started = now
            /\ now' = now
        BY <1>1, <1>2 DEF clockVars
      <3>2. now \in Nat
        BY <1>0 DEF ManagerTypeOK
      <3> QED
        BY <3>1, <3>2
    <2> QED
      BY <1>2, <2>1, <2>2 DEF RuntimeWithinElapsed
  <1>11. BeatAtHand'
    <2>1. Lag(failures) \in Nat /\ HeartbeatInterval <= Lag(failures)
      BY <1>0, LagGrows DEF ManagerTypeOK
    <2>2. ASSUME NEW j \in DOMAIN open
          PROVE  nextBeat <= open'[j].started + sessions'[open'[j].session].full + Lag(failures)
      BY <1>1, <1>2, <1>3 DEF BeatAtHand, OpenRows
    <2>3. nextBeat <= open'[k].started + sessions'[open'[k].session].full + Lag(failures)
      <3>1. open'[k].started = now /\ sessions'[open'[k].session].full = 0
        BY <1>1, <1>2
      <3>2. nextBeat <= now + HeartbeatInterval
        BY DEF BeatAtHand
      <3>3. now \in Nat /\ nextBeat \in Nat /\ HeartbeatInterval \in Nat
        BY <1>0 DEF ManagerTypeOK
      <3> HIDE DEF InductiveInvariant
      <3> QED
        BY <3>1, <3>2, <3>3, <2>1
    <2>4. failures' = failures
      BY DEF faultVars
    <2> QED
      BY <1>2, <2>2, <2>3, <2>4 DEF BeatAtHand, clockVars
  <1> QED
    BY <1>4, <1>5, <1>6, <1>7, <1>8, <1>9, <1>10, <1>11 DEF TypeOK

(* Rows may be closed or deleted, entries dropped and statements fail: as  *)
(* long as the rows of the entries that stay are left as they were, and    *)
(* neither the clock nor a running manager's next heartbeat moves, the     *)
(* invariant stands.                                                       *)
LEMMA LettingGoPreserves ==
  ASSUME InductiveInvariant, StoreTypeOK', ManagerTypeOK',
         DOMAIN open' \subseteq DOMAIN open,
         \A k \in DOMAIN open' :
            /\ open'[k] = open[k]
            /\ open[k].session \in OpenRows'
            /\ sessions'[open[k].session] = sessions[open[k].session],
         DOMAIN sessions' \subseteq DOMAIN sessions,
         \A s \in DOMAIN sessions' : sessions'[s].app = sessions[s].app,
         OpenRows' \subseteq OpenRows,
         DOMAIN applications \subseteq DOMAIN applications',
         \A a \in DOMAIN applications : applications'[a].key = applications[a].key,
         phase' \in {"running", "winding", "stopping"} \/ DOMAIN open' = {},
         phase' = "running" => phase = "running" /\ nextBeat' = nextBeat,
         now' = now, failures' \in {failures, failures + 1}
  PROVE  InductiveInvariant'
  <1>1. TrackedRowsAreOpen'
    <2>1. ASSUME NEW k \in DOMAIN open'
          PROVE  /\ open'[k].session \in OpenRows'
                 /\ sessions'[open'[k].session].app = open'[k].app
                 /\ open'[k].app \in AppsOf(k)'
      BY DEF InductiveInvariant, TrackedRowsAreOpen, AppsOf
    <2>2. \A j, k \in DOMAIN open' : open'[j].session = open'[k].session => j = k
      BY DEF InductiveInvariant, TrackedRowsAreOpen
    <2> QED
      BY <2>1, <2>2 DEF TrackedRowsAreOpen
  <1>2. RowsHaveApplications'
    BY DEF InductiveInvariant, RowsHaveApplications
  <1>3. OneOpenRowPerApplication'
    <2>1. OpenRows' \subseteq DOMAIN sessions'
      BY DEF OpenRows
    <2> QED
      BY <2>1 DEF InductiveInvariant, OneOpenRowPerApplication
  <1>4. TracksOnlyWhileUp'
    BY DEF TracksOnlyWhileUp
  <1>5. RuntimeWithinElapsed'
    BY DEF InductiveInvariant, RuntimeWithinElapsed
  <1>6. BeatAtHand'
    <2> SUFFICES ASSUME phase' = "running"
                 PROVE  /\ now' <= nextBeat' /\ nextBeat' <= now' + HeartbeatInterval
                        /\ \A k \in DOMAIN open' :
                             nextBeat' <= open'[k].started + sessions'[open'[k].session].full
                                            + Lag(failures')
      BY DEF BeatAtHand
    <2>1. /\ now <= nextBeat /\ nextBeat <= now + HeartbeatInterval
          /\ \A k \in DOMAIN open :
               nextBeat <= open[k].started + sessions[open[k].session].full + Lag(failures)
      BY DEF InductiveInvariant, BeatAtHand
    <2>2. failures \in Nat
      BY DEF InductiveInvariant, TypeOK, ManagerTypeOK
    <2>3. Lag(failures) \in Nat /\ Lag(failures') \in Nat /\ Lag(failures) <= Lag(failures')
      BY <2>2, LagGrows
    <2>4. ASSUME NEW k \in DOMAIN open'
          PROVE  nextBeat' <= open'[k].started + sessions'[open'[k].session].full + Lag(failures')
      <3>1. open[k].started \in Nat /\ sessions[open[k].session].full \in Nat /\ nextBeat \in Nat
        <4>1. open[k] \in OpenSession /\ nextBeat \in Nat
          BY DEF InductiveInvariant, TypeOK, ManagerTypeOK
        <4>2. open[k].session \in DOMAIN sessions
          BY DEF InductiveInvariant, TrackedRowsAreOpen, OpenRows
        <4>3. sessions[open[k].session] \in SessionRow
          BY <4>2 DEF InductiveInvariant, TypeOK, StoreTypeOK
        <4> QED
          BY <4>1, <4>3 DEF OpenSession, SessionRow
      <3>2. nextBeat <= open[k].started + sessions[open[k].session].full + Lag(failures)
        BY <2>1
      <3>3. /\ nextBeat' = nextBeat /\ open'[k] = open[k]
            /\ sessions'[open[k].session] = sessions[open[k].session]
        OBVIOUS
      <3> QED
        BY <2>3, <3>1, <3>2, <3>3
    <2> QED
      BY <2>1, <2>4
  <1> QED
    BY <1>1, <1>2, <1>3, <1>4, <1>5, <1>6 DEF InductiveInvariant, TypeOK

(* What an entry says of its own session. *)
LEMMA EntryIsLegal ==
  ASSUME InductiveInvariant, NEW k \in DOMAIN open
  PROVE  /\ k \in GameKey
         /\ open[k] \in OpenSession
         /\ open[k].session \in OpenRows
         /\ open[k].started <= now
         /\ sessions[open[k].session].full \in Nat
         /\ \A idle \in IdleBilled :
              LET run == RuntimesFor(open[k], idle)
              IN  /\ run.full = now - open[k].started
                  /\ run.full \in Nat /\ run.interactive \in Nat
                  /\ run.interactive <= run.full
  <1>1. open[k] \in OpenSession /\ now \in Nat /\ k \in GameKey
    BY DEF InductiveInvariant, TypeOK, ManagerTypeOK
  <1>2. open[k].session \in OpenRows
    BY DEF InductiveInvariant, TrackedRowsAreOpen
  <1>3. sessions[open[k].session] \in SessionRow
    BY <1>2 DEF InductiveInvariant, TypeOK, StoreTypeOK, OpenRows
  <1>4. sessions[open[k].session].full <= now - open[k].started
    BY DEF InductiveInvariant, RuntimeWithinElapsed
  <1>5. sessions[open[k].session].full \in Nat /\ open[k].started \in Nat
    BY <1>1, <1>3 DEF SessionRow, OpenSession
  <1>6. open[k].started <= now
    BY <1>1, <1>4, <1>5
  <1> QED
    BY <1>1, <1>2, <1>5, <1>6, RuntimesAreLegal

(* An entry leaves the map and its row is closed with what it measured. *)
LEMMA ClosingPreserves ==
  ASSUME InductiveInvariant, phase \in {"running", "winding", "stopping"},
         NEW k \in DOMAIN open, Forget(k),
         NEW idle \in IdleBilled, NEW at \in Int,
         CloseAndRollup(open[k].session, open[k].app,
                        RuntimesFor(open[k], idle), at, "terminated"),
         inbox' \in Seq(GameEvent),
         UNCHANGED <<lastSession, lastApp, phase, nextBeat, feed, stopAt, now, skew, failures, crashes>>
  PROVE  InductiveInvariant'
  <1> DEFINE s == open[k].session
             run == RuntimesFor(open[k], idle)
  <1>1. /\ open[k] \in OpenSession /\ s \in OpenRows
        /\ run.full \in Nat /\ run.interactive \in Nat /\ run.interactive <= run.full
    BY EntryIsLegal
  <1>2. StoreTypeOK /\ ManagerTypeOK
    BY DEF InductiveInvariant, TypeOK
  <1>3. "terminated" \in ExitReason
    BY DEF ExitReason
  <1> HIDE DEF s, run
  <1>4. CloseAndRollup(s, open[k].app, run, at, "terminated")
    BY DEF s, run
  <1>5. /\ StoreTypeOK'
        /\ DOMAIN sessions' = DOMAIN sessions
        /\ OpenRows' = OpenRows \ {s}
        /\ \A t \in DOMAIN sessions \ {s} : sessions'[t] = sessions[t]
        /\ sessions'[s].app = sessions[s].app
        /\ DOMAIN applications' = DOMAIN applications
        /\ \A b \in DOMAIN applications : applications'[b].key = applications[b].key
    BY <1>1, <1>2, <1>3, <1>4, CloseClosesOneRow
  <1>6. /\ DOMAIN open' = DOMAIN open \ {k}
        /\ \A j \in DOMAIN open' : open'[j] = open[j]
    BY DEF Forget
  <1>7. ASSUME NEW j \in DOMAIN open'
        PROVE  /\ open[j].session \in OpenRows'
               /\ sessions'[open[j].session] = sessions[open[j].session]
    <2>1. j \in DOMAIN open /\ j # k
      BY <1>6
    <2>2. open[j].session # s /\ open[j].session \in OpenRows
      BY <2>1 DEF InductiveInvariant, TrackedRowsAreOpen, s
    <2> QED
      BY <1>5, <2>2 DEF OpenRows
  <1>8. ManagerTypeOK'
    <2>1. open' \in [DOMAIN open' -> OpenSession]
      BY <1>2, <1>6 DEF ManagerTypeOK, Forget
    <2> QED
      BY <1>2, <1>6, <2>1 DEF ManagerTypeOK
  <1>9. \A t \in DOMAIN sessions' : sessions'[t].app = sessions[t].app
    BY <1>5
  <1> QED
    BY <1>5, <1>6, <1>7, <1>8, <1>9, LettingGoPreserves

(* An entry leaves the map and nothing else happens: the close failed. *)
LEMMA ForgettingPreserves ==
  ASSUME InductiveInvariant, phase \in {"running", "winding", "stopping"},
         NEW k \in DOMAIN open, Forget(k), StatementFails,
         inbox' \in Seq(GameEvent),
         UNCHANGED <<storeVars, phase, nextBeat, feed, stopAt, now, skew>>
  PROVE  InductiveInvariant'
  <1>1. StoreTypeOK /\ ManagerTypeOK
    BY DEF InductiveInvariant, TypeOK
  <1>2. /\ DOMAIN open' = DOMAIN open \ {k}
        /\ \A j \in DOMAIN open' : open'[j] = open[j]
    BY DEF Forget
  <1>3. /\ failures' = failures + 1 /\ crashes' = crashes
        /\ UNCHANGED <<sessions, applications, lastSession, lastApp>>
    BY DEF StatementFails, storeVars
  <1>4. StoreTypeOK' /\ OpenRows' = OpenRows
    BY <1>1, <1>3 DEF StoreTypeOK, OpenRows
  <1>5. ManagerTypeOK'
    <2>1. open' \in [DOMAIN open' -> OpenSession]
      BY <1>1, <1>2 DEF ManagerTypeOK, Forget
    <2> QED
      BY <1>1, <1>2, <1>3, <2>1 DEF ManagerTypeOK
  <1>6. \A j \in DOMAIN open' : open[j].session \in OpenRows'
    BY <1>2, <1>4 DEF InductiveInvariant, TrackedRowsAreOpen
  <1> QED
    BY <1>2, <1>3, <1>4, <1>5, <1>6, LettingGoPreserves

(* A step that leaves store, entries and clock alone. *)
LEMMA StandingPreserves ==
  ASSUME InductiveInvariant, ManagerTypeOK',
         UNCHANGED <<storeVars, open, now>>,
         phase' \in {"running", "winding", "stopping"} \/ DOMAIN open = {},
         phase' = "running" => phase = "running" /\ nextBeat' = nextBeat,
         failures' \in {failures, failures + 1}
  PROVE  InductiveInvariant'
  <1>1. UNCHANGED <<sessions, applications, lastSession, lastApp, open>>
    BY DEF storeVars
  <1>2. StoreTypeOK' /\ OpenRows' = OpenRows
    BY <1>1 DEF InductiveInvariant, TypeOK, StoreTypeOK, OpenRows
  <1>3. \A k \in DOMAIN open' : open[k].session \in OpenRows'
    BY <1>1, <1>2 DEF InductiveInvariant, TrackedRowsAreOpen
  <1> QED
    BY <1>1, <1>2, <1>3, LettingGoPreserves

-----------------------------------------------------------------------------
(* One lemma per action that reaches beyond those shapes. *)

LEMMA StartKnownPreserves ==
  ASSUME InductiveInvariant, StartKnown
  PROVE  InductiveInvariant'
  <1> DEFINE e == Head(inbox)
  <1>0. TypeOK /\ ManagerTypeOK /\ StoreTypeOK
    BY DEF InductiveInvariant, TypeOK
  <1>1. /\ e \in GameEvent /\ inbox' \in Seq(GameEvent)
        /\ phase = "running" /\ UNCHANGED <<phase, nextBeat, feed, stopAt, now, skew>>
    BY <1>0, ReceiveTakesAnEvent DEF StartKnown
  <1>2. e.key \in GameKey /\ e.at \in Int /\ e.key \notin DOMAIN open
    BY <1>1 DEF StartKnown, GameEvent
  <1>3. PICK a \in AppsOf(e.key) :
          \/ HasOpenRow(a) /\ UNCHANGED <<storeVars, open, faultVars>>
          \/ /\ ~ HasOpenRow(a)
             /\ Begin(a, e.at) /\ Track(e.key, lastSession + 1, a)
             /\ UNCHANGED <<applications, lastApp, faultVars>>
    BY DEF StartKnown
  <1> HIDE DEF e
  <1>4. CASE UNCHANGED <<storeVars, open, faultVars>>
    <2>1. ManagerTypeOK'
      BY <1>0, <1>1, <1>4 DEF ManagerTypeOK, faultVars
    <2> QED
      BY <1>1, <1>4, <2>1, StandingPreserves DEF faultVars
  <1>5. CASE /\ ~ HasOpenRow(a)
             /\ Begin(a, e.at) /\ Track(e.key, lastSession + 1, a)
             /\ UNCHANGED <<applications, lastApp, faultVars>>
    <2>1. a \in DOMAIN applications /\ applications[a].key = e.key
      BY DEF AppsOf
    <2>2. a \in Nat /\ lastApp \in Nat /\ DOMAIN applications \subseteq 1..lastApp
      BY <1>0, <2>1 DEF StoreTypeOK
    <2>3. \A s \in OpenRows : sessions[s].app # a
      BY <1>5 DEF HasOpenRow
    <2>4. \A b \in DOMAIN applications : applications[b].key \in GameKey
      BY <1>0 DEF StoreTypeOK
    <2>5. UNCHANGED <<phase, nextBeat, feed, stopAt, clockVars, faultVars, applications, lastApp>>
      BY <1>1, <1>5 DEF clockVars
    <2>6. /\ Begin(a, e.at) /\ Track(e.key, lastSession + 1, a)
      BY <1>5
    <2> QED
      BY <1>1, <1>2, <2>1, <2>2, <2>3, <2>4, <2>5, <2>6, TrackingPreserves
  <1> QED
    BY <1>3, <1>4, <1>5

LEMMA StartNewPreserves ==
  ASSUME InductiveInvariant, StartNew
  PROVE  InductiveInvariant'
  <1> DEFINE e == Head(inbox)
             a == lastApp + 1
  <1>0. TypeOK /\ ManagerTypeOK /\ StoreTypeOK
    BY DEF InductiveInvariant, TypeOK
  <1>1. /\ e \in GameEvent /\ inbox' \in Seq(GameEvent)
        /\ phase = "running" /\ UNCHANGED <<phase, nextBeat, feed, stopAt, now, skew>>
    BY <1>0, ReceiveTakesAnEvent DEF StartNew
  <1>2. /\ e.key \in GameKey /\ e.at \in Int /\ e.key \notin DOMAIN open
        /\ CreateApplication(e.key)
    BY <1>1 DEF StartNew, GameEvent
  <1>3. /\ a \notin DOMAIN applications /\ lastApp' \in Nat
        /\ DOMAIN applications' = DOMAIN applications \cup {a}
        /\ DOMAIN applications' \subseteq 1..lastApp'
        /\ applications'[a].key = e.key
        /\ \A b \in DOMAIN applications : applications'[b] = applications[b]
        /\ \A b \in DOMAIN applications' : applications'[b].key \in GameKey
    BY <1>0, <1>2, CreateAddsOneApplication
  <1>4. \/ /\ Begin(a, e.at) /\ Track(e.key, lastSession + 1, a) /\ UNCHANGED faultVars
        \/ StatementFails /\ UNCHANGED <<sessions, lastSession, open>>
    BY DEF StartNew
  <1> HIDE DEF e
  <1>5. CASE Begin(a, e.at) /\ Track(e.key, lastSession + 1, a) /\ UNCHANGED faultVars
    <2>1. a \in Nat
      <3>1. lastApp \in Nat
        BY <1>0 DEF StoreTypeOK
      <3> QED
        BY <3>1
    <2>2. \A s \in OpenRows : sessions[s].app # a
      BY <1>3 DEF InductiveInvariant, RowsHaveApplications, OpenRows
    <2>3. UNCHANGED <<phase, nextBeat, feed, stopAt, clockVars, faultVars>>
      BY <1>1, <1>5 DEF clockVars
    <2>4. a \in DOMAIN applications'
      BY <1>3
    <2> HIDE DEF a
    <2> QED
      BY <1>1, <1>2, <1>3, <1>5, <2>1, <2>2, <2>3, <2>4, TrackingPreserves
  <1>6. CASE StatementFails /\ UNCHANGED <<sessions, lastSession, open>>
    <2>1. StoreTypeOK' /\ OpenRows' = OpenRows
      BY <1>0, <1>3, <1>6 DEF StoreTypeOK, OpenRows
    <2>2. failures' = failures + 1 /\ crashes' = crashes
      BY <1>6 DEF StatementFails
    <2>3. ManagerTypeOK'
      BY <1>0, <1>1, <1>6, <2>2 DEF ManagerTypeOK
    <2>4. \A k \in DOMAIN open' : open[k].session \in OpenRows'
      BY <1>6, <2>1 DEF InductiveInvariant, TrackedRowsAreOpen
    <2> QED
      BY <1>1, <1>3, <1>6, <2>1, <2>2, <2>3, <2>4, LettingGoPreserves
  <1> QED
    BY <1>4, <1>5, <1>6

LEMMA HandleStoppedPreserves ==
  ASSUME InductiveInvariant, HandleStopped
  PROVE  InductiveInvariant'
  <1> DEFINE e == Head(inbox)
  <1>0. TypeOK /\ ManagerTypeOK
    BY DEF InductiveInvariant, TypeOK
  <1>1. /\ e \in GameEvent /\ inbox' \in Seq(GameEvent)
        /\ phase = "running" /\ UNCHANGED <<phase, nextBeat, feed, stopAt, now, skew>>
    BY <1>0, ReceiveTakesAnEvent DEF HandleStopped
  <1>2. e.at \in Int
    BY <1>1 DEF GameEvent
  <1>3. CASE e.key \notin DOMAIN open
    <2>1. UNCHANGED <<storeVars, open, faultVars>>
      BY <1>3 DEF HandleStopped
    <2>2. ManagerTypeOK'
      BY <1>0, <1>1, <2>1 DEF ManagerTypeOK, faultVars
    <2> QED
      BY <1>1, <2>1, <2>2, StandingPreserves DEF faultVars
  <1>4. CASE e.key \in DOMAIN open
    <2> DEFINE k == e.key
    <2>1. /\ Forget(k)
          /\ \/ /\ \E idle \in IdleBilled :
                     CloseAndRollup(open[k].session, open[k].app,
                                    RuntimesFor(open[k], idle), e.at, "terminated")
                /\ UNCHANGED <<lastSession, lastApp, faultVars>>
             \/ StatementFails /\ UNCHANGED storeVars
      BY <1>4 DEF HandleStopped
    <2>2. k \in DOMAIN open
      BY <1>4
    <2> HIDE DEF k, e
    <2>3. CASE StatementFails /\ UNCHANGED storeVars
      BY <1>1, <2>1, <2>2, <2>3, ForgettingPreserves
    <2>4. ASSUME NEW idle \in IdleBilled,
                 CloseAndRollup(open[k].session, open[k].app,
                                RuntimesFor(open[k], idle), e.at, "terminated"),
                 UNCHANGED <<lastSession, lastApp, faultVars>>
          PROVE  InductiveInvariant'
      BY <1>1, <1>2, <2>1, <2>2, <2>4, ClosingPreserves DEF faultVars
    <2> QED
      BY <2>1, <2>3, <2>4
  <1> QED
    BY <1>3, <1>4

LEMMA CloseAllOpenPreserves ==
  ASSUME InductiveInvariant, NEW k \in DOMAIN open, CloseAllOpen(k)
  PROVE  InductiveInvariant'
  <1>1. /\ phase \in {"winding", "stopping"} /\ Forget(k)
        /\ UNCHANGED <<phase, inbox, nextBeat, feed, stopAt, now, skew>>
    BY DEF CloseAllOpen, clockVars, stopVars
  <1>2. inbox' \in Seq(GameEvent) /\ stopAt \in Int
    BY <1>1 DEF InductiveInvariant, TypeOK, ManagerTypeOK
  <1>3. CASE StatementFails /\ UNCHANGED storeVars
    BY <1>1, <1>2, <1>3, ForgettingPreserves
  <1>4. ASSUME NEW idle \in IdleBilled,
               CloseAndRollup(open[k].session, open[k].app,
                              RuntimesFor(open[k], idle), stopAt, "terminated"),
               UNCHANGED <<lastSession, lastApp, faultVars>>
        PROVE  InductiveInvariant'
    BY <1>1, <1>2, <1>4, ClosingPreserves DEF faultVars
  <1> QED
    BY <1>3, <1>4 DEF CloseAllOpen

(* The key of a tracked row is the one that tracks it. *)
LEMMA KeyOfTracked ==
  ASSUME TrackedRowsAreOpen, NEW k \in DOMAIN open
  PROVE  KeyOf(open[k].session) = k
  BY DEF TrackedRowsAreOpen, KeyOf

(* A row written is level with the clock; a row missed has one failure     *)
(* more to show for it.                                                    *)
LEMMA HeartbeatPreserves ==
  ASSUME InductiveInvariant, HeartbeatOpenSessions
  PROVE  InductiveInvariant'
  <1>0. StoreTypeOK /\ ManagerTypeOK /\ TrackedRowsAreOpen
    BY DEF InductiveInvariant, TypeOK
  <1>1. PICK done \in SUBSET DOMAIN open :
          /\ IF done = DOMAIN open THEN UNCHANGED faultVars ELSE StatementFails
          /\ \E idle \in [done -> IdleBilled] :
               LET ids == {open[k].session : k \in done}
               IN  Heartbeat(ids,
                     [s \in ids |-> RuntimesFor(open[KeyOf(s)], idle[KeyOf(s)])], Wall)
    BY DEF HeartbeatOpenSessions
  <1>2. PICK idle \in [done -> IdleBilled] :
          LET ids == {open[k].session : k \in done}
          IN  Heartbeat(ids,
                [s \in ids |-> RuntimesFor(open[KeyOf(s)], idle[KeyOf(s)])], Wall)
    BY <1>1
  <1> DEFINE ids == {open[k].session : k \in done}
             run == [s \in ids |-> RuntimesFor(open[KeyOf(s)], idle[KeyOf(s)])]
  <1>3. /\ phase = "running" /\ now = nextBeat /\ nextBeat' = nextBeat + HeartbeatInterval
        /\ UNCHANGED <<applications, lastSession, lastApp>>
        /\ UNCHANGED <<phase, open, inbox, feed, stopAt>> /\ UNCHANGED <<now, skew>>
    BY DEF HeartbeatOpenSessions, stopVars, clockVars
  <1>4. ASSUME NEW k \in done
        PROVE  /\ run[open[k].session].full = now - open[k].started
               /\ run[open[k].session].full \in Nat
               /\ run[open[k].session].interactive \in Nat
               /\ run[open[k].session].interactive <= run[open[k].session].full
    <2>1. run[open[k].session] = RuntimesFor(open[k], idle[k])
      BY <1>0, KeyOfTracked
    <2>2. idle[k] \in IdleBilled /\ k \in DOMAIN open
      OBVIOUS
    <2> QED
      BY <2>1, <2>2, EntryIsLegal
  <1>5. \A s \in ids : /\ run[s].full \in Nat /\ run[s].interactive \in Nat
                       /\ run[s].interactive <= run[s].full
    BY <1>4
  <1>6. Heartbeat(ids, run, Wall)
    BY <1>2
  <1>7. Wall \in Int
    BY <1>0 DEF ManagerTypeOK, Wall
  <1> HIDE DEF run
  <1>8. ids \subseteq OpenRows /\ OpenRows \subseteq DOMAIN sessions
    BY <1>0 DEF TrackedRowsAreOpen, OpenRows
  <1>9. \A k \in DOMAIN open \ done : open[k].session \notin ids
    BY <1>0 DEF TrackedRowsAreOpen
  <1>10. \A k \in done : open[k].session \in ids
    OBVIOUS
  <1> HIDE DEF ids
  <1>11. /\ StoreTypeOK' /\ DOMAIN sessions' = DOMAIN sessions /\ OpenRows' = OpenRows
         /\ \A t \in DOMAIN sessions \ (ids \cap OpenRows) : sessions'[t] = sessions[t]
         /\ \A t \in DOMAIN sessions : sessions'[t].app = sessions[t].app
         /\ \A t \in ids \cap OpenRows : sessions'[t].full = run[t].full
    BY <1>0, <1>3, <1>5, <1>6, <1>7, HeartbeatKeepsRows
  <1>12. \A k \in done : sessions'[open[k].session].full = now - open[k].started
    BY <1>4, <1>8, <1>10, <1>11
  <1>13. \A k \in DOMAIN open \ done :
           sessions'[open[k].session] = sessions[open[k].session]
    BY <1>0, <1>9, <1>11 DEF TrackedRowsAreOpen, OpenRows
  <1>14. failures' = IF done = DOMAIN open THEN failures ELSE failures + 1
    BY <1>1 DEF StatementFails, faultVars
  <1>15. ManagerTypeOK'
    <2>1. crashes' = crashes
      BY <1>1 DEF StatementFails, faultVars
    <2>2. nextBeat' \in Nat /\ failures' \in Nat
      BY <1>0, <1>3, <1>14 DEF ManagerTypeOK
    <2> QED
      BY <1>0, <1>3, <2>1, <2>2 DEF ManagerTypeOK
  <1>16. TrackedRowsAreOpen'
    BY <1>0, <1>3, <1>11 DEF TrackedRowsAreOpen, AppsOf, OpenRows
  <1>17. RowsHaveApplications' /\ OneOpenRowPerApplication' /\ TracksOnlyWhileUp'
    BY <1>3, <1>11 DEF InductiveInvariant, RowsHaveApplications,
       OneOpenRowPerApplication, TracksOnlyWhileUp, OpenRows
  <1>18. ASSUME NEW k \in DOMAIN open
         PROVE  /\ open[k].started \in Nat /\ now \in Nat /\ failures \in Nat
                /\ sessions[open[k].session].full \in Nat
    BY <1>0, EntryIsLegal DEF ManagerTypeOK, OpenSession
  <1>19. RuntimeWithinElapsed'
    BY <1>3, <1>12, <1>13, <1>18 DEF InductiveInvariant, RuntimeWithinElapsed
  <1>20. BeatAtHand'
    <2>1. ASSUME NEW k \in DOMAIN open
          PROVE  nextBeat' <= open[k].started + sessions'[open[k].session].full + Lag(failures')
      <3>1. /\ Lag(failures) \in Nat /\ HeartbeatInterval <= Lag(failures)
            /\ Lag(failures + 1) = Lag(failures) + HeartbeatInterval
        BY <1>18, LagGrows
      <3>2. CASE k \in done
        <4>1. Lag(failures') \in Nat /\ HeartbeatInterval <= Lag(failures')
          BY <1>14, <3>1
        <4> QED
          BY <1>3, <1>12, <1>18, <3>2, <4>1
      <3>3. CASE k \notin done
        <4>1. Lag(failures') = Lag(failures) + HeartbeatInterval
          BY <1>14, <3>1, <3>3
        <4>2. nextBeat <= open[k].started + sessions[open[k].session].full + Lag(failures)
          BY <1>3 DEF InductiveInvariant, BeatAtHand
        <4>3. sessions'[open[k].session].full = sessions[open[k].session].full
          BY <1>13, <3>3
        <4> QED
          BY <1>3, <1>18, <3>1, <4>1, <4>2, <4>3
      <3> QED
        BY <3>2, <3>3
    <2>2. now' <= nextBeat' /\ nextBeat' <= now' + HeartbeatInterval
      <3>1. now \in Nat
        BY <1>0 DEF ManagerTypeOK
      <3>2. nextBeat' = now + HeartbeatInterval /\ now' = now
        BY <1>3
      <3> QED
        BY <3>1, <3>2
    <2>3. open' = open
      BY <1>3
    <2> QED
      BY <2>1, <2>2, <2>3 DEF BeatAtHand
  <1> QED
    BY <1>11, <1>15, <1>16, <1>17, <1>19, <1>20 DEF InductiveInvariant, TypeOK

(* Recovery closes an orphan with what its last heartbeat wrote. *)
LEMMA RecoverOrphanPreserves ==
  ASSUME InductiveInvariant, NEW s \in Orphans, RecoverOrphan(s)
  PROVE  InductiveInvariant'
  <1>0. StoreTypeOK /\ ManagerTypeOK
    BY DEF InductiveInvariant, TypeOK
  <1> DEFINE run == [full |-> sessions[s].full, interactive |-> sessions[s].interactive]
  <1>1. /\ phase = "recovering"
        /\ CloseAndRollup(s, sessions[s].app, run, sessions[s].heartbeat, "recovered")
        /\ UNCHANGED <<lastSession, lastApp, phase, open, inbox, nextBeat, feed, stopAt, now, skew>>
        /\ UNCHANGED <<failures, crashes>>
    BY DEF RecoverOrphan, procVars, stopVars, clockVars, faultVars
  <1>2. s \in OpenRows /\ s \in DOMAIN sessions
    BY DEF Orphans, OpenRows
  <1>3. /\ run.full \in Nat /\ run.interactive \in Nat /\ run.interactive <= run.full
        /\ sessions[s].heartbeat \in Int
    BY <1>0, <1>2 DEF StoreTypeOK, SessionRow
  <1>4. "recovered" \in ExitReason
    BY DEF ExitReason
  <1> HIDE DEF run
  <1>5. /\ StoreTypeOK'
        /\ DOMAIN sessions' = DOMAIN sessions
        /\ OpenRows' = OpenRows \ {s}
        /\ \A t \in DOMAIN sessions \ {s} : sessions'[t] = sessions[t]
        /\ sessions'[s].app = sessions[s].app
        /\ DOMAIN applications' = DOMAIN applications
        /\ \A b \in DOMAIN applications : applications'[b].key = applications[b].key
    BY <1>0, <1>1, <1>2, <1>3, <1>4, CloseClosesOneRow
  <1>6. DOMAIN open' = {}
    BY <1>1 DEF InductiveInvariant, TracksOnlyWhileUp
  <1>7. ManagerTypeOK'
    BY <1>0, <1>1 DEF ManagerTypeOK
  <1>8. \A t \in DOMAIN sessions' : sessions'[t].app = sessions[t].app
    BY <1>5
  <1> QED
    BY <1>1, <1>5, <1>6, <1>7, <1>8, LettingGoPreserves

LEMMA DeleteSessionsPreserves ==
  ASSUME InductiveInvariant, NEW ids, DeleteSessions(ids)
  PROVE  InductiveInvariant'
  <1>0. StoreTypeOK /\ ManagerTypeOK
    BY DEF InductiveInvariant, TypeOK
  <1>1. /\ DeleteSessionsAndRecompute(ids)
        /\ UNCHANGED <<phase, open, inbox, nextBeat, feed, stopAt, now, skew>>
        /\ UNCHANGED <<failures, crashes>>
    BY DEF DeleteSessions, procVars, stopVars, clockVars, faultVars
  <1>2. /\ StoreTypeOK'
        /\ DOMAIN sessions' = DOMAIN sessions \ ids
        /\ OpenRows' = OpenRows
        /\ \A t \in DOMAIN sessions' : sessions'[t] = sessions[t]
        /\ DOMAIN applications' = DOMAIN applications
        /\ \A a \in DOMAIN applications : applications'[a].key = applications[a].key
    BY <1>0, <1>1, DeleteKeepsOpenRows
  <1>3. ManagerTypeOK'
    BY <1>0, <1>1 DEF ManagerTypeOK
  <1>4. OpenRows' \subseteq DOMAIN sessions'
    BY DEF OpenRows
  <1>5. \A k \in DOMAIN open' : /\ open'[k] = open[k]
                                /\ open[k].session \in OpenRows'
                                /\ sessions'[open[k].session] = sessions[open[k].session]
    BY <1>1, <1>2, <1>4 DEF InductiveInvariant, TrackedRowsAreOpen
  <1>6. phase' \in {"running", "winding", "stopping"} \/ DOMAIN open' = {}
    BY <1>1 DEF InductiveInvariant, TracksOnlyWhileUp
  <1> QED
    BY <1>1, <1>2, <1>3, <1>5, <1>6, LettingGoPreserves

(* The interval starts afresh while nothing is tracked. *)
LEMMA StartManagerPreserves ==
  ASSUME InductiveInvariant, StartManager
  PROVE  InductiveInvariant'
  <1>0. StoreTypeOK /\ ManagerTypeOK
    BY DEF InductiveInvariant, TypeOK
  <1>1. /\ phase = "recovering" /\ phase' = "running"
        /\ nextBeat' = now + HeartbeatInterval /\ feed' \in {"live", "gone"}
        /\ UNCHANGED <<sessions, applications, lastSession, lastApp, open, inbox>>
        /\ UNCHANGED <<stopAt, now, skew, failures, crashes>>
    BY DEF StartManager, storeVars, clockVars, faultVars
  <1>2. DOMAIN open = {}
    BY <1>1 DEF InductiveInvariant, TracksOnlyWhileUp
  <1>3. StoreTypeOK'
    BY <1>0, <1>1 DEF StoreTypeOK
  <1>4. ManagerTypeOK'
    <2>1. nextBeat' \in Nat
      BY <1>0, <1>1 DEF ManagerTypeOK
    <2> QED
      BY <1>0, <1>1, <2>1 DEF ManagerTypeOK, Phase
  <1>5. TrackedRowsAreOpen' /\ RuntimeWithinElapsed' /\ TracksOnlyWhileUp'
    BY <1>1, <1>2 DEF TrackedRowsAreOpen, RuntimeWithinElapsed, TracksOnlyWhileUp
  <1>6. RowsHaveApplications' /\ OneOpenRowPerApplication'
    BY <1>1 DEF InductiveInvariant, RowsHaveApplications, OneOpenRowPerApplication, OpenRows
  <1>7. BeatAtHand'
    <2>1. now' <= nextBeat' /\ nextBeat' <= now' + HeartbeatInterval
      BY <1>0, <1>1 DEF ManagerTypeOK
    <2> QED
      BY <1>1, <1>2, <2>1 DEF BeatAtHand
  <1> QED
    BY <1>3, <1>4, <1>5, <1>6, <1>7 DEF InductiveInvariant, TypeOK

LEMMA TickPreserves ==
  ASSUME InductiveInvariant, Tick
  PROVE  InductiveInvariant'
  <1>0. StoreTypeOK /\ ManagerTypeOK
    BY DEF InductiveInvariant, TypeOK
  <1>1. /\ phase = "running" => now < nextBeat
        /\ now' = now + 1
        /\ UNCHANGED <<sessions, applications, lastSession, lastApp>>
        /\ UNCHANGED <<phase, open, inbox, nextBeat, feed, stopAt, skew, failures, crashes>>
    BY DEF Tick, storeVars, procVars, stopVars, faultVars
  <1>2. StoreTypeOK'
    BY <1>0, <1>1 DEF StoreTypeOK
  <1>3. ManagerTypeOK'
    <2>1. now' \in Nat
      BY <1>0, <1>1 DEF ManagerTypeOK
    <2> QED
      BY <1>0, <1>1, <2>1 DEF ManagerTypeOK
  <1>4. /\ TrackedRowsAreOpen' /\ TracksOnlyWhileUp'
        /\ RowsHaveApplications' /\ OneOpenRowPerApplication'
    BY <1>1 DEF InductiveInvariant, TrackedRowsAreOpen, TracksOnlyWhileUp,
       RowsHaveApplications, OneOpenRowPerApplication, OpenRows, AppsOf
  <1>5. RuntimeWithinElapsed'
    <2>1. ASSUME NEW k \in DOMAIN open
          PROVE  sessions[open[k].session].full <= (now + 1) - open[k].started
      <3>1. /\ sessions[open[k].session].full \in Nat
            /\ open[k].started \in Nat /\ now \in Nat
        BY <1>0, EntryIsLegal DEF ManagerTypeOK, OpenSession
      <3>2. sessions[open[k].session].full <= now - open[k].started
        BY DEF InductiveInvariant, RuntimeWithinElapsed
      <3> QED
        BY <3>1, <3>2
    <2> QED
      BY <1>1, <2>1 DEF RuntimeWithinElapsed
  <1>6. BeatAtHand'
    <2>1. phase = "running" => now + 1 <= nextBeat /\ nextBeat <= (now + 1) + HeartbeatInterval
      <3>1. now \in Nat /\ nextBeat \in Nat
        BY <1>0 DEF ManagerTypeOK
      <3>2. phase = "running" => nextBeat <= now + HeartbeatInterval
        BY DEF InductiveInvariant, BeatAtHand
      <3> QED
        BY <1>1, <3>1, <3>2
    <2> QED
      BY <1>1, <2>1 DEF InductiveInvariant, BeatAtHand
  <1> QED
    BY <1>2, <1>3, <1>4, <1>5, <1>6 DEF InductiveInvariant, TypeOK

(* The steps that touch neither rows nor clock: an event sent or ignored,  *)
(* a start that failed, and the daemon's comings and goings.               *)
LEMMA QuietStepPreserves ==
  ASSUME InductiveInvariant,
         \/ \E kind \in {"started", "stopped"}, k \in GameKey : Emit(kind, k)
         \/ IgnoreStarted \/ StartFails \/ Boot \/ RecoveryFails
         \/ SourcesExit \/ ChannelCloses \/ Shutdown \/ Desert \/ Exit \/ StepWallClock
  PROVE  InductiveInvariant'
  <1>0. TypeOK /\ ManagerTypeOK /\ TracksOnlyWhileUp
    BY DEF InductiveInvariant, TypeOK
  <1>1. ASSUME NEW kind \in {"started", "stopped"}, NEW k \in GameKey, Emit(kind, k)
        PROVE  InductiveInvariant'
    <2>1. [kind |-> kind, key |-> k, at |-> Wall] \in GameEvent
      BY <1>0 DEF GameEvent, Wall, ManagerTypeOK
    <2>2. /\ UNCHANGED <<storeVars, open, now>> /\ UNCHANGED <<phase, nextBeat, feed, stopAt, skew>>
          /\ UNCHANGED <<failures, crashes>>
          /\ inbox' = Append(inbox, [kind |-> kind, key |-> k, at |-> Wall])
      BY <1>1 DEF Emit, stopVars, clockVars, faultVars
    <2>3. inbox' \in Seq(GameEvent)
      BY <1>0, <2>1, <2>2 DEF ManagerTypeOK
    <2>4. ManagerTypeOK'
      BY <1>0, <2>2, <2>3 DEF ManagerTypeOK
    <2> QED
      BY <1>0, <2>2, <2>4, StandingPreserves DEF TracksOnlyWhileUp
  <1>2. CASE IgnoreStarted \/ StartFails
    <2>1. /\ UNCHANGED <<storeVars, open>>
          /\ \E kind \in {"started"} : Receive(kind)
      BY <1>2 DEF IgnoreStarted, StartFails
    <2>2. /\ inbox' \in Seq(GameEvent) /\ phase = "running"
          /\ UNCHANGED <<phase, nextBeat, feed, stopAt, now, skew>>
      BY <1>0, <2>1, ReceiveTakesAnEvent
    <2>3. failures' \in {failures, failures + 1} /\ crashes' = crashes
      BY <1>2 DEF IgnoreStarted, StartFails, StatementFails, faultVars
    <2>4. ManagerTypeOK'
      BY <1>0, <2>1, <2>2, <2>3 DEF ManagerTypeOK
    <2> QED
      BY <2>1, <2>2, <2>3, <2>4, StandingPreserves
  <1>3. CASE Boot \/ RecoveryFails
    <2>1. /\ phase \in {"off", "crashed", "recovering"}
          /\ phase' \in {"recovering", "crashed"}
          /\ UNCHANGED <<storeVars, open, now>> /\ UNCHANGED <<inbox, nextBeat, feed, stopAt, skew>>
      BY <1>3 DEF Boot, RecoveryFails, stopVars, clockVars
    <2>2. failures' \in {failures, failures + 1} /\ crashes' = crashes
      BY <1>3 DEF Boot, RecoveryFails, StatementFails, faultVars
    <2>3. ManagerTypeOK'
      BY <1>0, <2>1, <2>2 DEF ManagerTypeOK, Phase
    <2> QED
      BY <1>0, <2>1, <2>2, <2>3, StandingPreserves DEF TracksOnlyWhileUp
  <1>4. CASE ChannelCloses \/ Shutdown
    <2>1. /\ phase' \in {"winding", "stopping"} /\ inbox' \in {<< >>, inbox}
          /\ feed' \in {feed, "gone"} /\ nextBeat' = 0 /\ stopAt' \in {Wall, stopAt}
          /\ UNCHANGED <<storeVars, open, now>> /\ UNCHANGED skew
          /\ UNCHANGED <<failures, crashes>>
      BY <1>4 DEF ChannelCloses, Shutdown, clockVars, faultVars
    <2>2. inbox' \in Seq(GameEvent)
      <3>1. << >> \in Seq(GameEvent) /\ inbox \in Seq(GameEvent)
        BY <1>0 DEF ManagerTypeOK
      <3> QED
        BY <2>1, <3>1
    <2>3. Wall \in Int
      BY <1>0 DEF ManagerTypeOK, Wall
    <2>4. nextBeat' \in Nat /\ stopAt' \in Int
      BY <1>0, <2>1, <2>3 DEF ManagerTypeOK
    <2>5. ManagerTypeOK'
      BY <1>0, <2>1, <2>2, <2>4 DEF ManagerTypeOK, Phase
    <2> QED
      BY <2>1, <2>5, StandingPreserves
  <1>5. CASE Desert \/ Exit
    <2>1. /\ phase' \in {"deserted", "off"} /\ open = << >> /\ stopAt' = 0
          /\ UNCHANGED <<storeVars, open, now>> /\ UNCHANGED <<inbox, nextBeat, feed, skew>>
          /\ UNCHANGED <<failures, crashes>>
      BY <1>5 DEF Desert, Exit, clockVars, faultVars
    <2>2. stopAt' \in Int
      BY <2>1
    <2>3. ManagerTypeOK'
      BY <1>0, <2>1, <2>2 DEF ManagerTypeOK, Phase
    <2>4. DOMAIN open = {}
      BY <2>1
    <2> QED
      BY <2>1, <2>3, <2>4, StandingPreserves
  <1>7. CASE SourcesExit
    <2>1. /\ phase = "running" /\ feed' = "gone"
          /\ UNCHANGED <<storeVars, open, now>>
          /\ UNCHANGED <<phase, inbox, nextBeat, stopAt, skew>>
          /\ UNCHANGED <<failures, crashes>>
      BY <1>7 DEF SourcesExit, clockVars, faultVars
    <2>2. ManagerTypeOK'
      BY <1>0, <2>1 DEF ManagerTypeOK
    <2> QED
      BY <2>1, <2>2, StandingPreserves
  <1>6. CASE StepWallClock
    <2>1. /\ skew' \in Skews
          /\ UNCHANGED <<storeVars, open, now>> /\ UNCHANGED <<phase, inbox, nextBeat, feed, stopAt>>
          /\ UNCHANGED <<failures, crashes>>
      BY <1>6 DEF StepWallClock, procVars, stopVars, faultVars
    <2>2. ManagerTypeOK'
      BY <1>0, <2>1 DEF ManagerTypeOK
    <2> QED
      BY <1>0, <2>1, <2>2, StandingPreserves DEF TracksOnlyWhileUp
  <1> QED
    BY <1>1, <1>2, <1>3, <1>4, <1>5, <1>6, <1>7

LEMMA CrashPreserves ==
  ASSUME InductiveInvariant, Crash
  PROVE  InductiveInvariant'
  <1>0. StoreTypeOK /\ ManagerTypeOK
    BY DEF InductiveInvariant, TypeOK
  <1>1. /\ crashes' = crashes + 1 /\ phase' = "crashed"
        /\ open' = << >> /\ inbox' = << >>
        /\ feed' = "gone" /\ nextBeat' = 0 /\ stopAt' = 0
        /\ UNCHANGED <<sessions, applications, lastSession, lastApp>>
        /\ UNCHANGED <<now, skew, failures>>
    BY DEF Crash, storeVars, clockVars
  <1>2. DOMAIN open' = {} /\ open' \in [{} -> OpenSession] /\ inbox' \in Seq(GameEvent)
    BY <1>1
  <1>3. ManagerTypeOK'
    BY <1>0, <1>1, <1>2 DEF ManagerTypeOK, Phase
  <1>4. StoreTypeOK' /\ OpenRows' = OpenRows
    BY <1>0, <1>1 DEF StoreTypeOK, OpenRows
  <1> QED
    BY <1>1, <1>2, <1>3, <1>4, LettingGoPreserves

-----------------------------------------------------------------------------
(* The invariant, and what follows from it. *)

LEMMA InitEstablishes == Init => InductiveInvariant
  <1> SUFFICES ASSUME Init PROVE InductiveInvariant
    OBVIOUS
  <1>1. /\ DOMAIN sessions = {} /\ DOMAIN applications = {} /\ DOMAIN open = {}
        /\ lastSession = 0 /\ lastApp = 0
    BY DEF Init
  <1>2. /\ sessions \in [{} -> SessionRow] /\ open \in [{} -> OpenSession]
        /\ inbox \in Seq(GameEvent)
    BY DEF Init
  <1>3. StoreTypeOK
    BY <1>1, <1>2 DEF StoreTypeOK
  <1>4. ManagerTypeOK
    BY <1>1, <1>2 DEF Init, ManagerTypeOK, Phase
  <1>5. OpenRows = {} /\ phase = "off"
    BY <1>1 DEF OpenRows, Init
  <1> QED
    BY <1>1, <1>3, <1>4, <1>5 DEF InductiveInvariant, TypeOK, TrackedRowsAreOpen,
       RowsHaveApplications, OneOpenRowPerApplication, TracksOnlyWhileUp,
       RuntimeWithinElapsed, BeatAtHand

LEMMA StutteringPreserves ==
  ASSUME InductiveInvariant, UNCHANGED vars
  PROVE  InductiveInvariant'
  <1>1. /\ UNCHANGED <<storeVars, open, now>> /\ UNCHANGED <<phase, inbox, nextBeat, feed, stopAt, skew>>
        /\ UNCHANGED <<failures, crashes>>
    BY DEF vars, procVars, stopVars, clockVars, faultVars
  <1>2. ManagerTypeOK'
    BY <1>1 DEF InductiveInvariant, TypeOK, ManagerTypeOK
  <1> QED
    BY <1>1, <1>2, StandingPreserves DEF InductiveInvariant, TracksOnlyWhileUp

LEMMA NextPreserves == InductiveInvariant /\ [Next]_vars => InductiveInvariant'
  <1> SUFFICES ASSUME InductiveInvariant, [Next]_vars PROVE InductiveInvariant'
    OBVIOUS
  <1>1. CASE \E kind \in {"started", "stopped"}, k \in GameKey : Emit(kind, k)
    BY <1>1, QuietStepPreserves
  <1>2. CASE Handle
    BY <1>2, QuietStepPreserves, StartKnownPreserves, StartNewPreserves,
       HandleStoppedPreserves DEF Handle
  <1>3. CASE HeartbeatOpenSessions
    BY <1>3, HeartbeatPreserves
  <1>4. CASE Recover
    BY <1>4, QuietStepPreserves, RecoverOrphanPreserves, StartManagerPreserves DEF Recover
  <1>5. CASE Stop
    BY <1>5, QuietStepPreserves, CloseAllOpenPreserves DEF Stop
  <1>6. CASE Boot \/ SourcesExit \/ Shutdown \/ StepWallClock
    BY <1>6, QuietStepPreserves
  <1>7. CASE Crash
    BY <1>7, CrashPreserves
  <1>8. CASE \E ids \in SUBSET (1..lastSession) : DeleteSessions(ids)
    BY <1>8, DeleteSessionsPreserves
  <1>9. CASE Tick
    BY <1>9, TickPreserves
  <1>10. CASE UNCHANGED vars
    BY <1>10, StutteringPreserves
  <1> QED
    BY <1>1, <1>2, <1>3, <1>4, <1>5, <1>6, <1>7, <1>8, <1>9, <1>10 DEF Next

(* Whatever the sources report, whichever statements fail and wherever the *)
(* daemon crashes, the tables, the manager's map and the heartbeat stay    *)
(* tied as InductiveInvariant says.                                        *)
THEOREM InvariantHolds == Spec => []InductiveInvariant
  <1> QED
    BY InitEstablishes, NextPreserves, PTL DEF Spec

(* Tables, map, channel and clocks keep their types; in particular no      *)
(* statement the manager issues is rejected by a CHECK of the schema.      *)
THEOREM TypesHold == Spec => []TypeOK
  <1>1. InductiveInvariant => TypeOK
    BY DEF InductiveInvariant
  <1> QED
    BY <1>1, InvariantHolds, PTL

(* Every entry of SessionManager.open names the one open row of its key's  *)
(* application, for as long as the entry lives.                            *)
THEOREM TrackingHolds == Spec => []TrackedRowsAreOpen
  <1>1. InductiveInvariant => TrackedRowsAreOpen
    BY DEF InductiveInvariant
  <1> QED
    BY <1>1, InvariantHolds, PTL

(* An application never has two open rows, whatever fails or crashes: what *)
(* the recovery and the manager each leave behind, the other respects.     *)
THEOREM OneOpenRowHolds == Spec => []OneOpenRowPerApplication
  <1>1. InductiveInvariant => OneOpenRowPerApplication
    BY DEF InductiveInvariant
  <1> QED
    BY <1>1, InvariantHolds, PTL

(* A crash loses at most one heartbeat interval of a session's runtime, and *)
(* one more for each statement that failed, whatever the interval.         *)
THEOREM HeartbeatLagHolds == Spec => []HeartbeatLag
  <1>1. InductiveInvariant => HeartbeatLag
    <2> SUFFICES ASSUME InductiveInvariant, phase = "running", NEW k \in DOMAIN open
                 PROVE  (now - open[k].started) - sessions[open[k].session].full
                           <= Lag(failures)
      BY DEF HeartbeatLag
    <2>1. /\ sessions[open[k].session].full \in Nat /\ open[k].started \in Nat
          /\ now \in Nat /\ nextBeat \in Nat /\ failures \in Nat
      BY EntryIsLegal DEF InductiveInvariant, TypeOK, ManagerTypeOK, OpenSession
    <2>2. /\ now <= nextBeat
          /\ nextBeat <= open[k].started + sessions[open[k].session].full + Lag(failures)
      BY DEF InductiveInvariant, BeatAtHand
    <2>3. Lag(failures) \in Nat
      BY <2>1, LagGrows
    <2> QED
      BY <2>1, <2>2, <2>3
  <1> QED
    BY <1>1, InvariantHolds, PTL

-----------------------------------------------------------------------------
(* That no open row is left to itself while no statement fails: what is     *)
(* tracked is open by the invariant above; this is the converse, which      *)
(* needs it.                                                                *)

(* While the manager runs or stops, it tracks every open row; its task     *)
(* leaves none when it ends.  Between a crash and the end of recovery the  *)
(* rows are nobody's.                                                      *)
Attended ==
  failures = 0 =>
    /\ phase \in {"running", "winding", "stopping"} => OpenRows \subseteq TrackedRows
    /\ phase \in {"deserted", "off"} => OpenRows = {}

AccountInvariant == InductiveInvariant /\ Attended

-----------------------------------------------------------------------------
(* What the steps do to the tracked rows and to the count of failures. *)

LEMMA FailingIsCounted ==
  ASSUME InductiveInvariant, StatementFails
  PROVE  failures' # 0
  BY DEF StatementFails, InductiveInvariant, TypeOK, ManagerTypeOK

(* A row begun is a row tracked. *)
LEMMA TrackingAttends ==
  ASSUME InductiveInvariant, Attended, phase = "running",
         NEW k \in GameKey, k \notin DOMAIN open,
         NEW a \in Nat, NEW at \in Int, Begin(a, at), Track(k, lastSession + 1, a),
         UNCHANGED <<phase, faultVars>>
  PROVE  Attended'
  <1>1. StoreTypeOK
    BY DEF InductiveInvariant, TypeOK
  <1>2. OpenRows' = OpenRows \cup {lastSession + 1}
    BY <1>1, BeginAddsOneRow
  <1>3. /\ DOMAIN open' = DOMAIN open \cup {k}
        /\ open'[k].session = lastSession + 1
        /\ \A j \in DOMAIN open : open'[j] = open[j]
    BY DEF Track
  <1>4. TrackedRows' = TrackedRows \cup {lastSession + 1}
    BY <1>3 DEF TrackedRows
  <1> QED
    BY <1>2, <1>4 DEF Attended, faultVars

(* A row closed is a row let go. *)
LEMMA ClosingAttends ==
  ASSUME InductiveInvariant, Attended, NEW k \in DOMAIN open,
         NEW idle \in IdleBilled, NEW at \in Int,
         CloseAndRollup(open[k].session, open[k].app, RuntimesFor(open[k], idle),
                        at, "terminated"),
         Forget(k), phase \in {"running", "winding", "stopping"},
         UNCHANGED <<phase, lastSession, lastApp, faultVars>>
  PROVE  Attended'
  <1> DEFINE s == open[k].session
             run == RuntimesFor(open[k], idle)
  <1>1. /\ s \in OpenRows
        /\ run.full \in Nat /\ run.interactive \in Nat /\ run.interactive <= run.full
    BY EntryIsLegal
  <1>2. StoreTypeOK /\ "terminated" \in ExitReason
    BY DEF InductiveInvariant, TypeOK, ExitReason
  <1>3. CloseAndRollup(s, open[k].app, run, at, "terminated")
    OBVIOUS
  <1>4. /\ DOMAIN open' = DOMAIN open \ {k}
        /\ \A j \in DOMAIN open' : open'[j] = open[j]
    BY DEF Forget
  <1>5. TrackedRows \ {s} \subseteq TrackedRows'
    BY <1>4 DEF TrackedRows, s
  <1> HIDE DEF s, run
  <1>6. OpenRows' = OpenRows \ {s}
    BY <1>1, <1>2, <1>3, CloseClosesOneRow
  <1> QED
    BY <1>5, <1>6 DEF Attended, faultVars

-----------------------------------------------------------------------------
(* The actions. *)

LEMMA StartAttends ==
  ASSUME InductiveInvariant, Attended, StartKnown \/ StartNew
  PROVE  Attended'
  <1> DEFINE e == Head(inbox)
  <1>1. /\ Receive("started") /\ e \in GameEvent /\ phase = "running"
        /\ UNCHANGED phase
    BY ReceiveTakesAnEvent DEF StartKnown, StartNew, InductiveInvariant
  <1>2. e.key \in GameKey /\ e.at \in Int /\ e.key \notin DOMAIN open
    BY <1>1 DEF GameEvent, StartKnown, StartNew
  <1>3. StoreTypeOK
    BY DEF InductiveInvariant, TypeOK
  <1> HIDE DEF e
  <1>4. CASE StartKnown
    <2>1. PICK a \in AppsOf(e.key) :
            \/ UNCHANGED <<storeVars, open, faultVars>>
            \/ /\ Begin(a, e.at) /\ Track(e.key, lastSession + 1, a)
               /\ UNCHANGED faultVars
      BY <1>4 DEF StartKnown, e
    <2>2. a \in Nat
      BY <1>3 DEF AppsOf, StoreTypeOK
    <2>3. CASE UNCHANGED <<storeVars, open, faultVars>>
      BY <1>1, <2>3 DEF Attended, storeVars, faultVars, OpenRows, TrackedRows
    <2>4. CASE /\ Begin(a, e.at) /\ Track(e.key, lastSession + 1, a)
               /\ UNCHANGED faultVars
      BY <1>1, <1>2, <2>2, <2>4, TrackingAttends
    <2> QED
      BY <2>1, <2>3, <2>4
  <1>5. CASE StartNew
    <2>1. \/ /\ Begin(lastApp + 1, e.at)
             /\ Track(e.key, lastSession + 1, lastApp + 1)
             /\ UNCHANGED faultVars
          \/ StatementFails
      BY <1>5 DEF StartNew, e
    <2>2. lastApp + 1 \in Nat
      BY <1>3 DEF StoreTypeOK
    <2>3. CASE StatementFails
      BY <2>3, FailingIsCounted DEF Attended
    <2>4. CASE /\ Begin(lastApp + 1, e.at)
               /\ Track(e.key, lastSession + 1, lastApp + 1)
               /\ UNCHANGED faultVars
      BY <1>1, <1>2, <2>2, <2>4, TrackingAttends
    <2> QED
      BY <2>1, <2>3, <2>4
  <1> QED
    BY <1>4, <1>5

LEMMA StoppedAttends ==
  ASSUME InductiveInvariant, Attended, HandleStopped
  PROVE  Attended'
  <1> DEFINE e == Head(inbox)
  <1>1. /\ e \in GameEvent /\ phase = "running" /\ UNCHANGED phase
    BY ReceiveTakesAnEvent DEF HandleStopped, InductiveInvariant
  <1>2. e.at \in Int
    BY <1>1 DEF GameEvent
  <1> HIDE DEF e
  <1>3. CASE e.key \notin DOMAIN open
    <2>1. UNCHANGED <<storeVars, open, faultVars>>
      BY <1>3 DEF HandleStopped, e
    <2> QED
      BY <1>1, <2>1 DEF Attended, storeVars, faultVars, OpenRows, TrackedRows
  <1>4. CASE e.key \in DOMAIN open
    <2>1. /\ Forget(e.key)
          /\ \/ /\ \E idle \in IdleBilled :
                     CloseAndRollup(open[e.key].session, open[e.key].app,
                       RuntimesFor(open[e.key], idle), e.at, "terminated")
                /\ UNCHANGED <<lastSession, lastApp, faultVars>>
             \/ StatementFails
      BY <1>4 DEF HandleStopped, e
    <2>2. CASE StatementFails
      BY <2>2, FailingIsCounted DEF Attended
    <2> QED
      BY <1>1, <1>2, <1>4, <2>1, <2>2, ClosingAttends
  <1> QED
    BY <1>3, <1>4

LEMMA CloseAllAttends ==
  ASSUME InductiveInvariant, Attended, NEW k \in DOMAIN open, CloseAllOpen(k)
  PROVE  Attended'
  <1>1. /\ phase \in {"stopping", "winding"} /\ Forget(k) /\ UNCHANGED phase
        /\ \/ /\ \E idle \in IdleBilled :
                   CloseAndRollup(open[k].session, open[k].app,
                     RuntimesFor(open[k], idle), stopAt, "terminated")
              /\ UNCHANGED <<lastSession, lastApp, faultVars>>
           \/ StatementFails
    BY DEF CloseAllOpen
  <1>2. stopAt \in Int
    BY DEF InductiveInvariant, TypeOK, ManagerTypeOK
  <1>3. CASE StatementFails
    BY <1>3, FailingIsCounted DEF Attended
  <1> QED
    BY <1>1, <1>2, <1>3, ClosingAttends

(* A heartbeat closes no row. *)
LEMMA HeartbeatAttends ==
  ASSUME InductiveInvariant, Attended, HeartbeatOpenSessions
  PROVE  Attended'
  <1>1. /\ UNCHANGED <<phase, open>> /\ phase = "running"
        /\ UNCHANGED faultVars \/ StatementFails
    BY DEF HeartbeatOpenSessions
  <1>2. OpenRows' \subseteq OpenRows
    <2>1. /\ DOMAIN sessions' = DOMAIN sessions
          /\ \A t \in DOMAIN sessions : sessions'[t].ended = sessions[t].ended
      BY DEF HeartbeatOpenSessions, Heartbeat, InductiveInvariant, TypeOK, StoreTypeOK,
             SessionRow
    <2> QED
      BY <2>1 DEF OpenRows
  <1>3. CASE StatementFails
    BY <1>3, FailingIsCounted DEF Attended
  <1>4. CASE UNCHANGED faultVars
    BY <1>1, <1>2, <1>4 DEF Attended, faultVars, TrackedRows
  <1> QED
    BY <1>1, <1>3, <1>4

(* The manager starts once recovery has left no row open. *)
LEMMA RecoverAttends ==
  ASSUME InductiveInvariant, Attended, Recover
  PROVE  Attended'
  <1>1. CASE \E s \in Orphans : RecoverOrphan(s)
    <2>1. phase = "recovering" /\ UNCHANGED phase
      BY <1>1 DEF RecoverOrphan, procVars
    <2> QED
      BY <2>1 DEF Attended
  <1>2. CASE RecoveryFails
    BY <1>2 DEF RecoveryFails, Attended
  <1>3. CASE StartManager
    <2>1. OpenRows' = {}
      BY <1>3 DEF StartManager, Orphans, OpenRows, storeVars
    <2> QED
      BY <2>1 DEF Attended
  <1> QED
    BY <1>1, <1>2, <1>3 DEF Recover

(* The manager's task ends with nothing tracked, hence with nothing open;  *)
(* a deserted daemon has nothing to stop.                                  *)
LEMMA EndingAttends ==
  ASSUME InductiveInvariant, Attended, Exit \/ Desert \/ ChannelCloses \/ Shutdown
  PROVE  Attended'
  <1>1. UNCHANGED <<sessions, open, failures>>
    BY DEF Exit, Desert, ChannelCloses, Shutdown, storeVars, faultVars
  <1>2. OpenRows' = OpenRows /\ TrackedRows' = TrackedRows
    BY <1>1 DEF OpenRows, TrackedRows
  <1>3. CASE Exit \/ Desert
    <2>1. phase \in {"stopping", "winding"} /\ TrackedRows = {}
      BY <1>3 DEF Exit, Desert, TrackedRows
    <2> QED
      BY <1>1, <1>2, <2>1 DEF Attended
  <1>4. CASE ChannelCloses \/ Shutdown
    <2>1. /\ phase \in {"running", "winding", "deserted"}
          /\ phase' \in {"winding", "stopping"}
      BY <1>4 DEF ChannelCloses, Shutdown
    <2> QED
      BY <1>1, <1>2, <2>1 DEF Attended
  <1> QED
    BY <1>3, <1>4

(* The steps that leave the open rows, the map and the phase alone, or     *)
(* leave the manager's life.                                               *)
LEMMA QuietAttends ==
  ASSUME InductiveInvariant, Attended,
         \/ \E kind \in {"started", "stopped"}, k \in GameKey : Emit(kind, k)
         \/ IgnoreStarted \/ StartFails \/ Boot \/ SourcesExit \/ Crash
         \/ \E ids \in SUBSET (1..lastSession) : DeleteSessions(ids)
         \/ Tick \/ StepWallClock \/ UNCHANGED vars
  PROVE  Attended'
  <1>1. CASE StartFails
    BY <1>1, FailingIsCounted DEF StartFails, Attended
  <1>2. CASE Boot \/ Crash
    BY <1>2 DEF Boot, Crash, Attended
  <1>3. CASE \E ids \in SUBSET (1..lastSession) : DeleteSessions(ids)
    <2>1. PICK ids : DeleteSessionsAndRecompute(ids) /\ UNCHANGED <<procVars, faultVars>>
      BY <1>3 DEF DeleteSessions
    <2>2. StoreTypeOK
      BY DEF InductiveInvariant, TypeOK
    <2>3. OpenRows' = OpenRows
      BY <2>1, <2>2, DeleteKeepsOpenRows
    <2> QED
      BY <2>1, <2>3 DEF Attended, procVars, faultVars, TrackedRows
  <1>4. ASSUME UNCHANGED <<sessions, open, phase, failures>>
        PROVE  Attended'
    BY <1>4 DEF Attended, OpenRows, TrackedRows
  <1>5. CASE \/ \E kind \in {"started", "stopped"}, k \in GameKey : Emit(kind, k)
             \/ IgnoreStarted \/ SourcesExit \/ Tick \/ StepWallClock \/ UNCHANGED vars
    BY <1>4, <1>5 DEF Emit, IgnoreStarted, Receive, SourcesExit, Tick, StepWallClock,
                      vars, storeVars, procVars, faultVars
  <1> QED
    BY <1>1, <1>2, <1>3, <1>5

-----------------------------------------------------------------------------
LEMMA AccountInit == Init => AccountInvariant
  <1> SUFFICES ASSUME Init PROVE Attended
    BY InitEstablishes DEF AccountInvariant
  <1>1. DOMAIN sessions = {} /\ phase = "off"
    BY DEF Init
  <1> QED
    BY <1>1 DEF Attended, OpenRows

LEMMA AccountNext == AccountInvariant /\ [Next]_vars => AccountInvariant'
  <1> SUFFICES ASSUME InductiveInvariant, Attended, [Next]_vars PROVE Attended'
    BY NextPreserves DEF AccountInvariant
  <1>1. CASE Handle
    BY <1>1, QuietAttends, StartAttends, StoppedAttends DEF Handle
  <1>2. CASE HeartbeatOpenSessions
    BY <1>2, HeartbeatAttends
  <1>3. CASE Recover
    BY <1>3, RecoverAttends
  <1>4. CASE Stop
    BY <1>4, EndingAttends, CloseAllAttends DEF Stop
  <1>5. CASE Shutdown
    BY <1>5, EndingAttends
  <1>6. CASE \/ \E kind \in {"started", "stopped"}, k \in GameKey : Emit(kind, k)
             \/ Boot \/ SourcesExit \/ Crash
             \/ \E ids \in SUBSET (1..lastSession) : DeleteSessions(ids)
             \/ Tick \/ StepWallClock \/ UNCHANGED vars
    BY <1>6, QuietAttends
  <1> QED
    BY <1>1, <1>2, <1>3, <1>4, <1>5, <1>6 DEF Next

(* As long as no statement fails, whatever the sources report and wherever *)
(* the daemon crashes, every open row is one the manager tracks, or one    *)
(* recovery will close: none waits for the next boot unnoticed.            *)
THEOREM AccountHolds == Spec => []OpenRowsAccountedFor
  <1>1. AccountInvariant => OpenRowsAccountedFor
    <2> SUFFICES ASSUME InductiveInvariant, Attended, failures = 0
                 PROVE  CASE phase \in {"running", "winding", "stopping"} ->
                               OpenRows = TrackedRows
                          [] phase \in {"deserted", "off"} -> OpenRows = {}
                          [] OTHER -> TRUE
      BY DEF AccountInvariant, OpenRowsAccountedFor
    <2>1. TrackedRows \subseteq OpenRows
      BY DEF InductiveInvariant, TrackedRowsAreOpen, TrackedRows
    <2>2. /\ phase \in {"running", "winding", "stopping"} => OpenRows = TrackedRows
          /\ phase \in {"deserted", "off"} => OpenRows = {}
      BY <2>1 DEF Attended
    <2>3. CASE phase \in {"running", "winding", "stopping"}
      BY <2>2, <2>3
    <2>4. CASE phase \in {"deserted", "off"}
      BY <2>2, <2>4
    <2>5. CASE phase \notin {"running", "winding", "stopping", "deserted", "off"}
      BY <2>5
    <2> QED
      BY <2>3, <2>4, <2>5
  <1>2. Spec => []AccountInvariant
    BY AccountInit, AccountNext, PTL DEF Spec
  <1> QED
    BY <1>1, <1>2, PTL

-----------------------------------------------------------------------------
(* What a step does to the tables: an application is registered, a row     *)
(* opened (for an application that is perhaps registered with it), open    *)
(* rows grow, one is settled with its application's aggregates, closed     *)
(* rows are deleted, or nothing.                                           *)

IsFresh(row) ==
  row.runs = 0 /\ row.full = 0 /\ row.interactive = 0 /\ row.longest = 0 /\ row.last = NULL

Admits(a) ==
  /\ DOMAIN applications' = DOMAIN applications \cup {a}
  /\ a \notin DOMAIN applications => IsFresh(applications'[a])
  /\ \A b \in DOMAIN applications : applications'[b] = applications[b]

Opens(s, a) ==
  /\ s \notin DOMAIN sessions
  /\ \A r \in OpenRows : sessions[r].app # a
  /\ DOMAIN sessions' = DOMAIN sessions \cup {s}
  /\ \A r \in DOMAIN sessions : sessions'[r] = sessions[r]
  /\ sessions'[s].app = a /\ sessions'[s].full = 0 /\ sessions'[s].ended = NULL

Beats ==
  /\ DOMAIN sessions' = DOMAIN sessions
  /\ \A s \in DOMAIN sessions :
       \/ sessions'[s] = sessions[s]
       \/ /\ sessions[s].ended = NULL /\ sessions'[s].ended = NULL
          /\ sessions'[s].app = sessions[s].app
          /\ sessions'[s].full >= sessions[s].full

Runtime == [full : Nat, interactive : Nat]

Settles(s, run, at, reason) ==
  CloseAndRollup(s, sessions[s].app, run, at, reason) /\ run.full >= sessions[s].full

TablesMove ==
  \/ \E a \in Nat : a \notin DOMAIN applications /\ Admits(a) /\ UNCHANGED sessions
  \/ \E s, a \in Nat : Admits(a) /\ Opens(s, a)
  \/ Beats /\ UNCHANGED applications
  \/ \E s \in OpenRows, run \in Runtime, at \in Int, reason \in ExitReason :
       Settles(s, run, at, reason)
  \/ \E ids \in SUBSET Nat : DeleteSessionsAndRecompute(ids)
  \/ UNCHANGED <<sessions, applications>>

LEMMA StartMoves ==
  ASSUME InductiveInvariant, StartKnown \/ StartNew
  PROVE  TablesMove
  <1> DEFINE e == Head(inbox)
  <1>1. TypeOK /\ StoreTypeOK
    BY DEF InductiveInvariant, TypeOK
  <1>2. e.key \in GameKey /\ e.at \in Int
    BY <1>1, ReceiveTakesAnEvent DEF StartKnown, StartNew, GameEvent
  <1>3. ASSUME NEW a \in Nat, Begin(a, e.at), \A r \in OpenRows : sessions[r].app # a, Admits(a)
        PROVE  TablesMove
    <2> DEFINE n == lastSession + 1
    <2> HIDE DEF e
    <2>1. n \in Nat
      BY <1>1 DEF StoreTypeOK
    <2>2. /\ n \notin DOMAIN sessions
          /\ DOMAIN sessions' = DOMAIN sessions \cup {n}
          /\ \A t \in DOMAIN sessions : sessions'[t] = sessions[t]
          /\ sessions'[n].app = a /\ sessions'[n].full = 0 /\ sessions'[n].ended = NULL
      BY <1>1, <1>2, <1>3, BeginAddsOneRow
    <2> HIDE DEF n
    <2>3. Opens(n, a)
      BY <1>3, <2>2 DEF Opens
    <2> QED
      BY <1>3, <2>1, <2>3 DEF TablesMove
  <1>4. CASE StartKnown
    <2>1. PICK a \in AppsOf(e.key) :
            \/ UNCHANGED <<storeVars, open, faultVars>>
            \/ ~ HasOpenRow(a) /\ Begin(a, e.at) /\ UNCHANGED applications
      BY <1>4 DEF StartKnown
    <2>2. a \in DOMAIN applications /\ a \in Nat
      BY <1>1 DEF AppsOf, StoreTypeOK
    <2>3. CASE ~ HasOpenRow(a) /\ Begin(a, e.at) /\ UNCHANGED applications
      <3>1. Admits(a)
        BY <2>2, <2>3 DEF Admits
      <3> QED
        BY <1>3, <2>2, <2>3, <3>1 DEF HasOpenRow
    <2> QED
      BY <2>1, <2>3 DEF storeVars, TablesMove
  <1>5. CASE StartNew
    <2> DEFINE a == lastApp + 1
    <2>1. /\ CreateApplication(e.key)
          /\ Begin(a, e.at) \/ UNCHANGED sessions
      BY <1>5 DEF StartNew
    <2>2. /\ a \notin DOMAIN applications
          /\ DOMAIN applications' = DOMAIN applications \cup {a}
          /\ \A b \in DOMAIN applications : applications'[b] = applications[b]
      BY <1>1, <1>2, <2>1, CreateAddsOneApplication
    <2>3. Admits(a) /\ a \in Nat
      <3>1. IsFresh(applications'[a])
        BY <2>1 DEF CreateApplication, IsFresh
      <3> QED
        BY <1>1, <2>2, <3>1 DEF Admits, StoreTypeOK
    <2>4. CASE Begin(a, e.at)
      <3>1. \A r \in OpenRows : sessions[r].app # a
        BY <2>2 DEF InductiveInvariant, RowsHaveApplications, OpenRows
      <3> HIDE DEF a, e
      <3> QED
        BY <1>3, <2>3, <2>4, <3>1
    <2>5. CASE UNCHANGED sessions
      <3> HIDE DEF a
      <3> QED
        BY <2>2, <2>3, <2>5 DEF TablesMove
    <2> QED
      BY <2>1, <2>4, <2>5
  <1> QED
    BY <1>4, <1>5

LEMMA HeartbeatMoves ==
  ASSUME InductiveInvariant, HeartbeatOpenSessions
  PROVE  TablesMove
  <1>1. StoreTypeOK /\ ManagerTypeOK /\ TrackedRowsAreOpen
    BY DEF InductiveInvariant, TypeOK
  <1>2. PICK done \in SUBSET DOMAIN open :
          \E idle \in [done -> IdleBilled] :
            LET ids == {open[k].session : k \in done}
            IN  Heartbeat(ids,
                  [s \in ids |-> RuntimesFor(open[KeyOf(s)], idle[KeyOf(s)])], Wall)
    BY DEF HeartbeatOpenSessions
  <1>3. PICK idle \in [done -> IdleBilled] :
          LET ids == {open[k].session : k \in done}
          IN  Heartbeat(ids,
                [s \in ids |-> RuntimesFor(open[KeyOf(s)], idle[KeyOf(s)])], Wall)
    BY <1>2
  <1> DEFINE ids == {open[k].session : k \in done}
             run == [s \in ids |-> RuntimesFor(open[KeyOf(s)], idle[KeyOf(s)])]
  <1>4. UNCHANGED applications
    BY DEF HeartbeatOpenSessions
  <1>5. DOMAIN sessions' = DOMAIN sessions
    BY <1>3 DEF Heartbeat
  <1>6. ASSUME NEW k \in done
        PROVE  LET s == open[k].session
               IN  /\ s \in DOMAIN sessions /\ sessions[s].ended = NULL
                   /\ sessions'[s].ended = NULL /\ sessions'[s].app = sessions[s].app
                   /\ sessions'[s].full >= sessions[s].full
    <2> DEFINE s == open[k].session
    <2>1. s \in OpenRows /\ s \in DOMAIN sessions /\ sessions[s].ended = NULL
      BY <1>1 DEF TrackedRowsAreOpen, OpenRows
    <2>2. sessions[s] \in SessionRow
      BY <1>1, <2>1 DEF StoreTypeOK
    <2>3. s \in ids /\ run[s] = RuntimesFor(open[k], idle[k])
      BY <1>1, KeyOfTracked
    <2>4. run[s].full = now - open[k].started
      BY <2>3 DEF RuntimesFor
    <2>5. Heartbeat(ids, run, Wall)
      BY <1>3
    <2>6. sessions[s].full <= now - open[k].started
      BY DEF InductiveInvariant, RuntimeWithinElapsed
    <2>7. now - open[k].started >= sessions[s].full
      BY <2>6, EntryIsLegal, <1>1 DEF OpenSession, ManagerTypeOK
    <2> HIDE DEF s, run, ids
    <2>8. sessions'[s] = [sessions[s] EXCEPT !.heartbeat = Wall, !.full = run[s].full,
                                             !.interactive = run[s].interactive]
      BY <2>1, <2>3, <2>5 DEF Heartbeat, StillOpen
    <2>9. /\ sessions'[s].ended = NULL /\ sessions'[s].app = sessions[s].app
          /\ sessions'[s].full = run[s].full
      BY <2>1, <2>2, <2>8 DEF SessionRow
    <2> QED
      BY <2>1, <2>4, <2>7, <2>9 DEF s
  <1>7. ASSUME NEW s \in DOMAIN sessions, s \notin ids PROVE sessions'[s] = sessions[s]
    BY <1>3, <1>7 DEF Heartbeat
  <1>8. ASSUME NEW s \in DOMAIN sessions
        PROVE  \/ sessions'[s] = sessions[s]
               \/ /\ sessions[s].ended = NULL /\ sessions'[s].ended = NULL
                  /\ sessions'[s].app = sessions[s].app
                  /\ sessions'[s].full >= sessions[s].full
    <2>1. CASE s \in ids
      BY <1>6, <2>1
    <2> QED
      BY <1>7, <2>1
  <1>9. Beats
    BY <1>5, <1>8 DEF Beats
  <1> QED
    BY <1>4, <1>9 DEF TablesMove

(* The entry's application is its row's, and its runtime is no shorter.    *)
LEMMA ClosingMoves ==
  ASSUME InductiveInvariant, NEW k \in DOMAIN open, NEW idle \in IdleBilled,
         NEW at \in Int,
         CloseAndRollup(open[k].session, open[k].app,
                        RuntimesFor(open[k], idle), at, "terminated")
  PROVE  TablesMove
  <1> DEFINE s == open[k].session
             run == RuntimesFor(open[k], idle)
  <1>1. StoreTypeOK /\ ManagerTypeOK
    BY DEF InductiveInvariant, TypeOK
  <1>2. s \in OpenRows /\ open[k].app = sessions[s].app
    BY DEF InductiveInvariant, TrackedRowsAreOpen
  <1>3. run \in Runtime
    <2>1. run.full \in Nat /\ run.interactive \in Nat
      BY EntryIsLegal
    <2> QED
      BY <2>1 DEF Runtime, RuntimesFor
  <1>4. run.full >= sessions[s].full
    <2>1. sessions[s].full <= now - open[k].started
      BY DEF InductiveInvariant, RuntimeWithinElapsed
    <2>2. /\ sessions[s].full \in Nat /\ open[k].started \in Nat /\ now \in Nat
          /\ run.full = now - open[k].started
      BY <1>1, EntryIsLegal DEF OpenSession, ManagerTypeOK
    <2> HIDE DEF run, s
    <2> QED
      BY <2>1, <2>2
  <1> HIDE DEF run
  <1>5. CloseAndRollup(s, sessions[s].app, run, at, "terminated")
    BY <1>2 DEF run
  <1> HIDE DEF s
  <1>6. Settles(s, run, at, "terminated")
    BY <1>4, <1>5 DEF Settles
  <1> QED
    BY <1>2, <1>3, <1>6 DEF TablesMove, ExitReason

LEMMA HandleStoppedMoves ==
  ASSUME InductiveInvariant, HandleStopped
  PROVE  TablesMove
  <1> DEFINE e == Head(inbox)
  <1>1. e.at \in Int
    BY ReceiveTakesAnEvent DEF InductiveInvariant, HandleStopped, GameEvent
  <1>2. \/ UNCHANGED storeVars
        \/ /\ e.key \in DOMAIN open
           /\ \E idle \in IdleBilled :
                CloseAndRollup(open[e.key].session, open[e.key].app,
                               RuntimesFor(open[e.key], idle), e.at, "terminated")
    BY DEF HandleStopped
  <1> HIDE DEF e
  <1>3. CASE UNCHANGED storeVars
    BY <1>3 DEF storeVars, TablesMove
  <1> QED
    BY <1>1, <1>2, <1>3, ClosingMoves

LEMMA CloseAllOpenMoves ==
  ASSUME InductiveInvariant, NEW k \in DOMAIN open, CloseAllOpen(k)
  PROVE  TablesMove
  <1>1. stopAt \in Int
    BY DEF InductiveInvariant, TypeOK, ManagerTypeOK
  <1>2. \/ UNCHANGED storeVars
        \/ \E idle \in IdleBilled :
             CloseAndRollup(open[k].session, open[k].app,
                            RuntimesFor(open[k], idle), stopAt, "terminated")
    BY DEF CloseAllOpen
  <1>3. CASE UNCHANGED storeVars
    BY <1>3 DEF storeVars, TablesMove
  <1> QED
    BY <1>1, <1>2, <1>3, ClosingMoves

LEMMA RecoverOrphanMoves ==
  ASSUME InductiveInvariant, NEW s \in Orphans, RecoverOrphan(s)
  PROVE  TablesMove
  <1> DEFINE run == [full |-> sessions[s].full, interactive |-> sessions[s].interactive]
  <1>1. s \in OpenRows
    BY DEF Orphans
  <1>2. /\ sessions[s].heartbeat \in Int
        /\ sessions[s].full \in Nat /\ sessions[s].interactive \in Nat
    BY <1>1 DEF InductiveInvariant, TypeOK, StoreTypeOK, SessionRow, OpenRows
  <1>3. CloseAndRollup(s, sessions[s].app, run, sessions[s].heartbeat, "recovered")
    BY DEF RecoverOrphan
  <1>4. run.full >= sessions[s].full /\ run \in Runtime
    BY <1>2 DEF Runtime
  <1> HIDE DEF run
  <1>5. Settles(s, run, sessions[s].heartbeat, "recovered")
    BY <1>3, <1>4 DEF Settles
  <1> QED
    BY <1>1, <1>2, <1>4, <1>5 DEF TablesMove, ExitReason

LEMMA StepMovesTables ==
  ASSUME InductiveInvariant, [Next]_vars
  PROVE  TablesMove
  <1>1. CASE \/ \E kind \in {"started", "stopped"}, k \in GameKey : Emit(kind, k)
             \/ IgnoreStarted \/ StartFails \/ Boot \/ RecoveryFails \/ StartManager
             \/ SourcesExit \/ ChannelCloses \/ Shutdown \/ Desert \/ Exit \/ Crash
             \/ Tick \/ StepWallClock
             \/ UNCHANGED vars
    <2>1. UNCHANGED <<sessions, applications>>
      BY <1>1 DEF Emit, IgnoreStarted, StartFails, Boot, RecoveryFails, StartManager,
         SourcesExit, ChannelCloses, Shutdown, Desert, Exit, Crash, Tick, StepWallClock,
         vars, storeVars
    <2> QED
      BY <2>1 DEF TablesMove
  <1>2. CASE StartKnown \/ StartNew
    BY <1>2, StartMoves
  <1>3. CASE HandleStopped
    BY <1>3, HandleStoppedMoves
  <1>4. CASE HeartbeatOpenSessions
    BY <1>4, HeartbeatMoves
  <1>5. CASE \E s \in Orphans : RecoverOrphan(s)
    BY <1>5, RecoverOrphanMoves
  <1>6. CASE \E k \in DOMAIN open : CloseAllOpen(k)
    BY <1>6, CloseAllOpenMoves
  <1>7. CASE \E ids \in SUBSET (1..lastSession) : DeleteSessions(ids)
    <2>1. PICK ids \in SUBSET (1..lastSession) : DeleteSessionsAndRecompute(ids)
      BY <1>7 DEF DeleteSessions
    <2>2. ids \in SUBSET Nat
      BY DEF InductiveInvariant, TypeOK, StoreTypeOK
    <2> QED
      BY <2>1, <2>2 DEF TablesMove
  <1> QED
    BY <1>1, <1>2, <1>3, <1>4, <1>5, <1>6, <1>7 DEF Next, Handle, Recover, Stop

-----------------------------------------------------------------------------
(* The ledger, step by step. *)

RowOf(row) == [app |-> row.app, full |-> row.full,
               state |-> IF row.ended = NULL THEN "open" ELSE "closed"]

RowsOf(table) == [s \in DOMAIN table |-> RowOf(table[s])]

LedgerRows == RowsOf(sessions)

LedgerTotal == [a \in DOMAIN applications |-> applications[a].full]

LEMMA LedgerStands ==
  ASSUME UNCHANGED <<sessions, applications>>
  PROVE  UNCHANGED Ledger!ledger
  BY DEF Ledger!ledger

LEMMA RegisterIsLedger ==
  ASSUME NEW a, a \notin DOMAIN applications, Admits(a), UNCHANGED sessions
  PROVE  Ledger!Next
  <1>1. Ledger!Register(a)
    BY DEF Ledger!Register, Ledger!Admit, Admits, IsFresh
  <1> QED
    BY <1>1 DEF Ledger!Next, Admits

LEMMA OpenIsLedger ==
  ASSUME NEW s, NEW a, Admits(a), Opens(s, a)
  PROVE  Ledger!Next
  <1>1. Ledger!Open(s, a)
    <2>1. \A r \in DOMAIN sessions : sessions[r].app = a => sessions[r].ended # NULL
      BY DEF Opens, OpenRows
    <2> QED
      BY <2>1 DEF Ledger!Open, Ledger!Admit, Admits, Opens, IsFresh
  <1> QED
    BY <1>1 DEF Ledger!Next, Admits, Opens

LEMMA PlayIsLedger ==
  ASSUME Beats, UNCHANGED applications
  PROVE  Ledger!Next
  <1>1. LedgerRows = [s \in DOMAIN sessions |-> RowOf(sessions[s])]
        /\ LedgerRows' = [s \in DOMAIN sessions' |-> RowOf(sessions'[s])]
    BY DEF LedgerRows, RowsOf, RowOf
  <1>2. ASSUME NEW s \in DOMAIN sessions
        PROVE  \/ LedgerRows'[s] = LedgerRows[s]
               \/ /\ LedgerRows[s].state = "open"
                  /\ LedgerRows'[s].full >= LedgerRows[s].full
                  /\ LedgerRows'[s] = [LedgerRows[s] EXCEPT !.full = LedgerRows'[s].full]
    BY <1>1 DEF RowOf, Beats
  <1>3. Ledger!Play
    BY <1>1, <1>2 DEF Ledger!Play, LedgerRows, RowsOf, RowOf, Beats
  <1> QED
    BY <1>3 DEF Ledger!Next

LEMMA CloseIsLedger ==
  ASSUME StoreTypeOK, NEW s \in OpenRows, NEW run, NEW at \in Int, NEW reason,
         Settles(s, run, at, reason)
  PROVE  Ledger!Next
  <1>1. s \in DOMAIN sessions /\ sessions[s].ended = NULL /\ sessions[s] \in SessionRow
    BY DEF OpenRows, StoreTypeOK
  <1>2. /\ sessions' = [sessions EXCEPT ![s] = [@ EXCEPT !.ended = at, !.heartbeat = at,
                          !.full = run.full, !.interactive = run.interactive, !.exit = reason]]
        /\ applications' = [b \in DOMAIN applications |->
                              IF b = sessions[s].app THEN RolledUp(applications[b], run, at)
                              ELSE applications[b]]
    BY DEF Settles, CloseAndRollup, StillOpen
  <1>3. /\ sessions'[s].app = sessions[s].app /\ sessions'[s].full = run.full
        /\ sessions'[s].ended = at /\ at # NULL
    BY <1>1, <1>2 DEF SessionRow
  <1>4. /\ DOMAIN sessions' = DOMAIN sessions
        /\ \A t \in DOMAIN sessions \ {s} : sessions'[t] = sessions[t]
    BY <1>2
  <1>5. /\ LedgerRows[s] = [app |-> sessions[s].app, full |-> sessions[s].full, state |-> "open"]
        /\ LedgerRows'[s] = [app |-> sessions[s].app, full |-> run.full, state |-> "closed"]
    BY <1>1, <1>3, <1>4 DEF LedgerRows, RowsOf, RowOf
  <1>6. LedgerRows'[s] = [app |-> LedgerRows[s].app, full |-> LedgerRows'[s].full,
                          state |-> "closed"]
    BY <1>5
  <1>7. \A t \in DOMAIN sessions \ {s} : LedgerRows'[t] = LedgerRows[t]
    BY <1>4 DEF LedgerRows, RowsOf, RowOf
  <1>8. LedgerRows' = [LedgerRows EXCEPT
                        ![s] = [app |-> @.app, full |-> LedgerRows'[s].full, state |-> "closed"]]
    BY <1>1, <1>4, <1>6, <1>7 DEF LedgerRows, RowsOf
  <1>9. LedgerTotal' = [LedgerTotal EXCEPT ![LedgerRows[s].app] = @ + LedgerRows'[s].full]
    BY <1>2, <1>5 DEF LedgerTotal, RolledUp
  <1>10. LedgerRows[s].state = "open" /\ LedgerRows'[s].full >= LedgerRows[s].full
    BY <1>5 DEF Settles
  <1>11. Ledger!Close(s)
    BY <1>8, <1>9, <1>10 DEF Ledger!Close, LedgerRows, LedgerTotal, RowsOf, RowOf
  <1> QED
    BY <1>1, <1>11 DEF Ledger!Next

(* The ledger's sum of settled runtimes is the store's of closed rows. *)
LEMMA SettledIsClosed ==
  ASSUME NEW table, NEW a
  PROVE  Ledger!SettledTotal(RowsOf(table), a) = TotalFull(table, ClosedOf(table, a))
  <1>1. Ledger!Settled(RowsOf(table), a) = ClosedOf(table, a)
    BY DEF Ledger!Settled, RowsOf, RowOf, ClosedOf
  <1>2. [s \in Ledger!Settled(RowsOf(table), a) |-> RowsOf(table)[s].full]
          = [s \in ClosedOf(table, a) |-> table[s].full]
    BY <1>1 DEF RowsOf, RowOf, ClosedOf
  <1>3. ASSUME NEW f PROVE Ledger!SumFunction(f) = SumFunction(f)
    BY Zenon DEF Ledger!SumFunction, SumFunction, Ledger!SumFunctionOnSet,
       SumFunctionOnSet, Ledger!FoldFunctionOnSet, FoldFunctionOnSet,
       Ledger!MapThenFoldSet, MapThenFoldSet
  <1> QED
    BY <1>2, <1>3 DEF Ledger!SettledTotal, TotalFull

LEMMA DeleteIsLedger ==
  ASSUME NEW ids, DeleteSessionsAndRecompute(ids)
  PROVE  Ledger!Next
  <1> DEFINE gone == DOMAIN LedgerRows \ DOMAIN LedgerRows'
  <1>1. /\ sessions' = [s \in DOMAIN sessions \ ids |-> sessions[s]]
        /\ ids \cap OpenRows = {}
        /\ DOMAIN applications' = DOMAIN applications
    BY DEF DeleteSessionsAndRecompute, MayDelete
  <1>2. DOMAIN LedgerRows = DOMAIN sessions /\ DOMAIN LedgerRows' = DOMAIN sessions'
    BY DEF LedgerRows, RowsOf
  <1>3. gone = ids \cap DOMAIN sessions
    BY <1>1, <1>2
  <1>4. \A s \in gone : LedgerRows[s].state = "closed"
    BY <1>1, <1>3 DEF OpenRows, LedgerRows, RowsOf, RowOf
  <1>5. LedgerRows' = [s \in DOMAIN LedgerRows \ gone |-> LedgerRows[s]]
    BY <1>1, <1>2, <1>3 DEF LedgerRows, RowsOf, RowOf
  <1>6. ASSUME NEW a \in DOMAIN applications
        PROVE  LedgerTotal'[a] = IF \E s \in gone : LedgerRows[s].app = a
                                 THEN Ledger!SettledTotal(LedgerRows', a) ELSE LedgerTotal[a]
    <2>1. (\E s \in gone : LedgerRows[s].app = a)
            <=> a \in {sessions[s].app : s \in ids \cap DOMAIN sessions}
      BY <1>3 DEF LedgerRows, RowsOf, RowOf
    <2>2. applications'[a] =
            IF a \in {sessions[s].app : s \in ids \cap DOMAIN sessions}
            THEN Rebuilt(applications[a], sessions', a) ELSE applications[a]
      BY <1>1 DEF DeleteSessionsAndRecompute
    <2>3. Rebuilt(applications[a], sessions', a).full
            = TotalFull(sessions', ClosedOf(sessions', a))
      BY DEF Rebuilt
    <2>4. Ledger!SettledTotal(LedgerRows', a) = TotalFull(sessions', ClosedOf(sessions', a))
      BY SettledIsClosed DEF LedgerRows
    <2>5. LedgerTotal'[a] = applications'[a].full /\ LedgerTotal[a] = applications[a].full
      BY <1>1 DEF LedgerTotal
    <2> QED
      BY <2>1, <2>2, <2>3, <2>4, <2>5
  <1>7. LedgerTotal' = [a \in DOMAIN LedgerTotal |->
                          IF \E s \in gone : LedgerRows[s].app = a
                          THEN Ledger!SettledTotal(LedgerRows', a) ELSE LedgerTotal[a]]
    BY <1>1, <1>6 DEF LedgerTotal
  <1>8. Ledger!Delete(gone)
    BY <1>4, <1>5, <1>7 DEF Ledger!Delete, LedgerRows, LedgerTotal, RowsOf, RowOf
  <1> QED
    BY <1>8 DEF Ledger!Next, LedgerRows, RowsOf, RowOf

LEMMA StepIsLedger ==
  InductiveInvariant /\ [Next]_vars => [Ledger!Next]_(Ledger!ledger)
  <1> SUFFICES ASSUME InductiveInvariant, [Next]_vars
               PROVE  Ledger!Next \/ UNCHANGED <<sessions, applications>>
    BY LedgerStands
  <1>1. TablesMove /\ StoreTypeOK
    BY StepMovesTables DEF InductiveInvariant, TypeOK
  <1> QED
    BY <1>1, RegisterIsLedger, OpenIsLedger, PlayIsLedger, CloseIsLedger, DeleteIsLedger
       DEF TablesMove

(* The tables keep the ledger's promises for every set of keys, every      *)
(* interval and every bound: a session's runtime never shrinks, a session  *)
(* that closes is added to its application's total once, in the step that  *)
(* closes it, with the application the row names, and a delete leaves the  *)
(* sum of what remains.                                                    *)
THEOREM ManagerImplementsLedger == Spec => ImplementsLedger
  <1>1. Init => Ledger!Init
    BY DEF Init, Ledger!Init
  <1> QED
    BY <1>1, StepIsLedger, InvariantHolds, PTL DEF Spec, ImplementsLedger, Ledger!Spec

-----------------------------------------------------------------------------
(* The aggregates.  StatsMatchClosedRows and LastPlayedIsAClosedRow, row   *)
(* by row of `applications`.                                               *)

Longest(table, ids) == Max({0} \cup {table[s].full : s \in ids})

StatsAre(row, table, a) ==
  LET ids == ClosedOf(table, a)
  IN  /\ row.runs = Cardinality(ids)
      /\ row.full = TotalFull(table, ids)
      /\ row.interactive = TotalInteractive(table, ids)
      /\ row.longest = Longest(table, ids)

LastIs(row, table, a) ==
  LET ends == {table[s].ended : s \in ClosedOf(table, a)}
  IN  IF ends = {} THEN row.last = NULL ELSE row.last \in ends

(* The rows a rebuild counts are finitely many, and numbers. *)
LEMMA ClosedRowsAreLegal ==
  ASSUME StoreTypeOK, NEW a
  PROVE  /\ IsFiniteSet(ClosedOf(sessions, a))
         /\ \A s \in ClosedOf(sessions, a) :
              /\ s \in DOMAIN sessions /\ sessions[s].full \in Nat
              /\ sessions[s].interactive \in Nat /\ sessions[s].ended \in Int
  <1>1. IsFiniteSet(1..lastSession)
    <2>1. 1 \in Int /\ lastSession \in Int
      BY DEF StoreTypeOK
    <2> QED
      BY <2>1, FS_Interval
  <1>2. ClosedOf(sessions, a) \in SUBSET (1..lastSession)
    BY DEF ClosedOf, StoreTypeOK
  <1>3. IsFiniteSet(ClosedOf(sessions, a))
    BY <1>1, <1>2, FS_Subset
  <1> QED
    BY <1>3 DEF ClosedOf, StoreTypeOK, SessionRow

LEMMA LongestIsGreatest ==
  ASSUME NEW table, NEW ids, IsFiniteSet(ids), \A s \in ids : table[s].full \in Nat
  PROVE  /\ Longest(table, ids) \in {0} \cup {table[s].full : s \in ids}
         /\ \A n \in {0} \cup {table[s].full : s \in ids} : Longest(table, ids) >= n
  <1> DEFINE values == {0} \cup {table[s].full : s \in ids}
             full == [s \in ids |-> table[s].full]
  <1>1. values \in SUBSET Int
    OBVIOUS
  <1>2. \E m \in values : \A n \in values : m >= n
    <2>1. CASE ids = {}
      BY <2>1
    <2>2. CASE ids # {}
      <3>1. \A s \in ids : full[s] \in Int
        OBVIOUS
      <3>2. PICK x \in ids : \A y \in ids : full[x] >= full[y]
        <4> HIDE DEF full
        <4> QED
          BY <2>2, <3>1, GreatestExists
      <3>3. \A n \in values : table[x].full >= n
        BY <3>2
      <3> QED
        BY <3>3
    <2> QED
      BY <2>1, <2>2
  <1>3. PICK m \in values : \A n \in values : m >= n
    BY <1>2
  <1>4. Longest(table, ids) = m
    <2> HIDE DEF values
    <2>1. Max(values) = m
      BY <1>1, <1>3, MaxIsGreatest
    <2> QED
      BY <2>1 DEF Longest, values
  <1> QED
    BY <1>3, <1>4

LEMMA LongestOfBoth ==
  ASSUME NEW table, NEW A, IsFiniteSet(A), NEW B, IsFiniteSet(B),
         \A s \in A \cup B : table[s].full \in Nat
  PROVE  Longest(table, A \cup B) = Larger(Longest(table, A), Longest(table, B))
  <1> DEFINE m == Longest(table, A)
             n == Longest(table, B)
             values == {0} \cup {table[s].full : s \in A \cup B}
  <1>1. /\ m \in {0} \cup {table[s].full : s \in A}
        /\ \A i \in {0} \cup {table[s].full : s \in A} : m >= i
    BY LongestIsGreatest
  <1>2. /\ n \in {0} \cup {table[s].full : s \in B}
        /\ \A i \in {0} \cup {table[s].full : s \in B} : n >= i
    BY LongestIsGreatest
  <1> HIDE DEF m, n
  <1>3. /\ m \in Nat /\ n \in Nat /\ m \in values /\ n \in values
        /\ \A i \in values : m >= i \/ n >= i
    BY <1>1, <1>2
  <1>4. values \in SUBSET Int
    OBVIOUS
  <1> HIDE DEF values
  <1>5. Larger(m, n) \in values /\ \A i \in values : Larger(m, n) >= i
    BY <1>3, <1>4 DEF Larger
  <1>6. Max(values) = Larger(m, n)
    BY <1>4, <1>5, MaxIsGreatest
  <1> QED
    BY <1>6 DEF values, m, n, Longest

LEMMA TotalsOfBoth ==
  ASSUME NEW table, NEW A, IsFiniteSet(A), NEW B, IsFiniteSet(B), A \cap B = {},
         \A s \in A \cup B : table[s].full \in Nat /\ table[s].interactive \in Nat
  PROVE  /\ TotalFull(table, A \cup B) = TotalFull(table, A) + TotalFull(table, B)
         /\ TotalInteractive(table, A \cup B)
              = TotalInteractive(table, A) + TotalInteractive(table, B)
         /\ Cardinality(A \cup B) = Cardinality(A) + Cardinality(B)
  <1> DEFINE full == [s \in A \cup B |-> table[s].full]
             interactive == [s \in A \cup B |-> table[s].interactive]
  <1>1. \A s \in A \cup B : full[s] \in Int /\ interactive[s] \in Int
    OBVIOUS
  <1>2. \A D \in SUBSET (A \cup B) :
          /\ [s \in D |-> full[s]] = [s \in D |-> table[s].full]
          /\ [s \in D |-> interactive[s]] = [s \in D |-> table[s].interactive]
    OBVIOUS
  <1> HIDE DEF full, interactive
  <1>3. \A D \in SUBSET (A \cup B) :
          /\ TotalFull(table, D) = SumOver(full, D)
          /\ TotalInteractive(table, D) = SumOver(interactive, D)
    BY <1>2 DEF TotalFull, TotalInteractive, SumOver
  <1>4. /\ SumOver(full, A \cup B)
             = SumOver(full, A) + SumOver(full, B)
        /\ SumOver(interactive, A \cup B)
             = SumOver(interactive, A) + SumOver(interactive, B)
    <2>1. \A s \in A \cup B : full[s] \in Int
      BY <1>1
    <2>2. \A s \in A \cup B : interactive[s] \in Int
      BY <1>1
    <2>3. SumOver(full, A \cup B)
             = SumOver(full, A) + SumOver(full, B)
      BY <2>1, SumOfBoth
    <2>4. SumOver(interactive, A \cup B)
             = SumOver(interactive, A) + SumOver(interactive, B)
      BY <2>2, SumOfBoth
    <2> QED
      BY <2>3, <2>4
  <1>5. Cardinality(A \cup B) = Cardinality(A) + Cardinality(B)
    <2>1. Cardinality(A \cup B) = Cardinality(A) + Cardinality(B) - Cardinality(A \cap B)
      BY FS_Union
    <2>2. Cardinality(A) \in Nat /\ Cardinality(B) \in Nat
      BY FS_CardinalityType
    <2>3. Cardinality(A \cap B) = 0
      BY FS_EmptySet
    <2> QED
      BY <2>1, <2>2, <2>3
  <1> QED
    BY <1>3, <1>4, <1>5

(* The statistics read the closed rows and nothing else. *)
LEMMA StatsReadClosedRows ==
  ASSUME NEW table, NEW next, NEW a, NEW b, ClosedOf(next, b) = ClosedOf(table, a),
         \A s \in ClosedOf(table, a) :
           /\ next[s].full = table[s].full /\ next[s].interactive = table[s].interactive
           /\ next[s].ended = table[s].ended,
         NEW row
  PROVE  /\ StatsAre(row, table, a) => StatsAre(row, next, b)
         /\ LastIs(row, table, a) => LastIs(row, next, b)
  <1> DEFINE ids == ClosedOf(table, a)
  <1>1. /\ [s \in ids |-> next[s].full] = [s \in ids |-> table[s].full]
        /\ [s \in ids |-> next[s].interactive] = [s \in ids |-> table[s].interactive]
        /\ {next[s].full : s \in ids} = {table[s].full : s \in ids}
        /\ {next[s].ended : s \in ids} = {table[s].ended : s \in ids}
    OBVIOUS
  <1> HIDE DEF ids
  <1>2. /\ TotalFull(next, ids) = TotalFull(table, ids)
        /\ TotalInteractive(next, ids) = TotalInteractive(table, ids)
        /\ Longest(next, ids) = Longest(table, ids)
    BY <1>1 DEF TotalFull, TotalInteractive, Longest
  <1> QED
    BY <1>1, <1>2 DEF StatsAre, LastIs, ids

(* No row, no statistics. *)
LEMMA NoRowsNoStats ==
  ASSUME NEW row, IsFresh(row), NEW table, NEW a, ClosedOf(table, a) = {}
  PROVE  StatsAre(row, table, a) /\ LastIs(row, table, a)
  <1>1. Cardinality({}) = 0
    BY FS_EmptySet
  <1>2. TotalFull(table, {}) = 0 /\ TotalInteractive(table, {}) = 0
    BY SumOfNone DEF TotalFull, TotalInteractive
  <1>3. Longest(table, {}) = 0
    <2>1. {0} \cup {table[s].full : s \in {}} = {0}
      OBVIOUS
    <2>2. Max({0}) = 0
      BY MaxIsGreatest
    <2> QED
      BY <2>1, <2>2 DEF Longest
  <1> QED
    BY <1>1, <1>2, <1>3 DEF StatsAre, LastIs, IsFresh

(* A rollup adds one closed row's numbers. *)
LEMMA RollupAddsOne ==
  ASSUME NEW ids, IsFiniteSet(ids), NEW s, s \notin ids, NEW table, NEW next, NEW a,
         ClosedOf(table, a) = ids, ClosedOf(next, a) = ids \cup {s},
         \A t \in ids : /\ next[t] = table[t]
                        /\ table[t].full \in Nat /\ table[t].interactive \in Nat,
         NEW run \in Runtime, next[s].full = run.full, next[s].interactive = run.interactive,
         NEW row, StatsAre(row, table, a), NEW at
  PROVE  StatsAre(RolledUp(row, run, at), next, a)
  <1>1. /\ \A t \in ids \cup {s} : next[t].full \in Nat /\ next[t].interactive \in Nat
        /\ IsFiniteSet({s}) /\ ids \cap {s} = {} /\ Cardinality({s}) = 1
    <2>1. \A t \in ids \cup {s} : next[t].full \in Nat /\ next[t].interactive \in Nat
      BY DEF Runtime
    <2>2. IsFiniteSet({s}) /\ Cardinality({s}) = 1
      BY FS_Singleton
    <2> QED
      BY <2>1, <2>2
  <1>2. /\ TotalFull(next, ids \cup {s}) = TotalFull(next, ids) + TotalFull(next, {s})
        /\ TotalInteractive(next, ids \cup {s})
             = TotalInteractive(next, ids) + TotalInteractive(next, {s})
        /\ Cardinality(ids \cup {s}) = Cardinality(ids) + 1
    BY <1>1, TotalsOfBoth
  <1>3. Longest(next, ids \cup {s}) = Larger(Longest(next, ids), Longest(next, {s}))
    BY <1>1, LongestOfBoth
  <1>4. /\ TotalFull(next, ids) = TotalFull(table, ids)
        /\ TotalInteractive(next, ids) = TotalInteractive(table, ids)
        /\ Longest(next, ids) = Longest(table, ids)
    <2>1. /\ [t \in ids |-> next[t].full] = [t \in ids |-> table[t].full]
          /\ [t \in ids |-> next[t].interactive] = [t \in ids |-> table[t].interactive]
          /\ {next[t].full : t \in ids} = {table[t].full : t \in ids}
      OBVIOUS
    <2> QED
      BY <2>1 DEF TotalFull, TotalInteractive, Longest
  <1>5. TotalFull(next, {s}) = run.full /\ TotalInteractive(next, {s}) = run.interactive
    <2> DEFINE full == [t \in {s} |-> next[t].full]
               interactive == [t \in {s} |-> next[t].interactive]
    <2>1. full[s] = run.full /\ interactive[s] = run.interactive
      OBVIOUS
    <2>2. run.full \in Int /\ run.interactive \in Int
      BY DEF Runtime
    <2>3. /\ full = [t \in {} \cup {s} |-> full[t]]
          /\ interactive = [t \in {} \cup {s} |-> interactive[t]]
      OBVIOUS
    <2> HIDE DEF full, interactive
    <2>4. SumOver(full, {}) = 0 /\ SumOver(interactive, {}) = 0
      BY SumOfNone DEF SumOver
    <2>5. IsFiniteSet({}) /\ s \notin {}
      BY FS_EmptySet
    <2>6. \A t \in {} \cup {s} : full[t] \in Int
      BY <2>1, <2>2
    <2>7. \A t \in {} \cup {s} : interactive[t] \in Int
      BY <2>1, <2>2
    <2>8. SumOver(full, {} \cup {s}) = full[s] + 0
      BY <2>4, <2>5, <2>6, SumOfOneMore
    <2>9. SumOver(interactive, {} \cup {s}) = interactive[s] + 0
      BY <2>4, <2>5, <2>7, SumOfOneMore
    <2>10. SumFunction(full) = run.full /\ SumFunction(interactive) = run.interactive
      BY <2>1, <2>2, <2>3, <2>8, <2>9 DEF SumOver
    <2> QED
      BY <2>10 DEF TotalFull, TotalInteractive, full, interactive
  <1>6. Longest(next, {s}) = run.full
    <2>1. {0} \cup {next[t].full : t \in {s}} = {0, run.full}
      OBVIOUS
    <2>2. Max({0, run.full}) = run.full
      BY MaxIsGreatest DEF Runtime
    <2> QED
      BY <2>1, <2>2 DEF Longest
  <1>7. /\ RolledUp(row, run, at).runs = row.runs + 1
        /\ RolledUp(row, run, at).full = row.full + run.full
        /\ RolledUp(row, run, at).interactive = row.interactive + run.interactive
        /\ RolledUp(row, run, at).longest = Larger(row.longest, run.full)
    BY DEF RolledUp
  <1> QED
    BY <1>2, <1>3, <1>4, <1>5, <1>6, <1>7 DEF StatsAre

-----------------------------------------------------------------------------
(* Each move keeps each application's statistics and its last_played_at,   *)
(* and gives a new one the right ones.                                     *)

StatsRow(a) == StatsAre(applications[a], sessions, a)

LastRow(a) == LastIs(applications[a], sessions, a)

KeepsRow(a) ==
  /\ (a \in DOMAIN applications => StatsRow(a)) => StatsRow(a)'
  /\ (a \in DOMAIN applications => LastRow(a)) => LastRow(a)'

LEMMA KeepingRowsKeepsStats ==
  ASSUME StatsMatchClosedRows, \A a \in DOMAIN applications' : KeepsRow(a)
  PROVE  StatsMatchClosedRows'
  BY DEF KeepsRow, StatsRow, StatsMatchClosedRows, StatsAre, Rebuilt, Longest

LEMMA KeepingRowsKeepsLast ==
  ASSUME LastPlayedIsAClosedRow, \A a \in DOMAIN applications' : KeepsRow(a)
  PROVE  LastPlayedIsAClosedRow'
  BY DEF KeepsRow, LastRow, LastPlayedIsAClosedRow, LastIs

LEMMA UntouchedRowKept ==
  ASSUME NEW a \in DOMAIN applications, applications'[a] = applications[a],
         ClosedOf(sessions', a) = ClosedOf(sessions, a),
         \A s \in ClosedOf(sessions, a) : sessions'[s] = sessions[s]
  PROVE  KeepsRow(a)
  BY StatsReadClosedRows DEF KeepsRow, StatsRow, LastRow

LEMMA AdmittingKeepsRows ==
  ASSUME RowsHaveApplications, NEW a, Admits(a),
         UNCHANGED sessions \/ (\E s : Opens(s, a))
  PROVE  \A b \in DOMAIN applications' : KeepsRow(b)
  <1> SUFFICES ASSUME NEW b \in DOMAIN applications' PROVE KeepsRow(b)
    OBVIOUS
  <1>1. /\ ClosedOf(sessions', b) = ClosedOf(sessions, b)
        /\ \A s \in ClosedOf(sessions, b) : sessions'[s] = sessions[s]
    BY DEF ClosedOf, Opens
  <1>2. CASE b \in DOMAIN applications
    BY <1>1, <1>2, UntouchedRowKept DEF Admits
  <1>3. CASE b \notin DOMAIN applications
    <2>1. ClosedOf(sessions, b) = {}
      BY <1>3 DEF ClosedOf, RowsHaveApplications
    <2>2. IsFresh(applications'[b])
      BY <1>3 DEF Admits
    <2> QED
      BY <1>1, <2>1, <2>2, NoRowsNoStats DEF KeepsRow, StatsRow, LastRow
  <1> QED
    BY <1>2, <1>3

LEMMA BeatingKeepsRows ==
  ASSUME Beats, UNCHANGED applications
  PROVE  \A b \in DOMAIN applications' : KeepsRow(b)
  <1> SUFFICES ASSUME NEW b \in DOMAIN applications PROVE KeepsRow(b)
    OBVIOUS
  <1>1. /\ ClosedOf(sessions', b) = ClosedOf(sessions, b)
        /\ \A s \in ClosedOf(sessions, b) : sessions'[s] = sessions[s]
    BY DEF ClosedOf, Beats
  <1> QED
    BY <1>1, UntouchedRowKept

LEMMA SettlingKeepsRows ==
  ASSUME StoreTypeOK, NEW s \in OpenRows, NEW run \in Runtime, NEW at \in Int,
         NEW reason, Settles(s, run, at, reason)
  PROVE  \A b \in DOMAIN applications' : KeepsRow(b)
  <1> DEFINE a == sessions[s].app
  <1>1. s \in DOMAIN sessions /\ sessions[s].ended = NULL /\ sessions[s] \in SessionRow
    BY DEF OpenRows, StoreTypeOK
  <1>2. /\ sessions' = [sessions EXCEPT ![s] = [@ EXCEPT !.ended = at, !.heartbeat = at,
                          !.full = run.full, !.interactive = run.interactive, !.exit = reason]]
        /\ applications' = [b \in DOMAIN applications |->
                              IF b = a THEN RolledUp(applications[b], run, at)
                              ELSE applications[b]]
    BY DEF Settles, CloseAndRollup, StillOpen
  <1>3. /\ sessions'[s].app = a /\ sessions'[s].full = run.full
        /\ sessions'[s].interactive = run.interactive
        /\ sessions'[s].ended = at /\ at # NULL
    BY <1>1, <1>2 DEF SessionRow
  <1>4. /\ DOMAIN sessions' = DOMAIN sessions
        /\ \A t \in DOMAIN sessions \ {s} : sessions'[t] = sessions[t]
    BY <1>2
  <1>5. ClosedOf(sessions', a) = ClosedOf(sessions, a) \cup {s} /\ s \notin ClosedOf(sessions, a)
    BY <1>1, <1>3, <1>4 DEF ClosedOf
  <1>6. \A b : b # a => ClosedOf(sessions', b) = ClosedOf(sessions, b)
    BY <1>1, <1>3, <1>4 DEF ClosedOf
  <1>7. \A b : \A t \in ClosedOf(sessions, b) : sessions'[t] = sessions[t]
    BY <1>1, <1>4 DEF ClosedOf
  <1>8. DOMAIN applications' = DOMAIN applications
    BY <1>2
  <1> SUFFICES ASSUME NEW b \in DOMAIN applications PROVE KeepsRow(b)
    BY <1>8
  <1>9. CASE b # a
    <2>1. applications'[b] = applications[b]
      BY <1>2, <1>9
    <2> HIDE DEF a
    <2> QED
      BY <1>6, <1>7, <1>9, <2>1, UntouchedRowKept
  <1>10. CASE b = a
    <2>1. applications'[b] = RolledUp(applications[b], run, at)
      BY <1>2, <1>10
    <2> HIDE DEF a
    <2>2. StatsRow(b) => StatsAre(RolledUp(applications[b], run, at), sessions', b)
      <3>1. /\ IsFiniteSet(ClosedOf(sessions, b))
            /\ \A t \in ClosedOf(sessions, b) :
                 /\ sessions'[t] = sessions[t]
                 /\ sessions[t].full \in Nat /\ sessions[t].interactive \in Nat
        BY <1>7, ClosedRowsAreLegal
      <3> QED
        BY <1>3, <1>5, <1>10, <3>1, RollupAddsOne DEF StatsRow
    <2>3. LastIs(RolledUp(applications[b], run, at), sessions', b)
      BY <1>3, <1>5, <1>10 DEF LastIs, RolledUp
    <2> QED
      BY <2>1, <2>2, <2>3 DEF KeepsRow, StatsRow, LastRow
  <1> QED
    BY <1>9, <1>10

(* A rebuild is right by definition; an application that owned none of the *)
(* deleted rows keeps its own.                                             *)
LEMMA DeletingKeepsRows ==
  ASSUME StoreTypeOK, StoreTypeOK', NEW ids, DeleteSessionsAndRecompute(ids)
  PROVE  \A b \in DOMAIN applications' : KeepsRow(b)
  <1> DEFINE owners == {sessions[s].app : s \in ids \cap DOMAIN sessions}
  <1>1. /\ sessions' = [s \in DOMAIN sessions \ ids |-> sessions[s]]
        /\ applications' = [a \in DOMAIN applications |->
                              IF a \in owners THEN Rebuilt(applications[a], sessions', a)
                              ELSE applications[a]]
    BY DEF DeleteSessionsAndRecompute
  <1>2. DOMAIN applications' = DOMAIN applications
    BY <1>1
  <1> SUFFICES ASSUME NEW b \in DOMAIN applications PROVE KeepsRow(b)
    BY <1>2
  <1>3. CASE b \notin owners
    <2>1. /\ ClosedOf(sessions', b) = ClosedOf(sessions, b)
          /\ \A s \in ClosedOf(sessions, b) : sessions'[s] = sessions[s]
      BY <1>1, <1>3 DEF ClosedOf
    <2>2. applications'[b] = applications[b]
      BY <1>1, <1>3
    <2> QED
      BY <2>1, <2>2, UntouchedRowKept
  <1>4. CASE b \in owners
    <2> DEFINE rows == ClosedOf(sessions', b)
               ended == [s \in rows |-> sessions'[s].ended]
    <2>1. applications'[b] = Rebuilt(applications[b], sessions', b)
      BY <1>1, <1>4
    <2>2. StatsAre(applications'[b], sessions', b)
      BY <2>1 DEF Rebuilt, StatsAre, Longest
    <2>3. applications'[b].last = IF rows = {} THEN NULL
                                  ELSE Max({sessions'[s].ended : s \in rows})
      BY <2>1 DEF Rebuilt
    <2>4. IsFiniteSet(rows) /\ \A s \in rows : sessions'[s].ended \in Int
      <3>1. IsFiniteSet(ClosedOf(sessions, b))
        BY ClosedRowsAreLegal
      <3>2. rows \in SUBSET ClosedOf(sessions, b) /\ \A s \in rows : sessions'[s] = sessions[s]
        BY <1>1 DEF ClosedOf
      <3> QED
        BY <3>1, <3>2, FS_Subset, ClosedRowsAreLegal
    <2>5. rows # {} => Max({sessions'[s].ended : s \in rows}) \in {sessions'[s].ended : s \in rows}
      <3> SUFFICES ASSUME rows # {}
                   PROVE  Max({sessions'[s].ended : s \in rows}) \in {sessions'[s].ended : s \in rows}
        OBVIOUS
      <3>1. \A s \in rows : ended[s] \in Int
        BY <2>4
      <3>2. {sessions'[s].ended : s \in rows} = {ended[s] : s \in rows}
        OBVIOUS
      <3> HIDE DEF ended, rows
      <3>3. PICK x \in rows : \A y \in rows : ended[x] >= ended[y]
        BY <2>4, <3>1, GreatestExists
      <3>4. Max({ended[s] : s \in rows}) = ended[x]
        <4>1. /\ {ended[s] : s \in rows} \in SUBSET Int /\ ended[x] \in {ended[s] : s \in rows}
              /\ \A n \in {ended[s] : s \in rows} : ended[x] >= n
          BY <3>1, <3>3
        <4> QED
          BY <4>1, MaxIsGreatest
      <3> QED
        BY <3>2, <3>4
    <2>6. LastIs(applications'[b], sessions', b)
      BY <2>3, <2>5 DEF LastIs
    <2> QED
      BY <2>2, <2>6 DEF KeepsRow, StatsRow, LastRow
  <1> QED
    BY <1>3, <1>4

LEMMA MovesKeepRows ==
  ASSUME StoreTypeOK, StoreTypeOK', RowsHaveApplications, TablesMove
  PROVE  \A b \in DOMAIN applications' : KeepsRow(b)
  <1>1. CASE \E a \in Nat : a \notin DOMAIN applications /\ Admits(a) /\ UNCHANGED sessions
    BY <1>1, AdmittingKeepsRows
  <1>2. CASE \E s, a \in Nat : Admits(a) /\ Opens(s, a)
    BY <1>2, AdmittingKeepsRows
  <1>3. CASE Beats /\ UNCHANGED applications
    BY <1>3, BeatingKeepsRows
  <1>4. CASE \E s \in OpenRows, run \in Runtime, at \in Int, reason \in ExitReason :
               Settles(s, run, at, reason)
    BY <1>4, SettlingKeepsRows
  <1>5. CASE \E ids \in SUBSET Nat : DeleteSessionsAndRecompute(ids)
    BY <1>5, DeletingKeepsRows
  <1>6. CASE UNCHANGED <<sessions, applications>>
    <2>1. ASSUME NEW b \in DOMAIN applications PROVE KeepsRow(b)
      BY <1>6, UntouchedRowKept
    <2> QED
      BY <1>6, <2>1
  <1> QED
    BY <1>1, <1>2, <1>3, <1>4, <1>5, <1>6 DEF TablesMove

LEMMA StepKeepsRows ==
  ASSUME InductiveInvariant, InductiveInvariant', [Next]_vars
  PROVE  \A a \in DOMAIN applications' : KeepsRow(a)
  BY StepMovesTables, MovesKeepRows DEF InductiveInvariant, TypeOK

(* Whatever the sources report, whichever statements fail, wherever the    *)
(* daemon crashes and whatever is deleted, the counters of every           *)
(* application are the number, the sums and the maximum of its closed      *)
(* rows.                                                                   *)
THEOREM StatsHold == Spec => []StatsMatchClosedRows
  <1>1. Init => StatsMatchClosedRows
    BY DEF Init, StatsMatchClosedRows
  <1>2. InductiveInvariant /\ InductiveInvariant' /\ StatsMatchClosedRows /\ [Next]_vars
          => StatsMatchClosedRows'
    BY StepKeepsRows, KeepingRowsKeepsStats
  <1> QED
    BY <1>1, <1>2, InvariantHolds, PTL DEF Spec

(* And last_played_at is NULL when it has none, the end of one when it has *)
(* some, with a wall clock that steps either way.                          *)
THEOREM LastPlayedHolds == Spec => []LastPlayedIsAClosedRow
  <1>1. Init => LastPlayedIsAClosedRow
    BY DEF Init, LastPlayedIsAClosedRow
  <1>2. InductiveInvariant /\ InductiveInvariant' /\ LastPlayedIsAClosedRow /\ [Next]_vars
          => LastPlayedIsAClosedRow'
    BY StepKeepsRows, KeepingRowsKeepsLast
  <1> QED
    BY <1>1, <1>2, InvariantHolds, PTL DEF Spec

-----------------------------------------------------------------------------
(* Merging: what holds whoever else is at the tables.                      *)

USE MergeAssumption

(* Entries name rows there have been, began in the past, and are apart. *)
EntriesApart ==
  /\ \A k \in DOMAIN open : open[k].session <= lastSession /\ open[k].started <= now
  /\ \A j, k \in DOMAIN open : open[j].session = open[k].session => j = k

MergeInvariant ==
  /\ TypeOK
  /\ EntriesApart
  /\ RowsHaveApplications
  /\ OneOpenRowPerApplication

-----------------------------------------------------------------------------
(* The steps, in the shapes the actions share. *)

(* Rows closed, deleted or beaten, entries dropped, applications added. *)
LEMMA SettlingKeeps ==
  ASSUME MergeInvariant, StoreTypeOK', ManagerTypeOK',
         DOMAIN sessions' \subseteq DOMAIN sessions,
         \A t \in DOMAIN sessions' : sessions'[t].app = sessions[t].app,
         OpenRows' \subseteq OpenRows,
         DOMAIN applications \subseteq DOMAIN applications',
         DOMAIN open' \subseteq DOMAIN open,
         \A k \in DOMAIN open' : open'[k] = open[k],
         now' \in {now, now + 1}, lastSession' = lastSession
  PROVE  MergeInvariant'
  <1>1. RowsHaveApplications'
    BY DEF MergeInvariant, RowsHaveApplications
  <1>2. OneOpenRowPerApplication'
    <2>1. \A t \in OpenRows' : t \in OpenRows /\ sessions'[t].app = sessions[t].app
      BY DEF OpenRows
    <2> QED
      BY <2>1 DEF MergeInvariant, OneOpenRowPerApplication
  <1>3. EntriesApart'
    <2>1. ASSUME NEW k \in DOMAIN open'
          PROVE  open'[k].session <= lastSession' /\ open'[k].started <= now'
      <3>1. /\ open'[k] = open[k] /\ open[k] \in OpenSession /\ now \in Nat
            /\ open[k].started <= now /\ open[k].session <= lastSession
        BY DEF MergeInvariant, TypeOK, ManagerTypeOK, EntriesApart
      <3>2. open[k].started \in Nat
        BY <3>1 DEF OpenSession
      <3>3. open[k].started <= now'
        BY <3>1, <3>2
      <3> QED
        BY <3>1, <3>3
    <2> QED
      BY <2>1 DEF MergeInvariant, EntriesApart
  <1> QED
    BY <1>1, <1>2, <1>3 DEF MergeInvariant, TypeOK

(* The store and the entries are left alone. *)
LEMMA LeavingKeeps ==
  ASSUME MergeInvariant, ManagerTypeOK', UNCHANGED <<storeVars, open>>,
         now' \in {now, now + 1}
  PROVE  MergeInvariant'
  <1>1. UNCHANGED <<sessions, applications, lastSession, lastApp>> /\ open' = open
    BY DEF storeVars
  <1>2. StoreTypeOK' /\ OpenRows' = OpenRows
    BY <1>1 DEF MergeInvariant, TypeOK, StoreTypeOK, OpenRows
  <1> QED
    BY <1>1, <1>2, SettlingKeeps

(* A row begun for an application that has none open. *)
LEMMA BeginningKeeps ==
  ASSUME MergeInvariant, ManagerTypeOK',
         NEW k \in GameKey, k \notin DOMAIN open,
         NEW a \in Nat, \A s \in OpenRows : sessions[s].app # a,
         NEW at \in Int, Begin(a, at), Track(k, lastSession + 1, a),
         a \in DOMAIN applications', DOMAIN applications \subseteq DOMAIN applications',
         \A b \in DOMAIN applications' : applications'[b].key \in GameKey,
         lastApp' \in Nat, DOMAIN applications' \subseteq 1..lastApp', now' = now
  PROVE  MergeInvariant'
  <1> DEFINE n == lastSession + 1
  <1>1. StoreTypeOK /\ ManagerTypeOK
    BY DEF MergeInvariant, TypeOK
  <1>2. /\ n \notin DOMAIN sessions
        /\ DOMAIN sessions' = DOMAIN sessions \cup {n}
        /\ OpenRows' = OpenRows \cup {n}
        /\ \A t \in DOMAIN sessions : sessions'[t] = sessions[t]
        /\ sessions'[n].app = a
        /\ sessions' \in [DOMAIN sessions' -> SessionRow]
        /\ \A t \in DOMAIN sessions' : sessions'[t].interactive <= sessions'[t].full
        /\ lastSession' \in Nat /\ DOMAIN sessions' \subseteq 1..lastSession'
    BY <1>1, BeginAddsOneRow
  <1>3. lastSession' = n
    BY DEF Begin
  <1>4. /\ DOMAIN open' = DOMAIN open \cup {k}
        /\ open'[k] = [session |-> n, app |-> a, started |-> now]
        /\ \A j \in DOMAIN open : open'[j] = open[j]
    BY DEF Track
  <1>5. StoreTypeOK'
    BY <1>1, <1>2 DEF StoreTypeOK
  <1>6. RowsHaveApplications'
    BY <1>2 DEF MergeInvariant, RowsHaveApplications
  <1>7. OneOpenRowPerApplication'
    BY <1>2 DEF MergeInvariant, OneOpenRowPerApplication, OpenRows
  <1>8. ASSUME NEW j \in DOMAIN open
        PROVE  /\ open[j].session \in Nat /\ open[j].session <= lastSession
               /\ open[j].started <= now /\ lastSession \in Nat
    BY <1>1 DEF MergeInvariant, EntriesApart, ManagerTypeOK, StoreTypeOK, OpenSession
  <1>9. now \in Nat /\ n \in Nat
    <2>1. now \in Nat
      BY <1>1 DEF ManagerTypeOK
    <2>2. lastSession \in Nat
      BY <1>1 DEF StoreTypeOK
    <2> QED
      BY <2>1, <2>2
  <1>10. \A j \in DOMAIN open : open[j].session # n /\ open[j].session <= n
    BY <1>8
  <1>11. EntriesApart'
    <2>1. \A j \in DOMAIN open' : open'[j].session <= lastSession' /\ open'[j].started <= now'
      BY <1>3, <1>4, <1>8, <1>9, <1>10
    <2>2. \A i, j \in DOMAIN open' : open'[i].session = open'[j].session => i = j
      BY <1>4, <1>10 DEF MergeInvariant, EntriesApart
    <2> QED
      BY <2>1, <2>2 DEF EntriesApart
  <1> QED
    BY <1>5, <1>6, <1>7, <1>11 DEF MergeInvariant, TypeOK

(* A close of one row, or of none when it is closed already. *)
LEMMA ClosingKeeps ==
  ASSUME MergeInvariant, ManagerTypeOK',
         NEW s, NEW a, NEW run, NEW at \in Int, NEW reason \in ExitReason,
         run.full \in Nat, run.interactive \in Nat, run.interactive <= run.full,
         CloseAndRollup(s, a, run, at, reason),
         UNCHANGED <<lastSession, lastApp>>,
         DOMAIN open' \subseteq DOMAIN open,
         \A k \in DOMAIN open' : open'[k] = open[k], now' = now
  PROVE  MergeInvariant'
  <1>1. StoreTypeOK
    BY DEF MergeInvariant, TypeOK
  <1>2. CASE s \in OpenRows
    <2>1. /\ StoreTypeOK' /\ DOMAIN sessions' = DOMAIN sessions
          /\ OpenRows' = OpenRows \ {s}
          /\ \A t \in DOMAIN sessions \ {s} : sessions'[t] = sessions[t]
          /\ sessions'[s].app = sessions[s].app
          /\ DOMAIN applications' = DOMAIN applications
      BY <1>1, <1>2, CloseClosesOneRow
    <2> QED
      BY <2>1, SettlingKeeps
  <1>3. CASE s \notin OpenRows
    <2>1. UNCHANGED <<sessions, applications, lastSession, lastApp>>
      BY <1>3 DEF CloseAndRollup, StillOpen
    <2>2. StoreTypeOK' /\ OpenRows' = OpenRows
      BY <1>1, <2>1 DEF StoreTypeOK, OpenRows
    <2> QED
      BY <2>1, <2>2, SettlingKeeps
  <1> QED
    BY <1>2, <1>3

(* What the manager measures for an entry satisfies the CHECKs. *)
LEMMA EntryMeasures ==
  ASSUME MergeInvariant, NEW k \in DOMAIN open, NEW idle \in IdleBilled
  PROVE  LET run == RuntimesFor(open[k], idle)
         IN  /\ run.full \in Nat /\ run.interactive \in Nat
             /\ run.interactive <= run.full
  <1>1. open[k] \in OpenSession /\ now \in Nat /\ open[k].started <= now
    BY DEF MergeInvariant, TypeOK, ManagerTypeOK, EntriesApart
  <1> QED
    BY <1>1, RuntimesAreLegal

-----------------------------------------------------------------------------
(* The manager's own types survive every step of the daemon. *)
LEMMA ForgettingTypes ==
  ASSUME ManagerTypeOK, NEW k, Forget(k)
  PROVE  /\ DOMAIN open' \subseteq DOMAIN open
         /\ \A j \in DOMAIN open' : open'[j] = open[j]
         /\ open' \in [DOMAIN open' -> OpenSession]
         /\ DOMAIN open' \subseteq GameKey
  BY DEF Forget, ManagerTypeOK

LEMMA FailureTypes ==
  ASSUME ManagerTypeOK, StatementFails \/ UNCHANGED faultVars
  PROVE  failures' \in Nat /\ crashes' \in Nat
  BY DEF StatementFails, faultVars, ManagerTypeOK

-----------------------------------------------------------------------------
(* The daemon's actions. *)

LEMMA StartKeeps ==
  ASSUME MergeInvariant, StartKnown \/ StartNew
  PROVE  MergeInvariant'
  <1> DEFINE e == Head(inbox)
             n == lastSession + 1
  <1>1. StoreTypeOK /\ ManagerTypeOK /\ TypeOK
    BY DEF MergeInvariant, TypeOK
  <1>2. /\ e \in GameEvent /\ inbox' \in Seq(GameEvent)
        /\ UNCHANGED <<phase, nextBeat, feed, stopAt, now, skew>>
    BY <1>1, ReceiveTakesAnEvent DEF StartKnown, StartNew
  <1>3. e.key \in GameKey /\ e.at \in Int /\ e.key \notin DOMAIN open
    BY <1>2 DEF GameEvent, StartKnown, StartNew
  <1> HIDE DEF e
  <1>4. ASSUME failures' \in Nat, crashes' \in Nat,
               open' \in [DOMAIN open' -> OpenSession], DOMAIN open' \subseteq GameKey
        PROVE  ManagerTypeOK'
    BY <1>1, <1>2, <1>4 DEF ManagerTypeOK
  <1>5. ASSUME UNCHANGED open, StatementFails \/ UNCHANGED faultVars
        PROVE  ManagerTypeOK'
    <2>1. /\ failures' \in Nat /\ crashes' \in Nat
          /\ open' \in [DOMAIN open' -> OpenSession] /\ DOMAIN open' \subseteq GameKey
      BY <1>1, <1>5, FailureTypes DEF ManagerTypeOK
    <2> QED
      BY <1>4, <2>1
  <1>6. ASSUME NEW a \in Nat, Track(e.key, n, a), UNCHANGED faultVars
        PROVE  ManagerTypeOK'
    <2>1. n \in Nat /\ now \in Nat
      BY <1>1 DEF StoreTypeOK, ManagerTypeOK
    <2> HIDE DEF n
    <2>2. [session |-> n, app |-> a, started |-> now] \in OpenSession
      BY <2>1 DEF OpenSession
    <2>3. /\ open' \in [DOMAIN open' -> OpenSession] /\ DOMAIN open' \subseteq GameKey
      BY <1>1, <1>3, <1>6, <2>2 DEF Track, ManagerTypeOK
    <2>4. failures' \in Nat /\ crashes' \in Nat
      BY <1>1, <1>6, FailureTypes
    <2> QED
      BY <1>4, <2>3, <2>4
  <1>7. CASE StartKnown
    <2>1. PICK a \in AppsOf(e.key) :
            \/ UNCHANGED <<storeVars, open, faultVars>>
            \/ /\ ~ HasOpenRow(a)
               /\ Begin(a, e.at) /\ Track(e.key, n, a)
               /\ UNCHANGED <<applications, lastApp, faultVars>>
      BY <1>7 DEF StartKnown, e
    <2>2. a \in Nat /\ a \in DOMAIN applications
      BY <1>1 DEF AppsOf, StoreTypeOK
    <2>3. CASE UNCHANGED <<storeVars, open, faultVars>>
      BY <1>2, <1>5, <2>3, LeavingKeeps
    <2>4. CASE /\ ~ HasOpenRow(a)
               /\ Begin(a, e.at) /\ Track(e.key, n, a)
               /\ UNCHANGED <<applications, lastApp, faultVars>>
      <3>1. ManagerTypeOK'
        BY <1>6, <2>2, <2>4
      <3>2. /\ applications' = applications /\ lastApp' = lastApp /\ lastApp \in Nat
            /\ \A b \in DOMAIN applications : applications[b].key \in GameKey
            /\ DOMAIN applications \subseteq 1..lastApp
        BY <1>1, <2>4 DEF StoreTypeOK
      <3>3. \A s \in OpenRows : sessions[s].app # a
        BY <2>4 DEF HasOpenRow
      <3> QED
        BY <1>2, <1>3, <2>2, <2>4, <3>1, <3>2, <3>3, BeginningKeeps
    <2> QED
      BY <2>1, <2>3, <2>4
  <1>8. CASE StartNew
    <2>1. /\ CreateApplication(e.key)
          /\ \/ /\ Begin(lastApp + 1, e.at) /\ Track(e.key, n, lastApp + 1)
                /\ UNCHANGED faultVars
             \/ /\ StatementFails
                /\ UNCHANGED <<sessions, lastSession, open>>
      BY <1>8 DEF StartNew, e
    <2>2. /\ lastApp + 1 \notin DOMAIN applications /\ lastApp' \in Nat
          /\ DOMAIN applications' = DOMAIN applications \cup {lastApp + 1}
          /\ DOMAIN applications' \subseteq 1..lastApp'
          /\ \A b \in DOMAIN applications' : applications'[b].key \in GameKey
      BY <1>1, <1>3, <2>1, CreateAddsOneApplication
    <2>3. \A s \in OpenRows : sessions[s].app # lastApp + 1
      BY <2>2 DEF MergeInvariant, RowsHaveApplications, OpenRows
    <2>4. lastApp + 1 \in Nat
      BY <1>1 DEF StoreTypeOK
    <2>5. CASE /\ Begin(lastApp + 1, e.at) /\ Track(e.key, n, lastApp + 1)
               /\ UNCHANGED faultVars
      <3>1. ManagerTypeOK'
        BY <1>6, <2>4, <2>5
      <3> QED
        BY <1>2, <1>3, <2>2, <2>3, <2>4, <2>5, <3>1, BeginningKeeps
    <2>6. CASE StatementFails /\ UNCHANGED <<sessions, lastSession, open>>
      <3>1. ManagerTypeOK'
        BY <1>5, <2>6
      <3>2. StoreTypeOK'
        BY <1>1, <2>2, <2>6 DEF StoreTypeOK
      <3>3. OpenRows' = OpenRows
        BY <2>6 DEF OpenRows
      <3> QED
        BY <1>2, <2>2, <2>6, <3>1, <3>2, <3>3, SettlingKeeps
    <2> QED
      BY <2>1, <2>5, <2>6
  <1> QED
    BY <1>7, <1>8

LEMMA StoppedKeeps ==
  ASSUME MergeInvariant, HandleStopped
  PROVE  MergeInvariant'
  <1> DEFINE e == Head(inbox)
  <1>1. StoreTypeOK /\ ManagerTypeOK /\ TypeOK
    BY DEF MergeInvariant, TypeOK
  <1>2. /\ e \in GameEvent /\ inbox' \in Seq(GameEvent)
        /\ UNCHANGED <<phase, nextBeat, feed, stopAt, now, skew>>
    BY <1>1, ReceiveTakesAnEvent DEF HandleStopped
  <1>3. e.at \in Int /\ "terminated" \in ExitReason
    BY <1>2 DEF GameEvent, ExitReason
  <1> HIDE DEF e
  <1>4. CASE e.key \notin DOMAIN open
    <2>1. UNCHANGED <<storeVars, open, faultVars>>
      BY <1>4 DEF HandleStopped, e
    <2>2. ManagerTypeOK'
      BY <1>1, <1>2, <2>1 DEF ManagerTypeOK, faultVars
    <2> QED
      BY <1>2, <2>1, <2>2, LeavingKeeps
  <1>5. CASE e.key \in DOMAIN open
    <2>1. /\ Forget(e.key)
          /\ \/ /\ \E idle \in IdleBilled :
                     CloseAndRollup(open[e.key].session, open[e.key].app,
                       RuntimesFor(open[e.key], idle), e.at, "terminated")
                /\ UNCHANGED <<lastSession, lastApp, faultVars>>
             \/ /\ StatementFails
                /\ UNCHANGED storeVars
      BY <1>5 DEF HandleStopped, e
    <2>2. ManagerTypeOK'
      BY <1>1, <1>2, <2>1, ForgettingTypes, FailureTypes DEF ManagerTypeOK
    <2>3. CASE StatementFails /\ UNCHANGED storeVars
      <3>1. UNCHANGED <<sessions, applications, lastSession, lastApp>>
        BY <2>3 DEF storeVars
      <3>2. StoreTypeOK' /\ OpenRows' = OpenRows
        BY <1>1, <3>1 DEF StoreTypeOK, OpenRows
      <3> QED
        BY <1>1, <1>2, <2>1, <2>2, <3>1, <3>2, ForgettingTypes, SettlingKeeps
    <2>4. ASSUME NEW idle \in IdleBilled,
                 CloseAndRollup(open[e.key].session, open[e.key].app,
                   RuntimesFor(open[e.key], idle), e.at, "terminated"),
                 UNCHANGED <<lastSession, lastApp, faultVars>>
          PROVE  MergeInvariant'
      BY <1>1, <1>2, <1>3, <1>5, <2>1, <2>2, <2>4, EntryMeasures, ForgettingTypes,
         ClosingKeeps
    <2> QED
      BY <2>1, <2>3, <2>4
  <1> QED
    BY <1>4, <1>5

LEMMA CloseAllKeeps ==
  ASSUME MergeInvariant, NEW k \in DOMAIN open, CloseAllOpen(k)
  PROVE  MergeInvariant'
  <1>1. StoreTypeOK /\ ManagerTypeOK
    BY DEF MergeInvariant, TypeOK
  <1>2. /\ Forget(k) /\ UNCHANGED <<phase, inbox, nextBeat, feed, stopAt, now, skew>>
        /\ \/ /\ \E idle \in IdleBilled :
                   CloseAndRollup(open[k].session, open[k].app,
                     RuntimesFor(open[k], idle), stopAt, "terminated")
              /\ UNCHANGED <<lastSession, lastApp, faultVars>>
           \/ /\ StatementFails
              /\ UNCHANGED storeVars
    BY DEF CloseAllOpen, stopVars, clockVars
  <1>3. ManagerTypeOK'
    BY <1>1, <1>2, ForgettingTypes, FailureTypes DEF ManagerTypeOK
  <1>4. CASE StatementFails /\ UNCHANGED storeVars
    <2>1. UNCHANGED <<sessions, applications, lastSession, lastApp>>
      BY <1>4 DEF storeVars
    <2>2. StoreTypeOK' /\ OpenRows' = OpenRows
      BY <1>1, <2>1 DEF StoreTypeOK, OpenRows
    <2> QED
      BY <1>1, <1>2, <1>3, <2>1, <2>2, ForgettingTypes, SettlingKeeps
  <1>5. ASSUME NEW idle \in IdleBilled,
               CloseAndRollup(open[k].session, open[k].app,
                 RuntimesFor(open[k], idle), stopAt, "terminated"),
               UNCHANGED <<lastSession, lastApp, faultVars>>
        PROVE  MergeInvariant'
    <2>1. stopAt \in Int /\ "terminated" \in ExitReason
      BY <1>1 DEF ManagerTypeOK, ExitReason
    <2> QED
      BY <1>1, <1>2, <1>3, <1>5, <2>1, EntryMeasures, ForgettingTypes, ClosingKeeps
  <1> QED
    BY <1>2, <1>4, <1>5

LEMMA RecoverKeeps ==
  ASSUME MergeInvariant, NEW s \in Orphans, RecoverOrphan(s)
  PROVE  MergeInvariant'
  <1> DEFINE run == [full |-> sessions[s].full, interactive |-> sessions[s].interactive]
  <1>1. StoreTypeOK /\ ManagerTypeOK
    BY DEF MergeInvariant, TypeOK
  <1>2. /\ CloseAndRollup(s, sessions[s].app, run, sessions[s].heartbeat, "recovered")
        /\ UNCHANGED <<lastSession, lastApp, phase, open, inbox, nextBeat, feed, stopAt>>
        /\ UNCHANGED <<now, skew, failures, crashes>>
    BY DEF RecoverOrphan, procVars, stopVars, clockVars, faultVars
  <1>3. s \in DOMAIN sessions /\ "recovered" \in ExitReason
    BY DEF Orphans, OpenRows, ExitReason
  <1>4. /\ run.full \in Nat /\ run.interactive \in Nat /\ run.interactive <= run.full
        /\ sessions[s].heartbeat \in Int
    BY <1>1, <1>3 DEF StoreTypeOK, SessionRow
  <1>5. ManagerTypeOK'
    BY <1>1, <1>2 DEF ManagerTypeOK
  <1> HIDE DEF run
  <1>6. CloseAndRollup(s, sessions[s].app, run, sessions[s].heartbeat, "recovered")
    BY <1>2
  <1> QED
    BY <1>2, <1>3, <1>4, <1>5, <1>6, ClosingKeeps

LEMMA HeartbeatKeeps ==
  ASSUME MergeInvariant, HeartbeatOpenSessions
  PROVE  MergeInvariant'
  <1>1. StoreTypeOK /\ ManagerTypeOK
    BY DEF MergeInvariant, TypeOK
  <1>2. PICK done \in SUBSET DOMAIN open :
          /\ IF done = DOMAIN open THEN UNCHANGED faultVars ELSE StatementFails
          /\ \E idle \in [done -> IdleBilled] :
               LET ids == {open[k].session : k \in done}
               IN  Heartbeat(ids,
                     [s \in ids |-> RuntimesFor(open[KeyOf(s)], idle[KeyOf(s)])], Wall)
    BY DEF HeartbeatOpenSessions
  <1>3. PICK idle \in [done -> IdleBilled] :
          LET ids == {open[k].session : k \in done}
          IN  Heartbeat(ids,
                [s \in ids |-> RuntimesFor(open[KeyOf(s)], idle[KeyOf(s)])], Wall)
    BY <1>2
  <1> DEFINE ids == {open[k].session : k \in done}
             run == [s \in ids |-> RuntimesFor(open[KeyOf(s)], idle[KeyOf(s)])]
  <1>4. /\ nextBeat' = nextBeat + HeartbeatInterval
        /\ UNCHANGED <<applications, lastSession, lastApp>>
        /\ UNCHANGED <<phase, open, inbox, feed, stopAt>> /\ UNCHANGED <<now, skew>>
    BY DEF HeartbeatOpenSessions, stopVars, clockVars
  <1>5. ASSUME NEW k \in done
        PROVE  /\ run[open[k].session].full \in Nat
               /\ run[open[k].session].interactive \in Nat
               /\ run[open[k].session].interactive <= run[open[k].session].full
    <2>1. KeyOf(open[k].session) = k
      BY DEF MergeInvariant, EntriesApart, KeyOf
    <2>2. run[open[k].session] = RuntimesFor(open[k], idle[k])
      BY <2>1
    <2>3. idle[k] \in IdleBilled /\ k \in DOMAIN open
      OBVIOUS
    <2> QED
      BY <2>2, <2>3, EntryMeasures
  <1>6. \A s \in ids : /\ run[s].full \in Nat /\ run[s].interactive \in Nat
                       /\ run[s].interactive <= run[s].full
    BY <1>5
  <1>7. Heartbeat(ids, run, Wall)
    BY <1>3
  <1>8. Wall \in Int
    BY <1>1 DEF ManagerTypeOK, Wall
  <1> HIDE DEF run, ids
  <1>9. /\ StoreTypeOK' /\ DOMAIN sessions' = DOMAIN sessions /\ OpenRows' = OpenRows
        /\ \A t \in DOMAIN sessions : sessions'[t].app = sessions[t].app
    BY <1>1, <1>4, <1>6, <1>7, <1>8, HeartbeatKeepsRows
  <1>10. ManagerTypeOK'
    <2>1. nextBeat' \in Nat
      BY <1>1, <1>4 DEF ManagerTypeOK
    <2>2. failures' \in Nat /\ crashes' \in Nat
      BY <1>1, <1>2, FailureTypes
    <2> QED
      BY <1>1, <1>4, <2>1, <2>2 DEF ManagerTypeOK
  <1> QED
    BY <1>4, <1>9, <1>10, SettlingKeeps

LEMMA DeleteKeeps ==
  ASSUME MergeInvariant, NEW ids, DeleteSessions(ids)
  PROVE  MergeInvariant'
  <1>1. StoreTypeOK /\ ManagerTypeOK
    BY DEF MergeInvariant, TypeOK
  <1>2. /\ DeleteSessionsAndRecompute(ids)
        /\ UNCHANGED <<phase, open, inbox, nextBeat, feed, stopAt, now, skew>>
        /\ UNCHANGED <<failures, crashes>>
    BY DEF DeleteSessions, procVars, stopVars, clockVars, faultVars
  <1>3. /\ StoreTypeOK' /\ DOMAIN sessions' = DOMAIN sessions \ ids
        /\ OpenRows' = OpenRows
        /\ \A t \in DOMAIN sessions' : sessions'[t] = sessions[t]
        /\ DOMAIN applications' = DOMAIN applications
    BY <1>1, <1>2, DeleteKeepsOpenRows
  <1>4. lastSession' = lastSession
    BY <1>2 DEF DeleteSessionsAndRecompute
  <1>5. ManagerTypeOK'
    BY <1>1, <1>2 DEF ManagerTypeOK
  <1> QED
    BY <1>2, <1>3, <1>4, <1>5, SettlingKeeps

(* The steps that leave the rows alone. *)
LEMMA QuietKeeps ==
  ASSUME MergeInvariant,
         \/ \E kind \in {"started", "stopped"}, k \in GameKey : Emit(kind, k)
         \/ IgnoreStarted \/ StartFails \/ Boot \/ RecoveryFails \/ StartManager
         \/ SourcesExit \/ ChannelCloses \/ Shutdown \/ Desert \/ Exit
         \/ Tick \/ StepWallClock \/ UNCHANGED vars
  PROVE  MergeInvariant'
  <1>1. TypeOK /\ ManagerTypeOK
    BY DEF MergeInvariant, TypeOK
  <1>2. ASSUME NEW kind \in {"started", "stopped"}, NEW k \in GameKey, Emit(kind, k)
        PROVE  MergeInvariant'
    <2>1. [kind |-> kind, key |-> k, at |-> Wall] \in GameEvent
      BY <1>1 DEF GameEvent, Wall, ManagerTypeOK
    <2>2. /\ UNCHANGED <<storeVars, open, now>> /\ UNCHANGED <<phase, nextBeat, feed, stopAt, skew>>
          /\ UNCHANGED <<failures, crashes>>
          /\ inbox' = Append(inbox, [kind |-> kind, key |-> k, at |-> Wall])
      BY <1>2 DEF Emit, stopVars, clockVars, faultVars
    <2>3. inbox' \in Seq(GameEvent)
      BY <1>1, <2>1, <2>2 DEF ManagerTypeOK
    <2>4. ManagerTypeOK'
      BY <1>1, <2>2, <2>3 DEF ManagerTypeOK
    <2> QED
      BY <2>2, <2>4, LeavingKeeps
  <1>3. CASE IgnoreStarted \/ StartFails
    <2>1. /\ UNCHANGED <<storeVars, open>>
          /\ \E kind \in {"started"} : Receive(kind)
          /\ StatementFails \/ UNCHANGED faultVars
      BY <1>3 DEF IgnoreStarted, StartFails, faultVars
    <2>2. /\ inbox' \in Seq(GameEvent)
          /\ UNCHANGED <<phase, nextBeat, feed, stopAt, now, skew>>
      BY <1>1, <2>1, ReceiveTakesAnEvent
    <2>3. ManagerTypeOK'
      BY <1>1, <2>1, <2>2, FailureTypes DEF ManagerTypeOK
    <2> QED
      BY <2>1, <2>2, <2>3, LeavingKeeps
  <1>4. CASE Boot \/ RecoveryFails \/ StartManager
    <2>1. /\ phase' \in {"recovering", "crashed", "running"}
          /\ UNCHANGED <<storeVars, open, now>> /\ UNCHANGED <<inbox, stopAt, skew>>
          /\ nextBeat' \in {nextBeat, now + HeartbeatInterval}
          /\ feed' \in {feed, "live", "gone"}
          /\ StatementFails \/ UNCHANGED faultVars
      BY <1>4 DEF Boot, RecoveryFails, StartManager, stopVars, clockVars
    <2>2. nextBeat' \in Nat
      BY <1>1, <2>1 DEF ManagerTypeOK
    <2>3. ManagerTypeOK'
      BY <1>1, <2>1, <2>2, FailureTypes DEF ManagerTypeOK, Phase
    <2> QED
      BY <2>1, <2>3, LeavingKeeps
  <1>5. CASE SourcesExit \/ ChannelCloses \/ Shutdown \/ Desert \/ Exit
    <2>1. /\ phase' \in Phase /\ inbox' \in {<< >>, inbox}
          /\ feed' \in {feed, "gone"} /\ nextBeat' \in {nextBeat, 0}
          /\ stopAt' \in {Wall, stopAt, 0}
          /\ UNCHANGED <<storeVars, open, now>> /\ UNCHANGED skew
          /\ UNCHANGED <<failures, crashes>>
      BY <1>1, <1>5 DEF SourcesExit, ChannelCloses, Shutdown, Desert, Exit, clockVars,
                        faultVars, Phase, ManagerTypeOK
    <2>2. inbox' \in Seq(GameEvent)
      <3>1. << >> \in Seq(GameEvent) /\ inbox \in Seq(GameEvent)
        BY <1>1 DEF ManagerTypeOK
      <3> QED
        BY <2>1, <3>1
    <2>3. Wall \in Int
      BY <1>1 DEF ManagerTypeOK, Wall
    <2>4. nextBeat' \in Nat /\ stopAt' \in Int
      BY <1>1, <2>1, <2>3 DEF ManagerTypeOK
    <2>5. ManagerTypeOK'
      BY <1>1, <2>1, <2>2, <2>4 DEF ManagerTypeOK
    <2> QED
      BY <2>1, <2>5, LeavingKeeps
  <1>6. CASE Tick
    <2>1. /\ now' = now + 1 /\ UNCHANGED <<storeVars, open>>
          /\ UNCHANGED <<phase, inbox, nextBeat, feed, stopAt, skew, failures, crashes>>
      BY <1>6 DEF Tick, procVars, stopVars, faultVars
    <2>2. now' \in Nat
      BY <1>1, <2>1 DEF ManagerTypeOK
    <2>3. ManagerTypeOK'
      BY <1>1, <2>1, <2>2 DEF ManagerTypeOK
    <2> QED
      BY <2>1, <2>3, LeavingKeeps
  <1>7. CASE StepWallClock \/ UNCHANGED vars
    <2>1. /\ skew' \in Skews \cup {skew} /\ UNCHANGED <<storeVars, open, now>>
          /\ UNCHANGED <<phase, inbox, nextBeat, feed, stopAt, failures, crashes>>
      BY <1>7 DEF StepWallClock, vars, procVars, stopVars, clockVars, faultVars
    <2>2. ManagerTypeOK'
      BY <1>1, <2>1 DEF ManagerTypeOK
    <2> QED
      BY <2>1, <2>2, LeavingKeeps
  <1> QED
    BY <1>2, <1>3, <1>4, <1>5, <1>6, <1>7

LEMMA CrashKeeps ==
  ASSUME MergeInvariant, Crash
  PROVE  MergeInvariant'
  <1>1. StoreTypeOK /\ ManagerTypeOK
    BY DEF MergeInvariant, TypeOK
  <1>2. /\ phase' = "crashed" /\ open' = << >> /\ inbox' = << >> /\ crashes' = crashes + 1
        /\ feed' = "gone" /\ nextBeat' = 0 /\ stopAt' = 0
        /\ UNCHANGED <<sessions, applications, lastSession, lastApp>>
        /\ UNCHANGED <<now, skew, failures>>
    BY DEF Crash, storeVars, clockVars
  <1>3. DOMAIN open' = {} /\ open' \in [{} -> OpenSession] /\ inbox' \in Seq(GameEvent)
    BY <1>2
  <1>4. ManagerTypeOK'
    BY <1>1, <1>2, <1>3 DEF ManagerTypeOK, Phase
  <1>5. StoreTypeOK' /\ OpenRows' = OpenRows
    BY <1>1, <1>2 DEF StoreTypeOK, OpenRows
  <1> QED
    BY <1>2, <1>3, <1>4, <1>5, SettlingKeeps

LEMMA DaemonKeeps ==
  ASSUME MergeInvariant, Next
  PROVE  MergeInvariant'
  <1>1. CASE Handle
    BY <1>1, QuietKeeps, StartKeeps, StoppedKeeps DEF Handle
  <1>2. CASE HeartbeatOpenSessions
    BY <1>2, HeartbeatKeeps
  <1>3. CASE Recover
    BY <1>3, QuietKeeps, RecoverKeeps DEF Recover
  <1>4. CASE Stop
    BY <1>4, QuietKeeps, CloseAllKeeps DEF Stop
  <1>5. CASE Crash
    BY <1>5, CrashKeeps
  <1>6. CASE \E ids \in SUBSET (1..lastSession) : DeleteSessions(ids)
    BY <1>6, DeleteKeeps
  <1>7. CASE \/ \E kind \in {"started", "stopped"}, k \in GameKey : Emit(kind, k)
             \/ Boot \/ SourcesExit \/ Shutdown \/ Tick \/ StepWallClock
    BY <1>7, QuietKeeps
  <1> QED
    BY <1>1, <1>2, <1>3, <1>4, <1>5, <1>6, <1>7 DEF Next

-----------------------------------------------------------------------------
(* The transaction: the source's rows become the destination's, and of the *)
(* two at most one had a row open.                                         *)
LEMMA MergingKeeps ==
  ASSUME MergeInvariant, NEW src, NEW dst, MergeInto(src, dst),
         UNCHANGED <<procVars, clockVars, faultVars>>
  PROVE  MergeInvariant'
  <1>1. StoreTypeOK /\ ManagerTypeOK
    BY DEF MergeInvariant, TypeOK
  <1>2. /\ src # dst /\ src \in DOMAIN applications /\ dst \in DOMAIN applications
        /\ ~ (HasOpenRow(src) /\ HasOpenRow(dst))
        /\ sessions' = [s \in DOMAIN sessions |->
                          IF sessions[s].app = src
                          THEN [sessions[s] EXCEPT !.app = dst] ELSE sessions[s]]
        /\ DOMAIN applications' = DOMAIN applications \ {src}
        /\ \A a \in DOMAIN applications' : applications'[a].key = applications[a].key
        /\ UNCHANGED <<lastSession, lastApp>>
    BY DEF MergeInto, MayMerge, Merged
  <1>3. /\ DOMAIN sessions' = DOMAIN sessions
        /\ \A s \in DOMAIN sessions :
             /\ sessions'[s].app = IF sessions[s].app = src THEN dst ELSE sessions[s].app
             /\ sessions'[s].ended = sessions[s].ended
             /\ sessions'[s].full = sessions[s].full
             /\ sessions'[s].interactive = sessions[s].interactive
             /\ sessions'[s] \in SessionRow
    <2>1. \A s \in DOMAIN sessions : sessions[s] \in SessionRow /\ dst \in Nat
      BY <1>1, <1>2 DEF StoreTypeOK
    <2> QED
      BY <1>2, <2>1 DEF SessionRow
  <1>4. OpenRows' = OpenRows
    BY <1>3 DEF OpenRows
  <1>5. StoreTypeOK'
    <2>1. sessions' \in [DOMAIN sessions' -> SessionRow]
      BY <1>2, <1>3
    <2>2. \A s \in DOMAIN sessions' : sessions'[s].interactive <= sessions'[s].full
      BY <1>1, <1>3 DEF StoreTypeOK
    <2> QED
      BY <1>1, <1>2, <1>3, <2>1, <2>2 DEF StoreTypeOK
  <1>6. RowsHaveApplications'
    BY <1>2, <1>3 DEF MergeInvariant, RowsHaveApplications
  <1>7. OneOpenRowPerApplication'
    <2> SUFFICES ASSUME NEW s \in OpenRows, NEW t \in OpenRows,
                        sessions'[s].app = sessions'[t].app
                 PROVE  s = t
      BY <1>4 DEF OneOpenRowPerApplication
    <2>1. s \in DOMAIN sessions /\ t \in DOMAIN sessions
      BY DEF OpenRows
    <2>2. CASE sessions[s].app = sessions[t].app
      BY <2>2 DEF MergeInvariant, OneOpenRowPerApplication
    <2>3. CASE sessions[s].app # sessions[t].app
      <3>1. {sessions[s].app, sessions[t].app} = {src, dst}
        BY <1>3, <2>1, <2>3
      <3> QED
        BY <1>2, <3>1 DEF HasOpenRow
    <2> QED
      BY <2>2, <2>3
  <1>8. UNCHANGED <<phase, open, inbox, nextBeat, feed, stopAt, now, skew, failures, crashes>>
    BY DEF procVars, stopVars, clockVars, faultVars
  <1>9. ManagerTypeOK' /\ EntriesApart'
    BY <1>1, <1>2, <1>8 DEF ManagerTypeOK, MergeInvariant, EntriesApart
  <1> QED
    BY <1>5, <1>6, <1>7, <1>9 DEF MergeInvariant, TypeOK

LEMMA MergeInitEstablishes == MergeInit => MergeInvariant
  <1> SUFFICES ASSUME Init PROVE MergeInvariant
    BY DEF MergeInit
  <1>1. InductiveInvariant /\ DOMAIN open = {}
    BY InitEstablishes DEF Init
  <1> QED
    BY <1>1 DEF InductiveInvariant, MergeInvariant, EntriesApart

LEMMA MergeNextKeeps == MergeInvariant /\ [MergeNext]_mergeVars => MergeInvariant'
  <1> SUFFICES ASSUME MergeInvariant, [MergeNext]_mergeVars PROVE MergeInvariant'
    OBVIOUS
  <1>1. CASE Daemon
    BY <1>1, DaemonKeeps DEF Daemon
  <1>2. CASE \/ \E src, dst \in DOMAIN applications : CheckDaemon(src, dst)
             \/ UNCHANGED mergeVars
    BY <1>2, QuietKeeps DEF CheckDaemon, mergeVars
  <1>3. CASE RunMerge
    <2>1. UNCHANGED <<procVars, clockVars, faultVars>>
      BY <1>3 DEF RunMerge
    <2>2. CASE MergeInto(cleared[1], cleared[2])
      BY <2>1, <2>2, MergingKeeps
    <2>3. CASE UNCHANGED storeVars
      BY <2>1, <2>3, QuietKeeps DEF vars
    <2> QED
      BY <1>3, <2>2, <2>3 DEF RunMerge
  <1> QED
    BY <1>1, <1>2, <1>3 DEF MergeNext

(* Whichever daemon runs beside the command, and even when the bus could   *)
(* not be asked or a daemon came up after it was, a merge (merge_into)     *)
(* leaves an application one open row at most: of two histories with a row *)
(* open each, the transaction is rolled back.                              *)
THEOREM MergeKeepsOneOpenRow == MergeSpec => []OneOpenRowPerApplication
  <1>1. MergeInvariant => OneOpenRowPerApplication
    BY DEF MergeInvariant
  <1>2. MergeSpec => []MergeInvariant
    BY MergeInitEstablishes, MergeNextKeeps, PTL DEF MergeSpec
  <1> QED
    BY <1>1, <1>2, PTL

-----------------------------------------------------------------------------
(* Merging while no daemon can be there: nothing is tracked then, so the   *)
(* manager's own invariant survives the merge, and the counters add up.    *)

ClearedWhileDown ==
  /\ InductiveInvariant
  /\ StatsMatchClosedRows
  /\ cleared # << >> => phase \notin Up

LEMMA MergingWhileDownKeeps ==
  ASSUME InductiveInvariant, phase \notin Up, NEW src, NEW dst, MergeInto(src, dst),
         UNCHANGED <<procVars, clockVars, faultVars>>
  PROVE  InductiveInvariant'
  <1>1. phase \in {"off", "crashed"} /\ DOMAIN open = {}
    BY DEF InductiveInvariant, TypeOK, ManagerTypeOK, TracksOnlyWhileUp, Up
  <1>2. MergeInvariant
    BY <1>1 DEF InductiveInvariant, MergeInvariant, EntriesApart
  <1>3. MergeInvariant'
    BY <1>2, MergingKeeps
  <1>4. UNCHANGED <<phase, open>>
    BY DEF procVars
  <1>5. TrackedRowsAreOpen' /\ TracksOnlyWhileUp' /\ RuntimeWithinElapsed' /\ BeatAtHand'
    BY <1>1, <1>4 DEF TrackedRowsAreOpen, TracksOnlyWhileUp, RuntimeWithinElapsed, BeatAtHand
  <1> QED
    BY <1>3, <1>5 DEF MergeInvariant, InductiveInvariant

(* The destination's closed rows are its own and the source's. *)
LEMMA MergingKeepsStats ==
  ASSUME StoreTypeOK, StatsMatchClosedRows, NEW src, NEW dst, MergeInto(src, dst)
  PROVE  StatsMatchClosedRows'
  <1> DEFINE A == ClosedOf(sessions, dst)
             B == ClosedOf(sessions, src)
  <1>1. /\ src # dst /\ src \in DOMAIN applications /\ dst \in DOMAIN applications
        /\ sessions' = [s \in DOMAIN sessions |->
                          IF sessions[s].app = src
                          THEN [sessions[s] EXCEPT !.app = dst] ELSE sessions[s]]
        /\ applications' = [a \in DOMAIN applications \ {src} |->
                              IF a = dst THEN Merged(applications[src], applications[dst])
                              ELSE applications[a]]
    BY DEF MergeInto, MayMerge
  <1>2. /\ DOMAIN sessions' = DOMAIN sessions
        /\ \A s \in DOMAIN sessions :
             /\ sessions'[s].app = IF sessions[s].app = src THEN dst ELSE sessions[s].app
             /\ sessions'[s].ended = sessions[s].ended
             /\ sessions'[s].full = sessions[s].full
             /\ sessions'[s].interactive = sessions[s].interactive
    <2>1. \A s \in DOMAIN sessions : sessions[s] \in SessionRow
      BY DEF StoreTypeOK
    <2> QED
      BY <1>1, <2>1 DEF SessionRow
  <1>3. ClosedOf(sessions', dst) = A \cup B /\ A \cap B = {}
    BY <1>1, <1>2 DEF ClosedOf
  <1>4. \A b : b # src /\ b # dst => ClosedOf(sessions', b) = ClosedOf(sessions, b)
    BY <1>2 DEF ClosedOf
  <1>5. \A b : \A s \in ClosedOf(sessions, b) :
          /\ sessions'[s].full = sessions[s].full
          /\ sessions'[s].interactive = sessions[s].interactive
          /\ sessions'[s].ended = sessions[s].ended
    BY <1>2 DEF ClosedOf
  <1>6. \A b \in DOMAIN applications : StatsAre(applications[b], sessions, b)
    BY DEF StatsMatchClosedRows, StatsAre, Rebuilt, Longest
  <1>7. ASSUME NEW b \in DOMAIN applications', b # dst
        PROVE  StatsAre(applications'[b], sessions', b)
    <2>1. b # src /\ b \in DOMAIN applications /\ applications'[b] = applications[b]
      BY <1>1, <1>7
    <2> QED
      BY <1>4, <1>5, <1>6, <1>7, <2>1, StatsReadClosedRows
  <1>8. StatsAre(applications'[dst], sessions', dst)
    <2>1. /\ IsFiniteSet(A) /\ IsFiniteSet(B)
          /\ \A s \in A \cup B : sessions'[s].full \in Nat /\ sessions'[s].interactive \in Nat
      BY <1>5, ClosedRowsAreLegal
    <2>2. /\ \A s \in A : sessions'[s].full = sessions[s].full
                          /\ sessions'[s].interactive = sessions[s].interactive
          /\ \A s \in B : sessions'[s].full = sessions[s].full
                          /\ sessions'[s].interactive = sessions[s].interactive
      BY <1>5
    <2> HIDE DEF A, B
    <2>3. /\ TotalFull(sessions', A \cup B) = TotalFull(sessions', A) + TotalFull(sessions', B)
          /\ TotalInteractive(sessions', A \cup B)
               = TotalInteractive(sessions', A) + TotalInteractive(sessions', B)
          /\ Cardinality(A \cup B) = Cardinality(A) + Cardinality(B)
      BY <1>3, <2>1, TotalsOfBoth
    <2>4. Longest(sessions', A \cup B) = Larger(Longest(sessions', A), Longest(sessions', B))
      BY <2>1, LongestOfBoth
    <2>5. ASSUME NEW D, \A s \in D : /\ sessions'[s].full = sessions[s].full
                                     /\ sessions'[s].interactive = sessions[s].interactive
          PROVE  /\ TotalFull(sessions', D) = TotalFull(sessions, D)
                 /\ TotalInteractive(sessions', D) = TotalInteractive(sessions, D)
                 /\ Longest(sessions', D) = Longest(sessions, D)
      <3>1. /\ [s \in D |-> sessions'[s].full] = [s \in D |-> sessions[s].full]
            /\ [s \in D |-> sessions'[s].interactive] = [s \in D |-> sessions[s].interactive]
            /\ {sessions'[s].full : s \in D} = {sessions[s].full : s \in D}
        BY <2>5
      <3> QED
        BY <3>1 DEF TotalFull, TotalInteractive, Longest
    <2>6. /\ TotalFull(sessions', A) = TotalFull(sessions, A)
          /\ TotalInteractive(sessions', A) = TotalInteractive(sessions, A)
          /\ Longest(sessions', A) = Longest(sessions, A)
      BY <2>2, <2>5
    <2>7. /\ TotalFull(sessions', B) = TotalFull(sessions, B)
          /\ TotalInteractive(sessions', B) = TotalInteractive(sessions, B)
          /\ Longest(sessions', B) = Longest(sessions, B)
      BY <2>2, <2>5
    <2> DEFINE from == applications[src]
               to == applications[dst]
    <2>8. /\ from.runs = Cardinality(B) /\ to.runs = Cardinality(A)
          /\ from.full = TotalFull(sessions, B) /\ to.full = TotalFull(sessions, A)
          /\ from.interactive = TotalInteractive(sessions, B)
          /\ to.interactive = TotalInteractive(sessions, A)
          /\ from.longest = Longest(sessions, B) /\ to.longest = Longest(sessions, A)
      BY <1>1, <1>6 DEF StatsAre, A, B
    <2>9. applications'[dst] = Merged(from, to)
      BY <1>1
    <2> HIDE DEF from, to
    <2>10. /\ applications'[dst].runs = to.runs + from.runs
           /\ applications'[dst].full = to.full + from.full
           /\ applications'[dst].interactive = to.interactive + from.interactive
           /\ applications'[dst].longest = Larger(to.longest, from.longest)
      BY <2>9 DEF Merged
    <2> QED
      BY <1>3, <2>3, <2>4, <2>6, <2>7, <2>8, <2>10 DEF StatsAre
  <1>9. \A b \in DOMAIN applications' : StatsAre(applications'[b], sessions', b)
    BY <1>7, <1>8
  <1> QED
    BY <1>9 DEF StatsMatchClosedRows, StatsAre, Rebuilt, Longest

(* As long as the bus answers the command and no daemon boots under a      *)
(* merge it cleared, merging two applications leaves the counters of every *)
(* one those of its closed rows, open rows a crash left included.          *)
THEOREM MergeKeepsStats ==
  ASSUME FALSE \notin BusReachable, ~ BootMayRace
  PROVE  MergeSpec => []StatsMatchClosedRows
  <1>1. MergeInit => ClearedWhileDown
    BY InitEstablishes DEF MergeInit, ClearedWhileDown, Init, StatsMatchClosedRows
  <1>2. ClearedWhileDown /\ [MergeNext]_mergeVars => ClearedWhileDown'
    <2> SUFFICES ASSUME ClearedWhileDown, [MergeNext]_mergeVars PROVE ClearedWhileDown'
      OBVIOUS
    <2>1. CASE UNCHANGED vars
      <3>1. InductiveInvariant' /\ UNCHANGED phase
        BY <2>1, NextPreserves DEF ClearedWhileDown, vars, procVars
      <3>2. StatsMatchClosedRows'
        BY <2>1, <3>1, StepKeepsRows, KeepingRowsKeepsStats DEF ClearedWhileDown
      <3>3. cleared' # << >> => phase \notin Up
        <4>1. CASE UNCHANGED cleared
          BY <4>1 DEF ClearedWhileDown
        <4>2. CASE \E src, dst \in DOMAIN applications : CheckDaemon(src, dst)
          BY <4>2, MergeAssumption DEF CheckDaemon, DaemonActive
        <4>3. CASE RunMerge
          BY <4>3 DEF RunMerge
        <4> QED
          BY <4>1, <4>2, <4>3 DEF MergeNext, mergeVars, Daemon
      <3> QED
        BY <3>1, <3>2, <3>3 DEF ClearedWhileDown
    <2>2. CASE Daemon
      <3>1. InductiveInvariant'
        BY <2>2, NextPreserves DEF ClearedWhileDown, Daemon
      <3>2. StatsMatchClosedRows'
        BY <2>2, <3>1, StepKeepsRows, KeepingRowsKeepsStats DEF ClearedWhileDown, Daemon
      <3>3. cleared' # << >> => phase' \notin Up
        BY <2>2 DEF ClearedWhileDown, Daemon
      <3> QED
        BY <3>1, <3>2, <3>3 DEF ClearedWhileDown
    <2>3. CASE RunMerge /\ MergeInto(cleared[1], cleared[2])
      <3>1. InductiveInvariant'
        BY <2>3, MergingWhileDownKeeps DEF ClearedWhileDown, RunMerge
      <3>2. StatsMatchClosedRows'
        BY <2>3, MergingKeepsStats DEF ClearedWhileDown, InductiveInvariant, TypeOK
      <3> QED
        BY <2>3, <3>1, <3>2 DEF ClearedWhileDown, RunMerge
    <2> QED
      BY <2>1, <2>2, <2>3 DEF MergeNext, CheckDaemon, RunMerge, mergeVars, vars
  <1>3. ClearedWhileDown => StatsMatchClosedRows
    BY DEF ClearedWhileDown
  <1> QED
    BY <1>1, <1>2, <1>3, PTL DEF MergeSpec

=============================================================================
