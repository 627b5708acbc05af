---------------------------- MODULE SessionStore ----------------------------
(***************************************************************************)
(* The two tables the tracker lives by, and the transactions of           *)
(* crates/ludex-core/src/repo that write them.                            *)
(*                                                                         *)
(* `sessions` and `applications` are functions from the ids in use to      *)
(* rows; ids come from AUTOINCREMENT counters and are never used twice.    *)
(* SQLite serialises writers, so every transaction is one step; a caller   *)
(* that issues two of them gets two steps, or says why one will do.        *)
(* Display identity (names, icons, paths) and `started_at` are left out:   *)
(* no property of the bookkeeping reads them.                              *)
(***************************************************************************)
EXTENDS Integers, FiniteSets, FiniteSetsExt

CONSTANTS GameKey,   \* the (launcher_type, launcher_id) pairs that can be seen
          NULL       \* SQL NULL

ASSUME StoreAssumption == NULL \notin Int

VARIABLES sessions,       \* id -> row of `sessions`
          applications,   \* id -> row of `applications`
          lastSession,    \* sqlite_sequence entry of `sessions`
          lastApp         \* sqlite_sequence entry of `applications`

storeVars == <<sessions, applications, lastSession, lastApp>>

ExitReason == {"terminated", "recovered"}

SessionRow == [app: Nat, ended: Int \cup {NULL}, heartbeat: Int,
               full: Nat, interactive: Nat, exit: ExitReason \cup {NULL}]

-----------------------------------------------------------------------------
(* Queries. *)

OpenRows == {s \in DOMAIN sessions : sessions[s].ended = NULL}

HasOpenRow(a) == \E s \in OpenRows : sessions[s].app = a

(* find_by_key: at most one row, by UNIQUE (launcher_type, launcher_id). *)
AppsOf(k) == {a \in DOMAIN applications : applications[a].key = k}

-----------------------------------------------------------------------------
(* Session transactions. *)

(* ApplicationRepo::create: the row's aggregates take their DEFAULTs. *)
CreateApplication(k) ==
  /\ lastApp' = lastApp + 1
  /\ applications' = [a \in DOMAIN applications \cup {lastApp + 1} |->
                        IF a = lastApp + 1
                        THEN [key |-> k, runs |-> 0, full |-> 0,
                              interactive |-> 0, longest |-> 0, last |-> NULL]
                        ELSE applications[a]]

(* SessionRepo::begin, past the partial unique index of migration 0003. *)
Begin(a, at) ==
  /\ lastSession' = lastSession + 1
  /\ sessions' = [s \in DOMAIN sessions \cup {lastSession + 1} |->
                    IF s = lastSession + 1
                    THEN [app |-> a, ended |-> NULL, heartbeat |-> at,
                          full |-> 0, interactive |-> 0, exit |-> NULL]
                    ELSE sessions[s]]

(* The `id = ? AND ended_at IS NULL` of heartbeat and close_and_rollup. *)
StillOpen(s) == s \in OpenRows

(* SessionRepo::heartbeat for every session of `ids`; `run[s]` is the      *)
(* runtime pair measured for s.                                            *)
Heartbeat(ids, run, at) ==
  sessions' = [s \in DOMAIN sessions |->
                 IF s \in ids /\ StillOpen(s)
                 THEN [sessions[s] EXCEPT !.heartbeat = at,
                                          !.full = run[s].full,
                                          !.interactive = run[s].interactive]
                 ELSE sessions[s]]

Larger(m, n) == IF m >= n THEN m ELSE n

(* A plausible mistake: the rollup forgets last_played_at. *)
RolledUpWithoutStamp(row, run, at) ==
  [key |-> row.key, runs |-> row.runs + 1, full |-> row.full + run.full,
   interactive |-> row.interactive + run.interactive,
   longest |-> Larger(row.longest, run.full), last |-> row.last]

(* The UPDATE of applications in close_and_rollup. *)
RolledUp(row, run, at) ==
  [key |-> row.key, runs |-> row.runs + 1, full |-> row.full + run.full,
   interactive |-> row.interactive + run.interactive,
   longest |-> Larger(row.longest, run.full), last |-> at]

(* SessionRepo::close_and_rollup.  No row matched: nothing is rolled up.   *)
(* The application is the one the caller names, not the row's; an UPDATE   *)
(* of an id that is gone matches nothing.                                  *)
CloseAndRollup(s, a, run, at, reason) ==
  IF StillOpen(s)
  THEN /\ sessions' = [sessions EXCEPT
                         ![s] = [@ EXCEPT !.ended = at, !.heartbeat = at,
                                          !.full = run.full,
                                          !.interactive = run.interactive,
                                          !.exit = reason]]
       /\ applications' = [b \in DOMAIN applications |->
                             IF b = a THEN RolledUp(applications[b], run, at)
                             ELSE applications[b]]
  ELSE UNCHANGED <<sessions, applications>>

-----------------------------------------------------------------------------
(* Aggregates recomputed from rows. *)

(* The rows of `table` the rebuild counts for application a: closed only.  *)
ClosedOf(table, a) ==
  {s \in DOMAIN table : table[s].app = a /\ table[s].ended # NULL}

TotalFull(table, ids) == SumFunction([s \in ids |-> table[s].full])

TotalInteractive(table, ids) ==
  SumFunction([s \in ids |-> table[s].interactive])

(* The five subqueries of delete_sessions_and_recompute. *)
Rebuilt(row, table, a) ==
  LET ids == ClosedOf(table, a)
  IN  [key |-> row.key, runs |-> Cardinality(ids),
       full |-> TotalFull(table, ids), interactive |-> TotalInteractive(table, ids),
       longest |-> Max({0} \cup {table[s].full : s \in ids}),
       last |-> IF ids = {} THEN NULL ELSE Max({table[s].ended : s \in ids})]

(* A plausible mistake: open rows may be deleted too. *)
MayDeleteOpen(ids) == ids \cap DOMAIN sessions # {}

(* An open id anywhere in the request aborts it before a row is dropped. *)
MayDelete(ids) == ids \cap DOMAIN sessions # {} /\ ids \cap OpenRows = {}

(* A plausible mistake: the rows go, the aggregates stay. *)
DeleteWithoutRecompute(ids) ==
  /\ MayDelete(ids)
  /\ sessions' = [s \in DOMAIN sessions \ ids |-> sessions[s]]
  /\ UNCHANGED <<applications, lastSession, lastApp>>

(* SessionRepo::delete_sessions_and_recompute, when it does not abort. *)
DeleteSessionsAndRecompute(ids) ==
  /\ MayDelete(ids)
  /\ LET kept  == DOMAIN sessions \ ids
         table == [s \in kept |-> sessions[s]]
         owners == {sessions[s].app : s \in ids \cap DOMAIN sessions}
     IN  /\ sessions' = table
         /\ applications' = [a \in DOMAIN applications |->
                               IF a \in owners
                               THEN Rebuilt(applications[a], table, a)
                               ELSE applications[a]]
  /\ UNCHANGED <<lastSession, lastApp>>

-----------------------------------------------------------------------------
(* Merging. *)

(* SQLite's two-argument MAX: NULL if either argument is NULL. *)
ScalarMax(m, n) == IF m = NULL \/ n = NULL THEN NULL ELSE Larger(m, n)

(* A plausible mistake: the unique index does not cover the re-parenting. *)
MayMergeOpen(src, dst) == src # dst /\ {src, dst} \subseteq DOMAIN applications

(* The partial unique index rejects the re-parenting when both own an open *)
(* row, and the transaction rolls back.                                    *)
MayMerge(src, dst) ==
  /\ src # dst
  /\ {src, dst} \subseteq DOMAIN applications
  /\ ~ (HasOpenRow(src) /\ HasOpenRow(dst))

(* A plausible mistake: the destination's counters are left as they were. *)
MergedWithoutSums(from, to) == [to EXCEPT !.last = ScalarMax(to.last, from.last)]

(* The UPDATE of the destination's aggregates. *)
Merged(from, to) ==
  [key |-> to.key, runs |-> to.runs + from.runs, full |-> to.full + from.full,
   interactive |-> to.interactive + from.interactive,
   longest |-> Larger(to.longest, from.longest),
   last |-> ScalarMax(to.last, from.last)]

(* ApplicationRepo::merge_into, when it does not abort. *)
MergeInto(src, dst) ==
  /\ MayMerge(src, dst)
  /\ sessions' = [s \in DOMAIN sessions |->
                    IF sessions[s].app = src
                    THEN [sessions[s] EXCEPT !.app = dst] ELSE sessions[s]]
  /\ applications' = [a \in DOMAIN applications \ {src} |->
                        IF a = dst THEN Merged(applications[src], applications[dst])
                        ELSE applications[a]]
  /\ UNCHANGED <<lastSession, lastApp>>

-----------------------------------------------------------------------------
(* What the tables must always say. *)

(* Rows are rows, the CHECKs of migration 0001 hold of them, and ids are    *)
(* within their sequences.  That the aggregates are numbers at all follows *)
(* from the two invariants below.                                          *)
StoreTypeOK ==
  /\ lastSession \in Nat /\ lastApp \in Nat
  /\ sessions \in [DOMAIN sessions -> SessionRow]
  /\ \A s \in DOMAIN sessions : sessions[s].interactive <= sessions[s].full
  /\ \A a \in DOMAIN applications : applications[a].key \in GameKey
  /\ DOMAIN sessions \subseteq 1..lastSession
  /\ DOMAIN applications \subseteq 1..lastApp

(* The denormalised counters of every application equal what a rebuild     *)
(* from its closed rows would give: no close is rolled up twice, none is   *)
(* missed, an open row is never counted, and a delete leaves nothing       *)
(* behind.  (`stat_*` of migration 0001, PERSIST-1 of repo/session.rs.)    *)
StatsMatchClosedRows ==
  \A a \in DOMAIN applications :
    LET was == applications[a]
        now == Rebuilt(was, sessions, a)
    IN  /\ was.runs = now.runs
        /\ was.full = now.full
        /\ was.interactive = now.interactive
        /\ was.longest = now.longest

(* An application has a last_played_at exactly when it has a closed row,   *)
(* and then it is the end of one of them.                                  *)
LastPlayedIsAClosedRow ==
  \A a \in DOMAIN applications :
    LET ends == {sessions[s].ended : s \in ClosedOf(sessions, a)}
    IN  IF ends = {} THEN applications[a].last = NULL
        ELSE applications[a].last \in ends

=============================================================================
