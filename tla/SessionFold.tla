----------------------------- MODULE SessionFold -----------------------------
(***************************************************************************)
(* What clients are shown of the session table: the lists of dbus.rs, the  *)
(* queries of repo/session.rs behind them, and the fold of                 *)
(* session_merge.rs that shows an alt-tabbed play as one.  A table is a    *)
(* set of rows with distinct ids; an open row has no end.                  *)
(***************************************************************************)
EXTENDS Integers, FiniteSets, Sequences, SequencesExt

CONSTANTS Gap,     \* DEFAULT_MERGE_GAP_SECONDS
          Day      \* seconds of a day

ASSUME FoldAssumption == Gap \in Nat /\ Day \in Nat \ {0}

Running == -1      \* `ended_at IS NULL`

DistinctIds(table) == \A r, s \in table : r.id = s.id => r = s

-----------------------------------------------------------------------------
(* The queries. *)

(* ORDER BY started_at DESC.  The order of rows that started together is   *)
(* the database's to choose: here the later id comes first.                *)
Newer(s, r) == s.start > r.start \/ (s.start = r.start /\ s.id > r.id)

NewestFirst(table) ==
  [i \in 1..Cardinality(table) |->
     CHOOSE r \in table : Cardinality({s \in table : Newer(s, r)}) = i - 1]

Limited(seq, limit) == SubSeq(seq, 1, IF limit < Len(seq) THEN limit ELSE Len(seq))

(* limit.clamp(1, 1000) *)
Clamp(limit) == IF limit < 1 THEN 1 ELSE IF limit > 1000 THEN 1000 ELSE limit

(* list_recent_with_app and list_for_application. *)
ListRecent(table, limit) == Limited(NewestFirst(table), limit)
ListForApplication(table, a, limit) ==
  ListRecent({row \in table : row.app = a}, limit)

(* list_in_range: the rows that overlap [from, to), oldest first. *)
ListInRange(table, from, to) ==
  Reverse(NewestFirst({row \in table : /\ row.start < to
                                       /\ row.end = Running \/ row.end > from}))

DayOf(time) == time \div Day

FullRuntime(table) == SumFunction([row \in table |-> row.full])

(* daily_playtime_since: what was played on each day from the cutoff's on, *)
(* by the day a session started, without the blocked applications.         *)
DailyPlaytime(table, cutoff, blocked) ==
  LET counted == {row \in table : DayOf(row.start) >= DayOf(cutoff) /\ row.app \notin blocked}
  IN  [d \in {DayOf(row.start) : row \in counted} |->
         FullRuntime({row \in counted : DayOf(row.start) = d})]

-----------------------------------------------------------------------------
(* The fold. *)

(* A plausible mistake: the gap is measured from the newest fragment. *)
MergeableToNewest(span, row) ==
  /\ span.app = row.app
  /\ row.end # Running
  /\ span.end = Running \/ span.end - row.end <= Gap

(* The older row ended at most Gap before the span's start; an open one    *)
(* never merges.                                                           *)
Mergeable(span, row) ==
  /\ span.app = row.app
  /\ row.end # Running
  /\ span.start - row.end <= Gap

(* A row of its own, and merge_recent or merge_session: the span reaches   *)
(* back to the older row's start and ends the way the newest one did.      *)
Span(row) == [app |-> row.app, start |-> row.start, end |-> row.end,
              full |-> row.full, fragments |-> <<row.id>>]

Absorb(span, row) == [span EXCEPT !.start = row.start, !.full = @ + row.full,
                                  !.fragments = Append(@, row.id)]

(* fold, over rows newest first. *)
Shown(out, row) ==
  IF out # << >> /\ Mergeable(Last(out), row)
  THEN Append(Front(out), Absorb(Last(out), row))
  ELSE Append(out, Span(row))

Fold(rows) == FoldLeft(Shown, << >>, rows)

ListRecentSessions(table, limit) == Fold(ListRecent(table, Clamp(limit)))
ListSessionsForApplication(table, a, limit) ==
  Fold(ListForApplication(table, a, Clamp(limit)))

-----------------------------------------------------------------------------
(* What the lists must say. *)

(* Rows i and j of a list are one play when every two neighbours from the  *)
(* one to the other are the same game's, at most Gap apart.                *)
OnePlay(rows, i, j) ==
  \A k \in i..j-1 : /\ rows[k].app = rows[k + 1].app
                    /\ rows[k + 1].end # Running
                    /\ rows[k].start - rows[k + 1].end <= Gap

(* The spans of a list are its plays: every row is in one of them, in      *)
(* order, none is in two, and nothing played is lost or counted twice.     *)
FoldsTo(rows, spans) ==
  /\ FlattenSeq([s \in DOMAIN spans |-> spans[s].fragments])
       = [i \in DOMAIN rows |-> rows[i].id]
  /\ \A i, j \in DOMAIN rows : i < j =>
       (OnePlay(rows, i, j) <=>
          \E s \in DOMAIN spans : {rows[i].id, rows[j].id} \subseteq Range(spans[s].fragments))
  /\ \A s \in DOMAIN spans :
       LET mine == {rows[i] : i \in {j \in DOMAIN rows :
                                       rows[j].id \in Range(spans[s].fragments)}}
       IN  /\ spans[s].full = FullRuntime(mine)
           /\ \E row \in mine : row.start = spans[s].start
           /\ \A row \in mine : row.start >= spans[s].start

=============================================================================
