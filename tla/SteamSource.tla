----------------------------- MODULE SteamSource -----------------------------
(***************************************************************************)
(* The Steam source (crates/ludex-daemon/src/sources/steam.rs) beside the  *)
(* Steam client: a scan of the processes that run when the daemon starts,  *)
(* and from then on the lines the client appends to its content log.       *)
(*                                                                         *)
(* The log is a sequence of half lines, a head and a tail, for the client  *)
(* may flush anywhere and the cursor, a byte offset in the code, may fall  *)
(* inside a line.  The client starts and ends games, and logs each change  *)
(* when it comes to it; it may log a state again, and it may rotate the    *)
(* log.  Not all it writes is ASCII, and not all of it need be UTF-8.  The *)
(* inotify watch only hurries the poll and is left out, as are display     *)
(* names.  `lost` is a history variable: a line went by unread.            *)
(***************************************************************************)
EXTENDS Integers, FiniteSets, SequencesExt

CONSTANTS App,             \* installed games
          ProcUnreadable,  \* whether enumerating /proc can fail
          MaxDrain,        \* MAX_DRAIN_BYTES, in half lines
          MaxWritten,      \* bound: lines written
          MaxOther,        \* bound: lines of a log about something else
          MaxRotations     \* bound: rotations

(* Lines about something else than the state of a game, such as paths and  *)
(* names: one with a character that lies across the two halves, and one of *)
(* bytes that are not UTF-8.                                               *)
Other == {"across", "binary"}

ASSUME SteamAssumption ==
  /\ App \cap Other = {}
  /\ ProcUnreadable \in BOOLEAN
  /\ MaxDrain \in Nat /\ MaxDrain >= 2
  /\ MaxWritten \in Nat /\ MaxOther \in Nat /\ MaxRotations \in Nat

VARIABLES alive,      \* games with a live process
          logged,     \* games whose last line, finished or not, says running
          log,        \* content_log.txt
          written,    \* lines written so far
          rotations,  \* rotations so far
          at,         \* where the source is
          running,    \* the source's running set
          cursor,     \* how much of the log is consumed
          chunk,      \* the lines a drain has read, and the cursor after it
          told,       \* per game, Started less Stopped events sent
          stale,      \* the cursor is a position in a log since rotated away
          lost        \* a line went by unread

clientVars == <<alive, logged, log, written, rotations>>
sourceVars == <<at, running, cursor, chunk, told>>
vars == <<clientVars, sourceVars, stale, lost>>

HalfLine == [app : App \cup Other, run : BOOLEAN, part : {"head", "tail"}]

Half(a, run, part) == [app |-> a, run |-> run, part |-> part]

NoChunk == [lines |-> << >>, next |-> 0]

(* The client is in the middle of a line. *)
HalfWritten == log # << >> /\ Last(log).part = "head"

Others == {i \in DOMAIN log : log[i].part = "head" /\ log[i].app \in Other}

Init ==
  /\ alive \in SUBSET App /\ logged = alive
  /\ log = << >> /\ written = 0 /\ rotations = 0
  /\ at = "boot" /\ running = {} /\ cursor = 0 /\ chunk = NoChunk
  /\ told = [a \in App |-> 0]
  /\ stale = FALSE /\ lost = FALSE

-----------------------------------------------------------------------------
(* The Steam client. *)

(* The client logs a change before it makes the next one of the same game. *)
LaunchOrExit(a) ==
  /\ a \in alive <=> a \in logged
  /\ alive' = (alive \ {a}) \cup ({a} \ alive)
  /\ UNCHANGED <<logged, log, written, rotations, sourceVars, stale, lost>>

(* A line about a's state, as it is now; perhaps only half of it.  What is *)
(* appended between the scan and the first cursor is never read.           *)
WriteLine(a) ==
  /\ written < MaxWritten /\ ~ HalfWritten
  /\ written' = written + 1
  /\ LET head == Half(a, a \in alive, "head")
         tail == Half(a, a \in alive, "tail")
     IN  log' \in {log \o <<head>>, log \o <<head, tail>>}
  /\ logged' = IF a \in alive THEN logged \cup {a} ELSE logged \ {a}
  /\ lost' = (lost \/ at = "scanned")
  /\ UNCHANGED <<alive, rotations, sourceVars, stale>>

WriteOther(o) ==
  /\ written < MaxWritten /\ ~ HalfWritten /\ Cardinality(Others) < MaxOther
  /\ written' = written + 1
  /\ log' \in {log \o <<Half(o, FALSE, "head")>>,
               log \o <<Half(o, FALSE, "head"), Half(o, FALSE, "tail")>>}
  /\ UNCHANGED <<alive, logged, rotations, sourceVars, stale, lost>>

FinishLine ==
  /\ HalfWritten
  /\ log' = Append(log, [Last(log) EXCEPT !.part = "tail"])
  /\ UNCHANGED <<alive, logged, written, rotations, sourceVars, stale, lost>>

(* How far the source has read, or is about to have. *)
Reached == IF at = "applying" THEN chunk.next ELSE cursor

Rotate ==
  /\ rotations < MaxRotations
  /\ rotations' = rotations + 1
  /\ log' = << >>
  /\ lost' = (lost \/ (at \in {"loop", "applying"} /\ (stale \/ Reached < Len(log))))
  /\ stale' = (at \in {"loop", "applying"} /\ Reached > 0)
  /\ UNCHANGED <<alive, logged, written, sourceVars>>

-----------------------------------------------------------------------------
(* The source. *)

(* cold_start_scan: a Started for every installed game with a process; for *)
(* those whose manifest has the running bit, whatever it is worth, when    *)
(* /proc cannot be read.                                                   *)
ColdStartScan ==
  /\ at = "boot"
  /\ \E live \in IF ProcUnreadable THEN SUBSET App ELSE {alive} :
       /\ running' = live
       /\ told' = [a \in App |-> IF a \in live THEN 1 ELSE 0]
       /\ lost' = (live # alive)
  /\ at' = "scanned"
  /\ UNCHANGED <<clientVars, cursor, chunk, stale>>

(* Reading starts wherever the log ends by then. *)
SetCursor ==
  /\ at = "scanned"
  /\ cursor' = Len(log) /\ at' = "loop"
  /\ UNCHANGED <<clientVars, running, chunk, told, stale, lost>>

(* A plausible mistake: a log that shrank is not noticed. *)
NoRewind == cursor

(* A log shorter than the cursor was rotated or truncated. *)
Rewound == IF Len(log) < cursor THEN 0 ELSE cursor

(* What one pass may read. *)
Window == SubSeq(log, Rewound + 1, Min({Len(log), Rewound + MaxDrain}))

(* A plausible mistake: the unterminated end is consumed too. *)
AllOf(window) == Len(window)

(* The length of `window` up to its last newline, 0 if it has none. *)
Terminated(window) == Max({0} \cup {i \in 1..Len(window) : window[i].part = "tail"})

(* What a pass would consume. *)
Complete == SubSeq(Window, 1, Terminated(Window))

(* from_utf8 of it fails: at bytes that are no text anywhere in it, or at  *)
(* the rest of a character whose beginning is behind the cursor.           *)
NotText(halves) ==
  \E i \in DOMAIN halves :
    \/ halves[i].app = "binary"
    \/ i = 1 /\ halves[1].part = "tail" /\ halves[1].app = "across"

(* drain_lines up to its loop.  What is not text is left for the next pass *)
(* to read again.  A stale cursor the log has outgrown skips what the new  *)
(* log began with.                                                         *)
ReadLog ==
  /\ at = "loop"
  /\ IF Complete = << >> \/ NotText(Complete)
     THEN cursor' = Rewound /\ UNCHANGED <<at, chunk>>
     ELSE /\ at' = "applying" /\ UNCHANGED cursor
          /\ chunk' = [lines |-> Complete, next |-> Rewound + Len(Complete)]
  /\ stale' = FALSE
  /\ lost' = (lost \/ (stale /\ Len(log) >= cursor))
  /\ UNCHANGED <<clientVars, running, told>>

(* Plausible mistake: a line that repeats what is known is reported again. *)
ReportAgain(line) ==
  IF line.app \notin App THEN UNCHANGED <<running, told>>
  ELSE IF line.run
  THEN /\ running' = running \cup {line.app}
       /\ told' = [told EXCEPT ![line.app] = @ + 1]
  ELSE /\ running' = running \ {line.app}
       /\ told' = [told EXCEPT ![line.app] = @ - 1]

(* One line: an event only where it changes the running set. *)
Report(line) ==
  CASE line.app \in App /\ line.run /\ line.app \notin running ->
         /\ running' = running \cup {line.app}
         /\ told' = [told EXCEPT ![line.app] = @ + 1]
    [] ~ line.run /\ line.app \in running ->
         /\ running' = running \ {line.app}
         /\ told' = [told EXCEPT ![line.app] = @ - 1]
    [] OTHER -> UNCHANGED <<running, told>>

(* One turn of the loop over the terminated lines.  Only a line read from  *)
(* its beginning parses; the end of one whose beginning is behind the      *)
(* cursor is passed over.                                                  *)
ApplyLine ==
  /\ at = "applying" /\ chunk.lines # << >>
  /\ LET halves == chunk.lines
         whole == halves[1].part = "head" /\ Len(halves) > 1
         length == IF whole THEN 2 ELSE 1
     IN  /\ IF whole THEN Report(halves[2]) ELSE UNCHANGED <<running, told>>
         /\ chunk' = [chunk EXCEPT !.lines = SubSeq(@, length + 1, Len(@))]
  /\ UNCHANGED <<clientVars, at, cursor, stale, lost>>

FinishDrain ==
  /\ at = "applying" /\ chunk.lines = << >>
  /\ cursor' = chunk.next /\ chunk' = NoChunk /\ at' = "loop"
  /\ UNCHANGED <<clientVars, running, told, stale, lost>>

(* No Stopped is sent: the manager closes what is open. *)
Shutdown ==
  /\ at = "loop"
  /\ at' = "down"
  /\ UNCHANGED <<clientVars, running, cursor, chunk, told, stale, lost>>

-----------------------------------------------------------------------------
Source == ColdStartScan \/ SetCursor \/ ReadLog \/ ApplyLine \/ FinishDrain

Client ==
  \/ \E a \in App : LaunchOrExit(a) \/ WriteLine(a)
  \/ \E o \in Other : WriteOther(o)
  \/ FinishLine
  \/ Rotate

(* What the client does once the source is down is nobody's business. *)
Next ==
  \/ at # "down" /\ Client
  \/ Source
  \/ Shutdown

(* Fairness: the poll comes round every five seconds.  Steam owes nothing. *)
Spec == Init /\ [][Next]_vars /\ WF_vars(Source)

-----------------------------------------------------------------------------
(* Properties. *)

(* The events alternate: "two Started events for the same key without an   *)
(* intervening Stopped are a bug in the source" (event.rs:10).             *)
TypeOK ==
  /\ alive \subseteq App /\ logged \subseteq App /\ running \subseteq App
  /\ log \in Seq(HalfLine)
  /\ written \in 0..MaxWritten /\ rotations \in 0..MaxRotations
  /\ at \in {"boot", "scanned", "loop", "applying", "down"}
  /\ cursor \in Nat /\ chunk \in [lines : Seq(HalfLine), next : Nat]
  /\ told \in [App -> 0..1]
  /\ stale \in BOOLEAN /\ lost \in BOOLEAN

(* Steam has logged what it did, and the source has read it all. *)
CaughtUp == at = "loop" /\ cursor = Len(log) /\ ~ HalfWritten /\ ~ stale /\ logged = alive

Announced == {a \in App : told[a] = 1}

(* Lines split over two flushes, passes cut short by MAX_DRAIN_BYTES,       *)
(* repeated lines, games that start or end around the scan, rotations: as  *)
(* long as no line was lost, a source that has caught up has announced     *)
(* exactly the games that run.                                             *)
FollowsSteam == (CaughtUp /\ ~ lost) => Announced = alive

HasUnreadLine ==
  \E i \in 1..Len(log) : log[i].part = "tail" /\ (i > cursor \/ Len(log) < cursor)

(* The source is put off: one line of the next pass is not text, and       *)
(* neither it nor the lines that would be read with it are ever read, for  *)
(* nothing that is appended mends it; only a rotation does.                *)
PutOff == at = "loop" /\ NotText(Complete)

(* A complete line is read in the end, after a rotation too, unless the    *)
(* source comes upon bytes that are not UTF-8.                             *)
UnreadIsRead ==
  (at = "loop" /\ HasUnreadLine) ~> (at = "down" \/ ~ HasUnreadLine \/ PutOff)

(* The inductive invariant SteamSourceProofs.tla proves.  A line counts    *)
(* from where its beginning is written, and is read if its beginning is    *)
(* unread.                                                                 *)
LinesAbout(halves, from, a) ==
  {i \in from + 1 .. Len(halves) : halves[i].part = "head" /\ halves[i].app = a}

LastSays(halves, from, a, truth) ==
  \A i \in LinesAbout(halves, from, a) :
    (\A j \in LinesAbout(halves, from, a) : j <= i) => (halves[i].run <=> truth)

(* Between a beginning and its end nothing else is written. *)
Paired(halves) ==
  \A i \in 1 .. Len(halves) - 1 :
    halves[i].part = "head" => halves[i + 1] = [halves[i] EXCEPT !.part = "tail"]

(* Where the source will have to go on reading. *)
Unread == IF stale THEN 0 ELSE Reached

(* What the source knows of a is what Steam logged, or what it saw in      *)
(* /proc and Steam is yet to log.                                          *)
UpToDate(a) == (a \in running <=> a \in logged) \/ (a \in running <=> a \in alive)

(* The last line about a, in the log, else in the chunk, is what Steam     *)
(* logged; if there is none the source is up to date.                      *)
WillFollow(a) ==
  /\ LastSays(log, Unread, a, a \in logged)
  /\ LinesAbout(log, Unread, a) = {} =>
       /\ LastSays(chunk.lines, 0, a, a \in logged)
       /\ LinesAbout(chunk.lines, 0, a) = {} => UpToDate(a)

Reading == at \in {"loop", "applying", "down"}

ToldWhatRuns == \A a \in App : told[a] = IF a \in running THEN 1 ELSE 0

ChunkEndsALine == chunk.lines # << >> => at = "applying" /\ Last(chunk.lines).part = "tail"

CursorInLog ==
  /\ ~ Reading => ~ stale
  /\ Reading /\ ~ stale => Reached <= Len(log)

NothingMissed ==
  /\ ~ lost /\ at = "scanned" => \A a \in App : UpToDate(a)
  /\ ~ lost /\ Reading => \A a \in App : WillFollow(a)

InductiveInvariant ==
  /\ TypeOK /\ ToldWhatRuns
  /\ Paired(log) /\ Paired(chunk.lines) /\ ChunkEndsALine
  /\ CursorInLog /\ NothingMissed

=============================================================================
