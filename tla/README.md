# Formal model of ludex

ludex measures how long games are played on a Linux desktop. A daemon learns
from Steam's content log and from KWin's foreground window that a game started
or stopped, keeps one row per play session in SQLite, and serves what it knows
over D-Bus; a command line works on the same database; a desktop application
shows it. This directory models the parts of it where something can go wrong
between two steps, checks them with TLC and proves the most important results
with TLAPS.

To check a module: `tlc -config MCSessionManager.cfg MCSessionManager`. To
check the proofs: `tlapm SessionManagerProofs.tla`. `PROJECT.json` maps every
definition to the lines it translates and lists runs, findings, hazards and
theorems.

## 1. The system

Paths are relative to `src/`; `daemon/`, `core/`, `cli/` and `enrich/` stand
for `crates/ludex-daemon/src/` and so on.

### Components

| component | code | state | operations | correct means | here |
|---|---|---|---|---|---|
| session store | `core/repo/session.rs`, `application.rs`, `migrations/` | `sessions`, `applications` with denormalised counters | begin, heartbeat, close and roll up, delete and recompute, merge | counters equal what the closed rows give; one open row per application | partly |
| session manager | `daemon/session_manager.rs`, `event.rs` | map of open sessions, event channel, heartbeat timer | handle a Started or Stopped, heartbeat, recover orphans, close all | memory and open rows agree; a crash loses one heartbeat | modelled |
| daemon lifecycle | `daemon/daemon.rs`, the systemd unit | tasks, shutdown watch, bus name | boot, recovery, spawn, join, exit | crashes are recovered, shutdowns end | partly |
| KWin source | `daemon/sources/kwin/`, `proc/pidfd.rs` | foreground state, grace timer, watchers | activation, exit, timeout, shutdown | events alternate; exits and absences end | modelled |
| Steam source | `daemon/sources/steam.rs` | running set, byte cursor | cold start, drain, rotation | what is announced is what runs | modelled |
| gate and proc readers | `daemon/gate.rs`, `proc/` | one decision under way | read `/proc` file by file, decide | one tracker per game, whatever exits or re-execs meanwhile | modelled |
| idle accounting | `daemon/idle.rs` | idle intervals, open interval | edges, baseline, billing | a session is billed its own idle time | modelled |
| idle watchers | `daemon/idle_wayland.rs`, `idle.rs` | worker thread, oneshot channel, watchdog | connect, arm, report, dispatch, concede, fall back | one source drives the tracker; no return of the user is lost | modelled |
| D-Bus API, settings, blocklist | `daemon/dbus.rs`, `config.rs`, `core/repo/settings.rs`, `blocked.rs` | settings and blocklist, twice: table and memory | six setters, block, unblock, snapshot, queries | table and memory agree | partly |
| D-Bus signals | `daemon/dbus.rs`, `session_manager.rs` | bounded notification channel | notify, emit | a client is told, or knows it was not | partly |
| backup scheduler | `daemon/backup.rs` | its copy of two settings, a timer | reload, tick, final snapshot | no setting lost; always ends | modelled |
| backup files | `core/backup.rs`, `cli/backup.rs` | a directory | snapshot, list, prune, restore | the newest copy survives | partly |
| session fold and queries | `core/session_merge.rs`, queries | none | lists, range, days, fusing fragments | each play once, no second lost | modelled |
| enrichment | `enrich/` | one task per new row | six sources, merge of patches, update | the strongest source names the game | partly |
| keys, types, VDF, paths | `core/` | none | keys of launches, VDF lookup | a key is one game's | partly |
| desktop application host | `app/src-tauri/src/` | streams, tray icon | subscribe, forward, reconnect, reconcile | the tray shows what is played | partly |
| command line | `cli/` | none | merge, backup, lists | never under a live manager | partly |
| database opening, migrations | `core/db.rs`, `migrations/` | schema version | open, migrate | | no |
| frontend | `app/src/` | what is shown | | | no |
| D-Bus types, packaging | | declarations | | | no |

### How they interact

* The sources send `GameEvent`s over one bounded `mpsc` channel to the
  manager, which is a single task and the only one that opens and closes rows.
  When all sources end, the channel closes and the manager ends with it, while
  the process lives on.
* The manager reads the shared blocklist, the idle tracker and `SharedConfig`;
  the D-Bus methods, each call a task of its own, write table and memory in
  that order. A backup setter then leaves a permit in a `Notify` for the
  scheduler. The KWin source reads the pause setting after it has awaited the
  gate, and the gate awaits one read of `/proc` after another.
* The idle tracker has one writer at a time by design: a worker thread on the
  Wayland connection, or, if that reports failure or nothing within a watchdog's
  time, a task on logind's `IdleHint`. The manager takes a baseline of the
  tracker when a session opens and asks for the bill when it closes.
* A new application row spawns an enrichment task that outlives the handler.
* The manager drops notifications into a bounded channel; a notifier task makes
  D-Bus signals of them; the desktop application's forwarder, bound to one owner
  of the bus name at a time, hands them to the tray's worker, and asks for the
  state afresh when the owner has changed.
* D-Bus `delete_session` writes the store beside the manager; SQLite
  serialises the two. The command line is another process on the same file:
  `merge` and `backup restore` ask the bus first whether a daemon is up,
  `backup now` and `prune` need not.
* A shutdown flips one `watch`; the daemon then joins its tasks one by one and
  ends. Systemd restarts a daemon that failed, and the new one first recovers
  the rows the old one left open.

The hard behaviours: the interleaving of these tasks at each await; a crash
between two statements; a statement that fails between two effects (an entry
removed, a row committed, a file opened); two homes of one datum; clocks that
step, suspend and differ; a log that is flushed in pieces and rotated; a grace
timer against exits and returns; a watchdog against a late answer; listings of a
directory and readings of `/proc` that are stale when used; subscriptions that
are made one after the other. `hazards` in `PROJECT.json` names each at its line.

## 2. The modules

| module | models | composes |
|---|---|---|
| `SessionStore` | the two tables and every transaction on them | |
| `SessionManager` | manager, channel, heartbeat, recovery, boot, shutdown, crash, D-Bus delete, failing statements, two clocks | EXTENDS `SessionStore` |
| `PlaytimeLedger` | what those two promise a user, without daemon, clock or table | refined by `SessionManager` |
| `CliMerge` | `ludex merge` beside the daemon | EXTENDS `SessionManager` |
| `ForegroundSource` | the KWin source's state machine and its task | |
| `SteamSource` | the Steam source beside the Steam client | |
| `Backups` | the backup directory and what is done to it | |
| `TrackerBus` | D-Bus setters and mirrors, the backup scheduler, the command line's backup commands | EXTENDS `Backups` |
| `IdleTracker` | the intervals, the baseline and the bill | |
| `IdleSources` | worker thread, waiting task, watchdog, logind watcher, user and compositor | EXTENDS `IdleTracker` |
| `Gate` | the gate's reads beside a launch whose processes live on | |
| `Enrichment` | the sources of the cascade, as operators on files | |
| `Identify` | verdict, key, row, cascade, beside merges and crashes | EXTENDS `Gate`, `Enrichment` |
| `SessionFold` | queries and fold, as operators on tables | |
| `SignalForwarder` | notifications, notifier, bus, forwarder, tray | EXTENDS `SessionFold` |
| `SessionManagerProofs` (with `CliMerge`), `ForegroundSourceProofs`, `SteamSourceProofs`, `TrackerBusProofs`, `IdleSourcesProofs`, `IdentifyProofs`, `SignalForwarderProofs` (with `SessionFold`) | the theorems | EXTEND the module they are about |
| `FiniteSums` | what their proofs share: induction over finite sets, sums, greatest elements | |
| `MC...` | instances for TLC | |

`SessionManager` takes from the others only what they may answer: the bill of
an idle tracker is any member of `IdleBilled`, so that it holds of any tracker;
whether a game is blocked, and what the sources report, is arbitrary as well.

### Session store and manager

`sessions` and `applications` are functions from ids in use to rows, with the
columns the bookkeeping reads; names, icons, paths and `started_at` are left
out. Each transaction is one step, since SQLite serialises writers. `open` is
the manager's map, `inbox` the channel, `phase` the daemon's progress. A
handler of the manager is one step: it awaits several statements, but nobody
else writes what it reads between them (the only other writer, the D-Bus
delete, refuses open rows). Its failures are separate disjuncts at the
statement that fails: `StartNew` may commit the application and not the
session, `HandleStopped` has already removed the entry when the close fails,
and `HeartbeatOpenSessions` writes any part of the map before it gives up.
`CloseAllOpen` and `RecoverOrphan` are one step per row, so that a crash may
come between rows.

There are two clocks. `now` is monotonic and measures runtimes; `now + skew` is
the wall clock and stamps rows. `skew` moves on suspend and when the clock is
set. Idle time billed is any of `IdleBilled`, more than the runtime included,
which is what the clamp in `runtimes_for` is for. Whether a key is blocked is
an arbitrary answer (`IgnoreStarted` is always possible).

`PlaytimeLedger` says: while a session is open its runtime only grows; when it
closes, its runtime is added to its application's total, once and in the same
step; a closed session never changes; a delete leaves the total of what
remains. The mapping takes a row with no `ended_at` to an open session and
forgets everything else.

### Merge command

`CheckDaemon` and `RunMerge` are two steps. `BusReachable` is the set of answers
to whether the bus can be asked; where it cannot, `daemon_active` answers false
and the merge runs under whatever daemon there is. `BootMayRace` tells whether a
daemon may start between the two steps. The runs have a bus that answers and no
such start, since the counters do not survive either; the theorem about open
rows has both.

### KWin source

The pure functions of `transition.rs` are operators of the same names, in
`Outcome` records of events, next state and timer operation. The task's biased
select is in the guards of `TakeExit`, `TakeTimeout` and `TakeActivation`;
behind each, a handler goes through `Decide`, one `SendEvent` per event and
`FinishOutcome`, and between any two of them processes exit, timers elapse and
the pause setting changes. The gate's answer for a live process varies; for a
dead one it is a rejection. `balance` counts Started less Stopped per game.
`pidfd_open` may fail.

### Steam source

The log is a sequence of half lines, so that a flush may end inside a line and
a cursor may too. The client writes, repeats and finishes lines and rotates the
log between any two steps of the source. `MAX_DRAIN_BYTES` is `MaxDrain` half
lines; two is the least that can make progress. Besides the states of games
the client logs lines about something else (`Other`): one whose character may be
cut by a flush, one of bytes that are not UTF-8. A pass that is not text as a
whole (`NotText`, of what `Terminated` keeps) leaves the cursor where it was and is
read again. `lost` and `stale` are history:
a line went by that no reader of this design could have seen (appended between
the scan and the first cursor, rotated away unread, or hidden behind a cursor
of an older log that the new one has outgrown), or `/proc` could not be read.

### D-Bus settings, scheduler, backups

Every call is a task with a stage: `store`, `mirror`, `notify`, `prune`, one
step each, for there is an await between them. `alt_tab_grace` stands for the
four settings whose setters only write both homes; `backup_interval` for the
one that also notifies; `backup_retention` prunes as well. `permit` is the one
permit a `Notify` can hold. The scheduler's select is biased, shutdown before
permit before timer; the timer may have elapsed whenever it is asked.

A snapshot opens its file (`partial`), fills it (`complete`), and prunes: it
lists the directory once and deletes from that list, newest first, with every
other task at liberty in between. A file is a number, the second in its name:
names the program did not give are not modelled. The wall clock may be set to
any time. A copy that fails leaves the file: SQLite does not remove the target
of a failed `VACUUM INTO`. `Crash` may come at any step and takes all tasks
but the command line's.

### Idle tracker and its sources

`IdleTracker` keeps time in ticks, `Second` of them to a second, because the
code rounds every duration down. Its operations are steps under one mutex.
`IdleSources` drives it. `worker` is where the thread is, from the socket to
the dispatch loop; `Hangs` keeps it in a roundtrip for as long as the
compositor stays mute. `channel` is the oneshot that `first_setup` sends its
one report through, `task` the async side that selects between report, watchdog
and shutdown and afterwards drops its end (`conceding`, then `fallback`).
`Notifier` holds the versions a compositor may advertise. The user comes and goes
at most once per tick. `missed` and `stray` are history: a report arrived
between the task's last look at the channel and its drop, or the worker wrote
after the task had given up on it.

### Gate, enrichment and the way to a name

A launch is a chain of processes with the window first; `Inherited` says which
variables each kind of launcher leaves in their environ. While the gate reads
(`ReadExe`, `ReadEnviron`, `ReadAncestor`, `LookForGamescope`, `ReadMaps`,
`ReadFdinfo`, one action each, in the code's order with its short cuts), any
process of the launch may re-exec without its variables, as any may have before,
and any may exit, its children going to the process `Reaper`: the walk may have to
pass several bare processes before it comes to one that tells, as it does for the
game of `gate.rs:599-617`. `gone` is history: a process of the launch has exited.
Of a file only what the gate tells apart is kept; `exe` and `maps` may also be
unreadable for a process that lives.

`Enrichment` gives each source as an operator from what it finds on the disk to
a patch; a path is a sequence of components, a file a sequence of entries.
`Identify` follows one launch from its verdict to the row `find_or_create` makes
of it and the task that fills it in, one source a step, while the row may be
merged away, a second start may make another of the same key, and the daemon
may crash. Facts no longer read are dropped from the state when tracking begins.

### Lists, signals and the tray

`SessionFold` has the four queries and `fold` as operators on a set of rows with
distinct ids. Rows may have started together; the queries order by `started_at`
alone, so that SQLite chooses which of them comes first, and here it is the later
id. What is proved of the fold holds of any list in order.
`SignalForwarder` puts them on the table of a daemon that starts, recovers
orphans, opens and closes sessions and dies. A signal goes from `channel`, where
it is dropped if full, over the bus into the streams `bound` to the owner of
that time; the forwarder makes its three subscriptions one step each, and the
tray's worker takes an update a step. `blurred` is history since the last
reconciliation, for what the code accepts or overlooks (section 3); `deaf` says
that the owner changed before anybody watched it.

## 3. The runs

| run | states | checks |
|---|---|---|
| `session_manager` | 658 k | `TypeOK`, `StatsMatchClosedRows`, `TrackedRowsAreOpen`, `OpenRowsAccountedFor` |
| `session_clocks` | 205 k | `LastPlayedIsAClosedRow`, `HeartbeatLag`, `ImplementsLedger`, `CrashIsRecovered`, `ShutdownCompletes` |
| `merge` | 673 k | `StatsMatchClosedRows`, `OneOpenRowPerApplication` |
| `foreground` | 233 k | `TypeOK`, `ToldWhatIsTracked`, `TimerIffBackgrounded`, `WatchedExitStops`, `BackgroundIsTransient` |
| `steam` | 829 k | `TypeOK`, `FollowsSteam`, `UnreadIsRead` |
| `tracker_bus` | 295 k | `TypeOK`, `MirrorsAgree`, `SchedulerFollowsConfig`, `NewestSnapshotKept`, `ReloadFollows`, `ShutdownEnds` |
| `idle` | 520 k | `TypeOK`, `BillsItsOwnIdleTime`, `OneSourceServes`, `NoResumeIsLost`, `SetupSettles` |
| `identify` | 1.13 M | `OneTrackerPerGame`, `VerdictIsTheHeuristic`, `NamedByTheStrongest` |
| `notifications` | 532 k | `TypeOK`, `TrayShowsTheSession`, `LossClearsTray`, `ListsShowPlays` |
| `merge_null`, `failed_snapshot`, `reconcile` | | one property each, violated: see findings |

Why the bounds are enough:

* `session_manager`: two keys and two sessions are what it takes to confuse
  one game with another, and one game's second session with its first; one
  crash and one failure, to combine a failure with a recovery; three ticks at
  an interval of two, to have a beat before and a crash after it. Keys are
  symmetric: no property under symmetry here is a liveness property.
* `session_clocks`: one game, so that the wall clock may move at every step;
  the interval is one, so that beats and failures of beats alternate.
* `merge`: three sessions, for two histories and an orphan on either side.
* `foreground`: two processes of one game and one of another, and the
  daemon's own window; a queue of one activation is enough for one to be
  behind an exit and a timeout; of several watchers on a process one is kept,
  because a second report of an exit finds the process dead and untracked,
  and a dead process is not accepted again. Longer queues and more watchers are
  in the proofs.
* `steam`: three lines make a repeated state, a line cut by the limit and one
  behind a rotation; a limit of three half lines ends inside the second. One
  line about something else is enough to put the source off.
* `tracker_bus`: a client that makes two calls (or one beside a command),
  three values with the illegal zero, two of three kinds of setting, two names
  in the directory. More clients, names and calls are in the proofs.
* `idle`: four ticks of half a second, so that an absence of a whole second
  fits between two sessions and the rounding shows; a window of one tick inside
  a watchdog of two; two starts of the compositor, to reconnect once; a grace
  of none and of a second.
* `identify`: four processes, so that a wrapper may exit between the window
  and the reaper, the window and two processes above it may be bare, and the
  outermost still keep the variables. Each source finds nothing, an entry of
  another game (by its id, beside this one with a name that begins alike, or in the
  directory above it: alone, beside this game's uninstalled row, and beside the
  right one), a blank or broken entry, or the right one.
* `notifications`: a table of one session, with two more to come over two lives
  of the daemon, for a start in either life and an end lost between them; and
  all tables of three sessions of two games with gaps at and beyond the limit,
  for the fold, and one of two that started together.

Where the checking of deadlock is off (`steam`, `idle`, `identify`,
`notifications`, `reconcile`), the system may stop: a source that was shut down,
a clock at its bound, a decision that is made, a daemon that was not restarted.

Fairness, and why the code justifies it: tokio polls every ready task, so weak
fairness of the manager's, the source's, the scheduler's and each call's next
step (`Handle`, `Recover`, `Stop`, `Loop`, `Source`, `CallStep`,
`SchedulerStep`), of the idle task's (`HearReport`, `WatchdogFires`,
`DropReceiver`) and of the application's two tasks (`Forwarder`, `Tray`); a
process that has joined its tasks exits; time passes and an armed timer elapses;
the kernel reports an exit to an open pidfd; systemd restarts a daemon that
crashed (`Restart=on-failure`), though none that ended cleanly. Nothing is
assumed of users, games, Steam, clients, the compositor, the worker thread in a
roundtrip, the wall clock, failures or crashes, nor, in `SignalForwarder`, of the
daemon and the bus.

### Findings

* `merge_null`: `MAX(last_played_at, ?)` is SQLite's scalar function, which is
  NULL if either argument is; the comment says it ignores NULL. Merging with an
  application never played erases the date.
* `failed_snapshot`: "the failed snapshot simply isn't there", but it is: a
  partial file under a backup's name, counted by retention as the newest.
* `reconcile`: the tray asks for the newest row and takes it for the live one;
  with two games open, of which the later has ended, it goes idle over the other.

### Behaviours the properties except

Each of these is in the models, and each is excepted by name where a property
would otherwise fail.

* A stranded row: `handle_stopped` forgets the session before the close that
  can fail. The row stays open until the next boot, and every later Started of
  that game is dropped at a branch the code calls unreachable
  (`OpenRowsAccountedFor` speaks of runs with no failed statement).
* A merge under a daemon: one may start between the check and the transaction
  and track a session of the application that is merged away (`BootMayRace`).
  Open rows stay unique all the same (`MergeKeepsOneOpenRow`).
* An unwatched game: with pausing off and no pidfd, no change of focus to a
  window that is no game ends a game that has exited
  (`WatchedExitStops` speaks of watched processes).
* A line between scan and cursor: Steam's cursor is taken after the scan, so a
  line written between the two is skipped although the watch was installed
  before (`lost`).
* Two callers: two calls on one setting, or a block beside an unblock, may write
  table and memory in opposite orders and stay apart until a restart, against
  `session_manager.rs:34` (`MirrorsAgree` speaks of calls made one at a time; with
  two members in `Clients` TLC finds the race).
* Two idle sources: "exactly one source" (`idle_wayland.rs:386`, `414`) fails when
  the report comes between the last look at the channel and its drop (`missed`),
  and the sealing of a worker that was given up may close logind's interval
  (`stray`). When logind's stream ends, an interval left open is nobody's.
  The grace is forgiven twice for an absence that a reconnection splits, which the
  header of `idle_wayland.rs` documents.
* A line that is not UTF-8: `drain_lines` leaves the cursor before it "and let[s]
  the next wake re-read when the flush completes" (`steam.rs:461-464`), but what
  ends in a newline was flushed, and reads the same for ever. The source is deaf
  until the log rotates, to the good lines in the same pass as well. The same
  befalls a cursor that came to lie inside a character, at the start or behind a
  rotation (`PutOff`: `UnreadIsRead` promises nothing then; `FollowsSteam` speaks of
  a source that has caught up).
* An untraceable launch (`Traceable`): a wrapper that exits under the walk ends it
  early, and where no process from the window upwards keeps the launcher's
  variables there is nothing to find; in both cases a Steam game is accepted as a
  native one as well. An outer launch (a window started from within another
  launcher's game, `gate.rs:619-621`) is not modelled: a native window there would
  be credited to the outer one.
* A game below another (`GoesByDirectory`): Lutris and, for a native window, Heroic
  take the entry with the longest directory that holds the executable
  (`lutris.rs:103-111`, `heroic.rs:235-243`), and GOG the first info file within
  three parents (`gog.rs:35-44`). Where the game has no entry of its own, that of a
  game installed in a directory above it names it, and overrules a weaker source
  that had the right name. `NamedByTheStrongest` promises the game's own name only of
  sources that know it. (Two info files in the game's own directory, of the game
  and of an add-on, both count as its own.)
* The tray (`blurred`): any end of a session idles it, also with another open;
  an application started in the middle of a session is not reconciled; an orphan
  is seen as live between the daemon's taking its name and its recovery; a full
  channel drops a signal; updates before the tray is up are dropped; an end
  emitted between the two subscriptions is lost; a `select!` over separate
  streams may put a start and an end in the wrong order, although
  `tray.rs:279-281` says that rapid events stay in order. The watch on the owner is
  subscribed last, so that a loss before it leaves the icon as it was (`deaf`).

Seen in passing, and in no property: enrichment runs only when a row is created,
so a crash leaves the resource class as a name for good; the games of one
Battle.net installation share a Lutris UUID and hence a row (`transition.rs:309-311`
says the id is unique per game); `fdinfo` adds up descriptors that share one DRM
client; a blank `HEROIC_APP_NAME` counts as a foreground launcher's yet gives
no attribution; a session of length nought at the start of a range is in no
range; the fold of overlapping rows of one application, which a merge can leave,
has a negative gap and keeps the newest row's end; and `cli/backup.rs:111-114` counts
on the rename to fail under an open database, which POSIX does not promise.

## 4. What the properties are for

`StatsMatchClosedRows` and `ImplementsLedger` are the promise to the user, one
about every state and one about every step. `TrackedRowsAreOpen` and
`OpenRowsAccountedFor` say that memory and table agree in both directions.
`HeartbeatLag` bounds what a crash can lose. `ToldWhatIsTracked` relates what
the channel was told to what the source believes, `TimerIffBackgrounded` the
timer to the state, `FollowsSteam` what was announced to what runs.
`SchedulerFollowsConfig` and `ReloadFollows` are the two halves of "no setting
is lost": never idle on an old one, and never holding a permit for ever.
`NewestSnapshotKept` is a step property over all pruners at once.

`BillsItsOwnIdleTime` compares the bill of every session that could have opened
at any tick with the ticks counted one by one, to the rounding of a second.
`OneSourceServes`, `NoResumeIsLost` and `SetupSettles` are what that bill rests on:
one writer, an interval that somebody is bound to close, and a decision on the
source. `OneTrackerPerGame` relates the verdict to who started the launch, over
every order of reads, exits and variables dropped; `VerdictIsTheHeuristic` the verdict made file by
file, with short cuts, to the rule in the header of `gate.rs`.
`NamedByTheStrongest` says that a row which was not merged away or cut off has
the name of the strongest source that had one, and the provenance of that
source, and that the name is the game's own if that source knows the game. `TrayShowsTheSession` says what the user sees once all is quiet,
`LossClearsTray` that a lost daemon does not stay green, and `ListsShowPlays`
defines a play by the chain of rows it is made of and asks that every list, limit
and range agree with it.

Each property is broken by at least one plausible bug, kept beside the definition
it changes and marked "plausible mistake".

## 5. The proofs

All theorems are for arbitrary constants, under the named assumptions of the
modules (`StoreAssumption`: NULL is no integer; `ManagerAssumption`: a positive
heartbeat interval, natural bounds, zero among the skews; `MergeAssumption`;
`SourceAssumption`: the daemon's own process is no game and every game has a
key; `TrackerBusAssumption` and `TaskAssumption`: some legal value exists,
clients are distinct from the scheduler and the command line; `SteamAssumption`: a
read limit that lets a whole line through;
`TrackerAssumption` and `SourcesAssumption`: a positive second, a window shorter
than the watchdog; `GateAssumption`: a launch of at least two processes, the
reaper above the window; `ForwarderAssumption`: a channel with room for something,
and finite tables of closed rows with distinct ids to begin with).

**`FiniteSums`.** The library's induction theorems take an operator, which no
backend instantiates, so `SubsetInduction` is proved from the least number
principle: a property that fails of some subset of a finite set fails of a
smallest one. From it follow that a sum adds an element at its value whatever order
the fold of the community modules chooses (`SumOfOneMore`), that disjoint parts add
up (`SumOfBoth`, `SumByParts`) and that a finite set has a greatest element.

**`SessionManagerProofs`.** `InvariantHolds` proves `InductiveInvariant`. The
tie between memory and table (`TrackedRowsAreOpen`) is not inductive alone: a
Started may only begin a row if no other row of its application is open, which
needs `OneOpenRowPerApplication` and that rows belong to known applications; a
boot must find an empty map, hence `TracksOnlyWhileUp`. The bound on what a
crash loses (`HeartbeatLag`) needs where the next beat is: `BeatAtHand` says it
is at most an interval away and, for every tracked row, at most the lag beyond
what the row already claims, and `RuntimeWithinElapsed` that no row claims more
than has passed. `TypesHold`, `TrackingHolds`, `OneOpenRowHolds` and
`HeartbeatLagHolds` follow. There is a lemma per transaction (what a close, a
heartbeat, a delete does to rows), one per action, and one that joins them.

`AccountHolds` is the converse: every open row is tracked or in the hands of a
recovery while no statement has failed. `Attended` adds to the invariant that a
running or stopping manager tracks all open rows and that its task leaves none
behind; a step that fails is counted, which takes it out of the claim.

`ManagerImplementsLedger`: under the invariant every
step of the manager is a step of the ledger or leaves it alone. A close needs
the tracked row's application to be the entry's, and its new runtime to be no
less than the old, both from the invariant; a delete needs only that the
rebuild sums the closed rows of the table it leaves. `StatsHold` and
`LastPlayedHolds` are about sums and maxima over a finite set of rows: what a
close, a delete and a rebuild do to an application's total, by `FiniteSums`.

The last part is about merging. `MergeKeepsOneOpenRow` holds with a daemon beside the merge,
one that starts under it, and a bus that does not answer. The manager's ties to
the table are broken then, so the invariant does without them: entries name
distinct rows (`EntriesApart`), rows have applications, one of them open for each.
`MergeKeepsStats` says that the totals match the closed rows across a merge; it
assumes that the bus always answers and that no daemon starts under the merge,
since the totals survive neither (see the behaviours excepted in section 3).

**`ForegroundSourceProofs`.** `EventsFit` says that the events left to send are
exactly what takes the channel from what it was told to the next state, and
`OperationFits` the same of the timer. Between events the three properties do not
hold of the state alone; with these two they follow at every stop of the loop
(`TypesHold`, `ToldHolds`, `TimerHolds`), for queues of any length.

**`SteamSourceProofs`.** What the source will come to believe is decided by what
it has not read: `WillFollow` says of every game that the last unread line about
it says what Steam logged last, or else that the source is up to date. It needs
to know that a chunk is a part of the log that ends where a line does
(`ChunkEndsALine`), that the halves of a line are neighbours (`Paired`) and that
the cursor stays inside the log (`CursorInLog`). `FollowsSteamHolds` is the case
where nothing is left to read, for logs of any length and any read limit, with any
number of lines about something else. It assumes (`SteamAssumption`) that these are
told from games, and that a pass can hold a line.

**`TrackerBusProofs`.** `InvariantHolds` proves `IInv`: types, what stage an
operation may be at (`Sound`), and two strengthenings. `Follows` extends
`SchedulerFollowsConfig` to a scheduler that is busy with a snapshot, since it
returns to its select from there; its heart is that a setter writes memory
before it leaves the permit. `HasNewer` says that beside every file on
anybody's list of files to delete there is a newer one in the directory. It
survives other pruners because the newest file of all is on nobody's list.
`NewestIsKept` follows from it: whoever deletes, a newer file stays.
`MirrorsHold` has its own invariant: the homes differ only in what the one call
between its writes is about to write, and that is in the table (`HomesOK`,
`CallersOK`).

**`IdleSourcesProofs`.** `HandshakeOK` says how far the one report can be: sent
once, on a channel that is closed exactly when the task has left its select.
`EventsOK` keeps at most one absence and its return on the wire, and `IntervalOK`
makes an open interval the worker's to seal until logind takes over.
`OneSourceHolds` needs the first, `ResumesHold` all three. `BillsHold` bounds what a
session is billed, for any second, grace and number of absences. `BillingOK` ties
the durations the tracker keeps to the stretches they stand for, which never
overlap, and a session's baseline to the stretches that ended before it and to
the part of the next that had passed. `WholeStretch` and `StretchAtStart` are the
arithmetic of rounding one stretch, `BoundsAddUp` adds the bounds up over disjoint
sets, and only the stretch a session began in can be billed too high.

**`IdentifyProofs`.** `LaunchOK`: every process has what its launcher left it or
nothing, and while all live each has its parents up to the outermost. `WalkOK` is
what makes the walk right: whoever in the window's lineage (`Lineage`) still has the
variables is at or above the ancestor the walk comes to next (`From`), since
the ones it passed were bare when it read them, and nobody gets variables back
(`StripTraces`). So a walk that ends without an answer has seen a lineage that is
bare, and one that stops has the launcher's environ. `ReadsOK` collects what each
phase has established, `DecidedOK` what that makes of a verdict. `OneTrackerHolds` is
for launches of any length, any number of bare processes and any launch that is
`Traceable`. `HeuristicHolds` needs what each read has settled (`ReadsAgree`), that
parents lie up the chain (`UpTheChain`, `Intact`), and
that the recursive `Above` is defined at all, which is shown by induction down the
chain (`ClimbInduction`). `StrongestNames` says that the title a game ends up with
is that of the strongest source that had one. It assumes `SourcesNameTheirOwn`: that
a lookup gives one of the game's own names where the files have one, and
otherwise nothing, unless it goes by directory, when it may give anything. That is
a fact about lookups in sequences of file entries, which TLC evaluates for the files
of the instance as an ASSUME of `MCIdentify`; the theorem is about the order in which
tasks, merges and crashes apply what was found.

**`SignalForwarderProofs`.** `TrayHolds` follows the news from the manager to
the icon. `NewsOK` says, while nothing the code overlooks has happened: in
the channel the last notification tells how things are; once it is empty, so does
the one with the latest place in time among both streams; once those are empty,
so does the tray's last update, and in the end its icon. For that the
notifications must be in order wherever they are (`OrderOK`: an end that is still
to come has its place after everything under way), the streams must be bound to the
name's owner unless the forwarder is about to be told of a change (`TunedOK`), and
a reconciliation must still be ahead of whoever starts to listen to a daemon that
was there before (`ReconnectOK`, and in `ShownOK` the clause about a daemon that
is booting). `SettledStep` shows that a reconciliation while nothing is under
way restores all of it from any state.

`ListsHold` is about what clients are shown of the table, for any rows. Its
invariant is short: there are finitely many rows and no two have one id
(`RowsTable`), since a start takes a new id and a close or a recovery keeps the
row's. The rest is about the operators. `NewestFirst` chooses by rank, the number
of newer rows; ranks of different rows differ and lie below the number of rows, so
that each is taken once and the list has every row once (`EveryRankIsTaken`). The
fold over a sequence is a recursive function on the sets of its places;
`FoldIsFolding` shows it defined, place by place, and `FoldShowsRuns` that after each
place the spans are the runs into which the rows so far are cut, linked inside and
not to one another. From the cut follow `FoldShowsPlays`: the fragments of the runs,
one after the other, are the list (`FlattenedIds`); rows are one play exactly when
they lie in one run (`OnePlayIsOneRun`); and a span has the sum of its rows
(`SpanSumsItsRun`). The days add up by parts (`DaysAddUp`), and a row lies in the
range of the day of its start (`ListedOnItsDay`), for days of any length.

Two theorems say how far the tray's question for the newest row may be trusted.
`NoGameIsInvented`: it is never answered with a game when none is open.
`OneGameIsSeen`: where a single application is played, the answer is also never
"none" while it is open, which is what `tray.rs:440-447` claims without that
condition. It assumes that the rows to begin with start no later than they end; its
invariant, `StartedInTime`, is that a live daemon's open row is later than every
other. `reconcile` shows two games to be enough for the claim to fail.

**Only model-checked.** Liveness under fairness (`CrashIsRecovered`,
`ShutdownCompletes`, `WatchedExitStops`, `BackgroundIsTransient`,
`UnreadIsRead`, `ReloadFollows`, `ShutdownEnds`, `SetupSettles`,
`LossClearsTray`), which TLAPS cannot do, for ENABLED is out of its reach.
And the lookups of `SourcesNameTheirOwn`.

## 6. What is not modelled

* Formats, parsers, SQL text, logging, icons and the texts shown; the detection of
  directories and the decoding of files in `enrich/`.
* The installation of KWin's script, the plumbing of D-Bus, and those of its
  read-only methods that are not lists of sessions.
* `backup restore`: it works on the main file, the WAL and the shm file, below
  SQLite's transactions, which the tables of these modules do not have. Its
  check for a daemon is that of merge. A crash between the removal of the WAL
  and the rename leaves the old file without what was in it; no property
  covers that.
* Names put into the backup directory by hand.
* Opening the database and the migrations: the constraints they set up are guards
  and types of `SessionStore`; rows of an older schema are left out.
* The signal for a new application, which goes the way of the other two, and the
  commands of the desktop application, which are D-Bus calls one to one.
* The frontend, the D-Bus types and the packages: no state of their own.
* `SessionRepo::end`, `apply_playback` and `ApplicationRepo::delete` are exported
  but nothing in the product calls them.

## 7. Plan

Open, in this order:

1. `Restore` with a model of the three files of a database, beside a daemon that
   starts in between and a crash at each step; with it the final snapshot, which is
   taken while the manager may still be closing sessions.
2. The migration that closes duplicate open rows before it makes the index
   unique.
3. The idle tracker under the session manager in the place of `IdleBilled`, with
   the bound of `BillsItsOwnIdleTime` carried over to the interactive time of a row.
