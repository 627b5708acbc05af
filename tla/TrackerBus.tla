----------------------------- MODULE TrackerBus ------------------------------
(***************************************************************************)
(* What a client of the D-Bus service may change in the daemon, the backup *)
(* scheduler, and the command line's backup commands: ludex-daemon         *)
(* dbus.rs, backup.rs and config.rs, ludex-core settings.rs, blocked.rs    *)
(* and backup.rs.                                                          *)
(*                                                                         *)
(* A setting has two homes, its row and the daemon's memory; so has the    *)
(* blocklist.  Every method call is a task of its own, so two calls may    *)
(* take turns at each await.  "alt_tab_grace" stands for the four settings *)
(* whose setters do no more than write both homes.                         *)
(***************************************************************************)
EXTENDS Backups

CONSTANTS Clients,    \* concurrent method calls, a slot each
          GameKey,    \* applications a client may block
          Setting,    \* settings a client may change
          Values,     \* values a client may set
          Unreadable, \* what a start may fail to read, a set of such sets
          MaxTime,    \* bound: the wall clock, in seconds
          MaxCalls    \* bound: calls of the clients and commands of the user

ASSUME TrackerBusAssumption ==
  /\ {"backup_retention"} \subseteq Setting
  /\ Setting \subseteq {"alt_tab_grace", "backup_interval", "backup_retention"}
  /\ Values \subseteq Nat /\ \E v \in Values : v > 0
  /\ Unreadable \subseteq SUBSET (Setting \cup {"blocklist"})
  /\ MaxTime \in Nat \ {0} /\ MaxCalls \in Nat

scheduler == "scheduler"
cli == "cli"

ASSUME TaskAssumption == {scheduler, cli} \cap Clients = {}

Task == Clients \cup {scheduler, cli}

VARIABLES daemon,    \* "up", "stopping" (the shutdown watch has flipped) or "down"
          stored,    \* the settings table
          config,    \* the daemon's SharedConfig
          rows,      \* the blocked_applications table
          blocklist, \* the daemon's SharedBlocklist
          misread,   \* history: what the last start could not read
          permit,    \* the permit that backup_changed holds
          current,   \* the scheduler's copy of the backup settings
          task,      \* what each task is doing
          dir,       \* the backup directory
          now,       \* the wall clock
          calls      \* calls and commands so far

tables == <<stored, rows>>
memory == <<config, blocklist, misread>>
vars == <<daemon, tables, memory, permit, current, task, dir, now, calls>>

BackupSetting == Setting \ {"alt_tab_grace"}

Default(s) == CHOOSE v \in Values : v > 0

AtLeastOne(v) == IF v = 0 THEN 1 ELSE v

(* Plausible mistake: the value is stored as the client gave it. *)
Unclamped(s, v) == v

(* What a setter stores of the value it is given: an interval has a floor  *)
(* of one hour, and one snapshot is always retained.                       *)
Clamped(s, v) == IF s \in BackupSetting THEN AtLeastOne(v) ELSE v

(* The scheduler applies the same floors to what it finds in memory. *)
ReadClamped == [s \in BackupSetting |-> AtLeastOne(config[s])]

(* What a task is at, for which operation and with what argument, the file *)
(* it writes and the files it is about to delete.                          *)
Op == Setting \cup {"none", "block", "unblock", "snapshot", "final", "prune"}

Stage == {"idle", "select", "reload", "store", "mirror", "notify",
          "retention", "name", "vacuum", "prune", "remove"}

TaskState == [at : Stage, op : Op, arg : Nat \cup GameKey,
              file : 0..MaxTime, doomed : SUBSET (1..MaxTime)]

Doing(at, op, arg) == [at |-> at, op |-> op, arg |-> arg, file |-> 0, doomed |-> {}]

Idle == Doing("idle", "none", 0)

Copying(x, name) == [Doing("vacuum", x.op, x.arg) EXCEPT !.file = name]

Deleting(x, names) == [Doing("remove", x.op, x.arg) EXCEPT !.doomed = names]

At(t, stage) == task[t].at = stage

Goto(t, stage) == task' = [task EXCEPT ![t] = Doing(stage, @.op, @.arg)]

(* Plausible mistake: no break after the final snapshot. *)
FinishLoops(t) ==
  task' = [task EXCEPT ![t] = IF t = scheduler THEN Doing("select", "none", 0) ELSE Idle]

(* A call or a command is over; the scheduler goes back to its select, or, *)
(* when that was the final snapshot, ends.                                 *)
Finish(t) ==
  task' = [task EXCEPT ![t] =
             IF t = scheduler /\ @.op # "final" THEN Doing("select", "none", 0)
             ELSE Idle]

Init ==
  /\ daemon = "down"
  /\ stored = [s \in Setting |-> Default(s)] /\ rows = {}
  /\ config = stored /\ blocklist = {} /\ misread = {}
  /\ permit = FALSE /\ current = [s \in BackupSetting |-> Default(s)]
  /\ task = [t \in Task |-> Idle]
  /\ dir = << >> /\ now = 1 /\ calls = 0

-----------------------------------------------------------------------------
(* The daemon's life. *)

(* Every setting that cannot be read is taken at its default, and a        *)
(* blocklist that cannot be read as empty.                                 *)
Boot ==
  /\ daemon = "down"
  /\ daemon' = "up"
  /\ \E bad \in Unreadable :
       /\ misread' = bad
       /\ config' = [s \in Setting |-> IF s \in bad THEN Default(s) ELSE stored[s]]
       /\ blocklist' = IF "blocklist" \in bad THEN {} ELSE rows
  /\ Goto(scheduler, "reload")
  /\ UNCHANGED <<tables, permit, current, dir, now, calls>>

Shutdown ==
  /\ daemon = "up"
  /\ daemon' = "stopping"
  /\ UNCHANGED <<tables, memory, permit, current, task, dir, now, calls>>

(* The process ends; the command line is a process of its own. *)
Die ==
  /\ daemon' = "down"
  /\ config' = [s \in Setting |-> Default(s)] /\ blocklist' = {} /\ misread' = {}
  /\ permit' = FALSE /\ current' = [s \in BackupSetting |-> Default(s)]
  /\ task' = [t \in Task |-> IF t = cli THEN task[cli] ELSE Idle]
  /\ UNCHANGED <<tables, dir, now, calls>>

(* It ends once the final snapshot is through; whatever a call is at then, *)
(* it does no more.  A crash may come at any step.                         *)
Exit == daemon = "stopping" /\ At(scheduler, "idle") /\ Die

Crash == daemon # "down" /\ Die

-----------------------------------------------------------------------------
(* A method call: DB row first, then memory, and for a backup setting the  *)
(* scheduler is notified after that.                                       *)

Begin(t, op, arg, stage) ==
  /\ At(t, "idle") /\ calls < MaxCalls
  /\ calls' = calls + 1
  /\ task' = [task EXCEPT ![t] = Doing(stage, op, arg)]
  /\ UNCHANGED <<daemon, tables, memory, permit, current, dir, now>>

Call(c) ==
  /\ daemon # "down"
  /\ \/ \E s \in Setting, v \in Values : Begin(c, s, Clamped(s, v), "store")
     \/ \E op \in {"block", "unblock"}, k \in GameKey : Begin(c, op, k, "store")
     \/ Begin(c, "snapshot", 0, "retention")

(* Plausible mistake: the failed write is logged and the call goes on. *)
CallGoesOn(c) ==
  /\ At(c, "store")
  /\ Goto(c, "mirror")
  /\ UNCHANGED <<daemon, tables, memory, permit, current, dir, now, calls>>

(* A statement that fails is the call's error: memory is left as it is. *)
CallFails(c) ==
  /\ At(c, "store")
  /\ Finish(c)
  /\ UNCHANGED <<daemon, tables, memory, permit, current, dir, now, calls>>

Store(c) ==
  /\ At(c, "store")
  /\ LET x == task[c] IN
       CASE x.op = "block"   -> rows' = rows \cup {x.arg} /\ UNCHANGED stored
         [] x.op = "unblock" -> rows' = rows \ {x.arg} /\ UNCHANGED stored
         [] OTHER            -> stored' = [stored EXCEPT ![x.op] = x.arg] /\ UNCHANGED rows
  /\ Goto(c, "mirror")
  /\ UNCHANGED <<daemon, memory, permit, current, dir, now, calls>>

Mirror(c) ==
  /\ At(c, "mirror")
  /\ LET x == task[c] IN
       CASE x.op = "block" ->
              blocklist' = blocklist \cup {x.arg} /\ UNCHANGED <<config, misread>>
         [] x.op = "unblock" ->
              blocklist' = blocklist \ {x.arg} /\ UNCHANGED <<config, misread>>
         [] OTHER ->
              /\ config' = [config EXCEPT ![x.op] = x.arg]
              /\ misread' = misread \ {x.op}
              /\ UNCHANGED blocklist
  /\ IF task[c].op \in BackupSetting THEN Goto(c, "notify") ELSE Finish(c)
  /\ UNCHANGED <<daemon, tables, permit, current, dir, now, calls>>

(* Plausible mistake: notify_waiters, which nobody hears who does not wait. *)
NotifyWaiters(c) ==
  /\ At(c, "notify")
  /\ permit' = (permit \/ At(scheduler, "select"))
  /\ IF task[c].op = "backup_retention" THEN Goto(c, "prune") ELSE Finish(c)
  /\ UNCHANGED <<daemon, tables, memory, current, dir, now, calls>>

(* Notify holds one permit, and keeps it until the scheduler asks. *)
NotifyOne(c) ==
  /\ At(c, "notify")
  /\ permit' = TRUE
  /\ IF task[c].op = "backup_retention" THEN Goto(c, "prune") ELSE Finish(c)
  /\ UNCHANGED <<daemon, tables, memory, current, dir, now, calls>>

-----------------------------------------------------------------------------
(* The scheduler.  Its select is biased: the shutdown, then a permit, then *)
(* the timer, which may have elapsed at any time.                          *)

TakePermit ==
  /\ At(scheduler, "select") /\ daemon = "up" /\ permit
  /\ permit' = FALSE
  /\ Goto(scheduler, "reload")
  /\ UNCHANGED <<daemon, tables, memory, current, dir, now, calls>>

Reload ==
  /\ At(scheduler, "reload")
  /\ current' = ReadClamped
  /\ Goto(scheduler, "select")
  /\ UNCHANGED <<daemon, tables, memory, permit, dir, now, calls>>

RunOnce(op) ==
  /\ task' = [task EXCEPT ![scheduler] = Doing("name", op, current["backup_retention"])]
  /\ UNCHANGED <<daemon, tables, memory, permit, current, dir, now, calls>>

Tick == At(scheduler, "select") /\ daemon = "up" /\ ~ permit /\ RunOnce("snapshot")

FinalSnapshot == At(scheduler, "select") /\ daemon = "stopping" /\ RunOnce("final")

-----------------------------------------------------------------------------
(* Snapshots and pruning, whoever asked for them. *)

(* The retention count of a snapshot somebody asked for is the stored one. *)
ReadRetention(t) ==
  /\ At(t, "retention")
  /\ task' = [task EXCEPT ![t] = Doing(IF @.op = "prune" THEN "prune" ELSE "name",
                                      @.op, stored["backup_retention"])]
  /\ UNCHANGED <<daemon, tables, memory, permit, current, dir, now, calls>>

(* A count that cannot be read ends a snapshot; a prune takes the default. *)
RetentionUnread(t) ==
  /\ At(t, "retention")
  /\ IF task[t].op = "prune"
     THEN task' = [task EXCEPT ![t] = Doing("prune", @.op, Default("backup_retention"))]
     ELSE Finish(t)
  /\ UNCHANGED <<daemon, tables, memory, permit, current, dir, now, calls>>

(* create_snapshot: two snapshots of one second cannot both be. *)
OpenCopy(t) ==
  /\ At(t, "name")
  /\ IF now \in DOMAIN dir
     THEN Finish(t) /\ UNCHANGED dir
     ELSE /\ dir' = Opened(dir, now)
          /\ task' = [task EXCEPT ![t] = Copying(@, now)]
  /\ UNCHANGED <<daemon, tables, memory, permit, current, now, calls>>

CopyDone(t) ==
  /\ At(t, "vacuum")
  /\ dir' = Filled(dir, task[t].file)
  /\ Goto(t, "prune")
  /\ UNCHANGED <<daemon, tables, memory, permit, current, now, calls>>

(* Plausible mistake: a failed snapshot ends the scheduler. *)
CopyFailureEnds(t) ==
  /\ At(t, "vacuum")
  /\ task' = [task EXCEPT ![t] = Idle]
  /\ UNCHANGED <<daemon, tables, memory, permit, current, dir, now, calls>>

(* A full disk or an I/O error: SQLite leaves what it has written. *)
CopyFails(t) ==
  /\ At(t, "vacuum")
  /\ Finish(t)
  /\ UNCHANGED <<daemon, tables, memory, permit, current, dir, now, calls>>

(* prune_backups lists the directory once, and deletes after that. *)
ListDoomed(t) ==
  /\ At(t, "prune")
  /\ LET doomed == Doomed(dir, task[t].arg) IN
       IF doomed = {} THEN Finish(t)
       ELSE task' = [task EXCEPT ![t] = Deleting(@, doomed)]
  /\ UNCHANGED <<daemon, tables, memory, permit, current, dir, now, calls>>

(* Newest first, and a file somebody else has deleted is passed over. *)
RemoveNext(t) ==
  /\ At(t, "remove")
  /\ \E n \in task[t].doomed :
       /\ \A m \in task[t].doomed : m <= n
       /\ dir' = Without(dir, n)
       /\ IF task[t].doomed = {n} THEN Finish(t)
          ELSE task' = [task EXCEPT ![t] = Deleting(@, @.doomed \ {n})]
  /\ UNCHANGED <<daemon, tables, memory, permit, current, now, calls>>

RemoveFails(t) ==
  /\ At(t, "remove")
  /\ Finish(t)
  /\ UNCHANGED <<daemon, tables, memory, permit, current, dir, now, calls>>

(* ludex backup now and ludex backup prune [--keep N]. *)
Command ==
  \/ Begin(cli, "snapshot", 0, "retention")
  \/ Begin(cli, "prune", 0, "retention")
  \/ \E keep \in Values : Begin(cli, "prune", keep, "prune")

(* The wall clock, which may be set back. *)
StepWallClock ==
  /\ \E t \in 1..MaxTime : t # now /\ now' = t
  /\ UNCHANGED <<daemon, tables, memory, permit, current, task, dir, calls>>

-----------------------------------------------------------------------------
CopyStep(t) ==
  \/ ReadRetention(t) \/ RetentionUnread(t)
  \/ OpenCopy(t) \/ CopyDone(t) \/ CopyFails(t)
  \/ ListDoomed(t) \/ RemoveNext(t) \/ RemoveFails(t)

CallStep(c) == Store(c) \/ CallFails(c) \/ Mirror(c) \/ NotifyOne(c) \/ CopyStep(c)

SchedulerStep ==
  TakePermit \/ Reload \/ Tick \/ FinalSnapshot \/ CopyStep(scheduler)

Next ==
  \/ Boot \/ Shutdown \/ Exit \/ Crash
  \/ \E c \in Clients : Call(c) \/ CallStep(c)
  \/ SchedulerStep
  \/ Command \/ CopyStep(cli)
  \/ StepWallClock

(* Fairness: the runtime runs every task that is ready, an SQL statement   *)
(* returns, and a shutdown that is through ends the process.  Nobody has   *)
(* to call, and a daemon need not crash, stop or come back.                *)
Fairness ==
  /\ \A c \in Clients : WF_vars(CallStep(c))
  /\ WF_vars(SchedulerStep) /\ WF_vars(Exit)

Spec == Init /\ [][Next]_vars /\ Fairness

-----------------------------------------------------------------------------
(* Properties. *)

TypeOK ==
  /\ daemon \in {"up", "stopping", "down"}
  /\ stored \in [Setting -> Nat] /\ config \in [Setting -> Nat]
  /\ \A s \in BackupSetting : stored[s] > 0 /\ current[s] > 0
  /\ rows \subseteq GameKey /\ blocklist \subseteq GameKey
  /\ misread \subseteq Setting \cup {"blocklist"}
  /\ permit \in BOOLEAN /\ current \in [BackupSetting -> Nat]
  /\ task \in [Task -> TaskState]
  /\ DOMAIN dir \subseteq 1..MaxTime /\ \A n \in DOMAIN dir : dir[n] \in Copy
  /\ now \in 1..MaxTime /\ calls \in 0..MaxCalls

Between == {c \in Clients : At(c, "mirror")}

(* Failed statements, crashes and restarts leave what the daemon obeys and *)
(* what the next start will load the same, as long as calls are made one   *)
(* at a time and the start could read it.                                  *)
MirrorsAgree ==
  (daemon # "down" /\ Between = {}) =>
     /\ \A s \in Setting \ misread : config[s] = stored[s]
     /\ "blocklist" \notin misread => blocklist = rows

(* No change is lost on the scheduler: one that waits, without a permit and *)
(* with no setter about to give it one, goes by what is in memory, whatever *)
(* it was doing when the settings changed.                                  *)
SchedulerFollowsConfig ==
  (daemon = "up" /\ At(scheduler, "select") /\ ~ permit
     /\ \A c \in Clients : ~ At(c, "notify")) => current = ReadClamped

(* Whoever prunes, to whatever count, and however many at once: a file is  *)
(* only ever deleted while a newer one stays.                              *)
NewestSnapshotKept ==
  [][\A n \in DOMAIN dir \ DOMAIN dir' : \E m \in DOMAIN dir' : m > n]_vars

(* A setting saved during a snapshot, a prune or a reload is taken up. *)
ReloadFollows == permit ~> (~ permit \/ daemon # "up")

(* A shutdown waits for the final snapshot and no longer: whatever it is   *)
(* at, the daemon comes down.                                              *)
ShutdownEnds == (daemon = "stopping") ~> (daemon = "down")

(* "Any failure (no disk space, ...) logs a warning [...]  The backup set   *)
(* stays consistent either way -- the failed snapshot simply isn't there"  *)
(* (daemon backup.rs:18): a task of a living daemon that is done with its  *)
(* file leaves a complete copy or none.                                    *)
FailedSnapshotIsNotThere ==
  [][\A t \in Task :
       LET n == task[t].file IN
       (task'[t].file # n /\ n \in DOMAIN dir' /\ daemon' # "down")
         => dir'[n] = "complete"]_vars
=============================================================================
