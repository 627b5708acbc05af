-------------------------- MODULE TrackerBusProofs ---------------------------
(***************************************************************************)
(* What holds of the D-Bus service, the scheduler and the backup directory *)
(* for any number of concurrent calls, any settings and any clock.         *)
(***************************************************************************)
EXTENDS TrackerBus, FiniteSetTheorems, TLAPS

USE TrackerBusAssumption, TaskAssumption

-----------------------------------------------------------------------------
(* The inductive invariant: types; what a task may be at for its operation; *)
(* a newer file beside every doomed one, whoever is pruning meanwhile; and  *)
(* a scheduler that follows its settings while it is busy as well.          *)

Pruning == Setting \cup {"snapshot", "final", "prune"}

Sound(x) ==
  /\ x.at \in {"store", "mirror"} => x.op \in Setting \cup {"block", "unblock"}
  /\ x.at = "notify" => x.op \in BackupSetting
  /\ x.at \in {"retention", "name", "vacuum", "prune", "remove"} => x.op \in Pruning
  /\ x.op \in Pruning => x.arg \in Nat
  /\ x.op \in BackupSetting => x.arg # 0
  /\ x.op \in {"block", "unblock"} => x.arg \in GameKey

Loop == {"select", "name", "vacuum", "prune", "remove"}

SchedulerOK == task[scheduler].at \in Loop \cup {"idle", "reload"}

HasNewer(x, d) ==
  x.at = "remove" => \A n \in x.doomed : \E m \in DOMAIN d : m > n

Follows ==
  (daemon = "up" /\ task[scheduler].at \in Loop /\ ~ permit
     /\ \A c \in Clients : ~ At(c, "notify")) => current = ReadClamped

IInv ==
  /\ TypeOK /\ SchedulerOK /\ Follows
  /\ \A t \in Task : Sound(task[t]) /\ HasNewer(task[t], dir)

-----------------------------------------------------------------------------
(* Lemmas. *)

LEMMA DoingIsTyped ==
  ASSUME NEW at \in Stage, NEW op \in Op, NEW arg \in Nat \cup GameKey
  PROVE  /\ Doing(at, op, arg) \in TaskState
         /\ Doing(at, op, arg).at = at
         /\ Doing(at, op, arg).op = op
         /\ Doing(at, op, arg).arg = arg
  BY DEF Doing, TaskState

LEMMA IdleIsSound ==
  /\ Idle \in TaskState /\ Idle.at = "idle" /\ Idle.op = "none"
  /\ Sound(Idle)
  /\ Doing("select", "none", 0) \in TaskState
  /\ Doing("select", "none", 0).at = "select"
  /\ Sound(Doing("select", "none", 0))
  <1>1. "idle" \in Stage /\ "select" \in Stage /\ "none" \in Op /\ 0 \in Nat \cup GameKey
    BY DEF Stage, Op
  <1>2. "none" \notin Pruning /\ "none" \notin BackupSetting
    BY DEF Pruning, BackupSetting
  <1> QED
    BY <1>1, <1>2, DoingIsTyped DEF Idle, Sound

LEMMA DefaultIsPositive ==
  \A s : Default(s) \in Nat /\ Default(s) > 0
  BY DEF Default

(* prune_backups never lists a file that is the newest: however small the  *)
(* count it is given, a listed file has a newer one beside it.             *)
LEMMA DoomedHaveNewer ==
  ASSUME NEW d, NEW keep \in Nat, NEW n \in Doomed(d, keep)
  PROVE  n \in DOMAIN d /\ \E m \in DOMAIN d : m > n
  <1> DEFINE newer == {m \in DOMAIN d : m > n}
  <1>1. n \in DOMAIN d /\ Cardinality(newer) >= (IF keep = 0 THEN 1 ELSE keep)
    BY DEF Doomed
  <1>2. Cardinality({}) = 0
    BY FS_EmptySet
  <1>3. newer # {}
    <2>1. SUFFICES ASSUME newer = {} PROVE FALSE
      OBVIOUS
    <2>2. 0 >= (IF keep = 0 THEN 1 ELSE keep)
      BY <1>1, <1>2, <2>1
    <2> QED
      BY <2>2
  <1> QED
    BY <1>1, <1>3

(* The state of one task moves and the directory only grows, or stays.     *)
LEMMA TaskMoves ==
  ASSUME IInv, NEW t \in Task, NEW x \in TaskState, Sound(x),
         task' = [task EXCEPT ![t] = x],
         DOMAIN dir \subseteq DOMAIN dir',
         HasNewer(x, dir)
  PROVE  /\ task' \in [Task -> TaskState]
         /\ task'[t] = x
         /\ \A u \in Task \ {t} : task'[u] = task[u]
         /\ \A u \in Task : Sound(task'[u]) /\ HasNewer(task'[u], dir')
  <1>1. task \in [Task -> TaskState]
    BY DEF IInv, TypeOK
  <1>2. task' \in [Task -> TaskState] /\ task'[t] = x
        /\ \A u \in Task \ {t} : task'[u] = task[u]
    BY <1>1
  <1>3. ASSUME NEW u \in Task PROVE Sound(task'[u]) /\ HasNewer(task'[u], dir')
    <2>1. CASE u = t
      BY <2>1, <1>2 DEF HasNewer
    <2>2. CASE u # t
      BY <2>2, <1>2 DEF HasNewer, IInv
    <2> QED
      BY <2>1, <2>2
  <1> QED
    BY <1>2, <1>3

(* A step of one task that leaves settings, tables and the permit alone    *)
(* and deletes nothing keeps the invariant.                                *)
LEMMA QuietStep ==
  ASSUME IInv, NEW t \in Task, NEW x \in TaskState, Sound(x), HasNewer(x, dir),
         task' = [task EXCEPT ![t] = x],
         UNCHANGED <<daemon, tables, memory, permit, current>>,
         DOMAIN dir \subseteq DOMAIN dir', DOMAIN dir' \subseteq 1..MaxTime,
         \A n \in DOMAIN dir' : dir'[n] \in Copy,
         now' = now, calls' \in 0..MaxCalls,
         t = scheduler => task[t].at \in Loop /\ x.at \in Loop \cup {"idle"},
         task[t].at # "notify"
  PROVE  IInv'
  <1>1. /\ task' \in [Task -> TaskState] /\ task'[t] = x
        /\ \A u \in Task \ {t} : task'[u] = task[u]
        /\ \A u \in Task : Sound(task'[u]) /\ HasNewer(task'[u], dir')
    BY TaskMoves
  <1>2. scheduler \in Task /\ Clients \subseteq Task
    BY DEF Task
  <1>3. TypeOK'
    BY <1>1 DEF IInv, TypeOK, tables, memory
  <1>4. SchedulerOK'
    BY <1>1, <1>2 DEF IInv, SchedulerOK
  <1>5. Follows'
    <2>1. SUFFICES ASSUME daemon = "up", task'[scheduler].at \in Loop, ~ permit,
                          \A c \in Clients : task'[c].at # "notify"
                   PROVE  current = ReadClamped
      BY DEF Follows, At, ReadClamped, memory
    <2>2. task[scheduler].at \in Loop
      BY <1>1, <1>2, <2>1
    <2>3. \A c \in Clients : task[c].at # "notify"
      BY <1>1, <1>2, <2>1
    <2> QED
      BY <2>1, <2>2, <2>3 DEF IInv, Follows, At
  <1> QED
    BY <1>1, <1>3, <1>4, <1>5 DEF IInv

(* A task that ends a call, or a scheduler that ends a snapshot. *)
LEMMA FinishIsSound ==
  ASSUME IInv, NEW t \in Task, Finish(t)
  PROVE  \E x \in TaskState :
           /\ Sound(x) /\ HasNewer(x, dir) /\ x.at \in {"idle", "select"}
           /\ x.at = "select" => t = scheduler
           /\ task' = [task EXCEPT ![t] = x]
  <1> DEFINE x == IF t = scheduler /\ task[t].op # "final"
                  THEN Doing("select", "none", 0) ELSE Idle
  <1>1. task' = [task EXCEPT ![t] = x]
    BY DEF Finish
  <1>2. x \in TaskState /\ Sound(x) /\ x.at \in {"idle", "select"}
        /\ (x.at = "select" => t = scheduler)
    BY IdleIsSound
  <1>3. HasNewer(x, dir)
    BY <1>2 DEF HasNewer
  <1> QED
    BY <1>1, <1>2, <1>3

LEMMA GotoIsSound ==
  ASSUME IInv, NEW t \in Task, NEW stage \in Stage \ {"remove"},
         Sound(Doing(stage, task[t].op, task[t].arg)), Goto(t, stage)
  PROVE  \E x \in TaskState :
           /\ Sound(x) /\ HasNewer(x, dir) /\ x.at = stage
           /\ task' = [task EXCEPT ![t] = x]
  <1> DEFINE x == Doing(stage, task[t].op, task[t].arg)
  <1>1. task' = [task EXCEPT ![t] = x]
    BY DEF Goto
  <1>2. stage \in Stage /\ task[t].op \in Op /\ task[t].arg \in Nat \cup GameKey
    BY DEF IInv, TypeOK, TaskState
  <1>3. x \in TaskState /\ x.at = stage
    BY <1>2, DoingIsTyped
  <1>4. HasNewer(x, dir)
    BY <1>3 DEF HasNewer
  <1> QED
    BY <1>1, <1>3, <1>4

-----------------------------------------------------------------------------
(* Snapshots and pruning, by any task. *)

CopyTask(t) ==
  task[t].at \in {"retention", "name", "vacuum", "prune", "remove"}

LEMMA CopyTaskMayStep ==
  ASSUME IInv, NEW t \in Task, CopyTask(t)
  PROVE  /\ task[t] \in TaskState
         /\ task[t].op \in Pruning /\ task[t].op \in Op
         /\ task[t].arg \in Nat /\ (task[t].op \in BackupSetting => task[t].arg # 0)
         /\ task[t].op \notin {"block", "unblock"}
         /\ t = scheduler => task[t].at \in Loop
         /\ task[t].at # "notify"
  <1>1. Sound(task[t]) /\ task[t] \in TaskState
    BY DEF IInv, TypeOK
  <1>2. task[t].op \in Pruning /\ task[t].op \in Op /\ task[t].arg \in Nat
        /\ (task[t].op \in BackupSetting => task[t].arg # 0)
    BY <1>1 DEF Sound, CopyTask, TaskState
  <1>3. Setting \cap {"block", "unblock"} = {}
    OBVIOUS
  <1>4. t = scheduler => task[t].at \in Loop
    BY DEF IInv, SchedulerOK, CopyTask, Loop
  <1> QED
    BY <1>1, <1>2, <1>3, <1>4 DEF Pruning, CopyTask

LEMMA CopyMayBe ==
  ASSUME NEW at \in {"name", "vacuum", "prune", "remove"}, NEW op \in Pruning \cap Op,
         NEW arg \in Nat, op \in BackupSetting => arg # 0
  PROVE  /\ Doing(at, op, arg) \in TaskState
         /\ Sound(Doing(at, op, arg))
         /\ Doing(at, op, arg).at = at
  <1>1. at \in Stage /\ op \in Op /\ arg \in Nat \cup GameKey
    BY DEF Stage
  <1>2. /\ Doing(at, op, arg) \in TaskState
        /\ Doing(at, op, arg).at = at /\ Doing(at, op, arg).op = op
        /\ Doing(at, op, arg).arg = arg
    BY <1>1, DoingIsTyped
  <1>3. op \notin {"block", "unblock"}
    BY DEF Pruning
  <1> QED
    BY <1>2, <1>3 DEF Sound

LEMMA FinishKeeps ==
  ASSUME IInv, NEW t \in Task, Finish(t), task[t].at # "notify",
         t = scheduler => task[t].at \in Loop,
         UNCHANGED <<daemon, tables, memory, permit, current, dir, now, calls>>
  PROVE  IInv'
  <1>1. PICK x \in TaskState :
           /\ Sound(x) /\ HasNewer(x, dir) /\ x.at \in {"idle", "select"}
           /\ x.at = "select" => t = scheduler
           /\ task' = [task EXCEPT ![t] = x]
    BY FinishIsSound
  <1>2. x.at \in Loop \cup {"idle"}
    BY <1>1 DEF Loop
  <1>3. /\ DOMAIN dir \subseteq DOMAIN dir' /\ DOMAIN dir' \subseteq 1..MaxTime
        /\ \A n \in DOMAIN dir' : dir'[n] \in Copy
        /\ now' = now /\ calls' \in 0..MaxCalls
        /\ UNCHANGED <<daemon, tables, memory, permit, current>>
    BY DEF IInv, TypeOK
  <1> QED
    BY <1>1, <1>2, <1>3, QuietStep

LEMMA ReadRetentionKeeps ==
  ASSUME IInv, NEW t \in Task, ReadRetention(t)
  PROVE  IInv'
  <1> DEFINE x == Doing(IF task[t].op = "prune" THEN "prune" ELSE "name",
                        task[t].op, stored["backup_retention"])
  <1>1. CopyTask(t) /\ task[t].at = "retention"
    BY DEF ReadRetention, At, CopyTask
  <1>2. stored["backup_retention"] \in Nat /\ stored["backup_retention"] # 0
    BY DEF IInv, TypeOK, BackupSetting
  <1>3. x \in TaskState /\ Sound(x) /\ x.at \in {"prune", "name"}
    BY <1>1, <1>2, CopyTaskMayStep, CopyMayBe
  <1>4. HasNewer(x, dir) /\ x.at \in Loop
    BY <1>3 DEF HasNewer, Loop
  <1>5. task' = [task EXCEPT ![t] = x]
        /\ UNCHANGED <<daemon, tables, memory, permit, current, dir, now, calls>>
    BY DEF ReadRetention
  <1>6. /\ DOMAIN dir \subseteq DOMAIN dir' /\ DOMAIN dir' \subseteq 1..MaxTime
        /\ \A n \in DOMAIN dir' : dir'[n] \in Copy
        /\ now' = now /\ calls' \in 0..MaxCalls
        /\ UNCHANGED <<daemon, tables, memory, permit, current>>
    BY <1>5 DEF IInv, TypeOK
  <1>7. t = scheduler => task[t].at \in Loop
    BY <1>1, CopyTaskMayStep
  <1> HIDE DEF x
  <1> QED
    BY <1>1, <1>3, <1>4, <1>5, <1>6, <1>7, QuietStep

LEMMA RetentionUnreadKeeps ==
  ASSUME IInv, NEW t \in Task, RetentionUnread(t)
  PROVE  IInv'
  <1> DEFINE x == Doing("prune", task[t].op, Default("backup_retention"))
  <1>1. CopyTask(t) /\ task[t].at = "retention"
        /\ UNCHANGED <<daemon, tables, memory, permit, current, dir, now, calls>>
    BY DEF RetentionUnread, At, CopyTask
  <1>2. task[t].at # "notify" /\ (t = scheduler => task[t].at \in Loop)
    BY <1>1, CopyTaskMayStep
  <1>3. CASE Finish(t)
    BY <1>1, <1>2, <1>3, FinishKeeps
  <1>4. CASE task' = [task EXCEPT ![t] = x]
    <2>1. Default("backup_retention") \in Nat /\ Default("backup_retention") # 0
      <3>1. PICK v \in Values : v > 0
        BY TrackerBusAssumption
      <3>2. Default("backup_retention") \in Values /\ Default("backup_retention") > 0
        BY <3>1, Zenon DEF Default
      <3> DEFINE d == Default("backup_retention")
      <3>3. d \in Nat /\ d > 0
        BY <3>2, TrackerBusAssumption
      <3> HIDE DEF d
      <3>4. d \in Nat /\ d # 0
        BY <3>3
      <3> QED
        BY <3>4 DEF d
    <2>2. x \in TaskState /\ Sound(x) /\ x.at = "prune"
      BY <1>1, <2>1, CopyTaskMayStep, CopyMayBe
    <2>3. HasNewer(x, dir) /\ x.at \in Loop
      BY <2>2 DEF HasNewer, Loop
    <2>4. /\ DOMAIN dir \subseteq DOMAIN dir' /\ DOMAIN dir' \subseteq 1..MaxTime
          /\ \A n \in DOMAIN dir' : dir'[n] \in Copy
          /\ now' = now /\ calls' \in 0..MaxCalls
          /\ UNCHANGED <<daemon, tables, memory, permit, current>>
      BY <1>1 DEF IInv, TypeOK
    <2> HIDE DEF x
    <2> QED
      BY <1>1, <1>2, <1>4, <2>2, <2>3, <2>4, QuietStep
  <1>5. Finish(t) \/ task' = [task EXCEPT ![t] = x]
    BY DEF RetentionUnread
  <1> QED
    BY <1>3, <1>4, <1>5

LEMMA OpenCopyKeeps ==
  ASSUME IInv, NEW t \in Task, OpenCopy(t)
  PROVE  IInv'
  <1>1. CopyTask(t) /\ task[t].at = "name"
    BY DEF OpenCopy, At, CopyTask
  <1>2. UNCHANGED <<daemon, tables, memory, permit, current, now, calls>>
    BY DEF OpenCopy
  <1>3. CASE now \in DOMAIN dir
    <2>1. Finish(t) /\ dir' = dir
      BY <1>3 DEF OpenCopy
    <2>2. task[t].at # "notify" /\ (t = scheduler => task[t].at \in Loop)
      BY <1>1, CopyTaskMayStep
    <2> QED
      BY <1>2, <2>1, <2>2, FinishKeeps
  <1>4. CASE now \notin DOMAIN dir
    <2> DEFINE y == Doing("vacuum", task[t].op, task[t].arg)
               x == [y EXCEPT !.file = now]
    <2>1. dir' = Opened(dir, now) /\ task' = [task EXCEPT ![t] = x]
      BY <1>4 DEF OpenCopy, Copying
    <2>2. y \in TaskState /\ Sound(y) /\ y.at = "vacuum"
      BY <1>1, CopyTaskMayStep, CopyMayBe
    <2>3. now \in 1..MaxTime /\ now \in 0..MaxTime
      BY DEF IInv, TypeOK
    <2>4. x \in TaskState /\ x.at = y.at /\ x.op = y.op /\ x.arg = y.arg
      <3> HIDE DEF y
      <3> QED BY <2>2, <2>3 DEF TaskState
    <2>5. Sound(x) /\ HasNewer(x, dir) /\ x.at \in Loop
      <3> HIDE DEF x, y
      <3> QED BY <2>2, <2>4 DEF Sound, HasNewer, Loop
    <2>6. /\ DOMAIN dir' = DOMAIN dir \cup {now}
          /\ \A n \in DOMAIN dir' : dir'[n] \in Copy
      BY <2>1 DEF Opened, Copy, IInv, TypeOK
    <2>7. /\ DOMAIN dir \subseteq DOMAIN dir' /\ DOMAIN dir' \subseteq 1..MaxTime
          /\ now' = now /\ calls' \in 0..MaxCalls
          /\ UNCHANGED <<daemon, tables, memory, permit, current>>
      BY <1>2, <2>3, <2>6 DEF IInv, TypeOK
    <2>8. t = scheduler => task[t].at \in Loop
      BY <1>1, CopyTaskMayStep
    <2> HIDE DEF x
    <2> QED
      BY <1>1, <2>1, <2>4, <2>5, <2>6, <2>7, <2>8, QuietStep
  <1> QED
    BY <1>3, <1>4

LEMMA CopyDoneKeeps ==
  ASSUME IInv, NEW t \in Task, CopyDone(t)
  PROVE  IInv'
  <1>1. CopyTask(t) /\ task[t].at = "vacuum"
    BY DEF CopyDone, At, CopyTask
  <1> DEFINE x == Doing("prune", task[t].op, task[t].arg)
  <1>2. x \in TaskState /\ Sound(x) /\ x.at = "prune"
    BY <1>1, CopyTaskMayStep, CopyMayBe
  <1>3. HasNewer(x, dir) /\ x.at \in Loop
    BY <1>2 DEF HasNewer, Loop
  <1>4. /\ task' = [task EXCEPT ![t] = x] /\ dir' = Filled(dir, task[t].file)
        /\ UNCHANGED <<daemon, tables, memory, permit, current, now, calls>>
    BY DEF CopyDone, Goto
  <1>5. /\ DOMAIN dir' = DOMAIN dir
        /\ \A n \in DOMAIN dir' : dir'[n] \in Copy
    BY <1>4 DEF Filled, Copy, IInv, TypeOK
  <1>6. /\ DOMAIN dir \subseteq DOMAIN dir' /\ DOMAIN dir' \subseteq 1..MaxTime
        /\ now' = now /\ calls' \in 0..MaxCalls
        /\ UNCHANGED <<daemon, tables, memory, permit, current>>
    BY <1>4, <1>5 DEF IInv, TypeOK
  <1>7. t = scheduler => task[t].at \in Loop
    BY <1>1, CopyTaskMayStep
  <1> HIDE DEF x
  <1> QED
    BY <1>1, <1>2, <1>3, <1>4, <1>5, <1>6, <1>7, QuietStep

LEMMA ListDoomedKeeps ==
  ASSUME IInv, NEW t \in Task, ListDoomed(t)
  PROVE  IInv'
  <1>1. CopyTask(t) /\ task[t].at = "prune"
    BY DEF ListDoomed, At, CopyTask
  <1>2. UNCHANGED <<daemon, tables, memory, permit, current, dir, now, calls>>
    BY DEF ListDoomed
  <1>3. t = scheduler => task[t].at \in Loop
    BY <1>1, CopyTaskMayStep
  <1> DEFINE doomed == Doomed(dir, task[t].arg)
             y == Doing("remove", task[t].op, task[t].arg)
             x == [y EXCEPT !.doomed = doomed]
  <1>4. CASE Finish(t)
    BY <1>1, <1>2, <1>3, <1>4, FinishKeeps
  <1>5. CASE task' = [task EXCEPT ![t] = x]
    <2>1. y \in TaskState /\ Sound(y) /\ y.at = "remove" /\ task[t].arg \in Nat
      BY <1>1, CopyTaskMayStep, CopyMayBe
    <2>2. \A n \in doomed : n \in DOMAIN dir /\ \E m \in DOMAIN dir : m > n
      BY <2>1, DoomedHaveNewer
    <2>3. doomed \in SUBSET (1..MaxTime)
      BY <2>2 DEF IInv, TypeOK
    <2>4. x \in TaskState /\ x.at = y.at /\ x.op = y.op /\ x.arg = y.arg
          /\ x.doomed = doomed
      <3> HIDE DEF y, doomed
      <3> QED BY <2>1, <2>3 DEF TaskState
    <2>5. Sound(x) /\ HasNewer(x, dir) /\ x.at \in Loop
      <3> HIDE DEF x, y, doomed
      <3> QED BY <2>1, <2>2, <2>4 DEF Sound, HasNewer, Loop
    <2>6. /\ DOMAIN dir \subseteq DOMAIN dir' /\ DOMAIN dir' \subseteq 1..MaxTime
          /\ \A n \in DOMAIN dir' : dir'[n] \in Copy
          /\ now' = now /\ calls' \in 0..MaxCalls
          /\ UNCHANGED <<daemon, tables, memory, permit, current>>
      BY <1>2 DEF IInv, TypeOK
    <2> HIDE DEF x
    <2> QED
      BY <1>1, <1>3, <1>5, <2>4, <2>5, <2>6, QuietStep
  <1> QED
    BY <1>4, <1>5 DEF ListDoomed, Deleting

(* The one step that deletes.  What it deletes has a newer file beside it, *)
(* and so has everything that had it for its newer file.                   *)
LEMMA RemoveNextKeeps ==
  ASSUME IInv, NEW t \in Task, RemoveNext(t)
  PROVE  /\ IInv'
         /\ \A n \in DOMAIN dir \ DOMAIN dir' : \E m \in DOMAIN dir' : m > n
  <1>1. CopyTask(t) /\ task[t].at = "remove"
    BY DEF RemoveNext, At, CopyTask
  <1>2. PICK n \in task[t].doomed :
           /\ dir' = Without(dir, n)
           /\ IF task[t].doomed = {n} THEN Finish(t)
              ELSE task' = [task EXCEPT ![t] = Deleting(@, @.doomed \ {n})]
    BY DEF RemoveNext
  <1>3. UNCHANGED <<daemon, tables, memory, permit, current, now, calls>>
    BY DEF RemoveNext
  <1>4. task[t] \in TaskState /\ (t = scheduler => task[t].at \in Loop)
    BY <1>1, CopyTaskMayStep
  <1>5. n \in Nat /\ DOMAIN dir \subseteq Nat /\ \A u \in Task : task[u].doomed \subseteq Nat
    BY <1>4 DEF TaskState, IInv, TypeOK
  <1>6. /\ DOMAIN dir' = DOMAIN dir \ {n}
        /\ \A k \in DOMAIN dir' : dir'[k] = dir[k]
    BY <1>2 DEF Without, Restrict
  <1>7. PICK newer \in DOMAIN dir : newer > n
    BY <1>1 DEF IInv, HasNewer
  <1>8. newer \in DOMAIN dir'
    BY <1>5, <1>6, <1>7
  <1>9. ASSUME NEW k \in Nat, \E m \in DOMAIN dir : m > k
        PROVE  \E m \in DOMAIN dir' : m > k
    <2>1. PICK m \in DOMAIN dir : m > k
      BY <1>9
    <2>2. CASE m = n
      BY <1>5, <1>7, <1>8, <2>1, <2>2
    <2>3. CASE m # n
      BY <1>6, <2>1, <2>3
    <2> QED
      BY <2>2, <2>3
  <1>10. PICK x \in TaskState :
            /\ Sound(x) /\ x.at \in {"idle", "select", "remove"}
            /\ x.at = "select" => t = scheduler
            /\ x.at = "remove" => x.doomed \subseteq task[t].doomed
            /\ task' = [task EXCEPT ![t] = x]
    <2>1. CASE task[t].doomed = {n}
      BY <1>2, <2>1, FinishIsSound
    <2>2. CASE task[t].doomed # {n}
      <3> DEFINE left == task[t].doomed \ {n}
                 y == Doing("remove", task[t].op, task[t].arg)
                 x == [y EXCEPT !.doomed = left]
      <3>1. task' = [task EXCEPT ![t] = x]
        BY <1>2, <2>2 DEF Deleting
      <3>2. y \in TaskState /\ Sound(y) /\ y.at = "remove"
        BY <1>1, CopyTaskMayStep, CopyMayBe
      <3>3. left \in SUBSET (1..MaxTime)
        BY <1>4 DEF TaskState
      <3>4. x \in TaskState /\ x.at = y.at /\ x.op = y.op /\ x.arg = y.arg
            /\ x.doomed = left
        <4> HIDE DEF y, left
        <4> QED BY <3>2, <3>3 DEF TaskState
      <3>5. Sound(x)
        <4> HIDE DEF x, y, left
        <4> QED BY <3>2, <3>4 DEF Sound
      <3>6. left \subseteq task[t].doomed
        OBVIOUS
      <3> HIDE DEF x, left
      <3> QED
        BY <3>1, <3>2, <3>4, <3>5, <3>6
    <2> QED
      BY <2>1, <2>2
  <1>11. /\ task' \in [Task -> TaskState] /\ task'[t] = x
         /\ \A u \in Task \ {t} : task'[u] = task[u]
    BY <1>10 DEF IInv, TypeOK
  <1>12. TypeOK'
    BY <1>3, <1>6, <1>11 DEF IInv, TypeOK, tables, memory
  <1>13. scheduler \in Task /\ Clients \subseteq Task
    BY DEF Task
  <1>14. SchedulerOK'
    BY <1>10, <1>11, <1>13, <1>4 DEF IInv, SchedulerOK, Loop
  <1>15. ASSUME NEW u \in Task PROVE Sound(task'[u]) /\ HasNewer(task'[u], dir')
    <2>1. CASE u = t
      <3>1. Sound(task'[u])
        BY <1>10, <1>11, <2>1
      <3>2. ASSUME x.at = "remove", NEW k \in x.doomed PROVE \E m \in DOMAIN dir' : m > k
        <4>1. k \in task[t].doomed /\ k \in Nat
          BY <1>5, <1>10, <3>2
        <4>2. \E m \in DOMAIN dir : m > k
          BY <1>1, <4>1 DEF IInv, HasNewer
        <4> QED
          BY <1>9, <4>1, <4>2
      <3> QED
        BY <1>11, <2>1, <3>1, <3>2 DEF HasNewer
    <2>2. CASE u # t
      <3>1. task'[u] = task[u] /\ Sound(task[u]) /\ HasNewer(task[u], dir)
        BY <1>11, <2>2 DEF IInv
      <3>2. ASSUME task[u].at = "remove", NEW k \in task[u].doomed
            PROVE  \E m \in DOMAIN dir' : m > k
        <4>1. k \in Nat /\ \E m \in DOMAIN dir : m > k
          BY <1>5, <3>1, <3>2 DEF HasNewer
        <4> QED
          BY <1>9, <4>1
      <3> QED
        BY <3>1, <3>2 DEF HasNewer
    <2> QED
      BY <2>1, <2>2
  <1>16. Follows'
    <2>1. SUFFICES ASSUME daemon = "up", task'[scheduler].at \in Loop, ~ permit,
                          \A c \in Clients : task'[c].at # "notify"
                   PROVE  current = ReadClamped
      BY <1>3 DEF Follows, At, ReadClamped, memory
    <2>2. task[scheduler].at \in Loop
      BY <1>4, <1>11, <1>13, <2>1
    <2>3. \A c \in Clients : task[c].at # "notify"
      BY <1>1, <1>11, <1>13, <2>1
    <2> QED
      BY <2>1, <2>2, <2>3 DEF IInv, Follows, At
  <1> QED
    BY <1>5, <1>6, <1>7, <1>8, <1>12, <1>14, <1>15, <1>16 DEF IInv

LEMMA CopyStepKeeps ==
  ASSUME IInv, NEW t \in Task, CopyStep(t)
  PROVE  IInv'
  <1>1. CASE ReadRetention(t) BY <1>1, ReadRetentionKeeps
  <1>2. CASE OpenCopy(t) BY <1>2, OpenCopyKeeps
  <1>3. CASE CopyDone(t) BY <1>3, CopyDoneKeeps
  <1>4. CASE ListDoomed(t) BY <1>4, ListDoomedKeeps
  <1>5. CASE RemoveNext(t) BY <1>5, RemoveNextKeeps
  <1>6. CASE CopyFails(t) \/ RemoveFails(t)
    <2>1. CopyTask(t) /\ Finish(t)
          /\ UNCHANGED <<daemon, tables, memory, permit, current, dir, now, calls>>
      BY <1>6 DEF CopyFails, RemoveFails, At, CopyTask
    <2>2. task[t].at # "notify" /\ (t = scheduler => task[t].at \in Loop)
      BY <2>1, CopyTaskMayStep
    <2> QED
      BY <2>1, <2>2, FinishKeeps
  <1>7. CASE RetentionUnread(t) BY <1>7, RetentionUnreadKeeps
  <1> QED
    BY <1>1, <1>2, <1>3, <1>4, <1>5, <1>6, <1>7 DEF CopyStep

-----------------------------------------------------------------------------
(* Method calls and commands. *)

LEMMA BeginKeeps ==
  ASSUME IInv, NEW t \in Task, t # scheduler, NEW stage \in Stage, NEW op \in Op,
         NEW arg \in Nat \cup GameKey, Sound(Doing(stage, op, arg)),
         stage # "remove", Begin(t, op, arg, stage)
  PROVE  IInv'
  <1> DEFINE x == Doing(stage, op, arg)
  <1>1. x \in TaskState /\ x.at = stage
    BY DoingIsTyped
  <1>2. Sound(x) /\ HasNewer(x, dir)
    BY <1>1 DEF HasNewer
  <1>3. task' = [task EXCEPT ![t] = x] /\ task[t].at = "idle"
    BY DEF Begin, At
  <1>4. calls' \in 0..MaxCalls
    BY DEF Begin, IInv, TypeOK
  <1>5. /\ DOMAIN dir \subseteq DOMAIN dir' /\ DOMAIN dir' \subseteq 1..MaxTime
        /\ \A n \in DOMAIN dir' : dir'[n] \in Copy
        /\ now' = now
        /\ UNCHANGED <<daemon, tables, memory, permit, current>>
    BY DEF Begin, IInv, TypeOK
  <1>6. task[t].at # "notify"
    BY <1>3
  <1> HIDE DEF x
  <1> QED
    BY <1>1, <1>2, <1>3, <1>4, <1>5, <1>6, QuietStep

LEMMA CallKeeps ==
  ASSUME IInv, NEW c \in Clients, Call(c)
  PROVE  IInv'
  <1>1. c \in Task /\ c # scheduler
    BY DEF Task
  <1>2. CASE \E s \in Setting, v \in Values : Begin(c, s, Clamped(s, v), "store")
    <2>1. PICK s \in Setting, v \in Values : Begin(c, s, Clamped(s, v), "store")
      BY <1>2
    <2>2. Clamped(s, v) \in Nat /\ (s \in BackupSetting => Clamped(s, v) # 0)
      BY DEF Clamped, AtLeastOne
    <2>3. "store" \in Stage /\ s \in Op /\ s \notin {"block", "unblock"}
      BY DEF Stage, Op
    <2>4. Doing("store", s, Clamped(s, v)).at = "store"
          /\ Doing("store", s, Clamped(s, v)).op = s
          /\ Doing("store", s, Clamped(s, v)).arg = Clamped(s, v)
      BY <2>2, <2>3, DoingIsTyped
    <2>5. Sound(Doing("store", s, Clamped(s, v)))
      BY <2>2, <2>3, <2>4 DEF Sound
    <2>6. Clamped(s, v) \in Nat \cup GameKey /\ "store" # "remove"
      BY <2>2
    <2> QED
      BY <1>1, <2>1, <2>3, <2>5, <2>6, BeginKeeps
  <1>3. CASE \E op \in {"block", "unblock"}, k \in GameKey : Begin(c, op, k, "store")
    <2>1. PICK op \in {"block", "unblock"}, k \in GameKey : Begin(c, op, k, "store")
      BY <1>3
    <2>2. "store" \in Stage /\ op \in Op /\ op \notin Pruning /\ op \notin BackupSetting
          /\ k \in Nat \cup GameKey /\ "store" # "remove"
      BY DEF Stage, Op, Pruning, BackupSetting
    <2>3. Doing("store", op, k).at = "store" /\ Doing("store", op, k).op = op
          /\ Doing("store", op, k).arg = k
      BY <2>2, DoingIsTyped
    <2>4. Sound(Doing("store", op, k))
      BY <2>2, <2>3 DEF Sound
    <2> QED
      BY <1>1, <2>1, <2>2, <2>4, BeginKeeps
  <1>4. CASE Begin(c, "snapshot", 0, "retention")
    <2>1. "retention" \in Stage /\ "snapshot" \in Op /\ "snapshot" \in Pruning
          /\ "snapshot" \notin BackupSetting
      BY DEF Stage, Op, Pruning, BackupSetting
    <2>2. /\ Doing("retention", "snapshot", 0).at = "retention"
          /\ Doing("retention", "snapshot", 0).op = "snapshot"
          /\ Doing("retention", "snapshot", 0).arg = 0
      BY <2>1, DoingIsTyped
    <2>3. Sound(Doing("retention", "snapshot", 0))
      BY <2>1, <2>2 DEF Sound
    <2> QED
      BY <1>1, <1>4, <2>1, <2>3, BeginKeeps
  <1> QED
    BY <1>2, <1>3, <1>4 DEF Call

LEMMA CommandKeeps ==
  ASSUME IInv, Command
  PROVE  IInv'
  <1>1. cli \in Task /\ cli # scheduler
    BY DEF Task, cli, scheduler
  <1>2. \A op \in {"snapshot", "prune"} :
           op \in Op /\ op \in Pruning /\ op \notin BackupSetting /\ op \notin {"block", "unblock"}
    BY DEF Op, Pruning, BackupSetting
  <1>3. ASSUME NEW stage \in {"retention", "prune"}, NEW op \in {"snapshot", "prune"},
               NEW keep \in Nat, Begin(cli, op, keep, stage)
        PROVE  IInv'
    <2>1. stage \in Stage /\ stage # "remove"
      BY DEF Stage
    <2>2. Doing(stage, op, keep).at = stage /\ Doing(stage, op, keep).op = op
          /\ Doing(stage, op, keep).arg = keep
      BY <1>2, <2>1, DoingIsTyped
    <2>3. Sound(Doing(stage, op, keep))
      BY <1>2, <2>2 DEF Sound
    <2> QED
      BY <1>1, <1>2, <1>3, <2>1, <2>3, BeginKeeps
  <1> QED
    BY <1>3 DEF Command

LEMMA StoreKeeps ==
  ASSUME IInv, NEW c \in Clients, Store(c)
  PROVE  IInv'
  <1>1. c \in Task /\ c # scheduler /\ scheduler \in Task /\ Clients \subseteq Task
    BY DEF Task
  <1>2. task[c].at = "store" /\ Sound(task[c]) /\ task[c] \in TaskState
    BY <1>1 DEF Store, At, IInv, TypeOK
  <1>3. /\ task[c].op \in Setting \cup {"block", "unblock"}
        /\ task[c].op \in Setting => task[c].arg \in Nat
        /\ task[c].op \in BackupSetting => task[c].arg # 0
        /\ task[c].op \in {"block", "unblock"} => task[c].arg \in GameKey
    BY <1>2 DEF Sound, Pruning
  <1> DEFINE x == Doing("mirror", task[c].op, task[c].arg)
  <1>4. "mirror" \in Stage /\ task[c].op \in Op /\ task[c].arg \in Nat \cup GameKey
    BY <1>2 DEF Stage, TaskState
  <1>5. x \in TaskState /\ x.at = "mirror" /\ x.op = task[c].op /\ x.arg = task[c].arg
    <2> DEFINE op == task[c].op
               arg == task[c].arg
    <2>1. op \in Op /\ arg \in Nat \cup GameKey
      BY <1>4
    <2> HIDE DEF op, arg
    <2>2. /\ Doing("mirror", op, arg) \in TaskState /\ Doing("mirror", op, arg).at = "mirror"
          /\ Doing("mirror", op, arg).op = op /\ Doing("mirror", op, arg).arg = arg
      BY <1>4, <2>1, DoingIsTyped
    <2> QED
      BY <2>2 DEF op, arg
  <1>6. Sound(x) /\ HasNewer(x, dir)
    <2> HIDE DEF x
    <2> QED BY <1>2, <1>5 DEF Sound, HasNewer
  <1>7. task' = [task EXCEPT ![c] = x]
        /\ UNCHANGED <<daemon, memory, permit, current, dir, now, calls>>
    BY DEF Store, Goto
  <1> HIDE DEF x
  <1>8. /\ task' \in [Task -> TaskState] /\ task'[c] = x
        /\ \A u \in Task \ {c} : task'[u] = task[u]
        /\ \A u \in Task : Sound(task'[u]) /\ HasNewer(task'[u], dir')
    BY <1>1, <1>5, <1>6, <1>7, TaskMoves
  <1>9. /\ stored' \in [Setting -> Nat] /\ rows' \subseteq GameKey
        /\ \A s \in BackupSetting : stored'[s] # 0
    <2>1. stored \in [Setting -> Nat] /\ rows \subseteq GameKey
          /\ \A s \in BackupSetting : stored[s] # 0
      BY DEF IInv, TypeOK, BackupSetting
    <2>2. CASE task[c].op = "block"
      BY <1>3, <2>1, <2>2 DEF Store
    <2>3. CASE task[c].op = "unblock"
      BY <1>3, <2>1, <2>3 DEF Store
    <2>4. CASE task[c].op \notin {"block", "unblock"}
      <3>1. stored' = [stored EXCEPT ![task[c].op] = task[c].arg] /\ rows' = rows
        BY <2>4 DEF Store
      <3>2. task[c].op \in Setting /\ BackupSetting \subseteq Setting
        BY <1>3, <2>4 DEF BackupSetting
      <3> QED
        BY <1>3, <2>1, <3>1, <3>2
    <2> QED
      BY <2>2, <2>3, <2>4
  <1>10. TypeOK'
    BY <1>7, <1>8, <1>9 DEF IInv, TypeOK, memory, BackupSetting
  <1>11. SchedulerOK'
    BY <1>1, <1>8 DEF IInv, SchedulerOK
  <1>12. Follows'
    <2>1. SUFFICES ASSUME daemon = "up", task'[scheduler].at \in Loop, ~ permit,
                          \A d \in Clients : task'[d].at # "notify"
                   PROVE  current = ReadClamped
      BY <1>7 DEF Follows, At, ReadClamped, memory
    <2>2. task[scheduler].at \in Loop /\ \A d \in Clients : task[d].at # "notify"
      BY <1>1, <1>2, <1>8, <2>1
    <2> QED
      BY <2>1, <2>2 DEF IInv, Follows, At
  <1> QED
    BY <1>8, <1>10, <1>11, <1>12 DEF IInv

(* A backup setting is in memory before its setter notifies, so the        *)
(* scheduler may be behind only while a notification is on its way.        *)
LEMMA MirrorKeeps ==
  ASSUME IInv, NEW c \in Clients, Mirror(c)
  PROVE  IInv'
  <1>1. c \in Task /\ c # scheduler /\ scheduler \in Task /\ Clients \subseteq Task
    BY DEF Task
  <1>2. task[c].at = "mirror" /\ Sound(task[c]) /\ task[c] \in TaskState
    BY <1>1 DEF Mirror, At, IInv, TypeOK
  <1>3. /\ task[c].op \in Setting \cup {"block", "unblock"}
        /\ task[c].op \in Setting => task[c].arg \in Nat
        /\ task[c].op \in {"block", "unblock"} => task[c].arg \in GameKey
    BY <1>2 DEF Sound, Pruning
  <1>4. UNCHANGED <<daemon, tables, permit, current, dir, now, calls>>
    BY DEF Mirror
  <1>5. PICK x \in TaskState :
           /\ Sound(x) /\ HasNewer(x, dir)
           /\ task[c].op \in BackupSetting => x.at = "notify"
           /\ task' = [task EXCEPT ![c] = x]
    <2>1. CASE task[c].op \in BackupSetting
      <3>1. Goto(c, "notify")
        BY <2>1 DEF Mirror
      <3> DEFINE op == task[c].op
                 arg == task[c].arg
                 x == Doing("notify", op, arg)
      <3>2. "notify" \in Stage /\ op \in Op /\ arg \in Nat \cup GameKey
        BY <1>2 DEF Stage, TaskState
      <3>3. x \in TaskState /\ x.at = "notify" /\ x.op = op /\ x.arg = arg
        <4> HIDE DEF op, arg
        <4> QED BY <3>2, DoingIsTyped
      <3>4. Sound(x) /\ HasNewer(x, dir)
        <4> HIDE DEF x
        <4> QED BY <1>2, <2>1, <3>3 DEF Sound, HasNewer
      <3>5. task' = [task EXCEPT ![c] = x]
        BY <3>1 DEF Goto
      <3> QED
        BY <3>3, <3>4, <3>5
    <2>2. CASE task[c].op \notin BackupSetting
      BY <1>1, <2>2, FinishIsSound DEF Mirror
    <2> QED
      BY <2>1, <2>2
  <1>6. /\ task' \in [Task -> TaskState] /\ task'[c] = x
        /\ \A u \in Task \ {c} : task'[u] = task[u]
        /\ \A u \in Task : Sound(task'[u]) /\ HasNewer(task'[u], dir')
    BY <1>1, <1>4, <1>5, TaskMoves
  <1>7. /\ config' \in [Setting -> Nat] /\ blocklist' \subseteq GameKey
        /\ misread' \subseteq Setting \cup {"blocklist"}
        /\ task[c].op \notin BackupSetting =>
             \A s \in BackupSetting : config'[s] = config[s]
    <2>1. /\ config \in [Setting -> Nat] /\ blocklist \subseteq GameKey
          /\ misread \subseteq Setting \cup {"blocklist"}
      BY DEF IInv, TypeOK
    <2>2. CASE task[c].op = "block"
      BY <1>3, <2>1, <2>2 DEF Mirror
    <2>3. CASE task[c].op = "unblock"
      BY <1>3, <2>1, <2>3 DEF Mirror
    <2>4. CASE task[c].op \notin {"block", "unblock"}
      <3>1. /\ config' = [config EXCEPT ![task[c].op] = task[c].arg]
            /\ misread' = misread \ {task[c].op} /\ blocklist' = blocklist
        BY <2>4 DEF Mirror
      <3>2. task[c].op \in Setting /\ task[c].arg \in Nat /\ BackupSetting \subseteq Setting
        BY <1>3, <2>4 DEF BackupSetting
      <3> QED
        BY <2>1, <3>1, <3>2
    <2> QED
      BY <2>2, <2>3, <2>4
  <1>8. TypeOK'
    BY <1>4, <1>6, <1>7 DEF IInv, TypeOK, tables
  <1>9. SchedulerOK'
    BY <1>1, <1>6 DEF IInv, SchedulerOK
  <1>10. Follows'
    <2>1. SUFFICES ASSUME daemon = "up", task'[scheduler].at \in Loop, ~ permit,
                          \A d \in Clients : task'[d].at # "notify"
                   PROVE  current = ReadClamped'
      BY <1>4 DEF Follows, At
    <2>2. task[c].op \notin BackupSetting
      BY <1>5, <1>6, <2>1
    <2>3. ReadClamped' = ReadClamped
      BY <1>7, <2>2 DEF ReadClamped
    <2>4. task[scheduler].at \in Loop /\ \A d \in Clients : task[d].at # "notify"
      BY <1>1, <1>2, <1>6, <2>1
    <2> QED
      BY <2>1, <2>3, <2>4 DEF IInv, Follows, At
  <1> QED
    BY <1>6, <1>8, <1>9, <1>10 DEF IInv

LEMMA NotifyKeeps ==
  ASSUME IInv, NEW c \in Clients, NotifyOne(c)
  PROVE  IInv'
  <1>1. c \in Task /\ c # scheduler /\ scheduler \in Task
    BY DEF Task
  <1>2. task[c].at = "notify" /\ Sound(task[c]) /\ task[c] \in TaskState
    BY <1>1 DEF NotifyOne, At, IInv, TypeOK
  <1>3. /\ permit' = TRUE
        /\ UNCHANGED <<daemon, tables, memory, current, dir, now, calls>>
    BY DEF NotifyOne
  <1>4. PICK x \in TaskState :
           Sound(x) /\ HasNewer(x, dir) /\ task' = [task EXCEPT ![c] = x]
    <2>1. CASE task[c].op = "backup_retention"
      <3>1. Goto(c, "prune")
        BY <2>1 DEF NotifyOne
      <3> DEFINE op == task[c].op
                 arg == task[c].arg
                 x == Doing("prune", op, arg)
      <3>2. op \in Pruning \cap Op /\ arg \in Nat /\ (op \in BackupSetting => arg # 0)
        BY <1>2, <2>1 DEF Sound, Pruning, TaskState
      <3>3. x \in TaskState /\ Sound(x) /\ x.at = "prune"
        <4> HIDE DEF op, arg
        <4> QED BY <3>2, CopyMayBe
      <3>4. HasNewer(x, dir)
        BY <3>3 DEF HasNewer
      <3>5. task' = [task EXCEPT ![c] = x]
        BY <3>1 DEF Goto
      <3> QED
        BY <3>3, <3>4, <3>5
    <2>2. CASE task[c].op # "backup_retention"
      BY <1>1, <2>2, FinishIsSound DEF NotifyOne
    <2> QED
      BY <2>1, <2>2
  <1>5. /\ task' \in [Task -> TaskState] /\ task'[c] = x
        /\ \A u \in Task \ {c} : task'[u] = task[u]
        /\ \A u \in Task : Sound(task'[u]) /\ HasNewer(task'[u], dir')
    BY <1>1, <1>3, <1>4, TaskMoves
  <1>6. TypeOK'
    BY <1>3, <1>5 DEF IInv, TypeOK, tables, memory
  <1>7. SchedulerOK' /\ Follows'
    BY <1>1, <1>3, <1>5 DEF IInv, SchedulerOK, Follows
  <1> QED
    BY <1>5, <1>6, <1>7 DEF IInv

-----------------------------------------------------------------------------
(* The scheduler's own steps, and the daemon's life. *)

LEMMA RunOnceKeeps ==
  ASSUME IInv, NEW op \in {"snapshot", "final"}, task[scheduler].at = "select", RunOnce(op)
  PROVE  IInv'
  <1>1. scheduler \in Task
    BY DEF Task
  <1> DEFINE keep == current["backup_retention"]
             x == Doing("name", op, keep)
  <1>2. keep \in Nat
    BY DEF IInv, TypeOK, BackupSetting
  <1>3. op \in Pruning \cap Op /\ op \notin BackupSetting
    BY DEF Pruning, Op, BackupSetting
  <1>4. x \in TaskState /\ Sound(x) /\ x.at = "name"
    <2> HIDE DEF keep
    <2> QED BY <1>2, <1>3, CopyMayBe
  <1>5. HasNewer(x, dir) /\ x.at \in Loop
    BY <1>4 DEF HasNewer, Loop
  <1>6. task' = [task EXCEPT ![scheduler] = x]
        /\ UNCHANGED <<daemon, tables, memory, permit, current, dir, now, calls>>
    BY DEF RunOnce
  <1>7. /\ DOMAIN dir \subseteq DOMAIN dir' /\ DOMAIN dir' \subseteq 1..MaxTime
        /\ \A n \in DOMAIN dir' : dir'[n] \in Copy
        /\ now' = now /\ calls' \in 0..MaxCalls
        /\ UNCHANGED <<daemon, tables, memory, permit, current>>
    BY <1>6 DEF IInv, TypeOK
  <1>8. task[scheduler].at \in Loop
    BY DEF Loop
  <1> HIDE DEF x
  <1> QED
    BY <1>1, <1>4, <1>5, <1>6, <1>7, <1>8, QuietStep

(* The scheduler goes to `stage' with what it had. *)
LEMMA SchedulerMoves ==
  ASSUME IInv, NEW stage \in {"select", "reload"},
         task[scheduler].at \in {"select", "reload", "idle"},
         Goto(scheduler, stage), dir' = dir
  PROVE  /\ task' \in [Task -> TaskState]
         /\ task'[scheduler].at = stage
         /\ \A u \in Task \ {scheduler} : task'[u] = task[u]
         /\ \A u \in Task : Sound(task'[u]) /\ HasNewer(task'[u], dir')
  <1>1. scheduler \in Task
    BY DEF Task
  <1> DEFINE op == task[scheduler].op
             arg == task[scheduler].arg
             x == Doing(stage, op, arg)
  <1>2. Sound(task[scheduler]) /\ task[scheduler] \in TaskState
    BY <1>1 DEF IInv, TypeOK
  <1>3. stage \in Stage /\ op \in Op /\ arg \in Nat \cup GameKey
    BY <1>2 DEF Stage, TaskState
  <1>4. x \in TaskState /\ x.at = stage /\ x.op = op /\ x.arg = arg
    <2> HIDE DEF op, arg
    <2> QED BY <1>3, DoingIsTyped
  <1>5. Sound(x) /\ HasNewer(x, dir)
    <2> HIDE DEF x
    <2> QED BY <1>2, <1>4 DEF Sound, HasNewer
  <1>6. task' = [task EXCEPT ![scheduler] = x]
    BY DEF Goto
  <1> HIDE DEF x
  <1> QED
    BY <1>1, <1>4, <1>5, <1>6, TaskMoves

LEMMA SchedulerKeeps ==
  ASSUME IInv, SchedulerStep
  PROVE  IInv'
  <1>1. scheduler \in Task /\ scheduler \notin Clients
    BY DEF Task
  <1>2. CASE TakePermit
    <2>1. /\ task[scheduler].at = "select" /\ Goto(scheduler, "reload") /\ permit' = FALSE
          /\ UNCHANGED <<daemon, tables, memory, current, dir, now, calls>>
      BY <1>2 DEF TakePermit, At
    <2>2. /\ task' \in [Task -> TaskState] /\ task'[scheduler].at = "reload"
          /\ \A u \in Task : Sound(task'[u]) /\ HasNewer(task'[u], dir')
      BY <2>1, SchedulerMoves
    <2>3. TypeOK'
      BY <2>1, <2>2 DEF IInv, TypeOK, tables, memory
    <2>4. SchedulerOK' /\ Follows'
      BY <2>2 DEF SchedulerOK, Follows, Loop
    <2> QED
      BY <2>2, <2>3, <2>4 DEF IInv
  <1>3. CASE Reload
    <2>1. /\ task[scheduler].at = "reload" /\ Goto(scheduler, "select")
          /\ current' = ReadClamped
          /\ UNCHANGED <<daemon, tables, memory, permit, dir, now, calls>>
      BY <1>3 DEF Reload, At
    <2>2. /\ task' \in [Task -> TaskState] /\ task'[scheduler].at = "select"
          /\ \A u \in Task : Sound(task'[u]) /\ HasNewer(task'[u], dir')
      BY <2>1, SchedulerMoves
    <2>3. config \in [Setting -> Nat] /\ BackupSetting \subseteq Setting
      BY DEF IInv, TypeOK, BackupSetting
    <2>4. current' \in [BackupSetting -> Nat] /\ \A s \in BackupSetting : current'[s] > 0
      <3>1. \A s \in BackupSetting : AtLeastOne(config[s]) \in Nat /\ AtLeastOne(config[s]) > 0
        BY <2>3 DEF AtLeastOne
      <3>2. current' = [s \in BackupSetting |-> AtLeastOne(config[s])]
        BY <2>1 DEF ReadClamped
      <3> QED
        BY <3>1, <3>2
    <2>5. TypeOK'
      BY <2>1, <2>2, <2>4 DEF IInv, TypeOK, tables, memory
    <2>6. SchedulerOK'
      BY <2>2 DEF SchedulerOK, Loop
    <2>7. Follows'
      BY <2>1 DEF Follows, ReadClamped, memory
    <2> QED
      BY <2>2, <2>5, <2>6, <2>7 DEF IInv
  <1>4. CASE Tick
    BY <1>4, RunOnceKeeps DEF Tick, At
  <1>5. CASE FinalSnapshot
    BY <1>5, RunOnceKeeps DEF FinalSnapshot, At
  <1>6. CASE CopyStep(scheduler)
    BY <1>1, <1>6, CopyStepKeeps
  <1> QED
    BY <1>2, <1>3, <1>4, <1>5, <1>6 DEF SchedulerStep

LEMMA DieKeeps ==
  ASSUME IInv, Die
  PROVE  IInv'
  <1>1. scheduler \in Task /\ scheduler # cli
    BY DEF Task, scheduler, cli
  <1>2. /\ daemon' = "down" /\ permit' = FALSE /\ blocklist' = {} /\ misread' = {}
        /\ config' = [s \in Setting |-> Default(s)]
        /\ current' = [s \in BackupSetting |-> Default(s)]
        /\ task' = [t \in Task |-> IF t = cli THEN task[cli] ELSE Idle]
        /\ UNCHANGED <<tables, dir, now, calls>>
    BY DEF Die
  <1>3. task' \in [Task -> TaskState]
    BY <1>2, IdleIsSound DEF IInv, TypeOK
  <1>4. ASSUME NEW u \in Task PROVE Sound(task'[u]) /\ HasNewer(task'[u], dir')
    <2>1. CASE u = cli
      BY <1>2, <2>1 DEF IInv
    <2>2. CASE u # cli
      BY <1>2, <2>2, IdleIsSound DEF HasNewer
    <2> QED
      BY <2>1, <2>2
  <1>5. config' \in [Setting -> Nat] /\ current' \in [BackupSetting -> Nat]
        /\ \A s \in BackupSetting : current'[s] > 0
    BY <1>2, DefaultIsPositive
  <1>6. TypeOK'
    BY <1>2, <1>3, <1>5 DEF IInv, TypeOK, tables
  <1>7. SchedulerOK' /\ Follows'
    BY <1>1, <1>2, IdleIsSound DEF SchedulerOK, Follows
  <1> QED
    BY <1>4, <1>6, <1>7 DEF IInv

LEMMA BootKeeps ==
  ASSUME IInv, Boot
  PROVE  IInv'
  <1>1. scheduler \in Task
    BY DEF Task
  <1>2. PICK bad \in Unreadable :
          /\ misread' = bad
          /\ config' = [s \in Setting |-> IF s \in bad THEN Default(s) ELSE stored[s]]
          /\ blocklist' = IF "blocklist" \in bad THEN {} ELSE rows
    BY DEF Boot
  <1>3. /\ daemon' = "up" /\ Goto(scheduler, "reload")
        /\ UNCHANGED <<tables, permit, current, dir, now, calls>>
    BY DEF Boot
  <1> DEFINE op == task[scheduler].op
             arg == task[scheduler].arg
             x == Doing("reload", op, arg)
  <1>4. Sound(task[scheduler]) /\ task[scheduler] \in TaskState
    BY <1>1 DEF IInv, TypeOK
  <1>5. "reload" \in Stage /\ op \in Op /\ arg \in Nat \cup GameKey
    BY <1>4 DEF Stage, TaskState
  <1>6. x \in TaskState /\ x.at = "reload" /\ x.op = op /\ x.arg = arg
    <2> HIDE DEF op, arg
    <2> QED BY <1>5, DoingIsTyped
  <1>7. Sound(x) /\ HasNewer(x, dir)
    <2> HIDE DEF x
    <2> QED BY <1>4, <1>6 DEF Sound, HasNewer
  <1>8. task' = [task EXCEPT ![scheduler] = x]
    BY <1>3 DEF Goto
  <1> HIDE DEF x
  <1>9. /\ task' \in [Task -> TaskState] /\ task'[scheduler].at = "reload"
        /\ \A u \in Task : Sound(task'[u]) /\ HasNewer(task'[u], dir')
    BY <1>1, <1>3, <1>6, <1>7, <1>8, TaskMoves
  <1>10. /\ config' \in [Setting -> Nat] /\ blocklist' \subseteq GameKey
         /\ misread' \subseteq Setting \cup {"blocklist"}
    BY <1>2, DefaultIsPositive DEF IInv, TypeOK
  <1>11. TypeOK'
    BY <1>3, <1>9, <1>10 DEF IInv, TypeOK, tables
  <1>12. SchedulerOK' /\ Follows'
    BY <1>9 DEF SchedulerOK, Follows, Loop
  <1> QED
    BY <1>9, <1>11, <1>12 DEF IInv

-----------------------------------------------------------------------------
(* The theorems. *)

LEMMA InitEstablishes == Init => IInv
  <1> SUFFICES ASSUME Init PROVE IInv
    OBVIOUS
  <1>1. scheduler \in Task
    BY DEF Task
  <1>2. task = [t \in Task |-> Idle] /\ daemon = "down" /\ dir = << >>
    BY DEF Init
  <1>3. DOMAIN dir = {}
    BY <1>2
  <1>4. /\ stored \in [Setting -> Nat] /\ config \in [Setting -> Nat]
        /\ current \in [BackupSetting -> Nat]
        /\ \A s \in BackupSetting : stored[s] > 0 /\ current[s] > 0
    <2>1. /\ stored = [s \in Setting |-> Default(s)] /\ config = stored
          /\ current = [s \in BackupSetting |-> Default(s)]
          /\ BackupSetting \subseteq Setting
      BY DEF Init, BackupSetting
    <2> QED
      BY <2>1, DefaultIsPositive
  <1>5. TypeOK
    <2>1. task \in [Task -> TaskState]
      BY <1>2, IdleIsSound
    <2>2. now \in 1..MaxTime /\ calls \in 0..MaxCalls
      BY DEF Init
    <2>3. /\ rows \subseteq GameKey /\ blocklist \subseteq GameKey
          /\ misread \subseteq Setting \cup {"blocklist"}
          /\ permit \in BOOLEAN /\ daemon \in {"up", "stopping", "down"}
      BY DEF Init
    <2>4. DOMAIN dir \subseteq 1..MaxTime /\ \A n \in DOMAIN dir : dir[n] \in Copy
      BY <1>3
    <2> QED
      BY <1>4, <2>1, <2>2, <2>3, <2>4 DEF TypeOK
  <1>6. SchedulerOK /\ Follows
    BY <1>1, <1>2, IdleIsSound DEF SchedulerOK, Follows
  <1>7. \A t \in Task : Sound(task[t]) /\ HasNewer(task[t], dir)
    BY <1>2, IdleIsSound DEF HasNewer
  <1> QED
    BY <1>5, <1>6, <1>7 DEF IInv

LEMMA NextKeeps == IInv /\ [Next]_vars => IInv'
  <1> SUFFICES ASSUME IInv, [Next]_vars PROVE IInv'
    OBVIOUS
  <1>1. CASE Boot
    BY <1>1, BootKeeps
  <1>2. CASE Shutdown
    <2>1. daemon' = "stopping"
          /\ UNCHANGED <<tables, memory, permit, current, task, dir, now, calls>>
      BY <1>2 DEF Shutdown
    <2> QED
      BY <2>1 DEF IInv, TypeOK, SchedulerOK, Follows, tables, memory
  <1>3. CASE Exit \/ Crash
    BY <1>3, DieKeeps DEF Exit, Crash
  <1>4. ASSUME NEW c \in Clients, Call(c) \/ CallStep(c) PROVE IInv'
    <2>1. c \in Task /\ c # scheduler
      BY DEF Task
    <2>2. CASE Call(c) BY <2>2, CallKeeps
    <2>3. CASE Store(c) BY <2>3, StoreKeeps
    <2>4. CASE Mirror(c) BY <2>4, MirrorKeeps
    <2>5. CASE NotifyOne(c) BY <2>5, NotifyKeeps
    <2>6. CASE CopyStep(c) BY <2>1, <2>6, CopyStepKeeps
    <2>7. CASE CallFails(c)
      <3>1. task[c].at = "store" /\ Finish(c)
            /\ UNCHANGED <<daemon, tables, memory, permit, current, dir, now, calls>>
        BY <2>7 DEF CallFails, At
      <3> QED
        BY <2>1, <3>1, FinishKeeps
    <2> QED
      BY <1>4, <2>2, <2>3, <2>4, <2>5, <2>6, <2>7 DEF CallStep
  <1>5. CASE SchedulerStep
    BY <1>5, SchedulerKeeps
  <1>6. CASE Command
    BY <1>6, CommandKeeps
  <1>7. CASE CopyStep(cli)
    <2>1. cli \in Task
      BY DEF Task
    <2> QED
      BY <1>7, <2>1, CopyStepKeeps
  <1>8. CASE StepWallClock
    <2>1. now' \in 1..MaxTime
          /\ UNCHANGED <<daemon, tables, memory, permit, current, task, dir, calls>>
      BY <1>8 DEF StepWallClock
    <2> QED
      BY <2>1 DEF IInv, TypeOK, SchedulerOK, Follows, ReadClamped, At, tables, memory
  <1>9. CASE UNCHANGED vars
    BY <1>9 DEF vars, IInv, TypeOK, SchedulerOK, Follows, ReadClamped, At, tables, memory
  <1> QED
    BY <1>1, <1>2, <1>3, <1>4, <1>5, <1>6, <1>7, <1>8, <1>9 DEF Next

(* The inductive invariant holds of every run of the daemon, its clients   *)
(* and the command line.                                                   *)
THEOREM InvariantHolds == Spec => []IInv
  <1> QED
    BY InitEstablishes, NextKeeps, PTL DEF Spec

(* Whatever clients send, a stored backup setting and the scheduler's copy *)
(* of it respect their floors, and every task is in a state the code has.  *)
THEOREM TypesHold == Spec => []TypeOK
  <1>1. IInv => TypeOK
    BY DEF IInv
  <1> QED
    BY <1>1, InvariantHolds, PTL

(* A scheduler that waits without a permit goes by what is in memory, for  *)
(* any number of setters and whatever it was doing when they ran.          *)
THEOREM SchedulerFollows == Spec => []SchedulerFollowsConfig
  <1>1. IInv => SchedulerFollowsConfig
    BY DEF IInv, Follows, SchedulerFollowsConfig, Loop, At
  <1> QED
    BY <1>1, InvariantHolds, PTL

(* However many prunes run at once, to whatever counts, a backup is deleted *)
(* only while a newer one stays.                                           *)
THEOREM NewestIsKept == Spec => NewestSnapshotKept
  <1> DEFINE Kept == \A n \in DOMAIN dir \ DOMAIN dir' : \E m \in DOMAIN dir' : m > n
  <1>1. IInv /\ [Next]_vars => [Kept]_vars
    <2> SUFFICES ASSUME IInv, Next PROVE Kept
      BY DEF vars
    <2>1. ASSUME NEW t \in Task, CopyStep(t) PROVE Kept
      <3>1. CASE RemoveNext(t)
        BY <3>1, RemoveNextKeeps
      <3>2. CASE OpenCopy(t)
        BY <3>2 DEF OpenCopy, Opened
      <3>3. CASE CopyDone(t)
        BY <3>3 DEF CopyDone, Filled
      <3>4. CASE ReadRetention(t) \/ CopyFails(t) \/ ListDoomed(t) \/ RemoveFails(t)
        BY <3>4 DEF ReadRetention, CopyFails, ListDoomed, RemoveFails
      <3>5. CASE RetentionUnread(t)
        BY <3>5 DEF RetentionUnread
      <3> QED
        BY <2>1, <3>1, <3>2, <3>3, <3>4, <3>5 DEF CopyStep
    <2>2. CASE \E t \in Task : CopyStep(t)
      BY <2>1, <2>2
    <2>3. CASE dir' = dir
      BY <2>3
    <2>4. dir' = dir \/ \E t \in Task : CopyStep(t)
      <3>1. scheduler \in Task /\ cli \in Task /\ Clients \subseteq Task
        BY DEF Task
      <3>2. CASE Boot \/ Shutdown \/ Exit \/ Crash \/ StepWallClock
        BY <3>2 DEF Boot, Shutdown, Exit, Crash, Die, StepWallClock
      <3>3. ASSUME NEW c \in Clients, Call(c) PROVE dir' = dir
        BY <3>3 DEF Call, Begin
      <3>4. ASSUME NEW c \in Clients, CallStep(c)
            PROVE  dir' = dir \/ \E t \in Task : CopyStep(t)
        BY <3>1, <3>4 DEF CallStep, Store, CallFails, Mirror, NotifyOne
      <3>5. CASE SchedulerStep
        BY <3>1, <3>5 DEF SchedulerStep, TakePermit, Reload, Tick, FinalSnapshot, RunOnce
      <3>6. CASE Command
        BY <3>6 DEF Command, Begin
      <3>7. CASE CopyStep(cli)
        BY <3>1, <3>7
      <3> QED
        BY <3>2, <3>3, <3>4, <3>5, <3>6, <3>7 DEF Next
    <2> QED
      BY <2>2, <2>3, <2>4
  <1>2. [][Kept]_vars => NewestSnapshotKept
    BY DEF NewestSnapshotKept
  <1> QED
    BY <1>1, <1>2, InvariantHolds, PTL DEF Spec
-----------------------------------------------------------------------------
(* The two homes of a setting, when calls are made one at a time: they     *)
(* differ only in what the one call between its writes is about to write,  *)
(* and that is already in the table.  A daemon that is down has no calls.  *)

OneCaller == \A c, d \in Clients : c = d

Mirroring(c, op) == task[c].at = "mirror" /\ task[c].op = op

Written(x) ==
  /\ x.op \in Setting => stored[x.op] = x.arg
  /\ x.op = "block" => x.arg \in rows
  /\ x.op = "unblock" => x.arg \notin rows

HomesOK ==
  /\ \A s \in Setting \ misread :
       config[s] = stored[s] \/ \E c \in Clients : Mirroring(c, s)
  /\ "blocklist" \notin misread =>
       \A k \in GameKey :
         \/ k \in blocklist <=> k \in rows
         \/ \E c \in Clients :
              (Mirroring(c, "block") \/ Mirroring(c, "unblock")) /\ task[c].arg = k

CallersOK ==
  /\ daemon = "down" => \A c \in Clients : task[c].at = "idle"
  /\ \A c \in Clients : task[c].at = "mirror" => Written(task[c])

MirrorOK == CallersOK /\ (daemon # "down" => HomesOK)

(* A step of a task that is not between its two writes. *)
LEMMA ElsewhereMirrors ==
  ASSUME IInv, MirrorOK, NEW t \in Task, NEW x, x.at # "mirror",
         task' = [task EXCEPT ![t] = x], task[t].at # "mirror",
         t \in Clients /\ task[t].at = "idle" => daemon # "down",
         UNCHANGED <<daemon, tables, memory>>
  PROVE  MirrorOK'
  <1>1. task \in [Task -> TaskState] /\ Clients \subseteq Task
    BY DEF IInv, TypeOK, Task
  <1>2. task'[t] = x /\ \A u \in Task \ {t} : task'[u] = task[u]
    BY <1>1
  <1>3. UNCHANGED <<stored, rows, config, blocklist, misread>>
    BY DEF tables, memory
  <1>4. \A c \in Clients : task'[c] = task[c] \/ (c = t /\ task'[c].at # "mirror")
    BY <1>1, <1>2
  <1>5. \A c \in Clients : task[c].at = "mirror" => task'[c] = task[c]
    BY <1>1, <1>2
  <1>6. CallersOK'
    <2>1. daemon' = "down" => \A c \in Clients : task'[c].at = "idle"
      BY <1>1, <1>2 DEF MirrorOK, CallersOK
    <2>2. ASSUME NEW c \in Clients, task'[c].at = "mirror"
          PROVE  Written(task[c])'
      <3>1. task'[c] = task[c] /\ task[c].at = "mirror"
        BY <1>4, <2>2
      <3> QED
        BY <1>3, <3>1 DEF MirrorOK, CallersOK, Written
    <2> QED
      BY <2>1, <2>2 DEF CallersOK
  <1>7. daemon' # "down" => HomesOK'
    BY <1>3, <1>5 DEF MirrorOK, HomesOK, Mirroring
  <1> QED
    BY <1>6, <1>7 DEF MirrorOK

(* What a snapshot, a prune or the scheduler does to its own state. *)
LEMMA FinishLeavesMirror ==
  ASSUME NEW t \in Task, Finish(t)
  PROVE  \E x : x.at # "mirror" /\ task' = [task EXCEPT ![t] = x]
  <1> DEFINE x == IF t = scheduler /\ task[t].op # "final"
                  THEN Doing("select", "none", 0) ELSE Idle
  <1>1. x.at # "mirror"
    BY IdleIsSound
  <1>2. task' = [task EXCEPT ![t] = x]
    BY DEF Finish
  <1> QED
    BY <1>1, <1>2

LEMMA CopyLeavesMirror ==
  ASSUME NEW t \in Task, CopyStep(t)
  PROVE  /\ \E x : x.at # "mirror" /\ task' = [task EXCEPT ![t] = x]
         /\ task[t].at \notin {"mirror", "idle"}
         /\ UNCHANGED <<daemon, tables, memory>>
  <1>1. CASE ReadRetention(t)
    BY <1>1 DEF ReadRetention, At, Doing
  <1>2. CASE RetentionUnread(t)
    BY <1>2, FinishLeavesMirror DEF RetentionUnread, At, Doing
  <1>3. CASE OpenCopy(t)
    BY <1>3, FinishLeavesMirror DEF OpenCopy, At, Doing, Copying
  <1>4. CASE CopyDone(t)
    BY <1>4 DEF CopyDone, At, Goto, Doing
  <1>5. CASE CopyFails(t) \/ RemoveFails(t)
    BY <1>5, FinishLeavesMirror DEF CopyFails, RemoveFails, At
  <1>6. CASE ListDoomed(t)
    BY <1>6, FinishLeavesMirror DEF ListDoomed, At, Doing, Deleting
  <1>7. CASE RemoveNext(t)
    BY <1>7, FinishLeavesMirror DEF RemoveNext, At, Doing, Deleting
  <1> QED
    BY <1>1, <1>2, <1>3, <1>4, <1>5, <1>6, <1>7 DEF CopyStep

LEMMA CopyMirrors ==
  ASSUME IInv, MirrorOK, NEW t \in Task, CopyStep(t)
  PROVE  MirrorOK'
  BY CopyLeavesMirror, ElsewhereMirrors

LEMMA SchedulerMirrors ==
  ASSUME IInv, MirrorOK, SchedulerStep
  PROVE  MirrorOK'
  <1>1. scheduler \in Task /\ scheduler \notin Clients
    BY DEF Task
  <1>2. CASE CopyStep(scheduler)
    BY <1>1, <1>2, CopyMirrors
  <1>3. CASE TakePermit \/ Reload \/ Tick \/ FinalSnapshot
    <2>1. /\ \E x : x.at # "mirror" /\ task' = [task EXCEPT ![scheduler] = x]
          /\ task[scheduler].at # "mirror"
          /\ UNCHANGED <<daemon, tables, memory>>
      BY <1>3 DEF TakePermit, Reload, Tick, FinalSnapshot, RunOnce, At, Goto, Doing
    <2> QED
      BY <1>1, <2>1, ElsewhereMirrors
  <1> QED
    BY <1>2, <1>3 DEF SchedulerStep

(* A call is made of a daemon that is up, or a command, which is no client. *)
LEMMA BeginMirrors ==
  ASSUME IInv, MirrorOK, NEW t \in Task, NEW op, NEW arg,
         NEW stage, stage # "mirror", Begin(t, op, arg, stage),
         t \in Clients => daemon # "down"
  PROVE  MirrorOK'
  <1>1. /\ Doing(stage, op, arg).at # "mirror" /\ task[t].at # "mirror"
        /\ task' = [task EXCEPT ![t] = Doing(stage, op, arg)]
        /\ UNCHANGED <<daemon, tables, memory>>
    BY DEF Begin, At, Doing
  <1> QED
    BY <1>1, ElsewhereMirrors

(* The table is written: of the one caller, hence with both homes the same *)
(* but for what it wrote.                                                  *)
LEMMA StoreMirrors ==
  ASSUME OneCaller, IInv, MirrorOK, NEW c \in Clients, Store(c)
  PROVE  MirrorOK'
  <1>1. task \in [Task -> TaskState] /\ c \in Task /\ Clients = {c}
    BY DEF IInv, TypeOK, Task, OneCaller
  <1> DEFINE op == task[c].op
             arg == task[c].arg
  <1>2. task[c].at = "store" /\ daemon # "down"
    BY DEF Store, At, MirrorOK, CallersOK
  <1>3. op \in Setting \cup {"block", "unblock"}
    BY <1>1, <1>2 DEF IInv, Sound
  <1>4. /\ task'[c].at = "mirror" /\ task'[c].op = op /\ task'[c].arg = arg
        /\ UNCHANGED <<daemon, config, blocklist, misread>>
    BY <1>1 DEF Store, Goto, Doing, memory
  <1>5. /\ \A s \in Setting \ misread : config[s] = stored[s]
        /\ "blocklist" \notin misread =>
             \A k \in GameKey : k \in blocklist <=> k \in rows
    BY <1>1, <1>2 DEF MirrorOK, HomesOK, Mirroring
  <1>6. Setting \cap {"block", "unblock"} = {}
    OBVIOUS
  <1>7. CASE op \in {"block", "unblock"}
    <2>1. /\ stored' = stored
          /\ \A k \in GameKey : k # arg => (k \in rows' <=> k \in rows)
          /\ op = "block" => arg \in rows'
          /\ op = "unblock" => arg \notin rows'
      BY <1>7 DEF Store
    <2>2. Written(task[c])'
      BY <1>4, <1>6, <1>7, <2>1 DEF Written
    <2>3. HomesOK'
      BY <1>1, <1>4, <1>5, <1>7, <2>1 DEF HomesOK, Mirroring
    <2> QED
      BY <1>1, <1>2, <1>4, <2>2, <2>3 DEF MirrorOK, CallersOK
  <1>8. CASE op \in Setting
    <2>1. stored' = [stored EXCEPT ![op] = arg] /\ rows' = rows
      BY <1>6, <1>8 DEF Store
    <2>2. stored \in [Setting -> Nat]
      BY DEF IInv, TypeOK
    <2>3. stored'[op] = arg /\ \A s \in Setting : s # op => stored'[s] = stored[s]
      BY <1>8, <2>1, <2>2
    <2>4. Written(task[c])'
      BY <1>4, <1>6, <1>8, <2>3 DEF Written
    <2>5. HomesOK'
      BY <1>1, <1>4, <1>5, <2>1, <2>3 DEF HomesOK, Mirroring
    <2> QED
      BY <1>1, <1>2, <1>4, <2>4, <2>5 DEF MirrorOK, CallersOK
  <1> QED
    BY <1>3, <1>7, <1>8

(* Memory follows, and the homes agree. *)
LEMMA MirrorMirrors ==
  ASSUME OneCaller, IInv, MirrorOK, NEW c \in Clients, Mirror(c)
  PROVE  MirrorOK'
  <1>1. task \in [Task -> TaskState] /\ c \in Task /\ Clients = {c}
    BY DEF IInv, TypeOK, Task, OneCaller
  <1> DEFINE op == task[c].op
             arg == task[c].arg
  <1>2. task[c].at = "mirror" /\ daemon # "down"
    BY DEF Mirror, At, MirrorOK, CallersOK
  <1>3. op \in Setting \cup {"block", "unblock"}
    BY <1>1, <1>2 DEF IInv, Sound
  <1>4. Written(task[c])
    BY <1>2 DEF MirrorOK, CallersOK
  <1>5. /\ \A s \in Setting \ misread : config[s] = stored[s] \/ s = op
        /\ "blocklist" \notin misread =>
             \A k \in GameKey :
               (k \in blocklist <=> k \in rows) \/ (op \in {"block", "unblock"} /\ k = arg)
    BY <1>1, <1>2 DEF MirrorOK, HomesOK, Mirroring
  <1>6. Setting \cap {"block", "unblock"} = {} /\ "blocklist" \notin Setting
    OBVIOUS
  <1>7. /\ task'[c].at # "mirror" /\ UNCHANGED <<daemon, stored, rows>>
    <2>1. \E x : x.at # "mirror" /\ task' = [task EXCEPT ![c] = x]
      BY <1>1, FinishLeavesMirror DEF Mirror, Goto, Doing
    <2> QED
      BY <1>1, <2>1 DEF Mirror, tables
  <1>8. CallersOK'
    BY <1>1, <1>2, <1>7 DEF CallersOK
  <1>9. HomesOK'
    <2>1. CASE op \in {"block", "unblock"}
      <3>1. /\ UNCHANGED <<config, misread>>
            /\ \A k \in GameKey : k # arg => (k \in blocklist' <=> k \in blocklist)
            /\ arg \in blocklist' <=> op = "block"
        BY <2>1 DEF Mirror
      <3>2. arg \in rows <=> op = "block"
        BY <1>4, <2>1 DEF Written
      <3>3. \A s \in Setting \ misread' : config'[s] = stored'[s]
        BY <1>5, <1>6, <1>7, <2>1, <3>1
      <3>4. "blocklist" \notin misread' => \A k \in GameKey : k \in blocklist' <=> k \in rows'
        BY <1>5, <1>7, <3>1, <3>2
      <3> QED
        BY <3>3, <3>4 DEF HomesOK
    <2>2. CASE op \in Setting
      <3>1. /\ config' = [config EXCEPT ![op] = arg] /\ misread' = misread \ {op}
            /\ blocklist' = blocklist
        BY <1>6, <2>2 DEF Mirror
      <3>2. config \in [Setting -> Nat] /\ stored[op] = arg
        BY <1>4, <2>2 DEF IInv, TypeOK, Written
      <3>3. \A s \in Setting \ misread' : config'[s] = stored'[s]
        BY <1>5, <1>7, <2>2, <3>1, <3>2
      <3>4. "blocklist" \notin misread' => \A k \in GameKey : k \in blocklist' <=> k \in rows'
        BY <1>5, <1>6, <1>7, <2>2, <3>1
      <3> QED
        BY <3>3, <3>4 DEF HomesOK
    <2> QED
      BY <1>3, <2>1, <2>2
  <1> QED
    BY <1>8, <1>9 DEF MirrorOK

LEMMA CallMirrors ==
  ASSUME OneCaller, IInv, MirrorOK, NEW c \in Clients, Call(c) \/ CallStep(c)
  PROVE  MirrorOK'
  <1>1. c \in Task
    BY DEF Task
  <1>2. CASE Call(c)
    BY <1>1, <1>2, BeginMirrors DEF Call
  <1>3. CASE Store(c)
    BY <1>3, StoreMirrors
  <1>4. CASE Mirror(c)
    BY <1>4, MirrorMirrors
  <1>5. CASE CallFails(c) \/ NotifyOne(c)
    <2>1. /\ \E x : x.at # "mirror" /\ task' = [task EXCEPT ![c] = x]
          /\ task[c].at \notin {"mirror", "idle"}
          /\ UNCHANGED <<daemon, tables, memory>>
      BY <1>1, <1>5, FinishLeavesMirror DEF CallFails, NotifyOne, At, Goto, Doing
    <2> QED
      BY <1>1, <2>1, ElsewhereMirrors
  <1>6. CASE CopyStep(c)
    BY <1>1, <1>6, CopyMirrors
  <1> QED
    BY <1>2, <1>3, <1>4, <1>5, <1>6 DEF CallStep

(* A start reads what it can, with no call under way. *)
LEMMA BootMirrors ==
  ASSUME IInv, MirrorOK, Boot
  PROVE  MirrorOK'
  <1>1. task \in [Task -> TaskState] /\ Clients \subseteq Task \ {scheduler}
    BY DEF IInv, TypeOK, Task
  <1>2. PICK bad \in Unreadable :
          /\ misread' = bad
          /\ config' = [s \in Setting |-> IF s \in bad THEN Default(s) ELSE stored[s]]
          /\ blocklist' = IF "blocklist" \in bad THEN {} ELSE rows
    BY DEF Boot
  <1>3. daemon = "down" /\ daemon' = "up" /\ UNCHANGED <<stored, rows>>
    BY DEF Boot, tables
  <1>4. \A c \in Clients : task'[c] = task[c] /\ task[c].at = "idle"
    BY <1>1, <1>3 DEF Boot, Goto, MirrorOK, CallersOK
  <1>5. CallersOK'
    BY <1>3, <1>4 DEF CallersOK
  <1>6. HomesOK'
    BY <1>2, <1>3 DEF HomesOK
  <1> QED
    BY <1>5, <1>6 DEF MirrorOK

LEMMA NextMirrors ==
  ASSUME OneCaller
  PROVE  IInv /\ MirrorOK /\ [Next]_vars => MirrorOK'
  <1> SUFFICES ASSUME IInv, MirrorOK, [Next]_vars PROVE MirrorOK'
    OBVIOUS
  <1>1. CASE Boot
    BY <1>1, BootMirrors
  <1>2. CASE Shutdown \/ StepWallClock \/ UNCHANGED vars
    <2>1. /\ daemon = "down" <=> daemon' = "down"
          /\ UNCHANGED <<stored, rows, config, blocklist, misread, task>>
      BY <1>2 DEF Shutdown, StepWallClock, vars, tables, memory
    <2> QED
      BY <2>1 DEF MirrorOK, CallersOK, HomesOK, Mirroring, Written
  <1>3. CASE Exit \/ Crash
    <2>1. /\ daemon' = "down"
          /\ task' = [t \in Task |-> IF t = cli THEN task[cli] ELSE Idle]
      BY <1>3 DEF Exit, Crash, Die
    <2>2. \A c \in Clients : task'[c].at = "idle"
      BY <2>1, IdleIsSound DEF Task
    <2> QED
      BY <2>1, <2>2 DEF MirrorOK, CallersOK
  <1>4. CASE \E c \in Clients : Call(c) \/ CallStep(c)
    BY <1>4, CallMirrors
  <1>5. CASE SchedulerStep
    BY <1>5, SchedulerMirrors
  <1>6. CASE Command \/ CopyStep(cli)
    <2>1. cli \in Task /\ cli \notin Clients
      BY DEF Task
    <2> QED
      BY <1>6, <2>1, BeginMirrors, CopyMirrors DEF Command
  <1> QED
    BY <1>1, <1>2, <1>3, <1>4, <1>5, <1>6 DEF Next

(* What the daemon obeys and what the next start will load are the same    *)
(* (dbus.rs: table first, then memory), for any settings, failures and     *)
(* crashes, while one call at a time is made; nothing of the kind holds of *)
(* two.                                                                    *)
THEOREM MirrorsHold == OneCaller => (Spec => []MirrorsAgree)
  <1> SUFFICES ASSUME OneCaller PROVE Spec => []MirrorsAgree
    OBVIOUS
  <1>1. Init => MirrorOK
    <2> SUFFICES ASSUME Init PROVE MirrorOK
      OBVIOUS
    <2>1. daemon = "down" /\ \A c \in Clients : task[c] = Idle
      BY DEF Init, Task
    <2> QED
      BY <2>1, IdleIsSound DEF MirrorOK, CallersOK
  <1>2. IInv /\ MirrorOK => MirrorsAgree
    <2> SUFFICES ASSUME IInv, MirrorOK, daemon # "down", Between = {}
                 PROVE  /\ \A s \in Setting \ misread : config[s] = stored[s]
                        /\ "blocklist" \notin misread => blocklist = rows
      BY DEF MirrorsAgree
    <2>1. \A c \in Clients : task[c].at # "mirror"
      BY DEF Between, At
    <2>2. /\ \A s \in Setting \ misread : config[s] = stored[s]
          /\ "blocklist" \notin misread => \A k \in GameKey : k \in blocklist <=> k \in rows
      BY <2>1 DEF MirrorOK, HomesOK, Mirroring
    <2>3. blocklist \subseteq GameKey /\ rows \subseteq GameKey
      BY DEF IInv, TypeOK
    <2> QED
      BY <2>2, <2>3
  <1>3. IInv /\ MirrorOK /\ [Next]_vars => MirrorOK'
    BY NextMirrors
  <1> QED
    BY <1>1, <1>2, <1>3, InvariantHolds, PTL DEF Spec
=============================================================================
