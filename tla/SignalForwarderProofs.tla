----------------------- MODULE SignalForwarderProofs -------------------------
(***************************************************************************)
(* That the tray shows the session, for every set of applications, every   *)
(* table to begin with, any number of sessions and lives of the daemon and *)
(* any capacity of the channel: TrayShowsTheSession of SignalForwarder.tla.*)
(*                                                                         *)
(* The argument follows the news: while nothing the code overlooks has     *)
(* happened, notifications are in the order of what they tell wherever     *)
(* they are, so that the last one tells how things are - in the channel,   *)
(* then in the streams, which of the two being told by its place in time,  *)
(* then in the tray's updates, and in the end in the icon.                 *)
(*                                                                         *)
(* And that the lists and days clients are shown are those of the table,   *)
(* whatever rows there are: ListsShowPlays, in the second half.  A table   *)
(* is listed in the order of its rows' ranks, the fold cuts a list into    *)
(* runs, and the runs are the plays.  From the order of the list follows   *)
(* what the tray is answered when it asks for the newest.                  *)
(***************************************************************************)
EXTENDS SignalForwarder, SequenceTheorems, FiniteSums

-----------------------------------------------------------------------------
(* TypeOK, in parts.                                                       *)

RowsOK ==
  /\ rows \subseteq [id : 1..lastId, app : Application, start : Nat,
                     end : Nat \cup {Running}, full : Int]
  /\ lastId \in Nat /\ now \in Nat

DaemonOK ==
  /\ daemon \in {"down", "booting", "up"} /\ boots \in Nat
  /\ owner = IF daemon = "down" THEN Nobody ELSE boots
  /\ daemon = "down" \/ boots > 0

ChannelOK == channel \in Seq(Note) /\ (daemon = "up" \/ channel = << >>)

StreamsOK ==  bound \in [Signal -> 0..boots] /\ streams \in [Signal -> Seq(Note)]

GuiOK ==
  /\ bus \in {"absent", "present", "dead"} /\ reconnect \in BOOLEAN
  /\ forwarder \in {"proxy", "started", "ended", "owner", "listening", "await", "exited"}
  /\ changed \in BOOLEAN /\ (changed => forwarder = "listening")

UpdatesOK ==
  /\ updates \in Seq([kind : Signal \cup {"disconnected", "reconnected"}, at : Nat])
  /\ answer \in {"none", "idle", "active"}
  /\ answer = "none" \/ (updates # << >> /\ Head(updates).kind = "reconnected")

IconOK ==
  /\ spawned \in BOOLEAN /\ icon \in {"idle", "active"} /\ (spawned \/ icon = "idle")
  /\ blurred \in BOOLEAN /\ deaf \in BOOLEAN

LEMMA TypesInParts ==
  TypeOK <=> /\ RowsOK /\ DaemonOK /\ ChannelOK /\ StreamsOK /\ GuiOK /\ UpdatesOK /\ IconOK
  BY Zenon DEF TypeOK, RowsOK, DaemonOK, ChannelOK, StreamsOK, GuiOK, UpdatesOK, IconOK

(* The steps that touch no row, and those that do.                         *)
LEMMA RowsStep == ASSUME RowsOK, [Next]_vars PROVE RowsOK' /\ lastId' \in Nat /\ lastId' >= lastId
  <1>1. CASE StartSession
    <2>1. PICK a \in Apps :
            /\ now' = now + 1 /\ lastId' = lastId + 1
            /\ rows' = rows \cup {[id |-> lastId', app |-> a, start |-> now', end |-> Running,
                                   full |-> 0]}
      BY <1>1 DEF StartSession
    <2>2. a \in Application
      BY DEF Application
    <2>3. lastId \in Nat /\ now \in Nat /\ 1..lastId \subseteq 1..lastId' /\ lastId' \in 1..lastId'
          /\ now' \in Nat /\ lastId' \in Nat
      BY <2>1 DEF RowsOK
    <2>4. [id |-> lastId', app |-> a, start |-> now', end |-> Running, full |-> 0] \in
            [id : 1..lastId', app : Application, start : Nat, end : Nat \cup {Running}, full : Int]
      BY <2>2, <2>3
    <2>5. rows \subseteq [id : 1..lastId', app : Application, start : Nat,
                          end : Nat \cup {Running}, full : Int]
      BY <2>3 DEF RowsOK
    <2> QED
      BY <2>1, <2>3, <2>4, <2>5 DEF RowsOK
  <1>2. CASE EndSession
    <2>1. PICK row \in OpenRows : now' = now + 1 /\ rows' = (rows \ {row}) \cup {Closed(row, now')}
                                  /\ lastId' = lastId
      BY <1>2 DEF EndSession
    <2>2. row \in [id : 1..lastId, app : Application, start : Nat, end : Nat \cup {Running}, full : Int]
      BY DEF RowsOK, OpenRows
    <2>3. now' \in Nat /\ now' - row.start \in Int
      BY <2>1, <2>2 DEF RowsOK
    <2>4. Closed(row, now') \in
            [id : 1..lastId, app : Application, start : Nat, end : Nat \cup {Running}, full : Int]
      BY <2>2, <2>3 DEF Closed
    <2> QED
      BY <2>1, <2>3, <2>4 DEF RowsOK
  <1>3. CASE Recover
    <2>1. PICK beat \in {0, now} :
            /\ rows' = (rows \ OpenRows) \cup
                 {Closed(row, IF beat < row.start THEN row.start ELSE beat) : row \in OpenRows}
            /\ lastId' = lastId /\ now' = now
      BY <1>3 DEF Recover
    <2>2. beat \in Nat
      BY DEF RowsOK
    <2>3. ASSUME NEW row \in OpenRows
          PROVE  Closed(row, IF beat < row.start THEN row.start ELSE beat) \in
                   [id : 1..lastId, app : Application, start : Nat, end : Nat \cup {Running}, full : Int]
      <3>1. row \in [id : 1..lastId, app : Application, start : Nat, end : Nat \cup {Running}, full : Int]
        BY DEF RowsOK, OpenRows
      <3> DEFINE at == IF beat < row.start THEN row.start ELSE beat
      <3>2. at \in Nat /\ at - row.start \in Int
        BY <2>2, <3>1
      <3> HIDE DEF at
      <3>3. Closed(row, at) \in
              [id : 1..lastId, app : Application, start : Nat, end : Nat \cup {Running}, full : Int]
        BY <3>1, <3>2 DEF Closed
      <3> QED
        BY <3>3 DEF at
    <2>4. rows' \subseteq
            [id : 1..lastId, app : Application, start : Nat, end : Nat \cup {Running}, full : Int]
      BY <2>1, <2>3 DEF RowsOK
    <2> QED
      BY <2>1, <2>4 DEF RowsOK
  <1>4. CASE UNCHANGED dbVars
    BY <1>4 DEF dbVars, RowsOK
  <1>5. StartSession \/ EndSession \/ Recover \/ UNCHANGED dbVars
    BY DEF Next, Daemon, Boot, Emit, Die, BusDies, Forwarder, BuildProxy, Subscribe, SubscribeOwner,
       Forward, OwnerChanged, StreamsClosed, WaitForService, Spawn, Tray, TooltipStarted,
       TooltipEnded, Reconcile, Reconciled, vars
  <1> QED
    BY <1>1, <1>2, <1>3, <1>4, <1>5

LEMMA DaemonStep == ASSUME DaemonOK, [Next]_vars PROVE DaemonOK' /\ boots' >= boots
  <1>1. CASE Boot
    BY <1>1, ForwarderAssumption DEF Boot, Owned, DaemonOK, Nobody
  <1>2. CASE Die
    BY <1>2 DEF Die, Owned, DaemonOK
  <1>3. CASE Recover
    BY <1>3 DEF Recover, DaemonOK
  <1>4. CASE UNCHANGED <<daemon, owner, boots>>
    BY <1>4 DEF DaemonOK
  <1>5. Boot \/ Die \/ Recover \/ UNCHANGED <<daemon, owner, boots>>
    BY DEF Next, Daemon, StartSession, EndSession, Emit, BusDies, Forwarder, BuildProxy, Subscribe,
       SubscribeOwner, Forward, OwnerChanged, StreamsClosed, WaitForService, Spawn, Tray,
       TooltipStarted, TooltipEnded, Reconcile, Reconciled, vars, daemonVars
  <1> QED
    BY <1>1, <1>2, <1>3, <1>4, <1>5

LEMMA NotesStay ==
  ASSUME lastId \in Nat, lastId' \in Nat, lastId' >= lastId
  PROVE  Note \subseteq Note'
  <1>1. 0..(2 * lastId + 1) \subseteq 0..(2 * lastId' + 1)
    <2>1. \A m, n \in Nat : m <= n => 0..(2 * m + 1) \subseteq 0..(2 * n + 1)
      OBVIOUS
    <2> QED
      BY <2>1
  <1> QED
    BY <1>1 DEF Note

LEMMA NotifyKeepsChannel ==
  ASSUME NEW N, NEW n \in N, channel \in Seq(N), Notify(n)
  PROVE  channel' \in Seq(N) /\ (Refused => channel' = channel)
         /\ (~Refused => channel' = Append(channel, n))
  <1>1. Append(channel, n) \in Seq(N) /\ Len(channel) \in Nat
    OBVIOUS
  <1> QED
    BY <1>1, ForwarderAssumption DEF Notify, Refused

LEMMA ChannelStep == ASSUME RowsOK, ChannelOK, DaemonOK, [Next]_vars PROVE ChannelOK'
  <1>1. channel \in Seq(Note')
    <2>1. Note \subseteq Note'
      BY RowsStep, NotesStay DEF RowsOK
    <2> QED
      BY <2>1 DEF ChannelOK
  <1>2. CASE StartSession
    <2>1. /\ Notify([kind |-> "started", at |-> 2 * lastId'])
          /\ daemon = "up" /\ daemon' = "up" /\ lastId' = lastId + 1
      BY <1>2 DEF StartSession
    <2>2. [kind |-> "started", at |-> 2 * lastId'] \in Note'
      BY <2>1 DEF RowsOK, Note, Signal
    <2> QED
      BY <1>1, <2>1, <2>2, NotifyKeepsChannel DEF ChannelOK
  <1>3. CASE EndSession
    <2>1. PICK row \in OpenRows : Notify([kind |-> "ended", at |-> 2 * row.id + 1])
      BY <1>3 DEF EndSession
    <2>2. row.id \in 1..lastId /\ lastId \in Nat /\ lastId' = lastId
      BY <1>3 DEF EndSession, OpenRows, RowsOK
    <2>3. 2 * row.id + 1 \in 0..(2 * lastId' + 1)
      BY <2>2
    <2>4. [kind |-> "ended", at |-> 2 * row.id + 1] \in Note'
      BY <2>3 DEF Note, Signal
    <2>5. channel' \in Seq(Note')
      BY <1>1, <2>1, <2>4, NotifyKeepsChannel
    <2> QED
      BY <1>3, <2>5 DEF EndSession, ChannelOK
  <1>4. CASE Emit
    <2>1. channel # << >> /\ channel' = Tail(channel) /\ daemon = "up" /\ daemon' = daemon
      BY <1>4 DEF Emit
    <2>2. Tail(channel) \in Seq(Note')
      BY <1>1, <2>1
    <2> QED
      BY <2>1, <2>2 DEF ChannelOK
  <1>5. CASE Die
    BY <1>5 DEF Die, ChannelOK
  <1>6. CASE Boot \/ Recover
    BY <1>1, <1>6 DEF Boot, Recover, ChannelOK
  <1>7. CASE UNCHANGED <<daemon, channel>>
    BY <1>1, <1>7 DEF ChannelOK
  <1>8. \/ StartSession \/ EndSession \/ Emit \/ Die \/ Boot \/ Recover
        \/ UNCHANGED <<daemon, channel>>
    BY DEF Next, Daemon, BusDies, Forwarder, BuildProxy, Subscribe,
       SubscribeOwner, Forward, OwnerChanged, StreamsClosed, WaitForService, Spawn, Tray,
       TooltipStarted, TooltipEnded, Reconcile, Reconciled, vars, daemonVars
  <1> QED
    BY <1>2, <1>3, <1>4, <1>5, <1>6, <1>7, <1>8

(* What the forwarder may do to its streams.                               *)
LEMMA StreamMoves ==
  ASSUME [Next]_vars
  PROVE  \/ UNCHANGED <<bound, streams>>
         \/ Emit \/ Subscribe \/ Forward
         \/ bound' = Unbound /\ streams' = Silent
  BY DEF Next, Daemon, Boot, Recover, StartSession, EndSession, Die, BusDies, Forwarder, BuildProxy,
     SubscribeOwner, OwnerChanged, StreamsClosed, WaitForService, Spawn, Tray, Rebuild,
     TooltipStarted, TooltipEnded, Reconcile, Reconciled, vars, busVars

LEMMA StreamsStep ==
  ASSUME RowsOK, DaemonOK, ChannelOK, StreamsOK, [Next]_vars PROVE StreamsOK'
  <1>1. Note \subseteq Note' /\ boots \in Nat /\ boots' \in Nat /\ boots <= boots'
    BY RowsStep, DaemonStep, NotesStay DEF RowsOK, DaemonOK
  <1>2. bound \in [Signal -> 0..boots'] /\ streams \in [Signal -> Seq(Note')]
    <2>1. 0..boots \subseteq 0..boots' /\ Seq(Note) \subseteq Seq(Note')
      BY <1>1
    <2> QED
      BY <2>1 DEF StreamsOK
  <1>3. CASE UNCHANGED <<bound, streams>>
    BY <1>2, <1>3 DEF StreamsOK
  <1>4. CASE Emit
    <2>1. Head(channel) \in Note'
      BY <1>1, <1>4 DEF Emit, ChannelOK
    <2>2. Head(channel).kind \in Signal
      BY <2>1 DEF Note
    <2>3. Append(streams[Head(channel).kind], Head(channel)) \in Seq(Note')
      BY <1>2, <2>1, <2>2
    <2>4. \/ streams' = streams
          \/ streams' = [streams EXCEPT ![Head(channel).kind] =
                           Append(streams[Head(channel).kind], Head(channel))]
      BY <1>4 DEF Emit
    <2>5. streams' \in [Signal -> Seq(Note')]
      BY <1>2, <2>2, <2>3, <2>4
    <2>6. bound' = bound
      BY <1>4 DEF Emit
    <2> QED
      BY <1>2, <2>5, <2>6 DEF StreamsOK
  <1>5. CASE bound' = Unbound /\ streams' = Silent
    <2>1. << >> \in Seq(Note') /\ 0 \in 0..boots'
      BY <1>1
    <2> QED
      BY <1>5, <2>1 DEF StreamsOK, Unbound, Silent, Nobody
  <1>6. CASE Subscribe
    <2>1. CASE bus = "present"
      <3>1. bound' = [bound EXCEPT ![forwarder] = owner] /\ streams' = streams
        BY <1>6, <2>1 DEF Subscribe
      <3>2. owner \in 0..boots'
        BY <1>1 DEF DaemonOK, Nobody
      <3> QED
        BY <1>2, <3>1, <3>2 DEF StreamsOK
    <2>2. CASE bus # "present"
      BY <1>5, <1>6, <2>2 DEF Subscribe, Rebuild
    <2> QED
      BY <2>1, <2>2
  <1>7. CASE Forward
    <2>1. PICK k \in Signal : streams[k] # << >> /\ streams' = [streams EXCEPT ![k] = Tail(@)]
                              /\ bound' = bound
      BY <1>7 DEF Forward
    <2>2. Tail(streams[k]) \in Seq(Note')
      BY <1>2, <2>1
    <2> QED
      BY <1>2, <2>1, <2>2 DEF StreamsOK
  <1> QED
    BY <1>3, <1>4, <1>5, <1>6, <1>7, StreamMoves

LEMMA GuiStep == ASSUME GuiOK, [Next]_vars PROVE GuiOK'
  <1>1. CASE Boot \/ Die
    BY <1>1 DEF Boot, Die, Owned, GuiOK, guiVars
  <1>2. CASE BusDies
    BY <1>2 DEF BusDies, GuiOK, busVars
  <1>3. CASE BuildProxy
    BY <1>3 DEF BuildProxy, Rebuild, GuiOK, busVars
  <1>4. CASE Subscribe
    BY <1>4 DEF Subscribe, Rebuild, GuiOK, Signal
  <1>5. CASE SubscribeOwner
    BY <1>5 DEF SubscribeOwner, Rebuild, GuiOK, busVars
  <1>6. CASE OwnerChanged \/ StreamsClosed
    BY <1>6 DEF OwnerChanged, StreamsClosed, Rebuild, GuiOK
  <1>7. CASE WaitForService
    BY <1>7 DEF WaitForService, GuiOK, busVars
  <1>8. CASE UNCHANGED <<bus, reconnect, forwarder, changed>>
    BY <1>8 DEF GuiOK
  <1>9. \/ Boot \/ Die \/ BusDies \/ BuildProxy \/ Subscribe \/ SubscribeOwner
        \/ OwnerChanged \/ StreamsClosed \/ WaitForService
        \/ UNCHANGED <<bus, reconnect, forwarder, changed>>
    BY DEF Next, Daemon, Recover, StartSession, EndSession, Emit, Forwarder, Forward, Spawn, Tray,
       TooltipStarted, TooltipEnded, Reconcile, Reconciled, vars, guiVars, busVars
  <1> QED
    BY <1>1, <1>2, <1>3, <1>4, <1>5, <1>6, <1>7, <1>8, <1>9

(* What becomes of the tray's updates.                                     *)
LEMMA UpdateMoves ==
  ASSUME [Next]_vars
  PROVE  \/ UNCHANGED <<updates, answer>>
         \/ UNCHANGED answer /\ (Push("disconnected", 0) \/ Push("reconnected", 0))
         \/ Forward \/ TooltipStarted \/ TooltipEnded \/ Reconcile \/ Reconciled
  <1>1. CASE BuildProxy \/ Subscribe \/ SubscribeOwner
    BY <1>1 DEF BuildProxy, Subscribe, SubscribeOwner, Rebuild, busVars
  <1>2. CASE OwnerChanged \/ StreamsClosed
    BY <1>2 DEF OwnerChanged, StreamsClosed, Rebuild
  <1>3. \/ UNCHANGED <<updates, answer>> \/ BuildProxy \/ Subscribe \/ SubscribeOwner
        \/ OwnerChanged \/ StreamsClosed
        \/ Forward \/ TooltipStarted \/ TooltipEnded \/ Reconcile \/ Reconciled
    BY DEF Next, Daemon, Boot, Recover, StartSession, EndSession, Emit, Die, BusDies, Forwarder,
       WaitForService, Spawn, Tray, vars, trayVars
  <1> QED
    BY <1>1, <1>2, <1>3

LEMMA AppendKeepsHead ==
  ASSUME NEW S, NEW s \in Seq(S), NEW e \in S
  PROVE  /\ Append(s, e) \in Seq(S) /\ Append(s, e) # << >>
         /\ s # << >> => Head(Append(s, e)) = Head(s)
  <1>1. Append(s, e) \in Seq(S) /\ Len(Append(s, e)) = Len(s) + 1 /\ Len(s) \in Nat
    OBVIOUS
  <1>2. s # << >> => Len(s) > 0 /\ Append(s, e)[1] = s[1]
    OBVIOUS
  <1> QED
    BY <1>1, <1>2

LEMMA UpdatesStep ==
  ASSUME RowsOK, StreamsOK, UpdatesOK, [Next]_vars PROVE UpdatesOK'
  <1> DEFINE U == [kind : Signal \cup {"disconnected", "reconnected"}, at : Nat]
  <1>1. CASE UNCHANGED <<updates, answer>>
    BY <1>1 DEF UpdatesOK
  <1>2. ASSUME NEW kind \in Signal \cup {"disconnected", "reconnected"}, NEW at \in Nat,
               Push(kind, at), UNCHANGED answer
        PROVE  UpdatesOK'
    <2>1. [kind |-> kind, at |-> at] \in U
      OBVIOUS
    <2>2. updates' = Append(updates, [kind |-> kind, at |-> at]) /\ updates \in Seq(U)
      BY <1>2 DEF Push, UpdatesOK
    <2> HIDE DEF U
    <2>3. updates' \in Seq(U) /\ updates' # << >> /\ (updates # << >> => Head(updates') = Head(updates))
      BY <2>1, <2>2, AppendKeepsHead
    <2> QED
      BY <1>2, <2>3 DEF UpdatesOK, U
  <1>3. CASE UNCHANGED answer /\ (Push("disconnected", 0) \/ Push("reconnected", 0))
    BY <1>2, <1>3
  <1>4. CASE Forward
    <2>1. PICK k \in Signal : streams[k] # << >> /\ Push(k, Head(streams[k]).at) /\ UNCHANGED answer
      BY <1>4 DEF Forward
    <2>2. Head(streams[k]) \in Note
      BY <2>1 DEF StreamsOK
    <2>3. Head(streams[k]).at \in Nat
      BY <2>2 DEF Note, RowsOK
    <2> QED
      BY <1>2, <2>1, <2>3
  <1>5. CASE TooltipStarted \/ TooltipEnded
    <2>1. updates # << >> /\ updates' = Tail(updates) /\ answer = "none" /\ answer' = answer
      BY <1>5 DEF TooltipStarted, TooltipEnded
    <2> QED
      BY <2>1 DEF UpdatesOK
  <1>6. CASE Reconcile
    BY <1>6 DEF Reconcile, UpdatesOK, ActiveSession
  <1>7. CASE Reconciled
    <2>1. updates # << >> /\ updates' = Tail(updates) /\ answer' = "none"
      BY <1>7 DEF Reconciled, UpdatesOK
    <2> QED
      BY <2>1 DEF UpdatesOK
  <1> QED
    BY <1>1, <1>3, <1>4, <1>5, <1>6, <1>7, UpdateMoves

LEMMA IconStep == ASSUME UpdatesOK, IconOK, [Next]_vars PROVE IconOK'
  <1>1. CASE TooltipStarted
    BY <1>1 DEF TooltipStarted, ApplySession, IconOK
  <1>2. CASE TooltipEnded
    BY <1>2 DEF TooltipEnded, ApplySession, IconOK
  <1>3. CASE Reconciled
    BY <1>3 DEF Reconciled, ApplySession, IconOK, UpdatesOK
  <1>4. CASE Reconcile
    BY <1>4 DEF Reconcile, Settled, IconOK
  <1>5. CASE StartSession \/ EndSession
    BY <1>5 DEF StartSession, EndSession, Refused, trayVars, IconOK
  <1>6. CASE Boot \/ Die
    BY <1>6 DEF Boot, Die, Owned, trayVars, IconOK
  <1>7. CASE Emit
    BY <1>7 DEF Emit, trayVars, IconOK
  <1>8. CASE BuildProxy
    BY <1>8 DEF BuildProxy, IconOK
  <1>9. CASE SubscribeOwner
    BY <1>9 DEF SubscribeOwner, Rebuild, IconOK
  <1>10. CASE Forward
    BY <1>10 DEF Forward, Overtakes, IconOK
  <1>11. CASE Spawn
    BY <1>11 DEF Spawn, IconOK
  <1>12. CASE UNCHANGED <<spawned, icon, blurred, deaf>>
    BY <1>12 DEF IconOK
  <1>13. \/ TooltipStarted \/ TooltipEnded \/ Reconciled \/ Reconcile \/ StartSession \/ EndSession
         \/ Boot \/ Die \/ Emit \/ BuildProxy \/ SubscribeOwner \/ Forward \/ Spawn
         \/ UNCHANGED <<spawned, icon, blurred, deaf>>
    BY DEF Next, Daemon, Recover, BusDies, Forwarder, Subscribe, OwnerChanged, StreamsClosed,
       WaitForService, Tray, vars, trayVars
  <1> QED
    BY <1>1, <1>2, <1>3, <1>4, <1>5, <1>6, <1>7, <1>8, <1>9, <1>10, <1>11, <1>12, <1>13

LEMMA TypesStep == ASSUME TypeOK, [Next]_vars PROVE TypeOK'
  <1>1. /\ RowsOK' /\ DaemonOK' /\ ChannelOK' /\ StreamsOK' /\ GuiOK' /\ UpdatesOK' /\ IconOK'
    BY TypesInParts, RowsStep, DaemonStep, ChannelStep, StreamsStep, GuiStep, UpdatesStep, IconStep
  <1> QED
    BY Zenon, <1>1 DEF TypeOK, RowsOK, DaemonOK, ChannelOK, StreamsOK, GuiOK, UpdatesOK, IconOK

LEMMA InitTyped == Init => TypeOK
  <1> SUFFICES ASSUME Init PROVE TypeOK
    OBVIOUS
  <1>1. /\ IsFiniteSet(rows) /\ lastId = Cardinality(rows)
        /\ rows \subseteq [id : 1..Cardinality(rows), app : {row.app : row \in rows},
                           start : Nat, end : Nat, full : Nat]
    BY ForwarderAssumption DEF Init
  <1>2. lastId \in Nat
    BY <1>1, FS_CardinalityType
  <1>3. now \in Nat
    BY <1>1 DEF Init
  <1>4. {row.app : row \in rows} \subseteq Application
    BY DEF Init, Application
  <1>5. RowsOK
    BY <1>1, <1>2, <1>3, <1>4 DEF RowsOK
  <1>6. DaemonOK /\ GuiOK /\ IconOK
    BY DEF Init, DaemonOK, GuiOK, IconOK
  <1>7. StreamsOK /\ ChannelOK /\ UpdatesOK
    <2>1. \A S : << >> \in Seq(S)
      OBVIOUS
    <2> QED
      BY <2>1 DEF Init, StreamsOK, ChannelOK, UpdatesOK, Unbound, Silent, Nobody
  <1> QED
    BY <1>5, <1>6, <1>7, TypesInParts

-----------------------------------------------------------------------------
(* The streams and the name's owner.                                       *)

(* The forwarder has a stream, and nothing came between it and the name's  *)
(* owner since it has.                                                     *)
Tuned == forwarder \in {"ended", "owner", "listening"} /\ ~changed /\ ~deaf

TunedOK ==
  /\ forwarder \in {"proxy", "started", "await", "exited"} => streams = Silent /\ bound = Unbound
  /\ Tuned => bound["started"] = owner
  /\ Tuned /\ forwarder # "ended" => bound["ended"] = owner
  /\ Tuned /\ daemon # "up" => streams = Silent
  /\ deaf /\ forwarder = "listening" => blurred

(* Steps of the daemon, the bus and the desktop leave the forwarder be. *)
LEMMA DaemonKeeps ==
  ASSUME Recover \/ StartSession \/ EndSession
  PROVE  /\ daemon' = "up" /\ daemon \in {"booting", "up"}
         /\ UNCHANGED <<owner, bound, streams, changed, forwarder, deaf, reconnect, updates, bus>>
         /\ UNCHANGED <<boots, answer, spawned, icon>>
  <1>1. CASE Recover
    BY <1>1 DEF Recover, busVars, guiVars, trayVars
  <1>2. CASE StartSession
    BY <1>2 DEF StartSession, busVars, guiVars, trayVars
  <1>3. CASE EndSession
    BY <1>3 DEF EndSession, busVars, guiVars, trayVars
  <1> QED
    BY <1>1, <1>2, <1>3

(* The tray's leave the others be. *)
LEMMA TrayKeeps ==
  ASSUME TooltipStarted \/ TooltipEnded \/ Reconcile \/ Reconciled
  PROVE  UNCHANGED <<rows, lastId, daemon, owner, boots, channel, bound, streams, changed, bus,
                     forwarder, reconnect, spawned, deaf>>
  <1>1. CASE TooltipStarted
    BY <1>1 DEF TooltipStarted, dbVars, daemonVars, busVars, guiVars
  <1>2. CASE TooltipEnded
    BY <1>2 DEF TooltipEnded, dbVars, daemonVars, busVars, guiVars
  <1>3. CASE Reconcile
    BY <1>3 DEF Reconcile, dbVars, daemonVars, busVars, guiVars
  <1>4. CASE Reconciled
    BY <1>4 DEF Reconciled, dbVars, daemonVars, busVars, guiVars
  <1> QED
    BY <1>1, <1>2, <1>3, <1>4

(* Only a reconciliation mends what is blurred. *)
LEMMA BlurOfTheSteps ==
  ASSUME blurred, [Next]_vars PROVE blurred' \/ (Reconcile /\ Settled)
  <1>1. CASE Boot \/ Die \/ Recover \/ BusDies \/ Spawn \/ UNCHANGED vars
    BY <1>1 DEF Boot, Die, Recover, BusDies, Spawn, vars
  <1>2. CASE StartSession
    BY Zenon, <1>2 DEF StartSession
  <1>3. CASE EndSession
    BY Zenon, <1>3 DEF EndSession
  <1>4. CASE Emit
    BY Zenon, <1>4 DEF Emit
  <1>5. CASE BuildProxy \/ Subscribe \/ OwnerChanged \/ StreamsClosed \/ WaitForService
    BY <1>5 DEF BuildProxy, Subscribe, OwnerChanged, StreamsClosed, WaitForService
  <1>6. CASE SubscribeOwner
    BY Zenon, <1>6 DEF SubscribeOwner
  <1>7. CASE Forward
    BY Zenon, <1>7 DEF Forward
  <1>8. CASE TooltipStarted \/ TooltipEnded \/ Reconciled
    BY Zenon, <1>8 DEF TooltipStarted, TooltipEnded, Reconciled, ApplySession
  <1>9. CASE Reconcile
    BY Zenon, <1>9 DEF Reconcile
  <1> QED
    BY <1>1, <1>2, <1>3, <1>4, <1>5, <1>6, <1>7, <1>8, <1>9 DEF Next, Daemon, Forwarder, Tray

LEMMA BlurLasts ==
  ASSUME blurred, [Next]_vars, answer' = answer \/ answer' = "none" PROVE blurred'
  BY BlurOfTheSteps DEF Reconcile, ActiveSession

LEMMA TunedStep == ASSUME TypeOK, TunedOK, [Next]_vars PROVE TunedOK'
  <1> USE DEF Tuned
  <1>1. DaemonOK /\ GuiOK /\ StreamsOK /\ IconOK
    BY TypesInParts
  <1>2. CASE Boot \/ Die
    BY <1>2 DEF Boot, Die, Owned, TunedOK, guiVars
  <1>3. CASE Recover \/ StartSession \/ EndSession
    <2>1. UNCHANGED <<owner, bound, streams, changed, forwarder, deaf>> /\ daemon' = "up"
      BY <1>3, DaemonKeeps
    <2>2. blurred => blurred'
      BY <1>3, DaemonKeeps, BlurLasts
    <2> QED
      BY <2>1, <2>2 DEF TunedOK
  <1>4. CASE Emit
    <2>1. /\ daemon = "up" /\ daemon' = daemon /\ bound' = bound /\ owner' = owner
          /\ forwarder' = forwarder /\ changed' = changed /\ deaf' = deaf /\ (blurred => blurred')
      BY <1>4 DEF Emit, daemonVars, guiVars
    <2>2. forwarder \in {"proxy", "started", "await", "exited"} => streams' = streams
      <3>1. SUFFICES ASSUME bound = Unbound PROVE streams' = streams
        BY DEF TunedOK
      <3>2. \A k \in Signal : bound[k] # owner
        BY <1>1, <2>1, <3>1 DEF Unbound, Nobody, DaemonOK
      <3> QED
        BY <1>4, <3>2 DEF Emit
    <2> QED
      BY <2>1, <2>2 DEF TunedOK
  <1>5. CASE BusDies \/ Spawn
    BY <1>5 DEF BusDies, Spawn, TunedOK, busVars, daemonVars, guiVars
  <1>6. CASE BuildProxy
    BY <1>6 DEF BuildProxy, Rebuild, TunedOK, busVars, daemonVars
  <1>7. CASE Subscribe
    <2>1. CASE bus = "present" /\ forwarder = "started"
      <3>1. bound'["started"] = owner
        BY <1>1, <1>7, <2>1 DEF Subscribe, StreamsOK, Signal
      <3> QED
        BY <1>7, <2>1, <3>1 DEF Subscribe, TunedOK, daemonVars
    <2>2. CASE bus = "present" /\ forwarder = "ended"
      <3>1. bound'["ended"] = owner /\ bound'["started"] = bound["started"]
        BY <1>1, <1>7, <2>2 DEF Subscribe, StreamsOK, Signal
      <3> QED
        BY <1>7, <2>2, <3>1 DEF Subscribe, TunedOK, daemonVars
    <2>3. CASE bus # "present"
      BY <1>7, <2>3 DEF Subscribe, Rebuild, TunedOK, daemonVars
    <2> QED
      BY <1>7, <2>1, <2>2, <2>3 DEF Subscribe, Signal
  <1>8. CASE SubscribeOwner
    BY <1>1, <1>8 DEF SubscribeOwner, Rebuild, TunedOK, busVars, daemonVars, IconOK
  <1>9. CASE Forward
    <2>1. PICK k \in Signal : streams[k] # << >>
      BY <1>9 DEF Forward
    <2>2. streams # Silent
      BY <2>1 DEF Silent
    <2>3. /\ forwarder = "listening"
          /\ UNCHANGED <<daemon, owner, bound, changed, forwarder, deaf>> /\ (blurred => blurred')
      BY <1>9 DEF Forward, daemonVars, guiVars
    <2> QED
      BY <2>2, <2>3 DEF TunedOK
  <1>10. CASE OwnerChanged \/ StreamsClosed
    <2>1. streams' = Silent /\ bound' = Unbound /\ forwarder' \in {"proxy", "exited"}
      BY <1>10 DEF OwnerChanged, StreamsClosed, Rebuild
    <2> QED
      BY <2>1 DEF TunedOK, Silent, Unbound
  <1>11. CASE WaitForService
    BY <1>11 DEF WaitForService, TunedOK, daemonVars, busVars
  <1>12. CASE TooltipStarted \/ TooltipEnded \/ Reconciled
    <2>1. answer' = answer \/ answer' = "none"
      BY <1>12 DEF TooltipStarted, TooltipEnded, Reconciled
    <2>2. blurred => blurred'
      BY <2>1, BlurLasts
    <2>3. UNCHANGED <<daemon, owner, bound, streams, changed, forwarder, deaf>>
      BY <1>12, TrayKeeps
    <2> QED
      BY <2>2, <2>3 DEF TunedOK
  <1>13. CASE Reconcile
    <2>1. UNCHANGED <<daemon, owner, bound, streams, changed, forwarder, deaf>>
      BY <1>13 DEF Reconcile, daemonVars, busVars, guiVars
    <2>2. deaf => ~Settled
      BY DEF Settled
    <2>3. deaf /\ blurred => blurred'
      BY Zenon, <1>13, <2>2 DEF Reconcile
    <2> QED
      BY <2>1, <2>3 DEF TunedOK
  <1>14. CASE UNCHANGED vars
    BY <1>14 DEF vars, TunedOK, daemonVars, busVars, guiVars
  <1> QED
    BY <1>2, <1>3, <1>4, <1>5, <1>6, <1>7, <1>8, <1>9, <1>10, <1>11, <1>12, <1>13, <1>14
    DEF Next, Daemon, Forwarder, Tray

-----------------------------------------------------------------------------
(* The updates, before and after the first reconnection.                   *)

ReconnectOK ==
  /\ ~reconnect => \A i \in DOMAIN updates : updates[i].kind # "reconnected"
  /\ ~reconnect /\ forwarder \notin {"await", "exited"} =>
       \A i \in DOMAIN updates : updates[i].kind \in Signal
  /\ forwarder = "listening" /\ updates # << >> => updates[Len(updates)].kind # "disconnected"
  /\ forwarder = "listening" /\ ~reconnect /\ ~changed /\ ~blurred => daemon = "down"

LEMMA ElementsOfAppend ==
  ASSUME NEW S, NEW s \in Seq(S), NEW e \in S
  PROVE  /\ Len(Append(s, e)) = Len(s) + 1 /\ Append(s, e)[Len(s) + 1] = e /\ Len(s) \in Nat
         /\ \A i \in DOMAIN Append(s, e) : i = Len(s) + 1 \/ (i \in DOMAIN s /\ Append(s, e)[i] = s[i])
         /\ \A i \in DOMAIN s : i \in DOMAIN Append(s, e) /\ Append(s, e)[i] = s[i]
         /\ Len(s) + 1 \in DOMAIN Append(s, e)
  OBVIOUS

LEMMA ElementsOfTail ==
  ASSUME NEW S, NEW s \in Seq(S), s # << >>
  PROVE  /\ Tail(s) \in Seq(S) /\ Len(Tail(s)) = Len(s) - 1 /\ Len(s) \in Nat /\ Len(s) > 0
         /\ \A i \in DOMAIN Tail(s) : i + 1 \in DOMAIN s /\ Tail(s)[i] = s[i + 1] /\ i \in Nat
         /\ Tail(s) # << >> => Tail(s)[Len(Tail(s))] = s[Len(s)]
         /\ Head(s) = s[1] /\ 1 \in DOMAIN s
  OBVIOUS

LEMMA PushedUpdate ==
  ASSUME UpdatesOK, NEW kind \in Signal \cup {"disconnected", "reconnected"}, NEW at \in Nat,
         Push(kind, at)
  PROVE  /\ updates' # << >> /\ Len(updates') = Len(updates) + 1 /\ Len(updates) \in Nat
         /\ updates'[Len(updates')].kind = kind
         /\ \A i \in DOMAIN updates' :
              updates'[i].kind = kind \/ (i \in DOMAIN updates /\ updates'[i] = updates[i])
  <1> DEFINE U == [kind : Signal \cup {"disconnected", "reconnected"}, at : Nat]
             e == [kind |-> kind, at |-> at]
  <1>1. updates \in Seq(U) /\ e \in U /\ e.kind = kind /\ updates' = Append(updates, e)
    BY DEF UpdatesOK, Push
  <1> HIDE DEF U, e
  <1>2. /\ Len(updates') = Len(updates) + 1 /\ updates'[Len(updates) + 1] = e /\ Len(updates) \in Nat
        /\ \A i \in DOMAIN updates' :
             i = Len(updates) + 1 \/ (i \in DOMAIN updates /\ updates'[i] = updates[i])
    BY <1>1, ElementsOfAppend
  <1>3. updates' # << >>
    BY <1>2
  <1> QED
    BY <1>1, <1>2, <1>3

LEMMA ConsumedUpdate ==
  ASSUME UpdatesOK, updates # << >>, updates' = Tail(updates)
  PROVE  /\ Len(updates') = Len(updates) - 1 /\ Len(updates) \in Nat \ {0}
         /\ \A i \in DOMAIN updates' : i + 1 \in DOMAIN updates /\ updates'[i] = updates[i + 1]
         /\ updates' # << >> => updates'[Len(updates')] = updates[Len(updates)]
         /\ updates' = << >> => Head(updates) = updates[Len(updates)] /\ Len(updates) = 1
         /\ Head(updates) = updates[1] /\ 1 \in DOMAIN updates
  <1> DEFINE U == [kind : Signal \cup {"disconnected", "reconnected"}, at : Nat]
  <1>1. updates \in Seq(U)
    BY DEF UpdatesOK
  <1> HIDE DEF U
  <1>2. /\ Len(updates') = Len(updates) - 1 /\ Len(updates) \in Nat /\ Len(updates) > 0
        /\ \A i \in DOMAIN updates' : i + 1 \in DOMAIN updates /\ updates'[i] = updates[i + 1]
        /\ updates' # << >> => updates'[Len(updates')] = updates[Len(updates)]
        /\ Head(updates) = updates[1] /\ 1 \in DOMAIN updates
    BY <1>1, ElementsOfTail
  <1>3. updates' = << >> => Len(updates) = 1
    BY <1>2
  <1> QED
    BY <1>2, <1>3

LEMMA ReconnectStep == ASSUME TypeOK, ReconnectOK, [Next]_vars PROVE ReconnectOK'
  <1>1. RowsOK /\ DaemonOK /\ GuiOK /\ StreamsOK /\ UpdatesOK /\ IconOK
    BY TypesInParts
  <1>2. CASE Boot \/ Die
    BY <1>2 DEF Boot, Die, Owned, ReconnectOK, guiVars, trayVars
  <1>3. CASE Recover \/ StartSession \/ EndSession \/ Emit \/ BusDies \/ Spawn
    <2>1. UNCHANGED <<updates, reconnect, forwarder, changed, answer>>
      <3>1. CASE Recover \/ StartSession \/ EndSession
        BY <3>1, DaemonKeeps
      <3>2. CASE Emit \/ BusDies \/ Spawn
        BY <3>2 DEF Emit, BusDies, Spawn, busVars, guiVars, trayVars
      <3> QED
        BY <1>3, <3>1, <3>2
    <2>2. daemon = "down" => daemon' = "down"
      BY <1>3, DaemonKeeps DEF Emit, BusDies, Spawn, daemonVars
    <2>3. blurred => blurred'
      BY <2>1, BlurLasts
    <2> QED
      BY <2>1, <2>2, <2>3 DEF ReconnectOK
  <1>4. ASSUME Push("disconnected", 0), forwarder' \in {"proxy", "await", "exited"},
               forwarder' # "proxy" \/ reconnect', reconnect => reconnect'
        PROVE  ReconnectOK'
    <2>1. \A i \in DOMAIN updates' :
            updates'[i].kind = "disconnected" \/ (i \in DOMAIN updates /\ updates'[i] = updates[i])
      BY <1>1, <1>4, PushedUpdate
    <2> QED
      BY <1>4, <2>1 DEF ReconnectOK
  <1>5. CASE BuildProxy
    <2>1. CASE bus = "present"
      BY <1>5, <2>1 DEF BuildProxy, ReconnectOK, busVars, daemonVars
    <2>2. CASE bus # "present"
      BY <1>4, <1>5, <2>2 DEF BuildProxy, Rebuild
    <2> QED
      BY <2>1, <2>2
  <1>6. CASE Subscribe
    <2>1. CASE bus = "present"
      <3>1. UNCHANGED <<updates, reconnect>> /\ forwarder' \in {"ended", "owner"}
            /\ forwarder \in {"started", "ended"}
        BY <1>6, <2>1 DEF Subscribe, Signal
      <3> QED
        BY <3>1 DEF ReconnectOK
    <2>2. CASE bus # "present"
      BY <1>4, <1>6, <2>2 DEF Subscribe, Rebuild
    <2> QED
      BY <2>1, <2>2
  <1>7. CASE SubscribeOwner
    <2>1. CASE bus = "present" /\ reconnect
      <3>1. /\ Push("reconnected", 0) /\ forwarder' = "listening" /\ reconnect' = reconnect
        BY <1>7, <2>1 DEF SubscribeOwner
      <3>2. updates'[Len(updates')].kind = "reconnected"
        BY <1>1, <3>1, PushedUpdate
      <3> QED
        BY <2>1, <3>1, <3>2 DEF ReconnectOK
    <2>2. CASE bus = "present" /\ ~reconnect
      <3>1. /\ updates' = updates /\ forwarder = "owner" /\ reconnect' = reconnect
            /\ ~blurred' => daemon' = "down"
        BY <1>7, <2>2 DEF SubscribeOwner, daemonVars
      <3>2. updates # << >> => Len(updates) \in DOMAIN updates
        BY <1>1 DEF UpdatesOK
      <3> QED
        BY <2>2, <3>1, <3>2 DEF ReconnectOK, Signal
    <2>3. CASE bus # "present"
      BY <1>4, <1>7, <2>3 DEF SubscribeOwner, Rebuild
    <2> QED
      BY <2>1, <2>2, <2>3
  <1>8. CASE Forward
    <2>1. PICK k \in Signal : /\ streams[k] # << >> /\ Push(k, Head(streams[k]).at)
                              /\ blurred' = (blurred \/ Overtakes(k))
      BY <1>8 DEF Forward
    <2>2. UNCHANGED <<reconnect, forwarder, changed, daemon>>
      BY <1>8 DEF Forward, guiVars, daemonVars
    <2>3. Head(streams[k]).at \in Nat
      <3>1. Head(streams[k]) \in Note
        BY <1>1, <2>1 DEF StreamsOK
      <3> QED
        BY <1>1, <3>1 DEF Note, RowsOK
    <2>4. /\ updates'[Len(updates')].kind = k
          /\ \A i \in DOMAIN updates' :
               updates'[i].kind = k \/ (i \in DOMAIN updates /\ updates'[i] = updates[i])
      BY <1>1, <2>1, <2>3, PushedUpdate
    <2>5. k # "disconnected" /\ k # "reconnected"
      BY DEF Signal
    <2> QED
      BY <2>1, <2>2, <2>4, <2>5 DEF ReconnectOK
  <1>9. CASE OwnerChanged \/ StreamsClosed
    BY <1>4, <1>9 DEF OwnerChanged, StreamsClosed, Rebuild
  <1>10. CASE WaitForService
    BY <1>10 DEF WaitForService, ReconnectOK, daemonVars, busVars, trayVars
  <1>11. CASE TooltipStarted \/ TooltipEnded \/ Reconciled
    <2>1. /\ updates # << >> /\ updates' = Tail(updates) /\ (blurred => blurred')
          /\ UNCHANGED <<reconnect, forwarder, changed, daemon>>
      BY <1>1, <1>11 DEF TooltipStarted, TooltipEnded, Reconciled, ApplySession, daemonVars,
         busVars, guiVars, UpdatesOK
    <2>2. /\ \A i \in DOMAIN updates' : i + 1 \in DOMAIN updates /\ updates'[i] = updates[i + 1]
          /\ updates' # << >> => updates'[Len(updates')] = updates[Len(updates)]
      BY <1>1, <2>1, ConsumedUpdate
    <2> QED
      BY <2>1, <2>2 DEF ReconnectOK
  <1>12. CASE Reconcile
    <2>1. /\ updates # << >> /\ updates' = updates /\ Head(updates).kind = "reconnected"
          /\ UNCHANGED <<reconnect, forwarder, changed, daemon>>
      BY <1>12 DEF Reconcile, daemonVars, busVars, guiVars
    <2>2. 1 \in DOMAIN updates /\ Head(updates) = updates[1]
      BY <1>1, <2>1 DEF UpdatesOK
    <2>3. reconnect
      BY <2>1, <2>2 DEF ReconnectOK
    <2> QED
      BY <2>1, <2>3 DEF ReconnectOK
  <1>13. CASE UNCHANGED vars
    BY <1>13 DEF vars, ReconnectOK, daemonVars, busVars, guiVars, trayVars
  <1> QED
    BY <1>2, <1>3, <1>5, <1>6, <1>7, <1>8, <1>9, <1>10, <1>11, <1>12, <1>13
    DEF Next, Daemon, Forwarder, Tray

-----------------------------------------------------------------------------
(* Notifications in their order.                                           *)

AnyNote == [kind : Signal, at : Nat]

Rising(s) == \A i, j \in DOMAIN s : i < j => s[i].at < s[j].at
Behind(s, b) == \A i \in DOMAIN s : s[i].at < b

LEMMA AppendedNote ==
  ASSUME NEW s \in Seq(AnyNote), NEW e \in AnyNote, NEW b \in Nat
  PROVE  /\ Append(s, e) \in Seq(AnyNote)
         /\ Rising(s) /\ Behind(s, e.at) => Rising(Append(s, e))
         /\ Behind(s, b) /\ e.at < b => Behind(Append(s, e), b)
  <1>1. Append(s, e) \in Seq(AnyNote)
    OBVIOUS
  <1> HIDE DEF AnyNote
  <1>2. /\ Append(s, e)[Len(s) + 1] = e /\ Len(s) \in Nat /\ DOMAIN s = 1..Len(s)
        /\ DOMAIN Append(s, e) = 1..Len(s) + 1
        /\ \A i \in DOMAIN s : i \in DOMAIN Append(s, e) /\ Append(s, e)[i] = s[i]
    OBVIOUS
  <1>3. ASSUME Rising(s), Behind(s, e.at) PROVE Rising(Append(s, e))
    <2>1. SUFFICES ASSUME NEW i \in DOMAIN Append(s, e), NEW j \in DOMAIN Append(s, e), i < j
                   PROVE  Append(s, e)[i].at < Append(s, e)[j].at
      BY DEF Rising
    <2>2. i \in DOMAIN s /\ (j \in DOMAIN s \/ j = Len(s) + 1)
      BY <1>2, <2>1
    <2> QED
      BY <1>2, <1>3, <2>1, <2>2 DEF Rising, Behind
  <1>4. ASSUME Behind(s, b), e.at < b PROVE Behind(Append(s, e), b)
    <2>1. SUFFICES ASSUME NEW i \in DOMAIN Append(s, e) PROVE Append(s, e)[i].at < b
      BY DEF Behind
    <2>2. i \in DOMAIN s \/ i = Len(s) + 1
      BY <1>2, <2>1
    <2> QED
      BY <1>2, <1>4, <2>2 DEF Behind
  <1> QED
    BY <1>1, <1>3, <1>4

LEMMA RestOfNotes ==
  ASSUME NEW s \in Seq(AnyNote), s # << >>, NEW b \in Nat
  PROVE  /\ Tail(s) \in Seq(AnyNote) /\ Head(s) \in AnyNote
         /\ Rising(s) => Rising(Tail(s))
         /\ Rising(s) => \A i \in DOMAIN Tail(s) : Head(s).at < Tail(s)[i].at
         /\ Behind(s, b) => Behind(Tail(s), b) /\ Head(s).at < b
  <1>1. Tail(s) \in Seq(AnyNote) /\ Head(s) \in AnyNote
    OBVIOUS
  <1> HIDE DEF AnyNote
  <1>2. /\ \A i \in DOMAIN Tail(s) : i + 1 \in DOMAIN s /\ Tail(s)[i] = s[i + 1] /\ i \in Nat /\ i > 0
        /\ Head(s) = s[1] /\ 1 \in DOMAIN s
    OBVIOUS
  <1>3. ASSUME Rising(s) PROVE Rising(Tail(s))
    BY <1>2, <1>3 DEF Rising
  <1>4. ASSUME Rising(s), NEW i \in DOMAIN Tail(s) PROVE Head(s).at < Tail(s)[i].at
    <2>1. 1 < i + 1
      BY <1>2
    <2> QED
      BY <1>2, <1>4, <2>1 DEF Rising
  <1>5. ASSUME Behind(s, b) PROVE Behind(Tail(s), b) /\ Head(s).at < b
    BY <1>2, <1>5 DEF Behind
  <1> QED
    BY <1>1, <1>3, <1>4, <1>5

LEMMA NoteElements ==
  ASSUME NEW s \in Seq(AnyNote), s # << >>
  PROVE  /\ Head(s) = s[1] /\ 1 \in DOMAIN s /\ Head(s) \in AnyNote
         /\ \A i \in DOMAIN Tail(s) : i + 1 \in DOMAIN s /\ Tail(s)[i] = s[i + 1]
         /\ \A i \in DOMAIN s : i # 1 => i - 1 \in DOMAIN Tail(s) /\ Tail(s)[i - 1] = s[i]
         /\ Tail(s) # << >> => Tail(s)[Len(Tail(s))] = s[Len(s)]
         /\ Tail(s) = << >> => Len(s) = 1
  <1>1. /\ Head(s) = s[1] /\ 1 \in DOMAIN s
        /\ \A i \in DOMAIN Tail(s) : i + 1 \in DOMAIN s /\ Tail(s)[i] = s[i + 1]
        /\ Tail(s) # << >> => Tail(s)[Len(Tail(s))] = s[Len(s)]
        /\ Len(Tail(s)) = Len(s) - 1 /\ Len(s) \in Nat
    BY ElementsOfTail
  <1>2. Head(s) \in AnyNote
    OBVIOUS
  <1>3. Tail(s) = << >> => Len(s) = 1
    <2> DEFINE t == Tail(s)
    <2>1. Len(t) = Len(s) - 1 /\ Len(s) \in Nat
      BY <1>1
    <2> HIDE DEF t
    <2>2. t = << >> => Len(t) = 0
      OBVIOUS
    <2>3. t = << >> => Len(s) = 1
      BY <2>1, <2>2
    <2> QED
      BY <2>3 DEF t
  <1>4. \A i \in DOMAIN s : i # 1 => i - 1 \in DOMAIN Tail(s) /\ Tail(s)[i - 1] = s[i]
    OBVIOUS
  <1> QED
    BY <1>1, <1>2, <1>3, <1>4

LEMMA NotesOfTypes ==
  ASSUME TypeOK
  PROVE  /\ lastId \in Nat
         /\ channel \in Seq(AnyNote) /\ Behind(channel, 2 * lastId + 2)
         /\ \A k \in Signal : streams[k] \in Seq(AnyNote) /\ Behind(streams[k], 2 * lastId + 2)
  <1>1. lastId \in Nat /\ channel \in Seq(Note) /\ \A k \in Signal : streams[k] \in Seq(Note)
    BY DEF TypeOK
  <1>2. ASSUME NEW s \in Seq(Note) PROVE s \in Seq(AnyNote) /\ Behind(s, 2 * lastId + 2)
    <2>1. \A i \in DOMAIN s : s[i] \in Note
      OBVIOUS
    <2>2. \A e \in Note : e \in AnyNote /\ e.at < 2 * lastId + 2
      BY <1>1 DEF Note, AnyNote
    <2>3. s \in Seq(AnyNote)
      <3>1. Len(s) \in Nat /\ DOMAIN s = 1..Len(s) /\ s = [i \in 1..Len(s) |-> s[i]]
        OBVIOUS
      <3>2. \A i \in 1..Len(s) : s[i] \in AnyNote
        BY <2>1, <2>2, <3>1
      <3> HIDE DEF AnyNote
      <3> QED
        BY <3>1, <3>2, IsASeq
    <2> QED
      BY <2>1, <2>2, <2>3 DEF Behind
  <1> QED
    BY <1>1, <1>2

(* What is under way is in the order it happened, and before the end of a  *)
(* session that is open alone.                                             *)
OrderOK ==
  /\ Rising(channel) /\ \A k \in Signal : Rising(streams[k])
  /\ \A k \in Signal : \A j \in DOMAIN channel : Behind(streams[k], channel[j].at)
  /\ \A row \in OpenRows : OpenRows = {row} =>
       Behind(channel, 2 * row.id + 1) /\ \A k \in Signal : Behind(streams[k], 2 * row.id + 1)

Tells(kind, open) == (kind = "started") <=> (open # {})

(* The last of the news tells how things are. *)
ToldOK ==
  /\ channel # << >> => Tells(channel[Len(channel)].kind, OpenRows)
  /\ channel = << >> /\ Tuned =>
       \A k \in Signal : \A i \in DOMAIN streams[k] :
         (\A j \in Signal : \A l \in DOMAIN streams[j] : streams[j][l].at <= streams[k][i].at)
           => Tells(k, OpenRows)

(* So does the tray's, once nothing is under way. *)
ShownOK ==
  Tuned /\ forwarder = "listening" =>
    /\ daemon = "booting" => /\ updates # << >> /\ updates[Len(updates)].kind = "reconnected"
                             /\ Len(updates) = 1 => answer = "none"
    /\ daemon = "up" /\ channel = << >> /\ streams = Silent =>
         /\ updates = << >> => Tells(IF icon = "active" THEN "started" ELSE "ended", OpenRows)
         /\ updates # << >> /\ updates[Len(updates)].kind \in Signal =>
              Tells(updates[Len(updates)].kind, OpenRows)
         /\ Len(updates) = 1 /\ answer # "none" =>
              Tells(IF answer = "active" THEN "started" ELSE "ended", OpenRows)

NewsOK == ~blurred => OrderOK /\ ToldOK /\ ShownOK

LEMMA SilentStreams ==
  \A k \in Signal : Silent[k] = << >> /\ Rising(Silent[k]) /\ (\A b : Behind(Silent[k], b))
                    /\ DOMAIN Silent[k] = {}
  BY DEF Silent, Rising, Behind

(* Nothing is ordered wrongly where nothing is added. *)
LEMMA OrderKept ==
  ASSUME OrderOK, TypeOK, rows' = rows, channel' = channel \/ channel' = << >>,
         streams' = streams \/ streams' = Silent
  PROVE  OrderOK'
  <1>1. Rising(channel') /\ DOMAIN channel' \subseteq DOMAIN channel
        /\ (\A j \in DOMAIN channel' : channel'[j] = channel[j])
        /\ \A b : Behind(channel, b) => Behind(channel', b)
    BY DEF OrderOK, Rising, Behind
  <1>2. \A k \in Signal : Rising(streams'[k]) /\ \A b : Behind(streams[k], b) => Behind(streams'[k], b)
    BY SilentStreams DEF OrderOK
  <1>3. OpenRows' = OpenRows
    BY DEF OpenRows
  <1>4. \A k \in Signal : \A j \in DOMAIN channel' : Behind(streams'[k], channel'[j].at)
    BY <1>1, <1>2 DEF OrderOK
  <1>5. ASSUME NEW row \in OpenRows, OpenRows = {row}
        PROVE  Behind(channel', 2 * row.id + 1) /\ \A k \in Signal : Behind(streams'[k], 2 * row.id + 1)
    BY <1>1, <1>2, <1>5 DEF OrderOK
  <1> QED
    BY <1>1, <1>2, <1>3, <1>4, <1>5 DEF OrderOK

(* What a step of a live daemon makes of the open rows. *)
LEMMA OpenedRow ==
  ASSUME NEW a, rows' = rows \cup {[id |-> lastId', app |-> a, start |-> now', end |-> Running,
                                    full |-> 0]}
  PROVE  /\ OpenRows' # {}
         /\ \A row \in OpenRows' : OpenRows' = {row} => row.id = lastId'
  <1> DEFINE new == [id |-> lastId', app |-> a, start |-> now', end |-> Running, full |-> 0]
  <1>1. new.id = lastId' /\ new.end = Running /\ rows' = rows \cup {new}
    OBVIOUS
  <1> HIDE DEF new
  <1>2. new \in OpenRows'
    BY <1>1 DEF OpenRows
  <1> QED
    BY <1>1, <1>2

LEMMA ClosedRow ==
  ASSUME NEW row \in OpenRows, OpenRows = {row}, now' \in Nat,
         rows' = (rows \ {row}) \cup {Closed(row, now')}, RowsOK
  PROVE  OpenRows' = {}
  <1>1. Closed(row, now').end = now' /\ now' # Running
    BY DEF Closed, OpenRows, RowsOK, Running
  <1> QED
    BY <1>1 DEF OpenRows

LEMMA RecoveredRows ==
  ASSUME TypeOK, Recover PROVE OpenRows' = {} /\ channel = << >> /\ channel' = channel
  <1>1. PICK beat \in {0, now} :
          rows' = (rows \ OpenRows) \cup
                    {Closed(row, IF beat < row.start THEN row.start ELSE beat) : row \in OpenRows}
    BY DEF Recover
  <1>2. ASSUME NEW row \in OpenRows
        PROVE  Closed(row, IF beat < row.start THEN row.start ELSE beat).end # Running
    <2>1. row.start \in Nat /\ now \in Nat /\ row \in
            [id : 1..lastId, app : Application, start : Nat, end : Nat \cup {Running}, full : Int]
      BY DEF TypeOK, OpenRows
    <2> QED
      BY <2>1 DEF Closed, Running
  <1>3. OpenRows' = {}
    BY <1>1, <1>2 DEF OpenRows
  <1> QED
    BY <1>3 DEF Recover, TypeOK

(* A notification that the channel takes. *)
LEMMA Notified ==
  ASSUME TypeOK, NEW n \in AnyNote, Notify(n), ~Refused
  PROVE  channel' = Append(channel, n) /\ channel \in Seq(AnyNote) /\ channel' # << >>
         /\ Len(channel') = Len(channel) + 1 /\ channel'[Len(channel')] = n
  <1>1. channel \in Seq(AnyNote)
    BY NotesOfTypes
  <1>2. channel' = Append(channel, n)
    BY <1>1, ForwarderAssumption DEF Notify, Refused
  <1> HIDE DEF AnyNote
  <1> QED
    BY <1>1, <1>2, ElementsOfAppend

LEMMA OrderOfNotified ==
  ASSUME TypeOK, OrderOK, NEW n \in AnyNote, channel' = Append(channel, n), streams' = streams,
         Behind(channel, n.at), \A k \in Signal : Behind(streams[k], n.at),
         \A row \in OpenRows' : OpenRows' = {row} => n.at < 2 * row.id + 1 /\ 2 * row.id + 1 \in Nat
  PROVE  OrderOK'
  <1>1. channel \in Seq(AnyNote) /\ n.at \in Nat
    BY NotesOfTypes DEF AnyNote
  <1>2. Rising(channel')
    BY <1>1, AppendedNote DEF OrderOK
  <1>3. \A i \in DOMAIN channel' : channel'[i] = n \/ (i \in DOMAIN channel /\ channel'[i] = channel[i])
    BY <1>1, ElementsOfAppend
  <1>4. ASSUME NEW k \in Signal, NEW j \in DOMAIN channel' PROVE Behind(streams'[k], channel'[j].at)
    BY <1>3 DEF OrderOK
  <1>5. ASSUME NEW row \in OpenRows', OpenRows' = {row}
        PROVE  Behind(channel', 2 * row.id + 1) /\ \A k \in Signal : Behind(streams'[k], 2 * row.id + 1)
    <2>1. n.at < 2 * row.id + 1 /\ 2 * row.id + 1 \in Nat
      BY <1>5
    <2>2. ASSUME NEW s \in Seq(AnyNote), Behind(s, n.at) PROVE Behind(s, 2 * row.id + 1)
      <3>1. \A i \in DOMAIN s : s[i] \in AnyNote
        OBVIOUS
      <3>2. \A i \in DOMAIN s : s[i].at \in Nat
        BY <3>1 DEF AnyNote
      <3> QED
        BY <1>1, <2>1, <2>2, <3>2 DEF Behind
    <2>3. Behind(channel, 2 * row.id + 1)
      BY <1>1, <2>2
    <2> QED
      BY <1>1, <2>1, <2>2, <2>3, AppendedNote, NotesOfTypes
  <1> QED
    BY <1>2, <1>4, <1>5 DEF OrderOK

(* A step that neither adds news nor moves them. *)
LEMMA OrderStep ==
  ASSUME TypeOK, TunedOK, OrderOK, [Next]_vars, ~blurred'
  PROVE  OrderOK'
  <1>1. CASE Boot \/ Die
    BY <1>1, OrderKept DEF Boot, Die, dbVars
  <1>2. CASE Recover
    <2>1. OpenRows' = {} /\ channel' = channel /\ streams' = streams
      BY <1>2, RecoveredRows, DaemonKeeps
    <2> QED
      BY <2>1 DEF OrderOK
  <1>3. CASE StartSession
    <2>1. PICK a \in Apps :
            /\ lastId' = lastId + 1
            /\ rows' = rows \cup {[id |-> lastId', app |-> a, start |-> now', end |-> Running,
                                   full |-> 0]}
            /\ Notify([kind |-> "started", at |-> 2 * lastId'])
            /\ blurred' = (blurred \/ Refused)
      BY <1>3 DEF StartSession
    <2> DEFINE n == [kind |-> "started", at |-> 2 * lastId']
    <2>2. n \in AnyNote /\ n.at = 2 * lastId + 2 /\ lastId \in Nat
      BY <2>1, NotesOfTypes DEF AnyNote, Signal
    <2>3. ~Refused
      BY Zenon, <2>1
    <2> HIDE DEF n
    <2>4. channel' = Append(channel, n)
      BY <2>1, <2>2, <2>3, Notified DEF n
    <2>5. streams' = streams
      BY <1>3, DaemonKeeps
    <2>6. \A row \in OpenRows' : OpenRows' = {row} => n.at < 2 * row.id + 1 /\ 2 * row.id + 1 \in Nat
      <3>1. \A row \in OpenRows' : OpenRows' = {row} => row.id = lastId + 1
        BY <2>1, OpenedRow
      <3> QED
        BY <2>2, <3>1
    <2> QED
      BY <2>2, <2>4, <2>5, <2>6, OrderOfNotified, NotesOfTypes
  <1>4. CASE EndSession
    <2>1. PICK row \in OpenRows :
            /\ now' = now + 1 /\ rows' = (rows \ {row}) \cup {Closed(row, now')}
            /\ Notify([kind |-> "ended", at |-> 2 * row.id + 1])
            /\ blurred' = (blurred \/ Refused \/ OpenRows # {row})
      BY <1>4 DEF EndSession
    <2> DEFINE n == [kind |-> "ended", at |-> 2 * row.id + 1]
    <2>2. n \in AnyNote /\ n.at = 2 * row.id + 1 /\ now' \in Nat
      <3>1. row.id \in Nat /\ now \in Nat
        BY DEF TypeOK, OpenRows
      <3> QED
        BY <2>1, <3>1 DEF AnyNote, Signal
    <2>3. ~Refused /\ OpenRows = {row}
      BY Zenon, <2>1
    <2> HIDE DEF n
    <2>4. channel' = Append(channel, n)
      BY <2>1, <2>2, <2>3, Notified DEF n
    <2>5. streams' = streams
      BY <1>4, DaemonKeeps
    <2>6. OpenRows' = {}
      BY <2>1, <2>2, <2>3, ClosedRow, TypesInParts
    <2>7. Behind(channel, n.at) /\ \A k \in Signal : Behind(streams[k], n.at)
      BY <2>2, <2>3 DEF OrderOK
    <2> QED
      BY <2>2, <2>4, <2>5, <2>6, <2>7, OrderOfNotified
  <1>5. CASE Emit
    <2> DEFINE n == Head(channel)
    <2>1. /\ channel # << >> /\ channel' = Tail(channel) /\ rows' = rows
          /\ streams' = streams
             \/ \E k \in Signal : streams' = [streams EXCEPT ![k] = Append(@, n)]
      BY <1>5, NotesOfTypes DEF Emit, dbVars, AnyNote
    <2>2. /\ channel \in Seq(AnyNote) /\ n \in AnyNote /\ Rising(channel') /\ n.at \in Nat
          /\ \A j \in DOMAIN channel' : n.at < channel'[j].at
          /\ \A b \in Nat : Behind(channel, b) => Behind(channel', b) /\ n.at < b
      BY <2>1, NotesOfTypes, RestOfNotes DEF OrderOK, AnyNote
    <2>3. \A j \in DOMAIN channel' : j + 1 \in DOMAIN channel /\ channel'[j] = channel[j + 1]
                                     /\ channel[j + 1].at \in Nat
      <3>1. \A e \in AnyNote : e.at \in Nat
        BY DEF AnyNote
      <3>2. \A j \in DOMAIN channel : channel[j] \in AnyNote
        BY <2>2
      <3> HIDE DEF AnyNote, n
      <3>3. \A j \in DOMAIN channel' : j + 1 \in DOMAIN channel /\ channel'[j] = channel[j + 1]
        BY <2>1, <2>2, ElementsOfTail
      <3> QED
        BY <3>1, <3>2, <3>3
    <2>4. n = channel[1] /\ 1 \in DOMAIN channel
      BY <2>1, <2>2
    <2> HIDE DEF n
    <2>5. OpenRows' = OpenRows
      BY <2>1 DEF OpenRows
    <2>6. ASSUME NEW k \in Signal
          PROVE  streams'[k] = streams[k] \/ streams'[k] = Append(streams[k], n)
      BY <2>1 DEF TypeOK
    <2>7. ASSUME NEW k \in Signal PROVE Rising(streams'[k])
      BY <2>2, <2>4, <2>6, NotesOfTypes, AppendedNote DEF OrderOK
    <2>8. ASSUME NEW k \in Signal, NEW b \in Nat, Behind(streams[k], b), n.at < b
          PROVE  Behind(streams'[k], b)
      BY <2>2, <2>6, <2>8, NotesOfTypes, AppendedNote
    <2>9. ASSUME NEW k \in Signal, NEW j \in DOMAIN channel'
          PROVE  Behind(streams'[k], channel'[j].at)
      BY <2>2, <2>3, <2>8 DEF OrderOK
    <2>10. ASSUME NEW row \in OpenRows, OpenRows = {row}
           PROVE  Behind(channel', 2 * row.id + 1) /\ \A k \in Signal : Behind(streams'[k], 2 * row.id + 1)
      <3>1. 2 * row.id + 1 \in Nat
        BY DEF TypeOK, OpenRows
      <3> QED
        BY <2>2, <2>8, <2>10, <3>1 DEF OrderOK
    <2> QED
      BY <2>2, <2>5, <2>7, <2>9, <2>10 DEF OrderOK
  <1>6. CASE BusDies \/ Spawn \/ UNCHANGED vars
    BY <1>6, OrderKept DEF BusDies, Spawn, vars, dbVars, daemonVars, busVars
  <1>7. CASE BuildProxy \/ Subscribe \/ SubscribeOwner
    BY <1>7, OrderKept DEF BuildProxy, Subscribe, SubscribeOwner, Rebuild, dbVars, daemonVars, busVars
  <1>8. CASE OwnerChanged \/ StreamsClosed \/ WaitForService
    BY <1>8, OrderKept DEF OwnerChanged, StreamsClosed, WaitForService, Rebuild, dbVars, daemonVars,
       busVars
  <1>9. CASE Forward
    <2>1. PICK k \in Signal : /\ streams[k] # << >> /\ streams' = [streams EXCEPT ![k] = Tail(@)]
                              /\ rows' = rows /\ channel' = channel
      BY <1>9 DEF Forward, dbVars, daemonVars
    <2>2. \A j \in Signal : streams'[j] = streams[j] \/ (streams[j] # << >> /\ streams'[j] = Tail(streams[j]))
      BY <2>1 DEF TypeOK
    <2>3. ASSUME NEW j \in Signal
          PROVE  Rising(streams'[j]) /\ \A b \in Nat : Behind(streams[j], b) => Behind(streams'[j], b)
      BY <2>2, NotesOfTypes, RestOfNotes DEF OrderOK
    <2>4. OpenRows' = OpenRows
      BY <2>1 DEF OpenRows
    <2>5. \A j \in DOMAIN channel : channel[j].at \in Nat
      <3>1. \A j \in DOMAIN channel : channel[j] \in AnyNote
        BY NotesOfTypes
      <3> QED
        BY <3>1 DEF AnyNote
    <2>6. \A row \in OpenRows : 2 * row.id + 1 \in Nat
      BY DEF TypeOK, OpenRows
    <2>7. ASSUME NEW j \in Signal, NEW i \in DOMAIN channel PROVE Behind(streams'[j], channel[i].at)
      BY <2>3, <2>5 DEF OrderOK
    <2>8. ASSUME NEW row \in OpenRows, OpenRows = {row}, NEW j \in Signal
          PROVE  Behind(streams'[j], 2 * row.id + 1)
      BY <2>3, <2>6, <2>8 DEF OrderOK
    <2> QED
      BY <2>1, <2>3, <2>4, <2>7, <2>8 DEF OrderOK
  <1>10. CASE TooltipStarted \/ TooltipEnded \/ Reconcile \/ Reconciled
    BY <1>10, OrderKept, TrayKeeps
  <1> QED
    BY <1>1, <1>2, <1>3, <1>4, <1>5, <1>6, <1>7, <1>8, <1>9, <1>10 DEF Next, Daemon, Forwarder, Tray

(* No stream is heard, or none has anything: nothing to tell. *)
LEMMA NothingToTell ==
  ASSUME rows' = rows, channel' = channel \/ channel' = << >>, ToldOK,
         Tuned' => streams' = Silent \/ (Tuned /\ channel' = channel /\ streams' = streams)
  PROVE  ToldOK'
  <1>1. OpenRows' = OpenRows
    BY DEF OpenRows
  <1>2. channel' # << >> => Tells(channel'[Len(channel')].kind, OpenRows')
    BY <1>1 DEF ToldOK
  <1>3. ASSUME channel' = << >>, Tuned', NEW k \in Signal, NEW i \in DOMAIN streams'[k],
               \A j \in Signal : \A l \in DOMAIN streams'[j] : streams'[j][l].at <= streams'[k][i].at
        PROVE  Tells(k, OpenRows')
    <2>1. streams' # Silent
      BY <1>3, SilentStreams
    <2>2. Tuned /\ streams' = streams /\ channel' = channel
      BY <1>3, <2>1
    <2> QED
      BY <1>1, <1>3, <2>2 DEF ToldOK
  <1> QED
    BY <1>2, <1>3 DEF ToldOK

LEMMA ToldStep ==
  ASSUME TypeOK, TunedOK, OrderOK, ToldOK, [Next]_vars, ~blurred'
  PROVE  ToldOK'
  <1>1. CASE Boot \/ Die
    <2>1. rows' = rows /\ (channel' = channel \/ channel' = << >>) /\ ~Tuned'
      BY <1>1 DEF Boot, Die, Owned, dbVars, guiVars, Tuned
    <2> QED
      BY <2>1, NothingToTell
  <1>2. CASE Recover
    <2>1. channel' = << >> /\ streams' = streams /\ (Tuned' <=> Tuned)
      BY <1>2, RecoveredRows, DaemonKeeps DEF Tuned
    <2>2. daemon # "up"
      BY <1>2 DEF Recover
    <2>3. Tuned' => streams' = Silent
      BY <2>1, <2>2 DEF TunedOK
    <2> QED
      BY <2>1, <2>3, SilentStreams DEF ToldOK
  <1>3. CASE StartSession
    <2>1. PICK a \in Apps :
            /\ lastId' = lastId + 1
            /\ rows' = rows \cup {[id |-> lastId', app |-> a, start |-> now', end |-> Running,
                                   full |-> 0]}
            /\ Notify([kind |-> "started", at |-> 2 * lastId'])
            /\ blurred' = (blurred \/ Refused)
      BY <1>3 DEF StartSession
    <2> DEFINE n == [kind |-> "started", at |-> 2 * lastId']
    <2>2. n \in AnyNote /\ n.kind = "started"
      BY <2>1, NotesOfTypes DEF AnyNote, Signal
    <2>3. ~Refused
      BY Zenon, <2>1
    <2> HIDE DEF n
    <2>4. channel' # << >> /\ channel'[Len(channel')] = n
      BY <2>1, <2>2, <2>3, Notified DEF n
    <2>5. OpenRows' # {}
      BY <2>1, OpenedRow
    <2> QED
      BY <2>2, <2>4, <2>5 DEF ToldOK, Tells
  <1>4. CASE EndSession
    <2>1. PICK row \in OpenRows :
            /\ now' = now + 1 /\ rows' = (rows \ {row}) \cup {Closed(row, now')}
            /\ Notify([kind |-> "ended", at |-> 2 * row.id + 1])
            /\ blurred' = (blurred \/ Refused \/ OpenRows # {row})
      BY <1>4 DEF EndSession
    <2> DEFINE n == [kind |-> "ended", at |-> 2 * row.id + 1]
    <2>2. n \in AnyNote /\ n.kind = "ended" /\ now' \in Nat
      <3>1. row.id \in Nat /\ now \in Nat
        BY DEF TypeOK, OpenRows
      <3> QED
        BY <2>1, <3>1 DEF AnyNote, Signal
    <2>3. ~Refused /\ OpenRows = {row}
      BY Zenon, <2>1
    <2> HIDE DEF n
    <2>4. channel' # << >> /\ channel'[Len(channel')] = n
      BY <2>1, <2>2, <2>3, Notified DEF n
    <2>5. OpenRows' = {}
      BY <2>1, <2>2, <2>3, ClosedRow, TypesInParts
    <2> QED
      BY <2>2, <2>4, <2>5 DEF ToldOK, Tells
  <1>5. CASE Emit
    <2> DEFINE n == Head(channel)
    <2>1. /\ channel # << >> /\ channel' = Tail(channel) /\ rows' = rows
          /\ UNCHANGED <<bound, owner, changed, forwarder, deaf>>
      BY <1>5 DEF Emit, dbVars, guiVars
    <2>2. /\ channel \in Seq(AnyNote) /\ n \in AnyNote /\ n = channel[1] /\ 1 \in DOMAIN channel
          /\ channel' # << >> => channel'[Len(channel')] = channel[Len(channel)]
          /\ channel' = << >> => Len(channel) = 1
      BY <2>1, NotesOfTypes, NoteElements
    <2>3. OpenRows' = OpenRows
      BY <2>1 DEF OpenRows
    <2>4. channel' # << >> => Tells(channel'[Len(channel')].kind, OpenRows')
      BY <2>1, <2>2, <2>3 DEF ToldOK
    <2>5. ASSUME channel' = << >>, Tuned', NEW k \in Signal, NEW i \in DOMAIN streams'[k],
                 \A j \in Signal : \A l \in DOMAIN streams'[j] : streams'[j][l].at <= streams'[k][i].at
          PROVE  Tells(k, OpenRows')
      <3>1. Tuned /\ bound["started"] = owner
        BY <2>1, <2>5 DEF Tuned, TunedOK
      <3>2. n.kind \in Signal /\ n.at \in Nat
        BY <2>2 DEF AnyNote
      <3>3. bound[n.kind] = owner
        <4> DEFINE heard == {j \in Signal : bound[j] = owner}
        <4>1. heard # {}
          BY <3>1 DEF Signal
        <4>2. ~(n.kind \notin heard /\ heard # {})
          BY Zenon, <1>5 DEF Emit
        <4> QED
          BY <4>1, <4>2
      <3>4. streams' = [streams EXCEPT ![n.kind] = Append(@, n)]
        BY <1>5, <3>2, <3>3 DEF Emit
      <3> HIDE DEF n
      <3>5. streams[n.kind] \in Seq(AnyNote) /\ streams'[n.kind] = Append(streams[n.kind], n)
        BY <3>2, <3>4, NotesOfTypes DEF TypeOK
      <3>6. \E l \in DOMAIN streams'[n.kind] : streams'[n.kind][l] = n
        <4> DEFINE l == Len(streams[n.kind]) + 1
        <4>1. l \in DOMAIN streams'[n.kind] /\ streams'[n.kind][l] = n
          BY <2>2, <3>5, ElementsOfAppend
        <4> QED
          BY <4>1
      <3>7. n.at <= streams'[k][i].at
        BY <2>5, <3>2, <3>6
      <3>8. k = n.kind
        <4> SUFFICES ASSUME k # n.kind PROVE FALSE
          OBVIOUS
        <4>1. streams'[k] = streams[k] /\ streams[k] \in Seq(AnyNote)
          BY <3>4, NotesOfTypes DEF TypeOK
        <4>2. streams[k][i].at < n.at
          BY <2>2, <2>5, <4>1 DEF OrderOK, Behind
        <4>3. streams[k][i] \in AnyNote
          BY <2>5, <4>1
        <4>4. streams[k][i].at \in Nat
          BY <4>3 DEF AnyNote
        <4> QED
          BY <3>2, <3>7, <4>1, <4>2, <4>4
      <3> QED
        BY <2>1, <2>2, <2>3, <2>5, <3>8 DEF ToldOK
    <2> QED
      BY <2>4, <2>5 DEF ToldOK
  <1>6. CASE BusDies \/ Spawn \/ UNCHANGED vars
    BY <1>6, NothingToTell DEF BusDies, Spawn, vars, dbVars, daemonVars, busVars, guiVars, Tuned
  <1>7. CASE BuildProxy
    <2>1. rows' = rows /\ channel' = channel /\ ~Tuned'
      BY <1>7 DEF BuildProxy, Rebuild, dbVars, daemonVars, Tuned
    <2> QED
      BY <2>1, NothingToTell
  <1>8. CASE Subscribe
    <2>1. rows' = rows /\ channel' = channel /\ (bus # "present" => streams' = Silent)
      BY <1>8 DEF Subscribe, Rebuild, dbVars, daemonVars
    <2>2. CASE bus = "present"
      <3>1. streams' = streams /\ UNCHANGED <<changed, deaf>> /\ forwarder \in {"started", "ended"}
        BY <1>8, <2>2 DEF Subscribe, Signal
      <3>2. forwarder = "started" => streams = Silent
        BY DEF TunedOK
      <3>3. forwarder = "ended" /\ Tuned' => Tuned
        BY <3>1 DEF Tuned
      <3> QED
        BY <2>1, <3>1, <3>2, <3>3, NothingToTell
    <2> QED
      BY <2>1, <2>2, NothingToTell
  <1>9. CASE SubscribeOwner
    <2>1. rows' = rows /\ channel' = channel /\ (bus # "present" => streams' = Silent)
      BY <1>9 DEF SubscribeOwner, Rebuild, dbVars, daemonVars
    <2>2. CASE bus = "present"
      <3>1. streams' = streams /\ UNCHANGED <<changed, deaf>> /\ forwarder = "owner"
        BY <1>9, <2>2 DEF SubscribeOwner, busVars
      <3> QED
        BY <2>1, <3>1, NothingToTell DEF Tuned
    <2> QED
      BY <2>1, <2>2, NothingToTell
  <1>10. CASE OwnerChanged \/ StreamsClosed
    <2>1. rows' = rows /\ channel' = channel /\ streams' = Silent
      BY <1>10 DEF OwnerChanged, StreamsClosed, Rebuild, dbVars, daemonVars
    <2> QED
      BY <2>1, NothingToTell
  <1>11. CASE WaitForService
    <2>1. rows' = rows /\ channel' = channel /\ ~Tuned'
      BY <1>11 DEF WaitForService, dbVars, daemonVars, Tuned
    <2> QED
      BY <2>1, NothingToTell
  <1>12. CASE Forward
    <2>1. PICK k \in Signal : /\ streams[k] # << >> /\ streams' = [streams EXCEPT ![k] = Tail(@)]
                              /\ blurred' = (blurred \/ Overtakes(k))
      BY <1>12 DEF Forward
    <2>2. UNCHANGED <<rows, channel, changed, deaf, forwarder>>
      BY <1>12 DEF Forward, dbVars, daemonVars, guiVars
    <2>3. ~Overtakes(k)
      BY Zenon, <2>1
    <2> DEFINE h == Head(streams[k])
    <2>4. /\ streams[k] \in Seq(AnyNote) /\ h = streams[k][1] /\ 1 \in DOMAIN streams[k]
          /\ streams'[k] = Tail(streams[k])
          /\ \A j \in Signal \ {k} : streams'[j] = streams[j]
          /\ \A j \in Signal : streams[j] \in Seq(AnyNote)
      BY <2>1, NotesOfTypes DEF TypeOK
    <2>5. \A j \in Signal : \A i \in DOMAIN streams[j] : streams[j][i].at \in Nat
      <3>1. \A j \in Signal : \A i \in DOMAIN streams[j] : streams[j][i] \in AnyNote
        BY <2>4
      <3> QED
        BY <3>1 DEF AnyNote
    <2> HIDE DEF h
    <2>6. \A i \in DOMAIN streams'[k] : i + 1 \in DOMAIN streams[k] /\ streams'[k][i] = streams[k][i + 1]
      <3>1. streams[k] # << >> /\ streams[k] \in Seq(AnyNote) /\ streams'[k] = Tail(streams[k])
        BY <2>1, <2>4
      <3> QED
        BY <3>1, NoteElements
    <2>7. \A i \in DOMAIN streams'[k] : h.at < streams'[k][i].at
      BY <2>1, <2>4, RestOfNotes DEF OrderOK, h
    <2>8. \A j \in Signal \ {k} : \A i \in DOMAIN streams[j] : h.at <= streams[j][i].at
      BY <2>3, <2>4, <2>5 DEF Overtakes, h
    <2>9. ASSUME NEW j \in Signal, NEW i \in DOMAIN streams'[j]
          PROVE  h.at <= streams'[j][i].at
      <3>1. CASE j = k
        <4>1. i \in DOMAIN streams'[k] /\ streams'[k][i] = streams[k][i + 1]
              /\ i + 1 \in DOMAIN streams[k]
          BY <2>6, <2>9, <3>1
        <4>2. streams'[k][i].at \in Nat /\ h.at < streams'[k][i].at /\ h.at \in Nat
          BY <2>4, <2>5, <2>7, <4>1
        <4> QED
          BY <3>1, <4>2
      <3>2. CASE j # k
        BY <2>4, <2>8, <3>2
      <3> QED
        BY <3>1, <3>2
    <2>10. ASSUME NEW j \in Signal, NEW i \in DOMAIN streams'[j]
           PROVE  \E l \in DOMAIN streams[j] : streams[j][l] = streams'[j][i]
      BY <2>4, <2>6
    <2>11. ASSUME NEW j \in Signal, NEW i \in DOMAIN streams[j]
           PROVE  (j = k /\ i = 1) \/ \E l \in DOMAIN streams'[j] : streams'[j][l] = streams[j][i]
      <3>1. CASE j = k /\ i # 1
        <4>1. i - 1 \in DOMAIN streams'[k] /\ streams'[k][i - 1] = streams[k][i]
          <5>1. streams[k] # << >> /\ streams[k] \in Seq(AnyNote) /\ streams'[k] = Tail(streams[k])
                /\ i \in DOMAIN streams[k] /\ i # 1
            BY <2>1, <2>4, <2>11, <3>1
          <5> QED
            BY <5>1, NoteElements
        <4> QED
          BY <3>1, <4>1
      <3>2. CASE j # k
        BY <2>4, <3>2
      <3> QED
        BY <3>1, <3>2
    <2>12. ASSUME channel' = << >>, Tuned', NEW j \in Signal, NEW i \in DOMAIN streams'[j],
                  \A o \in Signal : \A l \in DOMAIN streams'[o] : streams'[o][l].at <= streams'[j][i].at
           PROVE  Tells(j, OpenRows')
      <3>1. PICK m \in DOMAIN streams[j] : streams[j][m] = streams'[j][i]
        BY <2>10, <2>12
      <3>2. ASSUME NEW o \in Signal, NEW l \in DOMAIN streams[o]
            PROVE  streams[o][l].at <= streams[j][m].at
        <4>1. CASE o = k /\ l = 1
          BY <2>4, <2>9, <2>12, <3>1, <4>1
        <4>2. CASE ~(o = k /\ l = 1)
          BY <2>11, <2>12, <3>1, <3>2, <4>2
        <4> QED
          BY <4>1, <4>2
      <3>3. Tuned /\ channel = << >> /\ OpenRows' = OpenRows
        BY <2>2, <2>12 DEF Tuned, OpenRows
      <3> QED
        BY <3>1, <3>2, <3>3 DEF ToldOK
    <2>13. OpenRows' = OpenRows
      BY <2>2 DEF OpenRows
    <2> QED
      BY <2>2, <2>12, <2>13 DEF ToldOK
  <1>13. CASE TooltipStarted \/ TooltipEnded \/ Reconcile \/ Reconciled
    BY <1>13, TrayKeeps, NothingToTell DEF Tuned
  <1> QED
    BY <1>1, <1>2, <1>3, <1>4, <1>5, <1>6, <1>7, <1>8, <1>9, <1>10, <1>11, <1>12, <1>13
    DEF Next, Daemon, Forwarder, Tray

-----------------------------------------------------------------------------
(* What the tray shows.                                                    *)

LEMMA NothingAsked == ASSUME TypeOK, Len(updates) = 0 PROVE answer = "none"
  <1> DEFINE U == [kind : Signal \cup {"disconnected", "reconnected"}, at : Nat]
  <1>1. updates \in Seq(U) /\ (answer = "none" \/ updates # << >>)
    BY DEF TypeOK
  <1> HIDE DEF U
  <1>2. updates = << >>
    BY <1>1
  <1> QED
    BY <1>1, <1>2

(* A step that leaves the tray and the rows as they are shows what it did. *)
LEMMA ShownAsBefore ==
  ASSUME ShownOK, UNCHANGED <<updates, answer, icon, rows, streams>>,
         Tuned' => Tuned, forwarder' = forwarder, daemon' = daemon, channel' = channel
  PROVE  ShownOK'
  <1>1. OpenRows' = OpenRows
    BY DEF OpenRows
  <1> QED
    BY <1>1 DEF ShownOK

(* A step that takes the next update, and paints what it says. *)
LEMMA ShownByUpdate ==
  ASSUME TypeOK, ShownOK, updates # << >>, updates' = Tail(updates), answer' = "none",
         UNCHANGED <<rows, daemon, channel, streams, changed, forwarder, deaf>>,
         answer # "none" \/ Head(updates).kind # "reconnected",
         Tuned /\ forwarder = "listening" /\ daemon = "up" /\ channel = << >> /\ streams = Silent
           /\ Len(updates) = 1 => Tells(IF icon' = "active" THEN "started" ELSE "ended", OpenRows)
  PROVE  ShownOK'
  <1>1. /\ Len(updates') = Len(updates) - 1 /\ Len(updates) \in Nat \ {0}
        /\ updates' # << >> => updates'[Len(updates')] = updates[Len(updates)]
        /\ updates' = << >> => Head(updates) = updates[Len(updates)] /\ Len(updates) = 1
    BY ConsumedUpdate, TypesInParts
  <1>2. OpenRows' = OpenRows /\ (Tuned' <=> Tuned)
    BY DEF OpenRows, Tuned
  <1>3. ASSUME Tuned, forwarder = "listening", daemon = "booting"
        PROVE  updates' # << >> /\ updates'[Len(updates')].kind = "reconnected"
    BY <1>1, <1>3 DEF ShownOK
  <1> QED
    BY <1>1, <1>2, <1>3 DEF ShownOK

LEMMA ShownStep ==
  ASSUME TypeOK, TunedOK, ReconnectOK, ToldOK, ShownOK, [Next]_vars, ~blurred'
  PROVE  ShownOK'
  <1>1. CASE Boot \/ Die
    <2>1. ~(Tuned' /\ forwarder' = "listening")
      BY <1>1 DEF Boot, Die, Owned, guiVars, Tuned
    <2> QED
      BY <2>1 DEF ShownOK
  <1>2. CASE Recover
    <2>1. /\ UNCHANGED <<updates, answer, icon, streams, forwarder>> /\ (Tuned' <=> Tuned)
          /\ daemon = "booting" /\ daemon' = "up" /\ Signal = {"started", "ended"}
      BY <1>2, DaemonKeeps DEF Tuned, Recover, Signal
    <2> QED
      BY <2>1 DEF ShownOK
  <1>3. CASE StartSession
    <2>1. PICK a \in Apps :
            /\ lastId' = lastId + 1
            /\ Notify([kind |-> "started", at |-> 2 * lastId'])
            /\ blurred' = (blurred \/ Refused)
      BY <1>3 DEF StartSession
    <2>2. [kind |-> "started", at |-> 2 * lastId'] \in AnyNote /\ ~Refused
      <3>1. ~Refused
        BY Zenon, <2>1
      <3> QED
        BY <2>1, <3>1, NotesOfTypes DEF AnyNote, Signal
    <2>3. channel' # << >> /\ daemon' = "up"
      BY <1>3, <2>1, <2>2, Notified, DaemonKeeps
    <2> QED
      BY <2>3 DEF ShownOK
  <1>4. CASE EndSession
    <2>1. PICK row \in OpenRows :
            /\ Notify([kind |-> "ended", at |-> 2 * row.id + 1])
            /\ blurred' = (blurred \/ Refused \/ OpenRows # {row})
      BY <1>4 DEF EndSession
    <2>2. [kind |-> "ended", at |-> 2 * row.id + 1] \in AnyNote /\ ~Refused
      <3>1. ~Refused
        BY Zenon, <2>1
      <3>2. row.id \in Nat
        BY DEF TypeOK, OpenRows
      <3> QED
        BY <3>1, <3>2 DEF AnyNote, Signal
    <2>3. channel' # << >> /\ daemon' = "up"
      BY <1>4, <2>1, <2>2, Notified, DaemonKeeps
    <2> QED
      BY <2>3 DEF ShownOK
  <1>5. CASE Emit
    <2> DEFINE n == Head(channel)
    <2>1. /\ channel # << >> /\ daemon = "up" /\ daemon' = "up"
          /\ UNCHANGED <<bound, owner, changed, forwarder, deaf>>
      BY <1>5 DEF Emit, guiVars
    <2>2. ASSUME Tuned' PROVE streams' # Silent
      <3>1. Tuned /\ bound["started"] = owner
        BY <2>1, <2>2 DEF Tuned, TunedOK
      <3>2. n \in AnyNote /\ \A j \in Signal : streams[j] \in Seq(AnyNote)
        BY <2>1, NotesOfTypes, NoteElements
      <3>3. n.kind \in Signal
        BY <3>2 DEF AnyNote
      <3>4. bound[n.kind] = owner
        <4> DEFINE heard == {j \in Signal : bound[j] = owner}
        <4>1. heard # {}
          BY <3>1 DEF Signal
        <4>2. ~(n.kind \notin heard /\ heard # {})
          BY Zenon, <1>5 DEF Emit
        <4> QED
          BY <4>1, <4>2
      <3>5. streams' = [streams EXCEPT ![n.kind] = Append(@, n)]
        BY <1>5, <3>3, <3>4 DEF Emit
      <3> HIDE DEF n
      <3>6. streams'[n.kind] = Append(streams[n.kind], n) /\ streams[n.kind] \in Seq(AnyNote)
        BY <3>2, <3>3, <3>5 DEF TypeOK
      <3>7. streams'[n.kind] # << >>
        BY <3>2, <3>6, ElementsOfAppend
      <3> QED
        BY <3>3, <3>7, SilentStreams
    <2> QED
      BY <2>1, <2>2 DEF ShownOK
  <1>6. CASE BusDies \/ Spawn \/ UNCHANGED vars
    BY <1>6, ShownAsBefore DEF BusDies, Spawn, vars, dbVars, daemonVars, busVars, guiVars, trayVars,
       Tuned
  <1>7. CASE BuildProxy \/ Subscribe \/ OwnerChanged \/ StreamsClosed \/ WaitForService
    <2>1. forwarder' # "listening"
      BY <1>7 DEF BuildProxy, Subscribe, OwnerChanged, StreamsClosed, WaitForService, Rebuild
    <2> QED
      BY <2>1 DEF ShownOK
  <1>8. CASE SubscribeOwner
    <2>1. CASE bus = "present" /\ (reconnect \/ daemon # "down")
      <3>1. reconnect
        BY Zenon, <1>8, <2>1 DEF SubscribeOwner
      <3>2. Push("reconnected", 0) /\ answer' = answer
        BY <1>8, <2>1, <3>1 DEF SubscribeOwner
      <3>3. updates' # << >> /\ Len(updates') = Len(updates) + 1 /\ Len(updates) \in Nat
            /\ updates'[Len(updates')].kind = "reconnected"
        BY <3>2, PushedUpdate, TypesInParts
      <3>4. Len(updates') = 1 => answer' = "none"
        <4>1. Len(updates') = 1 => Len(updates) = 0
          BY <3>3
        <4>2. Len(updates) = 0 => answer = "none"
          BY NothingAsked
        <4> QED
          BY <3>2, <4>1, <4>2
      <3> QED
        BY <3>3, <3>4 DEF ShownOK, Signal
    <2>2. CASE daemon = "down"
      BY <1>8, <2>2 DEF SubscribeOwner, daemonVars, ShownOK
    <2>3. CASE bus # "present"
      BY <1>8, <2>3 DEF SubscribeOwner, Rebuild, ShownOK
    <2> QED
      BY <2>1, <2>2, <2>3
  <1>9. CASE Forward
    <2>1. PICK k \in Signal : /\ streams[k] # << >> /\ Push(k, Head(streams[k]).at)
                              /\ streams' = [streams EXCEPT ![k] = Tail(@)]
                              /\ blurred' = (blurred \/ Overtakes(k))
      BY <1>9 DEF Forward
    <2>2. UNCHANGED <<rows, daemon, channel, changed, forwarder, deaf, answer>>
          /\ forwarder = "listening" /\ OpenRows' = OpenRows
      BY <1>9 DEF Forward, dbVars, daemonVars, guiVars, OpenRows
    <2>3. streams # Silent
      BY <2>1, SilentStreams
    <2>4. /\ streams[k] \in Seq(AnyNote) /\ Head(streams[k]) \in AnyNote
          /\ \A j \in Signal : streams[j] \in Seq(AnyNote)
          /\ 1 \in DOMAIN streams[k]
          /\ Tail(streams[k]) = << >> => Len(streams[k]) = 1
      BY <2>1, NotesOfTypes, NoteElements
    <2>5. Head(streams[k]).at \in Nat
      BY <2>4 DEF AnyNote
    <2>6. /\ updates' # << >> /\ Len(updates') = Len(updates) + 1 /\ Len(updates) \in Nat
          /\ updates'[Len(updates')].kind = k
      BY <2>1, <2>5, PushedUpdate, TypesInParts
    <2>7. Len(updates') = 1 => answer' = "none"
      <3> DEFINE before == Len(updates)
                 after == Len(updates')
      <3>1. after = before + 1 /\ before \in Nat
        BY <2>6
      <3> HIDE DEF before, after
      <3>2. after = 1 => before = 0
        BY <3>1
      <3>3. Len(updates) = 0 => answer = "none"
        BY NothingAsked
      <3> QED
        BY <2>2, <3>2, <3>3 DEF before, after
    <2>8. ASSUME Tuned', channel' = << >>, streams' = Silent PROVE Tells(k, OpenRows)
      <3>1. streams'[k] = Tail(streams[k]) /\ \A j \in Signal \ {k} : streams[j] = streams'[j]
        BY <2>1 DEF TypeOK
      <3>2. Len(streams[k]) = 1 /\ \A j \in Signal \ {k} : streams[j] = << >>
        BY <2>4, <2>8, <3>1, SilentStreams
      <3>3. \A j \in Signal : \A l \in DOMAIN streams[j] : j = k /\ l = 1
        BY <2>4, <3>2
      <3>4. streams[k][1].at \in Nat
        BY <2>4, <2>5
      <3>5. Tuned /\ channel = << >>
        BY <2>2, <2>8 DEF Tuned
      <3> QED
        BY <2>4, <3>3, <3>4, <3>5 DEF ToldOK
    <2>9. daemon = "up" \/ ~Tuned'
      BY <2>2, <2>3 DEF Tuned, TunedOK
    <2> QED
      BY <2>2, <2>6, <2>7, <2>8, <2>9 DEF ShownOK
  <1>10. CASE TooltipStarted
    <2>1. updates # << >> /\ updates' = Tail(updates) /\ answer = "none" /\ answer' = "none"
          /\ Head(updates).kind = "started" /\ ApplySession("active")
      BY <1>10 DEF TooltipStarted
    <2>2. spawned
      BY Zenon, <2>1 DEF ApplySession
    <2>3. icon' = "active"
      BY <2>1, <2>2 DEF ApplySession
    <2>4. Len(updates) = 1 => updates[Len(updates)] = Head(updates)
      BY <2>1, ConsumedUpdate, TypesInParts
    <2>5. Tuned /\ forwarder = "listening" /\ daemon = "up" /\ channel = << >> /\ streams = Silent
            /\ Len(updates) = 1 => Tells(IF icon' = "active" THEN "started" ELSE "ended", OpenRows)
      BY <2>1, <2>3, <2>4 DEF ShownOK, Signal
    <2> QED
      BY <1>10, <2>1, <2>5, ShownByUpdate, TrayKeeps
  <1>11. CASE TooltipEnded
    <2>1. updates # << >> /\ updates' = Tail(updates) /\ answer = "none" /\ answer' = "none"
          /\ Head(updates).kind \in {"ended", "disconnected"} /\ ApplySession("idle")
      BY <1>11 DEF TooltipEnded
    <2>2. icon' = "idle"
      BY <2>1 DEF ApplySession, TypeOK
    <2>3. Len(updates) = 1 => updates[Len(updates)] = Head(updates)
      BY <2>1, ConsumedUpdate, TypesInParts
    <2>4. Tuned /\ forwarder = "listening" /\ daemon = "up" /\ channel = << >> /\ streams = Silent
            /\ Len(updates) = 1 => Tells(IF icon' = "active" THEN "started" ELSE "ended", OpenRows)
      BY <2>1, <2>2, <2>3 DEF ShownOK, Signal, ReconnectOK
    <2> QED
      BY <1>11, <2>1, <2>4, ShownByUpdate, TrayKeeps
  <1>12. CASE Reconcile
    <2>1. /\ updates # << >> /\ updates' = updates /\ Head(updates).kind = "reconnected"
          /\ answer' = ActiveSession /\ answer' \in {"idle", "active"} /\ icon' = icon
      BY <1>12 DEF Reconcile, ActiveSession
    <2>2. UNCHANGED <<rows, daemon, channel, streams, changed, forwarder, deaf>>
      BY <1>12, TrayKeeps
    <2>3. daemon = "up" /\ ~((ActiveSession = "active") # (OpenRows # {}))
      <3>1. CASE Settled
        BY <3>1 DEF Settled
      <3>2. CASE ~Settled
        BY Zenon, <1>12, <3>2 DEF Reconcile
      <3> QED
        BY <3>1, <3>2
    <2>4. Tells(IF answer' = "active" THEN "started" ELSE "ended", OpenRows)
      BY <2>1, <2>3 DEF Tells
    <2>5. OpenRows' = OpenRows /\ (Tuned' <=> Tuned)
      BY <2>2 DEF OpenRows, Tuned
    <2> QED
      BY <2>1, <2>2, <2>3, <2>4, <2>5 DEF ShownOK
  <1>13. CASE Reconciled
    <2>1. answer # "none" /\ updates' = Tail(updates) /\ answer' = "none" /\ ApplySession(answer)
      BY <1>13 DEF Reconciled
    <2>2. updates # << >> /\ answer \in {"idle", "active"}
      BY <2>1 DEF TypeOK
    <2>3. answer = "active" => spawned
      BY Zenon, <2>1 DEF ApplySession
    <2>4. icon' = answer
      BY <2>1, <2>2, <2>3 DEF ApplySession, TypeOK
    <2>5. Tuned /\ forwarder = "listening" /\ daemon = "up" /\ channel = << >> /\ streams = Silent
            /\ Len(updates) = 1 => Tells(IF icon' = "active" THEN "started" ELSE "ended", OpenRows)
      BY <2>1, <2>4 DEF ShownOK
    <2> QED
      BY <1>13, <2>1, <2>2, <2>5, ShownByUpdate, TrayKeeps
  <1> QED
    BY <1>1, <1>2, <1>3, <1>4, <1>5, <1>6, <1>7, <1>8, <1>9, <1>10, <1>11, <1>12, <1>13
    DEF Next, Daemon, Forwarder, Tray

(* A settled reconciliation mends everything. *)
LEMMA SettledStep ==
  ASSUME TypeOK, Reconcile, Settled
  PROVE  OrderOK' /\ ToldOK' /\ ShownOK'
  <1>1. /\ channel = << >> /\ streams = Silent /\ Len(updates) = 1 /\ daemon = "up"
        /\ (ActiveSession = "active") = (OpenRows # {})
    BY DEF Settled
  <1>2. UNCHANGED <<rows, daemon, channel, streams>>
    BY TrayKeeps
  <1>3. OpenRows' = OpenRows
    BY <1>2 DEF OpenRows
  <1>4. OrderOK'
    BY <1>1, <1>2, SilentStreams DEF OrderOK, Rising, Behind
  <1>5. ToldOK'
    BY <1>1, <1>2, SilentStreams DEF ToldOK
  <1>6. /\ updates # << >> /\ updates' = updates /\ Head(updates).kind = "reconnected"
        /\ answer' = ActiveSession /\ answer' \in {"idle", "active"}
    BY DEF Reconcile, ActiveSession
  <1>7. updates[Len(updates)].kind = "reconnected"
    BY <1>1, <1>6
  <1>8. Tells(IF answer' = "active" THEN "started" ELSE "ended", OpenRows)
    BY <1>1, <1>6 DEF Tells
  <1>9. ShownOK'
    BY <1>1, <1>2, <1>3, <1>6, <1>7, <1>8 DEF ShownOK, Signal
  <1> QED
    BY <1>4, <1>5, <1>9

-----------------------------------------------------------------------------
(* The theorems.                                                           *)

IInv == TypeOK /\ TunedOK /\ ReconnectOK /\ NewsOK

LEMMA NewsInit == Init => IInv
  <1> SUFFICES ASSUME Init PROVE IInv
    OBVIOUS
  <1>1. TypeOK
    BY InitTyped
  <1>2. TunedOK /\ ReconnectOK
    BY DEF Init, TunedOK, ReconnectOK, Tuned
  <1>3. OpenRows = {}
    <2>1. \A row \in rows : row.end \in Nat
      BY ForwarderAssumption DEF Init
    <2> QED
      BY <2>1 DEF OpenRows, Running
  <1>4. channel = << >> /\ streams = Silent /\ forwarder = "proxy"
    BY DEF Init
  <1>5. OrderOK
    BY <1>3, <1>4, SilentStreams DEF OrderOK, Rising
  <1>6. ToldOK /\ ShownOK
    BY <1>4, SilentStreams DEF ToldOK, ShownOK
  <1> QED
    BY <1>1, <1>2, <1>5, <1>6 DEF IInv, NewsOK

LEMMA NewsStep == IInv /\ [Next]_vars => IInv'
  <1> SUFFICES ASSUME IInv, [Next]_vars PROVE IInv'
    OBVIOUS
  <1>1. TypeOK /\ TunedOK /\ ReconnectOK /\ NewsOK
    BY DEF IInv
  <1>2. TypeOK' /\ TunedOK' /\ ReconnectOK'
    BY <1>1, TypesStep, TunedStep, ReconnectStep
  <1>3. ASSUME ~blurred' PROVE OrderOK' /\ ToldOK' /\ ShownOK'
    <2>1. CASE Reconcile /\ Settled
      BY <1>1, <2>1, SettledStep
    <2>2. CASE ~(Reconcile /\ Settled)
      <3>1. OrderOK /\ ToldOK /\ ShownOK
        BY <1>1, <1>3, <2>2, BlurOfTheSteps DEF NewsOK
      <3> QED
        BY <1>1, <1>3, <3>1, OrderStep, ToldStep, ShownStep
    <2> QED
      BY <2>1, <2>2
  <1> QED
    BY <1>2, <1>3 DEF IInv, NewsOK

LEMMA Invariance == Spec => []IInv
  BY NewsInit, NewsStep, PTL DEF Spec

(* What the daemon, the bus, the forwarder and the tray pass on has its    *)
(* type; an answer is only there while its reconciliation is at the head   *)
(* of the updates, and a tray that is not up yet shows nothing.            *)
(* (bridge.rs:483-570, tray.rs:183-196, 330-352.)                          *)
THEOREM TypesHold == Spec => []TypeOK
  <1>1. IInv => TypeOK
    BY DEF IInv
  <1> QED
    BY <1>1, Invariance, PTL

(* Once everything told has arrived, the icon is active exactly when a     *)
(* session is open, whatever crashes and resubscriptions came before,      *)
(* unless one of the things the code accepts happened since the last       *)
(* reconciliation.  (bridge.rs:515-570, tray.rs:183-196, 440-470.)         *)
THEOREM TrayHolds == Spec => []TrayShowsTheSession
  <1>1. IInv => TrayShowsTheSession
    <2> SUFFICES ASSUME IInv, Quiet, ~blurred PROVE (icon = "active") <=> (OpenRows # {})
      BY DEF TrayShowsTheSession
    <2>1. ShownOK /\ ~deaf
      BY DEF IInv, NewsOK, TunedOK, Quiet
    <2>2. Tuned
      BY <2>1 DEF Quiet, Tuned
    <2>3. Tells(IF icon = "active" THEN "started" ELSE "ended", OpenRows)
      BY <2>1, <2>2 DEF ShownOK, Quiet
    <2> QED
      BY <2>3 DEF Tells
  <1> QED
    BY <1>1, Invariance, PTL

-----------------------------------------------------------------------------
(* The lists of rows, newest first.                                        *)

(* A row's fields are numbers. *)
Typed(table) == \A r \in table : r.id \in Int /\ r.start \in Int /\ r.full \in Int

Table(table) == IsFiniteSet(table) /\ DistinctIds(table) /\ Typed(table)

(* A list: rows none of which is there twice, the newest first.            *)
Listed(list, n) ==
  /\ n \in Nat /\ DOMAIN list = 1..n /\ list = [i \in 1..n |-> list[i]]
  /\ \A i \in 1..n : list[i].id \in Int /\ list[i].start \in Int /\ list[i].full \in Int
  /\ \A i, j \in 1..n : i < j => list[i].id # list[j].id /\ list[i].start >= list[j].start

NewerThan(table, r) == {s \in table : Newer(s, r)}
Rank(table, r) == Cardinality(NewerThan(table, r))

LEMMA NewerIsAnOrder ==
  ASSUME NEW table, Table(table), NEW r \in table, NEW s \in table
  PROVE  /\ r = s \/ Newer(r, s) \/ Newer(s, r)
         /\ ~ Newer(r, r)
         /\ \A t \in table : Newer(t, s) /\ Newer(s, r) => Newer(t, r)
  <1>1. \A t \in table : t.id \in Int /\ t.start \in Int
    BY DEF Table, Typed
  <1>2. r.id = s.id => r = s
    BY DEF Table, DistinctIds
  <1> QED
    BY <1>1, <1>2 DEF Newer

LEMMA RankIsStrict ==
  ASSUME NEW table, Table(table), NEW r \in table, NEW s \in table
  PROVE  /\ Rank(table, r) \in 0..(Cardinality(table) - 1)
         /\ Newer(s, r) => Rank(table, s) < Rank(table, r)
         /\ r # s => Rank(table, r) # Rank(table, s)
  <1>1. IsFiniteSet(table) /\ Cardinality(table) \in Nat
    BY FS_CardinalityType DEF Table
  <1>2. \A x \in table : /\ IsFiniteSet(NewerThan(table, x)) /\ Rank(table, x) \in Nat
                         /\ Rank(table, x) <= Cardinality(table)
                         /\ Rank(table, x) # Cardinality(table)
    <2> SUFFICES ASSUME NEW x \in table
                 PROVE  /\ IsFiniteSet(NewerThan(table, x)) /\ Rank(table, x) \in Nat
                        /\ Rank(table, x) <= Cardinality(table)
                        /\ Rank(table, x) # Cardinality(table)
      OBVIOUS
    <2>1. NewerThan(table, x) \in SUBSET table /\ x \notin NewerThan(table, x)
      BY NewerIsAnOrder DEF NewerThan
    <2>2. /\ IsFiniteSet(NewerThan(table, x))
          /\ Cardinality(NewerThan(table, x)) <= Cardinality(table)
          /\ Cardinality(table) = Cardinality(NewerThan(table, x)) => table = NewerThan(table, x)
      BY <1>1, <2>1, FS_Subset
    <2>3. Cardinality(NewerThan(table, x)) \in Nat
      BY <2>2, FS_CardinalityType
    <2> QED
      BY <2>1, <2>2, <2>3 DEF Rank
  <1>3. ASSUME NEW x \in table, NEW y \in table, Newer(x, y)
        PROVE  Rank(table, x) < Rank(table, y)
    <2>1. NewerThan(table, x) \in SUBSET NewerThan(table, y)
      BY <1>3, NewerIsAnOrder DEF NewerThan
    <2>2. x \in NewerThan(table, y) /\ x \notin NewerThan(table, x)
      BY <1>3, NewerIsAnOrder DEF NewerThan
    <2>3. /\ Cardinality(NewerThan(table, x)) <= Cardinality(NewerThan(table, y))
          /\ Cardinality(NewerThan(table, y)) = Cardinality(NewerThan(table, x)) =>
               NewerThan(table, y) = NewerThan(table, x)
      BY <1>2, <2>1, FS_Subset
    <2> QED
      BY <1>2, <2>2, <2>3 DEF Rank
  <1>4. Rank(table, r) \in 0..(Cardinality(table) - 1)
    BY <1>1, <1>2
  <1>5. r # s => Rank(table, r) # Rank(table, s)
    <2>1. r # s => Newer(r, s) \/ Newer(s, r)
      BY NewerIsAnOrder
    <2> QED
      BY <1>2, <1>3, <2>1
  <1> QED
    BY <1>3, <1>4, <1>5

(* NewestFirst lists a table.  The rank of a row is one of as many numbers *)
(* as there are rows, and no two rows share it, so that each is taken.     *)
LEMMA EveryRankIsTaken ==
  ASSUME NEW table, Table(table), NEW i \in 1..Cardinality(table)
  PROVE  \E r \in table : Rank(table, r) = i - 1
  <1> DEFINE n == Cardinality(table)
             T == 0..(n - 1)
             f == [r \in table |-> Rank(table, r)]
  <1>1. IsFiniteSet(table) /\ n \in Nat
    BY FS_CardinalityType DEF Table
  <1>2. IsFiniteSet(T) /\ Cardinality(T) = n
    <2>1. 0 \in Int /\ n - 1 \in Int
      BY <1>1
    <2>2. IsFiniteSet(T) /\ Cardinality(T) = IF 0 > n - 1 THEN 0 ELSE (n - 1) - 0 + 1
      BY <2>1, FS_Interval
    <2> QED
      BY <1>1, <2>2
  <1>3. f \in Injection(table, T)
    <2>1. f \in [table -> T]
      BY RankIsStrict
    <2>2. \A r, s \in table : f[r] = f[s] => r = s
      BY RankIsStrict
    <2> QED
      BY <2>1, <2>2 DEF Injection, IsInjective
  <1>4. f \in Surjection(table, T)
    <2> HIDE DEF f, T
    <2> QED
      BY <1>2, <1>3, FS_Injection
  <1>5. i - 1 \in T
    BY <1>1
  <1> QED
    BY <1>4, <1>5 DEF Surjection

LEMMA NewestFirstListsTable ==
  ASSUME NEW table, Table(table)
  PROVE  /\ Listed(NewestFirst(table), Cardinality(table))
         /\ \A i \in 1..Cardinality(table) : NewestFirst(table)[i] \in table
         /\ \A r \in table : \E i \in 1..Cardinality(table) : NewestFirst(table)[i] = r
  <1> DEFINE n == Cardinality(table)
             list == NewestFirst(table)
  <1>1. n \in Nat /\ DOMAIN list = 1..n /\ list = [i \in 1..n |-> list[i]]
    BY FS_CardinalityType DEF Table, NewestFirst
  <1>2. ASSUME NEW i \in 1..n
        PROVE  list[i] \in table /\ Rank(table, list[i]) = i - 1
    <2>1. list[i] = CHOOSE r \in table : Rank(table, r) = i - 1
      BY Zenon DEF NewestFirst, Rank, NewerThan
    <2>2. \E r \in table : Rank(table, r) = i - 1
      BY EveryRankIsTaken
    <2> QED
      BY <2>1, <2>2, Zenon
  <1>3. ASSUME NEW r \in table PROVE \E i \in 1..n : list[i] = r
    <2>1. Rank(table, r) \in 0..(n - 1)
      BY RankIsStrict
    <2> DEFINE i == Rank(table, r) + 1
    <2>2. i \in 1..n /\ Rank(table, r) = i - 1
      BY <1>1, <2>1
    <2> HIDE DEF i, list
    <2>3. list[i] \in table /\ Rank(table, list[i]) = Rank(table, r)
      BY <1>2, <2>2
    <2> QED
      BY <2>2, <2>3, RankIsStrict
  <1>4. ASSUME NEW i \in 1..n, NEW j \in 1..n, i < j
        PROVE  list[i].id # list[j].id /\ list[i].start >= list[j].start
    <2> DEFINE r == list[i]
               s == list[j]
    <2>1. r \in table /\ s \in table /\ Rank(table, r) = i - 1 /\ Rank(table, s) = j - 1
      BY <1>2
    <2> HIDE DEF r, s
    <2>2. r # s /\ ~ (Rank(table, s) < Rank(table, r))
      BY <1>1, <1>4, <2>1
    <2>3. Newer(r, s)
      BY <2>1, <2>2, NewerIsAnOrder, RankIsStrict
    <2>4. r.id # s.id /\ r.start \in Int /\ s.start \in Int
      BY <2>1, <2>2 DEF Table, DistinctIds, Typed
    <2>5. r.start >= s.start
      BY <2>3, <2>4 DEF Newer
    <2> QED
      BY <2>4, <2>5 DEF r, s
  <1>5. \A i \in 1..n : list[i].id \in Int /\ list[i].start \in Int /\ list[i].full \in Int
    <2> HIDE DEF list
    <2> QED
      BY <1>2 DEF Table, Typed
  <1> HIDE DEF list, n
  <1>6. Listed(list, n)
    BY <1>1, <1>4, <1>5 DEF Listed
  <1> QED
    BY <1>2, <1>3, <1>6 DEF list, n

(* A limit takes the beginning of a list.                                  *)
LEMMA LimitedIsListed ==
  ASSUME NEW table, Table(table), NEW limit \in Nat
  PROVE  \E n \in Nat : Listed(ListRecent(table, limit), n)
  <1> DEFINE list == NewestFirst(table)
             m == Cardinality(table)
             n == IF limit < m THEN limit ELSE m
             short == SubSeq(list, 1, n)
  <1>1. Listed(list, m)
    BY NewestFirstListsTable
  <1>2. list \in Seq({list[i] : i \in 1..m}) /\ Len(list) = m /\ m \in Nat
    <2> HIDE DEF list, m
    <2> QED
      BY <1>1 DEF Listed
  <1>3. n \in Nat /\ n <= m
    BY <1>2
  <1> HIDE DEF list, m, n
  <1>4. short = [i \in 1..n |-> list[i]]
    BY <1>2, <1>3
  <1> HIDE DEF short
  <1>5. Listed(short, n)
    BY <1>1, <1>3, <1>4 DEF Listed
  <1>6. ListRecent(table, limit) = short
    BY <1>2 DEF ListRecent, Limited, short, list, m, n
  <1> QED
    BY <1>3, <1>5, <1>6

-----------------------------------------------------------------------------
(* The fold, row by row.                                                   *)

(* g[s] is the fold of the rows of a list at the places s.                 *)
Folding(g, list, n) ==
  g = [s \in SUBSET (1..n) |->
         IF s = {} THEN << >> ELSE Shown(g[s \ {Max(s)}], list[Max(s)])]

LEMMA FoldingExists ==
  ASSUME NEW n \in Nat, NEW list
  PROVE  \E g : Folding(g, list, n)
  <1> DEFINE G == {m \in 0..n : \E g : Folding(g, list, m)}
  <1>1. 0 \in G
    <2> DEFINE g == [s \in SUBSET (1..0) |-> << >>]
    <2>1. SUBSET (1..0) = {{}}
      OBVIOUS
    <2>2. Folding(g, list, 0)
      BY <2>1 DEF Folding
    <2> QED
      BY <2>2
  <1>2. ASSUME NEW m \in 0..n, m \in G, m < n PROVE m + 1 \in G
    <2>1. PICK g : Folding(g, list, m)
      BY <1>2
    <2> DEFINE k == m + 1
               h == [s \in SUBSET (1..k) |->
                       IF k \in s THEN Shown(g[s \ {k}], list[k]) ELSE g[s]]
    <2>2. k \in 0..n /\ m \in Nat /\ k \in Nat
      BY <1>2
    <2>3. ASSUME NEW s \in SUBSET (1..k)
          PROVE  h[s] = IF s = {} THEN << >> ELSE Shown(h[s \ {Max(s)}], list[Max(s)])
      <3>1. CASE k \in s
        <4>1. Max(s) = k
          <5>1. s \in SUBSET Int /\ \A x \in s : k >= x
            BY <2>2
          <5> HIDE DEF k
          <5> QED
            BY <3>1, <5>1, MaxIsGreatest
        <4>2. h[s \ {k}] = g[s \ {k}] /\ h[s] = Shown(g[s \ {k}], list[k])
          BY <3>1
        <4> QED
          BY Zenon, <3>1, <4>1, <4>2
      <3>2. CASE k \notin s
        <4>1. s \in SUBSET (1..m)
          BY <2>2, <3>2
        <4>2. h[s] = g[s]
          BY <3>2
        <4>3. g[s] = IF s = {} THEN << >> ELSE Shown(g[s \ {Max(s)}], list[Max(s)])
          BY <2>1, <4>1 DEF Folding
        <4>4. ASSUME s # {} PROVE h[s \ {Max(s)}] = g[s \ {Max(s)}]
          <5>1. k \notin s \ {Max(s)} /\ s \ {Max(s)} \in SUBSET (1..k)
            BY <3>2
          <5> QED
            BY <5>1
        <4> HIDE DEF h
        <4> QED
          BY <4>2, <4>3, <4>4
      <3> QED
        BY <3>1, <3>2
    <2>4. h = [s \in SUBSET (1..k) |-> h[s]]
      OBVIOUS
    <2> HIDE DEF h
    <2>5. Folding(h, list, k)
      BY <2>3, <2>4 DEF Folding
    <2> HIDE DEF k
    <2>6. k \in G
      BY <2>2, <2>5
    <2> QED
      BY <2>6 DEF k
  <1>3. n \in G
    <2> HIDE DEF G
    <2> QED
      BY <1>1, <1>2, UpTo
  <1> QED
    BY <1>3

LEMMA FoldIsFolding ==
  ASSUME NEW n \in Nat, NEW list, DOMAIN list = 1..n
  PROVE  \E g : Folding(g, list, n) /\ Fold(list) = g[1..n]
  <1> DEFINE iter == CHOOSE i : i = [s \in SUBSET (DOMAIN list) |->
                                       IF s = {} THEN << >>
                                       ELSE Shown(i[s \ {Max(s)}], list[Max(s)])]
  <1>1. Fold(list) = iter[DOMAIN list]
    BY Zenon DEF Fold, FoldLeft, MapThenFoldSet
  <1>2. iter = CHOOSE i : Folding(i, list, n)
    BY Zenon DEF Folding
  <1>3. Folding(iter, list, n)
    BY <1>2, FoldingExists, Zenon
  <1> HIDE DEF iter
  <1> QED
    BY <1>1, <1>3

-----------------------------------------------------------------------------
(* A stretch of a list, and the span it is shown as.                       *)

(* A sequence of k elements, and one that has the same elements before k.  *)
LongAs(seq, k) == seq = [s \in 1..k |-> seq[s]]
SameBefore(seq, new, k) == \A s \in 1..k : s # k => new[s] = seq[s]

LEMMA SequenceLength ==
  ASSUME NEW k \in Nat, NEW out, LongAs(out, k)
  PROVE  out \in Seq({out[s] : s \in 1..k}) /\ Len(out) = k
  BY DEF LongAs

LEMMA NoneIsEmpty ==
  ASSUME NEW k \in Nat, NEW out, LongAs(out, k)
  PROVE  (out = << >>) <=> (k = 0)
  BY SequenceLength, EmptySeq

LEMMA LastOne ==
  ASSUME NEW k \in Nat, NEW out, LongAs(out, k)
  PROVE  Last(out) = out[k]
  BY SequenceLength DEF Last

LEMMA Appended ==
  ASSUME NEW k \in Nat, NEW out, LongAs(out, k), NEW x,
         NEW new, LongAs(new, k + 1), new[k + 1] = x, SameBefore(out, new, k + 1)
  PROVE  Append(out, x) = new
  <1>1. Append(out, x) = [s \in 1..k + 1 |-> IF s = k + 1 THEN x ELSE out[s]]
    BY DEF LongAs
  <1>2. \A s \in 1..k + 1 : new[s] = IF s = k + 1 THEN x ELSE out[s]
    BY DEF SameBefore
  <1> QED
    BY <1>1, <1>2 DEF LongAs

LEMMA LastReplaced ==
  ASSUME NEW k \in Nat, k # 0, NEW out, LongAs(out, k), NEW x,
         NEW new, LongAs(new, k), new[k] = x, SameBefore(out, new, k)
  PROVE  Append(Front(out), x) = new
  <1> DEFINE Elements == {out[s] : s \in 1..k}
             f == Front(out)
             j == k - 1
  <1>1. out \in Seq(Elements) /\ Len(out) = k
    BY SequenceLength
  <1>2. j \in Nat /\ j + 1 = k /\ j <= k
    OBVIOUS
  <1>3. f = [s \in 1..j |-> out[s]]
    BY <1>1, <1>2 DEF Front
  <1>4. \A s \in 1..k : s # k => s \in 1..j
    BY <1>2
  <1> HIDE DEF f, j, Elements
  <1>5. LongAs(f, j)
    BY <1>3 DEF LongAs
  <1>6. SameBefore(f, new, j + 1)
    BY <1>2, <1>3, <1>4 DEF SameBefore
  <1>7. Append(f, x) = new
    BY <1>2, <1>5, <1>6, Appended
  <1> QED
    BY <1>7 DEF f

LEMMA FullRuntimeAsSum ==
  ASSUME NEW T, NEW f, \A row \in T : f[row] = row.full
  PROVE  FullRuntime(T) = SumOver(f, T)
  <1>1. [row \in T |-> row.full] = [row \in T |-> f[row]]
    OBVIOUS
  <1> QED
    BY Zenon, <1>1 DEF FullRuntime, SumOver

LEMMA FullRuntimeOfOneMore ==
  ASSUME NEW T, IsFiniteSet(T), NEW r, r \notin T, \A row \in T \cup {r} : row.full \in Int
  PROVE  FullRuntime(T \cup {r}) = FullRuntime(T) + r.full /\ FullRuntime({r}) = r.full
  <1> DEFINE f == [row \in T \cup {r} |-> row.full]
  <1>1. /\ \A row \in T : f[row] = row.full
        /\ \A row \in T \cup {r} : f[row] = row.full /\ f[row] \in Int
        /\ \A row \in {r} : f[row] = row.full
    OBVIOUS
  <1> HIDE DEF f
  <1>2. FullRuntime(T) = SumOver(f, T) /\ FullRuntime(T \cup {r}) = SumOver(f, T \cup {r})
        /\ FullRuntime({r}) = SumOver(f, {r})
    BY <1>1, FullRuntimeAsSum
  <1>3. SumOver(f, T) \in Int /\ SumOver(f, T \cup {r}) = f[r] + SumOver(f, T)
    BY <1>1, SumOfOneMore
  <1>4. SumOver(f, {r}) = f[r]
    <2> DEFINE none == {}
    <2>1. IsFiniteSet(none) /\ r \notin none /\ none \cup {r} = {r}
      BY FS_EmptySet
    <2>2. SumOver(f, none) = 0
      BY SumOfNone DEF SumOver
    <2>3. \A row \in none \cup {r} : f[row] \in Int
      BY <1>1
    <2> HIDE DEF none
    <2>4. SumOver(f, none \cup {r}) = f[r] + SumOver(f, none)
      BY <2>1, <2>3, SumOfOneMore
    <2>5. SumOver(f, {r}) = f[r] + 0
      BY Zenon, <2>1, <2>2, <2>4
    <2>6. f[r] \in Int
      BY <1>1
    <2> QED
      BY <2>5, <2>6
  <1> QED
    BY <1>1, <1>2, <1>3, <1>4

(* The rows from place a to before place b.                                *)
RowsOf(list, a, b) == {list[i] : i \in a..b - 1}
IdsOf(list, a, b) == [i \in 1..b - a |-> list[a + i - 1].id]

(* The span they are shown as.                                             *)
Stretch(list, a, b) ==
  [app |-> list[a].app, start |-> list[b - 1].start, end |-> list[a].end,
   full |-> FullRuntime(RowsOf(list, a, b)), fragments |-> IdsOf(list, a, b)]

Linked(list, i) ==
  /\ list[i].app = list[i + 1].app
  /\ list[i + 1].end # Running
  /\ list[i].start - list[i + 1].end <= Gap

LEMMA OneRowStretch ==
  ASSUME NEW list, NEW n, Listed(list, n), NEW a \in 1..n
  PROVE  Span(list[a]) = Stretch(list, a, a + 1)
  <1> DEFINE r == list[a]
             none == {}
  <1>1. n \in Nat /\ r.full \in Int
    BY DEF Listed
  <1>2. RowsOf(list, a, a + 1) = {r}
    <2>1. a..(a + 1) - 1 = {a}
      BY <1>1
    <2> QED
      BY <2>1 DEF RowsOf
  <1>3. IdsOf(list, a, a + 1) = <<r.id>>
    <2>1. (a + 1) - a = 1 /\ 1..1 = {1} /\ a + 1 - 1 = a
      BY <1>1
    <2> QED
      BY <2>1 DEF IdsOf
  <1>4. (a + 1) - 1 = a
    BY <1>1
  <1> HIDE DEF r
  <1>5. FullRuntime({r}) = r.full
    <2>1. IsFiniteSet(none) /\ r \notin none /\ \A row \in none \cup {r} : row.full \in Int
      BY <1>1, FS_EmptySet
    <2> HIDE DEF none
    <2> QED
      BY <2>1, FullRuntimeOfOneMore
  <1>6. Stretch(list, a, a + 1) = [app |-> r.app, start |-> r.start, end |-> r.end,
                                   full |-> r.full, fragments |-> <<r.id>>]
    BY Zenon, <1>2, <1>3, <1>4, <1>5 DEF Stretch, r
  <1> QED
    BY Zenon, <1>6 DEF Span, r

SpanShape(app, start, end, full, ids) ==
  [app |-> app, start |-> start, end |-> end, full |-> full, fragments |-> ids]

LEMMA AbsorbedRow ==
  ASSUME NEW app, NEW start, NEW end, NEW full, NEW ids, NEW row
  PROVE  Absorb(SpanShape(app, start, end, full, ids), row)
           = SpanShape(app, row.start, end, full + row.full, Append(ids, row.id))
  <1> DEFINE back == row.start
             sum == full + row.full
             more == Append(ids, row.id)
             r == SpanShape(app, start, end, full, ids)
             a == SpanShape(app, back, end, full, ids)
             b == SpanShape(app, back, end, sum, ids)
             c == SpanShape(app, back, end, sum, more)
  <1>1. r.full = full /\ r.fragments = ids
    BY DEF SpanShape
  <1> HIDE DEF back, sum, more
  <1>2. [r EXCEPT !.start = back] = a
    BY DEF SpanShape
  <1>3. [a EXCEPT !.full = sum] = b
    BY DEF SpanShape
  <1>4. [b EXCEPT !.fragments = more] = c
    BY DEF SpanShape
  <1> HIDE DEF r, a, b, c
  <1>5. [r EXCEPT !.start = back, !.full = sum, !.fragments = more]
          = [[[r EXCEPT !.start = back] EXCEPT !.full = sum] EXCEPT !.fragments = more]
    OBVIOUS
  <1>6. [r EXCEPT !.start = back, !.full = sum, !.fragments = more] = c
    BY Zenon, <1>2, <1>3, <1>4, <1>5
  <1>7. Absorb(r, row) = [r EXCEPT !.start = row.start, !.full = r.full + row.full,
                                   !.fragments = Append(r.fragments, row.id)]
    BY DEF Absorb
  <1>8. Absorb(r, row) = [r EXCEPT !.start = back, !.full = sum, !.fragments = more]
    BY Zenon, <1>1, <1>7 DEF back, sum, more
  <1> QED
    BY Zenon, <1>6, <1>8 DEF r, c, back, sum, more

LEMMA StretchAbsorbs ==
  ASSUME NEW list, NEW n, Listed(list, n), NEW b \in 1..n, NEW a \in 1..n, a < b
  PROVE  Absorb(Stretch(list, a, b), list[b]) = Stretch(list, a, b + 1)
  <1> DEFINE r == list[b]
             T == RowsOf(list, a, b)
             ids == IdsOf(list, a, b)
  <1>1. n \in Nat /\ (b + 1) - 1 = b /\ a \in Nat /\ b \in Nat
    BY DEF Listed
  <1>2. RowsOf(list, a, b + 1) = T \cup {r}
    <2>1. a..(b + 1) - 1 = (a..b - 1) \cup {b}
      BY <1>1
    <2> QED
      BY <2>1 DEF RowsOf
  <1>3. r \notin T
    <2>1. \A i \in a..b - 1 : i \in 1..n /\ i < b
      BY <1>1
    <2>2. \A i \in a..b - 1 : list[i].id # r.id
      BY <2>1 DEF Listed
    <2> QED
      BY <2>2 DEF RowsOf
  <1>4. IsFiniteSet(T)
    <2> DEFINE D == a..b - 1
               g == [i \in D |-> list[i]]
    <2>1. IsFiniteSet(D)
      BY <1>1, FS_Interval
    <2>2. g \in Surjection(D, T)
      BY DEF Surjection, RowsOf
    <2> HIDE DEF D, g, T
    <2> QED
      BY <2>1, <2>2, FS_Surjection
  <1>5. \A row \in T \cup {r} : row.full \in Int
    BY <1>1 DEF RowsOf, Listed
  <1>6. FullRuntime(T \cup {r}) = FullRuntime(T) + r.full
    <2> HIDE DEF T, r
    <2> QED
      BY <1>3, <1>4, <1>5, FullRuntimeOfOneMore
  <1>7. IdsOf(list, a, b + 1) = Append(ids, r.id)
    <2> DEFINE k == b - a
    <2>1. k \in Nat /\ (b + 1) - a = k + 1 /\ a + (k + 1) - 1 = b
      BY <1>1
    <2> DEFINE new == IdsOf(list, a, b + 1)
    <2>2. LongAs(ids, k) /\ \A i \in 1..k : ids[i] = list[a + i - 1].id
      BY DEF IdsOf, LongAs
    <2>3. LongAs(new, k + 1) /\ \A i \in 1..k + 1 : new[i] = list[a + i - 1].id
      BY <2>1 DEF IdsOf, LongAs
    <2>4. new[k + 1] = r.id
      <3>1. k + 1 \in 1..k + 1
        BY <2>1
      <3> HIDE DEF new, k
      <3> QED
        BY <2>1, <2>3, <3>1
    <2> HIDE DEF ids, new, k
    <2>5. SameBefore(ids, new, k + 1)
      BY <2>1, <2>2, <2>3 DEF SameBefore
    <2> HIDE DEF r
    <2> QED
      BY <2>1, <2>2, <2>3, <2>4, <2>5, Appended DEF new
  <1> HIDE DEF T, r, ids
  <1> DEFINE sum == FullRuntime(T)
  <1>8. Stretch(list, a, b) = SpanShape(list[a].app, list[b - 1].start, list[a].end, sum, ids)
    BY Zenon DEF Stretch, SpanShape, T, ids
  <1>9. Stretch(list, a, b + 1)
          = SpanShape(list[a].app, r.start, list[a].end, sum + r.full, Append(ids, r.id))
    BY Zenon, <1>1, <1>2, <1>6, <1>7 DEF Stretch, SpanShape, r
  <1>10. Absorb(Stretch(list, a, b), r)
           = SpanShape(list[a].app, r.start, list[a].end, sum + r.full, Append(ids, r.id))
    <2> DEFINE app == list[a].app
               start == list[b - 1].start
               end == list[a].end
    <2> HIDE DEF app, start, end, sum
    <2>1. Absorb(SpanShape(app, start, end, sum, ids), r)
            = SpanShape(app, r.start, end, sum + r.full, Append(ids, r.id))
      BY AbsorbedRow
    <2> QED
      BY Zenon, <1>8, <2>1 DEF app, start, end
  <1> QED
    BY Zenon, <1>9, <1>10 DEF r

LEMMA MergeableIsLinked ==
  ASSUME NEW list, NEW n, Listed(list, n), NEW b \in 1..n, NEW a \in 1..n, a < b,
         list[a].app = list[b - 1].app
  PROVE  Mergeable(Stretch(list, a, b), list[b]) <=> Linked(list, b - 1)
  <1>1. (b - 1) + 1 = b
    BY DEF Listed
  <1>2. Stretch(list, a, b).app = list[b - 1].app /\ Stretch(list, a, b).start = list[b - 1].start
    BY DEF Stretch
  <1> QED
    BY <1>1, <1>2 DEF Mergeable, Linked

-----------------------------------------------------------------------------
(* The fold shows a list as the runs it is cut into.                       *)

(* The first m places of a list, cut into k runs: run s begins at first[s].*)
Cut(list, m, k, first) ==
  /\ k \in Nat /\ first \in [1..k + 1 -> 1..m + 1]
  /\ first[1] = 1 /\ first[k + 1] = m + 1
  /\ \A s, t \in 1..k + 1 : s < t => first[s] < first[t]

(* The runs are linked inside ...                                          *)
LinkedInside(list, k, first) ==
  \A s \in 1..k : \A i \in first[s]..first[s + 1] - 2 : Linked(list, i)

(* ... and not to one another.                                             *)
LinkedNowhereElse(list, k, first) ==
  \A s \in 1..k : s > 1 => ~ Linked(list, first[s] - 1)

OneGame(list, k, first) ==
  \A s \in 1..k : \A i \in first[s]..first[s + 1] - 1 : list[i].app = list[first[s]].app

InRuns(list, m, k, first) ==
  /\ Cut(list, m, k, first) /\ LinkedInside(list, k, first)
  /\ LinkedNowhereElse(list, k, first) /\ OneGame(list, k, first)

ShownAs(list, k, first) == [s \in 1..k |-> Stretch(list, first[s], first[s + 1])]

(* The next row belongs to the last run.                                   *)
LEMMA LongerRun ==
  ASSUME NEW list, NEW n, Listed(list, n), NEW m \in 0..n, m < n, NEW k \in Nat, NEW first,
         InRuns(list, m, k, first), k > 0, Linked(list, m)
  PROVE  \E l \in Nat : \E longer :
           /\ InRuns(list, m + 1, l, longer)
           /\ Shown(ShownAs(list, k, first), list[m + 1]) = ShownAs(list, l, longer)
  <1> DEFINE longer == [s \in 1..k + 1 |-> IF s = k + 1 THEN m + 2 ELSE first[s]]
             out == ShownAs(list, k, first)
             row == list[m + 1]
             a == first[k]
             b == m + 1
  <1>1. /\ n \in Nat /\ m \in Nat /\ k \in Nat /\ b \in 1..n /\ b - 1 = m /\ k \in 1..k + 1
        /\ k + 1 \in 1..k + 1
    BY DEF Listed, InRuns, Cut
  <1>2. /\ first \in [1..k + 1 -> 1..m + 1] /\ first[1] = 1 /\ first[k + 1] = m + 1
        /\ \A s, t \in 1..k + 1 : s < t => first[s] < first[t]
    BY DEF InRuns, Cut
  <1>3. a \in 1..m + 1 /\ a < b /\ a \in 1..n
    BY <1>1, <1>2
  <1>4. list[m].app = list[a].app
    <2>1. m \in a..first[k + 1] - 1 /\ k \in 1..k
      BY <1>1, <1>2, <1>3
    <2> QED
      BY <2>1 DEF InRuns, OneGame
  <1>5. /\ \A s \in 1..k : longer[s] = first[s]
        /\ longer[k + 1] = m + 2
        /\ \A s \in 1..k : s + 1 \in 1..k + 1 /\ s \in 1..k + 1
        /\ \A s \in 1..k : s # k => longer[s + 1] = first[s + 1]
    BY <1>1
  <1>6. Cut(list, m + 1, k, longer)
    <2>1. \A s \in 1..k + 1 : longer[s] \in 1..(m + 1) + 1
      BY <1>1, <1>2
    <2>2. ASSUME NEW s \in 1..k + 1, NEW t \in 1..k + 1, s < t PROVE longer[s] < longer[t]
      <3>1. s \in 1..k /\ first[s] \in 1..m + 1
        BY <1>1, <1>2, <2>2
      <3>2. CASE t = k + 1
        BY <1>1, <1>5, <3>1, <3>2
      <3>3. CASE t # k + 1
        <4>1. t \in 1..k
          BY <1>1, <3>3
        <4> QED
          BY <1>2, <1>5, <2>2, <3>1, <4>1
      <3> QED
        BY <3>2, <3>3
    <2>3. longer[1] = 1 /\ longer[k + 1] = (m + 1) + 1
      BY <1>1, <1>2
    <2>4. longer = [s \in 1..k + 1 |-> longer[s]]
      OBVIOUS
    <2> HIDE DEF longer
    <2>5. longer \in [1..k + 1 -> 1..(m + 1) + 1]
      BY <2>1, <2>4
    <2> QED
      BY <1>1, <2>2, <2>3, <2>5 DEF Cut
  <1>7. LinkedInside(list, k, longer)
    <2> SUFFICES ASSUME NEW s \in 1..k, NEW i \in longer[s]..longer[s + 1] - 2
                 PROVE  Linked(list, i)
      BY DEF LinkedInside
    <2>1. \A j \in first[s]..first[s + 1] - 2 : Linked(list, j)
      BY DEF InRuns, LinkedInside
    <2>2. CASE s # k
      <3> HIDE DEF longer
      <3> QED
        BY <1>5, <2>1, <2>2
    <2>3. CASE s = k
      <3>1. longer[s] = a /\ longer[s + 1] = m + 2 /\ first[s] = a /\ first[s + 1] = m + 1
        BY <1>1, <1>2, <1>5, <2>3
      <3>2. i \in a..(m + 2) - 2
        <4> HIDE DEF longer
        <4> QED
          BY <3>1
      <3>3. i = m \/ i \in a..(m + 1) - 2
        BY <1>1, <1>3, <3>2
      <3> QED
        BY <2>1, <3>1, <3>3
    <2> QED
      BY <2>2, <2>3
  <1>8. LinkedNowhereElse(list, k, longer)
    <2> HIDE DEF longer
    <2> QED
      BY <1>5 DEF LinkedNowhereElse, InRuns
  <1>9. OneGame(list, k, longer)
    <2> SUFFICES ASSUME NEW s \in 1..k, NEW i \in longer[s]..longer[s + 1] - 1
                 PROVE  list[i].app = list[longer[s]].app
      BY DEF OneGame
    <2>1. \A j \in first[s]..first[s + 1] - 1 : list[j].app = list[first[s]].app
      BY DEF InRuns, OneGame
    <2>2. CASE s # k
      <3> HIDE DEF longer
      <3> QED
        BY <1>5, <2>1, <2>2
    <2>3. CASE s = k
      <3>1. longer[s] = a /\ longer[s + 1] = m + 2 /\ first[s] = a /\ first[s + 1] = m + 1
        BY <1>1, <1>2, <1>5, <2>3
      <3>2. i \in a..(m + 2) - 1
        <4> HIDE DEF longer
        <4> QED
          BY <3>1
      <3>3. i = m + 1 \/ i \in a..(m + 1) - 1
        BY <1>1, <1>3, <3>2
      <3>4. list[m + 1].app = list[a].app
        BY <1>4 DEF Linked
      <3> QED
        BY <2>1, <3>1, <3>3, <3>4
    <2> QED
      BY <2>2, <2>3
  <1>10. Shown(out, row) = ShownAs(list, k, longer)
    <2>1. out = [s \in 1..k |-> out[s]] /\ \A s \in 1..k : out[s] = Stretch(list, first[s], first[s + 1])
      BY DEF ShownAs
    <2>2. out[k] = Stretch(list, a, b)
      BY <1>1, <1>2, <2>1
    <2> DEFINE x == Absorb(out[k], row)
    <2> HIDE DEF out, row, a, b, x, longer
    <2>3. out # << >> /\ Last(out) = out[k] /\ k # 0
      <3>1. LongAs(out, k) /\ k # 0
        BY <1>1, <2>1 DEF LongAs
      <3> QED
        BY <3>1, NoneIsEmpty, LastOne
    <2>4. Mergeable(Stretch(list, a, b), list[b]) <=> Linked(list, b - 1)
      BY <1>1, <1>3, <1>4, MergeableIsLinked
    <2>5. Mergeable(out[k], row)
      BY <1>1, <2>2, <2>4 DEF row, b
    <2>6. x = Stretch(list, a, b + 1)
      <3>1. Absorb(Stretch(list, a, b), list[b]) = Stretch(list, a, b + 1)
        BY <1>1, <1>3, StretchAbsorbs
      <3> QED
        BY <2>2, <3>1 DEF x, row, b
    <2> DEFINE new == ShownAs(list, k, longer)
    <2>7. Shown(out, row) = Append(Front(out), x)
      BY Zenon, <2>3, <2>5 DEF Shown, x
    <2>8. new = [s \in 1..k |-> new[s]]
          /\ \A s \in 1..k : new[s] = Stretch(list, longer[s], longer[s + 1])
      BY DEF ShownAs
    <2>9. \A s \in 1..k : s # k => new[s] = out[s]
      BY <1>5, <2>1, <2>8
    <2>10. new[k] = x
      <3>1. longer[k] = a /\ longer[k + 1] = b + 1 /\ k \in 1..k
        BY <1>1, <1>5 DEF a, b
      <3> QED
        BY <2>6, <2>8, <3>1
    <2> HIDE DEF new
    <2>11. Append(Front(out), x) = new
      <3>1. LongAs(out, k) /\ LongAs(new, k) /\ SameBefore(out, new, k)
        BY <2>1, <2>8, <2>9 DEF LongAs, SameBefore
      <3> QED
        BY <2>3, <2>10, <3>1, LastReplaced
    <2> QED
      BY <2>7, <2>11 DEF new
  <1> HIDE DEF longer, out, row
  <1>11. InRuns(list, m + 1, k, longer)
    BY <1>6, <1>7, <1>8, <1>9 DEF InRuns
  <1> QED
    BY <1>10, <1>11 DEF out, row

(* The next row is a run of its own.                                       *)
LEMMA NewRun ==
  ASSUME NEW list, NEW n, Listed(list, n), NEW m \in 0..n, m < n, NEW k \in Nat, NEW first,
         InRuns(list, m, k, first), k = 0 \/ ~ Linked(list, m)
  PROVE  \E j \in Nat : \E longer :
           /\ InRuns(list, m + 1, j, longer)
           /\ Shown(ShownAs(list, k, first), list[m + 1]) = ShownAs(list, j, longer)
  <1> DEFINE longer == [s \in 1..k + 2 |-> IF s = k + 2 THEN m + 2 ELSE first[s]]
             out == ShownAs(list, k, first)
             row == list[m + 1]
             a == first[k]
             b == m + 1
             l == k + 1
  <1>1. /\ n \in Nat /\ m \in Nat /\ k \in Nat /\ b \in 1..n /\ b - 1 = m /\ l \in 1..l
        /\ l \in Nat /\ l + 1 = k + 2
    BY DEF Listed, InRuns, Cut
  <1>2. /\ first \in [1..k + 1 -> 1..m + 1] /\ first[1] = 1 /\ first[l] = m + 1
        /\ \A s, t \in 1..k + 1 : s < t => first[s] < first[t]
    BY DEF InRuns, Cut
  <1>5. /\ \A s \in 1..l : longer[s] = first[s]
        /\ longer[l + 1] = m + 2
        /\ \A s \in 1..l : s # l => s \in 1..k /\ longer[s + 1] = first[s + 1]
    BY <1>1
  <1>6. Cut(list, m + 1, l, longer)
    <2>1. \A s \in 1..l + 1 : longer[s] \in 1..(m + 1) + 1
      BY <1>1, <1>2
    <2>2. ASSUME NEW s \in 1..l + 1, NEW t \in 1..l + 1, s < t PROVE longer[s] < longer[t]
      <3>1. s \in 1..l /\ first[s] \in 1..m + 1
        BY <1>1, <1>2, <2>2
      <3>2. CASE t = l + 1
        BY <1>1, <1>5, <3>1, <3>2
      <3>3. CASE t # l + 1
        <4>1. t \in 1..l
          BY <1>1, <3>3
        <4> QED
          BY <1>2, <1>5, <2>2, <3>1, <4>1
      <3> QED
        BY <3>2, <3>3
    <2>3. longer[1] = 1 /\ longer[l + 1] = (m + 1) + 1
      BY <1>1, <1>2
    <2>4. longer = [s \in 1..l + 1 |-> longer[s]]
      BY <1>1
    <2> HIDE DEF longer
    <2>5. longer \in [1..l + 1 -> 1..(m + 1) + 1]
      BY <2>1, <2>4
    <2> QED
      BY <1>1, <2>2, <2>3, <2>5 DEF Cut
  <1>7. LinkedInside(list, l, longer)
    <2> SUFFICES ASSUME NEW s \in 1..l, NEW i \in longer[s]..longer[s + 1] - 2
                 PROVE  Linked(list, i)
      BY DEF LinkedInside
    <2>2. CASE s # l
      <3> HIDE DEF longer
      <3> QED
        BY <1>5, <2>2 DEF InRuns, LinkedInside
    <2>3. CASE s = l
      <3>1. longer[s] = m + 1 /\ longer[s + 1] = m + 2
        BY <1>1, <1>2, <1>5, <2>3
      <3>2. i \in m + 1..(m + 2) - 2
        <4> HIDE DEF longer
        <4> QED
          BY <3>1
      <3> QED
        BY <1>1, <3>2
    <2> QED
      BY <2>2, <2>3
  <1>8. LinkedNowhereElse(list, l, longer)
    <2> SUFFICES ASSUME NEW s \in 1..l, s > 1
                 PROVE  ~ Linked(list, longer[s] - 1)
      BY DEF LinkedNowhereElse
    <2>1. longer[s] = first[s]
      BY <1>5
    <2>2. CASE s # l
      <3> HIDE DEF longer
      <3> QED
        BY <1>5, <2>1, <2>2 DEF LinkedNowhereElse, InRuns
    <2>3. CASE s = l
      <3>1. k # 0 /\ longer[s] - 1 = m
        BY <1>1, <1>2, <2>1, <2>3
      <3> QED
        BY <3>1
    <2> QED
      BY <2>2, <2>3
  <1>9. OneGame(list, l, longer)
    <2> SUFFICES ASSUME NEW s \in 1..l, NEW i \in longer[s]..longer[s + 1] - 1
                 PROVE  list[i].app = list[longer[s]].app
      BY DEF OneGame
    <2>2. CASE s # l
      <3> HIDE DEF longer
      <3> QED
        BY <1>5, <2>2 DEF InRuns, OneGame
    <2>3. CASE s = l
      <3>1. longer[s] = m + 1 /\ longer[s + 1] = m + 2
        BY <1>1, <1>2, <1>5, <2>3
      <3>2. i \in m + 1..(m + 2) - 1
        <4> HIDE DEF longer
        <4> QED
          BY <3>1
      <3>3. i = m + 1
        BY <1>1, <3>2
      <3> QED
        BY <3>1, <3>3
    <2> QED
      BY <2>2, <2>3
  <1>10. Shown(out, row) = ShownAs(list, l, longer)
    <2>1. out = [s \in 1..k |-> out[s]] /\ \A s \in 1..k : out[s] = Stretch(list, first[s], first[s + 1])
      BY DEF ShownAs
    <2> DEFINE x == Span(row)
    <2>2. ASSUME k # 0 PROVE ~ Mergeable(out[k], row)
      <3>1. k \in 1..k /\ k \in 1..k + 1 /\ k + 1 \in 1..k + 1
        BY <1>1, <2>2
      <3>2. a \in 1..m + 1 /\ a < b /\ a \in 1..n
        BY <1>1, <1>2, <3>1
      <3>3. list[m].app = list[a].app
        <4>1. m \in a..first[k + 1] - 1
          BY <1>1, <1>2, <3>2
        <4> QED
          BY <3>1, <4>1 DEF InRuns, OneGame
      <3>4. out[k] = Stretch(list, a, b)
        BY <1>2, <2>1, <3>1
      <3> HIDE DEF out, row, a, b
      <3>5. Mergeable(Stretch(list, a, b), list[b]) <=> Linked(list, b - 1)
        BY <1>1, <3>2, <3>3, MergeableIsLinked
      <3> QED
        BY <1>1, <2>2, <3>4, <3>5 DEF row, b
    <2> DEFINE new == ShownAs(list, l, longer)
    <2>3. new = [s \in 1..l |-> new[s]]
          /\ \A s \in 1..l : new[s] = Stretch(list, longer[s], longer[s + 1])
      BY DEF ShownAs
    <2> HIDE DEF out, row, x, longer, new, l
    <2>4. LongAs(out, k) /\ LongAs(new, l)
      BY <2>1, <2>3 DEF LongAs
    <2>5. Shown(out, row) = Append(out, x)
      <3>1. (out = << >>) <=> (k = 0)
        BY <2>4, NoneIsEmpty
      <3>2. Last(out) = out[k]
        BY <2>4, LastOne
      <3>3. ~ (out # << >> /\ Mergeable(Last(out), row))
        BY <2>2, <3>1, <3>2
      <3> QED
        BY Zenon, <3>3 DEF Shown, x
    <2>6. x = Stretch(list, b, b + 1)
      <3>1. Span(list[b]) = Stretch(list, b, b + 1)
        BY <1>1, OneRowStretch
      <3> QED
        BY <3>1 DEF x, row
    <2>7. new[l] = x
      <3>1. longer[l] = b /\ longer[l + 1] = b + 1 /\ l \in 1..l
        BY <1>1, <1>2, <1>5 DEF l
      <3> QED
        BY <2>3, <2>6, <3>1
    <2>8. SameBefore(out, new, l)
      <3>1. ASSUME NEW s \in 1..l, s # l PROVE new[s] = out[s]
        <4>1. longer[s] = first[s] /\ longer[s + 1] = first[s + 1] /\ s \in 1..k
          BY <1>5, <3>1
        <4> QED
          BY <2>1, <2>3, <4>1
      <3> QED
        BY <3>1 DEF SameBefore
    <2>9. Append(out, x) = new
      BY <2>4, <2>7, <2>8, Appended DEF l
    <2> QED
      BY <2>5, <2>9 DEF new
  <1> HIDE DEF longer, out, row, l
  <1>11. InRuns(list, m + 1, l, longer)
    BY <1>6, <1>7, <1>8, <1>9 DEF InRuns
  <1> QED
    BY <1>1, <1>10, <1>11 DEF out, row

LEMMA FoldShowsRuns ==
  ASSUME NEW list, NEW n, Listed(list, n)
  PROVE  \E k \in Nat : \E first : InRuns(list, n, k, first) /\ Fold(list) = ShownAs(list, k, first)
  <1>1. n \in Nat /\ DOMAIN list = 1..n
    BY DEF Listed
  <1>2. PICK g : Folding(g, list, n) /\ Fold(list) = g[1..n]
    BY <1>1, FoldIsFolding
  <1> DEFINE G == {m \in 0..n : \E k \in Nat : \E first : InRuns(list, m, k, first) /\ g[1..m] = ShownAs(list, k, first)}
  <1>3. 0 \in G
    <2> DEFINE first == [s \in 1..1 |-> 1]
    <2>1. 1..0 = {} /\ 1..0 \in SUBSET (1..n)
      OBVIOUS
    <2>2. g[1..0] = << >>
      BY <1>2, <2>1 DEF Folding
    <2>3. ShownAs(list, 0, first) = << >>
      BY DEF ShownAs
    <2>4. Cut(list, 0, 0, first)
      BY DEF Cut
    <2>5. InRuns(list, 0, 0, first)
      BY <2>1, <2>4 DEF InRuns, LinkedInside, LinkedNowhereElse, OneGame
    <2> HIDE DEF first
    <2> QED
      BY <1>1, <2>2, <2>3, <2>5
  <1>4. ASSUME NEW m \in 0..n, m \in G, m < n PROVE m + 1 \in G
    <2>6. PICK k \in Nat : \E first : InRuns(list, m, k, first) /\ g[1..m] = ShownAs(list, k, first)
      BY <1>4
    <2>1. PICK first : InRuns(list, m, k, first) /\ g[1..m] = ShownAs(list, k, first)
      BY <2>6
    <2>2. g[1..m + 1] = Shown(ShownAs(list, k, first), list[m + 1])
      <3> DEFINE s == 1..m + 1
      <3>1. s \in SUBSET (1..n) /\ s # {} /\ m + 1 \in s /\ s \ {m + 1} = 1..m
        BY <1>1, <1>4
      <3>2. Max(s) = m + 1
        <4> DEFINE top == m + 1
        <4>1. s \in SUBSET Int /\ top \in s /\ \A x \in s : top >= x
          BY <1>1, <3>1
        <4> HIDE DEF s, top
        <4>2. Max(s) = top
          BY <4>1, MaxIsGreatest
        <4> QED
          BY <4>2 DEF top
      <3> HIDE DEF s
      <3>3. g[s] = Shown(g[s \ {Max(s)}], list[Max(s)])
        BY <1>2, <3>1 DEF Folding
      <3> QED
        BY <2>1, <3>1, <3>2, <3>3 DEF s
    <2>3. k \in Nat
      BY <2>1 DEF InRuns, Cut
    <2>4. m + 1 \in 0..n
      BY <1>1, <1>4
    <2>5. \E l \in Nat : \E longer : InRuns(list, m + 1, l, longer) /\ g[1..m + 1] = ShownAs(list, l, longer)
      <3>1. CASE k > 0 /\ Linked(list, m)
        BY <1>4, <2>1, <2>2, <3>1, LongerRun
      <3>2. CASE k = 0 \/ ~ Linked(list, m)
        BY <1>4, <2>1, <2>2, <3>2, NewRun
      <3> QED
        BY <2>3, <3>1, <3>2
    <2> QED
      BY <2>4, <2>5
  <1>5. n \in G
    <2> HIDE DEF G
    <2> QED
      BY <1>1, <1>3, <1>4, UpTo
  <1> QED
    BY <1>2, <1>5

-----------------------------------------------------------------------------
(* The runs are the plays, and their fragments the list.                   *)

LEMMA Joined ==
  ASSUME NEW j \in Nat, NEW k \in Nat, NEW x, LongAs(x, j), NEW y, LongAs(y, k),
         NEW z, LongAs(z, j + k),
         \A i \in 1..j + k : z[i] = IF i <= j THEN x[i] ELSE y[i - j]
  PROVE  x \o y = z
  <1>1. x \o y = [i \in 1..j + k |-> IF i <= j THEN x[i] ELSE y[i - j]]
    BY DEF LongAs
  <1> QED
    BY <1>1 DEF LongAs

LEMMA IdsJoined ==
  ASSUME NEW list, NEW a \in Nat, NEW b \in Nat, NEW c \in Nat, a <= b, b <= c
  PROVE  IdsOf(list, a, b) \o IdsOf(list, b, c) = IdsOf(list, a, c)
  <1> DEFINE x == IdsOf(list, a, b)
             y == IdsOf(list, b, c)
             z == IdsOf(list, a, c)
             j == b - a
             k == c - b
  <1>1. j \in Nat /\ k \in Nat /\ c - a = j + k /\ a + j = b
    OBVIOUS
  <1>2. x = [i \in 1..j |-> list[a + i - 1].id] /\ y = [i \in 1..k |-> list[b + i - 1].id]
        /\ z = [i \in 1..j + k |-> list[a + i - 1].id]
    BY <1>1 DEF IdsOf
  <1>3. \A i \in 1..j + k : i > j => i - j \in 1..k /\ b + (i - j) - 1 = a + i - 1
    BY <1>1
  <1> HIDE DEF x, y, z, j, k
  <1>4. LongAs(x, j) /\ LongAs(y, k) /\ LongAs(z, j + k)
    BY <1>2 DEF LongAs
  <1>5. ASSUME NEW i \in 1..j + k PROVE z[i] = IF i <= j THEN x[i] ELSE y[i - j]
    <2>1. CASE i <= j
      <3>1. i \in 1..j
        BY <1>1, <2>1
      <3> QED
        BY <1>2, <2>1, <3>1
    <2>2. CASE ~ (i <= j)
      <3>1. i - j \in 1..k /\ b + (i - j) - 1 = a + i - 1
        BY <1>1, <1>3, <2>2
      <3>2. y[i - j] = list[a + i - 1].id
        BY <1>2, <3>1
      <3> QED
        BY <1>2, <2>2, <3>2
    <2> QED
      BY <2>1, <2>2
  <1>6. x \o y = z
    BY <1>1, <1>4, <1>5, Joined
  <1> QED
    BY <1>6 DEF x, y, z

(* The fragments, one after the other.                                     *)
Flattening(g, seqs, k) == g = [i \in 1..k |-> IF i = 1 THEN seqs[i] ELSE g[i - 1] \o seqs[i]]

IdsByRun(seqs, list, k, first) ==
  \A s \in 1..k : seqs[s] = IdsOf(list, first[s], first[s + 1])

LEMMA FlattenedIds ==
  ASSUME NEW list, NEW n, Listed(list, n), NEW k \in Nat, NEW first, Cut(list, n, k, first),
         NEW seqs, LongAs(seqs, k), IdsByRun(seqs, list, k, first)
  PROVE  FlattenSeq(seqs) = [i \in 1..n |-> list[i].id]
  <1>1. /\ n \in Nat /\ first \in [1..k + 1 -> 1..n + 1] /\ first[1] = 1 /\ first[k + 1] = n + 1
        /\ \A s, t \in 1..k + 1 : s < t => first[s] < first[t]
    BY DEF Cut, Listed
  <1>2. Len(seqs) = k /\ \A s \in 1..k : seqs[s] = IdsOf(list, first[s], first[s + 1])
    BY SequenceLength DEF IdsByRun
  <1>3. CASE k = 0
    <2>1. n = 0
      BY <1>1, <1>3
    <2>2. FlattenSeq(seqs) = seqs
      BY <1>2, <1>3 DEF FlattenSeq
    <2>3. 1..k = {} /\ 1..n = {}
      BY <1>3, <2>1
    <2> QED
      BY <2>2, <2>3 DEF LongAs
  <1>4. CASE k # 0
    <2> DEFINE flatten == CHOOSE g : g = [i \in 1..Len(seqs) |->
                                            IF i = 1 THEN seqs[i] ELSE g[i - 1] \o seqs[i]]
               F == [s \in 1..k |-> IdsOf(list, 1, first[s + 1])]
    <2>1. FlattenSeq(seqs) = flatten[k]
      BY Zenon, <1>2, <1>4 DEF FlattenSeq
    <2>2. flatten = CHOOSE g : Flattening(g, seqs, k)
      BY Zenon, <1>2 DEF Flattening
    <2>3. ASSUME NEW s \in 1..k
          PROVE  F[s] = IF s = 1 THEN seqs[s] ELSE F[s - 1] \o seqs[s]
      <3>0. s \in 1..k + 1 /\ s + 1 \in 1..k + 1 /\ s \in Nat
        OBVIOUS
      <3>1. CASE s = 1
        BY <1>1, <1>2, <3>1
      <3>2. CASE s # 1
        <4>1. s - 1 \in 1..k /\ (s - 1) + 1 = s /\ s < s + 1
          BY <3>2
        <4>2. first[s] \in 1..n + 1 /\ first[s + 1] \in 1..n + 1 /\ first[s] < first[s + 1]
          BY <1>1, <3>0, <4>1
        <4>3. F[s] = IdsOf(list, 1, first[s + 1]) /\ F[s - 1] = IdsOf(list, 1, first[s])
          BY <4>1
        <4> DEFINE b == first[s]
                   c == first[s + 1]
        <4>4. b \in Nat /\ c \in Nat /\ 1 <= b /\ b <= c
          BY <1>1, <4>2
        <4> HIDE DEF b, c
        <4>5. IdsOf(list, 1, b) \o IdsOf(list, b, c) = IdsOf(list, 1, c)
          BY <4>4, IdsJoined
        <4> HIDE DEF F
        <4> QED
          BY <1>2, <3>2, <4>3, <4>5 DEF b, c
      <3> QED
        BY <3>1, <3>2
    <2>4. F = [s \in 1..k |-> F[s]]
      OBVIOUS
    <2> HIDE DEF F
    <2>5. Flattening(F, seqs, k)
      BY <2>3, <2>4 DEF Flattening
    <2>6. Flattening(flatten, seqs, k)
      BY <2>2, <2>5, Zenon
    <2> HIDE DEF flatten
    <2> DEFINE G == {s \in 0..k : s = 0 \/ flatten[s] = F[s]}
    <2>7. \A s \in 0..k : s \in G /\ s < k => s + 1 \in G
      <3> SUFFICES ASSUME NEW s \in 0..k, s \in G, s < k PROVE flatten[s + 1] = F[s + 1]
        OBVIOUS
      <3>1. s + 1 \in 1..k /\ (s + 1) - 1 = s
        OBVIOUS
      <3>2. /\ flatten[s + 1] = IF s + 1 = 1 THEN seqs[s + 1] ELSE flatten[s] \o seqs[s + 1]
            /\ F[s + 1] = IF s + 1 = 1 THEN seqs[s + 1] ELSE F[s] \o seqs[s + 1]
        <4> DEFINE t == s + 1
        <4>1. t \in 1..k /\ t - 1 = s
          BY <3>1
        <4> HIDE DEF t
        <4>2. flatten[t] = IF t = 1 THEN seqs[t] ELSE flatten[t - 1] \o seqs[t]
          BY <2>6, <4>1 DEF Flattening
        <4>3. F[t] = IF t = 1 THEN seqs[t] ELSE F[t - 1] \o seqs[t]
          BY <2>5, <4>1 DEF Flattening
        <4> QED
          BY Zenon, <4>1, <4>2, <4>3 DEF t
      <3> QED
        BY <3>2
    <2>8. k \in G
      <3>1. 0 \in G
        OBVIOUS
      <3> HIDE DEF G
      <3> QED
        BY <2>7, <3>1, UpTo
    <2>9. F[k] = IdsOf(list, 1, n + 1)
      <3>1. k \in 1..k
        BY <1>4
      <3> QED
        BY <1>1, <3>1 DEF F
    <2>10. IdsOf(list, 1, n + 1) = [i \in 1..n |-> list[i].id]
      <3>1. (n + 1) - 1 = n /\ \A i \in 1..n : 1 + i - 1 = i
        BY <1>1
      <3> QED
        BY <3>1 DEF IdsOf
    <2> QED
      BY <1>4, <2>1, <2>8, <2>9, <2>10
  <1> QED
    BY <1>3, <1>4

(* Every place lies in a run.                                              *)
LEMMA InSomeRun ==
  ASSUME NEW list, NEW n \in Nat, NEW k \in Nat, NEW first, Cut(list, n, k, first), NEW i \in 1..n
  PROVE  \E s \in 1..k : i \in first[s]..first[s + 1] - 1
  <1> DEFINE T == {s \in 1..k + 1 : first[s] > i}
  <1>1. /\ first \in [1..k + 1 -> 1..n + 1] /\ first[1] = 1 /\ first[k + 1] = n + 1
    BY DEF Cut
  <1>2. T \in SUBSET Nat /\ k + 1 \in T
    BY <1>1
  <1>3. PICK t \in T : \A s \in T : t <= s
    <2> HIDE DEF T
    <2> QED
      BY <1>2, LeastNatural
  <1>4. t \in 1..k + 1 /\ t # 1
    BY <1>1, <1>3
  <1> DEFINE s == t - 1
  <1>5. s \in 1..k /\ s \in 1..k + 1 /\ s + 1 = t /\ ~ (t <= s)
    BY <1>4
  <1>6. ~ (first[s] > i)
    BY <1>3, <1>5
  <1>7. first[s] \in 1..n + 1 /\ first[t] \in 1..n + 1 /\ first[t] > i
    BY <1>1, <1>3, <1>5
  <1> HIDE DEF s
  <1>8. i \in first[s]..first[s + 1] - 1
    BY <1>5, <1>6, <1>7
  <1> QED
    BY <1>5, <1>8

(* Whose ids a run has.                                                    *)
LEMMA IdsOfARun ==
  ASSUME NEW list, NEW n, Listed(list, n), NEW a \in 1..n + 1, NEW b \in 1..n + 1,
         NEW i \in 1..n
  PROVE  list[i].id \in Range(IdsOf(list, a, b)) <=> i \in a..b - 1
  <1> DEFINE ids == IdsOf(list, a, b)
  <1>1. n \in Nat /\ a \in Nat /\ b \in Nat
    BY DEF Listed
  <1>2. Range(ids) = {list[a + j - 1].id : j \in 1..b - a}
    BY DEF IdsOf, Range
  <1>3. ASSUME i \in a..b - 1 PROVE list[i].id \in Range(ids)
    <2>1. i - a + 1 \in 1..b - a /\ a + (i - a + 1) - 1 = i
      BY <1>1, <1>3
    <2> QED
      BY <1>2, <2>1
  <1>4. ASSUME list[i].id \in Range(ids) PROVE i \in a..b - 1
    <2>1. PICK j \in 1..b - a : list[i].id = list[a + j - 1].id
      BY <1>2, <1>4
    <2>2. a + j - 1 \in 1..n /\ a + j - 1 \in a..b - 1
      BY <1>1, <2>1
    <2> DEFINE h == a + j - 1
    <2>3. h \in 1..n /\ h \in a..b - 1 /\ list[i].id = list[h].id
      BY <2>1, <2>2
    <2> HIDE DEF h
    <2>4. ~ (i < h) /\ ~ (h < i)
      BY <2>3 DEF Listed
    <2>5. i = h
      BY <1>1, <2>3, <2>4
    <2> QED
      BY <2>3, <2>5
  <1> QED
    BY <1>3, <1>4

(* One play is one run.                                                    *)
LEMMA OnePlayIsOneRun ==
  ASSUME NEW list, NEW n, Listed(list, n), NEW k \in Nat, NEW first, InRuns(list, n, k, first),
         NEW i \in 1..n, NEW j \in 1..n, i < j
  PROVE  OnePlay(list, i, j) <=> \E s \in 1..k : {i, j} \subseteq first[s]..first[s + 1] - 1
  <1>1. /\ n \in Nat /\ first \in [1..k + 1 -> 1..n + 1] /\ first[k + 1] = n + 1
        /\ \A s, t \in 1..k + 1 : s < t => first[s] < first[t]
        /\ Cut(list, n, k, first)
    BY DEF InRuns, Cut, Listed
  <1>2. OnePlay(list, i, j) <=> \A h \in i..j - 1 : Linked(list, h)
    BY DEF OnePlay, Linked
  <1>3. ASSUME NEW s \in 1..k, {i, j} \subseteq first[s]..first[s + 1] - 1
        PROVE  OnePlay(list, i, j)
    <2>1. s \in 1..k + 1 /\ s + 1 \in 1..k + 1
      OBVIOUS
    <2>2. first[s] \in Nat /\ first[s + 1] \in Nat /\ i >= first[s] /\ j <= first[s + 1] - 1
      BY <1>1, <1>3, <2>1
    <2>3. \A h \in i..j - 1 : h \in first[s]..first[s + 1] - 2
      BY <1>1, <2>2
    <2>4. \A h \in i..j - 1 : Linked(list, h)
      BY <2>3 DEF InRuns, LinkedInside
    <2> QED
      BY <1>2, <2>4
  <1>4. ASSUME OnePlay(list, i, j)
        PROVE  \E s \in 1..k : {i, j} \subseteq first[s]..first[s + 1] - 1
    <2>1. PICK s \in 1..k : i \in first[s]..first[s + 1] - 1
      BY <1>1, InSomeRun
    <2> DEFINE t == s + 1
               h == first[t] - 1
    <2>2. s \in 1..k + 1 /\ t \in 1..k + 1 /\ t > 1
      OBVIOUS
    <2>3. first[s] \in Nat /\ first[t] \in 1..n + 1
      BY <1>1, <2>2
    <2>4. CASE j <= h
      <3>1. j \in first[s]..first[t] - 1
        BY <1>1, <2>1, <2>3, <2>4
      <3> QED
        BY <2>1, <3>1
    <2>5. CASE ~ (j <= h)
      <3>1. h \in i..j - 1
        BY <1>1, <2>1, <2>3, <2>5
      <3>2. Linked(list, h)
        <4> HIDE DEF h
        <4> QED
          BY <1>2, <1>4, <3>1
      <3>3. first[t] # n + 1
        BY <1>1, <2>3, <2>5
      <3>4. t # k + 1
        BY <1>1, <3>3
      <3>5. t \in 1..k
        BY <2>2, <3>4
      <3>6. ~ Linked(list, first[t] - 1)
        <4> HIDE DEF t, h
        <4> QED
          BY <2>2, <3>5 DEF InRuns, LinkedNowhereElse
      <3> QED
        BY <3>2, <3>6
    <2> QED
      BY <2>4, <2>5
  <1> QED
    BY <1>3, <1>4

-----------------------------------------------------------------------------
(* What the fold says of a list.                                           *)

(* A span adds up its run, and begins where its oldest row does.           *)
LEMMA SpanSumsItsRun ==
  ASSUME NEW list, NEW n, Listed(list, n), NEW a \in 1..n, NEW b \in 1..n + 1, a < b
  PROVE  LET span == Stretch(list, a, b)
             mine == {list[i] : i \in {j \in DOMAIN list :
                                         list[j].id \in Range(span.fragments)}}
         IN  /\ span.full = FullRuntime(mine)
             /\ \E row \in mine : row.start = span.start
             /\ \A row \in mine : row.start >= span.start
  <1> DEFINE span == Stretch(list, a, b)
             mine == {list[i] : i \in {j \in DOMAIN list :
                                         list[j].id \in Range(span.fragments)}}
             T == RowsOf(list, a, b)
             l == b - 1
  <1>1. n \in Nat /\ DOMAIN list = 1..n /\ a \in Nat /\ b \in Nat
    BY DEF Listed
  <1>2. span.fragments = IdsOf(list, a, b) /\ span.full = FullRuntime(T) /\ span.start = list[l].start
    BY DEF Stretch
  <1>3. mine = T
    <2>1. \A i \in 1..n : list[i].id \in Range(IdsOf(list, a, b)) <=> i \in a..b - 1
      <3>1. a \in 1..n + 1
        BY <1>1
      <3> QED
        BY <3>1, IdsOfARun
    <2>2. a..b - 1 \subseteq 1..n
      BY <1>1
    <2>3. {j \in DOMAIN list : list[j].id \in Range(span.fragments)} = a..b - 1
      BY <1>1, <1>2, <2>1, <2>2
    <2> QED
      BY <2>3 DEF RowsOf
  <1>4. l \in a..b - 1 /\ l \in 1..n /\ \A i \in a..b - 1 : i \in 1..n /\ i <= l
    BY <1>1
  <1>5. \A i \in a..b - 1 : list[i].start >= list[l].start
    <2> SUFFICES ASSUME NEW i \in a..b - 1 PROVE list[i].start >= list[l].start
      OBVIOUS
    <2>1. i \in 1..n /\ (i = l \/ i < l)
      BY <1>1, <1>4
    <2>2. list[l].start \in Int
      BY <1>4 DEF Listed
    <2> HIDE DEF l
    <2>3. CASE i = l
      BY <2>2, <2>3
    <2>4. CASE i < l
      BY <1>4, <2>1, <2>4 DEF Listed
    <2> QED
      BY <2>1, <2>3, <2>4
  <1>6. list[l] \in T /\ \A row \in T : row.start >= list[l].start
    <2> HIDE DEF l
    <2> QED
      BY <1>4, <1>5 DEF RowsOf
  <1> HIDE DEF span, mine, T, l
  <1>7. /\ span.full = FullRuntime(mine)
        /\ \E row \in mine : row.start = span.start
        /\ \A row \in mine : row.start >= span.start
    BY <1>2, <1>3, <1>6
  <1> QED
    BY <1>7 DEF span, mine

(* Whatever rows are listed, newest first and none of them twice: the fold *)
(* shows every row in one span, in order; two rows are in the same span    *)
(* exactly when they are one play; and a span has its rows' runtime and    *)
(* the start of the oldest.  (session_merge.rs:95-143.)                    *)
THEOREM FoldShowsPlays ==
  ASSUME NEW list, NEW n, Listed(list, n)
  PROVE  FoldsTo(list, Fold(list))
  <1>1. n \in Nat /\ DOMAIN list = 1..n
    BY DEF Listed
  <1>2. PICK k \in Nat : \E first : InRuns(list, n, k, first) /\ Fold(list) = ShownAs(list, k, first)
    BY FoldShowsRuns
  <1>3. PICK first : InRuns(list, n, k, first) /\ Fold(list) = ShownAs(list, k, first)
    BY <1>2
  <1>4. /\ Cut(list, n, k, first) /\ first \in [1..k + 1 -> 1..n + 1]
        /\ \A s, t \in 1..k + 1 : s < t => first[s] < first[t]
    BY <1>3 DEF InRuns, Cut
  <1> DEFINE spans == Fold(list)
  <1>5. DOMAIN spans = 1..k /\ \A s \in 1..k : spans[s] = Stretch(list, first[s], first[s + 1])
    BY <1>3 DEF ShownAs
  <1> HIDE DEF spans
  <1>6. \A s \in 1..k : spans[s].fragments = IdsOf(list, first[s], first[s + 1])
    BY <1>5 DEF Stretch
  <1>7. \A s \in 1..k : /\ first[s] \in 1..n /\ first[s + 1] \in 1..n + 1
                        /\ first[s] \in 1..n + 1 /\ first[s] < first[s + 1]
    <2> SUFFICES ASSUME NEW s \in 1..k
                 PROVE  /\ first[s] \in 1..n /\ first[s + 1] \in 1..n + 1
                        /\ first[s] \in 1..n + 1 /\ first[s] < first[s + 1]
      OBVIOUS
    <2>1. s \in 1..k + 1 /\ s + 1 \in 1..k + 1 /\ s < s + 1
      OBVIOUS
    <2>2. first[s] \in 1..n + 1 /\ first[s + 1] \in 1..n + 1 /\ first[s] < first[s + 1]
      BY <1>4, <2>1
    <2> QED
      BY <1>1, <2>2
  <1>8. FlattenSeq([s \in DOMAIN spans |-> spans[s].fragments]) = [i \in DOMAIN list |-> list[i].id]
    <2> DEFINE seqs == [s \in DOMAIN spans |-> spans[s].fragments]
    <2>1. LongAs(seqs, k) /\ IdsByRun(seqs, list, k, first)
      BY <1>5, <1>6 DEF LongAs, IdsByRun
    <2> HIDE DEF seqs
    <2>2. FlattenSeq(seqs) = [i \in 1..n |-> list[i].id]
      BY <1>4, <2>1, FlattenedIds
    <2> QED
      BY Zenon, <1>1, <2>2 DEF seqs
  <1>9. ASSUME NEW i \in 1..n, NEW j \in 1..n, i < j
        PROVE  OnePlay(list, i, j) <=>
                 \E s \in 1..k : {list[i].id, list[j].id} \subseteq Range(spans[s].fragments)
    <2>1. OnePlay(list, i, j) <=> \E s \in 1..k : {i, j} \subseteq first[s]..first[s + 1] - 1
      BY <1>3, <1>9, OnePlayIsOneRun
    <2>2. ASSUME NEW s \in 1..k, NEW h \in 1..n
          PROVE  list[h].id \in Range(spans[s].fragments) <=> h \in first[s]..first[s + 1] - 1
      BY <1>6, <1>7, IdsOfARun
    <2> QED
      BY <2>1, <2>2
  <1>10. ASSUME NEW s \in 1..k
         PROVE  LET mine == {list[i] : i \in {j \in DOMAIN list :
                                                list[j].id \in Range(spans[s].fragments)}}
                IN  /\ spans[s].full = FullRuntime(mine)
                    /\ \E row \in mine : row.start = spans[s].start
                    /\ \A row \in mine : row.start >= spans[s].start
    <2> DEFINE a == first[s]
               b == first[s + 1]
    <2>1. a \in 1..n /\ b \in 1..n + 1 /\ a < b /\ spans[s] = Stretch(list, a, b)
      BY <1>5, <1>7
    <2> HIDE DEF a, b
    <2> QED
      BY <2>1, SpanSumsItsRun
  <1>11. \A i, j \in DOMAIN list : i < j =>
           (OnePlay(list, i, j) <=>
              \E s \in DOMAIN spans :
                 {list[i].id, list[j].id} \subseteq Range(spans[s].fragments))
    <2> SUFFICES ASSUME NEW i \in DOMAIN list, NEW j \in DOMAIN list, i < j
                 PROVE  OnePlay(list, i, j) <=>
                          \E s \in DOMAIN spans :
                             {list[i].id, list[j].id} \subseteq Range(spans[s].fragments)
      OBVIOUS
    <2>1. i \in 1..n /\ j \in 1..n
      BY <1>1
    <2>2. OnePlay(list, i, j) <=>
            \E s \in 1..k : {list[i].id, list[j].id} \subseteq Range(spans[s].fragments)
      BY <1>9, <2>1
    <2> QED
      BY <1>5, <2>2
  <1>12. \A s \in DOMAIN spans :
           LET mine == {list[i] : i \in {j \in DOMAIN list :
                                           list[j].id \in Range(spans[s].fragments)}}
           IN  /\ spans[s].full = FullRuntime(mine)
               /\ \E row \in mine : row.start = spans[s].start
               /\ \A row \in mine : row.start >= spans[s].start
    BY Zenon, <1>5, <1>10
  <1> QED
    BY Zenon, <1>8, <1>11, <1>12 DEF FoldsTo, spans

-----------------------------------------------------------------------------
(* The lists of a table, and its days.                                     *)

LEMMA DayBegins ==
  ASSUME NEW t \in Nat
  PROVE  /\ DayOf(t) >= 0 /\ DayOf(t) \in Int /\ DayOf(0) = 0
         /\ Day * DayOf(t) <= t /\ t < Day * DayOf(t) + Day
  <1>1. Day \in Nat \ {0}
    BY FoldAssumption
  <1> DEFINE d == Day
             q == t \div d
  <1>2. d \in Nat \ {0}
    BY <1>1
  <1> HIDE DEF d
  <1>3. q \in Int /\ q >= 0 /\ d * q <= t /\ t < d * q + d /\ 0 \div d = 0
    <2>1. q \in Int /\ q >= 0
      BY <1>2
    <2>2. t = d * q + (t % d) /\ t % d \in 0..d - 1
      BY <1>2
    <2>3. d * q \in Int
      BY <1>2, <2>1
    <2>4. 0 \div d = 0
      BY <1>2
    <2> DEFINE p == d * q
    <2> HIDE DEF q, p
    <2>5. p <= t /\ t < p + d
      BY <1>2, <2>2, <2>3 DEF p
    <2> QED
      BY <2>1, <2>4, <2>5 DEF p
  <1> QED
    BY <1>3 DEF DayOf, d

(* What the days show adds up to what was played. *)
LEMMA DaysAddUp ==
  ASSUME NEW table, Table(table), \A row \in table : row.start \in Nat
  PROVE  SumFunction(DailyPlaytime(table, 0, {})) = FullRuntime(table)
  <1> DEFINE f == [row \in table |-> row.full]
             key == [row \in table |-> DayOf(row.start)]
             P == {key[row] : row \in table}
             Of(d) == {row \in table : key[row] = d}
             counted == {row \in table : DayOf(row.start) >= DayOf(0) /\ row.app \notin {}}
             days == DailyPlaytime(table, 0, {})
             sums == [p \in P |-> SumOver(f, Of(p))]
  <1>1. IsFiniteSet(table) /\ \A row \in table : f[row] \in Int
    BY DEF Table, Typed
  <1>2. SumFunction(sums) = SumOver(f, table)
    <2> HIDE DEF f, key
    <2> QED
      BY <1>1, SumByParts
  <1>3. counted = table
    BY DayBegins
  <1>4. days = [d \in {DayOf(row.start) : row \in counted} |->
                  FullRuntime({row \in counted : DayOf(row.start) = d})]
    BY Zenon DEF DailyPlaytime
  <1>5. {DayOf(row.start) : row \in counted} = P
    <2> HIDE DEF counted
    <2> QED
      BY <1>3
  <1>6. ASSUME NEW d
        PROVE  FullRuntime({row \in counted : DayOf(row.start) = d}) = SumOver(f, Of(d))
    <2> DEFINE T == {row \in counted : DayOf(row.start) = d}
    <2>1. T = Of(d)
      <3> HIDE DEF counted
      <3> QED
        BY <1>3
    <2>2. \A row \in Of(d) : f[row] = row.full
      OBVIOUS
    <2> DEFINE O == Of(d)
    <2> HIDE DEF f, Of, T
    <2>3. FullRuntime(Of(d)) = SumOver(f, Of(d))
      BY <2>2, FullRuntimeAsSum
    <2> QED
      BY <2>1, <2>3 DEF T
  <1>7. days = sums
    <2> HIDE DEF counted, f, Of, P, days
    <2> QED
      BY <1>4, <1>5, <1>6
  <1>8. SumOver(f, table) = FullRuntime(table)
    <2>1. \A row \in table : f[row] = row.full
      OBVIOUS
    <2> HIDE DEF f
    <2> QED
      BY <2>1, FullRuntimeAsSum
  <1> HIDE DEF days, sums
  <1> QED
    BY <1>2, <1>7, <1>8 DEF days

(* A session that lasted is in the list of the day it started on. *)
LEMMA ListedOnItsDay ==
  ASSUME NEW table, Table(table), NEW row \in table, row.start \in Nat,
         row.end = Running \/ row.end \in Nat, row.end = Running \/ row.start < row.end
  PROVE  LET midnight == Day * DayOf(row.start)
         IN  row \in Range(ListInRange(table, midnight, midnight + Day))
  <1> DEFINE from == Day * DayOf(row.start)
             to == from + Day
             T == {r \in table : r.start < to /\ (r.end = Running \/ r.end > from)}
             list == NewestFirst(T)
             n == Cardinality(T)
  <1>1. from <= row.start /\ row.start < to /\ from \in Int
    <2>1. Day \in Nat /\ DayOf(row.start) \in Int
      BY FoldAssumption, DayBegins
    <2>2. from <= row.start /\ row.start < from + Day
      BY DayBegins
    <2>3. from \in Int
      <3> DEFINE d == DayOf(row.start)
      <3> HIDE DEF d
      <3>1. Day * d \in Int
        BY <2>1 DEF d
      <3> QED
        BY <3>1 DEF d
    <2> HIDE DEF from
    <2> QED
      BY <2>2, <2>3
  <1>2. row \in T
    <2> HIDE DEF from, to
    <2>1. row.end = Running \/ row.end > from
      BY <1>1
    <2> QED
      BY <1>1, <2>1
  <1>3. Table(T)
    <2>1. T \in SUBSET table
      OBVIOUS
    <2> HIDE DEF T
    <2>2. IsFiniteSet(T)
      BY <2>1, FS_Subset DEF Table
    <2> QED
      BY <2>1, <2>2 DEF Table, DistinctIds, Typed
  <1> HIDE DEF T
  <1>4. /\ Listed(list, n)
        /\ \E i \in 1..n : list[i] = row
    BY <1>2, <1>3, NewestFirstListsTable
  <1>5. PICK i \in 1..n : list[i] = row
    BY <1>4
  <1>6. n \in Nat /\ Len(list) = n
    <2>1. n \in Nat /\ LongAs(list, n)
      BY <1>4 DEF Listed, LongAs
    <2> HIDE DEF list, n
    <2> QED
      BY <2>1, SequenceLength
  <1>7. Reverse(list) = [j \in 1..n |-> list[n - j + 1]]
    BY Zenon, <1>6 DEF Reverse
  <1> DEFINE j == n - i + 1
  <1>8. j \in 1..n /\ n - j + 1 = i
    BY <1>6
  <1> HIDE DEF list, n
  <1>9. Reverse(list)[j] = row /\ j \in DOMAIN Reverse(list)
    BY <1>5, <1>7, <1>8
  <1>10. row \in Range(Reverse(list))
    <2> HIDE DEF j
    <2> QED
      BY <1>9 DEF Range
  <1>11. ListInRange(table, from, to) = Reverse(list)
    BY Zenon DEF ListInRange, list, T
  <1> QED
    BY Zenon, <1>10, <1>11

LEMMA ListsOfATable ==
  ASSUME NEW table, Table(table), NEW limit \in Nat
  PROVE  /\ FoldsTo(ListRecent(table, Clamp(limit)), ListRecentSessions(table, limit))
         /\ \A a : FoldsTo(ListForApplication(table, a, Clamp(limit)),
                           ListSessionsForApplication(table, a, limit))
  <1>1. Clamp(limit) \in Nat
    BY DEF Clamp
  <1>2. ASSUME NEW T, Table(T)
        PROVE  FoldsTo(ListRecent(T, Clamp(limit)), Fold(ListRecent(T, Clamp(limit))))
    BY <1>1, <1>2, LimitedIsListed, FoldShowsPlays
  <1>3. ASSUME NEW a
        PROVE  Table({row \in table : row.app = a})
    <2> DEFINE T == {row \in table : row.app = a}
    <2>1. T \in SUBSET table
      OBVIOUS
    <2> HIDE DEF T
    <2>2. IsFiniteSet(T)
      BY <2>1, FS_Subset DEF Table
    <2>3. Table(T)
      BY <2>1, <2>2 DEF Table, DistinctIds, Typed
    <2> QED
      BY <2>3 DEF T
  <1> QED
    BY <1>2, <1>3 DEF ListRecentSessions, ListForApplication, ListSessionsForApplication

-----------------------------------------------------------------------------
(* The session table is a table: finitely many rows, no two with one id.   *)

RowsTable == IsFiniteSet(rows) /\ DistinctIds(rows)

LEMMA TableOfStarted ==
  ASSUME RowsOK, RowsTable, StartSession PROVE RowsTable'
  <1>1. PICK a \in Apps :
          /\ lastId' = lastId + 1
          /\ rows' = rows \cup {[id |-> lastId', app |-> a, start |-> now', end |-> Running,
                                 full |-> 0]}
    BY DEF StartSession
  <1> DEFINE new == [id |-> lastId', app |-> a, start |-> now', end |-> Running, full |-> 0]
  <1>2. new.id = lastId' /\ rows' = rows \cup {new}
    BY <1>1
  <1> HIDE DEF new
  <1>3. \A row \in rows : row.id # lastId'
    BY <1>1 DEF RowsOK
  <1>4. IsFiniteSet(rows')
    BY <1>2, FS_AddElement DEF RowsTable
  <1>5. DistinctIds(rows')
    BY <1>2, <1>3 DEF RowsTable, DistinctIds
  <1> QED
    BY <1>4, <1>5 DEF RowsTable

LEMMA ClosedKeepsId ==
  ASSUME RowsOK, NEW row \in rows, NEW at PROVE Closed(row, at).id = row.id
  <1>1. row \in [id : 1..lastId, app : Application, start : Nat, end : Nat \cup {Running}, full : Int]
    BY DEF RowsOK
  <1> QED
    BY <1>1 DEF Closed

LEMMA TableOfEnded ==
  ASSUME RowsOK, RowsTable, EndSession PROVE RowsTable'
  <1>1. PICK row \in OpenRows : rows' = (rows \ {row}) \cup {Closed(row, now')}
    BY DEF EndSession
  <1> DEFINE new == Closed(row, now')
  <1>2. row \in rows /\ new.id = row.id /\ rows' = (rows \ {row}) \cup {new}
    BY <1>1, ClosedKeepsId DEF OpenRows
  <1> HIDE DEF new
  <1>3. IsFiniteSet(rows')
    BY <1>2, FS_RemoveElement, FS_AddElement DEF RowsTable
  <1>4. DistinctIds(rows')
    BY <1>2 DEF RowsTable, DistinctIds
  <1> QED
    BY <1>3, <1>4 DEF RowsTable

LEMMA TableOfRecovered ==
  ASSUME RowsOK, RowsTable, Recover PROVE RowsTable'
  <1>1. PICK beat \in {0, now} :
          rows' = (rows \ OpenRows) \cup
                    {Closed(row, IF beat < row.start THEN row.start ELSE beat) : row \in OpenRows}
    BY DEF Recover
  <1> DEFINE f == [row \in OpenRows |-> Closed(row, IF beat < row.start THEN row.start ELSE beat)]
             closed == {f[row] : row \in OpenRows}
  <1>2. rows' = (rows \ OpenRows) \cup closed /\ OpenRows \subseteq rows
    BY <1>1 DEF OpenRows
  <1>3. \A row \in OpenRows : f[row].id = row.id
    BY <1>2, ClosedKeepsId
  <1>4. IsFiniteSet(closed)
    <2>1. f \in Surjection(OpenRows, closed)
      BY DEF Surjection
    <2>2. IsFiniteSet(OpenRows)
      BY <1>2, FS_Subset DEF RowsTable
    <2> HIDE DEF f, closed
    <2> QED
      BY <2>1, <2>2, FS_Surjection
  <1>5. IsFiniteSet(rows')
    <2>1. IsFiniteSet(rows \ OpenRows)
      BY FS_Subset DEF RowsTable
    <2> HIDE DEF closed
    <2> QED
      BY <1>2, <1>4, <2>1, FS_Union
  <1>6. DistinctIds(rows')
    <2> HIDE DEF f
    <2> QED
      BY <1>2, <1>3 DEF RowsTable, DistinctIds
  <1> QED
    BY <1>5, <1>6 DEF RowsTable

LEMMA TableStep == ASSUME RowsOK, RowsTable, [Next]_vars PROVE RowsTable'
  <1>1. CASE UNCHANGED dbVars
    BY <1>1 DEF dbVars, RowsTable
  <1>2. StartSession \/ EndSession \/ Recover \/ UNCHANGED dbVars
    BY DEF Next, Daemon, Boot, Emit, Die, BusDies, Forwarder, BuildProxy, Subscribe, SubscribeOwner,
       Forward, OwnerChanged, StreamsClosed, WaitForService, Spawn, Tray, TooltipStarted,
       TooltipEnded, Reconcile, Reconciled, vars
  <1> QED
    BY <1>1, <1>2, TableOfStarted, TableOfEnded, TableOfRecovered

LEMMA TableHolds == Spec => [](TypeOK /\ RowsTable)
  <1>1. Init => TypeOK /\ RowsTable
    BY InitTyped, ForwarderAssumption DEF Init, RowsTable
  <1>2. TypeOK /\ RowsTable /\ [Next]_vars => (TypeOK /\ RowsTable)'
    <2> SUFFICES ASSUME TypeOK, RowsTable, [Next]_vars PROVE TypeOK' /\ RowsTable'
      OBVIOUS
    <2> QED
      BY TypesStep, TableStep, TypesInParts
  <1> QED
    BY <1>1, <1>2, PTL DEF Spec

LEMMA ListsAreShown == ASSUME TypeOK, RowsTable PROVE ListsShowPlays
  <1>1. rows \subseteq [id : 1..lastId, app : Application, start : Nat,
                        end : Nat \cup {Running}, full : Int]
    BY DEF TypeOK
  <1>2. Table(rows)
    BY <1>1 DEF RowsTable, Table, Typed, TypeOK
  <1>3. \A row \in rows : row.start \in Nat /\ (row.end = Running \/ row.end \in Nat)
    BY <1>1
  <1>4. \A limit \in {1, 2, MaxSessions} :
          FoldsTo(ListRecent(rows, Clamp(limit)), ListRecentSessions(rows, limit))
    BY <1>2, ListsOfATable, ForwarderAssumption
  <1>5. \A a \in {row.app : row \in rows} :
          FoldsTo(ListForApplication(rows, a, Clamp(MaxSessions)),
                  ListSessionsForApplication(rows, a, MaxSessions))
    BY <1>2, ListsOfATable, ForwarderAssumption
  <1>6. SumFunction(DailyPlaytime(rows, 0, {})) = FullRuntime(rows)
    BY <1>2, <1>3, DaysAddUp
  <1>7. ASSUME NEW row \in rows, row.end = Running \/ row.start < row.end
        PROVE  LET midnight == Day * DayOf(row.start)
               IN  row \in Range(ListInRange(rows, midnight, midnight + Day))
    BY <1>2, <1>3, <1>7, ListedOnItsDay
  <1> QED
    BY Zenon, <1>4, <1>5, <1>6, <1>7 DEF ListsShowPlays

(* Whatever is played, crashes and is recovered, the lists of recent       *)
(* sessions show each play as one span and each row once, with what the    *)
(* rows add up to; the days add up to what was played, and the list of a   *)
(* day has what was started on it.                                         *)
(* (session_merge.rs:95-143, dbus.rs:150-191, 307-340.)                    *)
THEOREM ListsHold == Spec => []ListsShowPlays
  <1>1. TypeOK /\ RowsTable => ListsShowPlays
    BY ListsAreShown
  <1> QED
    BY <1>1, TableHolds, PTL

-----------------------------------------------------------------------------
(* What a reconciliation is told of the table.                             *)

(* A list of one is folded into the one span of its row.                   *)
LEMMA FoldOfOneRow ==
  ASSUME NEW list, DOMAIN list = 1..1
  PROVE  Fold(list) # << >> /\ Fold(list)[1].end = list[1].end
  <1>1. PICK g : Folding(g, list, 1) /\ Fold(list) = g[1..1]
    BY FoldIsFolding
  <1>2. 1..1 = {1} /\ Max({1}) = 1 /\ {1} \ {1} = {}
    BY MaxIsGreatest
  <1>3. g[{}] = << >> /\ g[{1}] = Shown(g[{1} \ {Max({1})}], list[Max({1})])
    <2>1. {} \in SUBSET (1..1) /\ {1} \in SUBSET (1..1) /\ {1} # {}
      BY <1>2
    <2> QED
      BY Zenon, <1>1, <2>1 DEF Folding
  <1>4. g[{1}] = Shown(<< >>, list[1])
    BY <1>2, <1>3
  <1>5. Shown(<< >>, list[1]) = Append(<< >>, Span(list[1]))
    BY Zenon DEF Shown
  <1>6. Fold(list) = Append(<< >>, Span(list[1]))
    BY <1>1, <1>2, <1>4, <1>5
  <1>7. Span(list[1]).end = list[1].end
    BY DEF Span
  <1> DEFINE span == Span(list[1])
  <1> HIDE DEF span
  <1>8. Append(<< >>, span) # << >> /\ Append(<< >>, span)[1] = span
    OBVIOUS
  <1> QED
    BY <1>6, <1>7, <1>8 DEF span

(* The one recent session is shown the way a newest row ends.              *)
LEMMA NewestIsShown ==
  ASSUME NEW table, Table(table), table # {}
  PROVE  /\ ListRecentSessions(table, 1) # << >>
         /\ \E row \in table : /\ ListRecentSessions(table, 1)[1].end = row.end
                               /\ \A s \in table : row.start >= s.start
  <1> DEFINE list == NewestFirst(table)
             m == Cardinality(table)
             short == ListRecent(table, Clamp(1))
  <1>1. /\ Listed(list, m)
        /\ \A i \in 1..m : list[i] \in table
        /\ \A r \in table : \E i \in 1..m : list[i] = r
    BY NewestFirstListsTable
  <1>2. m \in Nat /\ 1 \in 1..m
    <2> HIDE DEF list
    <2>1. PICK r \in table : TRUE
      OBVIOUS
    <2>2. PICK i \in 1..m : list[i] = r
      BY <1>1
    <2>3. m \in Nat
      BY <1>1 DEF Listed
    <2> QED
      BY <2>2, <2>3
  <1>3. list \in Seq({list[i] : i \in 1..m}) /\ Len(list) = m
    <2> HIDE DEF list, m
    <2> QED
      BY <1>1 DEF Listed
  <1>4. short = SubSeq(list, 1, 1)
    <2>1. Clamp(1) = 1
      BY DEF Clamp
    <2> HIDE DEF m
    <2>2. (IF 1 < Len(list) THEN 1 ELSE Len(list)) = 1
      BY <1>2, <1>3
    <2> QED
      BY Zenon, <2>1, <2>2 DEF ListRecent, Limited
  <1> HIDE DEF list, m, short
  <1>5. DOMAIN short = 1..1 /\ short[1] = list[1]
    BY <1>2, <1>3, <1>4
  <1>6. ListRecentSessions(table, 1) = Fold(short)
    BY Zenon DEF ListRecentSessions, short
  <1>7. list[1] \in table /\ list[1].start \in Int
    BY <1>1, <1>2 DEF Listed
  <1>8. ASSUME NEW s \in table PROVE list[1].start >= s.start
    <2>1. PICK i \in 1..m : list[i] = s
      BY <1>1
    <2>2. CASE i = 1
      BY <1>7, <2>1, <2>2
    <2>3. CASE i # 1
      <3>1. 1 < i
        BY <1>2, <2>3
      <3> QED
        BY <1>1, <1>2, <2>1, <3>1 DEF Listed
    <2> QED
      BY <2>2, <2>3
  <1> QED
    BY <1>5, <1>6, <1>7, <1>8, FoldOfOneRow

LEMMA NothingIsShown == ListRecentSessions({}, 1) = << >>
  <1>1. NewestFirst({}) = << >> /\ Clamp(1) = 1
    BY FS_EmptySet DEF NewestFirst, Clamp
  <1>2. ListRecent({}, 1) = << >>
    <2>1. Limited(<< >>, 1) = SubSeq(<< >>, 1, 0)
      BY DEF Limited
    <2>2. SubSeq(<< >>, 1, 0) = << >>
      OBVIOUS
    <2> QED
      BY <1>1, <2>1, <2>2 DEF ListRecent
  <1>3. Fold(<< >>) = << >>
    <2>1. DOMAIN << >> = 1..0 /\ 1..0 = {} /\ {} \in SUBSET (1..0)
      OBVIOUS
    <2>2. PICK g : Folding(g, << >>, 0) /\ Fold(<< >>) = g[1..0]
      BY <2>1, FoldIsFolding
    <2>3. g[{}] = << >>
      BY <2>1, <2>2 DEF Folding
    <2> QED
      BY <2>1, <2>2, <2>3
  <1> QED
    BY Zenon, <1>1, <1>2, <1>3 DEF ListRecentSessions

(* What a reconciliation is told, where somebody can be asked.             *)
LEMMA NewestIsAnswered ==
  ASSUME TypeOK, RowsTable, rows # {}, ~ Lost
  PROVE  \E row \in rows : /\ ActiveSession = "active" <=> row \in OpenRows
                           /\ \A s \in rows : row.start >= s.start
  <1>1. Table(rows)
    BY DEF RowsTable, Table, Typed, TypeOK
  <1>2. PICK row \in rows : /\ ListRecentSessions(rows, 1) # << >>
                            /\ ListRecentSessions(rows, 1)[1].end = row.end
                            /\ \A s \in rows : row.start >= s.start
    BY <1>1, NewestIsShown
  <1>3. ActiveSession = "active" <=> row.end = Running
    BY <1>2 DEF ActiveSession, Lost
  <1> QED
    BY <1>2, <1>3 DEF OpenRows

(* Nothing is active that is not played: the tray's question is never      *)
(* answered with a game when no session is open, whatever rows there are,  *)
(* and no answer counts as none.  (tray.rs:439-468.)                       *)
THEOREM NoGameIsInvented == Spec => [](ActiveSession = "active" => OpenRows # {})
  <1>1. TypeOK /\ RowsTable => (ActiveSession = "active" => OpenRows # {})
    <2> SUFFICES ASSUME TypeOK, RowsTable, ActiveSession = "active" PROVE OpenRows # {}
      OBVIOUS
    <2>1. ~ Lost
      BY DEF ActiveSession, Lost
    <2>2. CASE rows = {}
      BY <2>2, NothingIsShown DEF ActiveSession
    <2>3. CASE rows # {}
      BY <2>1, <2>3, NewestIsAnswered
    <2> QED
      BY <2>2, <2>3
  <1> QED
    BY <1>1, TableHolds, PTL

(* Where one game is played, its open row is the newest.                   *)
StartedInTime ==
  /\ \A row \in rows : row.start <= now
  /\ \A row \in OpenRows : row.app \in Apps
  /\ daemon = "up" => \A row \in OpenRows : \A r \in rows : r # row => r.start < row.start

LEMMA InTimeOfStarted ==
  ASSUME \A a, b \in Apps : a = b, RowsOK, StartedInTime, StartSession
  PROVE  StartedInTime'
  <1>1. PICK a \in Apps :
          /\ daemon = "up" /\ now' = now + 1
          /\ \A row \in OpenRows : row.app # a
          /\ rows' = rows \cup {[id |-> lastId', app |-> a, start |-> now', end |-> Running,
                                 full |-> 0]}
    BY DEF StartSession
  <1> DEFINE new == [id |-> lastId', app |-> a, start |-> now', end |-> Running, full |-> 0]
  <1>2. new.start = now' /\ new.app \in Apps /\ rows' = rows \cup {new}
    BY <1>1
  <1> HIDE DEF new
  <1>3. now' = now + 1 /\ \A row \in rows : row.start \in Nat /\ row.start <= now /\ row.start < now'
    <2>1. now \in Nat /\ \A row \in rows : row.start \in Nat
      BY DEF RowsOK
    <2> QED
      BY <1>1, <2>1 DEF StartedInTime
  <1>4. OpenRows = {}
    BY <1>1 DEF StartedInTime
  <1>5. OpenRows' \subseteq {new}
    BY <1>2, <1>4 DEF OpenRows
  <1>6. \A row \in rows' : row.start <= now'
    BY <1>2, <1>3 DEF RowsOK
  <1> QED
    BY <1>2, <1>3, <1>5, <1>6 DEF StartedInTime

LEMMA InTimeOfEnded ==
  ASSUME RowsOK, StartedInTime, EndSession PROVE StartedInTime'
  <1>1. PICK row \in OpenRows : /\ daemon' = daemon /\ daemon = "up" /\ now' = now + 1
                                /\ rows' = (rows \ {row}) \cup {Closed(row, now')}
    BY DEF EndSession
  <1> DEFINE new == Closed(row, now')
  <1>2. now \in Nat /\ (\A r \in rows : r.start \in Nat) /\ row \in rows
    BY DEF RowsOK, OpenRows
  <1>3. new.start = row.start /\ new.end = now' /\ now' # Running
    <2>1. row \in [id : 1..lastId, app : Application, start : Nat, end : Nat \cup {Running}, full : Int]
      BY <1>2 DEF RowsOK
    <2> QED
      BY <1>1, <1>2, <2>1 DEF Closed, Running
  <1>4. rows' = (rows \ {row}) \cup {new}
    BY <1>1
  <1> HIDE DEF new
  <1>5. OpenRows' \subseteq OpenRows \ {row}
    BY <1>3, <1>4 DEF OpenRows
  <1>6. \A r \in rows' : r.start <= now'
    BY <1>1, <1>2, <1>3, <1>4 DEF StartedInTime
  <1>7. \A o \in OpenRows' : \A r \in rows' : r # o => r.start < o.start
    <2> SUFFICES ASSUME NEW o \in OpenRows', NEW r \in rows', r # o PROVE r.start < o.start
      OBVIOUS
    <2>1. o \in OpenRows /\ o # row
      BY <1>5
    <2>2. CASE r = new
      BY <1>1, <1>2, <1>3, <2>1, <2>2 DEF StartedInTime
    <2>3. CASE r # new
      BY <1>1, <1>4, <2>1, <2>3 DEF StartedInTime
    <2> QED
      BY <2>2, <2>3
  <1>8. \A o \in OpenRows' : o.app \in Apps
    BY <1>5 DEF StartedInTime
  <1> QED
    BY <1>6, <1>7, <1>8 DEF StartedInTime

LEMMA InTimeOfRecovered ==
  ASSUME TypeOK, StartedInTime, Recover PROVE StartedInTime'
  <1>1. PICK beat \in {0, now} :
          /\ now' = now
          /\ rows' = (rows \ OpenRows) \cup
                    {Closed(row, IF beat < row.start THEN row.start ELSE beat) : row \in OpenRows}
    BY DEF Recover
  <1>2. ASSUME NEW row \in rows, NEW at PROVE Closed(row, at).start = row.start
    <2>1. row \in [id : 1..lastId, app : Application, start : Nat, end : Nat \cup {Running}, full : Int]
      BY DEF TypeOK
    <2> QED
      BY <2>1 DEF Closed
  <1>3. \A row \in rows' : row.start <= now'
    BY <1>1, <1>2 DEF StartedInTime, OpenRows
  <1> QED
    BY <1>3, RecoveredRows DEF StartedInTime

LEMMA InTimeStep ==
  ASSUME \A a, b \in Apps : a = b, TypeOK, StartedInTime, [Next]_vars PROVE StartedInTime'
  <1>1. RowsOK
    BY TypesInParts
  <1>2. CASE UNCHANGED dbVars /\ (daemon' = "up" => daemon = "up")
    BY <1>2 DEF dbVars, StartedInTime, OpenRows
  <1>3. \/ StartSession \/ EndSession \/ Recover
        \/ UNCHANGED dbVars /\ (daemon' = "up" => daemon = "up")
    BY DEF Next, Daemon, Boot, Emit, Die, BusDies, Forwarder, BuildProxy, Subscribe, SubscribeOwner,
       Forward, OwnerChanged, StreamsClosed, WaitForService, Spawn, Tray, TooltipStarted,
       TooltipEnded, Reconcile, Reconciled, vars, daemonVars
  <1> QED
    BY <1>1, <1>2, <1>3, InTimeOfStarted, InTimeOfEnded, InTimeOfRecovered

(* "The first row is the live one" of tray.rs:440-447 is so where one game *)
(* is played: whenever the daemon tracks it, and can be asked, the answer  *)
(* is that it does, over any crashes and recoveries.  That two games are   *)
(* what it takes to be wrong is the finding about the tray's question.     *)
THEOREM OneGameIsSeen ==
  ASSUME \A a, b \in Apps : a = b,
         \A table \in Tables : \A row \in table : row.start <= row.end
  PROVE  Spec => []ReconciliationSeesTheGame
  <1>1. Init => StartedInTime
    <2> SUFFICES ASSUME Init PROVE StartedInTime
      OBVIOUS
    <2>1. \A row \in rows : row.start \in Nat /\ row.end \in Nat /\ row.start <= row.end /\ row.end <= now
      BY ForwarderAssumption DEF Init
    <2>2. now \in Nat
      BY InitTyped DEF TypeOK
    <2>3. OpenRows = {} /\ \A row \in rows : row.start <= now
      BY <2>1, <2>2 DEF OpenRows, Running
    <2> QED
      BY <2>3 DEF StartedInTime
  <1>2. (TypeOK /\ RowsTable) /\ StartedInTime /\ [Next]_vars => StartedInTime'
    BY InTimeStep
  <1>3. (TypeOK /\ RowsTable) /\ StartedInTime => ReconciliationSeesTheGame
    <2> SUFFICES ASSUME TypeOK, RowsTable, StartedInTime,
                        daemon = "up", bus = "present", OpenRows # {}
                 PROVE  ActiveSession = "active"
      BY DEF ReconciliationSeesTheGame
    <2>1. PICK open \in OpenRows : TRUE
      OBVIOUS
    <2>2. open \in rows /\ rows # {} /\ ~ Lost
      BY <2>1 DEF OpenRows, Lost
    <2>3. PICK row \in rows : /\ ActiveSession = "active" <=> row \in OpenRows
                              /\ \A s \in rows : row.start >= s.start
      BY <2>2, NewestIsAnswered
    <2>4. row.start \in Nat /\ open.start \in Nat
      BY <2>2 DEF TypeOK
    <2>5. row = open
      BY <2>2, <2>3, <2>4 DEF StartedInTime
    <2> QED
      BY <2>1, <2>3, <2>5
  <1> QED
    BY <1>1, <1>2, <1>3, TableHolds, PTL DEF Spec
=============================================================================
