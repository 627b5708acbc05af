--------------------------- MODULE SignalForwarder ---------------------------
(***************************************************************************)
(* How a session gets to the tray: the manager's notifications and their   *)
(* bounded channel, run_notifier of dbus.rs, the session bus, the signal   *)
(* forwarder of app/src-tauri/src/bridge.rs and the tray worker of tray.rs *)
(* that paints its icon.  The daemon stops, crashes and restarts under a   *)
(* desktop application that stays.                                         *)
(*                                                                         *)
(* A stream of signals is bound to the owner the name has when the stream  *)
(* is made (bridge.rs:517-520), so the forwarder rebuilds its streams      *)
(* whenever the owner changes.  The names in the tooltip, themes and       *)
(* windows are left out, and so is what the pages fetch for themselves.    *)
(***************************************************************************)
EXTENDS SessionFold

CONSTANTS Apps,          \* the applications that are played
          Tables,        \* the tables of closed sessions to begin with
          MaxSessions,   \* bound on the rows ever opened
          MaxBoots,      \* bound on the daemon's starts
          NotificationCapacity   \* NOTIFICATION_CHANNEL_CAPACITY

ASSUME ForwarderAssumption ==
  /\ MaxSessions \in Nat /\ MaxBoots \in Nat /\ NotificationCapacity \in Nat \ {0}
  /\ \A table \in Tables :
       /\ IsFiniteSet(table) /\ DistinctIds(table)
       /\ table \subseteq [id : 1..Cardinality(table), app : {row.app : row \in table},
                           start : Nat, end : Nat, full : Nat]

Signal == {"started", "ended"}
Nobody == 0

VARIABLES rows, lastId, now,      \* the session table, its counter, the time
          daemon, owner, boots,   \* the daemon and the bus name it owns
          channel,                \* manager to notifier
          bus,                    \* the application's session bus connection
          forwarder,              \* what run_signal_forwarder does next
          reconnect,              \* is_reconnect
          bound,                  \* signal -> the owner its stream is bound to
          streams,                \* signal -> its emissions not yet read
          changed,                \* a NameOwnerChanged is not yet read
          updates,                \* TrayStateUpdates not yet handled
          answer,                 \* active_session's, while it is applied
          spawned, icon,          \* the tray, once it is up
          blurred, deaf           \* history: see below

dbVars     == <<rows, lastId, now>>
daemonVars == <<daemon, owner, boots, channel>>
busVars    == <<bound, streams, changed>>
guiVars    == <<bus, forwarder, reconnect>>
trayVars   == <<updates, answer, spawned, icon>>
vars == <<dbVars, daemonVars, busVars, guiVars, trayVars, blurred, deaf>>

OpenRows == {row \in rows : row.end = Running}
Unbound == [k \in Signal |-> Nobody]
Silent == [k \in Signal |-> << >>]

(* The applications of the rows there are, and of those to come. *)
Application == Apps \cup UNION {{row.app : row \in table} : table \in Tables}

(* A notification; its place in time goes by the row it is about.          *)
Note == [kind : Signal, at : 0..(2 * lastId + 1)]

TypeOK ==
  /\ rows \subseteq [id : 1..lastId, app : Application, start : Nat,
                     end : Nat \cup {Running}, full : Int]
  /\ lastId \in Nat /\ now \in Nat
  /\ daemon \in {"down", "booting", "up"} /\ boots \in Nat
  /\ owner = IF daemon = "down" THEN Nobody ELSE boots
  /\ daemon = "down" \/ boots > 0
  /\ channel \in Seq(Note) /\ (daemon = "up" \/ channel = << >>)
  /\ bus \in {"absent", "present", "dead"} /\ reconnect \in BOOLEAN
  /\ forwarder \in {"proxy", "started", "ended", "owner", "listening", "await", "exited"}
  /\ bound \in [Signal -> 0..boots] /\ streams \in [Signal -> Seq(Note)]
  /\ changed \in BOOLEAN /\ (changed => forwarder = "listening")
  /\ updates \in Seq([kind : Signal \cup {"disconnected", "reconnected"}, at : Nat])
  /\ answer \in {"none", "idle", "active"}
  /\ answer = "none" \/ (updates # << >> /\ Head(updates).kind = "reconnected")
  /\ spawned \in BOOLEAN /\ icon \in {"idle", "active"} /\ (spawned \/ icon = "idle")
  /\ blurred \in BOOLEAN /\ deaf \in BOOLEAN

Init ==
  /\ rows \in Tables /\ lastId = Cardinality(rows)
  /\ now \in {0} \cup {row.end : row \in rows} /\ \A row \in rows : row.end <= now
  /\ daemon = "down" /\ owner = Nobody /\ boots = 0 /\ channel = << >>
  /\ bus \in {"absent", "present"} /\ forwarder = "proxy" /\ reconnect = FALSE
  /\ bound = Unbound /\ streams = Silent /\ changed = FALSE
  /\ updates = << >> /\ answer = "none" /\ spawned = FALSE /\ icon = "idle"
  /\ blurred = FALSE /\ deaf = FALSE

-----------------------------------------------------------------------------
(* The daemon. *)

(* The name changes hands: whoever watches it is told. *)
Owned(by) ==
  /\ owner' = by
  /\ changed' = (changed \/ forwarder = "listening")
  /\ deaf' = (deaf \/ forwarder \in {"started", "ended", "owner"})

(* dbus::serve owns the name before the orphans are recovered. *)
Boot ==
  /\ daemon = "down" /\ boots < MaxBoots
  /\ daemon' = "booting" /\ boots' = boots + 1 /\ Owned(boots + 1)
  /\ UNCHANGED <<dbVars, channel, guiVars, trayVars, bound, streams, blurred>>

Closed(row, at) == [row EXCEPT !.end = at, !.full = at - row.start]

(* recover_orphans closes each with its last heartbeat; nothing is         *)
(* notified of it.                                                         *)
Recover ==
  \E beat \in {0, now} :
    /\ daemon = "booting"
    /\ daemon' = "up"
    /\ rows' = (rows \ OpenRows) \cup
                 {Closed(row, IF beat < row.start THEN row.start ELSE beat) : row \in OpenRows}
    /\ UNCHANGED <<lastId, now, owner, boots, channel, busVars, guiVars, trayVars,
                   blurred, deaf>>

(* SessionManager::notify: try_send, which a full channel refuses. *)
Notify(n) ==
  channel' = IF Len(channel) < NotificationCapacity THEN Append(channel, n) ELSE channel

Refused == Len(channel) >= NotificationCapacity

StartSession ==
  \E a \in Apps :
    /\ daemon = "up" /\ lastId < MaxSessions
    /\ \A row \in OpenRows : row.app # a
    /\ now' = now + 1 /\ lastId' = lastId + 1
    /\ rows' = rows \cup {[id |-> lastId', app |-> a, start |-> now', end |-> Running,
                           full |-> 0]}
    /\ Notify([kind |-> "started", at |-> 2 * lastId'])
    /\ blurred' = (blurred \/ Refused)
    /\ UNCHANGED <<daemon, owner, boots, busVars, guiVars, trayVars, deaf>>

(* The tray takes any end for the end of play: with another session open   *)
(* it will be wrong until the next reconciliation.                         *)
EndSession ==
  \E row \in OpenRows :
    /\ daemon = "up"
    /\ now' = now + 1
    /\ rows' = (rows \ {row}) \cup {Closed(row, now')}
    /\ Notify([kind |-> "ended", at |-> 2 * row.id + 1])
    /\ blurred' = (blurred \/ Refused \/ OpenRows # {row})
    /\ UNCHANGED <<lastId, daemon, owner, boots, busVars, guiVars, trayVars, deaf>>

(* A crash; what a clean stop adds, sessions closed and signals sent, are  *)
(* the steps before it.                                                    *)
Die ==
  /\ daemon # "down"
  /\ daemon' = "down" /\ channel' = << >> /\ Owned(Nobody)
  /\ UNCHANGED <<dbVars, boots, guiVars, trayVars, bound, streams, blurred>>

(* run_notifier and emit: the signal goes to the stream bound to us.  An   *)
(* end that is lost when the start was not will be believed too late.      *)
Emit ==
  /\ daemon = "up" /\ channel # << >>
  /\ LET n == Head(channel)
         heard == {k \in Signal : bound[k] = owner}
     IN  /\ streams' = IF n.kind \in heard
                       THEN [streams EXCEPT ![n.kind] = Append(@, n)] ELSE streams
         /\ blurred' = (blurred \/ (n.kind \notin heard /\ heard # {}))
  /\ channel' = Tail(channel)
  /\ UNCHANGED <<dbVars, daemon, owner, boots, bound, changed, guiVars, trayVars, deaf>>

(* The session is over.  What the daemon does without its bus, nobody      *)
(* hears: its steps are left out.                                          *)
BusDies ==
  /\ bus = "present" /\ bus' = "dead"
  /\ UNCHANGED <<dbVars, daemonVars, busVars, forwarder, reconnect, trayVars, blurred, deaf>>

-----------------------------------------------------------------------------
(* The forwarder. *)

(* app.emit: the tray's listeners push an update for what concerns it. *)
Push(kind, at) == updates' = Append(updates, [kind |-> kind, at |-> at])

(* A plausible mistake: the tray keeps its icon until the next news. *)
RebuildQuietly(next) ==
  /\ forwarder' = next
  /\ bound' = Unbound /\ streams' = Silent /\ changed' = FALSE
  /\ UNCHANGED updates

(* A session of signals is over: its streams are dropped, and the tray is  *)
(* told, whatever the reason.                                              *)
Rebuild(next) ==
  /\ forwarder' = next
  /\ bound' = Unbound /\ streams' = Silent /\ changed' = FALSE
  /\ Push("disconnected", 0)

(* bridge.proxy opens the connection on first use. *)
BuildProxy ==
  /\ forwarder = "proxy"
  /\ IF bus = "present"
     THEN /\ forwarder' = "started"
          /\ deaf' = FALSE
          /\ UNCHANGED <<busVars, updates>>
     ELSE Rebuild("await") /\ UNCHANGED deaf
  /\ UNCHANGED <<dbVars, daemonVars, bus, reconnect, answer, spawned, icon, blurred>>

(* receive_session_started, receive_session_ended. *)
Subscribe ==
  /\ forwarder \in Signal
  /\ IF bus = "present"
     THEN /\ bound' = [bound EXCEPT ![forwarder] = owner]
          /\ forwarder' = IF forwarder = "started" THEN "ended" ELSE "owner"
          /\ UNCHANGED <<streams, changed, updates>>
     ELSE Rebuild("await")
  /\ UNCHANGED <<dbVars, daemonVars, bus, reconnect, answer, spawned, icon, blurred, deaf>>

(* A plausible mistake: nobody is told that the streams are live again. *)
SubscribeQuietly ==
  /\ forwarder = "owner" /\ bus = "present"
  /\ forwarder' = "listening"
  /\ blurred' = (blurred \/ deaf \/ (~reconnect /\ daemon # "down")
                          \/ \E k \in Signal : bound[k] # owner)
  /\ UNCHANGED <<dbVars, daemonVars, bus, reconnect, answer, spawned, icon, deaf,
                 busVars, updates>>

(* subscribe_owner_changed, and the news that the streams are live.  A     *)
(* first connection is not reconciled.                                     *)
SubscribeOwner ==
  /\ forwarder = "owner"
  /\ IF bus = "present"
     THEN /\ forwarder' = "listening"
          /\ IF reconnect THEN Push("reconnected", 0) ELSE UNCHANGED updates
          /\ blurred' = (blurred \/ deaf \/ (~reconnect /\ daemon # "down")
                          \/ \E k \in Signal : bound[k] # owner)
          /\ UNCHANGED busVars
     ELSE Rebuild("await") /\ UNCHANGED blurred
  /\ UNCHANGED <<dbVars, daemonVars, bus, reconnect, answer, spawned, icon, deaf>>

Overtakes(k) == \E j \in Signal \ {k} : \E i \in DOMAIN streams[j] :
                  streams[j][i].at < Head(streams[k]).at

(* select! picks any branch that is ready: streams do not wait for each    *)
(* other.                                                                  *)
Forward ==
  \E k \in Signal :
    /\ forwarder = "listening" /\ streams[k] # << >>
    /\ Push(k, Head(streams[k]).at)
    /\ streams' = [streams EXCEPT ![k] = Tail(@)]
    /\ blurred' = (blurred \/ Overtakes(k))
    /\ UNCHANGED <<dbVars, daemonVars, bound, changed, guiVars, answer, spawned, icon, deaf>>

OwnerChanged ==
  /\ forwarder = "listening" /\ changed
  /\ Rebuild("proxy")
  /\ reconnect' = TRUE
  /\ UNCHANGED <<dbVars, daemonVars, bus, answer, spawned, icon, blurred, deaf>>

(* Every stream has ended; what was in them was read first. *)
StreamsClosed ==
  /\ forwarder = "listening" /\ bus = "dead" /\ ~changed /\ streams = Silent
  /\ Rebuild("exited")
  /\ UNCHANGED <<dbVars, daemonVars, bus, reconnect, answer, spawned, icon, blurred, deaf>>

(* wait_for_service, after a set-up that failed. *)
WaitForService ==
  /\ forwarder = "await"
  /\ \/ bus = "present" /\ owner # Nobody /\ forwarder' = "proxy" /\ reconnect' = TRUE
     \/ bus # "present" /\ forwarder' = "exited" /\ UNCHANGED reconnect
  /\ UNCHANGED <<dbVars, daemonVars, busVars, bus, trayVars, blurred, deaf>>

-----------------------------------------------------------------------------
(* The tray. *)

Spawn ==
  /\ ~spawned /\ spawned' = TRUE
  /\ UNCHANGED <<dbVars, daemonVars, busVars, guiVars, updates, answer, icon, blurred, deaf>>

(* A plausible mistake: the icon is kept for a tray that is not up yet. *)
ApplySessionAhead(to) ==
  /\ icon' = to
  /\ blurred' = (blurred \/ (~spawned /\ to = "active"))

(* apply_session: no handle yet, no effect. *)
ApplySession(to) ==
  /\ icon' = IF spawned THEN to ELSE icon
  /\ blurred' = (blurred \/ (~spawned /\ to = "active"))

TooltipStarted ==
  /\ updates # << >> /\ answer = "none" /\ Head(updates).kind = "started"
  /\ ApplySession("active")
  /\ updates' = Tail(updates)
  /\ UNCHANGED <<dbVars, daemonVars, busVars, guiVars, answer, spawned, deaf>>

(* An end, or the loss of the daemon. *)
TooltipEnded ==
  /\ updates # << >> /\ answer = "none"
  /\ Head(updates).kind \in {"ended", "disconnected"}
  /\ ApplySession("idle")
  /\ updates' = Tail(updates)
  /\ UNCHANGED <<dbVars, daemonVars, busVars, guiVars, answer, spawned, deaf>>

(* active_session: the newest row, if it is open.  No answer is idle.      *)
ActiveSession ==
  LET recent == ListRecentSessions(rows, 1)
  IN  IF daemon = "down" \/ bus # "present" \/ recent = << >> THEN "idle"
      ELSE IF recent[1].end = Running THEN "active" ELSE "idle"

(* What the tray was told before is settled: nothing is under way, and the *)
(* answer is the whole truth.                                              *)
Settled == /\ daemon = "up" /\ bus = "present" /\ ~deaf
           /\ channel = << >> /\ streams = Silent /\ ~changed /\ Len(updates) = 1
           /\ \A k \in Signal : bound[k] = owner
           /\ (ActiveSession = "active") = (OpenRows # {})

(* DaemonReconnected: ask, then paint what was answered. *)
Reconcile ==
  /\ updates # << >> /\ answer = "none" /\ Head(updates).kind = "reconnected"
  /\ answer' = ActiveSession
  /\ blurred' = IF Settled THEN FALSE ELSE blurred \/ daemon # "up"
                                            \/ (ActiveSession = "active") # (OpenRows # {})
  /\ UNCHANGED <<dbVars, daemonVars, busVars, guiVars, updates, spawned, icon, deaf>>

Reconciled ==
  /\ answer # "none"
  /\ ApplySession(answer)
  /\ answer' = "none" /\ updates' = Tail(updates)
  /\ UNCHANGED <<dbVars, daemonVars, busVars, guiVars, spawned, deaf>>

-----------------------------------------------------------------------------
Daemon == Boot \/ Recover \/ StartSession \/ EndSession \/ Emit \/ Die
Forwarder == BuildProxy \/ Subscribe \/ SubscribeOwner \/ Forward \/ OwnerChanged
               \/ StreamsClosed \/ WaitForService
Tray == TooltipStarted \/ TooltipEnded \/ Reconcile \/ Reconciled

Next == (bus = "present" /\ Daemon) \/ BusDies \/ Forwarder \/ Spawn \/ Tray

(* The application's tasks run; the daemon, the bus and the desktop's tray *)
(* promise nothing.                                                        *)
Fairness == WF_vars(Forwarder) /\ WF_vars(Tray)

Spec == Init /\ [][Next]_vars /\ Fairness

-----------------------------------------------------------------------------
(* What the user sees. *)

Quiet == /\ daemon = "up" /\ forwarder = "listening" /\ bus = "present" /\ spawned
         /\ channel = << >> /\ streams = Silent /\ ~changed
         /\ updates = << >> /\ answer = "none"

(* Once everything told has arrived, the icon is active exactly when a     *)
(* session is open - whatever restarts, crashes and resubscriptions came   *)
(* before - unless, since the last reconciliation, one of the things       *)
(* happened the code accepts or overlooks (`blurred`): a signal dropped on *)
(* a full channel or overtaken by another, an end emitted between the two  *)
(* subscriptions, two sessions at once, a first connection to a daemon     *)
(* already there, an owner that changed in the middle of a subscription,   *)
(* an orphan seen before its recovery, a tray that was not up yet.         *)
(* (tray.rs:183-196, bridge.rs:515-570.)                                   *)
TrayShowsTheSession ==
  Quiet /\ ~blurred => ((icon = "active") <=> (OpenRows # {}))

(* The loss of the daemon, or of the bus to it, clears the tray: its icon  *)
(* does not stay active with nothing behind it, unless the daemon went     *)
(* while the forwarder was between its first stream and its watch on the   *)
(* name.  (bridge.rs:538-545, tray.rs:330-337.)                            *)
Lost == daemon = "down" \/ bus # "present"
LossClearsTray == Lost /\ ~deaf ~> icon = "idle" \/ ~Lost \/ deaf

(* Whatever was played and merged: a list of recent sessions, of           *)
(* everything or of one game, shows each play as one span and each row     *)
(* once; and the days add up to what the lists show.                       *)
(* (session_merge.rs:95-143, dbus.rs:150-191, 307-340.)                    *)
ListsShowPlays ==
  /\ \A limit \in {1, 2, MaxSessions} :
       FoldsTo(ListRecent(rows, Clamp(limit)), ListRecentSessions(rows, limit))
  /\ \A a \in {row.app : row \in rows} :
       FoldsTo(ListForApplication(rows, a, Clamp(MaxSessions)),
               ListSessionsForApplication(rows, a, MaxSessions))
  /\ LET days == DailyPlaytime(rows, 0, {})
     IN  SumFunction(days) = FullRuntime(rows)
  /\ \A row \in rows :
       LET midnight == Day * DayOf(row.start)
       IN  row.end = Running \/ row.start < row.end =>
             row \in Range(ListInRange(rows, midnight, midnight + Day))

(* "Ask the daemon whether a game is being tracked right now ... the first *)
(* row is the live one" (tray.rs:440-447): whenever the daemon tracks a    *)
(* game, and can be asked, the answer is that it does.                     *)
ReconciliationSeesTheGame ==
  daemon = "up" /\ bus = "present" /\ OpenRows # {} => ActiveSession = "active"

=============================================================================
