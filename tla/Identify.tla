------------------------------ MODULE Identify ------------------------------
(***************************************************************************)
(* From a window to a named application: the gate's verdict, the key the   *)
(* game is tracked under, the row the session manager makes of it, and the *)
(* cascade that fills the row in from a task of its own, while the row may *)
(* be merged away under it and the daemon may die.                         *)
(*                                                                         *)
(* One launch is followed.  Once it is tracked the gate has forgotten it.  *)
(* Of the cascades the first is run; the row a second start makes of the   *)
(* same key, after a merge, is there for the first one to leave alone.     *)
(***************************************************************************)
EXTENDS Gate, Enrichment

CONSTANTS Files,    \* source -> what it may find on the disk
          Titles    \* source -> the names it may give this very game

VARIABLES rows,     \* application id -> row
          lastId,   \* the AUTOINCREMENT counter of `applications`
          task      \* the enrichment task of row 1

identifyVars == <<rows, lastId, task>>
allVars == <<vars, identifyVars>>

Provisional == "resource class"

(* Where the executables are, and the directory the game is installed in.  *)
GamePath == <<"games", "this", "bin", "game">>
Home == SubSeq(GamePath, 1, 2)
Preloader == <<"runners", "wine", "preloader">>

(* native_key: a foreground launcher's own id wins over the path, which    *)
(* all the games of one preloader share.                                   *)
KeyType(by) == IF by = None THEN "native" ELSE by

(* What the sources read of an application under that key. *)
Applications(by) ==
  [type: {KeyType(by)}, id: {"this"},
   path: {CASE by = "steam" -> << >> [] by = None -> GamePath
            [] OTHER -> Preloader},
   windows: IF by = None THEN BOOLEAN ELSE {FALSE},
   curated: IF by = None THEN BOOLEAN ELSE {FALSE}]

Fresh == [name |-> Provisional, via |-> Unset, patch |-> NoPatch]
Absent == [type |-> Unset]

Task(state, app) == [state |-> state, app |-> app, step |-> 1, acc |-> Nothing,
                     knew |-> {}, took |-> {}]

IdentifyInit == Init /\ rows = << >> /\ lastId = 0 /\ task = Task("none", Absent)

(* handle_started of a key without a row, from the foreground source or,   *)
(* for the game the gate left to it, from Steam's: the row gets the name   *)
(* its event carried, and a cascade is spawned.  The gate keeps nothing.   *)
Start ==
  /\ lastId = 0 /\ phase = "decided"
  /\ decision.verdict = "accept" \/ launch = "steam"
  /\ \E app \in Applications(IF decision.verdict = "accept" THEN decision.by
                             ELSE "steam") :
       task' = Task("spawned", app)
  /\ rows' = <<Fresh>> /\ lastId' = 1
  /\ facts' = [exe |-> "game", libs |-> "plain", memory |-> "low",
               fullscreen |-> FALSE, gamescope |-> 0]
  /\ env' = [p \in Process |-> Stripped] /\ parent' = [p \in Process |-> Nobody]
  /\ alive' = {} /\ gone' = TRUE
  /\ next' = Nobody /\ at' = Nobody /\ seen' = Stripped
  /\ scoped' = FALSE /\ libs' = None /\ decision' = Reject(None)
  /\ UNCHANGED <<launch, phase>>

-----------------------------------------------------------------------------
(* run_cascade. *)

(* The application is read once; one that is gone is skipped. *)
ReadApplication ==
  /\ task.state = "spawned"
  /\ task' = [task EXCEPT !.state = IF 1 \in DOMAIN rows THEN "cascade" ELSE "ended"]
  /\ UNCHANGED <<vars, rows, lastId>>

(* Whether source s has a name for this very game, from files as it finds  *)
(* them: the manifest, menu entry, or library row that is about it, and    *)
(* of the rows and info files found by directory those in the game's own.  *)
(* A game inside this one's directory and nearer the executable hides it.  *)
Below(dir, path) == IsPrefix(Home, dir) /\ IsPrefix(dir, path)

OwnAmong(entries, path) ==
  /\ \E e \in entries : e.dir = Home /\ Below(Home, path)
  /\ \A e \in entries : Below(e.dir, path) => e.dir = Home

Knows(s, app, files) ==
  CASE s = "desktop" -> app.type = "native" /\ \E e \in Range(files) :
                          e.runs = app.id /\ e.name # Unset
    [] s = "pe"      ->
         LET read == Range(files.translations)
             english == {t \in read : t.lang = "en"}
         IN  /\ app.windows /\ ~files.huge
             /\ \E t \in IF english # {} THEN english ELSE read :
                  ~ {t.name, t.description} \subseteq {Unset, Blank}
    [] s = "gog"     -> \E d \in 1..PARENT_WALK_DEPTH :
                          /\ Below(SubSeq(app.path, 1, Len(app.path) - d), app.path)
                          /\ \E i \in DOMAIN files[d] :
                               /\ files[d][i].name \notin {Unset, Blank}
                               /\ \A j \in 1..i-1 : files[d][j].name # Unset
    [] s = "heroic"  ->
         LET games == UNION {Range(Installed(l)) : l \in Range(files)}
         IN  \/ app.type = "heroic" /\ \E g \in games : g.app = app.id
             \/ app.type = "native" /\ OwnAmong(games, app.path)
    [] s = "lutris"  -> OwnAmong({r \in Range(files) : r.installed /\ r.name # Unset}, app.path)
    [] s = "steam"   -> app.type = "steam" /\ \E l \in Range(files) : l.key = "name"

(* The sources that go by the directories the executable lies in, whoever  *)
(* is installed there: Lutris and Heroic as far up as there are any, GOG   *)
(* as far as it walks.                                                     *)
GoesByDirectory(s, app) ==
  /\ app.path # << >>
  /\ \/ s \in {"gog", "lutris"}
     \/ s = "heroic" /\ app.type = "native"

(* The next source of build_patch.  The files are what it finds now.       *)
Consult ==
  /\ task.state = "cascade" /\ task.step <= Len(Cascade)
  /\ LET s == Cascade[task.step]
     IN  \E files \in Files[s] :
           LET patch == Enrich(s, task.app, files)
           IN  task' = [task EXCEPT
                          !.acc = MergeInto(task.acc, s, patch),
                          !.knew = IF Knows(s, task.app, files) THEN @ \cup {s} ELSE @,
                          !.took = IF patch["product_name"] # Unset THEN @ \cup {s} ELSE @,
                          !.step = @ + 1]
  /\ UNCHANGED <<vars, rows, lastId>>

(* The UPDATE of update_identity: the fields the patch has. *)
Patched(row, acc) ==
  [name |-> Or(acc.patch["product_name"], row.name), via |-> Or(acc.via, row.via),
   patch |-> [f \in Field |-> Or(acc.patch[f], row.patch[f])]]

(* update_identity: a row that is gone is not updated. *)
UpdateIdentity ==
  /\ task.state = "cascade" /\ task.step > Len(Cascade)
  /\ task' = [task EXCEPT !.state = "ended"]
  /\ rows' = [i \in DOMAIN rows |->
               IF i = 1 /\ ~ IsEmpty(task.acc) THEN Patched(rows[i], task.acc)
               ELSE rows[i]]
  /\ UNCHANGED <<vars, lastId>>

(* merge_into takes the row away, its id for good. *)
Merge ==
  /\ DOMAIN rows = {1} /\ task.state # "ended"
  /\ rows' = << >>
  /\ UNCHANGED <<vars, lastId, task>>

(* The same key starts again, and has a row of its own. *)
StartAgain ==
  /\ lastId = 1 /\ rows = << >>
  /\ lastId' = 2
  /\ rows' = [i \in {2} |-> Fresh]
  /\ UNCHANGED <<vars, task>>

(* The daemon dies, and its tasks with it.  No row is enriched again.      *)
Crash ==
  /\ task.state \in {"spawned", "cascade"}
  /\ task' = [task EXCEPT !.state = "lost"]
  /\ UNCHANGED <<vars, rows, lastId>>

IdentifyNext ==
  \/ World /\ UNCHANGED identifyVars
  \/ Read /\ UNCHANGED identifyVars
  \/ Start \/ ReadApplication \/ Consult \/ UpdateIdentity
  \/ Merge \/ StartAgain \/ Crash

-----------------------------------------------------------------------------
(* What an application may be called. *)

EveryApplication == UNION {Applications(by) : by \in {None, "heroic", "lutris", "steam"}}

(* Each source on its own: where the files have a name for this game it    *)
(* takes one, and that; and where they have none it takes none, unless it  *)
(* goes by directory: then the title of a game installed further up will   *)
(* do (lutris.rs:103-111, heroic.rs:235-243), or of another's info file    *)
(* within three parents (gog.rs:35-44).                                    *)
SourcesNameTheirOwn ==
  \A s \in Range(Cascade), app \in EveryApplication : \A files \in Files[s] :
    LET name == Enrich(s, app, files)["product_name"]
    IN  IF Knows(s, app, files) THEN name \in Titles[s] \ {Unset}
        ELSE name = Unset \/ GoesByDirectory(s, app)

Rank(s) == CHOOSE i \in DOMAIN Cascade : Cascade[i] = s

(* However the files of the launchers contradict each other, and whatever  *)
(* happens to the row or the daemon while the cascade is under way, an     *)
(* application carries the name its window had or that of the strongest    *)
(* source that has one, and says which: none that knows this very game is  *)
(* overruled by a weaker one.  The name is one of this very game, unless   *)
(* its source has none and went by the directories, where it takes that    *)
(* of a game installed above this one.  The row a merge and a restart put  *)
(* in its place keeps its own name, and a cascade a crash cut short leaves *)
(* the provisional one.  (build_patch, merge_into, update_identity;        *)
(* session_manager.rs:391-405.)                                            *)
NamedByTheStrongest ==
  \A i \in DOMAIN rows :
    IF i = 1 /\ task.state = "ended" /\ task.knew \cup task.took # {}
    THEN /\ rows[i].via \in task.took
         /\ \A s \in task.knew \cup task.took : Rank(s) <= Rank(rows[i].via)
         /\ \/ rows[i].name \in Titles[rows[i].via]
            \/ rows[i].via \notin task.knew /\ GoesByDirectory(rows[i].via, task.app)
    ELSE rows[i].name = Provisional /\ rows[i].via = Unset

IdentifySpec == IdentifyInit /\ [][IdentifyNext]_allVars
=============================================================================
