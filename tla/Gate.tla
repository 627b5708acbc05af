-------------------------------- MODULE Gate --------------------------------
(***************************************************************************)
(* The gate of crates/ludex-daemon/src/gate.rs: is the process behind the  *)
(* window that came to the front a game the foreground source should       *)
(* track, and whose game is it?                                            *)
(*                                                                         *)
(* The gate reads /proc one file at a time while the processes it reads    *)
(* live on: any process of the launch may re-exec itself with the          *)
(* launcher's variables stripped, and any may exit, its children going to  *)
(* the nearest subreaper.  A launch is a chain of processes, the window    *)
(* first, each the child of the next; what /proc says of one is abstracted *)
(* to what the gate tells apart.                                           *)
(***************************************************************************)
EXTENDS Integers, FiniteSets, Sequences, FiniteSetsExt

CONSTANTS Chain,    \* processes of one launch: the window is 1, its parent 2...
          Reaper    \* the one of them the others are re-parented to

ASSUME GateAssumption == Chain \in Nat \ {0, 1} /\ Reaper \in 2..Chain

None == "none"
Nobody == 0
Window == 1
Process == 1..Chain

-----------------------------------------------------------------------------
(* What /proc says, and what the gate makes of it. *)

(* An environ, by the variables the gate knows: the Steam appid, and the   *)
(* ids of the launchers that have no source of their own.                  *)
Env == [steam: {None, "zero", "id"}, heroic: {None, "blank", "id"},
        lutris: {None, "blank", "id"}]

Unread == [unread |-> TRUE]
Stripped == [steam |-> None, heroic |-> None, lutris |-> None]

Verdict == {"accept", "exe_unreadable", "blocklisted", "launcher",
            "maps_unreadable", "no_graphics", "not_fullscreen"}

(* has_launcher_attribution counts a variable that is there, whatever its  *)
(* value; so does the override of a foreground source's launcher.          *)
ForegroundAttributed(env) == env.heroic # None \/ env.lutris # None
HasLauncherAttribution(env) == env.steam # None \/ ForegroundAttributed(env)

(* attributed_to_steam: an appid that parses and is not zero. *)
AttributedToSteam(env) == env.steam = "id"

(* extract_launcher_attribution: Heroic before Lutris, blank ids skipped. *)
Attribution(env) ==
  IF env.heroic = "id" THEN "heroic"
  ELSE IF env.lutris = "id" THEN "lutris" ELSE None

(* The first rejection both decide and decide_from_inputs make of it. *)
LeftToItsLauncher(env) == ~ ForegroundAttributed(env) /\ AttributedToSteam(env)

Reject(why) == [verdict |-> why, by |-> None]

(* A plausible mistake: the GPU memory decides for every window. *)
DecideOnMemory(exe, env, libs, memory, fullscreen, scoped) ==
  IF exe # "game" THEN Reject("blocklisted")
  ELSE IF env # Unread /\ LeftToItsLauncher(env) THEN Reject("launcher")
  ELSE IF libs # "graphics" /\ ~scoped THEN Reject("no_graphics")
  ELSE IF memory # "high" THEN Reject("not_fullscreen")
  ELSE [verdict |-> "accept", by |-> IF env = Unread THEN None ELSE Attribution(env)]

(* decide_from_inputs.  `exe`, `libs` and `memory` are None and `env` is   *)
(* Unread when the file could not be read.                                 *)
DecideFromInputs(exe, env, libs, memory, fullscreen, scoped) ==
  LET rules == <<"exe_unreadable", "blocklisted", "launcher", "maps_unreadable",
                 "no_graphics", "not_fullscreen">>
      broken(rule) ==
        CASE rule = "exe_unreadable"  -> exe = None
          [] rule = "blocklisted"     -> exe = "blocked"
          [] rule = "launcher"        -> env # Unread /\ LeftToItsLauncher(env)
          [] rule = "maps_unreadable" -> libs = None /\ ~scoped
          [] rule = "no_graphics"     -> libs # "graphics" /\ ~scoped
          [] rule = "not_fullscreen"  -> ~fullscreen /\ ~scoped /\ memory # "high"
      hits == {i \in DOMAIN rules : broken(rules[i])}
  IN  IF hits # {} THEN Reject(rules[Min(hits)])
      ELSE [verdict |-> "accept",
            by |-> IF env = Unread THEN None ELSE Attribution(env)]

-----------------------------------------------------------------------------
VARIABLES launch,     \* who launched the game, and the environ it gave it
          facts,      \* the rest of what /proc and the compositor say
          env,        \* process -> its present environ
          parent,     \* process -> its parent, Nobody once that is init
          alive,      \* the processes that are
          gone,       \* a process of the launch exited since the gate looked
          phase,      \* the next read of Gate::decide
          next,       \* the ancestor the walk yields next
          at,         \* the ancestor whose environ it reads
          seen,       \* the environ the gate decides against
          scoped,     \* has_gamescope_ancestor
          libs,       \* what maps told
          decision    \* the verdict, Reject(None) until then

worldVars == <<launch, facts, env, parent, alive, gone>>
gateVars  == <<phase, next, at, seen, scoped, libs, decision>>
vars      == <<worldVars, gateVars>>

Launcher == {"native", "steam", "shortcut", "heroic", "lutris", "untitled"}

(* What each launcher leaves in the environ of the processes it starts.    *)
(* Proton sets STEAM_COMPAT_APP_ID for Heroic and Lutris too.              *)
Inherited(who) ==
  CASE who = "native"   -> Stripped
    [] who = "steam"    -> [Stripped EXCEPT !.steam = "id"]
    [] who = "shortcut" -> [Stripped EXCEPT !.steam = "zero"]
    [] who = "heroic"   -> [Stripped EXCEPT !.heroic = "id", !.steam = "id"]
    [] who = "lutris"   -> [Stripped EXCEPT !.lutris = "id", !.steam = "id"]
    [] who = "untitled" -> [Stripped EXCEPT !.heroic = "blank", !.steam = "id"]

(* A live process has an exe or maps that cannot be read, too: another     *)
(* user's, or one that maps a file whose name is not UTF-8.                *)
Facts == [exe: {"game", "blocked", None}, libs: {"graphics", "plain", None},
          memory: {"high", "low"}, fullscreen: BOOLEAN, gamescope: {0, Chain}]

Init ==
  /\ launch \in Launcher
  /\ facts \in Facts
  /\ env \in [Process -> {Stripped, Inherited(launch)}]
  /\ \E left \in SUBSET (2..Reaper-1) :
       /\ alive = Process \ left
       /\ parent = [p \in Process |-> IF p = Chain THEN Nobody
                                     ELSE IF p + 1 \in left THEN Reaper ELSE p + 1]
  /\ gone = FALSE
  /\ phase = "exe" /\ next = Nobody /\ at = Nobody
  /\ seen = Stripped /\ scoped = FALSE /\ libs = None
  /\ decision = Reject(None)

-----------------------------------------------------------------------------
(* What the processes do meanwhile. *)

(* The window, or a wrapper above it, re-execs itself without the          *)
(* launcher's variables.                                                   *)
StripEnv ==
  \E p \in alive :
    /\ env[p] # Stripped
    /\ env' = [env EXCEPT ![p] = Stripped]
    /\ UNCHANGED <<launch, facts, parent, alive, gone, gateVars>>

(* The kernel hands the children of a process that exits to the nearest    *)
(* living subreaper above it, or to init.                                  *)
ProcessExits ==
  \E p \in alive :
    /\ alive' = alive \ {p}
    /\ gone' = TRUE
    /\ parent' = [q \in Process |->
                    IF parent[q] # p THEN parent[q]
                    ELSE IF p < Reaper /\ Reaper \in alive THEN Reaper ELSE Nobody]
    /\ UNCHANGED <<launch, facts, env, gateVars>>

World == phase # "decided" /\ (StripEnv \/ ProcessExits)

-----------------------------------------------------------------------------
(* Gate::decide, one read of /proc at a time. *)

(* tree::parent, for the iterator: nothing once the process is gone. *)
ParentOf(p) == IF p \in alive THEN parent[p] ELSE Nobody

Conclude(d) == /\ decision' = d
               /\ phase' = "decided"

(* exe::read and the blocklist. *)
ReadExe ==
  /\ phase = "exe"
  /\ IF Window \notin alive \/ facts.exe = None
     THEN Conclude(Reject("exe_unreadable"))
     ELSE IF facts.exe = "blocked" THEN Conclude(Reject("blocklisted"))
     ELSE phase' = "environ" /\ UNCHANGED decision
  /\ UNCHANGED <<worldVars, next, at, seen, scoped, libs>>

(* environ::read of the window.  One that attributes the process settles   *)
(* it; one that does not starts the walk of tree::ancestors.               *)
ReadEnviron ==
  /\ phase = "environ"
  /\ seen' = IF Window \in alive THEN env[Window] ELSE Unread
  /\ IF Window \in alive /\ ~ HasLauncherAttribution(env[Window])
     THEN phase' = "parent" /\ next' = parent[Window]
     ELSE phase' = "judge" /\ UNCHANGED next
  /\ UNCHANGED <<worldVars, at, scoped, libs, decision>>

(* The iterator yields an ancestor, having looked up that one's parent. *)
YieldAncestor ==
  /\ phase = "parent"
  /\ IF next = Nobody THEN phase' = "judge" /\ UNCHANGED <<next, at>>
     ELSE phase' = "walk" /\ at' = next /\ next' = ParentOf(next)
  /\ UNCHANGED <<worldVars, seen, scoped, libs, decision>>

(* A plausible mistake: the window's parent is asked and nobody above it.  *)
ReadParentOnly ==
  /\ phase = "walk"
  /\ seen' = IF at \in alive /\ HasLauncherAttribution(env[at]) THEN env[at] ELSE seen
  /\ phase' = "judge"
  /\ UNCHANGED <<worldVars, next, at, scoped, libs, decision>>

(* The ancestor's environ; an unreadable one is passed over.               *)
(* resolve_attribution_environ: the nearest that attributes, else the own. *)
ReadAncestor ==
  /\ phase = "walk"
  /\ IF at \in alive /\ HasLauncherAttribution(env[at])
     THEN seen' = env[at] /\ phase' = "judge"
     ELSE phase' = "parent" /\ UNCHANGED seen
  /\ UNCHANGED <<worldVars, next, at, scoped, libs, decision>>

(* The launcher check, before the costlier reads. *)
Judge ==
  /\ phase = "judge"
  /\ IF seen # Unread /\ LeftToItsLauncher(seen) THEN Conclude(Reject("launcher"))
     ELSE phase' = "scope" /\ UNCHANGED decision
  /\ UNCHANGED <<worldVars, next, at, seen, scoped, libs>>

(* The ancestors a process has now.  Parents lie further up the chain. *)
Above[p \in Process] ==
  IF parent[p] = Nobody THEN {} ELSE {parent[p]} \cup Above[parent[p]]

Ancestors == IF Window \in alive THEN Above[Window] ELSE {}

(* has_gamescope_ancestor.  It walks without an await: one step. *)
LookForGamescope ==
  /\ phase = "scope"
  /\ scoped' = (facts.gamescope \in Ancestors)
  /\ phase' = "maps"
  /\ UNCHANGED <<worldVars, next, at, seen, libs, decision>>

(* maps::read, parse and classify: is any graphics stack mapped? *)
ReadMaps ==
  /\ phase = "maps"
  /\ libs' = IF Window \in alive THEN facts.libs ELSE None
  /\ phase' = "fdinfo"
  /\ UNCHANGED <<worldVars, next, at, seen, scoped, decision>>

(* fdinfo::read, skipped when the window is fullscreen or in gamescope;    *)
(* no answer counts as no memory.                                          *)
Memory == IF facts.fullscreen \/ scoped \/ Window \notin alive THEN None
          ELSE facts.memory

ReadFdinfo ==
  /\ phase = "fdinfo"
  /\ Conclude(DecideFromInputs(facts.exe, seen, libs, Memory, facts.fullscreen, scoped))
  /\ UNCHANGED <<worldVars, next, at, seen, scoped, libs>>

Read == \/ ReadExe \/ ReadEnviron \/ YieldAncestor \/ ReadAncestor \/ Judge
        \/ LookForGamescope \/ ReadMaps \/ ReadFdinfo

-----------------------------------------------------------------------------
(* What the verdict must be. *)

TypeOK ==
  /\ launch \in Launcher /\ facts \in Facts
  /\ env \in [Process -> Env]
  /\ parent \in [Process -> {Nobody} \cup Process]
  /\ alive \subseteq Process /\ gone \in BOOLEAN
  /\ phase \in {"exe", "environ", "parent", "walk", "judge", "scope", "maps",
                "fdinfo", "decided"}
  /\ next \in {Nobody} \cup Process /\ at \in {Nobody} \cup Process
  /\ seen \in Env \cup {Unread}
  /\ scoped \in BOOLEAN /\ libs \in {"graphics", "plain", None}
  /\ decision.verdict \in Verdict \cup {None}
  /\ decision.by \in {"heroic", "lutris", None}

(* Whose game it is, by who launched it: Steam's own source tracks Steam's *)
(* games and nothing else; Heroic's and Lutris's are known by their ids.   *)
Owner == CASE launch = "steam" -> "steam"
           [] launch \in {"heroic", "lutris"} -> launch
           [] OTHER -> None

(* The launcher's variables survive somewhere from the window upwards, and *)
(* no process has exited under the gate's eyes.                            *)
Lineage == {Window} \cup Ancestors

Traceable == ~gone /\ \E p \in Lineage : env[p] = Inherited(launch)

(* A game has one tracker.  As long as the launch can be traced, a Steam   *)
(* game is never accepted as a native window, wherever above the window    *)
(* its variables survive and whichever processes drop them while the gate  *)
(* walks up to them; no other launch is ever left to Steam; and an         *)
(* accepted game is attributed to the launcher that started it.            *)
(* (gate.rs:395-422, 483-503, 599-617.)                                    *)
OneTrackerPerGame ==
  phase = "decided" =>
    /\ decision.verdict = "launcher" => Owner = "steam"
    /\ decision.verdict = "accept" /\ Traceable =>
         /\ Owner # "steam"
         /\ decision.by = Owner

(* The verdict the header of gate.rs promises of such a launch: not        *)
(* blocklisted, not Steam's, and either in gamescope or with a graphics    *)
(* stack, as far as it can be read, and a reason to care.                  *)
IsAGame == /\ facts.exe = "game"
           /\ Owner # "steam"
           /\ \/ facts.gamescope # 0
              \/ facts.libs = "graphics" /\ (facts.fullscreen \/ facts.memory = "high")

(* The reads made in short-circuit order say what the heuristic says of    *)
(* all of them together: a read that was skipped would not have changed    *)
(* the verdict.  (gate.rs:14-26, 444-448.)                                 *)
VerdictIsTheHeuristic ==
  phase = "decided" /\ Traceable => (decision.verdict = "accept" <=> IsAGame)

=============================================================================
