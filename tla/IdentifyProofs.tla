---------------------------- MODULE IdentifyProofs ----------------------------
(***************************************************************************)
(* What holds of the gate for a launch of any length, wherever its         *)
(* subreaper is.                                                           *)
(***************************************************************************)
EXTENDS Identify, FiniteSums

-----------------------------------------------------------------------------
(* The ancestors.  A parent lies further up the chain than its child, so   *)
(* what follows for a process from its parent follows for all.             *)

UpTheChain == \A p \in Process : parent[p] # Nobody => parent[p] \in Process /\ parent[p] > p

LEMMA ProcessFacts ==
  /\ Chain \in Nat /\ Chain > 1 /\ Reaper \in 2..Chain
  /\ Window \in Process /\ Reaper \in Process /\ Window # Reaper /\ Window # Chain
  /\ Window + 1 \in Process /\ Nobody \notin Process
  BY GateAssumption DEF Window, Process, Nobody

(* What reaches one process further down whenever it holds above reaches   *)
(* the window.                                                             *)
LEMMA DownTheChain ==
  ASSUME NEW G, Chain + 1 \in G,
         \A n \in Process : n + 1 \in G => n \in G
  PROVE  1 .. Chain + 1 \subseteq G
  <1> DEFINE depths == {d \in 0 .. Chain : Chain + 1 - d \notin G}
  <1>1. Chain \in Nat
    BY GateAssumption
  <1>2. CASE depths = {}
    <2>1. \A n \in 1 .. Chain + 1 : Chain + 1 - n \in 0 .. Chain /\ Chain + 1 - (Chain + 1 - n) = n
      BY <1>1
    <2> QED
      BY <1>2, <2>1
  <1>3. CASE depths # {}
    <2>1. PICK d \in depths : \A c \in depths : d <= c
      <3>1. depths \in SUBSET Nat
        BY <1>1
      <3> HIDE DEF depths
      <3> QED
        BY <1>3, <3>1, LeastNatural
    <2>2. d \in 1 .. Chain
      <3>1. Chain + 1 - 0 = Chain + 1
        BY <1>1
      <3> QED
        BY <1>1, <2>1, <3>1
    <2>3. d - 1 \in 0 .. Chain /\ d - 1 \notin depths
      BY <1>1, <2>1, <2>2
    <2>4. Chain + 1 - (d - 1) \in G /\ Chain + 1 - d \in Process
          /\ Chain + 1 - (d - 1) = (Chain + 1 - d) + 1
      BY <1>1, <2>2, <2>3 DEF Process
    <2> QED
      BY <2>1, <2>4
  <1> QED
    BY <1>2, <1>3

LEMMA ClimbInduction ==
  ASSUME UpTheChain, NEW G,
         \A p \in Process : (parent[p] # Nobody => parent[p] \in G) => p \in G
  PROVE  Process \subseteq G
  <1> DEFINE H == {n \in 1 .. Chain + 1 : \A p \in Process : p >= n => p \in G}
  <1>1. Chain \in Nat
    BY GateAssumption
  <1>2. Chain + 1 \in H
    BY <1>1 DEF Process
  <1>3. ASSUME NEW n \in Process, n + 1 \in H PROVE n \in H
    <2>1. n \in 1 .. Chain + 1
      BY <1>1 DEF Process
    <2>2. ASSUME NEW p \in Process, p >= n PROVE p \in G
      <3>1. \A q \in Process : q >= n + 1 => q \in G
        BY <1>3
      <3>2. parent[p] # Nobody => parent[p] \in Process /\ parent[p] >= n + 1
        BY <2>2 DEF UpTheChain, Process
      <3> QED
        BY <3>1, <3>2
    <2> QED
      BY <2>1, <2>2
  <1>4. 1 \in H
    <2>1. 1 .. Chain + 1 \subseteq H
      <3> HIDE DEF H
      <3> QED
        BY <1>2, <1>3, DownTheChain
    <2> QED
      BY <1>1, <2>1
  <1> QED
    BY <1>4 DEF Process

(* The recursion has a solution, from every process on up. *)
Climbs(f, n) ==
  f = [p \in n .. Chain |-> IF parent[p] = Nobody THEN {} ELSE {parent[p]} \cup f[parent[p]]]

LEMMA ClimbingExists ==
  ASSUME UpTheChain
  PROVE  \E f : Climbs(f, 1)
  <1> DEFINE H == {n \in 1 .. Chain + 1 : \E f : Climbs(f, n)}
  <1>1. Chain \in Nat
    BY GateAssumption
  <1>2. Chain + 1 \in H
    <2>1. Chain + 1 .. Chain = {} /\ Chain + 1 \in 1 .. Chain + 1
      BY <1>1
    <2>2. Climbs([p \in {} |-> {}], Chain + 1)
      BY <2>1 DEF Climbs
    <2> QED
      BY <2>1, <2>2
  <1>3. ASSUME NEW n \in Process, n + 1 \in H PROVE n \in H
    <2>1. PICK f : Climbs(f, n + 1)
      BY <1>3
    <2> DEFINE g == [p \in n .. Chain |->
                       IF p # n THEN f[p]
                       ELSE IF parent[n] = Nobody THEN {} ELSE {parent[n]} \cup f[parent[n]]]
    <2>2. n \in 1 .. Chain + 1 /\ n \in Nat /\ n <= Chain
      BY <1>1 DEF Process
    <2>3. \A p \in n .. Chain : p \in Process /\ (p # n => p \in n + 1 .. Chain)
      BY <1>1, <2>2 DEF Process
    <2>4. \A p \in n .. Chain : parent[p] # Nobody => parent[p] \in n + 1 .. Chain
      BY <1>1, <2>2, <2>3 DEF UpTheChain, Process
    <2>5. \A p \in n .. Chain : parent[p] # Nobody => g[parent[p]] = f[parent[p]]
      BY <1>1, <2>2, <2>4
    <2>6. \A p \in n + 1 .. Chain :
            f[p] = IF parent[p] = Nobody THEN {} ELSE {parent[p]} \cup f[parent[p]]
      BY <2>1 DEF Climbs
    <2>7. ASSUME NEW p \in n .. Chain
          PROVE  g[p] = IF parent[p] = Nobody THEN {} ELSE {parent[p]} \cup g[parent[p]]
      <3>1. g[p] = IF parent[p] = Nobody THEN {} ELSE {parent[p]} \cup f[parent[p]]
        BY <2>3, <2>6
      <3> HIDE DEF g
      <3> QED
        BY <2>5, <3>1
    <2>8. g = [p \in n .. Chain |->
                 IF parent[p] = Nobody THEN {} ELSE {parent[p]} \cup g[parent[p]]]
      <3>1. g = [p \in n .. Chain |-> g[p]]
        OBVIOUS
      <3> HIDE DEF g
      <3> QED
        BY <2>7, <3>1
    <2>9. Climbs(g, n)
      <3> HIDE DEF g
      <3> QED
        BY <2>8 DEF Climbs
    <2> QED
      BY <2>2, <2>9
  <1>4. 1 \in H
    <2>1. 1 .. Chain + 1 \subseteq H
      <3> HIDE DEF H
      <3> QED
        BY <1>2, <1>3, DownTheChain
    <2> QED
      BY <1>1, <2>1
  <1> QED
    BY <1>4

LEMMA AboveIs ==
  ASSUME UpTheChain, NEW p \in Process
  PROVE  Above[p] = IF parent[p] = Nobody THEN {} ELSE {parent[p]} \cup Above[parent[p]]
  <1>1. \E f : Climbs(f, 1)
    BY ClimbingExists
  <1>2. \E f : f = [q \in Process |->
                      IF parent[q] = Nobody THEN {} ELSE {parent[q]} \cup f[parent[q]]]
    BY <1>1 DEF Climbs, Process
  <1>3. Above = [q \in Process |->
                   IF parent[q] = Nobody THEN {} ELSE {parent[q]} \cup Above[parent[q]]]
    BY <1>2, Zenon DEF Above
  <1> QED
    BY <1>3, Zenon

LEMMA AncestorsAreProcesses ==
  ASSUME UpTheChain
  PROVE  \A p \in Process : Above[p] \subseteq Process
  <1> DEFINE G == {p \in Process : Above[p] \subseteq Process}
  <1>1. ASSUME NEW p \in Process, parent[p] # Nobody => parent[p] \in G
        PROVE  p \in G
    <2>1. Above[p] = IF parent[p] = Nobody THEN {} ELSE {parent[p]} \cup Above[parent[p]]
      BY AboveIs
    <2> QED
      BY <1>1, <2>1 DEF UpTheChain
  <1>2. Process \subseteq G
    <2> HIDE DEF G
    <2> QED
      BY <1>1, ClimbInduction
  <1> QED
    BY <1>2

(* While every process lives, the launch ends in its outermost process. *)
Intact ==
  ~gone => \A p \in alive : IF p = Chain THEN parent[p] = Nobody ELSE parent[p] \in alive

LEMMA OutermostIsAbove ==
  ASSUME UpTheChain, Intact, ~gone, alive \subseteq Process
  PROVE  \A p \in alive : p # Chain => Chain \in Above[p]
  <1> DEFINE G == {p \in Process : p \in alive /\ p # Chain => Chain \in Above[p]}
  <1>1. ASSUME NEW p \in Process, parent[p] # Nobody => parent[p] \in G
        PROVE  p \in G
    <2> SUFFICES ASSUME p \in alive, p # Chain PROVE Chain \in Above[p]
      OBVIOUS
    <2>1. parent[p] \in alive /\ parent[p] # Nobody
      BY ProcessFacts DEF Intact
    <2>2. Above[p] = {parent[p]} \cup Above[parent[p]]
      BY <2>1, AboveIs
    <2>3. parent[p] = Chain \/ Chain \in Above[parent[p]]
      BY <1>1, <2>1
    <2> QED
      BY <2>2, <2>3
  <1>2. Process \subseteq G
    <2> HIDE DEF G
    <2> QED
      BY <1>1, ClimbInduction
  <1> QED
    BY <1>2

-----------------------------------------------------------------------------
(* The inductive invariant. *)

(* A process has the launcher's variables or has lost them, and while      *)
(* every process lives each has its parents up to the outermost.           *)
LaunchOK ==
  /\ \A p \in Process : env[p] \in {Stripped, Inherited(launch)}
  /\ ~gone => Window \in alive
  /\ UpTheChain /\ Intact

(* From p upwards. *)
From(p) == IF p = Nobody THEN {} ELSE {p} \cup Above[p]

(* Whoever the walk has passed has lost the variables. *)
WalkOK ==
  /\ phase \in {"parent", "walk"} => seen = Stripped /\ next \in alive \cup {Nobody}
  /\ phase = "parent" => \A p \in Lineage : env[p] = Stripped \/ p \in From(next)
  /\ phase = "walk" =>
       /\ at \in alive
       /\ \A p \in Lineage : env[p] = Stripped \/ p = at \/ p \in From(next)

(* What the reads so far have established. *)
ReadsOK ==
  /\ seen \in {Unread, Stripped, Inherited(launch)}
  /\ ~gone => WalkOK
  /\ Traceable /\ phase \in {"judge", "scope", "maps", "fdinfo"} => seen = Inherited(launch)

DecidedOK ==
  /\ decision.verdict = "launcher" => Owner = "steam"
  /\ decision.verdict = "accept" /\ Traceable => Owner # "steam" /\ decision.by = Owner
  /\ phase # "decided" => decision = Reject(None)

IInv == TypeOK /\ LaunchOK /\ ReadsOK /\ DecidedOK

-----------------------------------------------------------------------------
(* Lemmas about the operators. *)

LEMMA UnreadIsNoEnviron == Unread \notin Env
  <1>1. DOMAIN Unread = {"unread"}
    BY DEF Unread
  <1>2. \A e \in Env : DOMAIN e = {"steam", "heroic", "lutris"}
    BY DEF Env
  <1> QED
    BY <1>1, <1>2

LEMMA InheritedFacts ==
  ASSUME NEW who \in Launcher
  PROVE  /\ Inherited(who) \in Env
         /\ HasLauncherAttribution(Inherited(who)) <=> who # "native"
         /\ LeftToItsLauncher(Inherited(who)) <=> who = "steam"
         /\ Attribution(Inherited(who)) = IF who \in {"heroic", "lutris"} THEN who ELSE None
         /\ who = "native" => Inherited(who) = Stripped
  BY DEF Launcher, Inherited, Stripped, Env, HasLauncherAttribution, ForegroundAttributed,
         LeftToItsLauncher, AttributedToSteam, Attribution, None

LEMMA StrippedFacts ==
  /\ Stripped \in Env /\ ~HasLauncherAttribution(Stripped)
  /\ ~LeftToItsLauncher(Stripped) /\ Attribution(Stripped) = None
  BY DEF Stripped, Env, HasLauncherAttribution, ForegroundAttributed,
         LeftToItsLauncher, AttributedToSteam, Attribution, None

LEMMA MinIsMember ==
  ASSUME NEW S \in SUBSET (1..6), S # {}
  PROVE  Min(S) \in S
  <1>1. \E x \in S : \A y \in S : x =< y
    <2>1. \A y \in S : y \in {1, 2, 3, 4, 5, 6}
      OBVIOUS
    <2>2. CASE 1 \in S
      BY <2>1, <2>2
    <2>3. CASE 1 \notin S /\ 2 \in S
      BY <2>1, <2>3
    <2>4. CASE 1 \notin S /\ 2 \notin S /\ 3 \in S
      BY <2>1, <2>4
    <2>5. CASE 1 \notin S /\ 2 \notin S /\ 3 \notin S /\ 4 \in S
      BY <2>1, <2>5
    <2>6. CASE 1 \notin S /\ 2 \notin S /\ 3 \notin S /\ 4 \notin S /\ 5 \in S
      BY <2>1, <2>6
    <2>7. CASE S = {6}
      BY <2>7
    <2> QED
      BY <2>1, <2>2, <2>3, <2>4, <2>5, <2>6, <2>7
  <1> QED
    BY <1>1 DEF Min

(* The first rejection is one of its rules', and only that of the launcher *)
(* says "launcher"; an acceptance broke none of them.                      *)
LEMMA DecisionFacts ==
  ASSUME NEW exe, NEW e \in Env \cup {Unread}, NEW maps, NEW memory,
         NEW fullscreen \in BOOLEAN, NEW inScope \in BOOLEAN
  PROVE  LET d == DecideFromInputs(exe, e, maps, memory, fullscreen, inScope)
         IN  /\ d.verdict \in Verdict /\ d.by \in {"heroic", "lutris", None}
             /\ d.verdict = "launcher" => e # Unread /\ LeftToItsLauncher(e)
             /\ d.verdict = "accept" =>
                  /\ ~ (e # Unread /\ LeftToItsLauncher(e))
                  /\ d.by = IF e = Unread THEN None ELSE Attribution(e)
  <1> DEFINE rules == <<"exe_unreadable", "blocklisted", "launcher", "maps_unreadable",
                        "no_graphics", "not_fullscreen">>
             broken(rule) ==
               CASE rule = "exe_unreadable"  -> exe = None
                 [] rule = "blocklisted"     -> exe = "blocked"
                 [] rule = "launcher"        -> e # Unread /\ LeftToItsLauncher(e)
                 [] rule = "maps_unreadable" -> maps = None /\ ~inScope
                 [] rule = "no_graphics"     -> maps # "graphics" /\ ~inScope
                 [] rule = "not_fullscreen"  -> ~fullscreen /\ ~inScope /\ memory # "high"
             hits == {i \in DOMAIN rules : broken(rules[i])}
             d == DecideFromInputs(exe, e, maps, memory, fullscreen, inScope)
  <1>1. d = IF hits # {} THEN Reject(rules[Min(hits)])
            ELSE [verdict |-> "accept", by |-> IF e = Unread THEN None ELSE Attribution(e)]
    BY DEF DecideFromInputs
  <1>2. DOMAIN rules = 1..6
    OBVIOUS
  <1>3. /\ rules[1] = "exe_unreadable" /\ rules[2] = "blocklisted" /\ rules[3] = "launcher"
        /\ rules[4] = "maps_unreadable" /\ rules[5] = "no_graphics"
        /\ rules[6] = "not_fullscreen"
    OBVIOUS
  <1>4. broken("launcher") = (e # Unread /\ LeftToItsLauncher(e))
    OBVIOUS
  <1> HIDE DEF rules, broken
  <1>5. hits \in SUBSET (1..6) /\ \A i \in 1..6 : i \in hits <=> broken(rules[i])
    BY <1>2
  <1> HIDE DEF hits, d
  <1>6. CASE hits # {}
    <2>1. PICK i \in hits : i = Min(hits)
      BY <1>5, <1>6, MinIsMember
    <2>2. i \in 1..6 /\ broken(rules[i])
      BY <1>5, <2>1
    <2>3. d.verdict = rules[i] /\ d.by = None
      BY <1>1, <1>6, <2>1 DEF Reject
    <2>4. rules[i] \in Verdict \ {"accept"}
      BY <1>3, <2>2 DEF Verdict
    <2>5. rules[i] = "launcher" => e # Unread /\ LeftToItsLauncher(e)
      BY <1>4, <2>2
    <2> QED
      BY <2>3, <2>4, <2>5 DEF d
  <1>7. CASE hits = {}
    <2>1. d.verdict = "accept" /\ d.by = IF e = Unread THEN None ELSE Attribution(e)
      BY <1>1, <1>7
    <2>2. ~ (e # Unread /\ LeftToItsLauncher(e))
      <3>1. ~ broken(rules[3])
        BY <1>7, <1>5
      <3> QED
        BY <3>1, <1>3 DEF broken
    <2>3. d.by \in {"heroic", "lutris", None}
      BY <2>1 DEF Attribution
    <2> QED
      BY <2>1, <2>2, <2>3 DEF Verdict, d
  <1> QED
    BY <1>6, <1>7
-----------------------------------------------------------------------------
(* The steps.  What is no part of the gate leaves all its variables.       *)

Elsewhere == ReadApplication \/ Consult \/ UpdateIdentity \/ Merge \/ StartAgain \/ Crash

LEMMA InitHolds == Init => IInv
  <1> SUFFICES ASSUME Init PROVE IInv
    OBVIOUS
  <1>1. launch \in Launcher /\ Inherited(launch) \in Env /\ Stripped \in Env
    BY InheritedFacts, StrippedFacts DEF Init
  <1>2. env \in [Process -> {Stripped, Inherited(launch)}]
    BY DEF Init
  <1>3. PICK left \in SUBSET (2..Reaper-1) :
          /\ alive = Process \ left
          /\ parent = [p \in Process |-> IF p = Chain THEN Nobody
                                        ELSE IF p + 1 \in left THEN Reaper ELSE p + 1]
    BY DEF Init
  <1>4. parent \in [Process -> {Nobody} \cup Process]
    <2>1. ASSUME NEW p \in Process, p # Chain PROVE p + 1 \in Process
      BY <2>1, ProcessFacts DEF Process
    <2> QED
      BY <1>3, <2>1, ProcessFacts
  <1>5. env \in [Process -> Env]
    BY <1>1, <1>2
  <1>6. TypeOK
    BY <1>1, <1>3, <1>4, <1>5 DEF Init, TypeOK, Reject
  <1>7. Window \in alive
    BY <1>3, ProcessFacts DEF Window
  <1>8. \A p \in Process : p # Chain =>
          /\ parent[p] = IF p + 1 \in left THEN Reaper ELSE p + 1
          /\ p + 1 \in Process /\ (p + 1 \in left => Reaper > p)
    BY <1>3, ProcessFacts DEF Process
  <1>9. parent[Chain] = Nobody /\ Reaper \in Process \ left
    BY <1>3, ProcessFacts DEF Process
  <1>10. UpTheChain
    <2> SUFFICES ASSUME NEW p \in Process, parent[p] # Nobody
                 PROVE  parent[p] \in Process /\ parent[p] > p
      BY DEF UpTheChain
    <2>1. p # Chain /\ p \in Nat
      BY <1>9 DEF Process
    <2>2. CASE p + 1 \in left
      BY <1>8, <1>9, <2>1, <2>2
    <2>3. CASE p + 1 \notin left
      BY <1>8, <2>1, <2>3
    <2> QED
      BY <2>2, <2>3
  <1>11. Intact
    BY <1>3, <1>8, <1>9 DEF Intact
  <1>12. LaunchOK
    BY <1>2, <1>7, <1>10, <1>11 DEF LaunchOK
  <1>13. ReadsOK /\ DecidedOK
    BY DEF Init, ReadsOK, WalkOK, DecidedOK, Reject, None
  <1> QED
    BY <1>6, <1>12, <1>13 DEF IInv

(* The ancestors are who they are as long as no process exits. *)
LEMMA SameLineage ==
  ASSUME UNCHANGED <<alive, parent>>
  PROVE  /\ UpTheChain' = UpTheChain
         /\ Above' = Above /\ Lineage' = Lineage
         /\ \A p : From(p)' = From(p)
  <1>1. Above' = Above
    BY DEF Above
  <1> QED
    BY <1>1 DEF UpTheChain, Lineage, Ancestors, From, Window

LEMMA LineageIs ==
  ASSUME UpTheChain, Intact, ~gone, alive \subseteq Process, Window \in alive
  PROVE  /\ Lineage = {Window} \cup From(parent[Window])
         /\ Lineage \subseteq Process
         /\ parent[Window] \in alive
  <1>1. Window \in Process /\ Window # Chain /\ Nobody \notin Process
    BY ProcessFacts
  <1>2. parent[Window] \in alive /\ parent[Window] # Nobody
    BY <1>1 DEF Intact
  <1>3. Above[Window] = {parent[Window]} \cup Above[parent[Window]]
    BY <1>1, <1>2, AboveIs
  <1>4. Lineage = {Window} \cup Above[Window]
    BY DEF Lineage, Ancestors
  <1>5. Above[Window] \subseteq Process
    BY <1>1, AncestorsAreProcesses
  <1> QED
    BY <1>1, <1>2, <1>3, <1>4, <1>5 DEF From

(* One step of the walk: from p upwards is p and from its parent upwards.  *)
LEMMA FromIs ==
  ASSUME UpTheChain, Intact, ~gone, alive \subseteq Process, NEW p \in alive
  PROVE  /\ From(p) = {p} \cup From(ParentOf(p))
         /\ ParentOf(p) \in alive \cup {Nobody}
  <1>1. p \in Process /\ p # Nobody
    BY ProcessFacts
  <1>2. Above[p] = IF parent[p] = Nobody THEN {} ELSE {parent[p]} \cup Above[parent[p]]
    BY <1>1, AboveIs
  <1>3. parent[p] \in alive \cup {Nobody}
    BY DEF Intact
  <1> QED
    BY <1>1, <1>2, <1>3 DEF From, ParentOf

LEMMA StutterHolds ==
  ASSUME IInv, UNCHANGED vars
  PROVE  IInv'
  <1>1. UNCHANGED <<launch, facts, env, parent, alive, gone, phase, next, at, seen, scoped,
                    libs, decision>>
    BY DEF vars, worldVars, gateVars
  <1>2. TypeOK'
    BY <1>1 DEF IInv, TypeOK
  <1>3. LaunchOK'
    BY <1>1, SameLineage DEF IInv, LaunchOK, Intact, UpTheChain
  <1>4. Traceable' = Traceable /\ Owner' = Owner
    BY <1>1, SameLineage DEF Traceable, Owner
  <1>5. WalkOK => WalkOK'
    BY <1>1, SameLineage DEF WalkOK
  <1>6. ReadsOK' /\ DecidedOK'
    BY <1>1, <1>4, <1>5 DEF IInv, ReadsOK, DecidedOK
  <1> QED
    BY <1>2, <1>3, <1>6 DEF IInv

(* No variables come back. *)
LEMMA StripTraces ==
  ASSUME IInv, StripEnv
  PROVE  Traceable' => Traceable
  <1>1. PICK q \in alive :
          env' = [env EXCEPT ![q] = Stripped] /\ UNCHANGED <<launch, parent, alive, gone>>
    BY DEF StripEnv
  <1>2. env \in [Process -> Env] /\ \A p \in Process : env[p] \in {Stripped, Inherited(launch)}
    BY DEF IInv, TypeOK, LaunchOK
  <1>3. SUFFICES ASSUME Traceable' PROVE Traceable
    OBVIOUS
  <1>4. ~gone /\ \E p \in Lineage : env'[p] = Inherited(launch)
    BY <1>1, <1>3, SameLineage DEF Traceable
  <1>5. PICK p \in Lineage : env'[p] = Inherited(launch)
    BY <1>4
  <1>6. p \in Process
    BY <1>4, LineageIs DEF IInv, LaunchOK, TypeOK
  <1>7. env[p] = Inherited(launch)
    BY <1>1, <1>2, <1>5, <1>6
  <1> QED
    BY <1>4, <1>7 DEF Traceable

(* A process drops its variables: what was read of it stands, and what the *)
(* walk has passed is as bare as before.                                   *)
LEMMA StripHolds ==
  ASSUME IInv, StripEnv
  PROVE  IInv'
  <1>1. PICK q \in alive :
          /\ env' = [env EXCEPT ![q] = Stripped]
          /\ UNCHANGED <<launch, facts, parent, alive, gone, phase, next, at, seen, scoped,
                          libs, decision>>
    BY DEF StripEnv, gateVars
  <1>2. env \in [Process -> Env] /\ \A p \in Process : env[p] \in {Stripped, Inherited(launch)}
    BY DEF IInv, TypeOK, LaunchOK
  <1>3. /\ env' \in [Process -> Env]
        /\ \A p \in Process : env'[p] = env[p] \/ env'[p] = Stripped
    BY <1>1, <1>2, StrippedFacts
  <1>4. TypeOK'
    BY <1>1, <1>3 DEF IInv, TypeOK
  <1>5. LaunchOK'
    BY <1>1, <1>2, <1>3, SameLineage DEF IInv, LaunchOK, Intact, UpTheChain
  <1>6. ASSUME ~gone PROVE Lineage \subseteq Process
    BY <1>6, LineageIs DEF IInv, LaunchOK, TypeOK
  <1>7. Traceable' => Traceable
    BY StripTraces
  <1>8. ~gone /\ WalkOK => WalkOK'
    <2> SUFFICES ASSUME ~gone, WalkOK PROVE WalkOK'
      OBVIOUS
    <2>1. \A p \in Lineage : env[p] = Stripped => env'[p] = Stripped
      BY <1>3, <1>6
    <2> QED
      BY <1>1, <2>1, SameLineage DEF WalkOK
  <1>9. ReadsOK' /\ DecidedOK'
    <2>1. Owner' = Owner
      BY <1>1 DEF Owner
    <2> QED
      BY <1>1, <1>7, <1>8, <2>1 DEF IInv, ReadsOK, DecidedOK
  <1> QED
    BY <1>4, <1>5, <1>9 DEF IInv

LEMMA ExitHolds ==
  ASSUME IInv, ProcessExits
  PROVE  IInv'
  <1>1. PICK p \in alive :
          /\ alive' = alive \ {p} /\ gone' = TRUE
          /\ parent' = [q \in Process |->
                          IF parent[q] # p THEN parent[q]
                          ELSE IF p < Reaper /\ Reaper \in alive THEN Reaper ELSE Nobody]
          /\ UNCHANGED <<launch, facts, env, gateVars>>
    BY DEF ProcessExits
  <1>2. parent' \in [Process -> {Nobody} \cup Process]
    BY <1>1, ProcessFacts DEF IInv, TypeOK
  <1>3. TypeOK'
    BY <1>1, <1>2 DEF IInv, TypeOK, gateVars
  <1>4. UpTheChain'
    <2> SUFFICES ASSUME NEW q \in Process, parent'[q] # Nobody
                 PROVE  parent'[q] \in Process /\ parent'[q] > q
      BY DEF UpTheChain
    <2>1. CASE parent[q] # p
      BY <1>1, <2>1 DEF IInv, LaunchOK, UpTheChain
    <2>2. CASE parent[q] = p
      <3>1. parent'[q] = Reaper /\ p < Reaper
        BY <1>1, <2>2
      <3>2. p \in Process /\ p > q
        BY <1>1, <2>2, ProcessFacts DEF IInv, TypeOK, LaunchOK, UpTheChain
      <3> QED
        BY <3>1, <3>2, ProcessFacts DEF Process
    <2> QED
      BY <2>1, <2>2
  <1>5. LaunchOK'
    BY <1>1, <1>4 DEF IInv, LaunchOK, Intact
  <1>6. ~ Traceable'
    BY <1>1 DEF Traceable
  <1>7. ReadsOK' /\ DecidedOK'
    BY <1>1, <1>6 DEF IInv, ReadsOK, DecidedOK, Owner, gateVars
  <1> QED
    BY <1>3, <1>5, <1>7 DEF IInv

LEMMA ReadTypes ==
  ASSUME IInv, Read
  PROVE  TypeOK'
  <1> USE DEF IInv, TypeOK, worldVars
  <1>1. \A p \in Process : env[p] \in Env /\ parent[p] \in {Nobody} \cup Process
    OBVIOUS
  <1>2. CASE ReadExe
    BY <1>1, <1>2 DEF ReadExe, Conclude, Reject, Verdict
  <1>3. CASE ReadEnviron
    BY <1>1, <1>3, ProcessFacts DEF ReadEnviron
  <1>4. CASE YieldAncestor
    BY <1>1, <1>4 DEF YieldAncestor, ParentOf
  <1>5. CASE ReadAncestor
    BY <1>1, <1>5 DEF ReadAncestor
  <1>6. CASE Judge
    BY <1>1, <1>6 DEF Judge, Conclude, Reject, Verdict
  <1>7. CASE LookForGamescope
    <2>1. (facts.gamescope \in Ancestors) \in BOOLEAN
      OBVIOUS
    <2> QED
      BY <1>7, <2>1 DEF LookForGamescope
  <1>8. CASE ReadMaps
    BY <1>8 DEF ReadMaps, Facts
  <1>9. CASE ReadFdinfo
    <2>1. seen \in Env \cup {Unread} /\ facts.fullscreen \in BOOLEAN /\ scoped \in BOOLEAN
      BY DEF Facts
    <2>2. decision'.verdict \in Verdict /\ decision'.by \in {"heroic", "lutris", None}
      BY <1>9, <2>1, DecisionFacts DEF ReadFdinfo, Conclude
    <2> QED
      BY <1>9, <2>2 DEF ReadFdinfo, Conclude
  <1> QED
    BY <1>2, <1>3, <1>4, <1>5, <1>6, <1>7, <1>8, <1>9 DEF Read

(* No read changes the world; each hands on what it knows to the next.     *)
LEMMA ReadHolds ==
  ASSUME IInv, Read
  PROVE  IInv'
  <1>1. TypeOK'
    BY ReadTypes
  <1>2. UNCHANGED worldVars
    BY DEF Read, ReadExe, ReadEnviron, YieldAncestor, ReadAncestor, Judge,
           LookForGamescope, ReadMaps, ReadFdinfo
  <1>3. LaunchOK'
    BY <1>2, SameLineage DEF IInv, LaunchOK, Intact, worldVars
  <1>4. Owner' = Owner /\ launch \in Launcher /\ gone' = gone /\ (Traceable' <=> Traceable)
    BY <1>2, SameLineage DEF Owner, Traceable, worldVars, IInv, TypeOK
  <1>5. \A p \in Process : env[p] \in {Stripped, Inherited(launch)}
    BY DEF IInv, LaunchOK
  <1>6. Window \in Process /\ alive \subseteq Process
    BY ProcessFacts DEF IInv, TypeOK
  <1>7. ReadsOK'
    <2> USE <1>4
    <2>1. CASE ReadExe
      <3>1. UNCHANGED <<seen, launch>> /\ phase' \in {"environ", "decided"}
        BY <2>1 DEF ReadExe, Conclude, worldVars
      <3> QED
        BY <3>1 DEF IInv, ReadsOK, WalkOK
    <2>2. CASE ReadEnviron
      <3>1. CASE Window \in alive /\ ~ HasLauncherAttribution(env[Window])
        <4>1. seen' = env[Window] /\ phase' = "parent" /\ next' = parent[Window]
          BY <2>2, <3>1 DEF ReadEnviron
        <4>2. env[Window] = Stripped
          BY <1>5, <1>6, <3>1, InheritedFacts
        <4>3. ~gone => WalkOK'
          <5> SUFFICES ASSUME ~gone PROVE WalkOK'
            OBVIOUS
          <5>1. Lineage = {Window} \cup From(parent[Window]) /\ parent[Window] \in alive
            BY <3>1, LineageIs DEF IInv, LaunchOK, TypeOK
          <5>2. Lineage' = Lineage /\ From(next)' = From(parent[Window]) /\ env' = env
                /\ alive' = alive
            BY <1>2, <4>1, SameLineage DEF worldVars, From
          <5> QED
            BY <4>1, <4>2, <5>1, <5>2 DEF WalkOK
        <4> QED
          BY <4>1, <4>2, <4>3 DEF ReadsOK
      <3>2. CASE Window \in alive /\ HasLauncherAttribution(env[Window])
        <4>1. seen' = env[Window] /\ phase' = "judge"
          BY <2>2, <3>2 DEF ReadEnviron
        <4>2. seen' = Inherited(launch) /\ launch' = launch
          BY <1>2, <1>5, <1>6, <3>2, <4>1, StrippedFacts DEF worldVars
        <4> QED
          BY <4>1, <4>2 DEF ReadsOK, WalkOK
      <3>3. CASE Window \notin alive
        <4>1. seen' = Unread /\ gone
          BY <2>2, <3>3 DEF ReadEnviron, IInv, LaunchOK
        <4> QED
          BY <4>1 DEF ReadsOK, Traceable
      <3> QED
        BY <3>1, <3>2, <3>3
    <2>3. CASE YieldAncestor
      <3>1. UNCHANGED seen /\ phase = "parent" /\ launch' = launch
        BY <1>2, <2>3 DEF YieldAncestor, worldVars
      <3>2. CASE next = Nobody
        <4>1. phase' = "judge"
          BY <2>3, <3>2 DEF YieldAncestor
        <4>2. Traceable => seen = Inherited(launch)
          <5> SUFFICES ASSUME Traceable PROVE seen = Inherited(launch)
            OBVIOUS
          <5>1. WalkOK /\ \E p \in Lineage : env[p] = Inherited(launch)
            BY DEF Traceable, IInv, ReadsOK
          <5>2. \A p \in Lineage : env[p] = Stripped
            BY <3>1, <3>2, <5>1 DEF WalkOK, From
          <5> QED
            BY <3>1, <5>1, <5>2 DEF WalkOK
        <4> QED
          BY <3>1, <4>1, <4>2 DEF IInv, ReadsOK, WalkOK
      <3>3. CASE next # Nobody
        <4>1. phase' = "walk" /\ at' = next /\ next' = ParentOf(next)
          BY <2>3, <3>3 DEF YieldAncestor
        <4>2. ~gone => WalkOK'
          <5> SUFFICES ASSUME ~gone PROVE WalkOK'
            OBVIOUS
          <5>1. /\ seen = Stripped /\ next \in alive
                /\ \A p \in Lineage : env[p] = Stripped \/ p \in From(next)
            BY <3>1, <3>3 DEF IInv, ReadsOK, WalkOK
          <5>2. From(next) = {next} \cup From(ParentOf(next)) /\ ParentOf(next) \in alive \cup {Nobody}
            BY <1>6, <5>1, FromIs DEF IInv, LaunchOK
          <5>3. Lineage' = Lineage /\ From(next)' = From(ParentOf(next)) /\ env' = env
                /\ alive' = alive
            BY <1>2, <4>1, SameLineage DEF worldVars, From
          <5> QED
            BY <3>1, <4>1, <5>1, <5>2, <5>3 DEF WalkOK
        <4> QED
          BY <3>1, <4>1, <4>2 DEF IInv, ReadsOK
      <3> QED
        BY <3>2, <3>3
    <2>4. CASE ReadAncestor
      <3>1. phase = "walk" /\ UNCHANGED <<next, launch>>
        BY <1>2, <2>4 DEF ReadAncestor, worldVars
      <3>2. CASE at \in alive /\ HasLauncherAttribution(env[at])
        <4>1. seen' = env[at] /\ phase' = "judge"
          BY <2>4, <3>2 DEF ReadAncestor
        <4>2. seen' = Inherited(launch)
          BY <1>5, <1>6, <3>2, <4>1, StrippedFacts
        <4> QED
          BY <3>1, <4>1, <4>2 DEF ReadsOK, WalkOK
      <3>3. CASE ~ (at \in alive /\ HasLauncherAttribution(env[at]))
        <4>1. UNCHANGED seen /\ phase' = "parent"
          BY <2>4, <3>3 DEF ReadAncestor
        <4>2. ~gone => WalkOK'
          <5> SUFFICES ASSUME ~gone PROVE WalkOK'
            OBVIOUS
          <5>1. /\ seen = Stripped /\ next \in alive \cup {Nobody} /\ at \in alive
                /\ \A p \in Lineage : env[p] = Stripped \/ p = at \/ p \in From(next)
            BY <3>1 DEF IInv, ReadsOK, WalkOK
          <5>2. env[at] = Stripped
            BY <1>5, <1>6, <3>3, <5>1, InheritedFacts
          <5>3. Lineage' = Lineage /\ From(next)' = From(next) /\ env' = env /\ alive' = alive
            BY <1>2, <3>1, SameLineage DEF worldVars, From
          <5> QED
            BY <3>1, <4>1, <5>1, <5>2, <5>3 DEF WalkOK
        <4> QED
          BY <3>1, <4>1, <4>2 DEF IInv, ReadsOK
      <3> QED
        BY <3>2, <3>3
    <2>5. CASE Judge \/ LookForGamescope \/ ReadMaps \/ ReadFdinfo
      <3>1. /\ UNCHANGED <<seen, launch>>
            /\ phase \in {"judge", "scope", "maps", "fdinfo"}
            /\ phase' \in {"scope", "maps", "fdinfo", "decided"}
        BY <1>2, <2>5 DEF Judge, LookForGamescope, ReadMaps, ReadFdinfo, Conclude, worldVars
      <3> QED
        BY <3>1 DEF IInv, ReadsOK, WalkOK
    <2> QED
      BY <2>1, <2>2, <2>3, <2>4, <2>5 DEF Read
  <1>8. DecidedOK'
    <2>1. phase # "decided" /\ decision = Reject(None)
      BY DEF Read, ReadExe, ReadEnviron, YieldAncestor, ReadAncestor, Judge,
             LookForGamescope, ReadMaps, ReadFdinfo, IInv, DecidedOK
    <2>2. seen # Unread /\ LeftToItsLauncher(seen) => Owner = "steam"
      BY <1>4, InheritedFacts, StrippedFacts DEF IInv, ReadsOK, Owner
    <2>3. CASE ReadExe
      BY <2>1, <2>3 DEF ReadExe, Conclude, DecidedOK, Reject, None
    <2>4. CASE Judge
      BY <1>4, <2>1, <2>2, <2>4 DEF Judge, Conclude, DecidedOK, Reject, None
    <2>5. CASE ReadFdinfo
      <3>1. seen \in Env \cup {Unread} /\ facts.fullscreen \in BOOLEAN /\ scoped \in BOOLEAN
        BY DEF IInv, TypeOK, Facts
      <3>2. /\ decision'.verdict = "launcher" => seen # Unread /\ LeftToItsLauncher(seen)
            /\ decision'.verdict = "accept" =>
                 /\ ~ (seen # Unread /\ LeftToItsLauncher(seen))
                 /\ decision'.by = IF seen = Unread THEN None ELSE Attribution(seen)
        BY <2>5, <3>1, DecisionFacts DEF ReadFdinfo, Conclude
      <3>3. Traceable => seen = Inherited(launch) /\ seen # Unread
        BY <1>4, <2>5, InheritedFacts, UnreadIsNoEnviron DEF IInv, ReadsOK, ReadFdinfo
      <3>4. Traceable /\ decision'.verdict = "accept" => Owner # "steam" /\ decision'.by = Owner
        <4> SUFFICES ASSUME Traceable, decision'.verdict = "accept"
                     PROVE  Owner # "steam" /\ decision'.by = Owner
          OBVIOUS
        <4>1. ~ LeftToItsLauncher(Inherited(launch)) /\ decision'.by = Attribution(Inherited(launch))
          BY <3>2, <3>3
        <4>2. launch # "steam"
          BY <1>4, <4>1, InheritedFacts
        <4>3. decision'.by = IF launch \in {"heroic", "lutris"} THEN launch ELSE None
          BY <1>4, <4>1, InheritedFacts
        <4>4. Owner = IF launch \in {"heroic", "lutris"} THEN launch ELSE None
          BY <4>2 DEF Owner
        <4> QED
          BY <4>2, <4>3, <4>4 DEF Owner, None
      <3>5. phase' = "decided"
        BY <2>5 DEF ReadFdinfo, Conclude
      <3> QED
        BY <1>4, <2>2, <3>2, <3>4, <3>5 DEF DecidedOK
    <2>6. CASE ReadEnviron \/ YieldAncestor \/ ReadAncestor \/ LookForGamescope \/ ReadMaps
      <3>1. UNCHANGED decision
        BY <2>6 DEF ReadEnviron, YieldAncestor, ReadAncestor, LookForGamescope, ReadMaps
      <3> QED
        BY <2>1, <3>1 DEF DecidedOK, Reject, None
    <2> QED
      BY <2>3, <2>4, <2>5, <2>6 DEF Read
  <1> QED
    BY <1>1, <1>3, <1>7, <1>8 DEF IInv

(* Once its game is tracked the gate has forgotten the launch. *)
LEMMA StartHolds ==
  ASSUME IInv, Start
  PROVE  IInv'
  <1>1. /\ env' = [p \in Process |-> Stripped] /\ parent' = [p \in Process |-> Nobody]
        /\ alive' = {} /\ gone' = TRUE /\ next' = Nobody /\ at' = Nobody /\ seen' = Stripped
        /\ scoped' = FALSE /\ libs' = None /\ decision' = Reject(None)
        /\ UNCHANGED <<launch, phase>>
    BY DEF Start
  <1>2. facts' \in Facts
    BY DEF Start, Facts
  <1>3. TypeOK'
    BY <1>1, <1>2, StrippedFacts DEF IInv, TypeOK, Reject
  <1>4. LaunchOK' /\ ReadsOK'
    BY <1>1 DEF LaunchOK, UpTheChain, Intact, ReadsOK, Traceable
  <1>5. DecidedOK'
    BY <1>1 DEF DecidedOK, Reject, None
  <1> QED
    BY <1>3, <1>4, <1>5 DEF IInv

-----------------------------------------------------------------------------
(* The theorems. *)

(* The strengthened invariant of the gate holds through the whole life of  *)
(* a launch, identification and merges included: whichever processes drop  *)
(* the launcher's variables, whoever the walk has passed has none, so that *)
(* it has passed no one it should have stopped at.  (gate.rs:430-535,      *)
(* 599-617.)                                                               *)
THEOREM InvariantHolds == IdentifySpec => []IInv
  <1>1. IdentifyInit => IInv
    BY InitHolds DEF IdentifyInit
  <1>2. IInv /\ [IdentifyNext]_allVars => IInv'
    <2> SUFFICES ASSUME IInv, [IdentifyNext]_allVars PROVE IInv'
      OBVIOUS
    <2>1. CASE Elsewhere
      BY <2>1, StutterHolds DEF Elsewhere, ReadApplication, Consult, UpdateIdentity,
                                Merge, StartAgain, Crash
    <2>2. CASE UNCHANGED allVars
      BY <2>2, StutterHolds DEF allVars
    <2>3. CASE World
      BY <2>3, StripHolds, ExitHolds DEF World
    <2>4. CASE Read
      BY <2>4, ReadHolds
    <2>5. CASE Start
      BY <2>5, StartHolds
    <2> QED
      BY <2>1, <2>2, <2>3, <2>4, <2>5 DEF IdentifyNext, Elsewhere
  <1> QED
    BY <1>1, <1>2, PTL DEF IdentifySpec

(* The gate's state has its types: a verdict is one of those gate.rs:239   *)
(* names, and an attribution one of the two foreground launchers.          *)
THEOREM TypesHold == IdentifySpec => []TypeOK
  <1>1. IInv => TypeOK
    BY DEF IInv
  <1> QED
    BY <1>1, InvariantHolds, PTL

(* A game has one tracker: for launch chains of any length, whichever of   *)
(* the processes drop the launcher's variables and whenever, as long as    *)
(* one of them from the window upwards keeps them.  What is left to        *)
(* Steam's source is Steam's, and what is accepted while the launch lives  *)
(* is nobody else's and credited to its own launcher, however many bare    *)
(* processes the walk has to pass: gate.rs:395-422, 483-503, 599-617.      *)
THEOREM OneTrackerHolds == IdentifySpec => []OneTrackerPerGame
  <1>1. IInv => OneTrackerPerGame
    BY DEF IInv, DecidedOK, OneTrackerPerGame
  <1> QED
    BY <1>1, InvariantHolds, PTL

-----------------------------------------------------------------------------
(* What each read has settled of the heuristic. *)
ReadsAgree ==
  Traceable =>
    /\ phase \notin {"exe", "decided"} => facts.exe = "game"
    /\ phase \in {"scope", "maps", "fdinfo"} => Owner # "steam"
    /\ phase \in {"maps", "fdinfo"} => (scoped <=> facts.gamescope # 0)
    /\ phase = "fdinfo" => libs = facts.libs
    /\ phase = "decided" => (decision.verdict = "accept" <=> IsAGame)

(* An acceptance is what breaks no rule. *)
LEMMA AcceptanceIs ==
  ASSUME NEW exe \in {"game", "blocked", None}, NEW e, NEW maps \in {"graphics", "plain", None},
         NEW memory, NEW fullscreen \in BOOLEAN, NEW inScope \in BOOLEAN
  PROVE  DecideFromInputs(exe, e, maps, memory, fullscreen, inScope).verdict = "accept"
           <=> /\ exe = "game" /\ ~ (e # Unread /\ LeftToItsLauncher(e))
               /\ \/ inScope
                  \/ maps = "graphics" /\ (fullscreen \/ memory = "high")
  <1> DEFINE rules == <<"exe_unreadable", "blocklisted", "launcher", "maps_unreadable",
                        "no_graphics", "not_fullscreen">>
             broken(rule) ==
               CASE rule = "exe_unreadable"  -> exe = None
                 [] rule = "blocklisted"     -> exe = "blocked"
                 [] rule = "launcher"        -> e # Unread /\ LeftToItsLauncher(e)
                 [] rule = "maps_unreadable" -> maps = None /\ ~inScope
                 [] rule = "no_graphics"     -> maps # "graphics" /\ ~inScope
                 [] rule = "not_fullscreen"  -> ~fullscreen /\ ~inScope /\ memory # "high"
             hits == {i \in DOMAIN rules : broken(rules[i])}
             d == DecideFromInputs(exe, e, maps, memory, fullscreen, inScope)
  <1>1. d = IF hits # {} THEN Reject(rules[Min(hits)])
            ELSE [verdict |-> "accept", by |-> IF e = Unread THEN None ELSE Attribution(e)]
    BY DEF DecideFromInputs
  <1>2. DOMAIN rules = 1..6
    OBVIOUS
  <1>3. /\ rules[1] = "exe_unreadable" /\ rules[2] = "blocklisted" /\ rules[3] = "launcher"
        /\ rules[4] = "maps_unreadable" /\ rules[5] = "no_graphics"
        /\ rules[6] = "not_fullscreen"
    OBVIOUS
  <1>4. /\ broken("exe_unreadable") <=> exe = None
        /\ broken("blocklisted") <=> exe = "blocked"
        /\ broken("launcher") <=> e # Unread /\ LeftToItsLauncher(e)
        /\ broken("maps_unreadable") <=> maps = None /\ ~inScope
        /\ broken("no_graphics") <=> maps # "graphics" /\ ~inScope
        /\ broken("not_fullscreen") <=> ~fullscreen /\ ~inScope /\ memory # "high"
    OBVIOUS
  <1> HIDE DEF rules, broken
  <1>5. hits \in SUBSET (1..6) /\ \A i \in 1..6 : i \in hits <=> broken(rules[i])
    BY <1>2
  <1>6. hits = {} <=> /\ ~ broken(rules[1]) /\ ~ broken(rules[2]) /\ ~ broken(rules[3])
                      /\ ~ broken(rules[4]) /\ ~ broken(rules[5]) /\ ~ broken(rules[6])
    <2>1. \A i \in 1..6 : i \in {1, 2, 3, 4, 5, 6}
      OBVIOUS
    <2>2. {1, 2, 3, 4, 5, 6} \subseteq 1..6
      OBVIOUS
    <2> HIDE DEF hits
    <2> QED
      BY <1>5, <2>1, <2>2
  <1>7. d.verdict = "accept" <=> hits = {}
    <2>1. CASE hits = {}
      BY <1>1, <2>1
    <2>2. CASE hits # {}
      <3> HIDE DEF hits, d
      <3>1. Min(hits) \in 1..6
        BY <1>5, <2>2, MinIsMember
      <3>2. rules[Min(hits)] # "accept"
        BY <1>3, <3>1
      <3> QED
        BY <1>1, <2>2, <3>2 DEF Reject
    <2> QED
      BY <2>1, <2>2
  <1>8. /\ exe # None /\ exe # "blocked" <=> exe = "game"
        /\ maps = "graphics" => maps # None
    BY DEF None
  <1> QED
    BY <1>3, <1>4, <1>6, <1>7, <1>8

LEMMA StillAgrees ==
  ASSUME ReadsAgree, Traceable' => Traceable,
         UNCHANGED <<launch, facts, phase, scoped, libs, decision>>
  PROVE  ReadsAgree'
  BY DEF ReadsAgree, IsAGame, Owner

LEMMA StutterAgrees ==
  ASSUME ReadsAgree, UNCHANGED vars
  PROVE  ReadsAgree'
  <1>1. Traceable' = Traceable
    BY SameLineage DEF Traceable, vars, worldVars
  <1> QED
    BY <1>1, StillAgrees DEF vars, worldVars, gateVars

(* In gamescope is who has the outermost process, which it is, above him.  *)
LEMMA InGamescope ==
  ASSUME IInv, ~gone
  PROVE  facts.gamescope \in Ancestors <=> facts.gamescope # 0
  <1>1. /\ Window \in alive /\ alive \subseteq Process /\ facts.gamescope \in {0, Chain}
        /\ Window # Chain /\ Window \in Process /\ Nobody \notin Process
    BY ProcessFacts DEF IInv, TypeOK, LaunchOK, Facts
  <1>2. Ancestors = Above[Window]
    BY <1>1 DEF Ancestors
  <1>3. Chain \in Above[Window] /\ Above[Window] \subseteq Process
    BY <1>1, OutermostIsAbove, AncestorsAreProcesses DEF IInv, LaunchOK
  <1>4. 0 \notin Process /\ Chain # 0
    BY <1>1, ProcessFacts DEF Nobody
  <1> QED
    BY <1>1, <1>2, <1>3, <1>4

LEMMA ReadAgrees ==
  ASSUME IInv, ReadsAgree, Read
  PROVE  ReadsAgree'
  <1>1. UNCHANGED <<launch, facts, env, parent, alive, gone>>
    BY DEF Read, ReadExe, ReadEnviron, YieldAncestor, ReadAncestor, Judge,
           LookForGamescope, ReadMaps, ReadFdinfo, worldVars
  <1>2. Traceable' <=> Traceable
    BY <1>1, SameLineage DEF Traceable
  <1>3. (Owner' = Owner) /\ (IsAGame' <=> IsAGame)
    BY <1>1 DEF Owner, IsAGame
  <1>4. CASE ~ Traceable
    BY <1>2, <1>4 DEF ReadsAgree
  <1>5. CASE Traceable
    <2>1. /\ Window \in alive /\ launch \in Launcher /\ facts \in Facts /\ ~gone
          /\ facts.exe \in {"game", "blocked", None}
      BY <1>5 DEF IInv, TypeOK, LaunchOK, Facts, Traceable
    <2>2. Owner = "steam" <=> launch = "steam"
      BY <2>1 DEF Owner, Launcher, None
    <2>3. phase \in {"judge", "scope", "maps", "fdinfo"} =>
            ((seen # Unread /\ LeftToItsLauncher(seen)) <=> Owner = "steam")
      <3>1. Inherited(launch) # Unread /\ (LeftToItsLauncher(Inherited(launch)) <=> launch = "steam")
        BY <2>1, InheritedFacts, UnreadIsNoEnviron
      <3> QED
        BY <1>5, <2>2, <3>1 DEF IInv, ReadsOK
    <2>4. ASSUME ReadExe PROVE ReadsAgree'
      <3>1. CASE facts.exe # "game"
        <4>1. decision'.verdict \in {"blocklisted", "exe_unreadable"} /\ phase' = "decided"
          BY <2>1, <2>4, <3>1 DEF ReadExe, Conclude, Reject
        <4>2. ~ IsAGame
          BY <3>1 DEF IsAGame
        <4> QED
          BY <1>3, <4>1, <4>2 DEF ReadsAgree
      <3>2. CASE facts.exe = "game"
        <4>1. phase' = "environ"
          BY <2>1, <2>4, <3>2 DEF ReadExe, None
        <4> QED
          BY <1>1, <3>2, <4>1 DEF ReadsAgree
      <3> QED
        BY <3>1, <3>2
    <2>5. ASSUME ReadEnviron \/ YieldAncestor \/ ReadAncestor PROVE ReadsAgree'
      <3>1. phase \in {"environ", "parent", "walk"} /\ phase' \in {"parent", "walk", "judge"}
        BY <2>5 DEF ReadEnviron, YieldAncestor, ReadAncestor
      <3> QED
        BY <1>1, <1>5, <2>1, <3>1 DEF ReadsAgree
    <2>6. ASSUME Judge PROVE ReadsAgree'
      <3>1. CASE Owner = "steam"
        <4>1. decision'.verdict = "launcher" /\ phase' = "decided"
          BY <2>3, <2>6, <3>1 DEF Judge, Conclude, Reject
        <4>2. ~ IsAGame
          BY <3>1 DEF IsAGame
        <4> QED
          BY <1>3, <4>1, <4>2 DEF ReadsAgree
      <3>2. CASE Owner # "steam"
        <4>1. phase' = "scope" /\ facts.exe = "game"
          BY <1>5, <2>1, <2>3, <2>6, <3>2 DEF Judge, ReadsAgree
        <4> QED
          BY <1>1, <1>3, <3>2, <4>1 DEF ReadsAgree
      <3> QED
        BY <3>1, <3>2
    <2>7. ASSUME LookForGamescope PROVE ReadsAgree'
      <3>1. phase = "scope" /\ phase' = "maps" /\ scoped' = (facts.gamescope \in Ancestors)
        BY <2>7 DEF LookForGamescope
      <3>2. scoped' <=> facts.gamescope # 0
        BY <2>1, <3>1, InGamescope
      <3>3. facts.exe = "game" /\ Owner # "steam"
        BY <1>5, <2>1, <3>1 DEF ReadsAgree
      <3> QED
        BY <1>1, <1>3, <3>1, <3>2, <3>3 DEF ReadsAgree
    <2>8. ASSUME ReadMaps PROVE ReadsAgree'
      <3>1. phase = "maps" /\ phase' = "fdinfo" /\ libs' = facts.libs /\ scoped' = scoped
        BY <2>1, <2>8 DEF ReadMaps
      <3>2. facts.exe = "game" /\ Owner # "steam" /\ (scoped <=> facts.gamescope # 0)
        BY <1>5, <2>1, <3>1 DEF ReadsAgree
      <3> QED
        BY <1>1, <1>3, <3>1, <3>2 DEF ReadsAgree
    <2>9. ASSUME ReadFdinfo PROVE ReadsAgree'
      <3>1. /\ phase = "fdinfo" /\ phase' = "decided"
            /\ decision' = DecideFromInputs(facts.exe, seen, libs, Memory, facts.fullscreen, scoped)
        BY <2>9 DEF ReadFdinfo, Conclude
      <3>2. /\ facts.exe = "game" /\ Owner # "steam" /\ (scoped <=> facts.gamescope # 0)
            /\ libs = facts.libs
        BY <1>5, <2>1, <3>1 DEF ReadsAgree
      <3>3. /\ facts.libs \in {"graphics", "plain", None} /\ facts.fullscreen \in BOOLEAN
            /\ scoped \in BOOLEAN
        BY DEF IInv, TypeOK, Facts
      <3>4. ~ (seen # Unread /\ LeftToItsLauncher(seen))
        BY <2>3, <3>1, <3>2
      <3>5. decision'.verdict = "accept"
              <=> scoped \/ (libs = "graphics" /\ (facts.fullscreen \/ Memory = "high"))
        BY <2>1, <3>1, <3>2, <3>3, <3>4, AcceptanceIs
      <3>6. ~ scoped /\ ~ facts.fullscreen => Memory = facts.memory
        BY <2>1 DEF Memory
      <3>7. IsAGame <=> scoped \/ (libs = "graphics" /\ (facts.fullscreen \/ facts.memory = "high"))
        BY <3>2 DEF IsAGame
      <3>8. decision'.verdict = "accept" <=> IsAGame
        BY <3>3, <3>5, <3>6, <3>7
      <3> QED
        BY <1>3, <3>1, <3>8 DEF ReadsAgree
    <2>10. ReadsAgree'
      BY <2>4, <2>5, <2>6, <2>7, <2>8, <2>9 DEF Read
    <2> QED
      BY <2>10
  <1> QED
    BY <1>4, <1>5

(* The reads in the order gate.rs:430-535 makes them, each skipped when an *)
(* earlier one has settled the matter, say of a launch that can be traced  *)
(* what its heuristic says of all of them together, whatever of exe and    *)
(* maps cannot be read.                                                    *)
THEOREM HeuristicHolds == IdentifySpec => []VerdictIsTheHeuristic
  <1>1. IdentifyInit => ReadsAgree
    BY DEF IdentifyInit, Init, ReadsAgree
  <1>2. IInv /\ ReadsAgree /\ [IdentifyNext]_allVars => ReadsAgree'
    <2> SUFFICES ASSUME IInv, ReadsAgree, [IdentifyNext]_allVars
                 PROVE  ReadsAgree'
      OBVIOUS
    <2>1. CASE Elsewhere
      BY <2>1, StutterAgrees DEF Elsewhere, ReadApplication, Consult, UpdateIdentity,
         Merge, StartAgain, Crash
    <2>2. CASE UNCHANGED allVars
      BY <2>2, StutterAgrees DEF allVars
    <2>3. CASE StripEnv
      BY <2>3, StripTraces, StillAgrees DEF StripEnv, gateVars
    <2>4. CASE ProcessExits \/ Start
      <3>1. ~ Traceable'
        BY <2>4 DEF ProcessExits, Start, Traceable
      <3> QED
        BY <3>1 DEF ReadsAgree
    <2>5. CASE Read
      BY <2>5, ReadAgrees
    <2> QED
      BY <2>1, <2>2, <2>3, <2>4, <2>5 DEF IdentifyNext, Elsewhere, World
  <1>3. ReadsAgree => VerdictIsTheHeuristic
    BY DEF ReadsAgree, VerdictIsTheHeuristic
  <1> QED
    BY <1>1, <1>2, <1>3, InvariantHolds, PTL DEF IdentifySpec

-----------------------------------------------------------------------------
(* The cascade. *)

LEMMA CascadeIs ==
  /\ Len(Cascade) = 6 /\ DOMAIN Cascade = 1 .. 6
  /\ \A i \in 1 .. 6 : Cascade[i] \in Range(Cascade) /\ Cascade[i] # Unset
  /\ \A i, j \in 1 .. 6 : Cascade[i] = Cascade[j] => i = j
  <1>1. Len(Cascade) = 6 /\ DOMAIN Cascade = 1 .. 6
    BY DEF Cascade
  <1>2. /\ Cascade[1] = "desktop" /\ Cascade[2] = "pe" /\ Cascade[3] = "gog"
        /\ Cascade[4] = "heroic" /\ Cascade[5] = "lutris" /\ Cascade[6] = "steam"
    BY DEF Cascade
  <1>3. \A i \in 1 .. 6 : i \in {1, 2, 3, 4, 5, 6}
    OBVIOUS
  <1>4. \A i \in 1 .. 6 : Cascade[i] # Unset
    BY <1>2, <1>3 DEF Unset
  <1>5. \A i, j \in 1 .. 6 : Cascade[i] = Cascade[j] => i = j
    BY <1>2, <1>3
  <1>6. \A i \in 1 .. 6 : Cascade[i] \in Range(Cascade)
    BY <1>1, Zenon DEF Range
  <1> QED
    BY <1>1, <1>4, <1>5, <1>6

LEMMA RankIs ==
  ASSUME NEW i \in 1 .. 6
  PROVE  Rank(Cascade[i]) = i
  <1>1. \A j \in 1 .. 6 : Cascade[j] = Cascade[i] => j = i
    BY CascadeIs
  <1>2. DOMAIN Cascade = 1 .. 6
    BY CascadeIs
  <1>3. Rank(Cascade[i]) \in 1 .. 6 /\ Cascade[Rank(Cascade[i])] = Cascade[i]
    BY <1>2, Zenon DEF Rank
  <1> QED
    BY <1>1, <1>3

(* The task has the form Task gives it. *)
TaskOK ==
  /\ task = [state |-> task.state, app |-> task.app, step |-> task.step, acc |-> task.acc,
             knew |-> task.knew, took |-> task.took]
  /\ task.state \in {"none", "spawned", "cascade", "ended", "lost"}
  /\ task.state # "none" => task.app \in EveryApplication
  /\ task.step \in 1 .. 7

(* The name so far is that of the last source that had one: of this very   *)
(* game where that source knows it.                                        *)
Deserved(name, via) ==
  \/ name \in Titles[via]
  \/ via \notin task.knew /\ GoesByDirectory(via, task.app)

AccumulatedOK ==
  /\ task.knew \subseteq task.took
  /\ \A s \in task.took : \E i \in 1 .. 6 : i < task.step /\ s = Cascade[i]
  /\ IF task.took = {}
     THEN task.acc.via = Unset /\ task.acc.patch["product_name"] = Unset
     ELSE /\ task.acc.via \in task.took
          /\ \A s \in task.took : Rank(s) <= Rank(task.acc.via)
          /\ task.acc.patch["product_name"] # Unset
          /\ Deserved(task.acc.patch["product_name"], task.acc.via)

(* There is one row of the first start, and none comes back. *)
RowsOK ==
  /\ lastId = 0 <=> task.state = "none"
  /\ lastId # 1 => 1 \notin DOMAIN rows
  /\ NamedByTheStrongest

NamingInvariant == TaskOK /\ AccumulatedOK /\ RowsOK

LEMMA MergedName ==
  ASSUME NEW acc, NEW source, NEW patch
  PROVE  /\ MergeInto(acc, source, patch).patch["product_name"] =
              IF patch["product_name"] # Unset THEN patch["product_name"]
              ELSE acc.patch["product_name"]
         /\ MergeInto(acc, source, patch).via =
              IF patch["product_name"] # Unset THEN source ELSE acc.via
  BY DEF MergeInto, Field

LEMMA InitNames == IdentifyInit => NamingInvariant
  <1> SUFFICES ASSUME IdentifyInit PROVE NamingInvariant
    OBVIOUS
  <1>1. /\ task = [state |-> "none", app |-> Absent, step |-> 1, acc |-> Nothing, knew |-> {},
                   took |-> {}]
        /\ rows = << >> /\ lastId = 0
    BY DEF IdentifyInit, Task
  <1>2. Nothing.via = Unset /\ Nothing.patch["product_name"] = Unset
    BY DEF Nothing, NoPatch, Field
  <1>3. DOMAIN rows = {}
    BY <1>1
  <1>4. TaskOK
    BY <1>1 DEF TaskOK
  <1>5. AccumulatedOK
    BY <1>1, <1>2 DEF AccumulatedOK
  <1>6. RowsOK
    BY <1>1, <1>3 DEF RowsOK, NamedByTheStrongest
  <1> QED
    BY <1>4, <1>5, <1>6 DEF NamingInvariant

LEMMA StillNames ==
  ASSUME NamingInvariant, UNCHANGED identifyVars
  PROVE  NamingInvariant'
  BY DEF NamingInvariant, TaskOK, AccumulatedOK, Deserved, RowsOK, NamedByTheStrongest, identifyVars

LEMMA FreshIs == Fresh.name = Provisional /\ Fresh.via = Unset
  BY DEF Fresh

LEMMA StartNames ==
  ASSUME TypeOK, NamingInvariant, Start
  PROVE  NamingInvariant'
  <1>1. PICK app \in Applications(IF decision.verdict = "accept" THEN decision.by ELSE "steam") :
          task' = Task("spawned", app)
    BY DEF Start
  <1>2. task' = [state |-> "spawned", app |-> app, step |-> 1, acc |-> Nothing, knew |-> {},
                 took |-> {}]
    BY <1>1 DEF Task
  <1>3. rows' = <<Fresh>> /\ lastId' = 1
    BY DEF Start
  <1>4. app \in EveryApplication
    BY <1>1 DEF TypeOK, EveryApplication
  <1>5. Nothing.via = Unset /\ Nothing.patch["product_name"] = Unset
    BY DEF Nothing, NoPatch, Field
  <1>6. DOMAIN rows' = {1} /\ rows'[1] = Fresh
    BY <1>3
  <1>7. TaskOK'
    BY <1>2, <1>4 DEF TaskOK
  <1>8. AccumulatedOK'
    BY <1>2, <1>5 DEF AccumulatedOK
  <1>9. RowsOK'
    BY <1>2, <1>3, <1>6, FreshIs DEF RowsOK, NamedByTheStrongest
  <1> QED
    BY <1>7, <1>8, <1>9 DEF NamingInvariant

(* What moves the task on without touching a row.                          *)
LEMMA TaskMovesOn ==
  ASSUME NamingInvariant, NEW state \in {"cascade", "ended", "lost"},
         task' = [task EXCEPT !.state = state], UNCHANGED <<rows, lastId>>,
         task.state # "none", state = "ended" => 1 \notin DOMAIN rows,
         task.state # "ended"
  PROVE  NamingInvariant'
  <1>1. task' = [state |-> state, app |-> task.app, step |-> task.step, acc |-> task.acc,
                 knew |-> task.knew, took |-> task.took]
    BY DEF NamingInvariant, TaskOK
  <1>2. TaskOK' /\ AccumulatedOK'
    BY <1>1 DEF NamingInvariant, TaskOK, AccumulatedOK, Deserved
  <1>3. RowsOK'
    BY <1>1 DEF NamingInvariant, RowsOK, NamedByTheStrongest
  <1> QED
    BY <1>2, <1>3 DEF NamingInvariant

LEMMA ConsultNames ==
  ASSUME SourcesNameTheirOwn, NamingInvariant, Consult
  PROVE  NamingInvariant'
  <1> DEFINE s == Cascade[task.step]
  <1>1. task.state = "cascade" /\ task.step \in 1 .. 6 /\ UNCHANGED <<rows, lastId>>
    BY CascadeIs DEF Consult, NamingInvariant, TaskOK
  <1>2. PICK files \in Files[s] :
          task' = [task EXCEPT
                     !.acc = MergeInto(task.acc, s, Enrich(s, task.app, files)),
                     !.knew = IF Knows(s, task.app, files) THEN @ \cup {s} ELSE @,
                     !.took = IF Enrich(s, task.app, files)["product_name"] # Unset
                              THEN @ \cup {s} ELSE @,
                     !.step = @ + 1]
    BY DEF Consult
  <1> DEFINE patch == Enrich(s, task.app, files)
             name == patch["product_name"]
             acc == MergeInto(task.acc, s, patch)
             knew == IF Knows(s, task.app, files) THEN task.knew \cup {s} ELSE task.knew
             took == IF name # Unset THEN task.took \cup {s} ELSE task.took
  <1>3. s \in Range(Cascade) /\ task.app \in EveryApplication
    BY <1>1, CascadeIs DEF NamingInvariant, TaskOK
  <1>4. IF Knows(s, task.app, files) THEN name \in Titles[s] \ {Unset}
        ELSE name = Unset \/ GoesByDirectory(s, task.app)
    BY <1>2, <1>3 DEF SourcesNameTheirOwn
  <1>5. task' = [state |-> "cascade", app |-> task.app, step |-> task.step + 1, acc |-> acc,
                 knew |-> knew, took |-> took]
    BY <1>1, <1>2 DEF NamingInvariant, TaskOK
  <1>6. /\ acc.patch["product_name"] = IF name # Unset THEN name
                                       ELSE task.acc.patch["product_name"]
        /\ acc.via = IF name # Unset THEN s ELSE task.acc.via
    BY MergedName
  <1> HIDE DEF acc, name
  <1>7. /\ task.knew \subseteq task.took
        /\ \A t \in task.took : \E i \in 1 .. 6 : i < task.step /\ t = Cascade[i]
    BY DEF NamingInvariant, AccumulatedOK
  <1>8. \A t \in task.took : Rank(t) < task.step
    BY <1>7, RankIs
  <1>9. Rank(s) = task.step
    BY <1>1, RankIs
  <1>10. AccumulatedOK'
    <2>1. CASE name # Unset
      <3>1. /\ took = task.took \cup {s} /\ knew \subseteq took
            /\ acc.via = s /\ acc.patch["product_name"] = name
        BY <1>6, <1>7, <2>1
      <3>2. \A t \in took : Rank(t) <= Rank(s)
        BY <1>1, <1>8, <1>9, <3>1, RankIs, <1>7
      <3>3. \A t \in took : \E i \in 1 .. 6 : i < task.step + 1 /\ t = Cascade[i]
        BY <1>1, <1>7, <3>1
      <3>4. s \notin task.knew
        <4>1. task.step \in Int
          BY <1>1
        <4> QED
          BY <1>7, <1>8, <1>9, <4>1
      <3>5. name \in Titles[s] \/ (s \notin knew /\ GoesByDirectory(s, task.app))
        BY <1>4, <2>1, <3>4
      <3> HIDE DEF s, knew, took
      <3> QED
        BY <1>5, <2>1, <3>1, <3>2, <3>3, <3>5 DEF AccumulatedOK, Deserved
    <2>2. CASE name = Unset
      <3>1. /\ knew = task.knew /\ took = task.took /\ acc.via = task.acc.via
            /\ acc.patch["product_name"] = task.acc.patch["product_name"]
        BY <1>4, <1>6, <2>2
      <3>2. \A t \in task.took : \E i \in 1 .. 6 : i < task.step + 1 /\ t = Cascade[i]
        BY <1>1, <1>7
      <3> HIDE DEF s, knew, took
      <3> QED
        BY <1>5, <3>1, <3>2 DEF NamingInvariant, AccumulatedOK, Deserved
    <2> QED
      BY <2>1, <2>2
  <1> HIDE DEF knew, took, s
  <1>11. TaskOK'
    BY <1>1, <1>3, <1>5 DEF TaskOK
  <1>12. RowsOK'
    BY <1>1, <1>5 DEF NamingInvariant, RowsOK, NamedByTheStrongest
  <1> QED
    BY <1>10, <1>11, <1>12 DEF NamingInvariant

LEMMA UpdateIdentityNames ==
  ASSUME NamingInvariant, UpdateIdentity
  PROVE  NamingInvariant'
  <1>1. /\ task.state = "cascade" /\ lastId' = lastId
        /\ rows' = [i \in DOMAIN rows |-> IF i = 1 /\ ~ IsEmpty(task.acc)
                                          THEN Patched(rows[i], task.acc) ELSE rows[i]]
    BY DEF UpdateIdentity
  <1>2. task' = [state |-> "ended", app |-> task.app, step |-> task.step, acc |-> task.acc,
                 knew |-> task.knew, took |-> task.took]
    BY DEF UpdateIdentity, NamingInvariant, TaskOK
  <1>3. \A i \in DOMAIN rows : rows[i].name = Provisional /\ rows[i].via = Unset
    BY <1>1 DEF NamingInvariant, RowsOK, NamedByTheStrongest
  <1>4. DOMAIN rows' = DOMAIN rows /\ \A i \in DOMAIN rows : i # 1 => rows'[i] = rows[i]
    BY <1>1
  <1>5. \A row : /\ Patched(row, task.acc).name = Or(task.acc.patch["product_name"], row.name)
                 /\ Patched(row, task.acc).via = Or(task.acc.via, row.via)
    BY DEF Patched
  <1>6. TaskOK' /\ AccumulatedOK' /\ task.knew \subseteq task.took
    BY <1>1, <1>2 DEF NamingInvariant, TaskOK, AccumulatedOK, Deserved
  <1>7. CASE task.took = {}
    <2>1. task.acc.via = Unset /\ task.acc.patch["product_name"] = Unset
      BY <1>7 DEF NamingInvariant, AccumulatedOK
    <2>2. 1 \in DOMAIN rows => rows'[1].name = rows[1].name /\ rows'[1].via = rows[1].via
      BY <1>1, <1>5, <2>1 DEF Or
    <2>3. NamedByTheStrongest'
      BY <1>2, <1>3, <1>4, <1>6, <1>7, <2>2 DEF NamedByTheStrongest
    <2> QED
      BY <1>1, <1>2, <1>4, <1>6, <2>3 DEF NamingInvariant, RowsOK
  <1>8. CASE task.took # {}
    <2>1. /\ task.acc.via \in task.took
          /\ \A s \in task.took : Rank(s) <= Rank(task.acc.via)
          /\ task.acc.patch["product_name"] # Unset
          /\ Deserved(task.acc.patch["product_name"], task.acc.via)
      BY <1>8 DEF NamingInvariant, AccumulatedOK
    <2>2. task.acc.via # Unset
      BY <2>1, CascadeIs DEF NamingInvariant, AccumulatedOK
    <2>3. ~ IsEmpty(task.acc)
      BY <2>1 DEF IsEmpty, NoPatch, Field
    <2>4. 1 \in DOMAIN rows => /\ rows'[1].name = task.acc.patch["product_name"]
                               /\ rows'[1].via = task.acc.via
      BY <1>1, <1>5, <2>1, <2>2, <2>3 DEF Or
    <2>5. NamedByTheStrongest'
      BY <1>2, <1>3, <1>4, <1>6, <1>8, <2>1, <2>4 DEF NamedByTheStrongest, Deserved
    <2> QED
      BY <1>1, <1>2, <1>4, <1>6, <2>5 DEF NamingInvariant, RowsOK
  <1> QED
    BY <1>7, <1>8

LEMMA RowsComeAndGo ==
  ASSUME NamingInvariant, Merge \/ StartAgain
  PROVE  NamingInvariant'
  <1>1. task' = task
    BY DEF Merge, StartAgain
  <1>2. TaskOK' /\ AccumulatedOK'
    <2>1. TaskOK'
      BY <1>1 DEF NamingInvariant, TaskOK
    <2>2. AccumulatedOK'
      BY <1>1 DEF NamingInvariant, AccumulatedOK, Deserved
    <2> QED
      BY <2>1, <2>2
  <1>3. CASE Merge
    <2>1. DOMAIN rows' = {} /\ lastId' = lastId
      BY <1>3 DEF Merge
    <2> QED
      BY <1>1, <1>2, <2>1 DEF NamingInvariant, RowsOK, NamedByTheStrongest
  <1>4. CASE StartAgain
    <2>1. lastId = 1 /\ lastId' = 2 /\ DOMAIN rows' = {2} /\ rows'[2] = Fresh
      BY <1>4 DEF StartAgain
    <2> QED
      BY <1>1, <1>2, <2>1, FreshIs DEF NamingInvariant, RowsOK, NamedByTheStrongest
  <1> QED
    BY <1>3, <1>4

(* Where each source names its own game if it has it, whatever it takes of *)
(* the directories if it has not, an application carries the name of the   *)
(* strongest source that had one, or the one its window had, and no source *)
(* that knows the game is overruled by a weaker one: build_patch and       *)
(* update_identity, session_manager.rs:391-405, merges and crashes between *)
(* them included.                                                          *)
THEOREM StrongestNames ==
  ASSUME SourcesNameTheirOwn
  PROVE  IdentifySpec => []NamedByTheStrongest
  <1>1. TypeOK /\ NamingInvariant /\ [IdentifyNext]_allVars => NamingInvariant'
    <2> SUFFICES ASSUME TypeOK, NamingInvariant, [IdentifyNext]_allVars
                 PROVE  NamingInvariant'
      OBVIOUS
    <2>1. CASE (World /\ UNCHANGED identifyVars) \/ (Read /\ UNCHANGED identifyVars)
               \/ UNCHANGED allVars
      BY <2>1, StillNames DEF allVars
    <2>2. CASE Start
      BY <2>2, StartNames
    <2>3. CASE ReadApplication
      <3>1. /\ task.state = "spawned" /\ UNCHANGED <<rows, lastId>>
            /\ task' = [task EXCEPT !.state = IF 1 \in DOMAIN rows THEN "cascade" ELSE "ended"]
        BY <2>3 DEF ReadApplication
      <3>2. CASE 1 \in DOMAIN rows
        <4>1. task' = [task EXCEPT !.state = "cascade"]
          BY <3>1, <3>2
        <4> QED
          BY <3>1, <4>1, TaskMovesOn
      <3>3. CASE 1 \notin DOMAIN rows
        <4>1. task' = [task EXCEPT !.state = "ended"]
          BY <3>1, <3>3
        <4> QED
          BY <3>1, <3>3, <4>1, TaskMovesOn
      <3> QED
        BY <3>2, <3>3
    <2>4. CASE Consult
      BY <2>4, ConsultNames
    <2>5. CASE UpdateIdentity
      BY <2>5, UpdateIdentityNames
    <2>6. CASE Merge \/ StartAgain
      BY <2>6, RowsComeAndGo
    <2>7. CASE Crash
      BY <2>7, TaskMovesOn DEF Crash
    <2> QED
      BY <2>1, <2>2, <2>3, <2>4, <2>5, <2>6, <2>7 DEF IdentifyNext
  <1>2. NamingInvariant => NamedByTheStrongest
    BY DEF NamingInvariant, RowsOK
  <1> QED
    BY <1>1, <1>2, InitNames, TypesHold, PTL DEF IdentifySpec
=============================================================================
