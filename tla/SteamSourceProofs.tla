------------------------- MODULE SteamSourceProofs -------------------------
(***************************************************************************)
(* That the Steam source follows the client's log, for every set of games, *)
(* every size of a pass and every number of lines and rotations: TypeOK    *)
(* and FollowsSteam of SteamSource.tla.                                    *)
(***************************************************************************)
EXTENDS SteamSource, SequenceTheorems, FiniteSums

-----------------------------------------------------------------------------
(* Lines in a sequence of halves. *)

LEMMA SameLinesSaySame ==
  ASSUME NEW s, NEW t, NEW m, NEW n, NEW a, NEW truth,
         LinesAbout(t, n, a) = LinesAbout(s, m, a),
         \A i \in LinesAbout(s, m, a) : t[i].run = s[i].run,
         LastSays(s, m, a, truth)
  PROVE  LastSays(t, n, a, truth)
  BY DEF LastSays

(* What is the last line still is when the ones before it are read. *)
LEMMA LastSaysLater ==
  ASSUME NEW s, NEW m \in Nat, NEW n \in Nat, m <= n, NEW a, NEW truth,
         Len(s) \in Nat, LastSays(s, m, a, truth)
  PROVE  LastSays(s, n, a, truth)
  <1>1. \A i \in LinesAbout(s, n, a) :
          /\ i \in LinesAbout(s, m, a)
          /\ \A j \in LinesAbout(s, m, a) : j \in LinesAbout(s, n, a) \/ j <= i
    BY DEF LinesAbout
  <1> QED
    BY <1>1 DEF LastSays

(* t is the part of s after its first u halves. *)
IsPart(t, s, u) ==
  /\ Len(s) \in Nat /\ u \in Nat /\ Len(t) \in Nat /\ u + Len(t) <= Len(s)
  /\ \A i \in 1 .. Len(t) : t[i] = s[u + i]

LEMMA LinesOfPart ==
  ASSUME NEW t, NEW s, NEW u, IsPart(t, s, u), NEW a, NEW i
  PROVE  i \in LinesAbout(t, 0, a)
           <=> i \in 1 .. Len(t) /\ u + i \in LinesAbout(s, u, a)
  BY DEF IsPart, LinesAbout

LEMMA PartSays ==
  ASSUME NEW t, NEW s, NEW u, IsPart(t, s, u), NEW a, NEW truth, LastSays(s, u, a, truth),
         LinesAbout(s, u + Len(t), a) = {}
  PROVE  /\ LastSays(t, 0, a, truth)
         /\ LinesAbout(t, 0, a) = {} => LinesAbout(s, u, a) = {}
  <1>1. \A j \in LinesAbout(s, u, a) :
          j \in Int /\ j - u \in 1 .. Len(t) /\ u + (j - u) = j /\ j - u \in LinesAbout(t, 0, a)
    BY DEF IsPart, LinesAbout
  <1>2. \A i \in LinesAbout(t, 0, a) :
          i \in 1 .. Len(t) /\ u + i \in LinesAbout(s, u, a) /\ t[i] = s[u + i]
    BY LinesOfPart DEF IsPart
  <1>3. ASSUME NEW i \in LinesAbout(t, 0, a), \A j \in LinesAbout(t, 0, a) : j <= i
        PROVE  t[i].run <=> truth
    <2>1. \A j \in LinesAbout(s, u, a) : j <= u + i
      BY <1>1, <1>2, <1>3 DEF IsPart
    <2>2. s[u + i].run <=> truth
      BY <1>2, <2>1 DEF LastSays
    <2> QED
      BY <1>2, <2>2
  <1> QED
    BY <1>1, <1>3 DEF LastSays

-----------------------------------------------------------------------------
(* The client's steps. *)

LEMMA LaunchOrExitKeeps ==
  ASSUME InductiveInvariant, NEW b \in App, LaunchOrExit(b)
  PROVE  InductiveInvariant'
  <1>1. /\ b \in alive <=> b \in logged
        /\ \A a : a # b => (a \in alive' <=> a \in alive)
        /\ UNCHANGED <<logged, log, written, rotations, at, running, cursor, chunk, told,
                      stale, lost>>
    BY DEF LaunchOrExit, sourceVars
  <1>2. \A a \in App : UpToDate(a) => UpToDate(a)'
    BY <1>1 DEF UpToDate
  <1>3. \A a \in App : WillFollow(a) => WillFollow(a)'
    BY <1>1, <1>2 DEF WillFollow, Unread, Reached
  <1>4. alive' \subseteq App
    BY DEF InductiveInvariant, TypeOK, LaunchOrExit
  <1>5. TypeOK' /\ ToldWhatRuns' /\ ChunkEndsALine' /\ CursorInLog' /\ Paired(log)' /\ Paired(chunk.lines)'
    BY <1>1, <1>4 DEF InductiveInvariant, TypeOK, ToldWhatRuns, ChunkEndsALine, CursorInLog,
       Reading, Reached
  <1>6. NothingMissed'
    BY <1>1, <1>2, <1>3 DEF InductiveInvariant, NothingMissed, Reading
  <1> QED
    BY <1>5, <1>6 DEF InductiveInvariant

(* t is s and what was appended to it. *)
Grows(s, t) ==
  /\ Len(s) \in Nat /\ Len(t) \in Nat /\ Len(s) <= Len(t)
  /\ \A i \in 1 .. Len(s) : t[i] = s[i]

(* What was appended begins no line about a. *)
SilentOn(s, t, a) ==
  \A i \in Len(s) + 1 .. Len(t) : ~ (t[i].part = "head" /\ t[i].app = a)

LEMMA SilenceAddsNoLine ==
  ASSUME NEW s, NEW t, Grows(s, t), NEW n \in Nat, NEW a, SilentOn(s, t, a)
  PROVE  LinesAbout(t, n, a) = LinesAbout(s, n, a)
  BY DEF LinesAbout, Grows, SilentOn

LEMMA SilenceSaysTheSame ==
  ASSUME NEW s, NEW t, Grows(s, t), NEW n \in Nat, NEW a, SilentOn(s, t, a),
         NEW truth, LastSays(s, n, a, truth)
  PROVE  LastSays(t, n, a, truth)
  <1>1. \A i \in LinesAbout(s, n, a) : t[i].run = s[i].run
    BY DEF LinesAbout, Grows
  <1> QED
    BY <1>1, SilenceAddsNoLine, SameLinesSaySame

LEMMA UnreadIsInLog ==
  ASSUME InductiveInvariant, Reading
  PROVE  Unread \in Nat /\ Unread <= Len(log)
  BY LenProperties DEF InductiveInvariant, TypeOK, CursorInLog, Reading, Unread, Reached

(* A log that grows without a word on a leaves what a source that will     *)
(* follow a has to read.                                                   *)
LEMMA SilenceIsFollowed ==
  ASSUME InductiveInvariant, Reading, NEW a, WillFollow(a),
         Grows(log, log'), SilentOn(log, log', a),
         a \in logged' <=> a \in logged, a \in alive' <=> a \in alive,
         UNCHANGED <<at, running, cursor, chunk, stale>>
  PROVE  WillFollow(a)'
  <1>1. Unread' = Unread /\ Unread \in Nat
    BY UnreadIsInLog DEF Unread, Reached
  <1>2. LinesAbout(log', Unread, a) = LinesAbout(log, Unread, a)
    BY <1>1, SilenceAddsNoLine
  <1>3. LastSays(log', Unread, a, a \in logged)
    BY <1>1, SilenceSaysTheSame DEF WillFollow
  <1>4. UpToDate(a) => UpToDate(a)'
    BY DEF UpToDate
  <1> QED
    BY <1>1, <1>2, <1>3, <1>4 DEF WillFollow, LastSays

-----------------------------------------------------------------------------
LEMMA FinishLineKeeps ==
  ASSUME InductiveInvariant, FinishLine
  PROVE  InductiveInvariant'
  <1> DEFINE tail == [Last(log) EXCEPT !.part = "tail"]
  <1>1. /\ log # << >> /\ log[Len(log)].part = "head"
        /\ log' = Append(log, tail)
        /\ UNCHANGED <<alive, logged, written, rotations, at, running, cursor, chunk, told,
                      stale, lost>>
    BY DEF FinishLine, HalfWritten, Last, sourceVars
  <1>2. log \in Seq(HalfLine) /\ Len(log) \in Nat \ {0}
    BY <1>1, EmptySeq DEF InductiveInvariant, TypeOK
  <1>3. log[Len(log)] \in HalfLine
    BY <1>2, ElementOfSeq
  <1>4. tail \in HalfLine /\ tail.part = "tail"
    BY <1>3 DEF HalfLine, Last
  <1>5. tail = [log[Len(log)] EXCEPT !.part = "tail"]
    BY DEF Last
  <1> HIDE DEF tail
  <1>6. /\ log' \in Seq(HalfLine) /\ Len(log') = Len(log) + 1
        /\ \A i \in 1 .. Len(log) : log'[i] = log[i]
        /\ log'[Len(log) + 1] = tail
    BY <1>1, <1>2, <1>4, AppendProperties
  <1>7. Paired(log')
    <2> SUFFICES ASSUME NEW i \in 1 .. Len(log), log[i].part = "head"
                 PROVE  log'[i + 1] = [log[i] EXCEPT !.part = "tail"]
      BY <1>2, <1>6 DEF Paired
    <2>1. CASE i = Len(log)
      BY <1>5, <1>6, <2>1
    <2>2. CASE i # Len(log)
      BY <1>2, <1>6, <2>2 DEF InductiveInvariant, Paired
    <2> QED
      BY <2>1, <2>2
  <1>8. Grows(log, log') /\ \A a : SilentOn(log, log', a)
    BY <1>2, <1>4, <1>6 DEF Grows, SilentOn
  <1>9. \A a \in App : WillFollow(a) /\ Reading => WillFollow(a)'
    BY <1>1, <1>8, SilenceIsFollowed
  <1>10. TypeOK' /\ ToldWhatRuns' /\ ChunkEndsALine' /\ CursorInLog' /\ Paired(chunk.lines)'
    BY <1>1, <1>2, <1>6 DEF InductiveInvariant, TypeOK, ToldWhatRuns, ChunkEndsALine,
       CursorInLog, Reading, Reached
  <1>11. NothingMissed'
    BY <1>1, <1>9 DEF InductiveInvariant, NothingMissed, Reading, UpToDate
  <1> QED
    BY <1>7, <1>10, <1>11 DEF InductiveInvariant

(* A line is written, or the beginning of one. *)
Begins(s, t, head) ==
  /\ Grows(s, t)
  /\ Len(t) \in {Len(s) + 1, Len(s) + 2}
  /\ t[Len(s) + 1] = head
  /\ Len(t) = Len(s) + 2 => t[Len(s) + 2] = [head EXCEPT !.part = "tail"]

LEMMA PairAppended ==
  ASSUME NEW s \in Seq(HalfLine), NEW line \in Seq(HalfLine), Len(line) = 2
  PROVE  /\ s \o line \in Seq(HalfLine) /\ Len(s \o line) = Len(s) + 2
         /\ \A i \in 1 .. Len(s) : (s \o line)[i] = s[i]
         /\ (s \o line)[Len(s) + 1] = line[1] /\ (s \o line)[Len(s) + 2] = line[2]
  <1>1. /\ s \o line \in Seq(HalfLine) /\ Len(s \o line) = Len(s) + Len(line)
        /\ \A i \in 1 .. Len(s) + Len(line) : (s \o line)[i] =
                     IF i <= Len(s) THEN s[i] ELSE line[i - Len(s)]
    BY ConcatProperties
  <1>2. Len(s) \in Nat
    BY LenProperties
  <1> QED
    BY <1>1, <1>2

LEMMA WritingBegins ==
  ASSUME NEW s \in Seq(HalfLine), NEW head \in HalfLine, NEW tail \in HalfLine,
         tail = [head EXCEPT !.part = "tail"],
         NEW t \in {s \o <<head>>, s \o <<head, tail>>}
  PROVE  t \in Seq(HalfLine) /\ Begins(s, t, head)
  <1>1. <<head>> \in Seq(HalfLine) /\ <<head, tail>> \in Seq(HalfLine)
    OBVIOUS
  <1>2. /\ Len(<<head>>) = 1 /\ Len(<<head, tail>>) = 2
        /\ <<head>>[1] = head /\ <<head, tail>>[1] = head /\ <<head, tail>>[2] = tail
    OBVIOUS
  <1>3. /\ Len(s) \in Nat
        /\ Len(s) + 1 - Len(s) = 1 /\ Len(s) + 2 - Len(s) = 2
        /\ ~ (Len(s) + 1 <= Len(s)) /\ ~ (Len(s) + 2 <= Len(s))
        /\ Len(s) + 1 \in 1 .. Len(s) + 2 /\ Len(s) + 2 \in 1 .. Len(s) + 2
        /\ Len(s) + 1 \in 1 .. Len(s) + 1
    BY LenProperties
  <1>4. CASE t = s \o <<head>>
    <2>1. /\ t \in Seq(HalfLine) /\ Len(t) = Len(s) + 1
          /\ \A i \in 1 .. Len(s) + 1 : t[i] = IF i <= Len(s) THEN s[i] ELSE <<head>>[i - Len(s)]
      BY <1>1, <1>2, <1>4, ConcatProperties
    <2>2. t[Len(s) + 1] = head
      BY <1>2, <1>3, <2>1
    <2>3. \A i \in 1 .. Len(s) : t[i] = s[i]
      BY <1>3, <2>1
    <2> QED
      BY <1>3, <2>1, <2>2, <2>3 DEF Begins, Grows
  <1>5. CASE t = s \o <<head, tail>>
    <2> DEFINE line == <<head, tail>>
    <2>1. line \in Seq(HalfLine) /\ Len(line) = 2 /\ line[1] = head /\ line[2] = tail
      BY <1>1, <1>2
    <2>2. t = s \o line
      BY <1>5
    <2> HIDE DEF line
    <2>3. /\ t \in Seq(HalfLine) /\ Len(t) = Len(s) + 2
          /\ \A i \in 1 .. Len(s) : t[i] = s[i]
          /\ t[Len(s) + 1] = head /\ t[Len(s) + 2] = tail
      BY <2>1, <2>2, PairAppended
    <2> QED
      BY <1>3, <2>3 DEF Begins, Grows
  <1> QED
    BY <1>4, <1>5

LEMMA BegunSaysIt ==
  ASSUME NEW s, NEW t, NEW head \in HalfLine, Begins(s, t, head), head.part = "head",
         NEW n \in Nat, n <= Len(s)
  PROVE  /\ LinesAbout(t, n, head.app) # {}
         /\ LastSays(t, n, head.app, head.run)
  <1>1. Len(s) + 1 \in LinesAbout(t, n, head.app)
    BY DEF Begins, Grows, LinesAbout
  <1>2. \A i \in LinesAbout(t, n, head.app) :
          i \in Nat /\ (i > Len(s) => i = Len(s) + 1)
    <2>1. [head EXCEPT !.part = "tail"].part = "tail"
      BY DEF HalfLine
    <2>2. Len(t) = Len(s) + 2 => t[Len(s) + 2].part = "tail"
      BY <2>1 DEF Begins
    <2> SUFFICES ASSUME NEW i \in n + 1 .. Len(t), t[i].part = "head", i > Len(s)
                 PROVE  i = Len(s) + 1
      BY DEF LinesAbout
    <2>3. Len(s) \in Nat /\ Len(t) \in {Len(s) + 1, Len(s) + 2}
      BY DEF Begins, Grows
    <2> QED
      BY <2>2, <2>3
  <1>3. t[Len(s) + 1].run = head.run
    BY DEF Begins
  <1>4. Len(s) \in Nat
    BY DEF Begins, Grows
  <1> QED
    BY <1>1, <1>2, <1>3, <1>4 DEF LastSays

LEMMA BegunIsPaired ==
  ASSUME NEW s, NEW t, NEW head, Begins(s, t, head), Paired(s), Len(s) \in Nat,
         s # << >> => s[Len(s)].part # "head"
  PROVE  Paired(t)
  <1> SUFFICES ASSUME NEW i \in 1 .. Len(t) - 1, t[i].part = "head"
               PROVE  t[i + 1] = [t[i] EXCEPT !.part = "tail"]
    BY DEF Paired
  <1>1. Len(t) \in Nat /\ \A k \in 1 .. Len(s) : t[k] = s[k]
    BY DEF Begins, Grows
  <1>2. CASE i < Len(s)
    <2>1. i \in 1 .. Len(s) - 1 /\ i \in 1 .. Len(s) /\ i + 1 \in 1 .. Len(s)
      BY <1>2
    <2>2. t[i] = s[i] /\ t[i + 1] = s[i + 1]
      BY <1>1, <2>1
    <2> QED
      BY <2>1, <2>2 DEF Paired
  <1>3. CASE i = Len(s)
    <2>1. s # << >>
      BY <1>3, EmptySeq
    <2>2. t[i] = s[i]
      BY <1>1, <1>3
    <2> QED
      BY <1>3, <2>1, <2>2
  <1>4. CASE i > Len(s)
    <2>1. i = Len(s) + 1 /\ i + 1 = Len(s) + 2 /\ Len(t) = Len(s) + 2
      BY <1>1, <1>4 DEF Begins
    <2> QED
      BY <2>1 DEF Begins
  <1> QED
    BY <1>2, <1>3, <1>4

LEMMA WriteLineKeeps ==
  ASSUME InductiveInvariant, NEW b \in App, WriteLine(b)
  PROVE  InductiveInvariant'
  <1> DEFINE head == Half(b, b \in alive, "head")
             tail == Half(b, b \in alive, "tail")
  <1>1. /\ ~ HalfWritten
        /\ written < MaxWritten /\ written' = written + 1
        /\ log' \in {log \o <<head>>, log \o <<head, tail>>}
        /\ logged' = IF b \in alive THEN logged \cup {b} ELSE logged \ {b}
        /\ lost' = (lost \/ at = "scanned")
        /\ UNCHANGED <<alive, rotations, at, running, cursor, chunk, told, stale>>
    BY DEF WriteLine, sourceVars
  <1>2. log \in Seq(HalfLine) /\ Len(log) \in Nat
    BY LenProperties DEF InductiveInvariant, TypeOK
  <1>3. /\ head \in HalfLine /\ tail \in HalfLine /\ tail = [head EXCEPT !.part = "tail"]
        /\ head.app = b /\ (head.run <=> b \in alive) /\ head.part = "head"
        /\ tail.part = "tail"
    <2>1. (b \in alive) \in BOOLEAN
      OBVIOUS
    <2>2. head \in HalfLine /\ tail \in HalfLine
      BY <2>1 DEF Half, HalfLine
    <2>3. tail = [head EXCEPT !.part = "tail"]
      BY DEF Half
    <2>4. head.app = b /\ head.part = "head" /\ tail.part = "tail"
      BY DEF Half
    <2>5. head.run <=> b \in alive
      BY DEF Half
    <2> QED
      BY <2>2, <2>3, <2>4, <2>5
  <1> HIDE DEF head, tail
  <1>4. log' \in Seq(HalfLine) /\ Begins(log, log', head)
    BY <1>1, <1>2, <1>3, WritingBegins
  <1>5. Paired(log')
    BY <1>1, <1>2, <1>4, BegunIsPaired DEF InductiveInvariant, HalfWritten, Last
  <1>6. ASSUME NEW a \in App, WillFollow(a), Reading
        PROVE  WillFollow(a)'
    <2>1. CASE a = b
      <3>1. Unread' = Unread /\ Unread \in Nat /\ Unread <= Len(log)
        BY <1>1, <1>6, UnreadIsInLog DEF Unread, Reached
      <3>2. LinesAbout(log', Unread, b) # {} /\ LastSays(log', Unread, b, head.run)
        BY <1>4, <1>3, <3>1, BegunSaysIt
      <3>3. b \in logged' <=> b \in alive
        BY <1>1
      <3> QED
        BY <1>3, <2>1, <3>1, <3>2, <3>3 DEF WillFollow, LastSays
    <2>2. CASE a # b
      <3>1. Grows(log, log') /\ SilentOn(log, log', a)
        <4>1. Len(log') = Len(log) + 2 => log'[Len(log) + 2].part = "tail"
          BY <1>4, <1>3 DEF Begins
        <4>2. log'[Len(log) + 1].app = b
          BY <1>4, <1>3 DEF Begins
        <4>3. Grows(log, log') /\ Len(log') \in {Len(log) + 1, Len(log) + 2}
          BY <1>4 DEF Begins
        <4> QED
          BY <1>2, <2>2, <4>1, <4>2, <4>3 DEF SilentOn
      <3>2. (a \in logged' <=> a \in logged) /\ (a \in alive' <=> a \in alive)
        BY <1>1, <2>2
      <3> QED
        BY <1>1, <1>6, <3>1, <3>2, SilenceIsFollowed
    <2> QED
      BY <2>1, <2>2
  <1>7. Len(log') \in Nat /\ Len(log) <= Len(log')
    BY <1>4 DEF Begins, Grows
  <1>8. TypeOK'
    BY <1>1, <1>4, SteamAssumption DEF InductiveInvariant, TypeOK
  <1>9. ToldWhatRuns' /\ ChunkEndsALine' /\ CursorInLog' /\ Paired(chunk.lines)'
    BY <1>1, <1>2, <1>7 DEF InductiveInvariant, TypeOK, ToldWhatRuns, ChunkEndsALine,
       CursorInLog, Reading, Reached
  <1>10. NothingMissed'
    BY <1>1, <1>6 DEF InductiveInvariant, NothingMissed, Reading
  <1> QED
    BY <1>5, <1>8, <1>9, <1>10 DEF InductiveInvariant

LEMMA TailOfHead ==
  ASSUME NEW a, NEW run
  PROVE  Half(a, run, "tail") = [Half(a, run, "head") EXCEPT !.part = "tail"]
  BY DEF Half

(* A line about something else is silent on every game. *)
LEMMA WriteOtherKeeps ==
  ASSUME InductiveInvariant, NEW o \in Other, WriteOther(o)
  PROVE  InductiveInvariant'
  <1> DEFINE head == Half(o, FALSE, "head")
             tail == Half(o, FALSE, "tail")
  <1>1. /\ ~ HalfWritten
        /\ written < MaxWritten /\ written' = written + 1
        /\ log' \in {log \o <<head>>, log \o <<head, tail>>}
        /\ UNCHANGED <<alive, logged, rotations, at, running, cursor, chunk, told, stale, lost>>
    BY DEF WriteOther, sourceVars
  <1>2. log \in Seq(HalfLine) /\ Len(log) \in Nat
    BY LenProperties DEF InductiveInvariant, TypeOK
  <1>3. /\ head \in HalfLine /\ tail \in HalfLine /\ tail = [head EXCEPT !.part = "tail"]
        /\ head.app = o /\ tail.part = "tail"
    <2>1. head \in HalfLine /\ tail \in HalfLine
      BY DEF Half, HalfLine
    <2>2. tail = [head EXCEPT !.part = "tail"]
      BY TailOfHead
    <2>3. head.app = o /\ tail.part = "tail"
      BY DEF Half
    <2> QED
      BY <2>1, <2>2, <2>3
  <1> HIDE DEF head, tail
  <1>4. log' \in Seq(HalfLine) /\ Begins(log, log', head)
    BY <1>1, <1>2, <1>3, WritingBegins
  <1>5. Paired(log')
    BY <1>1, <1>2, <1>4, BegunIsPaired DEF InductiveInvariant, HalfWritten, Last
  <1>6. ASSUME NEW a \in App, WillFollow(a), Reading
        PROVE  WillFollow(a)'
    <2>1. Len(log') = Len(log) + 2 => log'[Len(log) + 2].part = "tail"
      BY <1>4, <1>3 DEF Begins
    <2>2. log'[Len(log) + 1].app # a
      BY <1>4, <1>3, SteamAssumption DEF Begins
    <2>3. Grows(log, log') /\ Len(log') \in {Len(log) + 1, Len(log) + 2}
      BY <1>4 DEF Begins
    <2>4. SilentOn(log, log', a)
      BY <1>2, <2>1, <2>2, <2>3 DEF SilentOn
    <2> QED
      BY <1>1, <1>6, <2>3, <2>4, SilenceIsFollowed
  <1>7. Len(log') \in Nat /\ Len(log) <= Len(log')
    BY <1>4 DEF Begins, Grows
  <1>8. TypeOK'
    BY <1>1, <1>4, SteamAssumption DEF InductiveInvariant, TypeOK
  <1>9. ToldWhatRuns' /\ ChunkEndsALine' /\ CursorInLog' /\ Paired(chunk.lines)'
    BY <1>1, <1>2, <1>7 DEF InductiveInvariant, TypeOK, ToldWhatRuns, ChunkEndsALine,
       CursorInLog, Reading, Reached
  <1>10. NothingMissed'
    BY <1>1, <1>6 DEF InductiveInvariant, NothingMissed, Reading, UpToDate
  <1> QED
    BY <1>5, <1>8, <1>9, <1>10 DEF InductiveInvariant

(* Not to lose a line, the source has read the log that is rotated away. *)
LEMMA RotateKeeps ==
  ASSUME InductiveInvariant, Rotate, at # "down"
  PROVE  InductiveInvariant'
  <1>1. /\ rotations < MaxRotations /\ rotations' = rotations + 1 /\ log' = << >>
        /\ lost' = (lost \/ (at \in {"loop", "applying"} /\ (stale \/ Reached < Len(log))))
        /\ stale' = (at \in {"loop", "applying"} /\ Reached > 0)
        /\ UNCHANGED <<alive, logged, written, at, running, cursor, chunk, told>>
    BY DEF Rotate, sourceVars
  <1>2. log' \in Seq(HalfLine) /\ Len(log') = 0 /\ \A n \in Nat, a \in App : LinesAbout(log', n, a) = {}
    <2>1. log' \in Seq(HalfLine) /\ Len(log') = 0
      BY <1>1, EmptySeq
    <2> QED
      BY <2>1 DEF LinesAbout
  <1>3. Len(log) \in Nat /\ Reached \in Nat
    BY LenProperties DEF InductiveInvariant, TypeOK, Reached
  <1>4. ASSUME NEW a \in App, at \in {"loop", "applying"}, ~ lost'
        PROVE  WillFollow(a)'
    <2>1. ~ lost /\ ~ stale /\ ~ (Reached < Len(log))
      BY <1>1, <1>4
    <2>2. Reached = Len(log)
      BY <1>3, <1>4, <2>1 DEF InductiveInvariant, CursorInLog, Reading
    <2>3. WillFollow(a)
      BY <1>4, <2>1 DEF InductiveInvariant, NothingMissed, Reading
    <2>4. LinesAbout(log, Unread, a) = {}
      BY <1>3, <2>1, <2>2 DEF Unread, LinesAbout
    <2>5. Unread' \in Nat
      BY <1>1, <1>3 DEF Unread, Reached
    <2>6. LinesAbout(log', Unread', a) = {}
      BY <1>2, <2>5
    <2> QED
      BY <1>1, <2>3, <2>4, <2>6 DEF WillFollow, LastSays, UpToDate
  <1>5. Paired(log') /\ Paired(chunk.lines)'
    BY <1>1, <1>2 DEF InductiveInvariant, Paired
  <1>6. TypeOK'
    BY <1>1, <1>2, SteamAssumption DEF InductiveInvariant, TypeOK
  <1>7. ToldWhatRuns' /\ ChunkEndsALine'
    BY <1>1 DEF InductiveInvariant, ToldWhatRuns, ChunkEndsALine
  <1>8. CursorInLog'
    <2>1. at \in {"loop", "applying"} /\ ~ stale' => ~ (Reached > 0)
      BY <1>1
    <2>2. stale' => at \in {"loop", "applying"}
      BY <1>1
    <2>3. Reached' = Reached /\ (Reading' => at \in {"loop", "applying"})
      BY <1>1 DEF Reading, Reached
    <2> QED
      BY <1>1, <1>2, <1>3, <2>1, <2>2, <2>3 DEF CursorInLog, Reading
  <1>9. NothingMissed'
    <2>1. lost => lost'
      BY <1>1
    <2> QED
      BY <1>1, <1>4, <2>1 DEF InductiveInvariant, NothingMissed, Reading, UpToDate
  <1> QED
    BY <1>5, <1>6, <1>7, <1>8, <1>9 DEF InductiveInvariant

-----------------------------------------------------------------------------
(* The source's steps. *)

LEMMA ColdStartScanKeeps ==
  ASSUME InductiveInvariant, ColdStartScan
  PROVE  InductiveInvariant'
  <1>1. PICK live \in SUBSET App :
          /\ running' = live
          /\ told' = [a \in App |-> IF a \in live THEN 1 ELSE 0]
          /\ lost' = (live # alive)
    BY DEF ColdStartScan, InductiveInvariant, TypeOK
  <1>2. at = "boot" /\ at' = "scanned"
        /\ UNCHANGED <<alive, logged, log, written, rotations, cursor, chunk, stale>>
    BY DEF ColdStartScan, clientVars
  <1>3. lost' \in BOOLEAN /\ (~ lost' => live = alive)
    BY <1>1
  <1>4. TypeOK'
    BY <1>1, <1>2, <1>3 DEF InductiveInvariant, TypeOK
  <1>5. ToldWhatRuns' /\ ChunkEndsALine'
    BY <1>1, <1>2 DEF InductiveInvariant, ToldWhatRuns, ChunkEndsALine
  <1>6. CursorInLog' /\ NothingMissed'
    BY <1>1, <1>2, <1>3 DEF InductiveInvariant, CursorInLog, NothingMissed, Reading, UpToDate
  <1>7. Paired(log') /\ Paired(chunk.lines)'
    BY <1>2 DEF InductiveInvariant
  <1> QED
    BY <1>4, <1>5, <1>6, <1>7 DEF InductiveInvariant

LEMMA NothingInNoChunk ==
  ASSUME NEW a
  PROVE  LinesAbout(<< >>, 0, a) = {}
  BY EmptySeq DEF LinesAbout

LEMMA SetCursorKeeps ==
  ASSUME InductiveInvariant, SetCursor
  PROVE  InductiveInvariant'
  <1>1. /\ at = "scanned" /\ at' = "loop" /\ cursor' = Len(log)
        /\ UNCHANGED <<alive, logged, log, written, rotations, running, chunk, told, stale, lost>>
    BY DEF SetCursor, clientVars
  <1>2. Len(log) \in Nat
    BY LenProperties DEF InductiveInvariant, TypeOK
  <1>3. ~ stale /\ chunk.lines = << >>
    BY <1>1 DEF InductiveInvariant, CursorInLog, ChunkEndsALine, Reading
  <1>4. ASSUME NEW a \in App, ~ lost PROVE WillFollow(a)'
    <2>1. Unread' = Len(log)
      BY <1>1, <1>3 DEF Unread, Reached
    <2>2. LinesAbout(log, Len(log), a) = {}
      BY <1>2 DEF LinesAbout
    <2>3. LinesAbout(chunk.lines, 0, a) = {}
      BY <1>3, NothingInNoChunk
    <2>4. UpToDate(a)'
      BY <1>1, <1>4 DEF InductiveInvariant, NothingMissed, UpToDate
    <2> QED
      BY <1>1, <2>1, <2>2, <2>3, <2>4 DEF WillFollow, LastSays
  <1>5. TypeOK' /\ ToldWhatRuns' /\ ChunkEndsALine' /\ Paired(log') /\ Paired(chunk.lines)'
    BY <1>1, <1>2, <1>3 DEF InductiveInvariant, TypeOK, ToldWhatRuns, ChunkEndsALine
  <1>6. CursorInLog'
    BY <1>1, <1>2 DEF CursorInLog, Reading, Reached
  <1>7. NothingMissed'
    BY <1>1, <1>4 DEF NothingMissed
  <1> QED
    BY <1>5, <1>6, <1>7 DEF InductiveInvariant

(* A step that leaves everything a game's fate hangs on. *)
LEMMA NothingReadIsFollowed ==
  ASSUME NEW a, WillFollow(a), Unread' = Unread, chunk'.lines = chunk.lines,
         UNCHANGED <<alive, logged, log, running>>
  PROVE  WillFollow(a)'
  BY DEF WillFollow, UpToDate

LEMMA FinishDrainKeeps ==
  ASSUME InductiveInvariant, FinishDrain
  PROVE  InductiveInvariant'
  <1>1. /\ at = "applying" /\ at' = "loop" /\ cursor' = chunk.next /\ chunk' = NoChunk
        /\ chunk.lines = << >>
        /\ UNCHANGED <<alive, logged, log, written, rotations, running, told, stale, lost>>
    BY DEF FinishDrain, clientVars
  <1>2. NoChunk.lines = << >> /\ NoChunk \in [lines : Seq(HalfLine), next : Nat]
    BY EmptySeq DEF NoChunk
  <1>3. Reached' = Reached /\ Unread' = Unread
    BY <1>1 DEF Reached, Unread
  <1>4. \A a \in App : WillFollow(a) => WillFollow(a)'
    BY <1>1, <1>2, <1>3, NothingReadIsFollowed
  <1>5. TypeOK' /\ ToldWhatRuns' /\ ChunkEndsALine' /\ Paired(log') /\ Paired(chunk.lines)'
    BY <1>1, <1>2 DEF InductiveInvariant, TypeOK, ToldWhatRuns, ChunkEndsALine
  <1>6. CursorInLog' /\ NothingMissed'
    BY <1>1, <1>3, <1>4 DEF InductiveInvariant, CursorInLog, NothingMissed, Reading
  <1> QED
    BY <1>5, <1>6 DEF InductiveInvariant

LEMMA ShutdownKeeps ==
  ASSUME InductiveInvariant, Shutdown
  PROVE  InductiveInvariant'
  <1>1. /\ at = "loop" /\ at' = "down"
        /\ UNCHANGED <<alive, logged, log, written, rotations, running, cursor, chunk, told,
                      stale, lost>>
    BY DEF Shutdown, clientVars
  <1>2. Reached' = Reached /\ Unread' = Unread
    BY <1>1 DEF Reached, Unread
  <1>3. \A a \in App : WillFollow(a) => WillFollow(a)'
    BY <1>1, <1>2, NothingReadIsFollowed
  <1>4. TypeOK' /\ ToldWhatRuns' /\ ChunkEndsALine' /\ Paired(log') /\ Paired(chunk.lines)'
    BY <1>1 DEF InductiveInvariant, TypeOK, ToldWhatRuns, ChunkEndsALine
  <1>5. CursorInLog' /\ NothingMissed'
    BY <1>1, <1>2, <1>3 DEF InductiveInvariant, CursorInLog, NothingMissed, Reading
  <1> QED
    BY <1>4, <1>5 DEF InductiveInvariant

-----------------------------------------------------------------------------
(* A pass over the log. *)

LEMMA MaxBelow ==
  ASSUME NEW n \in Nat, NEW T \in SUBSET (0 .. n), T # {}
  PROVE  Max(T) \in T
  <1>1. PICK k \in {n - m : m \in T} : \A j \in {n - m : m \in T} : k <= j
    <2>1. \A m \in T : n - m \in Nat
      OBVIOUS
    <2>2. {n - m : m \in T} \in SUBSET Nat /\ {n - m : m \in T} # {}
      BY <2>1, Zenon
    <2> QED
      BY <2>2, LeastNatural
  <1>2. PICK m \in T : k = n - m
    BY <1>1
  <1>3. \A y \in T : m >= y
    <2>1. \A y \in T : k <= n - y
      BY <1>1
    <2> QED
      BY <1>2, <2>1
  <1> QED
    BY <1>3, Zenon DEF Max

LEMMA MinOfPair ==
  ASSUME NEW x \in Int, NEW y \in Int
  PROVE  Min({x, y}) \in {x, y} /\ Min({x, y}) <= x /\ Min({x, y}) <= y
  <1>1. \E z \in {x, y} : \A w \in {x, y} : z <= w
    OBVIOUS
  <1>2. Min({x, y}) \in {x, y} /\ \A w \in {x, y} : Min({x, y}) <= w
    BY <1>1, Zenon DEF Min
  <1> QED
    BY <1>2

LEMMA TerminatedEndsALine ==
  ASSUME NEW w \in Seq(HalfLine)
  PROVE  /\ Terminated(w) \in 0 .. Len(w)
         /\ Terminated(w) # 0 => w[Terminated(w)].part = "tail"
  <1> DEFINE T == {0} \cup {i \in 1 .. Len(w) : w[i].part = "tail"}
  <1>1. Len(w) \in Nat /\ T \in SUBSET (0 .. Len(w)) /\ T # {}
    BY LenProperties
  <1>2. Max(T) \in T
    <2> HIDE DEF T
    <2> QED
      BY <1>1, MaxBelow
  <1>3. Terminated(w) = Max(T)
    BY DEF Terminated
  <1> QED
    BY <1>2, <1>3

LEMMA WindowIsPart ==
  ASSUME InductiveInvariant
  PROVE  /\ Rewound \in 0 .. Len(log)
         /\ Window \in Seq(HalfLine)
         /\ Rewound + Len(Window) <= Len(log)
         /\ \A i \in 1 .. Len(Window) : Window[i] = log[Rewound + i]
  <1> DEFINE end == Min({Len(log), Rewound + MaxDrain})
  <1>1. log \in Seq(HalfLine) /\ Len(log) \in Nat /\ cursor \in Nat
    BY LenProperties DEF InductiveInvariant, TypeOK
  <1>2. Rewound \in 0 .. Len(log)
    BY <1>1 DEF Rewound
  <1>3. end \in Int /\ end <= Len(log) /\ end >= Rewound
    <2>1. Len(log) \in Int /\ Rewound + MaxDrain \in Int
      BY <1>1, <1>2, SteamAssumption
    <2>2. end \in {Len(log), Rewound + MaxDrain} /\ end <= Len(log)
      BY <2>1, MinOfPair
    <2> HIDE DEF end
    <2> QED
      BY <1>1, <1>2, <2>2, SteamAssumption
  <1>4. Window = SubSeq(log, Rewound + 1, end)
    BY DEF Window
  <1> HIDE DEF end
  <1>5. \A i \in Rewound + 1 .. end : log[i] \in HalfLine
    BY <1>1, <1>2, <1>3, ElementOfSeq
  <1>6. /\ SubSeq(log, Rewound + 1, end) \in Seq(HalfLine)
        /\ Len(SubSeq(log, Rewound + 1, end)) =
             IF Rewound + 1 <= end THEN end - (Rewound + 1) + 1 ELSE 0
        /\ \A i \in 1 .. end - (Rewound + 1) + 1 :
             SubSeq(log, Rewound + 1, end)[i] = log[Rewound + 1 + i - 1]
    BY <1>2, <1>3, <1>5, SubSeqProperties
  <1> QED
    BY <1>1, <1>2, <1>3, <1>4, <1>6

(* The lines a pass takes: a part of the log that ends a line. *)
LEMMA PassIsPart ==
  ASSUME InductiveInvariant, Complete # << >>
  PROVE  /\ Complete \in Seq(HalfLine) /\ Len(Complete) \in Nat \ {0}
         /\ IsPart(Complete, log, Rewound)
         /\ Complete[Len(Complete)].part = "tail"
  <1> DEFINE n == Terminated(Window)
  <1>1. /\ Window \in Seq(HalfLine) /\ Len(Window) \in Nat
        /\ Rewound \in 0 .. Len(log) /\ Len(log) \in Nat
        /\ Rewound + Len(Window) <= Len(log)
        /\ \A i \in 1 .. Len(Window) : Window[i] = log[Rewound + i]
    BY WindowIsPart, LenProperties DEF InductiveInvariant, TypeOK
  <1>2. n \in 0 .. Len(Window) /\ (n # 0 => Window[n].part = "tail")
    BY <1>1, TerminatedEndsALine
  <1>3. \A i \in 1 .. n : Window[i] \in HalfLine
    BY <1>1, <1>2, ElementOfSeq
  <1>4. /\ SubSeq(Window, 1, n) \in Seq(HalfLine)
        /\ Len(SubSeq(Window, 1, n)) = IF 1 <= n THEN n - 1 + 1 ELSE 0
        /\ \A i \in 1 .. n - 1 + 1 : SubSeq(Window, 1, n)[i] = Window[1 + i - 1]
    BY <1>2, <1>3, SubSeqProperties
  <1>5. Complete = SubSeq(Window, 1, n)
    BY DEF Complete
  <1> HIDE DEF n
  <1>6. /\ Complete \in Seq(HalfLine) /\ Len(Complete) = n
        /\ \A i \in 1 .. n : Complete[i] = Window[i]
    BY <1>2, <1>4, <1>5
  <1>7. n # 0
    BY <1>6, EmptySeq
  <1>8. n \in Nat \ {0} /\ n <= Len(Window) /\ Complete[n].part = "tail"
    BY <1>1, <1>2, <1>6, <1>7
  <1>9. IsPart(Complete, log, Rewound)
    <2>1. Rewound \in Nat /\ Rewound + n <= Len(log)
      BY <1>1, <1>8
    <2>2. \A i \in 1 .. n : Complete[i] = log[Rewound + i]
      <3>1. \A i \in 1 .. n : i \in 1 .. Len(Window)
        BY <1>1, <1>8
      <3>2. \A i \in 1 .. n : Complete[i] = Window[i] /\ Window[i] = log[Rewound + i]
        BY <1>1, <1>6, <3>1, Zenon
      <3> QED
        BY <3>2, Zenon
    <2> QED
      BY <1>1, <1>6, <1>8, <2>1, <2>2 DEF IsPart
  <1> QED
    BY <1>6, <1>8, <1>9

LEMMA PartIsPaired ==
  ASSUME NEW s, NEW t, NEW u, IsPart(t, s, u), Paired(s)
  PROVE  Paired(t)
  <1> SUFFICES ASSUME NEW i \in 1 .. Len(t) - 1, t[i].part = "head"
               PROVE  t[i + 1] = [t[i] EXCEPT !.part = "tail"]
    BY DEF Paired
  <1>1. /\ u + i \in 1 .. Len(s) - 1 /\ u + (i + 1) = (u + i) + 1
        /\ i \in 1 .. Len(t) /\ i + 1 \in 1 .. Len(t)
    BY DEF IsPart
  <1>2. t[i] = s[u + i] /\ t[i + 1] = s[u + (i + 1)]
    BY <1>1 DEF IsPart
  <1>3. s[(u + i) + 1] = [s[u + i] EXCEPT !.part = "tail"]
    BY <1>1, <1>2 DEF Paired
  <1> QED
    BY <1>1, <1>2, <1>3

(* Not to lose a line, the source goes on where it has to. *)
LEMMA ReadsOn ==
  ASSUME InductiveInvariant, ReadLog, ~ lost'
  PROVE  ~ lost /\ Rewound = Unread
  <1>1. at = "loop" /\ lost' = (lost \/ (stale /\ Len(log) >= cursor))
    BY DEF ReadLog
  <1>2. ~ lost /\ (stale => ~ (Len(log) >= cursor))
    BY <1>1
  <1>3. Len(log) \in Nat /\ cursor \in Nat /\ Reached = cursor
    BY <1>1, LenProperties DEF InductiveInvariant, TypeOK, Reached
  <1>4. ~ stale => cursor <= Len(log)
    BY <1>1, <1>3 DEF InductiveInvariant, CursorInLog, Reading
  <1> QED
    BY <1>2, <1>3, <1>4 DEF Rewound, Unread

LEMMA ReadLogKeeps ==
  ASSUME InductiveInvariant, ReadLog
  PROVE  InductiveInvariant'
  <1> DEFINE deferred == Complete = << >> \/ NotText(Complete)
             n == Len(Complete)
  <1>1. /\ at = "loop" /\ ~ stale' /\ stale' \in BOOLEAN /\ lost' \in BOOLEAN
        /\ UNCHANGED <<alive, logged, log, written, rotations, running, told>>
    BY DEF ReadLog, clientVars
  <1>2. chunk.lines = << >>
    BY <1>1 DEF InductiveInvariant, ChunkEndsALine
  <1>3. Rewound \in Nat /\ Rewound <= Len(log) /\ Len(log) \in Nat
    BY WindowIsPart, LenProperties DEF InductiveInvariant, TypeOK
  <1>4. Paired(log') /\ ToldWhatRuns'
    BY <1>1 DEF InductiveInvariant, ToldWhatRuns
  <1>5. ASSUME NEW a \in App, ~ lost'
        PROVE  WillFollow(a) /\ Rewound = Unread
    BY <1>1, <1>5, ReadsOn DEF InductiveInvariant, NothingMissed, Reading
  <1>6. CASE deferred
    <2>1. cursor' = Rewound /\ UNCHANGED <<at, chunk>>
      BY <1>6 DEF ReadLog
    <2>2. Reached' = Rewound /\ Unread' = Rewound
      BY <1>1, <2>1 DEF Reached, Unread
    <2>3. TypeOK' /\ ChunkEndsALine' /\ CursorInLog' /\ Paired(chunk.lines)'
      BY <1>1, <1>2, <1>3, <2>1, <2>2
      DEF InductiveInvariant, TypeOK, ChunkEndsALine, CursorInLog, Reading
    <2>4. \A a \in App : ~ lost' => WillFollow(a)'
      BY <1>1, <1>5, <2>1, <2>2, NothingReadIsFollowed
    <2>5. NothingMissed'
      BY <1>1, <2>1, <2>4 DEF NothingMissed
    <2> QED
      BY <1>4, <2>3, <2>5 DEF InductiveInvariant
  <1>7. CASE ~ deferred
    <2> DEFINE lines == Complete
    <2>1. /\ at' = "applying" /\ cursor' = cursor
          /\ chunk' = [lines |-> lines, next |-> Rewound + n]
      BY <1>7 DEF ReadLog
    <2>2. /\ lines \in Seq(HalfLine) /\ n \in Nat /\ Len(lines) = n
          /\ IsPart(lines, log, Rewound) /\ lines[n].part = "tail"
      BY <1>7, PassIsPart
    <2> HIDE DEF lines, n
    <2>3. chunk'.lines = lines /\ chunk'.next = Rewound + n
      BY <2>1
    <2>4. Rewound + n <= Len(log) /\ Rewound + n \in Nat
      BY <1>3, <2>2 DEF IsPart
    <2>5. Reached' = Rewound + n /\ Unread' = Rewound + n
      BY <1>1, <2>1, <2>3 DEF Reached, Unread
    <2>6. TypeOK'
      BY <1>1, <2>1, <2>2, <2>4 DEF InductiveInvariant, TypeOK
    <2>7. ChunkEndsALine'
      BY <2>1, <2>2, <2>3 DEF ChunkEndsALine, Last
    <2>8. CursorInLog'
      BY <1>1, <2>1, <2>4, <2>5 DEF CursorInLog, Reading
    <2>9. Paired(chunk'.lines)
      BY <2>2, <2>3, PartIsPaired DEF InductiveInvariant
    <2>10. ASSUME NEW a \in App, ~ lost' PROVE WillFollow(a)'
      <3>1. WillFollow(a) /\ Rewound = Unread
        BY <1>5, <2>10
      <3>2. LastSays(log, Rewound, a, a \in logged)
        BY <3>1 DEF WillFollow
      <3>3. LastSays(log, Rewound + n, a, a \in logged)
        BY <1>3, <2>4, <2>2, <3>2, LastSaysLater
      <3>4. ASSUME LinesAbout(log, Rewound + n, a) = {}
            PROVE  /\ LastSays(lines, 0, a, a \in logged)
                   /\ LinesAbout(lines, 0, a) = {} => UpToDate(a)
        <4>1. /\ LastSays(lines, 0, a, a \in logged)
              /\ LinesAbout(lines, 0, a) = {} => LinesAbout(log, Rewound, a) = {}
          BY <2>2, <3>2, <3>4, PartSays
        <4>2. LinesAbout(chunk.lines, 0, a) = {}
          BY <1>2, NothingInNoChunk
        <4> QED
          BY <3>1, <4>1, <4>2 DEF WillFollow
      <3>5. UpToDate(a) => UpToDate(a)'
        BY <1>1 DEF UpToDate
      <3> QED
        BY <1>1, <2>3, <2>5, <3>3, <3>4, <3>5 DEF WillFollow
    <2>11. NothingMissed'
      BY <2>1, <2>10 DEF NothingMissed
    <2> QED
      BY <1>4, <2>6, <2>7, <2>8, <2>9, <2>11 DEF InductiveInvariant
  <1> QED
    BY <1>6, <1>7

-----------------------------------------------------------------------------
(* A turn of the loop. *)

LEMMA ReportingALine ==
  ASSUME ToldWhatRuns, told \in [App -> 0..1], running \subseteq App,
         NEW line \in HalfLine, Report(line)
  PROVE  /\ running' \subseteq App /\ told' \in [App -> 0..1] /\ ToldWhatRuns'
         /\ line.app \in App => (line.app \in running' <=> line.run)
         /\ \A a \in App : a # line.app => (a \in running' <=> a \in running)
  <1>1. line.run \in BOOLEAN
    BY DEF HalfLine
  <1>2. CASE line.app \in App /\ line.run /\ line.app \notin running
    <2>1. running' = running \cup {line.app} /\ told' = [told EXCEPT ![line.app] = @ + 1]
      BY <1>2 DEF Report
    <2> QED
      BY <1>1, <1>2, <2>1 DEF ToldWhatRuns
  <1>3. CASE ~ line.run /\ line.app \in running
    <2>1. running' = running \ {line.app} /\ told' = [told EXCEPT ![line.app] = @ - 1]
      BY <1>3 DEF Report
    <2> QED
      BY <1>1, <1>3, <2>1 DEF ToldWhatRuns
  <1>4. CASE line.app \notin App \/ (line.run <=> line.app \in running)
    <2>1. UNCHANGED <<running, told>>
      BY <1>4 DEF Report
    <2> QED
      BY <1>1, <1>4, <2>1 DEF ToldWhatRuns
  <1> QED
    BY <1>1, <1>2, <1>3, <1>4

(* The halves one turn takes off: a line that is read from its beginning,  *)
(* or the end of one that is not.                                          *)
Taken == IF chunk.lines[1].part = "head" THEN 2 ELSE 1

LEMMA TakingALine ==
  ASSUME InductiveInvariant, ApplyLine
  PROVE  /\ chunk.lines \in Seq(HalfLine) /\ Taken \in 1 .. Len(chunk.lines)
         /\ chunk' = [chunk EXCEPT !.lines = SubSeq(@, Taken + 1, Len(@))]
         /\ chunk.lines[1].part = "head" =>
              /\ Report(chunk.lines[2]) /\ chunk.lines[2] \in HalfLine
              /\ chunk.lines[2].app = chunk.lines[1].app
              /\ chunk.lines[2].run = chunk.lines[1].run
              /\ chunk.lines[2].part = "tail"
         /\ chunk.lines[1].part # "head" => UNCHANGED <<running, told>>
  <1> DEFINE halves == chunk.lines
  <1>1. /\ halves \in Seq(HalfLine) /\ halves # << >> /\ Paired(halves)
        /\ Last(halves).part = "tail"
    BY DEF InductiveInvariant, TypeOK, ChunkEndsALine, ApplyLine
  <1>2. Len(halves) \in Nat \ {0}
    BY <1>1, EmptySeq
  <1>3. halves[1].part = "head" => Len(halves) > 1
    BY <1>1, <1>2 DEF Last
  <1>4. halves[1] \in HalfLine
    BY <1>1, <1>2, ElementOfSeq
  <1> DEFINE whole == halves[1].part = "head" /\ Len(halves) > 1
  <1>5. /\ IF whole THEN Report(halves[2]) ELSE UNCHANGED <<running, told>>
        /\ chunk' = [chunk EXCEPT !.lines = SubSeq(@, (IF whole THEN 2 ELSE 1) + 1, Len(@))]
    BY Zenon DEF ApplyLine
  <1>6. CASE halves[1].part = "head"
    <2>1. Report(halves[2]) /\ chunk' = [chunk EXCEPT !.lines = SubSeq(@, 3, Len(@))]
      <3>1. whole /\ 2 + 1 = 3
        BY <1>3, <1>6
      <3> QED
        BY <1>5, <3>1
    <2>2. halves[2] = [halves[1] EXCEPT !.part = "tail"]
      <3>1. 1 \in 1 .. Len(halves) - 1 /\ 1 + 1 = 2
        BY <1>2, <1>3, <1>6
      <3> QED
        BY <1>1, <1>6, <3>1 DEF Paired
    <2>3. halves[2] \in HalfLine
      BY <1>4, <2>2 DEF HalfLine
    <2>4. /\ halves[2].app = halves[1].app /\ halves[2].run = halves[1].run
          /\ halves[2].part = "tail"
      BY <1>4, <2>2 DEF HalfLine
    <2> QED
      BY <1>1, <1>2, <1>3, <1>6, <2>1, <2>3, <2>4 DEF Taken
  <1>7. CASE halves[1].part # "head"
    <2>1. UNCHANGED <<running, told>> /\ chunk' = [chunk EXCEPT !.lines = SubSeq(@, 2, Len(@))]
      <3>1. ~ whole /\ 1 + 1 = 2
        BY <1>7
      <3> QED
        BY <1>5, <3>1
    <2> QED
      BY <1>1, <1>2, <1>7, <2>1 DEF Taken
  <1> QED
    BY <1>6, <1>7

LEMMA WhatIsLeftIsPart ==
  ASSUME InductiveInvariant, ApplyLine
  PROVE  /\ chunk' \in [lines : Seq(HalfLine), next : Nat] /\ chunk'.next = chunk.next
         /\ IsPart(chunk'.lines, chunk.lines, Taken)
         /\ Taken + Len(chunk'.lines) = Len(chunk.lines)
  <1> DEFINE halves == chunk.lines
             rest == SubSeq(halves, Taken + 1, Len(halves))
  <1>1. /\ chunk \in [lines : Seq(HalfLine), next : Nat]
        /\ halves \in Seq(HalfLine) /\ Taken \in 1 .. Len(halves) /\ Len(halves) \in Nat
        /\ chunk' = [chunk EXCEPT !.lines = rest]
    BY TakingALine, LenProperties DEF InductiveInvariant, TypeOK
  <1>2. \A i \in Taken + 1 .. Len(halves) : halves[i] \in HalfLine
    BY <1>1, ElementOfSeq
  <1>3. Taken \in Int /\ Taken + 1 \in Int /\ Len(halves) \in Int
    BY <1>1
  <1>4. /\ rest \in Seq(HalfLine)
        /\ Len(rest) = IF Taken + 1 <= Len(halves) THEN Len(halves) - (Taken + 1) + 1 ELSE 0
        /\ \A i \in 1 .. Len(halves) - (Taken + 1) + 1 : rest[i] = halves[Taken + 1 + i - 1]
    <2> HIDE DEF halves
    <2> QED
      BY <1>2, <1>3, SubSeqProperties
  <1> HIDE DEF halves, rest
  <1>5. chunk' \in [lines : Seq(HalfLine), next : Nat] /\ chunk'.next = chunk.next /\ chunk'.lines = rest
    BY <1>1, <1>4
  <1>6. Len(rest) = Len(halves) - Taken
    BY <1>1, <1>3, <1>4
  <1>7. \A i \in 1 .. Len(rest) : rest[i] = halves[Taken + i]
    BY <1>1, <1>3, <1>4, <1>6
  <1>8. Len(rest) \in Nat /\ Taken \in Nat
    BY <1>1, <1>3, <1>6
  <1> QED
    BY <1>1, <1>5, <1>6, <1>7, <1>8 DEF IsPart, halves

(* What one turn does to the running set: nothing to any game but the one  *)
(* whose line it was, and to that one what the line says.                  *)
LEMMA TurnReports ==
  ASSUME InductiveInvariant, ApplyLine
  PROVE  /\ running' \subseteq App /\ told' \in [App -> 0..1] /\ ToldWhatRuns'
         /\ \A a \in App :
              LinesAbout(chunk.lines, Taken, a) = {} =>
                \/ LinesAbout(chunk.lines, 0, a) = {} /\ (a \in running' <=> a \in running)
                \/ /\ LinesAbout(chunk.lines, 0, a) = {1}
                   /\ a \in running' <=> chunk.lines[1].run
  <1> DEFINE halves == chunk.lines
  <1>1. ToldWhatRuns /\ told \in [App -> 0..1] /\ running \subseteq App
    BY DEF InductiveInvariant, TypeOK
  <1>2. halves \in Seq(HalfLine) /\ Taken \in 1 .. Len(halves) /\ Len(halves) \in Nat
    BY TakingALine, LenProperties
  <1>3. ASSUME NEW a, LinesAbout(halves, Taken, a) = {}
        PROVE  LinesAbout(halves, 0, a) = {i \in 1 .. Taken : halves[i].part = "head" /\ halves[i].app = a}
    BY <1>2, <1>3 DEF LinesAbout
  <1>4. CASE halves[1].part = "head"
    <2>1. /\ Report(halves[2]) /\ halves[2] \in HalfLine
          /\ halves[2].app = halves[1].app /\ halves[2].run = halves[1].run
          /\ halves[2].part = "tail"
      BY <1>4, TakingALine
    <2>2. /\ running' \subseteq App /\ told' \in [App -> 0..1] /\ ToldWhatRuns'
          /\ halves[1].app \in App => (halves[1].app \in running' <=> halves[1].run)
          /\ \A a \in App : a # halves[1].app => (a \in running' <=> a \in running)
      <3> HIDE DEF halves
      <3> QED
        BY <1>1, <2>1, ReportingALine
    <2>3. Taken = 2
      BY <1>4 DEF Taken
    <2>4. ASSUME NEW a \in App, LinesAbout(halves, Taken, a) = {}
          PROVE  LinesAbout(halves, 0, a) = IF a = halves[1].app THEN {1} ELSE {}
      <3>1. 1 .. Taken = {1, 2}
        BY <2>3
      <3>2. LinesAbout(halves, 0, a) =
              {i \in {1, 2} : halves[i].part = "head" /\ halves[i].app = a}
        BY <1>3, <2>4, <3>1
      <3>3. halves[2].part # "head"
        BY <2>1
      <3> HIDE DEF halves
      <3> QED
        BY <1>4, <3>2, <3>3, Zenon
    <2> QED
      BY <2>2, <2>4
  <1>5. CASE halves[1].part # "head"
    <2>1. UNCHANGED <<running, told>>
      BY <1>5, TakingALine
    <2>2. Taken = 1
      BY <1>5 DEF Taken
    <2>3. ASSUME NEW a \in App, LinesAbout(halves, Taken, a) = {}
          PROVE  LinesAbout(halves, 0, a) = {}
      BY <1>3, <1>5, <2>2, <2>3
    <2>4. ToldWhatRuns'
      BY <1>1, <2>1 DEF ToldWhatRuns
    <2> QED
      BY <1>1, <2>1, <2>3, <2>4
  <1> QED
    BY <1>4, <1>5

LEMMA ApplyLineKeeps ==
  ASSUME InductiveInvariant, ApplyLine
  PROVE  InductiveInvariant'
  <1>1. /\ at = "applying" /\ chunk.lines # << >>
        /\ UNCHANGED <<alive, logged, log, written, rotations, at, cursor, stale, lost>>
    BY DEF ApplyLine, clientVars
  <1>2. /\ chunk' \in [lines : Seq(HalfLine), next : Nat] /\ chunk'.next = chunk.next
        /\ IsPart(chunk'.lines, chunk.lines, Taken)
        /\ Taken + Len(chunk'.lines) = Len(chunk.lines)
    BY WhatIsLeftIsPart
  <1>3. Reached' = Reached /\ Unread' = Unread
    BY <1>1, <1>2 DEF Reached, Unread
  <1>4. Taken \in Nat /\ Len(chunk.lines) \in Nat
    BY <1>2 DEF IsPart
  <1>5. TypeOK' /\ ToldWhatRuns'
    BY <1>1, <1>2, TurnReports DEF InductiveInvariant, TypeOK
  <1>6. Paired(log') /\ Paired(chunk'.lines)
    BY <1>1, <1>2, PartIsPaired DEF InductiveInvariant
  <1>7. ChunkEndsALine'
    <2> SUFFICES ASSUME chunk'.lines # << >> PROVE Last(chunk'.lines).part = "tail"
      BY <1>1 DEF ChunkEndsALine
    <2>1. Len(chunk'.lines) \in Nat \ {0}
      BY <1>2, EmptySeq
    <2>2. chunk'.lines[Len(chunk'.lines)] = chunk.lines[Len(chunk.lines)]
      BY <1>2, <2>1 DEF IsPart
    <2> QED
      BY <1>1, <2>2 DEF InductiveInvariant, ChunkEndsALine, Last
  <1>8. CursorInLog'
    BY <1>1, <1>3 DEF InductiveInvariant, CursorInLog, Reading
  <1>9. ASSUME NEW a \in App, WillFollow(a) PROVE WillFollow(a)'
    <2>1. ASSUME LinesAbout(log, Unread, a) = {}
          PROVE  /\ LastSays(chunk'.lines, 0, a, a \in logged)
                 /\ LinesAbout(chunk'.lines, 0, a) = {} => UpToDate(a)'
      <3>1. /\ LastSays(chunk.lines, 0, a, a \in logged)
            /\ LinesAbout(chunk.lines, 0, a) = {} => UpToDate(a)
        BY <1>9, <2>1 DEF WillFollow
      <3>2. LastSays(chunk.lines, Taken, a, a \in logged)
        BY <1>4, <3>1, LastSaysLater
      <3>3. LinesAbout(chunk.lines, Taken + Len(chunk'.lines), a) = {}
        BY <1>2, <1>4 DEF LinesAbout
      <3>4. /\ LastSays(chunk'.lines, 0, a, a \in logged)
            /\ LinesAbout(chunk'.lines, 0, a) = {} => LinesAbout(chunk.lines, Taken, a) = {}
        BY <1>2, <3>2, <3>3, PartSays
      <3>5. ASSUME LinesAbout(chunk.lines, Taken, a) = {}
            PROVE  UpToDate(a)'
        <4>1. CASE LinesAbout(chunk.lines, 0, a) = {} /\ (a \in running' <=> a \in running)
          BY <1>1, <3>1, <4>1 DEF UpToDate
        <4>2. CASE LinesAbout(chunk.lines, 0, a) = {1} /\ (a \in running' <=> chunk.lines[1].run)
          <5>1. chunk.lines[1].run <=> a \in logged
            BY <3>1, <4>2 DEF LastSays
          <5> QED
            BY <1>1, <4>2, <5>1 DEF UpToDate
        <4> QED
          BY <3>5, <4>1, <4>2, TurnReports
      <3> QED
        BY <3>4, <3>5
    <2> QED
      BY <1>1, <1>3, <1>9, <2>1 DEF WillFollow
  <1>10. NothingMissed'
    BY <1>1, <1>9 DEF InductiveInvariant, NothingMissed, Reading
  <1> QED
    BY <1>5, <1>6, <1>7, <1>8, <1>10 DEF InductiveInvariant

-----------------------------------------------------------------------------
(* The theorems. *)

LEMMA InitSteam == Init => InductiveInvariant
  <1> SUFFICES ASSUME Init PROVE InductiveInvariant
    OBVIOUS
  <1>1. log = << >> /\ chunk.lines = << >> /\ << >> \in Seq(HalfLine) /\ Len(<< >>) = 0
    BY EmptySeq DEF Init, NoChunk
  <1>2. chunk \in [lines : Seq(HalfLine), next : Nat]
    BY <1>1 DEF Init, NoChunk
  <1>3. TypeOK
    <2>1. log \in Seq(HalfLine) /\ 0 \in 0 .. MaxWritten /\ 0 \in 0 .. MaxRotations
      BY <1>1, SteamAssumption
    <2>2. told \in [App -> 0..1]
      BY DEF Init
    <2> QED
      BY <1>2, <2>1, <2>2 DEF Init, TypeOK
  <1>4. ToldWhatRuns
    BY DEF Init, ToldWhatRuns
  <1>5. Paired(log) /\ Paired(chunk.lines)
    BY <1>1 DEF Paired
  <1>6. ChunkEndsALine /\ CursorInLog /\ NothingMissed
    BY <1>1 DEF Init, ChunkEndsALine, CursorInLog, NothingMissed, Reading
  <1> QED
    BY <1>3, <1>4, <1>5, <1>6 DEF InductiveInvariant

LEMMA StutterKeeps ==
  ASSUME InductiveInvariant, UNCHANGED vars
  PROVE  InductiveInvariant'
  <1>1. UNCHANGED <<alive, logged, log, written, rotations, at, running, cursor, chunk, told,
                    stale, lost>>
    BY DEF vars, clientVars, sourceVars
  <1>2. Unread' = Unread /\ Reached' = Reached /\ (Reading' <=> Reading)
    BY <1>1 DEF Unread, Reached, Reading
  <1>3. \A a \in App : (WillFollow(a) => WillFollow(a)') /\ (UpToDate(a) => UpToDate(a)')
    BY <1>1, <1>2, NothingReadIsFollowed DEF UpToDate
  <1> QED
    BY <1>1, <1>2, <1>3
    DEF InductiveInvariant, TypeOK, ToldWhatRuns, ChunkEndsALine, CursorInLog, NothingMissed

LEMMA NextKeeps ==
  ASSUME InductiveInvariant, Next
  PROVE  InductiveInvariant'
  <1>1. CASE at # "down" /\ Client
    BY <1>1, LaunchOrExitKeeps, WriteLineKeeps, WriteOtherKeeps, FinishLineKeeps, RotateKeeps DEF Client
  <1>2. CASE Source
    BY <1>2, ColdStartScanKeeps, SetCursorKeeps, ReadLogKeeps, ApplyLineKeeps, FinishDrainKeeps
    DEF Source
  <1>3. CASE Shutdown
    BY <1>3, ShutdownKeeps
  <1> QED
    BY <1>1, <1>2, <1>3 DEF Next

(* The invariant is inductive. *)
THEOREM InductiveInvariantHolds == Spec => []InductiveInvariant
  <1>1. InductiveInvariant /\ [Next]_vars => InductiveInvariant'
    BY NextKeeps, StutterKeeps
  <1> QED
    BY <1>1, InitSteam, PTL DEF Spec

(* The source's Started and Stopped events alternate, game by game         *)
(* (event.rs:10), and its state keeps its types.                           *)
THEOREM TypeCorrect == Spec => []TypeOK
  <1>1. InductiveInvariant => TypeOK
    BY DEF InductiveInvariant
  <1> QED
    BY <1>1, InductiveInvariantHolds, PTL

(* A source that has read all the client wrote, and lost no line of it,    *)
(* has announced exactly the games that run.                               *)
THEOREM FollowsSteamHolds == Spec => []FollowsSteam
  <1>1. InductiveInvariant => FollowsSteam
    <2> SUFFICES ASSUME InductiveInvariant, CaughtUp, ~ lost, NEW a \in App
                 PROVE  told[a] = 1 <=> a \in alive
      BY DEF FollowsSteam, Announced, InductiveInvariant, TypeOK
    <2>1. /\ at = "loop" /\ cursor = Len(log) /\ ~ stale /\ logged = alive
          /\ Len(log) \in Nat
      BY LenProperties DEF CaughtUp, InductiveInvariant, TypeOK
    <2>2. WillFollow(a) /\ Unread = Len(log)
      BY <2>1 DEF InductiveInvariant, NothingMissed, Reading, Unread, Reached
    <2>3. LinesAbout(log, Unread, a) = {}
      BY <2>1, <2>2 DEF LinesAbout
    <2>4. LinesAbout(chunk.lines, 0, a) = {}
      BY <2>1, NothingInNoChunk DEF InductiveInvariant, ChunkEndsALine
    <2>5. a \in running <=> a \in alive
      BY <2>1, <2>2, <2>3, <2>4 DEF WillFollow, UpToDate
    <2> QED
      BY <2>5 DEF InductiveInvariant, ToldWhatRuns
  <1> QED
    BY <1>1, InductiveInvariantHolds, PTL
=============================================================================
