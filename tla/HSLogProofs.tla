----------------------------- MODULE HSLogProofs -----------------------------
(***************************************************************************)
(* Proofs about HSLog, for every number of threads and every contents of   *)
(* the file of settings: its types, the discipline of the mutex, that the  *)
(* process exits for one reason only, that nothing is sent before the      *)
(* socket exists, and that a reload leaves the settings of the file.       *)
(***************************************************************************)
EXTENDS HSLog, TLAPS, SequenceTheorems, WellFoundedInduction

(* What the file says *)

\* A set of natural numbers has a least element.
LEMMA LeastNat ==
  ASSUME NEW T, T \subseteq Nat, T # {}
  PROVE  \E x \in T : \A y \in T : x <= y
<1> DEFINE R == OpToRel(<, Nat)
<1>1. IsWellFoundedOn(R, Nat)
  BY NatLessThanWellFounded
<1>2. \A x, y \in Nat : x < y => <<x, y>> \in R
  BY DEF OpToRel
<1> HIDE DEF R
<1>3. PICK x \in T : \A y \in T : <<y, x>> \notin R
  BY <1>1, WFMin
<1>4. \A y \in T : ~(y < x)
  BY <1>2, <1>3, Zenon
<1> QED BY <1>4

\* A line of the file has a name and a number.
LEMMA LineTyped ==
  ASSUME NEW content \in Seq(Names \X Int), NEW i \in DOMAIN content
  PROVE  content[i][1] \in Names /\ content[i][2] \in Int
<1>1. content[i] \in Names \X Int
  BY ElementOfSeq
<1> QED BY <1>1

\* If any line has the name, there is a last one: what hslog_parse_config is left
\* with is a number.
LEMMA SettingInt ==
  ASSUME NEW content \in Seq(Names \X Int), NEW name, NEW default \in Int
  PROVE  Setting(content, name, default) \in Int
<1> DEFINE Named   == {i \in DOMAIN content : content[i][1] = name}
           Last(i) == /\ content[i][1] = name
                      /\ \A j \in DOMAIN content : content[j][1] = name => j <= i
<1>1. CASE Named = {}
  BY <1>1 DEF Setting, Says
<1>2. CASE Named # {}
  <2> DEFINE n == Len(content)
             T == {n - i : i \in Named}
  <2>1. DOMAIN content = 1..n /\ n \in Nat
    BY LenProperties
  <2>2. T \subseteq Nat /\ T # {}
    BY <1>2, <2>1
  <2>3. PICK x \in T : \A y \in T : x <= y
    <3> HIDE DEF T
    <3> QED BY <2>2, LeastNat
  <2>4. PICK i \in Named : x = n - i
    BY <2>3
  <2>5. \A j \in Named : n - i <= n - j
    BY <2>3, <2>4
  <2>6. \A j \in Named : j <= i
    BY <2>1, <2>5
  <2>7. i \in DOMAIN content /\ Last(i)
    BY <2>6
  <2>8. \E k \in DOMAIN content : Last(k)
    BY <2>7
  <2>9. (CHOOSE k \in DOMAIN content : Last(k)) \in DOMAIN content
    <3> HIDE DEF Last
    <3> QED BY <2>8
  <2>10. content[CHOOSE k \in DOMAIN content : Last(k)][2] \in Int
    <3> HIDE DEF Last
    <3> QED BY <2>9, LineTyped
  <2>11. \E k \in DOMAIN content : content[k][1] = name
    BY <1>2
  <2> QED BY <2>10, <2>11 DEF Setting, Says
<1> QED BY <1>1, <1>2

LEMMA ModRange == \A a \in Int : \A n \in Nat \ {0} : a % n \in 0..(n - 1)
  OBVIOUS

\* What an unsigned short and a bit hold of a number.
LEMMA Widths == \A n \in Int : n % ShortMod \in 0..(ShortMod - 1) /\ n % 2 \in 0..1
<1>1. ShortMod \in Nat \ {0}
  BY DEF ShortMod
<1>2. \A n \in Int : n % 2 \in 0..1
  OBVIOUS
<1> QED BY <1>1, <1>2, ModRange

LEMMA DefaultsTyped == Defaults \in Settings
<1>1. 0 \in 0..(ShortMod - 1)
  BY DEF ShortMod
<1> QED BY <1>1 DEF Defaults, Settings

LEMMA EffectiveTyped == \A content \in Files : Effective(content) \in Settings
<1> TAKE content \in Files
<1>1. content \in Seq(Names \X Int)
  BY LogAssumption
<1>2. ASSUME NEW name PROVE Setting(content, name, 0) \in Int
  <2>1. 0 \in Int
    OBVIOUS
  <2> QED BY <1>1, <2>1, SettingInt
<1>3. /\ Setting(content, "LOGLEVEL", 0) % ShortMod \in 0..(ShortMod - 1)
      /\ Setting(content, "LOGFILELEVEL", 0) % ShortMod \in 0..(ShortMod - 1)
      /\ Setting(content, "LOGTOFILE", 0) % 2 \in 0..1
  BY <1>2, Widths
<1> QED BY <1>3 DEF Effective, Settings, Defaults

LEMMA ParsedTyped ==
  ASSUME NEW c \in Settings, NEW line \in Names \X Int
  PROVE  Parsed(c, line) \in Settings
<1>1. line[2] \in Int
  OBVIOUS
<1>2. Bit(line[2]) \in 0..1 /\ Short(line[2]) \in 0..(ShortMod - 1)
  BY <1>1, Widths DEF Bit, Short
<1>3. /\ [c EXCEPT !.level = Short(line[2])] \in Settings
      /\ [c EXCEPT !.fileLevel = Short(line[2])] \in Settings
      /\ [c EXCEPT !.toFile = Bit(line[2])] \in Settings
  BY <1>2 DEF Settings
<1> QED BY <1>3 DEF Parsed

-------------------------------------------------------------------------------
(* The type invariant *)

\* An event is appended to the queue as long as it is not full, and dropped otherwise.
LEMMA QueueTypeOK ==
  ASSUME TypeOK, NEW e \in {"close", "other"}, Queue(e)
  PROVE  /\ events' \in Queues
         /\ IF Queued THEN events' = Append(events, e) ELSE events' = events
<1> DEFINE Event == {"close", "other"}
<1>1. events \in Seq(Event) /\ Len(events) <= EventCap /\ Len(events) \in Nat
  BY LenProperties DEF TypeOK, Queues
<1> HIDE DEF Event
<1>2. Append(events, e) \in Seq(Event) /\ Len(Append(events, e)) = Len(events) + 1
  BY <1>1, AppendProperties DEF Event
<1>3. Queued => Len(events) + 1 <= EventCap
  BY <1>1, LogAssumption DEF Queued
<1> QED BY <1>1, <1>2, <1>3 DEF Queue, Queues, Event

LEMMA TailQueue ==
  ASSUME NEW q \in Queues, q # <<>>
  PROVE  Head(q) \in {"close", "other"} /\ Tail(q) \in Queues
<1> DEFINE Event == {"close", "other"}
<1>1. q \in Seq(Event) /\ Len(q) <= EventCap /\ Len(q) \in Nat
  BY LenProperties DEF Queues
<1> HIDE DEF Event
<1>2. Head(q) \in Event /\ Tail(q) \in Seq(Event) /\ Len(Tail(q)) = Len(q) - 1
  BY <1>1, HeadTailProperties
<1>3. Len(q) - 1 <= EventCap
  BY <1>1, LogAssumption
<1> QED BY <1>2, <1>3 DEF Queues, Event

LEMMA InitTypeOK == Init => TypeOK
<1> SUFFICES ASSUME Init PROVE TypeOK
  OBVIOUS
<1>1. cfg \in Settings
  BY DefaultsTyped DEF Init
<1>2. hslogLock \in Mutexes
  BY DEF Init, Free, Mutexes
<1>3. lines \in Seq(Names \X Int) /\ events \in Queues
  BY LogAssumption, EmptySeq DEF Init, Queues
<1>4. pc \in [Threads -> Positions]
  BY DEF Init, Positions
<1> QED BY <1>1, <1>2, <1>3, <1>4 DEF Init, TypeOK

\* What the threads in hslog do.
LEMMA LogTypeOK == \A t \in Threads : TypeOK /\ Log(t) => TypeOK'
<1> SUFFICES ASSUME NEW t \in Threads, TypeOK, Log(t) PROVE TypeOK'
  OBVIOUS
<1> USE DEF TypeOK, threadVars, fileVars, netVars
<1>0. {"idle", "lock", "check", "output", "unlock"} \subseteq Positions
  BY DEF Positions
<1>1. ASSUME NEW f \in Flags, LogBegin(t, f) PROVE TypeOK'
  BY <1>0, <1>1, LogAssumption DEF LogBegin
<1>2. CASE SyncLock(t)
  <2>1. hslogLock' = hslogLock \/ hslogLock' = [owner |-> t, count |-> hslogLock.count + 1]
    BY <1>2 DEF SyncLock
  <2>2. hslogLock' \in Mutexes
    BY <2>1 DEF Mutexes
  <2> QED BY <1>0, <1>2, <2>2 DEF SyncLock
<1>3. CASE LogCheck(t)
  BY <1>0, <1>3 DEF LogCheck
<1>4. CASE LogOutput(t)
  BY <1>0, <1>4 DEF LogOutput
<1>5. CASE SyncUnlock(t)
  <2>1. \/ hslogLock' = hslogLock
        \/ hslogLock.count > 1 /\ hslogLock' = [hslogLock EXCEPT !.count = @ - 1]
        \/ hslogLock' = Free
    BY <1>5 DEF SyncUnlock
  <2>2. hslogLock' \in Mutexes
    BY <2>1 DEF Free, Mutexes
  <2>3. \/ status' = "exit" /\ pc' = pc
        \/ status' = status /\ pc' = [pc EXCEPT ![t] = "idle"]
    BY <1>5 DEF SyncUnlock
  <2>4. /\ status' \in {"run", "exit", "failed"}
        /\ pc' \in [Threads -> Positions]
    BY <1>0, <2>3
  <2> QED BY <1>5, <2>2, <2>4 DEF SyncUnlock
<1> QED BY <1>1, <1>2, <1>3, <1>4, <1>5 DEF Log

\* main(), the commands from the network, and the edits of the file.
LEMMA MainTypeOK == TypeOK /\ (Main \/ NetCommand \/ Editor) => TypeOK'
<1> SUFFICES ASSUME TypeOK, Main \/ NetCommand \/ Editor PROVE TypeOK'
  OBVIOUS
<1> USE DEF TypeOK, threadVars, fileVars, netVars
<1>1. CASE MainInit
  <2>1. cfg' \in Settings
    BY <1>1, EffectiveTyped DEF MainInit
  <2>2. netOn' \in BOOLEAN /\ uniOn' \in BOOLEAN
    BY <1>1 DEF MainInit
  <2>3. hslogLock' \in Mutexes
    BY <1>1 DEF MainInit, Free, Mutexes
  <2> QED BY <1>1, <2>1, <2>2, <2>3 DEF MainInit
<1>2. CASE MainConfig
  <2>1. cfg' \in Settings
    <3>1. cfg' = [cfg EXCEPT !.toFile = 0]
      BY <1>2 DEF MainConfig
    <3>2. cfg \in Settings /\ 0 \in 0..1
      OBVIOUS
    <3> QED BY ONLY <3>1, <3>2 DEF Settings
  <2> QED BY <1>2, <2>1 DEF MainConfig
<1>3. CASE MainNetwork
  BY <1>3, ZenonT(60) DEF MainNetwork
<1>4. CASE MainWatch
  BY <1>4 DEF MainWatch
<1>5. CASE NetCommand
  BY <1>5 DEF NetCommand
<1>6. CASE EditOpen
  <2>1. events' \in Queues
    BY <1>6, QueueTypeOK DEF EditOpen
  <2> QED BY <1>6, <2>1, LogAssumption DEF EditOpen
<1>7. ASSUME NEW content \in Files, EditClose(content) PROVE TypeOK'
  <2>1. events' \in Queues
    BY <1>7, QueueTypeOK DEF EditClose
  <2>2. missed' \in BOOLEAN
    BY <1>7 DEF EditClose, Queued, Watching
  <2> QED BY <1>7, <2>1, <2>2, ZenonT(60) DEF EditClose
<1>8. CASE OtherFile
  <2>1. events' \in Queues
    BY <1>8, QueueTypeOK DEF OtherFile
  <2> QED BY <1>8, <2>1 DEF OtherFile
<1> QED BY <1>1, <1>2, <1>3, <1>4, <1>5, <1>6, <1>7, <1>8 DEF Main, Editor

\* The thread that watches the file.
LEMMA WatchTypeOK == TypeOK /\ Watch => TypeOK'
<1> SUFFICES ASSUME TypeOK, Watch PROVE TypeOK'
  OBVIOUS
<1> USE DEF TypeOK, threadVars, fileVars, netVars
<1>1. CASE WatchAdd
  BY <1>1 DEF WatchAdd
<1>2. CASE WatchEvent
  <2>1. events' \in Queues
    <3>1. events' = Tail(events) /\ events # <<>>
      BY <1>2 DEF WatchEvent
    <3> QED BY <3>1, TailQueue
  <2> QED BY <1>2, <2>1 DEF WatchEvent
<1>3. CASE ReloadDefaults
  <2>1. cfg' \in Settings
    BY <1>3, DefaultsTyped DEF ReloadDefaults
  <2> QED BY <1>3, <2>1 DEF ReloadDefaults
<1>4. CASE ReloadSyncInit
  <2>1. hslogLock' \in Mutexes
    BY <1>4 DEF ReloadSyncInit, Free, Mutexes
  <2>2. reinitHeld' \in BOOLEAN
    BY <1>4 DEF ReloadSyncInit
  <2> QED BY <1>4, <2>1, <2>2 DEF ReloadSyncInit
<1>5. CASE ReloadOpen
  <2>1. events' \in Queues
    BY <1>5, QueueTypeOK DEF ReloadOpen
  <2> QED BY <1>5, <2>1, LogAssumption DEF ReloadOpen
<1>6. CASE ReloadLine
  <2>1. Head(lines) \in Names \X Int /\ lines' \in Seq(Names \X Int)
    BY <1>6, HeadTailProperties DEF ReloadLine
  <2>2. cfg' \in Settings
    BY <1>6, <2>1, ParsedTyped DEF ReloadLine
  <2>3. netOn' \in BOOLEAN /\ uniOn' \in BOOLEAN /\ commanded' \in BOOLEAN
    BY <1>6 DEF ReloadLine, Switched
  <2> QED BY <1>6, <2>1, <2>2, <2>3 DEF ReloadLine
<1>7. CASE ReloadDone
  BY <1>7 DEF ReloadDone
<1> QED BY <1>1, <1>2, <1>3, <1>4, <1>5, <1>6, <1>7 DEF Watch, Reload

LEMMA StepTypeOK == TypeOK /\ [Next]_vars => TypeOK'
<1> SUFFICES ASSUME TypeOK, [Next]_vars PROVE TypeOK'
  OBVIOUS
<1>1. CASE UNCHANGED vars
  BY <1>1 DEF vars, TypeOK, threadVars, fileVars, netVars
<1> QED BY <1>1, LogTypeOK, MainTypeOK, WatchTypeOK DEF Next

\* The settings keep their widths and the recursion count stays a natural number,
\* whatever the file says and whenever it is read (hslog_parse_config).
THEOREM TypeInvariant == Spec => []TypeOK
BY InitTypeOK, StepTypeOK, PTL DEF Spec

-------------------------------------------------------------------------------
(* The mutex *)

\* Before the sockets of the network log exist, nobody logs.
QuietUntilReady ==
  /\ main \in {"init", "config", "network"} => \A t \in Threads : pc[t] = "idle"
  /\ main \in {"watch", "run"} => netReady
LogInv == TypeOK /\ QuietUntilReady /\ LockDiscipline /\ ExitOnlyAfterReinit

LEMMA InitLogInv == Init => LogInv
<1> SUFFICES ASSUME Init PROVE LogInv
  OBVIOUS
<1>1. LockDiscipline
  BY LogAssumption DEF Init, LockDiscipline, Inside, Free
<1> QED BY <1>1, InitTypeOK DEF Init, LogInv, QuietUntilReady, ExitOnlyAfterReinit

LEMMA StepQuiet == TypeOK /\ QuietUntilReady /\ [Next]_vars => QuietUntilReady'
<1> SUFFICES ASSUME TypeOK, QuietUntilReady, [Next]_vars PROVE QuietUntilReady'
  OBVIOUS
<1> USE DEF TypeOK, QuietUntilReady, threadVars, netVars
<1>1. CASE UNCHANGED <<main, pc, netReady>>
  BY <1>1
<1>2. CASE Main
  BY <1>2 DEF Main, MainInit, MainConfig, MainNetwork, MainWatch
<1>3. ASSUME NEW t \in Threads, Log(t) PROVE QuietUntilReady'
  <2>1. UNCHANGED <<main, netReady>> /\ \A u \in Threads : u # t => pc'[u] = pc[u]
    BY <1>3 DEF Log, LogBegin, SyncLock, LogCheck, LogOutput, SyncUnlock
  <2>2. CASE pc[t] = "idle"
    BY <1>3, <2>1, <2>2 DEF Log, LogBegin, SyncLock, LogCheck, LogOutput, SyncUnlock
  <2> QED BY <2>1, <2>2
<1>4. CASE NetCommand \/ Watch
  BY <1>1, <1>4 DEF NetCommand, Watch, WatchAdd, WatchEvent, Reload, ReloadDefaults,
     ReloadSyncInit, ReloadOpen, ReloadLine, ReloadDone
<1>5. CASE Editor \/ UNCHANGED vars
  BY <1>1, <1>5 DEF Editor, EditOpen, EditClose, OtherFile, vars
<1> QED BY <1>2, <1>3, <1>4, <1>5 DEF Next

\* Between its lock and its unlock a thread owns the mutex, and nobody else does.
LEMMA StepLock == LogInv /\ [Next]_vars => LockDiscipline' /\ ExitOnlyAfterReinit'
<1> SUFFICES ASSUME LogInv, [Next]_vars PROVE LockDiscipline' /\ ExitOnlyAfterReinit'
  OBVIOUS
<1> USE LogAssumption DEF LogInv, TypeOK, LockDiscipline, ExitOnlyAfterReinit, threadVars,
         netVars
<1>1. CASE UNCHANGED <<pc, hslogLock, status, reinitHeld>>
  BY <1>1
<1>2. CASE reinitHeld
  <2>1. reinitHeld'
    <3>1. CASE ReloadSyncInit
      BY <1>2, <3>1 DEF ReloadSyncInit
    <3>2. CASE Watch /\ ~ReloadSyncInit
      BY <1>2, <3>2 DEF Watch, WatchAdd, WatchEvent, Reload, ReloadDefaults, ReloadOpen,
         ReloadLine, ReloadDone
    <3>3. CASE Main \/ NetCommand \/ Editor \/ UNCHANGED vars
      BY <1>2, <3>3 DEF Main, MainInit, MainConfig, MainNetwork, MainWatch, NetCommand,
         Editor, EditOpen, EditClose, OtherFile, vars
    <3>4. ASSUME NEW t \in Threads, Log(t) PROVE reinitHeld'
      BY <1>2, <3>4 DEF Log, LogBegin, SyncLock, LogCheck, LogOutput, SyncUnlock
    <3> QED BY <3>1, <3>2, <3>3, <3>4 DEF Next
  <2> QED BY <2>1
<1> SUFFICES ASSUME ~reinitHeld PROVE LockDiscipline' /\ ExitOnlyAfterReinit'
  BY <1>2
<1>3. CASE MainInit
  <2>1. \A t \in Threads : pc[t] \notin Inside
    BY <1>3 DEF MainInit, QuietUntilReady, Inside
  <2> QED BY <1>3, <2>1 DEF MainInit, Free
<1>4. ASSUME NEW t \in Threads, SyncLock(t) PROVE LockDiscipline' /\ ExitOnlyAfterReinit'
  <2>1. /\ pc[t] = "lock" /\ pc' = [pc EXCEPT ![t] = "check"]
        /\ hslogLock' = [owner |-> t, count |-> hslogLock.count + 1]
        /\ hslogLock.owner \in {NoThread, t} /\ UNCHANGED <<status, reinitHeld>>
    BY <1>4 DEF SyncLock, TdSafe
  <2>2. hslogLock.owner = NoThread /\ hslogLock.count = 0
    BY <2>1 DEF Inside
  <2>3. \A u \in Threads : u # t => pc'[u] \notin Inside
    BY <2>1, <2>2
  <2> QED BY <2>1, <2>2, <2>3 DEF Inside
<1>5. ASSUME NEW t \in Threads, SyncUnlock(t) PROVE LockDiscipline' /\ ExitOnlyAfterReinit'
  <2>1. pc[t] = "unlock" /\ hslogLock.owner = t /\ hslogLock.count = 1
    BY <1>5 DEF SyncUnlock, Inside
  <2>2. /\ pc' = [pc EXCEPT ![t] = "idle"] /\ hslogLock' = Free
        /\ UNCHANGED <<status, reinitHeld>>
    BY <1>5, <2>1 DEF SyncUnlock
  <2>3. \A u \in Threads : pc'[u] \notin Inside
    BY <2>1, <2>2 DEF Inside
  <2> QED BY <2>2, <2>3 DEF Free
<1>6. ASSUME NEW t \in Threads,
             (\E f \in Flags : LogBegin(t, f)) \/ LogCheck(t) \/ LogOutput(t)
      PROVE  LockDiscipline' /\ ExitOnlyAfterReinit'
  <2>1. /\ UNCHANGED <<hslogLock, status, reinitHeld>>
        /\ pc'[t] \in Inside <=> pc[t] \in Inside
        /\ \A u \in Threads : u # t => pc'[u] = pc[u]
    BY <1>6 DEF LogBegin, LogCheck, LogOutput, Inside
  <2>2. \A u \in Threads : pc'[u] \in Inside <=> pc[u] \in Inside
    BY <2>1
  <2> QED BY <2>1, <2>2
<1>7. CASE ReloadSyncInit
  BY <1>7 DEF ReloadSyncInit, Free
<1>8. CASE Watch /\ ~ReloadSyncInit
  <2>1. CASE WatchAdd
    BY <2>1 DEF WatchAdd
  <2> QED BY <1>1, <1>8, <2>1 DEF Watch, WatchEvent, Reload, ReloadDefaults, ReloadOpen,
             ReloadLine, ReloadDone
<1>9. CASE MainConfig \/ MainNetwork \/ MainWatch
  BY <1>9 DEF MainConfig, MainNetwork, MainWatch
<1>10. CASE NetCommand \/ Editor \/ UNCHANGED vars
  BY <1>1, <1>10 DEF NetCommand, Editor, EditOpen, EditClose, OtherFile, vars
<1> QED BY <1>3, <1>4, <1>5, <1>6, <1>7, <1>8, <1>9, <1>10 DEF Next, Main, Log

LEMMA StepLogInv == LogInv /\ [Next]_vars => LogInv'
BY StepTypeOK, StepQuiet, StepLock DEF LogInv

\* The mutex of the log is owned by exactly the thread that is in hslog, for any
\* number of threads, as long as hslog_init has not initialised it under one.
THEOREM MutexHeldInside == Spec => []LockDiscipline
<1>1. LogInv => LockDiscipline
  BY DEF LogInv
<1> QED BY InitLogInv, StepLogInv, <1>1, PTL DEF Spec

\* hslog_sync_unlock ends the process only after such an initialisation.
THEOREM ExitHasOneCause == Spec => []ExitOnlyAfterReinit
<1>1. LogInv => ExitOnlyAfterReinit
  BY DEF LogInv
<1> QED BY InitLogInv, StepLogInv, <1>1, PTL DEF Spec

\* hslog_to_network never writes to a socket that init_network_log has not made.
THEOREM NothingSentEarly == Spec => []SendsOnSocket
<1>1. LogInv => SendsOnSocket
  BY DEF LogInv, TypeOK, QuietUntilReady, SendsOnSocket
<1> QED BY InitLogInv, StepLogInv, <1>1, PTL DEF Spec
-------------------------------------------------------------------------------
(* The settings and the file *)

\* A name that no line has keeps its default.
LEMMA SettingAbsent ==
  ASSUME NEW content, NEW name, NEW default,
         \A i \in DOMAIN content : content[i][1] # name
  PROVE  Setting(content, name, default) = default
BY DEF Setting, Says

\* No line after the n-th has the name.
Final(content, n, name) == \A j \in (n + 1)..Len(content) : content[j][1] # name

\* The last line with a name decides.
LEMMA SettingOfLast ==
  ASSUME NEW content \in Seq(Names \X Int), NEW name, NEW default,
         NEW i \in 1..Len(content), content[i][1] = name, Final(content, i, name)
  PROVE  Setting(content, name, default) = content[i][2]
<1> USE DEF Final
<1> DEFINE Last(k) == /\ content[k][1] = name
                      /\ \A j \in DOMAIN content : content[j][1] = name => j <= k
<1>1. DOMAIN content = 1..Len(content) /\ Len(content) \in Nat
  BY LenProperties
<1>2. Last(i)
  <2> SUFFICES ASSUME NEW j \in 1..Len(content), content[j][1] = name PROVE j <= i
    BY <1>1
  <2> QED BY <1>1
<1>3. \A k \in DOMAIN content : Last(k) => k = i
  <2> SUFFICES ASSUME NEW k \in 1..Len(content), Last(k) PROVE k = i
    BY <1>1
  <2>1. k <= i /\ i <= k
    BY <1>1, <1>2
  <2> QED BY <1>1, <2>1
<1>4. (CHOOSE k \in DOMAIN content : Last(k)) = i
  <2>1. i \in DOMAIN content
    BY <1>1
  <2> HIDE DEF Last
  <2> QED BY <1>2, <1>3, <2>1
<1>5. \E k \in DOMAIN content : content[k][1] = name
  BY <1>1
<1> QED BY <1>4, <1>5 DEF Setting, Says

\* While the file is parsed: the lines that remain are the end of its content, and each
\* name that none of them has already has the value that the content gives it, if it
\* gives it one.
Parsing(content, n) ==
  /\ Len(lines) = Len(content) - n
  /\ \A j \in 1..Len(lines) : lines[j] = content[n + j]
  /\ Final(content, n, "LOGLEVEL") => cfg.level = Effective(content).level
  /\ Final(content, n, "LOGFILELEVEL") => cfg.fileLevel = Effective(content).fileLevel
  /\ Final(content, n, "LOGTOFILE") => cfg.toFile = Effective(content).toFile
  /\ Final(content, n, "UNICAST") /\ Says(content, "UNICAST") =>
       (uniOn <=> Setting(content, "UNICAST", 0) # 0)
  /\ Final(content, n, "MULTICAST") /\ Says(content, "MULTICAST") =>
       commanded \/ (netOn <=> Setting(content, "MULTICAST", 0) # 0)

\* The file has not changed since it was last read, and is not about to.
Unchanged == ~editing /\ ~missed /\ ~Pending

\* Where the reload is, and what the settings then are.
ReloadInv ==
  /\ main # "run" => watch = "off"
  /\ watch \in {"off", "starting"} => ~reloaded
  /\ watch \in {"sync", "open"} => cfg = Defaults
  /\ (watch \in {"off", "starting", "idle"} /\ main # "init" /\ Unchanged) => UpToDate
  /\ (watch = "parse" /\ Unchanged) => \E n \in 0..Len(file) : Parsing(file, n)

LEMMA FileTyped == TypeOK => file \in Seq(Names \X Int) /\ Len(file) \in Nat
<1> SUFFICES ASSUME TypeOK PROVE file \in Seq(Names \X Int) /\ Len(file) \in Nat
  OBVIOUS
<1>1. file \in Seq(Names \X Int)
  BY LogAssumption DEF TypeOK
<1> QED BY <1>1, LenProperties

LEMMA InitReload == Init => ReloadInv
BY DEF Init, ReloadInv

\* Nothing is parsed yet: what no line has is at its default.
LEMMA OpenParses == TypeOK /\ cfg = Defaults /\ ReloadOpen => Parsing(file, 0)'
<1> SUFFICES ASSUME TypeOK, cfg = Defaults, ReloadOpen PROVE Parsing(file, 0)'
  OBVIOUS
<1>1. lines' = file /\ file' = file /\ cfg' = Defaults
  BY DEF ReloadOpen, fileVars
<1>2. DOMAIN file = 1..Len(file) /\ Len(file) \in Nat
  BY FileTyped, LenProperties
<1>3. ASSUME NEW name, Final(file, 0, name)
      PROVE  Setting(file, name, 0) = 0 /\ ~Says(file, name)
  <2>1. \A i \in DOMAIN file : file[i][1] # name
    BY <1>2, <1>3 DEF Final
  <2> QED BY <2>1, SettingAbsent DEF Says
<1>4. 0 % ShortMod = 0
  BY DEF ShortMod
<1>5. Final(file, 0, "LOGLEVEL") => Defaults.level = Effective(file).level
  BY <1>4, <1>3 DEF Effective, Defaults
<1>6. Final(file, 0, "LOGFILELEVEL") => Defaults.fileLevel = Effective(file).fileLevel
  BY <1>4, <1>3 DEF Effective, Defaults
<1>7. Final(file, 0, "LOGTOFILE") => Defaults.toFile = Effective(file).toFile
  <2>1. Final(file, 0, "LOGTOFILE") => Setting(file, "LOGTOFILE", 0) % 2 = 0
    BY <1>3
  <2> QED BY <2>1 DEF Effective, Defaults
<1>8. Len(file) = Len(file) - 0 /\ \A j \in 1..Len(file) : file[j] = file[0 + j]
  BY <1>2
<1>9. (Parsing(file, 0))' <=>
        /\ Len(file) = Len(file) - 0 /\ \A j \in 1..Len(file) : file[j] = file[0 + j]
        /\ Final(file, 0, "LOGLEVEL") => Defaults.level = Effective(file).level
        /\ Final(file, 0, "LOGFILELEVEL") => Defaults.fileLevel = Effective(file).fileLevel
        /\ Final(file, 0, "LOGTOFILE") => Defaults.toFile = Effective(file).toFile
        /\ Final(file, 0, "UNICAST") /\ Says(file, "UNICAST") =>
             (uniOn' <=> Setting(file, "UNICAST", 0) # 0)
        /\ Final(file, 0, "MULTICAST") /\ Says(file, "MULTICAST") =>
             commanded' \/ (netOn' <=> Setting(file, "MULTICAST", 0) # 0)
  BY <1>1 DEF Parsing
<1> QED BY <1>3, <1>5, <1>6, <1>7, <1>8, <1>9

\* A line is parsed: if it is the last with its name, that name is now final.
LEMMA LineParses ==
  ASSUME TypeOK, ReloadLine, NEW n \in 0..Len(file), Parsing(file, n)
  PROVE  n + 1 \in 0..Len(file) /\ Parsing(file, n + 1)'
<1> DEFINE line == Head(lines)
<1>1. /\ lines # <<>> /\ lines' = Tail(lines) /\ file' = file
      /\ cfg' = Parsed(cfg, line)
      /\ netOn' = Switched("MULTICAST", netOn, line)
      /\ uniOn' = Switched("UNICAST", uniOn, line)
      /\ commanded' = (commanded /\ line[1] # "MULTICAST")
  BY DEF ReloadLine, fileVars
<1>2. file \in Seq(Names \X Int) /\ Len(file) \in Nat /\ lines \in Seq(Names \X Int)
  BY FileTyped DEF TypeOK
<1>3. /\ Len(lines) \in Nat /\ Len(lines) # 0 /\ line = lines[1]
      /\ Len(lines') = Len(lines) - 1
      /\ \A j \in 1..Len(lines') : lines'[j] = lines[j + 1]
  BY <1>1, <1>2, EmptySeq, LenProperties, HeadTailProperties
<1>4. Len(lines) = Len(file) - n /\ line = file[n + 1] /\ n + 1 \in 1..Len(file)
  <2>1. Len(lines) = Len(file) - n
    BY DEF Parsing
  <2>2. lines[1] = file[n + 1]
    BY <1>3 DEF Parsing
  <2> QED BY <1>2, <1>3, <2>1, <2>2
<1>5. Len(lines') = Len(file) - (n + 1) /\ \A j \in 1..Len(lines') : lines'[j] = file[(n + 1) + j]
  <2>1. Len(lines') = Len(file) - (n + 1)
    BY <1>2, <1>3, <1>4
  <2>2. ASSUME NEW j \in 1..Len(lines') PROVE lines'[j] = file[(n + 1) + j]
    <3>1. j + 1 \in 1..Len(lines) /\ lines'[j] = lines[j + 1]
      BY <1>3
    <3>2. lines[j + 1] = file[n + (j + 1)]
      BY <3>1 DEF Parsing
    <3>3. n + (j + 1) = (n + 1) + j
      BY <1>3
    <3> QED BY <3>1, <3>2, <3>3
  <2> QED BY <2>1, <2>2
\* What this line decides.
<1>6. \A name : (Final(file, n + 1, name) /\ line[1] = name) =>
                  Setting(file, name, 0) = line[2]
  <2> SUFFICES ASSUME NEW name, Final(file, n + 1, name), line[1] = name
               PROVE  Setting(file, name, 0) = line[2]
    OBVIOUS
  <2>1. PICK i \in 1..Len(file) : i = n + 1
    BY <1>4
  <2>2. file[i][1] = name /\ Final(file, i, name)
    BY <1>4, <2>1
  <2>3. file \in Seq(Names \X Int)
    BY <1>2
  <2>4. Setting(file, name, 0) = file[i][2]
    BY <2>1, <2>2, <2>3, SettingOfLast, ZenonT(60)
  <2> QED BY <1>4, <2>1, <2>4
\* What it leaves alone.
<1>7. \A name : (Final(file, n + 1, name) /\ line[1] # name) => Final(file, n, name)
  <2> SUFFICES ASSUME NEW name, Final(file, n + 1, name), line[1] # name,
                      NEW j \in (n + 1)..Len(file)
               PROVE  file[j][1] # name
    BY DEF Final
  <2>1. j = n + 1 \/ j \in ((n + 1) + 1)..Len(file)
    BY <1>2
  <2> QED BY <1>4, <2>1 DEF Final
<1>8. cfg \in Settings
  BY DEF TypeOK, Settings
<1>9. Final(file, n + 1, "LOGLEVEL") => cfg'.level = Effective(file).level
  <2> SUFFICES ASSUME Final(file, n + 1, "LOGLEVEL") PROVE cfg'.level = Effective(file).level
    OBVIOUS
  <2>1. CASE line[1] = "LOGLEVEL"
    BY <1>1, <1>6, <1>8, <2>1 DEF Parsed, Short, Effective, Defaults, Settings
  <2>2. CASE line[1] # "LOGLEVEL"
    <3>1. cfg'.level = cfg.level
      BY <1>1, <1>8, <2>2 DEF Parsed, Settings
    <3> QED BY <1>7, <2>2, <3>1 DEF Parsing
  <2> QED BY <2>1, <2>2
<1>10. Final(file, n + 1, "LOGFILELEVEL") => cfg'.fileLevel = Effective(file).fileLevel
  <2> SUFFICES ASSUME Final(file, n + 1, "LOGFILELEVEL")
               PROVE  cfg'.fileLevel = Effective(file).fileLevel
    OBVIOUS
  <2>1. CASE line[1] = "LOGFILELEVEL"
    BY <1>1, <1>6, <1>8, <2>1 DEF Parsed, Short, Effective, Defaults, Settings
  <2>2. CASE line[1] # "LOGFILELEVEL"
    <3>1. cfg'.fileLevel = cfg.fileLevel
      BY <1>1, <1>8, <2>2 DEF Parsed, Settings
    <3> QED BY <1>7, <2>2, <3>1 DEF Parsing
  <2> QED BY <2>1, <2>2
<1>11. Final(file, n + 1, "LOGTOFILE") => cfg'.toFile = Effective(file).toFile
  <2> SUFFICES ASSUME Final(file, n + 1, "LOGTOFILE") PROVE cfg'.toFile = Effective(file).toFile
    OBVIOUS
  <2>1. CASE line[1] = "LOGTOFILE"
    <3>1. cfg'.toFile = line[2] % 2
      BY <1>1, <1>8, <2>1 DEF Parsed, Bit, Settings
    <3>2. Setting(file, "LOGTOFILE", 0) = line[2]
      BY <1>6, <2>1
    <3> QED BY <3>1, <3>2 DEF Effective, Defaults
  <2>2. CASE line[1] # "LOGTOFILE"
    <3>1. cfg'.toFile = cfg.toFile
      BY <1>1, <1>8, <2>2 DEF Parsed, Settings
    <3> QED BY <1>7, <2>2, <3>1 DEF Parsing
  <2> QED BY <2>1, <2>2
<1>12. Final(file, n + 1, "UNICAST") /\ Says(file, "UNICAST") =>
         (uniOn' <=> Setting(file, "UNICAST", 0) # 0)
  <2> SUFFICES ASSUME Final(file, n + 1, "UNICAST"), Says(file, "UNICAST")
               PROVE  uniOn' <=> Setting(file, "UNICAST", 0) # 0
    OBVIOUS
  <2>1. CASE line[1] = "UNICAST"
    <3>1. uniOn' <=> line[2] # 0
      BY <1>1, <2>1 DEF Switched
    <3> QED BY <1>6, <2>1, <3>1
  <2>2. CASE line[1] # "UNICAST"
    <3>1. uniOn' = uniOn
      BY <1>1, <2>2 DEF Switched
    <3>2. Final(file, n, "UNICAST")
      BY <1>7, <2>2
    <3> QED BY <3>1, <3>2 DEF Parsing
  <2> QED BY <2>1, <2>2
<1>13. Final(file, n + 1, "MULTICAST") /\ Says(file, "MULTICAST") =>
         commanded' \/ (netOn' <=> Setting(file, "MULTICAST", 0) # 0)
  <2> SUFFICES ASSUME Final(file, n + 1, "MULTICAST"), Says(file, "MULTICAST")
               PROVE  commanded' \/ (netOn' <=> Setting(file, "MULTICAST", 0) # 0)
    OBVIOUS
  <2>1. CASE line[1] = "MULTICAST"
    <3>1. netOn' <=> line[2] # 0
      BY <1>1, <2>1 DEF Switched
    <3> QED BY <1>6, <2>1, <3>1
  <2>2. CASE line[1] # "MULTICAST"
    <3>1. netOn' = netOn /\ (commanded => commanded')
      BY <1>1, <2>2 DEF Switched
    <3>2. Final(file, n, "MULTICAST")
      BY <1>7, <2>2
    <3> QED BY <3>1, <3>2 DEF Parsing
  <2> QED BY <2>1, <2>2
<1>14. (Parsing(file, n + 1))' <=>
        /\ Len(lines') = Len(file) - (n + 1)
        /\ \A j \in 1..Len(lines') : lines'[j] = file[(n + 1) + j]
        /\ Final(file, n + 1, "LOGLEVEL") => cfg'.level = Effective(file).level
        /\ Final(file, n + 1, "LOGFILELEVEL") => cfg'.fileLevel = Effective(file).fileLevel
        /\ Final(file, n + 1, "LOGTOFILE") => cfg'.toFile = Effective(file).toFile
        /\ Final(file, n + 1, "UNICAST") /\ Says(file, "UNICAST") =>
             (uniOn' <=> Setting(file, "UNICAST", 0) # 0)
        /\ Final(file, n + 1, "MULTICAST") /\ Says(file, "MULTICAST") =>
             commanded' \/ (netOn' <=> Setting(file, "MULTICAST", 0) # 0)
  BY <1>1 DEF Parsing
<1> QED BY <1>4, <1>5, <1>9, <1>10, <1>11, <1>12, <1>13, <1>14

\* All lines are parsed.
LEMMA ParsedAll ==
  ASSUME TypeOK, lines = <<>>, NEW n \in 0..Len(file), Parsing(file, n)
  PROVE  UpToDate
<1>1. Len(file) \in Nat /\ Len(lines) = 0
  BY FileTyped
<1>2. n = Len(file)
  BY <1>1 DEF Parsing
<1>3. \A name : Final(file, n, name)
  BY <1>1, <1>2 DEF Final
<1> QED BY <1>3 DEF Parsing, UpToDate

\* Whether a change of the file is among the events: a close that is queued is, another
\* event that comes or goes changes nothing.
LEMMA CloseQueued ==
  ASSUME events \in Queues, events' = Append(events, "close")
  PROVE  Pending'
<1> DEFINE Event == {"close", "other"}
<1>1. events \in Seq(Event) /\ "close" \in Event
  BY DEF Queues
<1> HIDE DEF Event
<1>2. Append(events, "close") \in Seq(Event) /\ Len(Append(events, "close")) = Len(events) + 1
      /\ Append(events, "close")[Len(events) + 1] = "close" /\ Len(events) \in Nat
  BY <1>1, AppendProperties, LenProperties
<1>3. DOMAIN Append(events, "close") = 1..Len(Append(events, "close"))
  BY <1>2, LenProperties
<1> QED BY <1>2, <1>3 DEF Pending

LEMMA OtherQueued ==
  ASSUME TypeOK, Queue("other"), Pending
  PROVE  Pending'
<1> DEFINE Event == {"close", "other"}
<1>1. events \in Seq(Event) /\ "other" \in Event
  BY DEF TypeOK, Queues
<1> HIDE DEF Event
<1>2. CASE events' = events
  BY <1>2 DEF Pending
<1>3. CASE events' = Append(events, "other")
  <2>1. /\ Append(events, "other") \in Seq(Event) /\ Len(events) \in Nat
        /\ Len(Append(events, "other")) = Len(events) + 1
        /\ \A i \in 1..Len(events) : Append(events, "other")[i] = events[i]
    BY <1>1, AppendProperties, LenProperties
  <2>2. /\ DOMAIN Append(events, "other") = 1..Len(Append(events, "other"))
        /\ DOMAIN events = 1..Len(events)
    BY <1>1, <2>1, LenProperties
  <2>3. PICK i \in 1..Len(events) : events[i] = "close"
    BY <2>2 DEF Pending
  <2>4. i \in DOMAIN events' /\ events'[i] = "close"
    BY <1>3, <2>1, <2>2, <2>3
  <2> QED BY <2>4 DEF Pending
<1> QED BY <1>2, <1>3 DEF Queue

LEMMA OtherStays ==
  ASSUME events \in Queues, events # <<>>, Head(events) # "close", events' = Tail(events),
         Pending
  PROVE  Pending'
<1> DEFINE Event == {"close", "other"}
<1>1. events \in Seq(Event)
  BY DEF Queues
<1> HIDE DEF Event
<1>2. /\ Tail(events) \in Seq(Event) /\ Len(Tail(events)) = Len(events) - 1
      /\ Head(events) = events[1] /\ Len(events) \in Nat
      /\ \A i \in 1..Len(Tail(events)) : Tail(events)[i] = events[i + 1]
  BY <1>1, HeadTailProperties, LenProperties
<1>3. DOMAIN Tail(events) = 1..Len(Tail(events)) /\ DOMAIN events = 1..Len(events)
  BY <1>1, <1>2, LenProperties
<1>4. PICK i \in 1..Len(events) : events[i] = "close"
  BY <1>3 DEF Pending
<1>5. i - 1 \in 1..Len(Tail(events)) /\ (i - 1) + 1 = i
  BY <1>2, <1>4
<1>6. i - 1 \in DOMAIN events' /\ events'[i - 1] = "close"
  BY <1>2, <1>3, <1>4, <1>5
<1> QED BY <1>6 DEF Pending

LEMMA StepReload == TypeOK /\ ReloadInv /\ [Next]_vars => ReloadInv'
<1> SUFFICES ASSUME TypeOK, ReloadInv, [Next]_vars PROVE ReloadInv'
  OBVIOUS
<1> USE DEF threadVars, fileVars, netVars
<1> DEFINE switches == <<netOn, uniOn, commanded>>
           kept == <<main, watch, reloaded, cfg, lines, file, editing, events, missed>>
<1>1. CASE UNCHANGED kept /\ UNCHANGED switches
  BY <1>1, Zenon DEF ReloadInv, Unchanged, Pending, UpToDate, Parsing
<1>2. CASE MainInit
  <2>1. /\ main = "init" /\ main' = "config" /\ watch' = "off" /\ ~reloaded'
        /\ cfg' = Effective(file) /\ file' = file
        /\ netOn' = (Setting(file, "MULTICAST", 0) # 0)
        /\ uniOn' = (Setting(file, "UNICAST", 0) # 0)
    BY <1>2 DEF MainInit, ReloadInv
  <2>2. UpToDate'
    BY <2>1 DEF UpToDate
  <2> QED BY <2>1, <2>2 DEF ReloadInv
<1>3. CASE MainConfig
  <2>1. /\ main = "config" /\ main' = "network" /\ watch = "off" /\ watch' = "off"
        /\ ~reloaded /\ ~reloaded' /\ cfg' = [cfg EXCEPT !.toFile = 0]
        /\ UNCHANGED <<file, editing, events, missed>> /\ UNCHANGED switches
    BY <1>3 DEF MainConfig, ReloadInv
  <2>2. UpToDate => UpToDate'
    BY <2>1 DEF UpToDate, TypeOK, Settings
  <2> QED BY <2>1, <2>2 DEF ReloadInv, Unchanged, Pending
<1>4. CASE MainNetwork
  <2>1. /\ main = "network" /\ main' \in {"network", "watch"}
        /\ UNCHANGED <<watch, reloaded, cfg, lines, file, editing, events, missed>>
        /\ UNCHANGED switches
    BY <1>4 DEF MainNetwork
  <2> QED BY <2>1, Zenon DEF ReloadInv, Unchanged, Pending, UpToDate, Parsing
<1>5. CASE MainWatch
  <2>1. /\ main = "watch" /\ watch = "off"
        /\ (main' = "run" /\ watch' = "starting") \/ (main' = main /\ watch' = watch)
        /\ UNCHANGED <<reloaded, cfg, lines, file, editing, events, missed>>
        /\ UNCHANGED switches
    BY <1>5 DEF MainWatch, ReloadInv
  <2> QED BY <2>1 DEF ReloadInv, Unchanged, Pending, UpToDate
<1>6. ASSUME NEW t \in Threads, Log(t) PROVE ReloadInv'
  BY <1>1, <1>6 DEF Log, LogBegin, SyncLock, LogCheck, LogOutput, SyncUnlock
<1>7. CASE NetCommand
  <2>1. UNCHANGED kept /\ uniOn' = uniOn /\ commanded'
    BY <1>7 DEF NetCommand
  <2> QED BY <2>1, Zenon DEF ReloadInv, Unchanged, Pending, UpToDate, Parsing
<1>8. CASE WatchAdd
  <2>1. /\ watch = "starting" /\ watch' \in {"starting", "idle", "ended"}
        /\ main = "run"
        /\ UNCHANGED <<main, reloaded, cfg, lines, file, editing, events, missed>>
        /\ UNCHANGED switches
    BY <1>8 DEF WatchAdd, ReloadInv, TypeOK
  <2> QED BY <2>1 DEF ReloadInv, Unchanged, Pending, UpToDate
<1>9. CASE WatchEvent
  <2>1. /\ watch = "idle" /\ main' = main /\ events # <<>> /\ events' = Tail(events)
        /\ watch' = IF Head(events) = "close" THEN "reset" ELSE "idle"
        /\ UNCHANGED <<reloaded, cfg, lines, file, editing, missed>> /\ UNCHANGED switches
    BY <1>9 DEF WatchEvent
  <2>2. CASE Head(events) = "close"
    BY <2>1, <2>2 DEF ReloadInv
  <2>3. CASE Head(events) # "close"
    <3>1. ~Pending' => ~Pending
      BY <2>1, <2>3, OtherStays DEF TypeOK
    <3>2. Unchanged' => Unchanged
      BY <2>1, <3>1 DEF Unchanged
    <3>3. UpToDate => UpToDate'
      BY <2>1, Zenon DEF UpToDate
    <3> QED BY <2>1, <2>3, <3>2, <3>3 DEF ReloadInv
  <2> QED BY <2>2, <2>3
<1>10. CASE ReloadDefaults
  <2>1. watch = "reset" /\ watch' = "sync" /\ main' = main /\ cfg' = Defaults
    BY <1>10 DEF ReloadDefaults
  <2> QED BY <2>1 DEF ReloadInv
<1>11. CASE ReloadSyncInit
  <2>1. watch = "sync" /\ watch' = "open" /\ main' = main /\ cfg' = cfg
    BY <1>11 DEF ReloadSyncInit
  <2> QED BY <2>1 DEF ReloadInv
<1>12. CASE ReloadOpen
  <2>1. watch = "open" /\ watch' = "parse" /\ UNCHANGED <<main, file>>
    BY <1>12 DEF ReloadOpen
  <2>2. Parsing(file, 0)'
    BY <1>12, <2>1, OpenParses DEF ReloadInv
  <2>3. 0 \in 0..Len(file')
    BY <2>1, FileTyped
  <2>4. \E n \in 0..Len(file') : Parsing(file, n)'
    BY <2>2, <2>3
  <2> QED BY <2>1, <2>4 DEF ReloadInv
<1>13. CASE ReloadLine
  <2>1. /\ watch = "parse" /\ watch' = "parse"
        /\ UNCHANGED <<main, file, editing, events, missed>>
    BY <1>13 DEF ReloadLine
  <2>2. ASSUME Unchanged PROVE \E n \in 0..Len(file') : Parsing(file, n)'
    <3>1. PICK n \in 0..Len(file) : Parsing(file, n)
      BY <2>1, <2>2 DEF ReloadInv
    <3>2. n + 1 \in 0..Len(file) /\ Parsing(file, n + 1)'
      BY <1>13, <3>1, LineParses
    <3>3. n + 1 \in 0..Len(file')
      BY <2>1, <3>2
    <3> QED BY <3>2, <3>3
  <2>3. Unchanged' => Unchanged
    BY <2>1 DEF Unchanged, Pending
  <2> QED BY <2>1, <2>2, <2>3 DEF ReloadInv
<1>14. CASE ReloadDone
  <2>1. /\ watch = "parse" /\ watch' = "idle" /\ lines = <<>>
        /\ UNCHANGED <<main, cfg, reloaded, lines, file, editing, events, missed>>
        /\ UNCHANGED switches
    BY <1>14 DEF ReloadDone
  <2>2. Unchanged => UpToDate
    BY <2>1, ParsedAll DEF ReloadInv
  <2>3. Unchanged' /\ UpToDate => UpToDate'
    BY <2>1, Zenon DEF UpToDate
  <2>4. Unchanged' => Unchanged
    BY <2>1 DEF Unchanged, Pending
  <2> QED BY <2>1, <2>2, <2>3, <2>4 DEF ReloadInv
<1>15. CASE EditOpen
  <2>1. editing' /\ UNCHANGED <<main, watch, reloaded, cfg>>
    BY <1>15 DEF EditOpen
  <2> QED BY <2>1 DEF ReloadInv, Unchanged
<1>16. ASSUME NEW content \in Files, EditClose(content) PROVE ReloadInv'
  <2>1. /\ Queue("close") /\ missed' = (~Queued /\ main # "init")
        /\ UNCHANGED <<main, watch, reloaded, cfg>>
    BY <1>16 DEF EditClose
  <2>2. CASE main = "init"
    BY <2>1, <2>2 DEF ReloadInv
  <2>3. CASE main # "init" /\ ~Queued
    <3>1. missed'
      BY <2>1, <2>3
    <3> QED BY <2>1, <3>1 DEF ReloadInv, Unchanged
  <2>4. CASE main # "init" /\ Queued
    <3>1. events' = Append(events, "close")
      BY <2>1, <2>4 DEF Queue
    <3>2. Pending'
      BY <3>1, CloseQueued DEF TypeOK
    <3> QED BY <2>1, <3>2 DEF ReloadInv, Unchanged
  <2> QED BY <2>2, <2>3, <2>4
<1>18. CASE OtherFile
  <2>1. Queue("other") /\ UNCHANGED <<main, watch, reloaded, cfg, lines, file, editing, missed>>
    BY <1>18 DEF OtherFile
  <2>2. UNCHANGED switches
    BY <1>18 DEF OtherFile
  <2>3. ~Pending' => ~Pending
    BY <2>1, OtherQueued
  <2>4. Unchanged' => Unchanged
    BY <2>1, <2>3 DEF Unchanged
  <2>5. UpToDate => UpToDate'
    BY <2>1, <2>2, Zenon DEF UpToDate
  <2>6. ASSUME NEW n \in 0..Len(file), Parsing(file, n) PROVE Parsing(file, n)'
    BY <2>1, <2>2, <2>6, Zenon DEF Parsing
  <2>7. (\E n \in 0..Len(file) : Parsing(file, n)) => \E n \in 0..Len(file') : Parsing(file, n)'
    BY <2>1, <2>6, Zenon
  <2> QED BY <2>1, <2>4, <2>5, <2>7 DEF ReloadInv
<1>17. CASE UNCHANGED vars
  BY <1>1, <1>17 DEF vars
<1> QED BY <1>2, <1>3, <1>4, <1>5, <1>6, <1>7, <1>8, <1>9, <1>10, <1>11, <1>12, <1>13,
           <1>14, <1>15, <1>16, <1>17, <1>18 DEF Next, Main, Watch, Reload, Editor

\* However edits and reloads overlap, whatever the file says and whatever else happens in
\* its directory: when the thread that watches is idle and its queue holds no change of
\* the file, the settings and the switches are those that the file has a line for, and
\* the other levels are at their defaults, unless no event tells of the last change.
THEOREM SettledMeansCurrent == Spec => []SettledIsCurrent
<1>1. TypeOK /\ ReloadInv => SettledIsCurrent
  <2>1. TypeOK /\ ReloadInv /\ watch = "idle" => main # "init"
    BY DEF ReloadInv
  <2> QED BY <2>1 DEF ReloadInv, SettledIsCurrent, Unchanged
<1> QED BY InitTypeOK, StepTypeOK, InitReload, StepReload, <1>1, PTL DEF Spec
===============================================================================
