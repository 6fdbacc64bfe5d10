-------------------------------- MODULE HSLog --------------------------------
(***************************************************************************)
(* The logger (hslog.c, hslog-multicast.c), which every thread calls, and  *)
(* the thread of inotify.c that runs hslog_init again when the file of its *)
(* settings has been closed after a write.  hslog_init takes no mutex: it  *)
(* resets the settings, initialises the mutex anew and parses the file,    *)
(* while other threads are inside hslog.                                   *)
(*                                                                         *)
(* The text of the messages, their colours and the rotation of the file    *)
(* (which nothing calls) are left out.                                     *)
(***************************************************************************)
EXTENDS Integers, Sequences

CONSTANTS
  Threads,    \* threads that log, the one of main() included
  NoThread,   \* what is not a thread
  Flags,      \* severities of the messages, HSLOG_LIVE to HSLOG_PANIC
  Files,      \* contents of the file of settings: sequences of lines
  EventCap    \* events that the inotify queue holds, and the buffer of read()

Names == {"LOGLEVEL", "LOGFILELEVEL", "LOGTOFILE", "MULTICAST", "UNICAST"}

ASSUME LogAssumption ==
  /\ NoThread \notin Threads /\ Flags \subseteq Nat
  /\ Files \subseteq Seq(Names \X Int) /\ <<>> \in Files
  /\ EventCap \in Nat \ {0}

VARIABLES
  main,         \* main(): where it is in the set-up of the log
  cfg,          \* g_hslogCfg, the settings that decide where a message goes
  hslogLock,    \* its recursive mutex: owner and depth
  pc,           \* of each thread in hslog()
  flag,         \* severity of the message that a thread logs
  netOn, uniOn, \* networkLogger.networkLoggingEnabled, unicastLoggingEnabled
  netReady,     \* whether the sockets of networkLogger exist
  watch,        \* inotify_service: where it is
  lines,        \* what hslog_parse_config has still to parse
  events,       \* events of the directory, not yet handled
  file, editing, \* its content, and whether somebody has it open for writing
  status,       \* "run"; "exit" by hslog_sync_unlock; "failed" in the set-up
  reinitHeld,   \* history variable: the mutex was initialised while it was held
  reloaded,     \* history variable: hslog_init has run a second time
  missed,       \* history variable: the file was changed since it was last read, and
                \* no event tells of the last change
  commanded     \* history variable: netOn was last set by a command, not by the file

threadVars == <<pc, flag>>
fileVars   == <<file, editing, events, missed>>
netVars    == <<netOn, uniOn, netReady, commanded>>
vars == <<main, cfg, hslogLock, threadVars, netVars, watch, lines, fileVars, status,
          reinitHeld, reloaded>>

Running == status = "run"
Free    == [owner |-> NoThread, count |-> 0]

\* What hslog_init sets before it parses; both its calls pass level 0 and
\* thread safety.
Defaults == [level |-> 0, fileLevel |-> 0, toFile |-> 0]
TdUnsafe == FALSE                                              \* faulty variant
TdSafe   == TRUE

Init ==
  /\ main = "init" /\ cfg = Defaults /\ hslogLock = Free
  /\ pc = [t \in Threads |-> "idle"] /\ flag = [t \in Threads |-> 0]
  /\ netOn = FALSE /\ uniOn = FALSE /\ netReady = FALSE /\ commanded = FALSE
  /\ watch = "off" /\ lines = <<>> /\ events = <<>>
  /\ file \in Files /\ editing = FALSE
  /\ status = "run" /\ reinitHeld = FALSE /\ reloaded = FALSE /\ missed = FALSE

-------------------------------------------------------------------------------
(* hslog_parse_config *)

\* One line.  Every name that it does not know is skipped.  The levels are unsigned
\* short and nToFile has one bit.  Faulty variant: it has more.
ShortMod == 65536
Short(n) == n % ShortMod
Bits(n)  == n
Bit(n)   == n % 2
Parsed(c, line) ==
  CASE line[1] = "LOGLEVEL"     -> [c EXCEPT !.level = Short(line[2])]
    [] line[1] = "LOGFILELEVEL" -> [c EXCEPT !.fileLevel = Short(line[2])]
    [] line[1] = "LOGTOFILE"    -> [c EXCEPT !.toFile = Bit(line[2])]
    [] OTHER                    -> c
Switched(name, on, line) == IF line[1] = name THEN line[2] # 0 ELSE on

\* What the file as a whole says: the last line with a name counts.
Says(content, name) == \E i \in DOMAIN content : content[i][1] = name
Setting(content, name, default) ==
  IF Says(content, name)
  THEN LET i == CHOOSE i \in DOMAIN content :
                  /\ content[i][1] = name
                  /\ \A j \in DOMAIN content : content[j][1] = name => j <= i
       IN  content[i][2]
  ELSE default
Effective(content) ==
  [level     |-> Setting(content, "LOGLEVEL", Defaults.level) % ShortMod,
   fileLevel |-> Setting(content, "LOGFILELEVEL", Defaults.fileLevel) % ShortMod,
   toFile    |-> Setting(content, "LOGTOFILE", Defaults.toFile) % 2]

-------------------------------------------------------------------------------
(* main().  It is the only thread until start_service_check.                *)

\* The first hslog_init, whole.
MainInit ==
  /\ Running /\ main = "init"
  /\ cfg' = Effective(file)
  /\ netOn' = (Setting(file, "MULTICAST", 0) # 0)
  /\ uniOn' = (Setting(file, "UNICAST", 0) # 0)
  /\ hslogLock' = Free
  /\ main' = "config"
  /\ UNCHANGED <<threadVars, netReady, commanded, watch, lines, fileVars, status, reinitHeld,
                 reloaded>>

\* hslog_config_get, nToFile = 0, hslog_config_set.  The mutex is free and stays so.
\* Faulty variant: init_network_log is left to a later time.
MainConfigLast ==
  /\ Running /\ main = "config"
  /\ cfg' = [cfg EXCEPT !.toFile = 0]
  /\ main' = "watch"
  /\ UNCHANGED <<hslogLock, threadVars, netVars, watch, lines, fileVars, status,
                 reinitHeld, reloaded>>
MainConfig ==
  /\ Running /\ main = "config"
  /\ cfg' = [cfg EXCEPT !.toFile = 0]
  /\ main' = "network"
  /\ UNCHANGED <<hslogLock, threadVars, netVars, watch, lines, fileVars, status,
                 reinitHeld, reloaded>>

\* init_network_log makes its sockets and the thread that takes commands, or exits.
MainNetwork ==
  /\ Running /\ main = "network"
  /\ \/ netReady' = TRUE /\ main' = "watch" /\ UNCHANGED status
     \/ status' = "failed" /\ UNCHANGED <<netReady, main>>
  /\ UNCHANGED <<cfg, hslogLock, threadVars, netOn, uniOn, commanded, watch, lines, fileVars,
                 reinitHeld, reloaded>>

\* start_inotify_service.  Without it main() returns.
MainWatch ==
  /\ Running /\ main = "watch"
  /\ \/ watch' = "starting" /\ main' = "run" /\ UNCHANGED status
     \/ status' = "failed" /\ UNCHANGED <<watch, main>>
  /\ UNCHANGED <<cfg, hslogLock, threadVars, netVars, lines, fileVars, reinitHeld,
                 reloaded>>

-------------------------------------------------------------------------------
(* hslog() *)

\* The first message is logged after init_network_log.
LogBegin(t, f) ==
  /\ Running /\ main \in {"watch", "run"} /\ pc[t] = "idle"
  /\ pc' = [pc EXCEPT ![t] = "lock"]
  /\ flag' = [flag EXCEPT ![t] = f]
  /\ UNCHANGED <<main, cfg, hslogLock, netVars, watch, lines, fileVars, status,
                 reinitHeld, reloaded>>

\* hslog_sync_lock.
SyncLock(t) ==
  /\ Running /\ pc[t] = "lock"
  /\ IF TdSafe THEN /\ hslogLock.owner \in {NoThread, t}
                    /\ hslogLock' = [owner |-> t, count |-> hslogLock.count + 1]
               ELSE UNCHANGED hslogLock
  /\ pc' = [pc EXCEPT ![t] = "check"]
  /\ UNCHANGED <<main, cfg, flag, netVars, watch, lines, fileVars, status,
                 reinitHeld, reloaded>>

\* The first comparison with the levels, without which nothing is written.  (No
\* setting makes the log silent.)  Faulty variants: releases
\* the mutex, and comes to the other release; returns with it (but not a second time).
LogCheckUnlocks(t) ==
  /\ Running /\ pc[t] = "check"
  /\ pc' = [pc EXCEPT ![t] = IF flag[t] >= cfg.level \/ flag[t] >= cfg.fileLevel
                             THEN "output" ELSE "unlock"]
  /\ hslogLock' = IF pc'[t] = "unlock" THEN Free ELSE hslogLock
  /\ UNCHANGED <<main, cfg, flag, netVars, watch, lines, fileVars, status,
                 reinitHeld, reloaded>>
LogCheckReturns(t) ==
  /\ Running /\ pc[t] = "check"
  /\ pc' = [pc EXCEPT ![t] = IF flag[t] >= cfg.level \/ flag[t] >= cfg.fileLevel THEN "output"
                             ELSE IF hslogLock.count > 1 THEN "unlock" ELSE "idle"]
  /\ UNCHANGED <<main, cfg, hslogLock, flag, netVars, watch, lines, fileVars,
                 status, reinitHeld, reloaded>>
LogCheck(t) ==
  /\ Running /\ pc[t] = "check"
  /\ pc' = [pc EXCEPT ![t] = IF flag[t] >= cfg.level \/ flag[t] >= cfg.fileLevel
                             THEN "output" ELSE "unlock"]
  /\ UNCHANGED <<main, cfg, hslogLock, flag, netVars, watch, lines, fileVars,
                 status, reinitHeld, reloaded>>

\* Written to the terminal and to the file as the settings then say, and sent.
LogOutput(t) ==
  /\ Running /\ pc[t] = "output"
  /\ pc' = [pc EXCEPT ![t] = "unlock"]
  /\ UNCHANGED <<main, cfg, hslogLock, flag, netVars, watch, lines, fileVars,
                 status, reinitHeld, reloaded>>

\* hslog_sync_unlock.  A recursive mutex is released by its owner only; any other
\* thread gets EPERM, and the process exits.
SyncUnlock(t) ==
  /\ Running /\ pc[t] = "unlock"
  /\ IF TdSafe /\ hslogLock.owner # t
     THEN status' = "exit" /\ UNCHANGED <<hslogLock, pc>>
     ELSE /\ pc' = [pc EXCEPT ![t] = "idle"]
          /\ hslogLock' = IF hslogLock.count > 1 THEN [hslogLock EXCEPT !.count = @ - 1]
                                                 ELSE Free
          /\ UNCHANGED status
  /\ UNCHANGED <<main, cfg, flag, netVars, watch, lines, fileVars, reinitHeld, reloaded>>

\* process_network_logging_commands: START_LOGGING, STOP_LOGGING.
NetCommand ==
  /\ Running /\ netReady
  /\ netOn' \in BOOLEAN /\ commanded' = TRUE
  /\ UNCHANGED <<main, cfg, hslogLock, threadVars, uniOn, netReady, watch, lines, fileVars,
                 status, reinitHeld, reloaded>>

-------------------------------------------------------------------------------
(* inotify_service: watch_file and handle_events, with hslog_init.  The      *)
(* thread ends when the directory cannot be watched, and nobody notices.     *)

WatchAdd ==
  /\ Running /\ watch = "starting"
  /\ \/ watch' = "idle" /\ UNCHANGED status
     \/ watch' = "ended" /\ UNCHANGED status
     \/ status' = "failed" /\ UNCHANGED watch
  /\ UNCHANGED <<main, cfg, hslogLock, threadVars, netVars, lines, fileVars,
                 reinitHeld, reloaded>>

\* An event of the directory is queued once it is watched.  When the queue is full it
\* is lost, and the event of the overflow names no file.
Watching == watch \notin {"off", "starting", "ended"}
Queued   == Watching /\ Len(events) < EventCap
Queue(e) == events' = IF Queued THEN Append(events, e) ELSE events

\* handle_events skips what is not the end of a write to the file of settings.
\* Faulty variant: one call of hslog_init for all the events that were read, made
\* before the last of them.
WatchEventsLost ==
  /\ Running /\ watch = "idle" /\ events # <<>>
  /\ events' = <<>>
  /\ watch' = IF Len(events) = 1 /\ Head(events) = "close" THEN "reset" ELSE "idle"
  /\ UNCHANGED <<main, cfg, hslogLock, threadVars, netVars, lines, file, editing, missed,
                 status, reinitHeld, reloaded>>
WatchEvent ==
  /\ Running /\ watch = "idle" /\ events # <<>>
  /\ events' = Tail(events)
  /\ watch' = IF Head(events) = "close" THEN "reset" ELSE "idle"
  /\ UNCHANGED <<main, cfg, hslogLock, threadVars, netVars, lines, file, editing, missed,
                 status, reinitHeld, reloaded>>

\* The switches of networkLogger are not among what hslog_init resets.  Faulty variant:
\* nothing is.
ReloadKeeps ==
  /\ Running /\ watch = "reset"
  /\ reloaded' = TRUE
  /\ watch' = "sync"
  /\ UNCHANGED <<main, cfg, hslogLock, threadVars, netVars, lines, fileVars,
                 status, reinitHeld>>
ReloadDefaults ==
  /\ Running /\ watch = "reset"
  /\ cfg' = Defaults
  /\ reloaded' = TRUE
  /\ watch' = "sync"
  /\ UNCHANGED <<main, hslogLock, threadVars, netVars, lines, fileVars, status,
                 reinitHeld>>

\* hslog_sync_init: pthread_mutex_init, whoever holds the mutex.
ReloadSyncInit ==
  /\ Running /\ watch = "sync"
  /\ hslogLock' = Free
  /\ reinitHeld' = (reinitHeld \/ hslogLock.owner # NoThread)
  /\ watch' = "open"
  /\ UNCHANGED <<main, cfg, threadVars, netVars, lines, fileVars, status, reloaded>>

\* The file is shorter than the buffer of the stream: it is read at once.  Opening it
\* is an event of the directory.
ReloadOpen ==
  /\ Running /\ watch = "open"
  /\ lines' = file /\ missed' = FALSE
  /\ Queue("other")
  /\ watch' = "parse"
  /\ UNCHANGED <<main, cfg, hslogLock, threadVars, netVars, file, editing, status, reinitHeld,
                 reloaded>>

ReloadLine ==
  /\ Running /\ watch = "parse" /\ lines # <<>>
  /\ cfg' = Parsed(cfg, Head(lines))
  /\ netOn' = Switched("MULTICAST", netOn, Head(lines))
  /\ uniOn' = Switched("UNICAST", uniOn, Head(lines))
  /\ commanded' = (commanded /\ Head(lines)[1] # "MULTICAST")
  /\ lines' = Tail(lines)
  /\ UNCHANGED <<main, hslogLock, threadVars, netReady, watch, fileVars, status, reinitHeld,
                 reloaded>>

ReloadDone ==
  /\ Running /\ watch = "parse" /\ lines = <<>>
  /\ watch' = "idle"
  /\ UNCHANGED <<main, cfg, hslogLock, threadVars, netVars, lines, fileVars,
                 status, reinitHeld, reloaded>>

-------------------------------------------------------------------------------
(* Whoever edits the file truncates it, writes it and closes it.  The watch   *)
(* is on the directory: the other files of /etc make events as well.         *)

EditOpen ==
  /\ ~editing
  /\ editing' = TRUE /\ file' = <<>>
  /\ Queue("other")
  /\ UNCHANGED <<main, cfg, hslogLock, threadVars, netVars, watch, lines, missed, status,
                 reinitHeld, reloaded>>

EditClose(content) ==
  /\ editing
  /\ editing' = FALSE /\ file' = content
  /\ Queue("close")
  /\ missed' = (~Queued /\ main # "init")
  /\ UNCHANGED <<main, cfg, hslogLock, threadVars, netVars, watch, lines, status, reinitHeld,
                 reloaded>>

OtherFile ==
  /\ Queued /\ Queue("other")
  /\ UNCHANGED <<main, cfg, hslogLock, threadVars, netVars, watch, lines, file, editing,
                 missed, status, reinitHeld, reloaded>>

Main    == MainInit \/ MainConfig \/ MainNetwork \/ MainWatch
Log(t)  == (\E f \in Flags : LogBegin(t, f)) \/ SyncLock(t) \/ LogCheck(t) \/ LogOutput(t)
             \/ SyncUnlock(t)
Reload  == ReloadDefaults \/ ReloadSyncInit \/ ReloadOpen \/ ReloadLine \/ ReloadDone
Watch   == WatchAdd \/ WatchEvent \/ Reload
Editor  == EditOpen \/ (\E content \in Files : EditClose(content)) \/ OtherFile

Next == Main \/ (\E t \in Threads : Log(t)) \/ NetCommand \/ Watch \/ Editor

Spec == Init /\ [][Next]_vars

\* The thread that watches does not stop, and a thread in hslog goes on.  No thread
\* logs without a pause: who waits for the mutex gets it in the end.
Fairness ==
  /\ WF_vars(WatchEvent \/ Reload)
  /\ \A t \in Threads : /\ SF_vars(SyncLock(t)) /\ WF_vars(LogCheck(t))
                        /\ WF_vars(LogOutput(t)) /\ WF_vars(SyncUnlock(t))

FairSpec == Spec /\ Fairness

-------------------------------------------------------------------------------
(* Properties *)

\* The type of every variable.
Settings  == [level : 0..(ShortMod - 1), fileLevel : 0..(ShortMod - 1), toFile : 0..1]
Mutexes   == [owner : Threads \cup {NoThread}, count : Nat]
Positions == {"idle", "lock", "check", "output", "unlock"}
Queues    == {q \in Seq({"close", "other"}) : Len(q) <= EventCap}
TypeOK ==
  /\ main \in {"init", "config", "network", "watch", "run"}
  /\ cfg \in Settings
  /\ hslogLock \in Mutexes
  /\ pc \in [Threads -> Positions]
  /\ flag \in [Threads -> Nat]
  /\ netOn \in BOOLEAN /\ uniOn \in BOOLEAN /\ netReady \in BOOLEAN /\ commanded \in BOOLEAN
  /\ watch \in {"off", "starting", "ended", "idle", "reset", "sync", "open", "parse"}
  /\ lines \in Seq(Names \X Int)
  /\ events \in Queues
  /\ file \in Files /\ editing \in BOOLEAN
  /\ status \in {"run", "exit", "failed"}
  /\ reinitHeld \in BOOLEAN /\ reloaded \in BOOLEAN /\ missed \in BOOLEAN

\* Exactly the thread that is inside hslog owns the mutex, and once: no message is
\* written by two threads at a time and no return leaves the mutex behind, until
\* hslog_init initialises it under a thread that holds it.
Inside == {"check", "output", "unlock"}
LockDiscipline ==
  ~reinitHeld =>
    /\ \A t \in Threads : pc[t] \in Inside <=> hslogLock.owner = t
    /\ hslogLock.count = IF hslogLock.owner = NoThread THEN 0 ELSE 1

\* "Slog can not unlock mutex" has no other cause: a process that exits in
\* hslog_sync_unlock had its mutex initialised under the thread that held it.
ExitOnlyAfterReinit == status = "exit" => reinitHeld

\* Nothing is sent before init_network_log has made the sockets (descriptor 0 is
\* none of them), although the first hslog_init may have enabled either of the two
\* ways to send.
SendsOnSocket == \A t \in Threads : (pc[t] = "output" /\ (netOn \/ uniOn)) => netReady

\* A call of hslog returns, unless the process ends.
CallsReturn == \A t \in Threads : pc[t] = "lock" ~> (pc[t] = "idle" \/ ~Running)

\* The settings are those of the file.  nToFile is not before the first reload, since
\* main() overrides it.  The switches are when the file has a line for them (without one
\* they stay as they were, whatever an earlier content said), the one of MULTICAST until
\* a command from the network sets it.
UpToDate ==
  /\ cfg.level = Effective(file).level /\ cfg.fileLevel = Effective(file).fileLevel
  /\ reloaded => cfg.toFile = Effective(file).toFile
  /\ Says(file, "UNICAST") => (uniOn <=> Setting(file, "UNICAST", 0) # 0)
  /\ Says(file, "MULTICAST") => commanded \/ (netOn <=> Setting(file, "MULTICAST", 0) # 0)

Pending == \E k \in DOMAIN events : events[k] = "close"

\* When the thread that watches waits and no change of the file is left to it in the
\* queue, the settings are what the file says: no change that was made while it
\* reloaded is forgotten, and no level of an earlier content survives.  Excepted is
\* a change that no event tells of: the directory was not watched yet, or the queue
\* was full, with events of any files of /etc, when the file was closed.
SettledIsCurrent ==
  (watch = "idle" /\ ~Pending /\ ~editing) => UpToDate \/ missed

\* The settings catch up with the file: when nobody edits it any more, they are in
\* the end what it says, however the edits and the reloads overlapped and whatever
\* else is queued, with the exceptions of SettledIsCurrent.
Converges ==
  <>[](~editing) => <>[](Running /\ Watching => UpToDate \/ missed)

-------------------------------------------------------------------------------
(* What the program takes for granted and its reload breaks *)

\* hslog_sync_unlock treats a failure to unlock as fatal: it never happens.
UnlockSucceeds == status # "exit"
===============================================================================
