------------------------------ MODULE Logging ------------------------------
(***************************************************************************)
(* pkg/zlog: the global Logger, which the package's init() makes from the  *)
(* configuration file, and which a goroutine of the file watcher replaces  *)
(* whenever the file changes.  Nothing orders the two, nor either of them  *)
(* and the goroutines that log; a pointer is read and written whole.       *)
(*                                                                         *)
(* A configuration is what its Level says; the watcher is viper's.         *)
(***************************************************************************)
EXTENDS Naturals

CONSTANT Config  \* the levels a readable configuration file may ask for

\* What else may be in the file's place.
Unreadable == {"missing", "broken"}
FileState == Config \cup Unreadable

ASSUME LoggingAssumption == Config \cap Unreadable = {}

VARIABLES
  start,      \* how far init() is; main() runs after it
  conf,       \* the configuration it goes by
  logger,     \* the Logger: nil, or the level it writes from
  watch,      \* viper's watcher
  announced,  \* has it an event that the file was written or replaced?
  removed,    \* ... and after that, one that it was removed?
  reload,     \* how far the watcher is in the callback
  fresh,      \* the configuration the callback has read
  file,       \* the configuration file
  early,      \* did it last change between being read and the end of init()?
  panic       \* what brought the process down

startVars == <<start, conf>>
watcherVars == <<watch, announced, removed, reload, fresh>>
fileVars == <<file, early>>
loggingVars == <<startVars, logger, watcherVars, fileVars, panic>>

logLevel == {"debug", "info", "warn", "error"}
NoLogger == "nil"

\* getDefaultConf, as far as it matters here.
defaultConf == "info"

LoggingTypeOK ==
  /\ start \in {"loadConfig", "watchConfig", "onChange", "setLogger", "done"}
  /\ conf \in Config \cup {defaultConf}
  /\ logger \in logLevel \cup {NoLogger}
  /\ watch \in {"off", "on", "ended"}
  /\ announced \in BOOLEAN /\ removed \in BOOLEAN /\ early \in BOOLEAN
  /\ reload \in {"idle", "warn", "parseConfig", "setLogger"}
  /\ fresh \in Config \cup {defaultConf}
  /\ file \in FileState
  /\ panic \in {"none", "nilLogger", "fatalLine"}

LoggingInit ==
  /\ start = "loadConfig" /\ conf = defaultConf
  /\ logger = NoLogger
  /\ watch = "off" /\ announced = FALSE /\ removed = FALSE
  /\ reload = "idle" /\ fresh = defaultConf
  /\ file \in FileState /\ early = FALSE
  /\ panic = "none"

\* GetLogger: a level it does not know is info.
GetLogger(c) == IF c \in logLevel THEN c ELSE "info"

\* LogInfof, LogWarn and all the others, and Logger's own methods: without a
\* Logger they panic.
Log == panic' = IF logger = NoLogger THEN "nilLogger" ELSE "none"

\* LogFatal, LogPanic and their kin: the line is the program's last.
LogFatal == logger # NoLogger /\ panic' = "fatalLine"

\* The rest of the program logs at any moment, and first in main().
LogLine ==
  /\ start = "done"
  /\ Log \/ LogFatal
  /\ UNCHANGED <<startVars, logger, watcherVars, fileVars>>
-----------------------------------------------------------------------------
(* init(), before main(). *)

Start(from, to) ==
  /\ start = from
  /\ start' = to
  /\ UNCHANGED <<announced, removed, reload, fresh, fileVars, panic>>

\* loadConfig: a file that cannot be read now is never watched.
LoadConfig ==
  /\ \/ /\ file \in Config
        /\ Start("loadConfig", "watchConfig") /\ conf' = file
     \/ /\ file \in Unreadable
        /\ Start("loadConfig", "setLogger") /\ conf' = defaultConf
  /\ UNCHANGED <<logger, watch>>

\* WatchConfig returns when the watcher is at work ...
WatchConfig ==
  /\ Start("watchConfig", "onChange")
  /\ watch' = "on"
  /\ UNCHANGED <<conf, logger>>

\* ... and only then is it told what to call.
OnConfigChange ==
  /\ Start("onChange", "setLogger")
  /\ UNCHANGED <<conf, logger, watch>>

SetLogger ==
  /\ Start("setLogger", "done")
  /\ logger' = GetLogger(conf)
  /\ UNCHANGED <<conf, watch>>

\* Faulty: the callback is registered too late for the changes of a day.
NeverRegistered == FALSE

Registered == start \in {"setLogger", "done"}
-----------------------------------------------------------------------------
(* The watcher's goroutine. *)

Watcher(from, to) ==
  /\ watch = "on" /\ reload = from
  /\ reload' = to
  /\ UNCHANGED <<startVars, fileVars>>

\* It takes an event; the callback is called if there is one.
TakeEvent ==
  /\ announced
  /\ Watcher("idle", IF Registered THEN "warn" ELSE "idle")
  /\ announced' = FALSE
  /\ UNCHANGED <<logger, watch, removed, fresh, panic>>

\* On the event of a removal viper stops watching.
EndWatch ==
  /\ ~announced /\ removed
  /\ Watcher("idle", "idle")
  /\ watch' = "ended"
  /\ UNCHANGED <<logger, announced, removed, fresh, panic>>

\* The callback's first statement logs.
WarnChanged ==
  /\ Watcher("warn", "parseConfig")
  /\ Log
  /\ UNCHANGED <<logger, watch, announced, removed, fresh>>

\* Faulty: a file that cannot be read leaves no Logger.
ParseOrNil ==
  /\ \/ /\ file \in Config
        /\ Watcher("parseConfig", "setLogger") /\ fresh' = file /\ UNCHANGED logger
     \/ /\ file \in Unreadable
        /\ Watcher("parseConfig", "idle") /\ logger' = NoLogger
        /\ UNCHANGED fresh
  /\ UNCHANGED <<watch, announced, removed, panic>>

\* A file that cannot be read now leaves the Logger as it is, and a line in it.
ParseConfig ==
  /\ \/ /\ file \in Config
        /\ Watcher("parseConfig", "setLogger") /\ fresh' = file /\ UNCHANGED panic
     \/ /\ file \in Unreadable
        /\ Watcher("parseConfig", "idle") /\ Log /\ UNCHANGED fresh
  /\ UNCHANGED <<logger, watch, announced, removed>>

\* Faulty: the events that arrived meanwhile are thrown away.
ReplaceAndForget ==
  /\ Watcher("setLogger", "idle")
  /\ logger' = GetLogger(fresh)
  /\ announced' = FALSE
  /\ UNCHANGED <<watch, removed, fresh, panic>>

\* Faulty: it goes by the configuration that init() has read.
ReplaceByOld ==
  /\ Watcher("setLogger", "idle")
  /\ logger' = GetLogger(conf)
  /\ UNCHANGED <<watch, announced, removed, fresh, panic>>

ReplaceLogger ==
  /\ Watcher("setLogger", "idle")
  /\ logger' = GetLogger(fresh)
  /\ UNCHANGED <<watch, announced, removed, fresh, panic>>
-----------------------------------------------------------------------------
(* Whoever edits the file.  Events that follow a removal are never taken.  *)

FileBecomes(content) ==
  /\ file' = content
  /\ early' = (start \notin {"loadConfig", "done"})
  /\ UNCHANGED <<startVars, logger, watch, reload, fresh, panic>>

\* It is written, in one or several steps, or another one put in its place.
WriteFile ==
  /\ \E content \in Config \cup {"broken"} : FileBecomes(content)
  /\ announced' = (announced \/ (watch = "on" /\ ~removed))
  /\ UNCHANGED removed

\* It is removed, or moved away, which the watcher does not mind.
RemoveFile ==
  /\ file # "missing" /\ FileBecomes("missing")
  /\ \/ UNCHANGED removed
     \/ watch = "on" /\ removed' = TRUE
  /\ UNCHANGED announced
-----------------------------------------------------------------------------
StartStep == LoadConfig \/ WatchConfig \/ OnConfigChange \/ SetLogger

WatcherStep ==
  TakeEvent \/ EndWatch \/ WarnChanged \/ ParseConfig \/ ReplaceLogger

FileStep == WriteFile \/ RemoveFile

LoggingNext ==
  panic = "none" /\ (StartStep \/ LogLine \/ WatcherStep \/ FileStep)

LoggingSpec == LoggingInit /\ [][LoggingNext]_loggingVars

\* Both goroutines run; nobody has to edit the file.
FairLoggingSpec ==
  LoggingSpec /\ WF_loggingVars(StartStep) /\ WF_loggingVars(WatcherStep)
-----------------------------------------------------------------------------
\* Logging never stops the process, but for an event that arrives after the
\* callback was registered and before init() stores the first Logger (log.go,
\* lines 63-71 and 124-140).
NilLoggerNeedsRace ==
  panic = "nilLogger" => start = "setLogger" /\ early

\* A readable configuration that was put in place after init() is in force,
\* or the watcher has yet to come to it, as long as the file was not removed
\* since: viper then stops watching (log.go, lines 124-140).
NoChangeMissed ==
  (/\ start = "done" /\ ~early
   /\ watch = "on" /\ ~removed
   /\ file \in Config /\ logger # GetLogger(file))
  => announced \/ reload # "idle"

\* Before init() is over there is no Logger, and an event can only be about a
\* change that came early.
StartInv ==
  /\ start = "done" <=> logger # NoLogger
  /\ start \in {"loadConfig", "watchConfig"} => watch = "off"
  /\ start = "loadConfig" => ~early
  /\ start = "watchConfig" /\ ~early => conf = file
  /\ watch = "off" => ~announced /\ ~removed /\ reload = "idle"
  /\ start # "done" /\ (announced \/ reload # "idle") => early

\* The callback is called once it is registered, and gets past its first
\* statement only with a Logger.
CallbackInv ==
  /\ reload # "idle" => Registered /\ watch = "on"
  /\ reload \in {"parseConfig", "setLogger"} /\ panic = "none" => start = "done"

\* What init() or the callback has read is what the file says, unless it was
\* changed since: early, or with an event that is still to be taken.
FreshInv ==
  ~early /\ ~announced /\ file \in Config /\ watch = "on" /\ ~removed =>
    /\ start \in {"onChange", "setLogger"} => conf = file
    /\ reload = "setLogger" => fresh = file
    /\ start = "done" /\ reload = "idle" => logger = GetLogger(file)

\* The reason why the two hold (log.go, lines 63-154).
LoggingInv ==
  /\ LoggingTypeOK
  /\ NilLoggerNeedsRace
  /\ StartInv
  /\ CallbackInv
  /\ FreshInv

\* And the watcher comes to it, if the process lives on (log.go, lines 127-138).
Reloads ==
  \A c \in Config :
    start = "done" /\ ~early /\ watch = "on" /\ ~removed /\ file = c
      ~> logger = GetLogger(c) \/ file # c \/ removed \/ panic = "fatalLine"
=============================================================================
