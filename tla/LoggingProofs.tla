---------------------------- MODULE LoggingProofs ----------------------------
(***************************************************************************)
(* That logging is safe but for one race, and that the watcher misses no   *)
(* change, whatever levels a configuration may ask for.                    *)
(***************************************************************************)
EXTENDS Logging, TLAPS

USE LoggingAssumption

\* GetLogger always makes one (log.go, lines 110-120).
LEMMA LoggerMade == \A c : GetLogger(c) \in logLevel /\ GetLogger(c) # NoLogger
BY DEF GetLogger, logLevel, NoLogger

\* The steps of init() keep the invariant.
LEMMA StartKeeps ==
  ASSUME LoggingInv, panic = "none", StartStep
  PROVE  LoggingInv'
<1> USE DEF LoggingInv, LoggingTypeOK, NilLoggerNeedsRace, StartInv, CallbackInv,
            FreshInv, Registered, Start, fileVars, FileState, Unreadable
<1>1. CASE LoadConfig
  BY <1>1 DEF LoadConfig
<1>2. CASE WatchConfig
  BY <1>2 DEF WatchConfig
<1>3. CASE OnConfigChange
  BY <1>3 DEF OnConfigChange
<1>4. CASE SetLogger
  BY <1>4, LoggerMade DEF SetLogger
<1> QED
  BY <1>1, <1>2, <1>3, <1>4 DEF StartStep

\* Nobody else finds the Logger missing.
LEMMA LineKeeps ==
  ASSUME LoggingInv, panic = "none", LogLine
  PROVE  LoggingInv'
<1> USE DEF LoggingInv, LoggingTypeOK, NilLoggerNeedsRace, StartInv, CallbackInv,
            FreshInv, Registered, startVars, watcherVars, fileVars, FileState
<1>1. CASE LogFatal
  BY <1>1 DEF LogLine, LogFatal
<1>2. CASE Log
  BY <1>2 DEF LogLine, Log
<1> QED
  BY <1>1, <1>2 DEF LogLine

\* The steps of the watcher keep it.
LEMMA WatcherKeeps ==
  ASSUME LoggingInv, panic = "none", WatcherStep
  PROVE  LoggingInv'
<1> USE DEF LoggingInv, LoggingTypeOK, NilLoggerNeedsRace, StartInv, CallbackInv,
            FreshInv, Registered, Watcher, startVars, fileVars, FileState,
            Unreadable
<1>1. CASE TakeEvent
  BY <1>1 DEF TakeEvent
<1>2. CASE EndWatch
  BY <1>2 DEF EndWatch
<1>3. CASE WarnChanged
  BY <1>3 DEF WarnChanged, Log
<1>4. CASE ParseConfig
  BY <1>4 DEF ParseConfig, Log
<1>5. CASE ReplaceLogger
  BY <1>5, LoggerMade DEF ReplaceLogger
<1> QED
  BY <1>1, <1>2, <1>3, <1>4, <1>5 DEF WatcherStep

\* A change is early, or announced, or follows a removal.
LEMMA FileKeeps ==
  ASSUME LoggingInv, panic = "none", FileStep
  PROVE  LoggingInv'
<1> USE DEF LoggingInv, LoggingTypeOK, NilLoggerNeedsRace, StartInv, CallbackInv,
            FreshInv, Registered, FileBecomes, startVars, FileState, Unreadable
<1>1. CASE WriteFile
  BY <1>1 DEF WriteFile
<1>2. CASE RemoveFile
  <2>1. "missing" \in FileState /\ "missing" \notin Config
    OBVIOUS
  <2>2. file' = "missing" /\ UNCHANGED <<start, conf, logger, watch, reload,
                                        fresh, announced, panic>>
    BY <1>2 DEF RemoveFile
  <2>3. removed' \in BOOLEAN /\ (removed' # removed => watch = "on")
    BY <1>2 DEF RemoveFile
  <2>4. early' = (start \notin {"loadConfig", "done"})
    BY <1>2 DEF RemoveFile
  <2> QED
    BY <2>1, <2>2, <2>3, <2>4
<1> QED
  BY <1>1, <1>2 DEF FileStep

\* Why logging is safe is inductive: how far init() is decides what there is of
\* a Logger, and a Logger that differs from the file has an event on its way.
THEOREM LoggingInductive == LoggingSpec => []LoggingInv
<1>1. LoggingInit => LoggingInv
  BY DEF LoggingInit, LoggingInv, LoggingTypeOK, NilLoggerNeedsRace, StartInv,
         CallbackInv, FreshInv, Registered, logLevel, NoLogger
<1>2. LoggingInv /\ [LoggingNext]_loggingVars => LoggingInv'
  <2>1. LoggingInv /\ LoggingNext => LoggingInv'
    BY StartKeeps, LineKeeps, WatcherKeeps, FileKeeps DEF LoggingNext
  <2>2. LoggingInv /\ UNCHANGED loggingVars => LoggingInv'
    BY DEF LoggingInv, LoggingTypeOK, NilLoggerNeedsRace, StartInv, CallbackInv,
           FreshInv, Registered, loggingVars, startVars, watcherVars, fileVars,
           FileState
  <2> QED
    BY <2>1, <2>2
<1> QED
  BY <1>1, <1>2, PTL DEF LoggingSpec

\* Whatever is done to the configuration file and when, logging stops the
\* process only by an event between the registration of the callback and the
\* first Logger.
THEOREM NilLoggerIsRace == LoggingSpec => []NilLoggerNeedsRace
<1>1. LoggingInv => NilLoggerNeedsRace
  BY DEF LoggingInv
<1> QED
  BY <1>1, LoggingInductive, PTL

\* A watched configuration is in force or on its way, whatever levels it asks
\* for and however often it changes.
THEOREM ChangesArrive == LoggingSpec => []NoChangeMissed
<1>1. LoggingInv => NoChangeMissed
  BY DEF LoggingInv, LoggingTypeOK, FreshInv, NoChangeMissed
<1> QED
  BY <1>1, LoggingInductive, PTL
=============================================================================
