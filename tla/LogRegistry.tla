---------------------------- MODULE LogRegistry ----------------------------
(***************************************************************************)
(* spdlog's registry, through which init_log and every SPDLOG_INFO of the  *)
(* node go: the map of loggers and the default logger, the settings each   *)
(* logger is given, and the periodic flusher, a thread of its own that     *)
(* flush_every and shutdown replace and join.                              *)
(*                                                                         *)
(* What a method does under logger_map_mutex_ is one step, except that     *)
(* flush_all may wait for a sink.  Formatter, flush level, error handler   *)
(* and backtrace are handled alike and are one setting.                    *)
(***************************************************************************)
EXTENDS Naturals, FiniteSets

CONSTANTS
  Threads, Names, Loggers, Flushers,
  NameOf,     \* the name each logger is constructed with
  First,      \* the logger the registry's constructor makes
  Levels, Settings,
  Tables,     \* the tables of levels by name that are configured
  None


VARIABLES
  loggers_,      \* the map
  default_,      \* default_logger_
  log_levels_,   \* levels configured by name
  global_level,  \* global_log_level_
  setting_,      \* the current setting
  automatic,     \* automatic_registration_
  level,         \* of each logger
  setting,       \* of each logger
  dirty,         \* loggers with messages that are not flushed
  map_lock,      \* logger_map_mutex_, held across flush_all
  flusher_lock,  \* flusher_mutex_
  installed,     \* periodic_flusher_ (None too if its interval is zero)
  old,           \* the worker the holder of flusher_mutex_ destroys
  pc,            \* each thread: "idle", "stopping", "joining" or "dropping"
  ending,        \* the threads in shutdown
  fstate,        \* each worker thread: "unborn", "waiting", "called", "flushing", "gone"
  active,        \* active_ of each worker
  tracked,       \* history: loggers registered without a break since initialize_logger
  uniform        \* history: existing and future loggers have equal levels

mapVars     == <<loggers_, default_, tracked>>
levelVars   == <<log_levels_, global_level, level, uniform>>
settingVars == <<setting_, setting, automatic>>
flushVars   == <<dirty, map_lock, flusher_lock, installed, old, pc, ending, fstate, active>>
vars == <<mapVars, levelVars, settingVars, flushVars>>

Registered == {l \in Loggers : loggers_[NameOf[l]] = l}
RegisteredAfter == {l \in Loggers : loggers_'[NameOf[l]] = l}
Default == IF default_ = None THEN {} ELSE {default_}

(* Where a thread goes on once the old flusher is joined.                  *)
After(t) == IF t \in ending THEN "dropping" ELSE "idle"

-----------------------------------------------------------------------------
(* Slips a change of the code could make.                                  *)

DropDefault_Forgotten(n) == UNCHANGED default_
MayFlush_BothLocks == map_lock = None /\ flusher_lock = None
Retire_Detached(t) ==
  /\ pc' = [pc EXCEPT ![t] = After(t)] /\ flusher_lock' = None /\ old' = None

-----------------------------------------------------------------------------
Init ==
  /\ loggers_ = [n \in Names |-> IF n = NameOf[First] THEN First ELSE None]
  /\ default_ = First
  /\ \E v \in Levels, s \in Settings :
       /\ global_level = v /\ level = [l \in Loggers |-> v]
       /\ setting_ = s /\ setting = [l \in Loggers |-> s]
  /\ log_levels_ = [n \in Names |-> None]
  /\ automatic = TRUE
  /\ dirty = {} /\ map_lock = None /\ flusher_lock = None
  /\ installed = None /\ old = None
  /\ pc = [t \in Threads |-> "idle"]
  /\ ending = {}
  /\ fstate = [f \in Flushers |-> "unborn"]
  /\ active = [f \in Flushers |-> FALSE]
  /\ tracked = {First}
  /\ uniform = TRUE

(* Every public method that takes logger_map_mutex_ and gives it back.     *)
MapMethod == map_lock = None /\ UNCHANGED <<map_lock, flusher_lock, installed, old, pc, ending, fstate, active>>

(* A logger that leaves the map takes its unflushed messages with it: its  *)
(* sink's file is flushed when it is closed.                               *)
Forget == /\ tracked' = tracked \cap RegisteredAfter
          /\ dirty' = dirty \cap RegisteredAfter

LevelOfNew(l) ==
  IF log_levels_[NameOf[l]] # None THEN log_levels_[NameOf[l]] ELSE global_level

(* initialize_logger configures a new logger and registers it, or throws   *)
(* because the name is taken; the caller's logger is configured by then.   *)
Initialize(l) ==
  /\ MapMethod
  /\ l \notin Registered
  /\ setting' = [setting EXCEPT ![l] = setting_]
  /\ level' = [level EXCEPT ![l] = LevelOfNew(l)]
  /\ IF automatic /\ loggers_[NameOf[l]] = None
       THEN /\ loggers_' = [loggers_ EXCEPT ![NameOf[l]] = l]
            /\ tracked' = tracked \cup {l}
       ELSE UNCHANGED <<loggers_, tracked>>
  /\ UNCHANGED <<default_, log_levels_, global_level, uniform, setting_, automatic, dirty>>

(* register_logger takes a logger as its owner configured it.              *)
Register(l) ==
  /\ MapMethod
  /\ loggers_[NameOf[l]] = None
  /\ loggers_' = [loggers_ EXCEPT ![NameOf[l]] = l]
  /\ UNCHANGED <<default_, tracked, levelVars, settingVars, dirty>>

SetDefault(l) ==
  /\ MapMethod
  /\ loggers_' = [n \in Names |->
       IF l # None /\ n = NameOf[l] THEN l
       ELSE IF \E d \in Default : n = NameOf[d] THEN None ELSE loggers_[n]]
  /\ default_' = l
  /\ Forget
  /\ UNCHANGED <<levelVars, settingVars>>

DropDefault(n) == default_' = IF \E d \in Default : NameOf[d] = n THEN None ELSE default_

Drop(n) ==
  /\ MapMethod
  /\ loggers_' = [loggers_ EXCEPT ![n] = None]
  /\ DropDefault(n)
  /\ Forget
  /\ UNCHANGED <<levelVars, settingVars>>

Empty == loggers_' = [n \in Names |-> None] /\ default_' = None /\ Forget

DropAll == MapMethod /\ Empty /\ UNCHANGED <<levelVars, settingVars>>

(* set_formatter, enable_backtrace, disable_backtrace, flush_on and        *)
(* set_error_handler.                                                      *)
Reconfigure(v) == setting' = [l \in Loggers |-> IF l \in Registered THEN v ELSE setting[l]]

SetSetting(v) ==
  /\ MapMethod
  /\ setting_' = v
  /\ Reconfigure(v)
  /\ UNCHANGED <<mapVars, levelVars, automatic, dirty>>

SetLevel(v) ==
  /\ MapMethod
  /\ global_level' = v
  /\ level' = [l \in Loggers |-> IF l \in Registered THEN v ELSE level[l]]
  /\ uniform' = (\A n \in Names : log_levels_[n] = None)
  /\ UNCHANGED <<mapVars, log_levels_, settingVars, dirty>>

(* set_levels, with or without a global level: cfg::load_env_levels.       *)
SetLevels(table, g) ==
  /\ MapMethod
  /\ log_levels_' = table
  /\ global_level' = IF g # None THEN g ELSE global_level
  /\ level' = [l \in Loggers |->
       IF l \notin Registered THEN level[l]
       ELSE IF table[NameOf[l]] # None THEN table[NameOf[l]]
       ELSE IF g # None THEN g ELSE level[l]]
  /\ uniform' = (g # None \/ (uniform /\ \A n \in Names : log_levels_[n] # None => table[n] # None))
  /\ UNCHANGED <<mapVars, settingVars, dirty>>

SetAutomatic(b) ==
  MapMethod /\ automatic' = b /\ UNCHANGED <<mapVars, levelVars, setting_, setting, dirty>>

(* A message reaches the sinks of a logger.                                *)
Log(l) ==
  /\ l \in Registered
  /\ dirty' = dirty \cup {l}
  /\ UNCHANGED <<mapVars, levelVars, settingVars, map_lock, flusher_lock, installed, old,
                 pc, ending, fstate, active>>

-----------------------------------------------------------------------------
(* The periodic flusher.  flush_every starts the new worker and only then  *)
(* destroys the old one, all under flusher_mutex_; shutdown destroys it,   *)
(* then empties the map.                                                   *)

Rest == UNCHANGED <<levelVars, settingVars>>

Replace(t, f) ==
  /\ pc[t] = "idle" /\ flusher_lock = None
  /\ old' = installed
  /\ installed' = f
  /\ flusher_lock' = IF installed = None THEN None ELSE t
  /\ pc' = [pc EXCEPT ![t] = IF installed = None THEN After(t)' ELSE "stopping"]
  /\ UNCHANGED <<mapVars, dirty, map_lock>> /\ Rest

(* A positive interval starts a thread; zero leaves an inactive worker.    *)
FlushEvery(t, f) ==
  /\ fstate[f] \in {"unborn", "gone"}
  /\ fstate' = [fstate EXCEPT ![f] = "waiting"]
  /\ active' = [active EXCEPT ![f] = TRUE]
  /\ UNCHANGED ending
  /\ Replace(t, f)

FlushNever(t) == UNCHANGED <<ending, fstate, active>> /\ Replace(t, None)

Shutdown(t) ==
  ending' = ending \cup {t} /\ UNCHANGED <<fstate, active>> /\ Replace(t, None)

ShutdownDrops(t) ==
  /\ pc[t] = "dropping" /\ map_lock = None
  /\ Empty
  /\ pc' = [pc EXCEPT ![t] = "idle"]
  /\ ending' = ending \ {t}
  /\ UNCHANGED <<map_lock, flusher_lock, installed, old, fstate, active>> /\ Rest

(* ~periodic_worker: active_ = false under the worker's mutex_, which the  *)
(* worker holds while it flushes, then notify and join.                    *)
StopWorker(t) ==
  /\ pc[t] = "stopping"
  /\ fstate[old] \notin {"called", "flushing"}
  /\ active' = [active EXCEPT ![old] = FALSE]
  /\ pc' = [pc EXCEPT ![t] = "joining"]
  /\ UNCHANGED <<mapVars, dirty, map_lock, flusher_lock, installed, old, ending, fstate>> /\ Rest

Retire(t) ==
  /\ fstate[old] = "gone"
  /\ pc' = [pc EXCEPT ![t] = After(t)] /\ flusher_lock' = None /\ old' = None

Join(t) ==
  /\ pc[t] = "joining"
  /\ Retire(t)
  /\ UNCHANGED <<mapVars, dirty, map_lock, installed, ending, fstate, active>> /\ Rest

(* The worker: its wait ends with the interval or the notification.        *)
Wake(f) ==
  /\ fstate[f] = "waiting"
  /\ fstate' = [fstate EXCEPT ![f] = IF active[f] THEN "called" ELSE "gone"]
  /\ UNCHANGED <<mapVars, dirty, map_lock, flusher_lock, installed, old, pc, ending, active>> /\ Rest

MayFlush == map_lock = None

BeginFlush(f) ==
  /\ fstate[f] = "called"
  /\ MayFlush
  /\ map_lock' = f
  /\ fstate' = [fstate EXCEPT ![f] = "flushing"]
  /\ UNCHANGED <<mapVars, dirty, flusher_lock, installed, old, pc, ending, active>> /\ Rest

Flushed == Registered

EndFlush(f) ==
  /\ fstate[f] = "flushing"
  /\ dirty' = dirty \ Flushed
  /\ map_lock' = None
  /\ fstate' = [fstate EXCEPT ![f] = "waiting"]
  /\ UNCHANGED <<mapVars, flusher_lock, installed, old, pc, ending, active>> /\ Rest

FlusherStep(f) == Wake(f) \/ BeginFlush(f) \/ EndFlush(f)
ThreadStep(t) == StopWorker(t) \/ Join(t) \/ ShutdownDrops(t)

-----------------------------------------------------------------------------
Configure ==
  \/ \E l \in Loggers : Initialize(l) \/ Register(l) \/ (Threads # {} /\ Log(l))
  \/ \E l \in Loggers \cup {None} : SetDefault(l)
  \/ \E n \in Names : Drop(n)
  \/ DropAll
  \/ \E v \in Settings : SetSetting(v)
  \/ \E v \in Levels : SetLevel(v)
  \/ \E table \in Tables, g \in Levels \cup {None} : SetLevels(table, g)
  \/ \E b \in BOOLEAN : SetAutomatic(b)

Next ==
  \/ Configure
  \/ \E t \in Threads :
       ThreadStep(t) \/ FlushNever(t) \/ Shutdown(t) \/ \E f \in Flushers : FlushEvery(t, f)
  \/ \E f \in Flushers : FlusherStep(f)

Spec == Init /\ [][Next]_vars

(* Threads run and intervals pass.  A mutex is had at last by who asks     *)
(* again and again: a flusher keeps its own and the map's only while it    *)
(* flushes, and sleeps a second or more in between.                        *)
FairSpec ==
  /\ Spec
  /\ \A t \in Threads : SF_vars(StopWorker(t)) /\ WF_vars(Join(t)) /\ SF_vars(ShutdownDrops(t))
  /\ \A f \in Flushers : WF_vars(Wake(f)) /\ SF_vars(BeginFlush(f)) /\ WF_vars(EndFlush(f))

-----------------------------------------------------------------------------
(* The default logger is the one the map holds under its name: what        *)
(* SPDLOG_INFO writes to is what set_pattern and the flusher reach.        *)
DefaultIsRegistered == \A d \in Default : loggers_[NameOf[d]] = d

(* No change of a setting misses a logger, whether it came before the      *)
(* logger was initialised or after.                                        *)
SettingsReachAll == \A l \in tracked : setting[l] = setting_

(* A level configured by name or globally holds alike for loggers that     *)
(* exist and for those made later.                                         *)
LevelsAsConfigured ==
  uniform => \A l \in tracked :
    \/ log_levels_[NameOf[l]] # None /\ level[l] = log_levels_[NameOf[l]]
    \/ log_levels_[NameOf[l]] = None /\ level[l] = global_level

(* The three together: what the registry says of its loggers is so.        *)
RegistryAgrees == DefaultIsRegistered /\ SettingsReachAll /\ LevelsAsConfigured

(* No flusher thread is orphaned: it is the installed one, or whoever      *)
(* holds flusher_mutex_ is about to join it.                               *)
FlushersOwned ==
  /\ \A f \in Flushers : fstate[f] \in {"waiting", "called", "flushing"} => f \in {installed, old}
  /\ flusher_lock = None <=> old = None
  /\ \A t \in Threads : pc[t] \in {"stopping", "joining"} <=> flusher_lock = t

(* flush_every and shutdown return: joining a worker that is flushing cannot deadlock. *)
OperationsReturn == \A t \in Threads : pc[t] # "idle" ~> pc[t] = "idle"

(* What is logged gets flushed while one flusher stays installed.          *)
LogsGetFlushed ==
  \A l \in Loggers, f \in Flushers :
    l \in dirty /\ installed = f ~> l \notin dirty \/ installed # f
=============================================================================
