------------------------------ MODULE Profiler ------------------------------
(***************************************************************************)
(* The process-wide CPU profiler of pprof-rs (src/src/profiler.rs): the    *)
(* global PROFILER behind a spin RwLock, the RAII guard that starts and    *)
(* stops it, the interval timer that drives it (src/src/timer.rs), and the *)
(* signal handler that records samples while any thread may be anywhere.   *)
(*                                                                         *)
(* A session is one successful `start`; sessions are numbered from 1.  A   *)
(* signal remembers which session's timer raised it (its origin), which    *)
(* is how the properties tell a sample of this session from a late one.    *)
(***************************************************************************)
EXTENDS Integers

CONSTANTS
    Threads,        \* the threads of the process
    Regions,        \* the mapped code regions a thread can be interrupted in
    Configs,        \* the builder configurations the application uses
    AppDisps,       \* the dispositions the application may have installed
    TempFileFails,  \* TRUE: creating the collector's temporary file may fail
    MaxCalls,       \* bound on calls of build() and of report()
    MaxTicks        \* bound on timer expirations

Clocks == {"Cpu", "Wall"}   \* ITIMER_PROF/SIGPROF and ITIMER_REAL/SIGALRM

ASSUME ConfigAssumption ==
    Configs \subseteq [frequency : Int, clock : Clocks,
                       threads : SUBSET Threads, segments : SUBSET Regions]

ASSUME NonEmptyAssumption == Configs # {} /\ Regions # {}

ASSUME DispAssumption == AppDisps \subseteq {"SigDfl", "SigIgn", "App"}

ASSUME BoundAssumption ==
    MaxCalls \in Nat /\ MaxTicks \in Nat /\ TempFileFails \in BOOLEAN

VARIABLES
    profiler,           \* PROFILER: "uninit" (Lazy), "ok" or "err"
    readers,            \* threads holding PROFILER.read()
    writers,            \* <<thread, context>> holding PROFILER.write()
    unwinderInit,       \* UNWINDER has been forced
    unwinderReaders,    \* threads holding UNWINDER.read()
    running, clockType, threadBlocklist, blocklistSegments, \* struct Profiler
    oldSigaction,       \* {} for None, {d} for Some(d)
    data,               \* the samples in the collector
    missed,             \* MISSED_SAMPLES
    disp,               \* kernel: the disposition of each signal
    timer,              \* kernel: the session that armed each timer, 0 if off
    pending,            \* kernel: origin of the pending signal, 0 if none
    pc, args, held,     \* per thread: call in progress, its builder, its guard
    guards,             \* the live ProfilerGuard values
    handler,            \* per thread and signal: its perf_signal_handler frame
    inner,              \* per thread: the innermost context it executes
    errno,              \* per thread
    session, want,      \* number and configuration of the last session started
    late,               \* history: sessions whose signals were in flight at stop
    dead,               \* the process was killed by a signal
    calls, ticks        \* the bounded counters

lockVars == <<readers, writers>>
unwinderVars == <<unwinderInit, unwinderReaders>>
fieldVars == <<running, clockType, threadBlocklist, blocklistSegments,
               oldSigaction>>
kernelVars == <<disp, timer, pending, dead, ticks>>
handlerVars == <<handler, inner, errno>>
callVars == <<pc, args, held, guards, calls>>
sessionVars == <<session, want, late>>
vars == <<lockVars, unwinderVars, profiler, fieldVars, data, missed, kernelVars,
          handlerVars, callVars, sessionVars>>

Contexts == Clocks \cup {"main"}
Guard(id, clock) == [id |-> id, clock |-> clock]
Sample(o, t, r) == [origin |-> o, thread |-> t, region |-> r]

(* The guard of the session started last. *)
Current == Guard(session, clockType)

(* spin::RwLock: read() waits for the writer, write() for everybody.       *)
ReadFree == writers = {}
WriteFree == readers = {} /\ writers = {}

(* A thread executes its own code only while no handler runs on it. *)
AtMain(t, label) == ~dead /\ inner[t] = "main" /\ pc[t] = label

(* 1e6 / frequency in microseconds, rounded towards zero. *)
Interval(frequency) ==
    IF frequency > 0 THEN 1000000 \div frequency
    ELSE -(1000000 \div (-frequency))

(* it_value left zero: the timer is never armed. *)
SetITimer_ValueUnset(old, interval, id) == IF interval >= 0 THEN 0 ELSE old

(* setitimer: 0 disarms, a negative interval is EINVAL, which is ignored. *)
SetITimer(old, interval, id) ==
    IF interval > 0 THEN id ELSE IF interval = 0 THEN 0 ELSE old

NoFrame == [pc |-> "none", origin |-> 0, region |-> CHOOSE r \in Regions : TRUE,
            saved |-> "app", under |-> "main"]
NoConfig == CHOOSE c \in Configs : TRUE

-----------------------------------------------------------------------------
Init ==
    /\ profiler = "uninit"
    /\ readers = {} /\ writers = {}
    /\ unwinderInit = FALSE /\ unwinderReaders = {}
    /\ running = FALSE /\ clockType = "Cpu"
    /\ threadBlocklist = {} /\ blocklistSegments = {} /\ oldSigaction = {}
    /\ data = {} /\ missed = 0
    /\ disp \in [Clocks -> AppDisps]
    /\ timer = [c \in Clocks |-> 0] /\ pending = [c \in Clocks |-> 0]
    /\ pc = [t \in Threads |-> "idle"]
    /\ args = [t \in Threads |-> NoConfig]
    /\ held = [t \in Threads |-> {}]
    /\ guards = {}
    /\ handler = [t \in Threads |-> [c \in Clocks |-> NoFrame]]
    /\ inner = [t \in Threads |-> "main"]
    /\ errno = [t \in Threads |-> "app"]
    /\ session = 0 /\ want = NoConfig /\ late = {}
    /\ dead = FALSE /\ calls = 0 /\ ticks = 0

-----------------------------------------------------------------------------
(* ProfilerGuardBuilder::build *)

CallBuild(t, cfg) ==
    /\ AtMain(t, "idle") /\ calls < MaxCalls
    /\ calls' = calls + 1
    /\ args' = [args EXCEPT ![t] = cfg]
    /\ pc' = [pc EXCEPT ![t] = "lazy_read"]
    /\ UNCHANGED <<lockVars, unwinderVars, profiler, fieldVars, data, missed, kernelVars,
                   handlerVars, held, guards, sessionVars>>

KeepReadGuard_Dropped(t) == UNCHANGED readers

(* `let _profiler = PROFILER.read();` keeps the lock to the end of         *)
(* trigger_lazy, where `let _ = ...` would release it at once.             *)
KeepReadGuard(t) == readers' = readers \cup {t}

(* trigger_lazy: PROFILER.read() forces the Lazy, whose Profiler::new      *)
(* fails when its collector cannot create its temporary file.              *)
LazyRead(t) ==
    /\ AtMain(t, "lazy_read") /\ ReadFree
    /\ KeepReadGuard(t)
    /\ IF profiler = "uninit"
       THEN profiler' \in {"ok"} \cup (IF TempFileFails THEN {"err"} ELSE {})
       ELSE UNCHANGED profiler
    /\ pc' = [pc EXCEPT ![t] = "lazy_init"]
    /\ UNCHANGED <<writers, unwinderVars, fieldVars, data, missed, kernelVars,
                   handlerVars, args, held, guards, calls, sessionVars>>

(* TraceImpl::init() forces UNWINDER and takes its read lock for a moment. *)
LazyInit(t) ==
    /\ AtMain(t, "lazy_init")
    /\ unwinderInit' = TRUE
    /\ unwinderReaders' = unwinderReaders \cup {t}
    /\ pc' = [pc EXCEPT ![t] = "lazy_done"]
    /\ UNCHANGED <<lockVars, profiler, fieldVars, data, missed, kernelVars,
                   handlerVars, args, held, guards, calls, sessionVars>>

LazyDone(t) ==
    /\ AtMain(t, "lazy_done")
    /\ unwinderReaders' = unwinderReaders \ {t}
    /\ readers' = readers \ {t}
    /\ pc' = [pc EXCEPT ![t] = "build_write"]
    /\ UNCHANGED <<writers, unwinderInit, profiler, fieldVars, data, missed,
                   kernelVars, handlerVars, args, held, guards, calls,
                   sessionVars>>

(* PROFILER.write(), which spins until nobody else holds the lock. *)
WriteLock(t, from, to) ==
    /\ AtMain(t, from) /\ WriteFree
    /\ writers' = writers \cup {<<t, "main">>}
    /\ pc' = [pc EXCEPT ![t] = to]
    /\ UNCHANGED <<readers, unwinderVars, profiler, fieldVars, data, missed,
                   kernelVars, handlerVars, args, held, guards, calls,
                   sessionVars>>

BuildLock(t) == WriteLock(t, "build_write", "build_start")

Unlock(t) == writers' = writers \ {<<t, "main">>}

(* register_signal_handler; sigaction cannot fail for these signals. *)
Register(clock) ==
    /\ oldSigaction' = {disp[clock]}
    /\ disp' = [disp EXCEPT ![clock] = "perf"]

Start_AssignsFirst(cfg) ==
    /\ clockType' = cfg.clock
    /\ threadBlocklist' = cfg.threads
    /\ missed' = 0
    /\ IF running
       THEN UNCHANGED <<oldSigaction, disp, running, session, want>>
       ELSE /\ Register(cfg.clock)
            /\ running' = TRUE
            /\ session' = session + 1
            /\ want' = cfg

(* Profiler::start; a running profiler is left alone (Error::Running). *)
Start(cfg) ==
    IF running
    THEN UNCHANGED <<clockType, threadBlocklist, oldSigaction, disp, missed,
                     running, session, want>>
    ELSE /\ clockType' = cfg.clock
         /\ threadBlocklist' = cfg.threads
         /\ Register(cfg.clock)
         /\ missed' = 0
         /\ running' = TRUE
         /\ session' = session + 1
         /\ want' = cfg

(* A profiler that could not be created: build returns CreatingError. *)
BuildErr(t) ==
    /\ AtMain(t, "build_start") /\ profiler = "err"
    /\ Unlock(t)
    /\ pc' = [pc EXCEPT ![t] = "idle"]
    /\ UNCHANGED <<readers, unwinderVars, profiler, fieldVars, data, missed,
                   kernelVars, handlerVars, args, held, guards, calls,
                   sessionVars>>

(* The blocklist is assigned before start looks at `running`; a start that *)
(* finds the profiler running returns Error::Running and releases the lock.*)
BuildStart(t) ==
    /\ AtMain(t, "build_start") /\ profiler = "ok"
    /\ blocklistSegments' = args[t].segments
    /\ Start(args[t])
    /\ IF running
       THEN Unlock(t) /\ pc' = [pc EXCEPT ![t] = "idle"]
       ELSE UNCHANGED writers /\ pc' = [pc EXCEPT ![t] = "build_arm"]
    /\ UNCHANGED <<readers, unwinderVars, profiler, data, timer, pending, dead,
                   ticks, handlerVars, args, held, guards, calls, late>>

ITimer_AlwaysProf(clock) == "Cpu"

(* ITIMER_PROF for Cpu, ITIMER_REAL for Wall: timers are named by clocks. *)
ITimer(clock) == clock

(* Timer::with_clock_type, evaluated while the write lock is still held.   *)
BuildArm(t) ==
    /\ AtMain(t, "build_arm") /\ args[t].frequency # 0
    /\ timer' = [timer EXCEPT ![ITimer(args[t].clock)] =
                     SetITimer(@, Interval(args[t].frequency), session)]
    /\ pc' = [pc EXCEPT ![t] = "build_return"]
    /\ UNCHANGED <<lockVars, unwinderVars, profiler, fieldVars, data, missed,
                   disp, pending, dead, ticks, handlerVars, args, held, guards,
                   calls, sessionVars>>

(* 1e6 / 0 panics; unwinding drops the lock guard, and no ProfilerGuard    *)
(* has been made yet.                                                      *)
BuildPanic(t) ==
    /\ AtMain(t, "build_arm") /\ args[t].frequency = 0
    /\ Unlock(t)
    /\ pc' = [pc EXCEPT ![t] = "idle"]
    /\ UNCHANGED <<readers, unwinderVars, profiler, fieldVars, data, missed,
                   kernelVars, handlerVars, args, held, guards, calls,
                   sessionVars>>

BuildReturn(t) ==
    /\ AtMain(t, "build_return")
    /\ guards' = guards \cup {Guard(session, args[t].clock)}
    /\ Unlock(t)
    /\ pc' = [pc EXCEPT ![t] = "idle"]
    /\ UNCHANGED <<readers, unwinderVars, profiler, fieldVars, data, missed,
                   kernelVars, handlerVars, args, held, calls, sessionVars>>

-----------------------------------------------------------------------------
(* Drop for ProfilerGuard.  A guard can be sent to any thread; the borrow  *)
(* checker forbids dropping it while a report borrows it.                  *)

Disarm_Missing(clock) == timer

(* Drop for Timer: setitimer with a zero interval. *)
Disarm(clock) == [timer EXCEPT ![ITimer(clock)] = 0]

CallDrop(t, g) ==
    /\ AtMain(t, "idle") /\ \A u \in Threads : g \notin held[u]
    /\ guards' = guards \ {g}
    /\ held' = [held EXCEPT ![t] = {g}]
    /\ timer' = Disarm(g.clock)
    /\ pc' = [pc EXCEPT ![t] = "drop_write"]
    /\ UNCHANGED <<lockVars, unwinderVars, profiler, fieldVars, data, missed,
                   disp, pending, dead, ticks, handlerVars, args, calls,
                   sessionVars>>

DropLock(t) == WriteLock(t, "drop_write", "drop_stop")

Restored_Default(old) == old

(* The disposition unregister_signal_handler installs: never SIG_DFL. *)
Restored(old) == IF old = "SigDfl" THEN "SigIgn" ELSE old

(* The old action is read and not taken out of its Option. *)
Unregister_NotTaken ==
    IF oldSigaction = {}
    THEN UNCHANGED <<disp, pending, oldSigaction>>
    ELSE \E old \in oldSigaction :
            /\ disp' = [disp EXCEPT ![clockType] = Restored(old)]
            /\ pending' = IF Restored(old) = "SigIgn"
                          THEN [pending EXCEPT ![clockType] = 0]
                          ELSE pending
            /\ UNCHANGED oldSigaction

(* unregister_signal_handler; ignoring a signal discards a pending one. *)
Unregister ==
    IF oldSigaction = {}
    THEN UNCHANGED <<disp, pending, oldSigaction>>
    ELSE \E old \in oldSigaction :
            /\ disp' = [disp EXCEPT ![clockType] = Restored(old)]
            /\ pending' = IF Restored(old) = "SigIgn"
                          THEN [pending EXCEPT ![clockType] = 0]
                          ELSE pending
            /\ oldSigaction' = {}

Reset_KeepsData == running' = FALSE /\ UNCHANGED data

Reset_StaysRunning == data' = {} /\ UNCHANGED running

(* Profiler::init, called by stop: a fresh collector, then not running.    *)
(* When the new temporary file cannot be created it returns early.         *)
Reset ==
    \/ running' = FALSE /\ data' = {}
    \/ TempFileFails /\ UNCHANGED <<running, data>>

(* The sessions whose handlers have been entered but hold no lock yet. *)
Entered ==
    {o \in 1..session : \E t \in Threads, c \in Clocks :
        handler[t][c].pc = "entered" /\ handler[t][c].origin = o}

(* init before unregister_signal_handler: its failure keeps the handler.   *)
DropStop_InitFirst(t) ==
    /\ AtMain(t, "drop_stop")
    /\ IF running
       THEN /\ Reset
            /\ IF running' THEN UNCHANGED <<disp, pending, oldSigaction>>
               ELSE Unregister
       ELSE UNCHANGED <<disp, pending, oldSigaction, running, data>>
    /\ late' = late \cup Entered \cup {pending'[c] : c \in Clocks}
    /\ Unlock(t)
    /\ held' = [held EXCEPT ![t] = {}]
    /\ pc' = [pc EXCEPT ![t] = "idle"]
    /\ UNCHANGED <<readers, unwinderVars, profiler, clockType, threadBlocklist,
                   blocklistSegments, missed, timer, dead, ticks, handlerVars,
                   args, guards, calls, session, want>>

(* Profiler::stop, then the lock is released. *)
DropStop(t) ==
    /\ AtMain(t, "drop_stop")
    /\ IF running
       THEN Unregister /\ Reset
       ELSE UNCHANGED <<disp, pending, oldSigaction, running, data>>
    /\ late' = late \cup Entered \cup {pending'[c] : c \in Clocks}
    /\ Unlock(t)
    /\ held' = [held EXCEPT ![t] = {}]
    /\ pc' = [pc EXCEPT ![t] = "idle"]
    /\ UNCHANGED <<readers, unwinderVars, profiler, clockType, threadBlocklist,
                   blocklistSegments, missed, timer, dead, ticks, handlerVars,
                   args, guards, calls, session, want>>

-----------------------------------------------------------------------------
(* ReportBuilder: build_unresolved reads under the read lock, build under  *)
(* the write lock.                                                         *)

CallReport(t, g, kind) ==
    /\ AtMain(t, "idle") /\ calls < MaxCalls
    /\ calls' = calls + 1
    /\ held' = [held EXCEPT ![t] = {g}]
    /\ pc' = [pc EXCEPT ![t] = kind]
    /\ UNCHANGED <<lockVars, unwinderVars, profiler, fieldVars, data, missed,
                   kernelVars, handlerVars, args, guards, sessionVars>>

UnresolvedLock(t) ==
    /\ AtMain(t, "report_read") /\ ReadFree
    /\ readers' = readers \cup {t}
    /\ pc' = [pc EXCEPT ![t] = "report_body"]
    /\ UNCHANGED <<writers, unwinderVars, profiler, fieldVars, data, missed,
                   kernelVars, handlerVars, args, held, guards, calls,
                   sessionVars>>

ReportLock(t) == WriteLock(t, "report_write", "report_body")

(* Iterate over the collector, which leaves it alone, and unlock. *)
ReportReturn(t) ==
    /\ AtMain(t, "report_body")
    /\ readers' = readers \ {t}
    /\ Unlock(t)
    /\ held' = [held EXCEPT ![t] = {}]
    /\ pc' = [pc EXCEPT ![t] = "idle"]
    /\ UNCHANGED <<unwinderVars, profiler, fieldVars, data, missed, kernelVars,
                   handlerVars, args, guards, calls, sessionVars>>

-----------------------------------------------------------------------------
(* The kernel.  Signals do not queue: an expiration while the signal is    *)
(* pending is merged with it, and one that is ignored is discarded.        *)

Tick(c) ==
    /\ ~dead /\ timer[c] # 0 /\ ticks < MaxTicks
    /\ ticks' = ticks + 1
    /\ pending' = IF disp[c] = "SigIgn" \/ pending[c] # 0
                  THEN pending ELSE [pending EXCEPT ![c] = timer[c]]
    /\ UNCHANGED <<lockVars, unwinderVars, profiler, fieldVars, data, missed,
                   disp, timer, dead, handlerVars, callVars, sessionVars>>

(* A process-directed signal goes to any thread that does not block it;    *)
(* the handler's own signal is blocked while it runs, the other is not.    *)
Deliver(t, c, r) ==
    /\ ~dead /\ pending[c] # 0 /\ disp[c] = "perf"
    /\ handler[t][c].pc = "none"
    /\ handler' = [handler EXCEPT ![t][c] =
                      [pc |-> "entered", origin |-> pending[c], region |-> r,
                       saved |-> errno[t], under |-> inner[t]]]
    /\ inner' = [inner EXCEPT ![t] = c]
    /\ pending' = [pending EXCEPT ![c] = 0]
    /\ UNCHANGED <<lockVars, unwinderVars, profiler, fieldVars, data, missed,
                   disp, timer, dead, ticks, errno, callVars, sessionVars>>

(* To the application's handler, or fatal by default. *)
DeliverElsewhere(c) ==
    /\ ~dead /\ pending[c] # 0 /\ disp[c] # "perf"
    /\ pending' = [pending EXCEPT ![c] = 0]
    /\ dead' = (disp[c] = "SigDfl")
    /\ UNCHANGED <<lockVars, unwinderVars, profiler, fieldVars, data, missed,
                   disp, timer, ticks, handlerVars, callVars, sessionVars>>

-----------------------------------------------------------------------------
(* perf_signal_handler *)

AtHandler(t, c, label) == ~dead /\ inner[t] = c /\ handler[t][c].pc = label

HandlerLock(t, c) ==
    /\ AtHandler(t, c, "entered") /\ WriteFree
    /\ writers' = writers \cup {<<t, c>>}
    /\ handler' = [handler EXCEPT ![t][c].pc = "locked"]
    /\ UNCHANGED <<readers, unwinderVars, profiler, fieldVars, data, missed,
                   kernelVars, inner, errno, callVars, sessionVars>>

(* write() instead of try_write(): the handler spins on the lock. *)
HandlerMiss_Blocks(t, c) ==
    AtHandler(t, c, "entered") /\ ~WriteFree /\ UNCHANGED vars

HandlerMiss_Subtracts(t, c) ==
    /\ AtHandler(t, c, "entered") /\ ~WriteFree
    /\ missed' = missed - 1
    /\ handler' = [handler EXCEPT ![t][c].pc = "leaving"]
    /\ UNCHANGED <<lockVars, unwinderVars, profiler, fieldVars, data,
                   kernelVars, inner, errno, callVars, sessionVars>>

(* try_write never waits: a contended sample is counted and dropped. *)
HandlerMiss(t, c) ==
    /\ AtHandler(t, c, "entered") /\ ~WriteFree
    /\ missed' = missed + 1
    /\ handler' = [handler EXCEPT ![t][c].pc = "leaving"]
    /\ UNCHANGED <<lockVars, unwinderVars, profiler, fieldVars, data,
                   kernelVars, inner, errno, callVars, sessionVars>>

(* is_blocklisted on the interrupted address. *)
IsBlocklisted(region) == region \in blocklistSegments

(* is_thread_blocklisted on the name of the interrupted thread. *)
IsThreadBlocklisted(t) == t \in threadBlocklist

(* The body under the lock.  It may disturb errno: a blocklisted address   *)
(* returns before the trace, a blocklisted thread after it.                *)
HandlerSample(t, c) ==
    /\ AtHandler(t, c, "locked")
    /\ data' = IF IsBlocklisted(handler[t][c].region) \/ IsThreadBlocklisted(t)
               THEN data
               ELSE data \cup {Sample(handler[t][c].origin, t,
                                      handler[t][c].region)}
    /\ errno' = [errno EXCEPT ![t] =
                     IF IsBlocklisted(handler[t][c].region) THEN @
                     ELSE "disturbed"]
    /\ writers' = writers \ {<<t, c>>}
    /\ handler' = [handler EXCEPT ![t][c].pc = "leaving"]
    /\ UNCHANGED <<readers, unwinderVars, profiler, fieldVars, missed,
                   kernelVars, inner, callVars, sessionVars>>

RestoreErrno_Missing(t, c) == errno[t]

(* Drop for ErrnoProtector. *)
RestoreErrno(t, c) == handler[t][c].saved

HandlerReturn(t, c) ==
    /\ AtHandler(t, c, "leaving")
    /\ errno' = [errno EXCEPT ![t] = RestoreErrno(t, c)]
    /\ inner' = [inner EXCEPT ![t] = handler[t][c].under]
    /\ handler' = [handler EXCEPT ![t][c] = NoFrame]
    /\ UNCHANGED <<lockVars, unwinderVars, profiler, fieldVars, data, missed,
                   kernelVars, callVars, sessionVars>>

-----------------------------------------------------------------------------
Calls(t) ==
    \/ \E cfg \in Configs : CallBuild(t, cfg)
    \/ \E g \in guards : CallDrop(t, g)
    \/ \E g \in guards, kind \in {"report_read", "report_write"} :
          CallReport(t, g, kind)

MainStep(t) ==
    \/ LazyRead(t) \/ LazyInit(t) \/ LazyDone(t)
    \/ BuildLock(t) \/ BuildErr(t) \/ BuildStart(t)
    \/ BuildArm(t) \/ BuildPanic(t) \/ BuildReturn(t)
    \/ DropLock(t) \/ DropStop(t)
    \/ UnresolvedLock(t) \/ ReportLock(t) \/ ReportReturn(t)

HandlerStep(t) ==
    \E c \in Clocks : \/ HandlerLock(t, c) \/ HandlerMiss(t, c)
                      \/ HandlerSample(t, c) \/ HandlerReturn(t, c)

Signal(c) ==
    \/ \E t \in Threads, r \in Regions : Deliver(t, c, r)
    \/ DeliverElsewhere(c)

(* Nothing is under way; the application may leave the profiler alone.     *)
Quiescent ==
    /\ \A t \in Threads : pc[t] = "idle" /\ inner[t] = "main"
    /\ \A c \in Clocks : pending[c] = 0
    /\ UNCHANGED vars

Next ==
    \/ \E t \in Threads : Calls(t) \/ MainStep(t) \/ HandlerStep(t)
    \/ \E c \in Clocks : Tick(c) \/ Signal(c)
    \/ Quiescent

Spec == Init /\ [][Next]_vars

(* The scheduler runs every thread and delivers every signal; whether the  *)
(* application calls and whether a timer expires is nobody's duty.         *)
Fairness ==
    /\ \A t \in Threads : WF_vars(MainStep(t)) /\ WF_vars(HandlerStep(t))
    /\ \A c \in Clocks : WF_vars(Signal(c))

FairSpec == Spec /\ Fairness

-----------------------------------------------------------------------------
(* Properties *)

Labels == {"idle", "lazy_read", "lazy_init", "lazy_done", "build_write",
           "build_start", "build_arm", "build_return", "drop_write",
           "drop_stop", "report_read", "report_write", "report_body"}
Guards == [id : Nat, clock : Clocks]
Samples == [origin : Nat, thread : Threads, region : Regions]
Frames == [pc : {"none", "entered", "locked", "leaving"}, origin : Nat,
           region : Regions, saved : {"app", "disturbed"}, under : Contexts]

(* Every variable keeps its type; the counters stay within their bounds. *)
TypeOK ==
    /\ profiler \in {"uninit", "ok", "err"}
    /\ readers \subseteq Threads /\ writers \subseteq Threads \X Contexts
    /\ unwinderInit \in BOOLEAN /\ unwinderReaders \subseteq Threads
    /\ running \in BOOLEAN /\ clockType \in Clocks
    /\ threadBlocklist \subseteq Threads /\ blocklistSegments \subseteq Regions
    /\ oldSigaction \subseteq {"SigDfl", "SigIgn", "App", "perf"}
    /\ data \subseteq Samples /\ missed \in Nat
    /\ disp \in [Clocks -> {"SigDfl", "SigIgn", "App", "perf"}]
    /\ timer \in [Clocks -> Nat] /\ pending \in [Clocks -> Nat]
    /\ pc \in [Threads -> Labels] /\ args \in [Threads -> Configs]
    /\ held \in [Threads -> SUBSET Guards] /\ guards \subseteq Guards
    /\ handler \in [Threads -> [Clocks -> Frames]]
    /\ inner \in [Threads -> Contexts]
    /\ errno \in [Threads -> {"app", "disturbed"}]
    /\ session \in Nat /\ want \in Configs /\ late \subseteq Nat
    /\ dead \in BOOLEAN /\ calls \in 0..MaxCalls /\ ticks \in 0..MaxTicks

(* The lock: one writer, and no reader beside it. *)
LockExclusive ==
    /\ \A x, y \in writers : x = y
    /\ writers # {} => readers = {}

Starting(t) == pc[t] \in {"build_arm", "build_return"}
Dropping(t) == pc[t] \in {"drop_write", "drop_stop"}
Owns(t) == Starting(t) \/ Dropping(t)

(* A session has at most one owner at any time: its live guard, the build  *)
(* about to return that guard, or the drop consuming it.  No interleaving  *)
(* of builds, drops and signals leaves two guards, or a guard of a session *)
(* that is over.                                                           *)
GuardExclusive ==
    /\ guards \subseteq {Current}
    /\ guards # {} => running
    /\ \A t \in Threads :
          /\ held[t] \subseteq {Current}
          /\ Owns(t) => /\ running /\ guards = {}
                        /\ \A u \in Threads : Owns(u) => u = t

(* A running profiler has an owner that will stop it, a guard or the build *)
(* or drop of one, unless one of two faults happened: its build divided by *)
(* a frequency of 0 (timer.rs:55), or its stop could not create the next   *)
(* collector (profiler.rs:558).                                            *)
HasOwner == guards # {} \/ \E t \in Threads : Owns(t)
OrphanedOnlyByFault ==
    running /\ ~HasOwner =>
        want.frequency = 0 \/ (TempFileFails /\ oldSigaction = {})

(* While a guard is live its timer is armed, by its own session, and its   *)
(* signal reaches the handler: no drop or failed build of another thread   *)
(* turns either off (Drop for ProfilerGuard disarms before it stops).      *)
LiveGuardTicks ==
    \A g \in guards :
        /\ disp[g.clock] = "perf"
        /\ Interval(want.frequency) > 0 => timer[g.clock] = g.id

(* A stopped profiler leaves nothing behind in the kernel: both timers off *)
(* and neither signal caught; while it runs, only its own clock's signal   *)
(* and timer are in use.                                                   *)
StoppedIsClean ==
    \A c \in Clocks : ~running \/ c # clockType =>
        timer[c] = 0 /\ disp[c] # "perf"

(* A profiler nobody is left to stop is harmless.  Where stop fails half   *)
(* way (profiler.rs:558) `running` stays set for good and every later      *)
(* build is refused, yet no timer ticks and no signal is caught; only a    *)
(* build that divided by 0 after start (timer.rs:55) leaves the handler    *)
(* installed, and that without a timer.                                    *)
OwnerlessIsClean ==
    ~HasOwner => \A c \in Clocks :
        /\ timer[c] = 0
        /\ disp[c] = "perf" => running /\ want.frequency = 0

(* A tick that was on its way when the profiler stopped never meets        *)
(* SIG_DFL, which would kill the process (unregister_signal_handler).      *)
NoFatalTick == ~dead

(* Samples of an earlier session are gone once it stopped: the collector   *)
(* holds only this session's samples and those of handlers that had been   *)
(* entered, or signals left pending, when stop() ran.  A session with such *)
(* a signal in flight is excused as a whole.                               *)
NoCarryOver == \A d \in data : d.origin = session \/ d.origin \in late

(* The handler gets the unwinder whenever it gets the profiler: nobody     *)
(* holds UNWINDER then, and it is already built, so trace neither comes    *)
(* back empty nor allocates (framehop_unwinder.rs:171).                    *)
TraceGetsUnwinder ==
    \A t \in Threads, c \in Clocks : handler[t][c].pc = "locked" =>
        unwinderInit /\ unwinderReaders = {}

(* No thread excluded by thread_blocklist (profiler.rs:113) is in the data *)
(* of its session, whatever other builds fail meanwhile.                   *)
ThreadBlocklistHonoured ==
    \A d \in data : d.origin = session => d.thread \notin want.threads

(* Code interrupted by any nesting of handlers sees its own errno again. *)
ErrnoRestored == \A t \in Threads : inner[t] = "main" => errno[t] = "app"

(* MISSED_SAMPLES falls only when a session starts (profiler.rs:32-35); a  *)
(* build that fails must not wipe the running session's count.             *)
MissedOnlyResetByStart == [][missed' < missed => session' # session]_vars

(* Every call of build, drop and report returns although handlers take the *)
(* same lock on the same thread.                                           *)
CallsReturn == \A t \in Threads : pc[t] # "idle" ~> pc[t] = "idle"

(* The profiler implements its abstract sessions. *)
Abs == INSTANCE ProfilerSession
         WITH on <- running, number <- session, config <- want, samples <- data
ImplementsSessions == Abs!Spec

-----------------------------------------------------------------------------
(* Claims of the documentation that the code does not keep *)

(* The guard, or the build or drop of it, stops a running profiler: "RAII  *)
(* structure used to stop profiling when dropped. It is the only interface *)
(* to access profiler." (profiler.rs:217)                                  *)
RunningHasGuard == running => HasOwner

(* No sample is taken in a segment the running session blocklists: "to     *)
(* skip sampling in selected shared library" (CHANGELOG.md:200).           *)
BlocklistHonoured ==
    \A d \in data : d.origin = session => d.region \notin want.segments
=============================================================================
