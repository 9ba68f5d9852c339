--------------------------- MODULE ProfilerProofs ---------------------------
(* Theorems about Profiler, for any number of threads, configurations,     *)
(* calls and ticks, with and without temporary-file failures.              *)
EXTENDS Profiler, TLAPS

(* The placeholders that Init uses are values of their types. *)
LEMMA PlaceholderTypes == NoConfig \in Configs /\ NoFrame \in Frames
<1>1. NoConfig \in Configs
  BY NonEmptyAssumption DEF NoConfig
<1>2. (CHOOSE r \in Regions : TRUE) \in Regions
  BY NonEmptyAssumption
<1>3. NoFrame \in Frames
  BY <1>2 DEF NoFrame, Frames, Contexts
<1> QED
  BY <1>1, <1>3

(* The state has the types of the code from the first state on. *)
LEMMA InitType == Init => TypeOK
<1> SUFFICES ASSUME Init PROVE TypeOK
  OBVIOUS
<1>1. handler \in [Threads -> [Clocks -> Frames]]
  BY PlaceholderTypes DEF Init
<1>2. disp \in [Clocks -> {"SigDfl", "SigIgn", "App", "perf"}]
  BY DispAssumption DEF Init
<1>3. /\ pc \in [Threads -> Labels] /\ args \in [Threads -> Configs]
      /\ held \in [Threads -> SUBSET Guards] /\ guards \subseteq Guards
      /\ inner \in [Threads -> Contexts]
      /\ errno \in [Threads -> {"app", "disturbed"}]
  BY PlaceholderTypes DEF Init, Labels, Contexts
<1>4. /\ calls \in 0..MaxCalls /\ ticks \in 0..MaxTicks
      /\ timer \in [Clocks -> Nat] /\ pending \in [Clocks -> Nat]
  BY BoundAssumption DEF Init
<1> QED
  BY <1>1, <1>2, <1>3, <1>4, PlaceholderTypes DEF Init, TypeOK, Clocks

(* A configuration's fields have their types. *)
LEMMA ConfigTypes ==
    ASSUME NEW c \in Configs
    PROVE  /\ c.frequency \in Int /\ c.clock \in Clocks
           /\ c.threads \subseteq Threads /\ c.segments \subseteq Regions
  BY ConfigAssumption

(* Every step of every thread, handler and of the kernel keeps the types. *)
LEMMA NextType == TypeOK /\ [Next]_vars => TypeOK'
<1> SUFFICES ASSUME TypeOK, [Next]_vars PROVE TypeOK'
  OBVIOUS
<1> USE DEF TypeOK, lockVars, unwinderVars, fieldVars, kernelVars,
        handlerVars, callVars, sessionVars
<1>1. ASSUME NEW t \in Threads, Calls(t) PROVE TypeOK'
  <2>1. ASSUME NEW cfg \in Configs, CallBuild(t, cfg) PROVE TypeOK'
    BY <2>1, BoundAssumption DEF CallBuild, Labels
  <2>2. ASSUME NEW g \in guards, CallDrop(t, g) PROVE TypeOK'
    BY <2>2 DEF CallDrop, Labels, Disarm, ITimer, Guards
  <2>3. ASSUME NEW g \in guards, NEW kind \in {"report_read", "report_write"},
               CallReport(t, g, kind)
        PROVE  TypeOK'
    BY <2>3, BoundAssumption DEF CallReport, Labels
  <2> QED
    BY <1>1, <2>1, <2>2, <2>3 DEF Calls
<1>2. ASSUME NEW t \in Threads, MainStep(t) PROVE TypeOK'
  <2>1. CASE LazyRead(t)
    BY <2>1 DEF LazyRead, KeepReadGuard, Labels
  <2>2. CASE LazyInit(t) \/ LazyDone(t)
    BY <2>2 DEF LazyInit, LazyDone, Labels
  <2>3. CASE BuildLock(t) \/ DropLock(t) \/ ReportLock(t)
    <3>1. <<t, "main">> \in Threads \X Contexts
      BY DEF Contexts
    <3>2. PICK from, to \in Labels : WriteLock(t, from, to)
      BY <2>3 DEF BuildLock, DropLock, ReportLock, Labels
    <3> QED
      BY <3>1, <3>2 DEF WriteLock
  <2>4. CASE BuildErr(t) \/ BuildPanic(t)
    BY <2>4 DEF BuildErr, BuildPanic, Unlock, Labels
  <2>5. CASE BuildStart(t)
    <3>1. pc' \in [Threads -> Labels] /\ writers' \subseteq Threads \X Contexts
      BY <2>5 DEF BuildStart, Unlock, Labels
    <3>2. CASE running
      BY <2>5, <3>1, <3>2, ConfigTypes DEF BuildStart, Start, Register
    <3>3. CASE ~running
      <4> DEFINE cfg == args[t]
      <4>1. cfg \in Configs
        OBVIOUS
      <4>2. /\ cfg.clock \in Clocks /\ cfg.threads \subseteq Threads
            /\ cfg.segments \subseteq Regions
        BY <4>1, ConfigTypes
      <4>3. disp' \in [Clocks -> {"SigDfl", "SigIgn", "App", "perf"}]
        BY <2>5, <3>3, <4>2 DEF BuildStart, Start, Register
      <4>4. oldSigaction' \subseteq {"SigDfl", "SigIgn", "App", "perf"}
        BY <2>5, <3>3, <4>2 DEF BuildStart, Start, Register
      <4> QED
        BY <2>5, <3>1, <3>3, <4>1, <4>2, <4>3, <4>4 DEF BuildStart, Start, Register
    <3> QED
      BY <3>2, <3>3
  <2>6. CASE BuildArm(t)
    BY <2>6, ConfigTypes DEF BuildArm, Labels, SetITimer, ITimer
  <2>7. CASE BuildReturn(t)
    BY <2>7, ConfigTypes DEF BuildReturn, Unlock, Labels, Guard, Guards
  <2>8. CASE DropStop(t)
    <3>1. /\ disp' \in [Clocks -> {"SigDfl", "SigIgn", "App", "perf"}]
          /\ pending' \in [Clocks -> Nat]
          /\ oldSigaction' \subseteq {"SigDfl", "SigIgn", "App", "perf"}
      <4>1. CASE running /\ oldSigaction # {}
        <5>1. PICK old \in oldSigaction :
                 /\ disp' = [disp EXCEPT ![clockType] = Restored(old)]
                 /\ pending' = IF Restored(old) = "SigIgn"
                               THEN [pending EXCEPT ![clockType] = 0]
                               ELSE pending
                 /\ oldSigaction' = {}
          BY <2>8, <4>1 DEF DropStop, Unregister
        <5>2. Restored(old) \in {"SigDfl", "SigIgn", "App", "perf"}
          BY DEF Restored
        <5> QED
          BY <5>1, <5>2
      <4>2. CASE ~(running /\ oldSigaction # {})
        BY <2>8, <4>2 DEF DropStop, Unregister
      <4> QED
        BY <4>1, <4>2
    <3>2. late' \subseteq Nat
      <4>1. Entered \subseteq Nat
        BY DEF Entered
      <4>2. \A c \in Clocks : pending'[c] \in Nat
        BY <3>1
      <4> QED
        BY <2>8, <4>1, <4>2 DEF DropStop
    <3>3. running' \in BOOLEAN /\ data' \subseteq Samples
      BY <2>8 DEF DropStop, Reset
    <3> QED
      BY <2>8, <3>1, <3>2, <3>3 DEF DropStop, Unlock, Labels, Guards
  <2>9. CASE UnresolvedLock(t)
    BY <2>9 DEF UnresolvedLock, Labels
  <2>10. CASE ReportReturn(t)
    BY <2>10 DEF ReportReturn, Unlock, Labels, Guards
  <2> QED
    BY <1>2, <2>1, <2>2, <2>3, <2>4, <2>5, <2>6, <2>7, <2>8, <2>9, <2>10
    DEF MainStep
<1>3. ASSUME NEW t \in Threads, HandlerStep(t) PROVE TypeOK'
  <2> PICK c \in Clocks : \/ HandlerLock(t, c) \/ HandlerMiss(t, c)
                          \/ HandlerSample(t, c) \/ HandlerReturn(t, c)
    BY <1>3 DEF HandlerStep
  <2> handler[t][c] \in Frames
    OBVIOUS
  <2>1. ASSUME NEW l \in {"none", "entered", "locked", "leaving"},
               handler' = [handler EXCEPT ![t][c].pc = l]
        PROVE  handler' \in [Threads -> [Clocks -> Frames]]
    BY <2>1 DEF Frames
  <2>2. CASE HandlerLock(t, c) \/ HandlerMiss(t, c)
    <3>1. handler' \in [Threads -> [Clocks -> Frames]]
      BY <2>1, <2>2 DEF HandlerLock, HandlerMiss
    <3> QED
      BY <2>2, <3>1 DEF HandlerLock, HandlerMiss, Contexts
  <2>3. CASE HandlerSample(t, c)
    <3>1. handler' \in [Threads -> [Clocks -> Frames]]
      BY <2>1, <2>3 DEF HandlerSample
    <3>2. data' \subseteq Samples
      BY <2>3 DEF HandlerSample, Sample, Samples, Frames
    <3>3. errno' \in [Threads -> {"app", "disturbed"}]
      BY <2>3 DEF HandlerSample
    <3> QED
      BY <2>3, <3>1, <3>2, <3>3 DEF HandlerSample
  <2>4. CASE HandlerReturn(t, c)
    BY <2>4, PlaceholderTypes DEF HandlerReturn, RestoreErrno, Frames
  <2> QED
    BY <2>2, <2>3, <2>4
<1>4. ASSUME NEW c \in Clocks, Tick(c) \/ Signal(c) PROVE TypeOK'
  <2>1. CASE Tick(c)
    BY <2>1, BoundAssumption DEF Tick
  <2>2. ASSUME NEW t \in Threads, NEW r \in Regions, Deliver(t, c, r)
        PROVE  TypeOK'
    <3>1. handler' \in [Threads -> [Clocks -> Frames]]
      BY <2>2 DEF Deliver, Frames
    <3> QED
      BY <2>2, <3>1 DEF Deliver, Contexts
  <2>3. CASE DeliverElsewhere(c)
    BY <2>3 DEF DeliverElsewhere
  <2> QED
    BY <1>4, <2>1, <2>2, <2>3 DEF Signal
<1>5. CASE UNCHANGED vars
  BY <1>5 DEF vars
<1> QED
  BY <1>1, <1>2, <1>3, <1>4, <1>5 DEF Next, Quiescent

(* Profiler's state keeps its types in every behaviour. *)
THEOREM TypeCorrect == Spec => []TypeOK
  BY InitType, NextType, PTL DEF Spec

-----------------------------------------------------------------------------
(* The inductive invariant, in four layers.                                *)

(* Who holds PROFILER.write(): the calls that are past the acquisition and *)
(* the handlers whose try_write succeeded.                                 *)
LockInv ==
    /\ LockExclusive
    /\ \A t \in Threads :
          pc[t] \in {"build_start", "build_arm", "build_return", "drop_stop"}
             => <<t, "main">> \in writers
    /\ \A t \in Threads, c \in Clocks :
          handler[t][c].pc = "locked" => <<t, c>> \in writers

(* Who owns the session; a build that is starting one still has the        *)
(* configuration it started it with, and a borrowed guard is live.         *)
OwnerInv ==
    /\ GuardExclusive
    /\ running => want.clock = clockType
    /\ \A t \in Threads : Starting(t) => args[t] = want
    /\ \A t \in Threads : held[t] # {} => guards # {} \/ Dropping(t)

(* What the session has installed in the kernel. *)
KernelInv ==
    /\ LiveGuardTicks
    /\ StoppedIsClean
    /\ NoFatalTick
    /\ guards # {} \/ (\E t \in Threads : Owns(t)) =>
          /\ oldSigaction # {} /\ "perf" \notin oldSigaction
          /\ disp[clockType] = "perf"
    /\ \A t \in Threads :
          /\ pc[t] = "build_return" /\ Interval(want.frequency) > 0
                => timer[clockType] = session
          /\ Dropping(t) => timer[clockType] = 0
    /\ \A c \in Clocks :
          /\ timer[c] # 0 => timer[c] = session /\ disp[c] = "perf"
          /\ pending[c] # 0 => disp[c] # "SigDfl"

(* An origin a signal may have now. *)
Legit(o) == o \in 1..session /\ (o \in late \/ (running /\ o = session))

(* Where the signals and the samples come from. *)
OriginInv ==
    /\ \A c \in Clocks : pending[c] # 0 => Legit(pending[c])
    /\ \A t \in Threads, c \in Clocks :
          handler[t][c].pc \in {"entered", "locked"}
             => Legit(handler[t][c].origin)
    /\ \A d \in data : Legit(d.origin)
    /\ session > 0 => threadBlocklist = want.threads
    /\ ThreadBlocklistHonoured

(* The lock is exclusive: read() waits for writers, write() and try_write  *)
(* for everybody, and each holder releases only its own hold.              *)
LEMMA LockStep == TypeOK /\ LockInv /\ [Next]_vars => LockInv'
<1> SUFFICES ASSUME TypeOK, LockInv, [Next]_vars PROVE LockInv'
  OBVIOUS
<1> USE DEF LockInv, LockExclusive, lockVars, handlerVars, callVars
<1>0. pc \in [Threads -> Labels] /\ handler \in [Threads -> [Clocks -> Frames]]
  BY DEF TypeOK
<1>1. ASSUME NEW t \in Threads, Calls(t) PROVE LockInv'
  BY <1>0, <1>1 DEF Calls, CallBuild, CallDrop, CallReport
<1>2. ASSUME NEW t \in Threads, MainStep(t) PROVE LockInv'
  <2>1. CASE LazyRead(t) \/ UnresolvedLock(t)
    BY <1>0, <2>1 DEF LazyRead, KeepReadGuard, UnresolvedLock, ReadFree
  <2>2. CASE LazyInit(t) \/ LazyDone(t) \/ BuildArm(t)
    BY <1>0, <2>2 DEF LazyInit, LazyDone, BuildArm, AtMain
  <2>3. CASE BuildLock(t) \/ DropLock(t) \/ ReportLock(t)
    BY <1>0, <2>3
    DEF BuildLock, DropLock, ReportLock, WriteLock, WriteFree
  <2>4. ASSUME Unlock(t), readers' \subseteq readers, UNCHANGED handler,
               pc' = [pc EXCEPT ![t] = "idle"]
        PROVE  LockInv'
    BY <1>0, <2>4 DEF Unlock, Clocks
  <2>5. CASE \/ BuildErr(t) \/ BuildPanic(t) \/ BuildReturn(t)
             \/ DropStop(t) \/ ReportReturn(t)
    BY <2>4, <2>5 DEF BuildErr, BuildPanic, BuildReturn, DropStop, ReportReturn
  <2>6. CASE BuildStart(t)
    <3>1. CASE running
      BY <2>4, <2>6, <3>1 DEF BuildStart
    <3>2. CASE ~running
      BY <1>0, <2>6, <3>2 DEF BuildStart, AtMain
    <3> QED
      BY <3>1, <3>2
  <2> QED
    BY <1>2, <2>1, <2>2, <2>3, <2>5, <2>6 DEF MainStep
<1>3. ASSUME NEW t \in Threads, HandlerStep(t) PROVE LockInv'
  <2> PICK c \in Clocks : \/ HandlerLock(t, c) \/ HandlerMiss(t, c)
                          \/ HandlerSample(t, c) \/ HandlerReturn(t, c)
    BY <1>3 DEF HandlerStep
  <2>1. CASE HandlerLock(t, c)
    BY <1>0, <2>1 DEF HandlerLock, WriteFree, Frames
  <2>2. CASE HandlerMiss(t, c)
    BY <1>0, <2>2 DEF HandlerMiss, Frames
  <2>3. CASE HandlerSample(t, c)
    BY <1>0, <2>3 DEF HandlerSample, Frames, Clocks
  <2>4. CASE HandlerReturn(t, c)
    BY <1>0, <2>4 DEF HandlerReturn, NoFrame
  <2> QED
    BY <2>1, <2>2, <2>3, <2>4
<1>4. ASSUME NEW c \in Clocks, Tick(c) \/ Signal(c) PROVE LockInv'
  BY <1>0, <1>4 DEF Tick, Signal, Deliver, DeliverElsewhere
<1>5. CASE UNCHANGED vars
  BY <1>5 DEF vars
<1> QED
  BY <1>1, <1>2, <1>3, <1>4, <1>5 DEF Next, Quiescent

(* Ownership of the session passes from the build that starts it to its    *)
(* guard and from the guard to the drop that ends it.                      *)
LEMMA OwnerStep == TypeOK /\ LockInv /\ OwnerInv /\ [Next]_vars => OwnerInv'
<1> SUFFICES ASSUME TypeOK, LockInv, OwnerInv, [Next]_vars PROVE OwnerInv'
  OBVIOUS
<1> USE DEF OwnerInv, GuardExclusive, Owns, Starting, Dropping, Current,
        callVars, sessionVars, fieldVars
<1>0. /\ pc \in [Threads -> Labels] /\ held \in [Threads -> SUBSET Guards]
      /\ args \in [Threads -> Configs]
  BY DEF TypeOK
<1>1. ASSUME NEW t \in Threads, Calls(t) PROVE OwnerInv'
  <2>1. ASSUME NEW cfg \in Configs, CallBuild(t, cfg) PROVE OwnerInv'
    BY <1>0, <2>1 DEF CallBuild, AtMain
  <2>2. ASSUME NEW g \in guards, CallDrop(t, g) PROVE OwnerInv'
    <3>1. guards = {Current} /\ g = Current /\ running
      OBVIOUS
    <3>2. \A u \in Threads : held[u] = {} /\ ~Owns(u)
      BY <1>0, <2>2, <3>1 DEF CallDrop
    <3> QED
      BY <1>0, <2>2, <3>1, <3>2 DEF CallDrop, AtMain
  <2>3. ASSUME NEW g \in guards, NEW kind \in {"report_read", "report_write"},
               CallReport(t, g, kind)
        PROVE  OwnerInv'
    BY <1>0, <2>3 DEF CallReport, AtMain
  <2> QED
    BY <1>1, <2>1, <2>2, <2>3 DEF Calls
<1>2. ASSUME NEW t \in Threads, MainStep(t) PROVE OwnerInv'
  <2>1. CASE LazyRead(t) \/ LazyInit(t) \/ LazyDone(t) \/ UnresolvedLock(t)
    BY <1>0, <2>1 DEF LazyRead, LazyInit, LazyDone, UnresolvedLock, AtMain
  <2>2. CASE BuildLock(t) \/ DropLock(t) \/ ReportLock(t)
    BY <1>0, <2>2 DEF BuildLock, DropLock, ReportLock, WriteLock, AtMain
  <2>3. CASE BuildErr(t) \/ BuildPanic(t)
    BY <1>0, <2>3 DEF BuildErr, BuildPanic, AtMain
  <2>4. CASE BuildArm(t)
    BY <1>0, <2>4 DEF BuildArm, AtMain
  <2>5. CASE BuildStart(t)
    <3>1. CASE running
      BY <1>0, <2>5, <3>1 DEF BuildStart, Start, Register, AtMain
    <3>2. CASE ~running
      <4>1. guards = {} /\ \A u \in Threads : held[u] = {} /\ ~Owns(u)
        BY <1>0, <3>2
      <4> QED
        BY <1>0, <2>5, <3>2, <4>1 DEF BuildStart, Start, Register, AtMain
    <3> QED
      BY <3>1, <3>2
  <2>6. CASE BuildReturn(t)
    <3>1. Starting(t) /\ args[t].clock = clockType
      BY <2>6 DEF BuildReturn, AtMain
    <3> QED
      BY <1>0, <2>6, <3>1 DEF BuildReturn, AtMain
  <2>7. CASE DropStop(t)
    <3>1. Dropping(t) /\ guards = {} /\ \A u \in Threads : Owns(u) => u = t
      BY <2>7 DEF DropStop, AtMain
    <3>2. \A u \in Threads : u # t => held[u] = {}
      BY <3>1
    <3> QED
      BY <1>0, <2>7, <3>1, <3>2 DEF DropStop
  <2>8. CASE ReportReturn(t)
    BY <1>0, <2>8 DEF ReportReturn, AtMain
  <2> QED
    BY <1>2, <2>1, <2>2, <2>3, <2>4, <2>5, <2>6, <2>7, <2>8 DEF MainStep
<1>3. ASSUME NEW t \in Threads, HandlerStep(t) PROVE OwnerInv'
  BY <1>3
  DEF HandlerStep, HandlerLock, HandlerMiss, HandlerSample, HandlerReturn
<1>4. ASSUME NEW c \in Clocks, Tick(c) \/ Signal(c) PROVE OwnerInv'
  BY <1>4 DEF Tick, Signal, Deliver, DeliverElsewhere
<1>5. CASE UNCHANGED vars
  BY <1>5 DEF vars
<1> QED
  BY <1>1, <1>2, <1>3, <1>4, <1>5 DEF Next, Quiescent

(* Both layers hold before the first call. *)
LEMMA LockOwnerInit == Init => LockInv /\ OwnerInv
  BY PlaceholderTypes
  DEF Init, LockInv, LockExclusive, OwnerInv, GuardExclusive, Owns, Starting,
      Dropping, NoFrame

(* The kernel's side of a session follows its owner: start installs the    *)
(* handler before the timer is armed, and drop disarms the timer before    *)
(* stop gives the signal back, never to SIG_DFL.                           *)
LEMMA KernelStep ==
    TypeOK /\ LockInv /\ OwnerInv /\ KernelInv /\ [Next]_vars => KernelInv'
<1> SUFFICES ASSUME TypeOK, LockInv, OwnerInv, KernelInv, [Next]_vars
             PROVE  KernelInv'
  OBVIOUS
<1> USE DEF KernelInv, LiveGuardTicks, StoppedIsClean, NoFatalTick, Owns,
        Starting, Dropping, Current, callVars, sessionVars, fieldVars,
        kernelVars
<1>0. /\ pc \in [Threads -> Labels] /\ args \in [Threads -> Configs]
      /\ timer \in [Clocks -> Nat] /\ pending \in [Clocks -> Nat]
      /\ disp \in [Clocks -> {"SigDfl", "SigIgn", "App", "perf"}]
      /\ clockType \in Clocks /\ session \in Nat
  BY DEF TypeOK
<1>1. ASSUME NEW t \in Threads, Calls(t) PROVE KernelInv'
  <2>1. ASSUME NEW cfg \in Configs, CallBuild(t, cfg) PROVE KernelInv'
    BY <1>0, <2>1 DEF CallBuild, AtMain
  <2>2. ASSUME NEW g \in guards, CallDrop(t, g) PROVE KernelInv'
    <3>1. g = Current /\ guards = {Current} /\ \A u \in Threads : ~Owns(u)
      BY DEF OwnerInv, GuardExclusive
    <3>2. timer' = [timer EXCEPT ![clockType] = 0] /\ guards' = {}
      BY <2>2, <3>1 DEF CallDrop, Disarm, ITimer, Guard
    <3> QED
      BY <1>0, <2>2, <3>1, <3>2 DEF CallDrop
  <2>3. ASSUME NEW g \in guards, NEW kind \in {"report_read", "report_write"},
               CallReport(t, g, kind)
        PROVE  KernelInv'
    BY <1>0, <2>3 DEF CallReport, AtMain
  <2> QED
    BY <1>1, <2>1, <2>2, <2>3 DEF Calls
<1>2. ASSUME NEW t \in Threads, MainStep(t) PROVE KernelInv'
  <2>1. CASE \/ LazyRead(t) \/ LazyInit(t) \/ LazyDone(t)
             \/ UnresolvedLock(t) \/ ReportReturn(t)
    BY <1>0, <2>1
    DEF LazyRead, LazyInit, LazyDone, UnresolvedLock, ReportReturn, AtMain
  <2>2. CASE BuildLock(t) \/ DropLock(t) \/ ReportLock(t)
    BY <1>0, <2>2 DEF BuildLock, DropLock, ReportLock, WriteLock, AtMain
  <2>3. CASE BuildErr(t) \/ BuildPanic(t)
    BY <1>0, <2>3 DEF BuildErr, BuildPanic, AtMain
  <2>4. CASE BuildStart(t)
    <3>1. CASE running
      BY <1>0, <2>4, <3>1 DEF BuildStart, Start, Register, AtMain
    <3>2. CASE ~running
      <4>1. guards = {} /\ \A u \in Threads : ~Owns(u)
        BY <3>2 DEF OwnerInv, GuardExclusive
      <4>2. args[t].clock \in Clocks
        BY <1>0, ConfigTypes
      <4>3. \A c \in Clocks : timer[c] = 0 /\ disp[c] # "perf"
        BY <3>2
      <4> QED
        BY <1>0, <2>4, <3>2, <4>1, <4>2, <4>3 DEF BuildStart, Start, Register
    <3> QED
      BY <3>1, <3>2
  <2>5. CASE BuildArm(t)
    <3>1. /\ Starting(t) /\ args[t].clock = clockType /\ args[t] = want
          /\ running /\ guards = {} /\ \A u \in Threads : Owns(u) => u = t
      BY <2>5 DEF BuildArm, AtMain, OwnerInv, GuardExclusive
    <3>2. timer' = [timer EXCEPT ![clockType] =
                       SetITimer(@, Interval(want.frequency), session)]
      BY <2>5, <3>1 DEF BuildArm, ITimer
    <3> QED
      BY <1>0, <2>5, <3>1, <3>2 DEF BuildArm, SetITimer
  <2>6. CASE BuildReturn(t)
    <3>1. /\ Starting(t) /\ args[t].clock = clockType /\ guards = {}
          /\ \A u \in Threads : Owns(u) => u = t
      BY <2>6 DEF BuildReturn, AtMain, OwnerInv, GuardExclusive
    <3> QED
      BY <1>0, <2>6, <3>1 DEF BuildReturn, AtMain, Guard
  <2>7. CASE DropStop(t)
    <3>1. /\ Dropping(t) /\ running /\ guards = {}
          /\ \A u \in Threads : Owns(u) => u = t
      BY <2>7 DEF DropStop, AtMain, OwnerInv, GuardExclusive
    <3>2. guards' = {} /\ \A u \in Threads : ~Owns(u)'
      BY <1>0, <2>7, <3>1 DEF DropStop
    <3>3. PICK old \in oldSigaction :
             /\ disp' = [disp EXCEPT ![clockType] = Restored(old)]
             /\ pending' = IF Restored(old) = "SigIgn"
                           THEN [pending EXCEPT ![clockType] = 0]
                           ELSE pending
      BY <2>7, <3>1 DEF DropStop, Unregister
    <3>4. Restored(old) # "perf" /\ Restored(old) # "SigDfl"
      BY <3>1 DEF Restored
    <3> QED
      BY <1>0, <2>7, <3>1, <3>2, <3>3, <3>4 DEF DropStop
  <2> QED
    BY <1>2, <2>1, <2>2, <2>3, <2>4, <2>5, <2>6, <2>7 DEF MainStep
<1>3. ASSUME NEW t \in Threads, HandlerStep(t) PROVE KernelInv'
  BY <1>3
  DEF HandlerStep, HandlerLock, HandlerMiss, HandlerSample, HandlerReturn
<1>4. ASSUME NEW c \in Clocks, Tick(c) \/ Signal(c) PROVE KernelInv'
  <2>1. CASE Tick(c)
    BY <1>0, <2>1 DEF Tick
  <2>2. ASSUME NEW t \in Threads, NEW r \in Regions, Deliver(t, c, r)
        PROVE  KernelInv'
    BY <1>0, <2>2 DEF Deliver
  <2>3. CASE DeliverElsewhere(c)
    BY <1>0, <2>3 DEF DeliverElsewhere
  <2> QED
    BY <1>4, <2>1, <2>2, <2>3 DEF Signal
<1>5. CASE UNCHANGED vars
  BY <1>5 DEF vars
<1> QED
  BY <1>1, <1>2, <1>3, <1>4, <1>5 DEF Next, Quiescent

(* Every signal and every sample belongs to the running session or was in  *)
(* flight when an earlier one stopped.                                     *)
LEMMA OriginStep ==
    TypeOK /\ LockInv /\ OwnerInv /\ KernelInv /\ OriginInv /\ [Next]_vars
        => OriginInv'
<1> SUFFICES ASSUME TypeOK, LockInv, OwnerInv, KernelInv, OriginInv,
                    [Next]_vars
             PROVE  OriginInv'
  OBVIOUS
<1> USE DEF OriginInv, ThreadBlocklistHonoured, Legit, callVars, sessionVars,
        fieldVars, kernelVars, handlerVars
<1>0. /\ pending \in [Clocks -> Nat] /\ timer \in [Clocks -> Nat]
      /\ session \in Nat /\ clockType \in Clocks /\ late \subseteq Nat
      /\ handler \in [Threads -> [Clocks -> Frames]] /\ data \subseteq Samples
  BY DEF TypeOK
<1>1. ASSUME NEW t \in Threads, Calls(t) PROVE OriginInv'
  BY <1>1 DEF Calls, CallBuild, CallDrop, CallReport
<1>2. ASSUME NEW t \in Threads, MainStep(t) PROVE OriginInv'
  <2>1. CASE \/ LazyRead(t) \/ LazyInit(t) \/ LazyDone(t) \/ BuildArm(t)
             \/ UnresolvedLock(t) \/ ReportReturn(t)
    BY <2>1
    DEF LazyRead, LazyInit, LazyDone, BuildArm, UnresolvedLock, ReportReturn
  <2>2. CASE BuildLock(t) \/ DropLock(t) \/ ReportLock(t)
    BY <2>2 DEF BuildLock, DropLock, ReportLock, WriteLock
  <2>3. CASE BuildErr(t) \/ BuildPanic(t) \/ BuildReturn(t)
    BY <2>3 DEF BuildErr, BuildPanic, BuildReturn
  <2>4. CASE BuildStart(t)
    <3>1. CASE running
      BY <2>4, <3>1 DEF BuildStart, Start, Register
    <3>2. CASE ~running
      BY <1>0, <2>4, <3>2 DEF BuildStart, Start, Register
    <3> QED
      BY <3>1, <3>2
  <2>5. CASE DropStop(t)
    <3>1. /\ running /\ late \subseteq late' /\ Entered \subseteq late'
          /\ \A c \in Clocks : pending'[c] \in late'
          /\ \A c \in Clocks : pending'[c] # 0 => pending'[c] = pending[c]
      <4>1. running
        BY <2>5
        DEF DropStop, AtMain, OwnerInv, GuardExclusive, Owns, Dropping
      <4>2. \A c \in Clocks : pending'[c] # 0 => pending'[c] = pending[c]
        BY <1>0, <2>5, <4>1 DEF DropStop, Unregister
      <4> QED
        BY <2>5, <4>1, <4>2 DEF DropStop
    <3>2. \A u \in Threads, c \in Clocks : handler[u][c].pc # "locked"
      BY <2>5 DEF DropStop, AtMain, LockInv, LockExclusive, Clocks
    <3>3. \A u \in Threads, c \in Clocks :
             handler[u][c].pc = "entered" => handler[u][c].origin \in late'
      BY <3>1 DEF Entered
    <3>4. data' \subseteq data /\ (data' = {} \/ running')
      BY <2>5, <3>1 DEF DropStop, Reset
    <3> QED
      BY <2>5, <3>1, <3>2, <3>3, <3>4 DEF DropStop
  <2> QED
    BY <1>2, <2>1, <2>2, <2>3, <2>4, <2>5 DEF MainStep
<1>3. ASSUME NEW t \in Threads, HandlerStep(t) PROVE OriginInv'
  <2> PICK c \in Clocks : \/ HandlerLock(t, c) \/ HandlerMiss(t, c)
                          \/ HandlerSample(t, c) \/ HandlerReturn(t, c)
    BY <1>3 DEF HandlerStep
  <2> DEFINE SameOrigins ==
        \A u \in Threads, k \in Clocks :
           /\ handler'[u][k].origin = handler[u][k].origin
           /\ handler'[u][k].pc \in {"entered", "locked"}
                 => handler[u][k].pc \in {"entered", "locked"}
  <2>0. ASSUME NEW l, handler' = [handler EXCEPT ![t][c].pc = l],
               handler[t][c].pc \in {"entered", "locked"}
        PROVE  SameOrigins
    <3>1. handler'[t][c] = [handler[t][c] EXCEPT !.pc = l]
      BY <1>0, <2>0
    <3>2. handler[t][c] \in Frames
      BY <1>0
    <3>3. handler'[t][c].origin = handler[t][c].origin
      BY <3>1, <3>2 DEF Frames
    <3>4. \A u \in Threads, k \in Clocks :
             u # t \/ k # c => handler'[u][k] = handler[u][k]
      BY <1>0, <2>0
    <3> QED
      BY <2>0, <3>3, <3>4
  <2>1. CASE HandlerLock(t, c) \/ HandlerMiss(t, c)
    <3>1. SameOrigins
      BY <2>0, <2>1 DEF HandlerLock, HandlerMiss, AtHandler
    <3>2. UNCHANGED <<pending, data, session, late, running, threadBlocklist,
                      want>>
      BY <2>1 DEF HandlerLock, HandlerMiss
    <3> QED
      BY <3>1, <3>2
  <2>2. CASE HandlerSample(t, c)
    <3>1. SameOrigins
      BY <2>0, <2>2 DEF HandlerSample, AtHandler
    <3>2. Legit(handler[t][c].origin) /\ threadBlocklist = want.threads
      BY <1>0, <2>2 DEF HandlerSample, AtHandler
    <3>3. \A d \in data' :
             d \in data \/ (d.origin = handler[t][c].origin
                               /\ d.thread = t /\ t \notin threadBlocklist)
      BY <2>2 DEF HandlerSample, Sample, IsThreadBlocklisted
    <3> QED
      BY <2>2, <3>1, <3>2, <3>3 DEF HandlerSample
  <2>3. CASE HandlerReturn(t, c)
    BY <1>0, <2>3 DEF HandlerReturn, NoFrame
  <2> QED
    BY <2>1, <2>2, <2>3
<1>4. ASSUME NEW c \in Clocks, Tick(c) \/ Signal(c) PROVE OriginInv'
  <2>1. CASE Tick(c)
    <3>1. timer[c] = session /\ running /\ session > 0
      BY <1>0, <2>1 DEF Tick, KernelInv, StoppedIsClean
    <3> QED
      BY <1>0, <2>1, <3>1 DEF Tick
  <2>2. ASSUME NEW t \in Threads, NEW r \in Regions, Deliver(t, c, r)
        PROVE  OriginInv'
    BY <1>0, <2>2 DEF Deliver
  <2>3. CASE DeliverElsewhere(c)
    BY <1>0, <2>3 DEF DeliverElsewhere
  <2> QED
    BY <1>4, <2>1, <2>2, <2>3 DEF Signal
<1>5. CASE UNCHANGED vars
  BY <1>5 DEF vars
<1> QED
  BY <1>1, <1>2, <1>3, <1>4, <1>5 DEF Next, Quiescent

(* The upper layers hold before the first call. *)
LEMMA KernelOriginInit == Init => KernelInv /\ OriginInv
<1> SUFFICES ASSUME Init PROVE KernelInv /\ OriginInv
  OBVIOUS
<1>1. \A c \in Clocks : disp[c] # "perf"
  BY DispAssumption DEF Init
<1>2. KernelInv
  BY <1>1 DEF Init, KernelInv, LiveGuardTicks, StoppedIsClean, NoFatalTick,
              Owns, Starting, Dropping
<1>3. OriginInv
  BY DEF Init, OriginInv, ThreadBlocklistHonoured, NoFrame
<1> QED
  BY <1>2, <1>3

(* trigger_lazy forces UNWINDER and releases it while it holds PROFILER.   *)
UnwinderInv ==
    /\ \A t \in unwinderReaders : pc[t] = "lazy_done"
    /\ \A t \in Threads :
          /\ pc[t] \in {"lazy_init", "lazy_done"} => t \in readers
          /\ pc[t] \in {"lazy_done", "build_write", "build_start"}
                => unwinderInit
    /\ session > 0 => unwinderInit

(* Only trigger_lazy touches the unwinder outside the handler. *)
LEMMA UnwinderStep == TypeOK /\ UnwinderInv /\ [Next]_vars => UnwinderInv'
<1> SUFFICES ASSUME TypeOK, UnwinderInv, [Next]_vars PROVE UnwinderInv'
  OBVIOUS
<1> USE DEF UnwinderInv, lockVars, unwinderVars, callVars, sessionVars
<1>0. /\ pc \in [Threads -> Labels] /\ unwinderReaders \subseteq Threads
      /\ session \in Nat
  BY DEF TypeOK
<1>1. ASSUME NEW t \in Threads, Calls(t) PROVE UnwinderInv'
  BY <1>0, <1>1 DEF Calls, CallBuild, CallDrop, CallReport, AtMain
<1>2. ASSUME NEW t \in Threads, MainStep(t) PROVE UnwinderInv'
  <2>1. CASE LazyRead(t) \/ LazyInit(t) \/ LazyDone(t)
    BY <1>0, <2>1 DEF LazyRead, KeepReadGuard, LazyInit, LazyDone, AtMain
  <2>2. CASE BuildLock(t) \/ DropLock(t) \/ ReportLock(t)
    BY <1>0, <2>2 DEF BuildLock, DropLock, ReportLock, WriteLock, AtMain
  <2>3. CASE BuildErr(t) \/ BuildPanic(t) \/ BuildReturn(t) \/ BuildArm(t)
    BY <1>0, <2>3 DEF BuildErr, BuildPanic, BuildReturn, BuildArm, AtMain
  <2>4. CASE BuildStart(t)
    BY <1>0, <2>4 DEF BuildStart, Start, Register, AtMain
  <2>5. CASE DropStop(t)
    BY <1>0, <2>5 DEF DropStop, AtMain
  <2>6. CASE UnresolvedLock(t) \/ ReportReturn(t)
    BY <1>0, <2>6 DEF UnresolvedLock, ReportReturn, AtMain
  <2> QED
    BY <1>2, <2>1, <2>2, <2>3, <2>4, <2>5, <2>6 DEF MainStep
<1>3. ASSUME NEW t \in Threads, HandlerStep(t) PROVE UnwinderInv'
  BY <1>3
  DEF HandlerStep, HandlerLock, HandlerMiss, HandlerSample, HandlerReturn
<1>4. ASSUME NEW c \in Clocks, Tick(c) \/ Signal(c) PROVE UnwinderInv'
  BY <1>4 DEF Tick, Signal, Deliver, DeliverElsewhere
<1>5. CASE UNCHANGED vars
  BY <1>5 DEF vars
<1> QED
  BY <1>1, <1>2, <1>3, <1>4, <1>5 DEF Next, Quiescent

(* A session loses its owner only to a fault: build hands the session to   *)
(* its guard and drop takes it over, except where build panics on a        *)
(* frequency of 0, and stop leaves it running only when init fails.        *)
LEMMA OrphanStep ==
    TypeOK /\ OwnerInv /\ OrphanedOnlyByFault /\ [Next]_vars
       => OrphanedOnlyByFault'
<1> SUFFICES ASSUME TypeOK, OwnerInv, OrphanedOnlyByFault, [Next]_vars
             PROVE  OrphanedOnlyByFault'
  OBVIOUS
<1> USE DEF OrphanedOnlyByFault, HasOwner, Owns, Starting, Dropping, callVars,
        sessionVars, fieldVars
<1>0. /\ pc \in [Threads -> Labels] /\ args \in [Threads -> Configs]
      /\ running \in BOOLEAN
  BY DEF TypeOK
<1>1. ASSUME NEW t \in Threads, Calls(t) PROVE OrphanedOnlyByFault'
  <2>1. ASSUME NEW cfg \in Configs, CallBuild(t, cfg)
        PROVE  OrphanedOnlyByFault'
    BY <1>0, <2>1 DEF CallBuild, AtMain
  <2>2. ASSUME NEW g \in guards, CallDrop(t, g) PROVE OrphanedOnlyByFault'
    BY <1>0, <2>2 DEF CallDrop
  <2>3. ASSUME NEW g \in guards, NEW kind \in {"report_read", "report_write"},
               CallReport(t, g, kind)
        PROVE  OrphanedOnlyByFault'
    BY <1>0, <2>3 DEF CallReport, AtMain
  <2> QED
    BY <1>1, <2>1, <2>2, <2>3 DEF Calls
<1>2. ASSUME NEW t \in Threads, MainStep(t) PROVE OrphanedOnlyByFault'
  <2>1. CASE LazyRead(t) \/ LazyInit(t) \/ LazyDone(t) \/ UnresolvedLock(t)
    BY <1>0, <2>1 DEF LazyRead, LazyInit, LazyDone, UnresolvedLock, AtMain
  <2>2. CASE BuildLock(t) \/ DropLock(t) \/ ReportLock(t)
    BY <1>0, <2>2 DEF BuildLock, DropLock, ReportLock, WriteLock, AtMain
  <2>3. CASE BuildErr(t) \/ BuildArm(t) \/ ReportReturn(t)
    BY <1>0, <2>3 DEF BuildErr, BuildArm, ReportReturn, AtMain
  <2>4. CASE BuildStart(t)
    BY <1>0, <2>4 DEF BuildStart, Start, Register, AtMain
  <2>5. CASE BuildPanic(t)
    <3>1. want.frequency = 0
      BY <2>5 DEF BuildPanic, AtMain, OwnerInv
    <3> QED
      BY <2>5, <3>1 DEF BuildPanic
  <2>6. CASE BuildReturn(t)
    BY <2>6 DEF BuildReturn
  <2>7. CASE DropStop(t)
    <3>1. running' => TempFileFails /\ oldSigaction' = {}
      BY <1>0, <2>7 DEF DropStop, Unregister, Reset
    <3> QED
      BY <3>1
  <2> QED
    BY <1>2, <2>1, <2>2, <2>3, <2>4, <2>5, <2>6, <2>7 DEF MainStep
<1>3. ASSUME NEW t \in Threads, HandlerStep(t) PROVE OrphanedOnlyByFault'
  BY <1>3
  DEF HandlerStep, HandlerLock, HandlerMiss, HandlerSample, HandlerReturn
<1>4. ASSUME NEW c \in Clocks, Tick(c) \/ Signal(c) PROVE OrphanedOnlyByFault'
  BY <1>4 DEF Tick, Signal, Deliver, DeliverElsewhere
<1>5. CASE UNCHANGED vars
  BY <1>5 DEF vars
<1> QED
  BY <1>1, <1>2, <1>3, <1>4, <1>5 DEF Next, Quiescent

(* What a fault leaves behind: no armed timer, and the handler only where  *)
(* the build panicked, which is before it arms the timer.                  *)
FaultInv ==
    /\ OwnerlessIsClean
    /\ \A t \in Threads : pc[t] = "build_arm" => timer[clockType] = 0

(* Drop disarms the timer before stop and stop gives the signal back       *)
(* before init, so that a failure of init finds both done.                 *)
LEMMA FaultStep ==
    TypeOK /\ LockInv /\ OwnerInv /\ KernelInv /\ FaultInv /\ [Next]_vars
       => FaultInv'
<1> SUFFICES ASSUME TypeOK, LockInv, OwnerInv, KernelInv, FaultInv, [Next]_vars
             PROVE  FaultInv'
  OBVIOUS
<1> USE DEF FaultInv, OwnerlessIsClean, HasOwner, Owns, Starting, Dropping,
        callVars, sessionVars, fieldVars, kernelVars
<1>0. /\ pc \in [Threads -> Labels] /\ args \in [Threads -> Configs]
      /\ timer \in [Clocks -> Nat]
      /\ disp \in [Clocks -> {"SigDfl", "SigIgn", "App", "perf"}]
      /\ clockType \in Clocks /\ running \in BOOLEAN
  BY DEF TypeOK
<1>1. ASSUME NEW t \in Threads, Calls(t) PROVE FaultInv'
  <2>1. ASSUME NEW cfg \in Configs, CallBuild(t, cfg) PROVE FaultInv'
    BY <1>0, <2>1 DEF CallBuild, AtMain
  <2>2. ASSUME NEW g \in guards, CallDrop(t, g) PROVE FaultInv'
    BY <1>0, <2>2 DEF CallDrop, Disarm, ITimer
  <2>3. ASSUME NEW g \in guards, NEW kind \in {"report_read", "report_write"},
               CallReport(t, g, kind)
        PROVE  FaultInv'
    BY <1>0, <2>3 DEF CallReport, AtMain
  <2> QED
    BY <1>1, <2>1, <2>2, <2>3 DEF Calls
<1>2. ASSUME NEW t \in Threads, MainStep(t) PROVE FaultInv'
  <2>1. CASE LazyRead(t) \/ LazyInit(t) \/ LazyDone(t) \/ UnresolvedLock(t)
    BY <1>0, <2>1 DEF LazyRead, LazyInit, LazyDone, UnresolvedLock, AtMain
  <2>2. CASE BuildLock(t) \/ DropLock(t) \/ ReportLock(t)
    BY <1>0, <2>2 DEF BuildLock, DropLock, ReportLock, WriteLock, AtMain
  <2>3. CASE BuildErr(t) \/ ReportReturn(t)
    BY <1>0, <2>3 DEF BuildErr, ReportReturn, AtMain
  <2>4. CASE BuildStart(t)
    <3>1. CASE running
      BY <1>0, <2>4, <3>1 DEF BuildStart, Start, AtMain
    <3>2. CASE ~running
      <4>1. \A c \in Clocks : timer[c] = 0
        BY <3>2 DEF KernelInv, StoppedIsClean
      <4>2. args[t].clock \in Clocks
        BY <1>0, ConfigTypes
      <4>3. HasOwner' /\ clockType' \in Clocks /\ timer' = timer
        BY <1>0, <2>4, <3>2, <4>2 DEF BuildStart, Start
      <4> QED
        BY <4>1, <4>3
    <3> QED
      BY <3>1, <3>2
  <2>5. CASE BuildArm(t)
    <3>1. \A u \in Threads : Owns(u) => u = t
      BY <2>5 DEF BuildArm, AtMain, OwnerInv, GuardExclusive
    <3> QED
      BY <1>0, <2>5, <3>1 DEF BuildArm
  <2>6. CASE BuildPanic(t)
    <3>1. /\ running /\ want.frequency = 0
          /\ \A c \in Clocks : c # clockType => timer[c] = 0 /\ disp[c] # "perf"
      BY <2>6
      DEF BuildPanic, AtMain, OwnerInv, GuardExclusive, KernelInv,
        StoppedIsClean
    <3>2. timer[clockType] = 0
      BY <2>6 DEF BuildPanic, AtMain
    <3> QED
      BY <1>0, <2>6, <3>1, <3>2 DEF BuildPanic
  <2>7. CASE BuildReturn(t)
    BY <1>0, <2>7 DEF BuildReturn
  <2>8. CASE DropStop(t)
    <3>1. /\ running /\ oldSigaction # {} /\ "perf" \notin oldSigaction
          /\ \A c \in Clocks : timer[c] = 0
          /\ \A c \in Clocks : c # clockType => disp[c] # "perf"
      BY <2>8
      DEF DropStop, AtMain, OwnerInv, GuardExclusive, KernelInv, StoppedIsClean
    <3>2. PICK old \in oldSigaction :
             disp' = [disp EXCEPT ![clockType] = Restored(old)]
      BY <2>8, <3>1 DEF DropStop, Unregister
    <3>3. Restored(old) # "perf"
      BY <3>1 DEF Restored
    <3>4. \A c \in Clocks : timer'[c] = 0 /\ disp'[c] # "perf"
      BY <1>0, <2>8, <3>1, <3>2, <3>3 DEF DropStop
    <3>5. timer'[clockType'] = 0
      BY <1>0, <2>8, <3>4 DEF DropStop
    <3> QED
      BY <3>4, <3>5
  <2> QED
    BY <1>2, <2>1, <2>2, <2>3, <2>4, <2>5, <2>6, <2>7, <2>8 DEF MainStep
<1>3. ASSUME NEW t \in Threads, HandlerStep(t) PROVE FaultInv'
  BY <1>3
  DEF HandlerStep, HandlerLock, HandlerMiss, HandlerSample, HandlerReturn
<1>4. ASSUME NEW c \in Clocks, Tick(c) \/ Signal(c) PROVE FaultInv'
  BY <1>4 DEF Tick, Signal, Deliver, DeliverElsewhere
<1>5. CASE UNCHANGED vars
  BY <1>5 DEF vars
<1> QED
  BY <1>1, <1>2, <1>3, <1>4, <1>5 DEF Next, Quiescent

(* The frame at the bottom of a nest of handlers has the errno of the code *)
(* it interrupted.                                                         *)
ErrnoInv ==
    /\ ErrnoRestored
    /\ \A t \in Threads, c \in Clocks :
          handler[t][c].under = "main" => handler[t][c].saved = "app"

(* Only handlers disturb errno, and each restores what it found. *)
LEMMA ErrnoStep == TypeOK /\ ErrnoInv /\ [Next]_vars => ErrnoInv'
<1> SUFFICES ASSUME TypeOK, ErrnoInv, [Next]_vars PROVE ErrnoInv'
  OBVIOUS
<1> USE DEF ErrnoInv, ErrnoRestored, handlerVars
<1>0. /\ handler \in [Threads -> [Clocks -> Frames]]
      /\ inner \in [Threads -> Contexts]
      /\ errno \in [Threads -> {"app", "disturbed"}]
  BY DEF TypeOK
<1>1. ASSUME NEW t \in Threads, Calls(t) \/ MainStep(t) PROVE ErrnoInv'
  <2>1. UNCHANGED handlerVars
    BY <1>1 DEF Calls, CallBuild, CallDrop, CallReport, MainStep, LazyRead,
      LazyInit, LazyDone, BuildLock, DropLock, ReportLock, WriteLock, BuildErr,
      BuildStart, BuildArm, BuildPanic, BuildReturn, DropStop, UnresolvedLock,
      ReportReturn
  <2> QED
    BY <2>1
<1>2. ASSUME NEW t \in Threads, NEW c \in Clocks,
             HandlerLock(t, c) \/ HandlerMiss(t, c)
      PROVE  ErrnoInv'
  <2>1. UNCHANGED <<inner, errno>>
    BY <1>2 DEF HandlerLock, HandlerMiss
  <2>2. ASSUME NEW u \in Threads, NEW d \in Clocks
        PROVE  /\ handler'[u][d].under = handler[u][d].under
               /\ handler'[u][d].saved = handler[u][d].saved
    <3>1. PICK label \in {"locked", "leaving"} :
             handler' = [handler EXCEPT ![t][c].pc = label]
      BY <1>2 DEF HandlerLock, HandlerMiss
    <3> QED
      BY <1>0, <3>1 DEF Frames
  <2> QED
    BY <2>1, <2>2
<1>3. ASSUME NEW t \in Threads, NEW c \in Clocks, HandlerSample(t, c)
      PROVE  ErrnoInv'
  <2>1. inner[t] # "main"
    BY <1>3 DEF HandlerSample, AtHandler, Clocks
  <2> QED
    BY <1>0, <1>3, <2>1 DEF HandlerSample, Frames
<1>4. ASSUME NEW t \in Threads, NEW c \in Clocks, HandlerReturn(t, c)
      PROVE  ErrnoInv'
  BY <1>0, <1>4, PlaceholderTypes DEF HandlerReturn, RestoreErrno, NoFrame
<1>5. ASSUME NEW c \in Clocks, Tick(c) \/ DeliverElsewhere(c) PROVE ErrnoInv'
  BY <1>5 DEF Tick, DeliverElsewhere
<1>6. ASSUME NEW t \in Threads, NEW c \in Clocks, NEW r \in Regions,
             Deliver(t, c, r)
      PROVE  ErrnoInv'
  BY <1>0, <1>6 DEF Deliver, Clocks
<1>7. CASE UNCHANGED vars
  BY <1>7 DEF vars
<1> QED
  BY <1>1, <1>2, <1>3, <1>4, <1>5, <1>6, <1>7
  DEF Next, HandlerStep, Signal, Quiescent

-----------------------------------------------------------------------------
(* The inductive invariant. *)
IInv ==
    /\ TypeOK /\ LockInv /\ OwnerInv /\ KernelInv /\ OriginInv
    /\ UnwinderInv /\ OrphanedOnlyByFault /\ FaultInv /\ ErrnoInv

(* IInv holds in every state of every behaviour. *)
THEOREM Invariance == Spec => []IInv
<1>1. Init => UnwinderInv /\ OrphanedOnlyByFault /\ ErrnoInv
  BY DEF Init, UnwinderInv, OrphanedOnlyByFault, ErrnoInv, ErrnoRestored,
    NoFrame
<1>2. Init => FaultInv
  BY DispAssumption DEF Init, FaultInv, OwnerlessIsClean
<1>3. Init => IInv
  BY <1>1, <1>2, InitType, LockOwnerInit, KernelOriginInit DEF IInv
<1>4. IInv /\ [Next]_vars => IInv'
  BY NextType, LockStep, OwnerStep, KernelStep, OriginStep, UnwinderStep,
    OrphanStep, FaultStep, ErrnoStep
  DEF IInv
<1> QED
  BY <1>3, <1>4, PTL DEF Spec

(* At most one owner per session: see GuardExclusive. *)
THEOREM ExclusiveOwnership == Spec => []GuardExclusive
<1>1. IInv => GuardExclusive
  BY DEF IInv, OwnerInv
<1> QED
  BY <1>1, Invariance, PTL

(* A live guard's timer and handler stay installed: see LiveGuardTicks. *)
THEOREM LiveGuardKeepsTicking == Spec => []LiveGuardTicks
<1>1. IInv => LiveGuardTicks
  BY DEF IInv, KernelInv
<1> QED
  BY <1>1, Invariance, PTL

(* A stopped profiler leaves timers and signals clean: see StoppedIsClean. *)
THEOREM StopCleansUp == Spec => []StoppedIsClean
<1>1. IInv => StoppedIsClean
  BY DEF IInv, KernelInv
<1> QED
  BY <1>1, Invariance, PTL

(* A stop that fails half way leaves nothing ticking: see                  *)
(* OwnerlessIsClean.                                                       *)
THEOREM FaultsLeaveNoTimer == Spec => []OwnerlessIsClean
<1>1. IInv => OwnerlessIsClean
  BY DEF IInv, FaultInv
<1> QED
  BY <1>1, Invariance, PTL

(* No late tick kills the process: see NoFatalTick. *)
THEOREM LateTicksAreHarmless == Spec => []NoFatalTick
<1>1. IInv => NoFatalTick
  BY DEF IInv, KernelInv
<1> QED
  BY <1>1, Invariance, PTL

(* A session loses its owner only to a fault: see OrphanedOnlyByFault. *)
THEOREM OwnerlessOnlyByFault == Spec => []OrphanedOnlyByFault
<1>1. IInv => OrphanedOnlyByFault
  BY DEF IInv
<1> QED
  BY <1>1, Invariance, PTL

(* Where neither fault can happen, a running profiler always has a guard,  *)
(* or a build or drop of one: see RunningHasGuard.                         *)
THEOREM GuardStopsProfiler ==
    ASSUME ~TempFileFails, \A cfg \in Configs : cfg.frequency # 0
    PROVE  Spec => []RunningHasGuard
<1>1. IInv => RunningHasGuard
  BY DEF IInv, TypeOK, OrphanedOnlyByFault, RunningHasGuard
<1> QED
  BY <1>1, Invariance, PTL

(* No handler changes the errno of the code it interrupts, however deep    *)
(* handlers nest: see ErrnoRestored.                                       *)
THEOREM ErrnoIsRestored == Spec => []ErrnoRestored
<1>1. IInv => ErrnoRestored
  BY DEF IInv, ErrnoInv
<1> QED
  BY <1>1, Invariance, PTL

(* Only a start that succeeds resets the count of missed samples: see      *)
(* MissedOnlyResetByStart.                                                 *)
THEOREM MissedSurvivesFailedBuild == Spec => MissedOnlyResetByStart
<1>1. ASSUME TypeOK, [Next]_vars, missed' < missed PROVE session' # session
  <2>0. missed \in Nat /\ session \in Nat
    BY <1>1 DEF TypeOK
  <2>1. ASSUME NEW t \in Threads, BuildStart(t) PROVE session' # session
    BY <1>1, <2>0, <2>1 DEF BuildStart, Start
  <2>2. ASSUME NEW t \in Threads, Calls(t) \/ MainStep(t), ~BuildStart(t)
        PROVE  FALSE
    <3>1. UNCHANGED missed
      BY <2>2 DEF Calls, CallBuild, CallDrop, CallReport, MainStep, LazyRead,
        LazyInit, LazyDone, BuildLock, DropLock, ReportLock, WriteLock,
        BuildErr, BuildArm, BuildPanic, BuildReturn, DropStop, UnresolvedLock,
        ReportReturn
    <3> QED
      BY <1>1, <2>0, <3>1
  <2>3. ASSUME NEW t \in Threads, HandlerStep(t) PROVE FALSE
    BY <1>1, <2>0, <2>3
    DEF HandlerStep, HandlerLock, HandlerMiss, HandlerSample, HandlerReturn
  <2>4. ASSUME NEW c \in Clocks, Tick(c) \/ Signal(c) PROVE FALSE
    BY <1>1, <2>0, <2>4 DEF Tick, Signal, Deliver, DeliverElsewhere
  <2>5. CASE UNCHANGED vars
    BY <1>1, <2>0, <2>5 DEF vars
  <2> QED
    BY <1>1, <2>1, <2>2, <2>3, <2>4, <2>5 DEF Next, Quiescent
<1>2. TypeOK /\ [Next]_vars => [missed' < missed => session' # session]_vars
  BY <1>1
<1> QED
  BY <1>2, TypeCorrect, PTL DEF Spec, MissedOnlyResetByStart

(* Stopping forgets the session's samples: see NoCarryOver. *)
THEOREM StopForgetsSamples == Spec => []NoCarryOver
<1>1. IInv => NoCarryOver
  BY DEF IInv, OriginInv, Legit, NoCarryOver
<1> QED
  BY <1>1, Invariance, PTL

(* The thread blocklist is honoured: see ThreadBlocklistHonoured. *)
THEOREM ThreadBlocklistIsKept == Spec => []ThreadBlocklistHonoured
<1>1. IInv => ThreadBlocklistHonoured
  BY DEF IInv, OriginInv
<1> QED
  BY <1>1, Invariance, PTL

(* The handler always gets the unwinder: see TraceGetsUnwinder. *)
THEOREM HandlerGetsUnwinder == Spec => []TraceGetsUnwinder
<1>1. ASSUME IInv, NEW t \in Threads, NEW c \in Clocks,
             handler[t][c].pc = "locked"
      PROVE  unwinderInit /\ unwinderReaders = {}
  <2>1. session > 0
    <3>1. session \in Nat
      BY <1>1 DEF IInv, TypeOK
    <3>2. handler[t][c].origin \in 1..session
      BY <1>1 DEF IInv, OriginInv, Legit
    <3> QED
      BY <3>1, <3>2
  <2>2. readers = {}
    BY <1>1 DEF IInv, LockInv, LockExclusive
  <2>3. unwinderReaders = {}
    BY <1>1, <2>2 DEF IInv, TypeOK, UnwinderInv
  <2> QED
    BY <1>1, <2>1, <2>3 DEF IInv, UnwinderInv
<1>2. IInv => TraceGetsUnwinder
  BY <1>1 DEF TraceGetsUnwinder
<1> QED
  BY <1>2, Invariance, PTL

-----------------------------------------------------------------------------
(* A step of the profiler is a step of the abstract session, or invisible  *)
(* to it: BuildStart of a stopped profiler begins a session, HandlerSample *)
(* records, a DropStop whose reset succeeds ends it.                       *)
LEMMA SessionStep ==
    IInv /\ [Next]_vars => [Abs!Next]_<<running, session, want, data>>
<1> SUFFICES ASSUME IInv, [Next]_vars
             PROVE  [Abs!Next]_<<running, session, want, data>>
  OBVIOUS
<1> USE DEF callVars, sessionVars, fieldVars
<1>0. TypeOK /\ OwnerInv /\ OriginInv
  BY DEF IInv
<1>1. ASSUME NEW t \in Threads, Calls(t)
      PROVE  UNCHANGED <<running, session, want, data>>
  BY <1>1 DEF Calls, CallBuild, CallDrop, CallReport
<1>2. ASSUME NEW t \in Threads, MainStep(t)
      PROVE  [Abs!Next]_<<running, session, want, data>>
  <2>1. CASE BuildStart(t)
    <3>1. CASE running
      BY <2>1, <3>1 DEF BuildStart, Start, Register
    <3>2. CASE ~running
      <4>1. args[t] \in Configs
        BY <1>0 DEF TypeOK
      <4>2. Abs!Begin(args[t])
        BY <2>1, <3>2 DEF BuildStart, Start, Register, Abs!Begin
      <4> QED
        BY <4>1, <4>2 DEF Abs!Next
    <3> QED
      BY <3>1, <3>2
  <2>2. CASE DropStop(t)
    <3>1. running
      BY <1>0, <2>2
      DEF DropStop, AtMain, OwnerInv, GuardExclusive, Owns, Dropping
    <3>2. \/ running' = FALSE /\ data' = {}
          \/ UNCHANGED <<running, data>>
      BY <2>2, <3>1 DEF DropStop, Reset
    <3> QED
      BY <2>2, <3>1, <3>2 DEF DropStop, Abs!Next, Abs!End
  <2>3. CASE LazyRead(t) \/ LazyInit(t) \/ LazyDone(t)
    BY <2>3 DEF LazyRead, LazyInit, LazyDone
  <2>4. CASE BuildLock(t) \/ DropLock(t) \/ ReportLock(t)
    BY <2>4 DEF BuildLock, DropLock, ReportLock, WriteLock
  <2>5. CASE BuildErr(t) \/ BuildArm(t) \/ BuildPanic(t) \/ BuildReturn(t)
    BY <2>5 DEF BuildErr, BuildArm, BuildPanic, BuildReturn
  <2>6. CASE UnresolvedLock(t) \/ ReportReturn(t)
    BY <2>6 DEF UnresolvedLock, ReportReturn
  <2> QED
    BY <1>2, <2>1, <2>2, <2>3, <2>4, <2>5, <2>6 DEF MainStep
<1>3. ASSUME NEW t \in Threads, HandlerStep(t)
      PROVE  [Abs!Next]_<<running, session, want, data>>
  <2> PICK c \in Clocks : \/ HandlerLock(t, c) \/ HandlerMiss(t, c)
                          \/ HandlerSample(t, c) \/ HandlerReturn(t, c)
    BY <1>3 DEF HandlerStep
  <2>1. CASE HandlerSample(t, c)
    <3> DEFINE s == Sample(handler[t][c].origin, t, handler[t][c].region)
    <3>1. session > 0 /\ threadBlocklist = want.threads
      BY <1>0, <2>1 DEF HandlerSample, AtHandler, OriginInv, Legit, TypeOK
    <3>2. \/ data' = data
          \/ data' = data \cup {s} /\ t \notin threadBlocklist
      BY <2>1 DEF HandlerSample, IsThreadBlocklisted
    <3>3. s.thread = t
      BY DEF Sample
    <3>4. UNCHANGED <<running, session, want>>
      BY <2>1 DEF HandlerSample
    <3>5. CASE data' = data
      BY <3>4, <3>5
    <3>6. CASE data' # data
      <4>1. s \in data' \ data /\ data' = data \cup {s}
        BY <3>2, <3>6
      <4>2. Abs!Record
        BY <3>1, <3>2, <3>3, <3>4, <3>6, <4>1 DEF Abs!Record
      <4> QED
        BY <4>2 DEF Abs!Next
    <3> QED
      BY <3>5, <3>6
  <2>2. CASE HandlerLock(t, c) \/ HandlerMiss(t, c) \/ HandlerReturn(t, c)
    BY <2>2 DEF HandlerLock, HandlerMiss, HandlerReturn
  <2> QED
    BY <2>1, <2>2
<1>4. ASSUME NEW c \in Clocks, Tick(c) \/ Signal(c)
      PROVE  UNCHANGED <<running, session, want, data>>
  BY <1>4 DEF Tick, Signal, Deliver, DeliverElsewhere
<1>5. CASE UNCHANGED vars
  BY <1>5 DEF vars
<1> QED
  BY <1>1, <1>2, <1>3, <1>4, <1>5 DEF Next, Quiescent

(* The profiler, with its threads, signals and faults, implements the      *)
(* abstract sessions: see ImplementsSessions.                              *)
THEOREM Refinement == Spec => ImplementsSessions
<1>1. Init => Abs!Init
  BY PlaceholderTypes DEF Init, Abs!Init
<1>2. IInv /\ [Next]_vars => [Abs!Next]_(Abs!sessionSpecVars)
  BY SessionStep DEF Abs!sessionSpecVars
<1> QED
  BY <1>1, <1>2, Invariance, PTL DEF Spec, ImplementsSessions, Abs!Spec
=============================================================================
