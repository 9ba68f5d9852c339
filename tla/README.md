# A TLA+ model of rpprof (pprof-rs)

rpprof profiles a Rust process from the inside: an interval timer raises a
signal, the signal handler unwinds whatever thread it interrupted and stores the
stack, and a report sums the stored stacks. A second, independent half wraps the
global allocator and samples allocations. Little of this is long, and almost all
of it is concurrent: handlers run between any two instructions of any thread,
allocator hooks run inside every other piece of code.

This directory models those two halves and what they rest on (the pipe that tells
readable addresses, the unwinders that read stacks, the maps that name generated
code), checks them with TLC on small instances and proves with TLAPS, for every
instance, each safety property the passing runs check. Paths
and line numbers below refer to the repository root; `PROJECT.json` maps every
definition to its lines.

## 1. Inventory

| Component | Source | State | Operations | Hard because |
|---|---|---|---|---|
| CPU profiler, guard, builder | `src/profiler.rs` | `PROFILER` (a lazily created `Profiler` behind a spin `RwLock`), `MISSED_SAMPLES`, the signal dispositions | `build`, `start`, `stop`, `init`, `register_/unregister_signal_handler`, `Drop for ProfilerGuard`, `perf_signal_handler` | handlers interrupt lock holders; signals in flight outlive the session that raised them; a failed call may have assigned part of its configuration; creating the temporary file can fail in `stop` |
| Timers | `src/timer.rs` | `ITIMER_PROF`, `ITIMER_REAL` in the kernel | `with_clock_type`, `Drop for Timer`, `timing` | armed and disarmed outside and inside the lock; interval arithmetic at 0, above 1 MHz, below 0 |
| Unwinder (framehop, the default) | `src/backtrace/framehop_unwinder.rs` | `UNWINDER` (lazy, `RwLock`) | `init`, `trace`, `iter_frames`, `read_stack` | forced outside the handler, used inside with `try_write` |
| Collector | `src/collector.rs` | 4096 buckets of 4 entries, a buffer, a temporary file, `flush_n` | `Collector::new`, `add`, `try_iter` | eviction, buffer and flush boundaries; a write that fails half way |
| Report builder | `src/report.rs`, `src/frames.rs` | none of its own | `build_unresolved`, `build`, `unique_stacks`, `total_samples` | two notions of equality of a stack |
| Report encoders | `src/report.rs`, `src/alloc.rs` | none | `write_folded`, `write_speedscope`, `flamegraph`, `pprof` | interning of strings, functions and locations |
| Heap profiler | `src/alloc.rs` | `IS_PROFILING`, `SAMPLE_RATE`, 32 shards, `callsite_map`, `callsites`, `next_callsite_id`, per-thread `BYTES_LEFT`, `IN_ALLOC` | `alloc`, `dealloc`, `realloc`, `record_sample`, `record_dealloc`, `start`, `stop`, `reset`, `set_sample_rate`, `heap_report` | five locks and atomics for one fact; the allocator calls itself; addresses are reused at once |
| Address validation | `src/addr_validate.rs` | a pipe, its two descriptors in two atomics | `open_pipe`, `validate` | public, called in the handler too; re-created by any caller; descriptor numbers are reused |
| Perf maps | `src/perfmap.rs` | `MTIME`, `RESOLVER` | `init_resolver`, `get_resolver`, `touch`, `PerfMap::new`, `find` | a refresh thread per frame; a file another program is writing; a time stamp in seconds |
| Frame-pointer unwinder | `src/backtrace/frame_pointer.rs` | none | `trace` | follows whatever words it finds in memory that may go away |
| backtrace-rs unwinder, `lib.rs` helpers, criterion adapter, error type, generated protobuf code | `src/backtrace/backtrace_rs.rs`, `src/lib.rs`, `src/criterion.rs`, `src/error.rs`, `proto/` | none | wrappers | - |

How they interact. `build` forces `PROFILER` and `UNWINDER`, then, holding the
profiler's write lock, registers the handler and arms the timer; the guard it
returns disarms the timer without the lock and stops the profiler under it. The
kernel delivers SIGPROF or SIGALRM to any thread, possibly one that holds the
lock and possibly on top of the other signal's handler. The handler tries the
profiler's lock, then the unwinder's, and adds to the collector. Report builders
read the collector under the same lock. The unwinders ask `validate` before they
read a word of the interrupted stack; resolving a frame asks the perf map first.
The heap profiler shares nothing with this half except the report type and its
formats.

What makes each component correct:

* **Profiler**: one session at a time; a running profiler has an owner; a live
  guard samples; nothing is left behind by a stop; no late signal kills the
  process; samples and settings of one session do not leak into another; errno is
  preserved; every call returns.
* **Collector and report**: every sample is counted once, in an entry of its own
  functions and thread, or the report fails; what a report shows was sampled; array
  bounds are never exceeded; the hottest stack of a bucket is not evicted.
* **Encoders**: each format decodes to the counts the report holds, under the code
  its stacks interrupted, in whatever order the report's map is walked.
* **Heap profiler**: a live record denotes an allocated block; in-use bytes are
  the sum of the live records, and what a report is turned into shows them under
  the functions that allocated them; every call returns (but for a report that waits
  for the lock it holds).
* **Address validation**: yes means readable, no means unreadable, and no file of
  the application is touched.
* **Unwinders**: nothing is read that is not mapped; the walk returns the chain of
  frames, all of it up to its bounds, and ends.
* **Perf maps**: after a refresh the map shown is the file's; nobody waits for ever.

## 2. Modules

| Module | Models | Extends / refines |
|---|---|---|
| `Profiler` | profiler, guard, timers, handler, unwinder lock, the kernel's signals | implements `ProfilerSession` |
| `ProfilerSession` | abstract: what a user may rely on (begin, record, end) | |
| `ProfilerProofs` | theorems about `Profiler` | extends `Profiler` |
| `MCProfiler` + `MCProfiler_*.cfg` | instances of `Profiler` | extends `Profiler` |
| `Collector` | buckets, buffer, temporary file | |
| `Frames` | stacks, symbols and `Frames::from` | |
| `Encoders` | folded stacks, speedscope and pprof of a report | extends `Frames` |
| `Report` | both report builders over a collector, and what their files must show | extends `Collector` and `Encoders`, implements `SampleBag` |
| `SampleBag` | abstract: a report counts everything or fails for good | |
| `EncoderProofs` | theorems about the formats of any report | extends `Encoders` and `SumTheorems` |
| `ReportProofs` | theorems about `Collector` and `Report`: the refinement of `SampleBag`, and what the files show | extends `Report` and `EncoderProofs` |
| `MCReport` + `MCReport_*.cfg` | instances of `Collector`, `Encoders` and `Report` | extends `Report` |
| `HeapProfiler` | the allocator hooks and the heap profile | |
| `HeapExport` | what a heap report is turned into | extends `HeapProfiler` and `Encoders` |
| `SumTheorems` | theorems about sums over finite sets | |
| `HeapProfilerProofs` | theorems about `HeapProfiler` and `HeapExport` | extends `HeapExport` and `EncoderProofs` |
| `MCHeapProfiler` + `MCHeapProfiler_*.cfg` | instances of both | extends `HeapExport` |
| `AddrValidate` | `validate` over descriptors and pipes | |
| `Unwind` | the frame pointer walk, framehop's reads and the handler's callback | extends `AddrValidate` |
| `UnwindProofs` | theorems about the yes of `validate` and what the unwinders read | extends `Unwind` |
| `ValidateProofs` | theorems about its no, its descriptors and what the walk returns | extends `UnwindProofs` |
| `MCUnwind` + `MCUnwind_*.cfg` | instances of both | extends `Unwind` |
| `PerfMap` | the perf map's refresh threads and its file | |
| `PerfMapProofs` | theorems about `PerfMap` | extends `PerfMap` |
| `MCPerfMap` + `MCPerfMap_refresh.cfg` | an instance of `PerfMap` | extends `PerfMap` |

Definitions whose names end in a word after an underscore (`Disarm_Missing`,
`Start_AssignsFirst`) are faulty variants of the definition that follows them.
No specification uses them; `PROJECT.json` lists which property each of them
breaks, which is the evidence that the property depends on that line of code.

### 2.1 Profiler

State. The fields of `struct Profiler` are variables of the same name; `readers`
and `writers` are the holders of `PROFILER`'s lock, a writer being a thread
together with the context it runs in (`"main"` or the handler of a clock), since
a handler and the thread under it are different holders. `disp`, `timer` and
`pending` are the kernel's: the disposition of each signal, the session that
armed each timer, and the origin of the pending signal (ordinary signals do not
queue). Per thread, `pc`, `args` and `held` are the call in progress,
`handler[t][c]` the frame of each clock's handler and `inner` the innermost
context, so handlers nest exactly as signal masks permit: a handler's own signal
is blocked, the other is not. `session`, `want` and `late` are history variables:
which session this is, what it was asked for, and which sessions' signals were in
flight at a stop.

Steps. A step is the code between two points where another thread or a signal
can matter: taking a lock, releasing it, a system call. `build` is `CallBuild`,
`LazyRead`, `LazyInit`, `LazyDone` (`trigger_lazy`), `BuildLock`, `BuildStart`
(the blocklist assignment, then `Start`), `BuildArm`, `BuildReturn`, with
`BuildErr` for a profiler that could not be created and `BuildPanic` for the
division by zero. Dropping a guard is `CallDrop` (which disarms the timer without
the lock), `DropLock`, `DropStop`. A report is `CallReport`, one of two locks, and
`ReportReturn`. The handler is `Deliver`, then `HandlerLock`/`HandlerSample` or
`HandlerMiss`, then `HandlerReturn`.

Abstractions. A sample is its origin, thread and code region: the data is a set,
since how the collector counts is the subject of `Collector`. A thread blocklist
is a set of threads and a segment blocklist a set of regions: how names and
addresses are matched is not modelled. The profiler's and the application's use
of the two signals do not overlap in time, except that the application may have
installed its own disposition before the first session. `sigaction` on a valid
signal cannot fail and its error path is left out.

### 2.2 Collector, Report and Encoders

`Add` is `Collector::add` in one step, since the handler holds the profiler's lock
throughout. `Push` takes as a parameter how many entries of the buffer reached
the file before the write failed; a flush counts in `flush_n` before it writes.
Lengths are in entries: a torn entry is never read, because `read_exact` fails on
any file shorter than `flush_n` buffers. `Clock` gives the time stamp of each
sample, because an entry keeps the time of the sample that created it, and `build`
and `build_unresolved` disagree on whether that is part of a stack's identity.

A stack (`Keys`) is what the handler saw: the ips of its frames and the name of its
thread. The collector does not compare those. `Eq` and `Hash` of `UnresolvedFrames`
take the address of each frame's *function* (`symbol_address`) and the thread's id
(`UnresolvedEq`, with the constant `Addresses`), so samples at other ips of the same
functions, or of a thread that has been renamed, are counted in the entry of the first
one, and it is the first one's ips, inlined calls and thread name that `Frames::from`
resolves (`Unwound`, `ThreadName`). What a profile shows of a sample is therefore not
always what the sample interrupted. `samples` is a history variable, a bag of what was
`taken` and which stack, of which time, it is `shown` as. `ShownWasTaken` says how far
the two may differ: always the same functions and thread, and every stack in a report is
one that was itself taken, at the time it carries. The formats are compared with the
stacks shown, and `SampleBag` counts by functions and thread.

Which symbols an address has, and what a raw name demangles to, are constants
(`Unwound`, `Demangle`); what the code does with them is modelled: the frame of
the signal handler and the one after it are dropped, empty frames are left out,
symbols are equal when their raw names are, a thread without a name is known by
its id. `Encoders` translates the interning loops of `write_speedscope` and
`pprof` over a sequence `order`, the order in which the `HashMap` happens to be
walked, and the properties quantify over every order. Each loop is a recursive
function whose value at `n` is the state after `n` turns, and each turn an operator
(`ResolveFrame`, `SpeedscopeSample`, `PprofSymbol`), so that the proofs can take the
loops apart. They decode a file the way
its reader does, by the indices and ids in it, and compare with the collector's
samples as they are shown: from the eviction to the file nothing is lost or moved. What decoding
does *not* recover, and no document promises, is the file, line and raw name of a
function: `pprof` keeps those of the first symbol it meets with a given demangled
name. `NanosPerSecond` scales the nanoseconds of a second to TLC's integers.

### 2.3 HeapProfiler and HeapExport

A step is the code between two lock acquisitions: `record_sample` is `Lookup`,
`MapWrite` (where the id is drawn), `SiteInsert`, `CountAlloc`, `LiveInsert`;
`record_dealloc` is `LiveRemove`, `CountDealloc`; `reset` goes shard by shard and
then map by map. `heap` is the wrapped allocator, which may hand out an address
the moment it is free; `owned` keeps the application from freeing twice, and
`temporary` has the blocks of a `heap_report` that is being made, which are freed by
that report and by nobody else until it returns.
`IN_ALLOC` needs no variable: it is set exactly while a thread is inside
`record_sample` or `record_dealloc`, and what those allocate is not recorded.
`heap_report` does not set it: under `callsites.read()` its vectors and strings are
allocated, grow and are released through the same hooks (`ReportAlloc`,
`ReportRealloc`, `ReportDealloc`), once there is a call site to report; without one it
allocates nothing (`ReportCall`). `Allocate`, `Release` and `Move` are the hooks, for
either caller; `Home` is where they return to. The object counters move with
the byte counters and are left out; relaxed atomics on one counter are one step.
`mixed` and `paused` are history variables: a `reset` and a recording call were
under way at once; profiling has been stopped.

`HeapExport` makes a `HeapReport` of the call sites in any order, then the
reports of the bytes in use and ever allocated, and the pprof profile. A record's
`Frames` have no thread and carry the time at which the record was made; this time
is what keeps two call sites with the same symbols apart in the `HashMap` that
`to_inuse_report` fills with `insert`, so the model says that the clock moves
between two records (`RecordTime`), and `HeapReportFaithful` fails without it. The
counters are read in one step, with nobody recording: a snapshot under load mixes
moments, and no document says otherwise.

### 2.4 AddrValidate and Unwind

`validate` tells a readable address by writing from it to a pipe. A step is one
system call or one access to `MEM_VALIDATE_PIPE`: `LoadRead`, `Read`, then, when the
pipe is broken, `open_pipe` (`OpenLoadRead`, `CloseEnd`, `OpenLoadWrite`, `CloseEnd`,
`CreatePipe`, `StoreRead`, `StoreWrite`), then `LoadWrite`, `Write`. `fds` are the
process's descriptors: a number is free, the application's, or an end of a pipe;
`pipe2` takes the lowest free ones. The application opens and closes files, closes
everything at once as a daemon does, and unmaps memory. A system call on one of its
files may answer anything, or, as such a file may be blocking, not return (`Hang`).
`noPipe`, `torn`, `overlapped`, `closedAll` and `touched`
are history variables; each names a circumstance in which a property is excused.

`Unwind` puts the caller `Handler` into an unwinder; the profiler's lock lets only
one handler in. A frame is the address its frame pointer has, `memory` is the word
found there. framehop is external: it may ask `read_stack` for any address, goes on
after a success and ends after a failure or at the end of the stack. `Collect` is
the handler's callback with `MAX_DEPTH` and, for frame pointers, the blocklist,
whose lower bound is exclusive. Reading what is not mapped ends the process
(`faulted`).

### 2.5 PerfMap

A map is the set of its lines. The JIT writes lines, whole or in halves, with or
without `O_APPEND`; `touch` truncates the file when `RESOLVER` is first used, and a
JIT that does not append then leaves a hole before its next line (`broken`). Each
frame resolved starts a refresh thread: `Stat`, `Compare`, `Store`, `Parse`,
`Publish`, where each access to `MTIME` and `RESOLVER` is a step, and threads that
need `RESOLVER` wait for the one that initialises it (`ForceLazy`). `races` records
which of the known ways of missing a line have happened; `shown` is the latest mtime
of any map that was published, so that a map is overtaken whenever an older one is
stored after a newer one, however many are stored in between.

## 3. Runs

| Run | Result | What it asks |
|---|---|---|
| `profiler_core` | pass | all safety properties of the profiler and the refinement, two threads, both clocks, two configurations, 3 calls, 2 ticks |
| `profiler_faults` | pass | what a failing temporary file and odd frequencies leave of owner, timer and handler, and that every call returns; 2 calls, 2 ticks |
| `profiler_blocklist` | violation | is the segment blocklist of the running session kept? |
| `report_bag` | pass | bounds, uniqueness, failure, the refinement of `SampleBag`, what a report may show for a sample, and the three formats of every report reachable in eight adds |
| `report_unique` | violation | does `unique_stacks` count stacks? |
| `heap_steady` | pass | exact live bytes for programs that allocate and free while the rate changes, profiling stops and starts and reports are made, and what is written of them |
| `heap_live` | pass | with realloc, reset and all that a report allocates: counters cover the records, every call returns unless a report waits for the lock it holds |
| `heap_realloc` | violation | exact live bytes with realloc? |
| `heap_report` | violation | does a report return? |
| `unwind_walk` | pass | when `validate` refuses, what is read on its word, the descriptors it touches, what the unwinders return, and that they end |
| `addr_race` | violation | is a readable address found to be readable? |
| `perfmap_refresh` | pass | a fresh map but for the known races, and nobody waits for ever |

Bounds, and why they are enough. *Profiler*: two threads give every pair of
concurrent operations; three calls are needed for build, failed build and rebuild
while a signal is in flight, two for the faults; two ticks let handlers of both
clocks nest and let one be pending while one runs. `profiler_core` starts from the
default disposition of the signals, `profiler_faults` from a handler of the
application. Dropping is not counted, because there is never more than one guard to
drop. The proofs remove these bounds, and cover the faults, for every safety
property of the profiler. *Collector*: stacks of three kinds in a bucket of two force evictions (the other
bucket stays empty: that buckets do not interfere is `report_unique`'s instance, and
proved); with eight adds the buffer of two is flushed twice, so a flush that succeeds
after one that failed happens. Of the four stacks two differ only in their ips and their
thread's name, so that they share an entry and the first decides what is shown; two
differ in nothing but the thread; they share function names, and have an inlined call, a
frame without symbols, a symbol without a name and a thread named like a function. The
clock moves once, so one stack can be two keys of a report.
*HeapProfiler*: two threads and two addresses in different shards, two call stacks,
and enough operations (six, or four with realloc and reset) for allocate, free and
reuse of an address on both threads, and for a reset between two allocations. In
`heap_report` three are enough: an allocation, so that there is something to report, the
report, and its own allocation at a call stack not seen before. The two call stacks
resolve to the same functions. *Unwind*: the handler and one more
caller, three descriptors (a pipe and one file, so that pipes are refused and
numbers reused), a pipe that is full after two validations, three addresses of
which one can be unmapped, two stacks (one with a frame pointer that points to
itself, one that goes back; the walk may start anywhere), a library whose first
address is a frame, and a depth of two, less than the longest chain. `addr_race`
has three callers. *PerfMap*: three refreshes, one of them `RESOLVER`'s own, so that
one overtakes another, and lines and seconds enough for a change in the second of
a read and one after it.

`heap_steady`, `heap_live` and `heap_report` do not check for deadlock, because there
`heap_report` really can stop for ever (that is what the run `heap_report` shows); all
other runs do. `CallsReturn` of `heap_live` says that nothing else can: a call returns,
or some report is in `ReportWaits`, that is, it waits for `callsite_map` while its holder
waits for `callsites`, or takes `callsites.read()` a second time while a writer waits,
which the standard library's lock need not grant. When nothing is under way the application may simply do nothing
more, which is a step of each specification, so a deadlock is a real one.

Fairness. `FairSpec` of `Profiler` asks that a thread that can take a step of the
profiler's code eventually does, that a handler that was entered goes on, and that
a pending signal is delivered: the operating system's scheduler gives this.
Nothing is asked of the application or of the timers. Weak fairness is enough
because calls and ticks are bounded: with an endless stream of readers the spin
lock could starve a writer, and that is a fact about the lock and not about this
code. `FairSpec` of `HeapProfiler` is the same for the allocator's hooks. `Spec` of
`Unwind` asks it of the handler alone, which the code must bring to an end by
itself, unless a system call on an application's file does not return (`WalkEnds` allows
the handler to be `"stuck"` in one, which takes a descriptor that was mistaken for the
pipe's: `OnlyOwnFds` says when); `Spec` of `PerfMap` of the resolving and the refresh threads, not of the JIT.

### What the violations show

1. **A failed build changes the running session** (`profiler.rs:202`). The segment
   blocklist is assigned before `start` refuses. The thread blocklist is assigned
   after the check and is safe (`ThreadBlocklistHonoured`).
2. **unique_stacks** (`frames.rs:184`). A stack evicted once is two stacks.
3. **realloc** (`alloc.rs:200`). The old address is free before its record goes.
4. **heap_report against itself** (`alloc.rs:535`). When there is a call site to
   report, a sampled allocation of the report at a new call stack waits for a lock its
   own thread holds.
5. **validate against validate** (`addr_validate.rs:130`). A caller that arrives
   between the two stores of `open_pipe` reads from the new pipe and writes to the
   old descriptor, -1 at first, and refuses a readable address. For a profiler this
   is a stack cut short; for the repository's own tests, which run at once, it is an
   assertion that can fail.

More behaviours a reader may not expect are visible in the statements of the
properties that hold, each of which allows exactly that much:

* a frequency of 0 panics after `running` was set (`timer.rs:55`), and `stop` fails
  when the next collector's temporary file cannot be created (`profiler.rs:558`):
  both leave the profiler running without an owner (`OrphanedOnlyByFault`), and
  every later build fails with `Error::Running`. What is left behind then is no timer,
  and a handler only after the panic (`OwnerlessIsClean`);
* samples at other ips of one function, or of a thread that was renamed, are shown with
  the lines, inlined calls and thread name of the first sample of their entry
  (`frames.rs:83`; `ShownWasTaken` says what is kept);
* `heap_report` grows vectors while it holds its lock, and a `realloc` is recorded
  whatever the budget says, so that the violation of `heap_realloc` needs no `realloc` in
  the program when a report is made of call stacks with more frames than a vector begins
  with;
* a handler entered, or a signal left pending, before a stop may record into the
  next session (`NoCarryOver` allows the sessions in `late`, and no others);
* a frequency above 1 MHz or below zero yields a guard that never samples, since
  `setitimer`'s result is ignored (`LiveGuardTicks` asks for a positive interval);
* a block freed while heap profiling is stopped stays recorded (`InuseExact` is an
  inequality once `paused`);
* a `reset` that overlaps an allocation or a release can leave a call stack with an
  id whose counters are gone (`alloc.rs:74`; `InuseCoversLive` is claimed until
  `mixed`);
* a program that closes descriptors which are not its own can have its next file
  read, written or closed by `validate` (`OnlyOwnFds` allows it after `closedAll`,
  and when two calls replace the pipe at once), and when that file blocks, the handler
  hangs in it (`WalkEnds`); a file that takes any write, like `/dev/null`, makes every
  address readable (`DerefsMapped` excepts it as `touched`);
* a perf map that changes twice within a second, is read with half a line, is
  truncated by `touch` or is overtaken by an older one stays incomplete until the
  file changes again (`FreshUnlessRaced` lists these, and no others).

## 4. Proofs

All theorems hold for any number of threads, regions, configurations, calls,
ticks, buckets, buffers, descriptors, addresses, shards, lines and seconds. The
assumptions are the named `ASSUME`s:

* of `Profiler`: configurations are records of the right kind, there is at least one
  of them and one region, the dispositions an application installs are not the
  profiler's own;
* of `Collector`: sizes are positive, `Hash` maps stacks to buckets, and stacks that
  `UnresolvedEq` takes for equal to the same one (`HashAssumption`), the clock is a
  number;
* of `AddrValidate` and `Unwind`: null is an address, the words of a stack are
  addresses, the handler is a caller, and (`CapacityAssumption`) no more callers are
  in `validate` at once than a pipe has room for, 4096 for the 64 KiB of a pipe. A
  4097th caller would find the pipe full and take a readable address for unreadable;
* of `HeapProfiler`: addresses and threads are finitely many, addresses have shards,
  sizes are positive;
* of `Frames`, `Report` and `HeapExport`: every stack resolves to a sequence of frames,
  a frame to a sequence of symbols (`UnwoundAssumption`, `KeysAssumption`,
  `SitesAssumption`), either of which may be empty; and the frame after the signal
  handler's is never the handler's again (`TrampolineAssumption`), since only the kernel
  enters it and it returns to the trampoline, also when the handler of one signal
  interrupts that of the other. `build` drops that frame unseen;
* of `PerfMap`: each line names one piece of code.

Two hypotheses stand in theorems and not in assumptions. `RecordsAreAllocated`,
`CountersExact`, `HeapReportExact` and `HeapPprofExact` are about behaviours without
`realloc`, of the program or of `heap_report`'s own vectors (`NoRealloc`), because with it
they are false (`heap_realloc`); `CountersExactAlways` and `HeapExportsExactAlways` are
about behaviours without `reset` as well, because a reset that overlaps an allocation loses counters.

**Profiler.** None of the invariants is inductive alone. `IInv` is built in
layers, each proved from those before it:

* `TypeOK`;
* `LockInv`: the lock has one writer or some readers, and every thread or handler
  whose control is in a section it protects holds it; all else leans on this;
* `OwnerInv`: a thread between `start` and the guard, a guard, or a thread
  dropping it owns the session, and only one of them exists; from it
  `GuardExclusive`. It must say what a drop still *holds*, because a drop
  keeps the clock type it will unregister after its guard is gone;
* `KernelInv`: timer and disposition as functions of the owner: armed for a guard,
  off once a drop began, both off when stopped. From it `LiveGuardTicks`,
  `StoppedIsClean` and `NoFatalTick`; the last needs that a pending signal implies
  that its disposition is not `SIG_DFL`;
* `OriginInv`: where signals, handler frames and samples come from, and that the
  stored thread blocklist is the one wanted; from it `NoCarryOver` and
  `ThreadBlocklistHonoured`;
* `UnwinderInv`: a reader of `UNWINDER` also reads `PROFILER`, and a session
  implies a forced unwinder; from it `TraceGetsUnwinder`;
* `OrphanedOnlyByFault`, inductive given `OwnerInv`, which knows that a build that
  panics still has the configuration it started with. `GuardStopsProfiler` derives
  `RunningHasGuard` from it where both faults are excluded;
* `FaultInv`: what is armed and caught when nobody owns the session, also after a stop
  that failed half way or a build that panicked; from it `OwnerlessIsClean`
  (`FaultsLeaveNoTimer`);
* `ErrnoInv`: the handler frame at the bottom of a nest saved the interrupted
  code's errno; from it `ErrnoRestored`.

The action property `MissedOnlyResetByStart` follows from `TypeOK` alone, step by
step.

`Refinement` shows `Spec => ProfilerSession`: `BuildStart` is `Begin`,
`HandlerSample` is `Record` (or a stutter), `DropStop` is `End` (or a stutter when
it fails), and every other step is a stutter. It uses `IInv` for the thread
blocklist and for the fact that samples are only taken after a first session.

**Collector.** `TypeCorrect` bounds every index used in the handler.
`FailureIsPermanent` strengthens `FailedFlushShows` to an inequality between the
length of the file and `flush_n` that every flush preserves. `NoStackTwice` rests
on lemmas about `Bucket::add`, in particular that the least counted entry exists
and lies in the bucket. `HottestStackStays` is an action property and needs that this
entry counts no more than any other: then it is not the only hottest one.

`ReportIsBag` shows `Spec => SampleBag`: a step after which the collector can be read is
`Add`, the flush that fails is `Lose`, what follows it stutters. The mapping goes through the
whole path of a report (`MapIter`, `TempIter`, the loop of `build_unresolved`), so the proof
is about what that loop computes for every table and file. `CountOf(s, k)` is what it makes
of the entries `s` for the stack `k`; it is proved to be additive over appending,
concatenating and replacing entries. From there `BucketCounts` (what leaves the bucket is
what is evicted, and the sample is counted once because its stack is there once:
`KeysUnique`), `TableChange` (a new bucket changes the table's count by its own) and `AddCounts`
(a full buffer moves to the file as a whole, or the file is too short from then on:
`FileInv`). The recursive functions are unfolded by proving that a function with their
recursion exists on every `0..n`; `NatSetInduction` and `SeqSetInduction` are induction about
sets instead of operators, from the well-foundedness of `<`.

**Formats.** `FoldedStacksFaithful`, `SpeedscopeFileFaithful` and `PprofProfileFaithful` say that
each file decodes to the collector's samples, by the code they are shown to have
interrupted, in every order of the walk. That what is shown was taken, and is of the same
functions and thread, is `ShownStacksWereTaken`: each entry of the table, the buffer and
the file has the time and the stack of a sample that created it, through every eviction
and flush. They have two halves that meet in `ByStack`, the counts of a report by
the stack they are written as.

* *Up to the report* (`ReportProofs`). `ResolvedSymbols`: the loop of `Frames::from` keeps
  the symbols of exactly those frames that are neither the handler nor the one after
  it. `KeyInStack`: a `HashMap` may keep another key than the one inserted, but equal
  `Frames` are written as the same stack, because symbols are equal when their raw names
  are. `BuildersAgree`: grouped by stack, the loops of `build` and `build_unresolved` hold
  the same after every entry, although `build` keys by time as well. Together
  `ReportIsExpected`, for every table and file of the collector.
* *From the report to the file and back* (`EncoderProofs`), for any report. The invariant
  of `write_speedscope`'s loop (`SpeedscopeSays`) is that the table of names only grows,
  that the map from names to indices points into it (`IsTable`), and that each sample
  written reads as its stack; `SpeedscopeTally` is what the reader gets. For `pprof`, that
  the string table decodes (`StringTableDecodes`), that location and function ids are
  positions in tables that only grow (`IsPprof`), and that a stack's locations lead to the
  names of its symbols (`LocsLead`, `TablesLead`); then `PprofTally`.

The algebra of both is that of `Grouped`: adding to one place adds to one group
(`GroupAdded`), renaming places changes no group (`GroupReindex`), and grouping twice is
grouping once (`GroupGroups`); it rests on `SumGroups` and `SumReindex`.

**Unwind.** That a yes is true (`YesMeansReadable`, the lemma under `DerefsMapped`,
which alone is checked by the run) becomes inductive with `NoEarlyYes`: a caller still
inside `validate` has no yes in hand, so that the answers given without a write (for
null, and when no pipe is to be had) are no. The one step that can answer yes is
`Write`, and whatever descriptor it has loaded, stale or not, the kernel copied from
the address or the descriptor was the application's. `DerefsMapped` needs
`WalkValidated` besides: the frame pointer about to be read, for the return address
and once more for the next frame, is the argument of the `validate` that said yes,
and the other threads' calls do not change it.

`NoMeansUnreadable` and `OnlyOwnFds` are about one pipe and everybody who uses it.
The invariant `FdInv` says, as long as no two calls replaced the pipe at once and no
file of the application was used:

* `PipeInv`: whoever replaces the pipe is alone in `validate` and knows that the old
  one is gone; otherwise the two statics are the two ends of one pipe, or there is no
  pipe; and whoever has loaded a descriptor has the one that is in its static still;
* `RoomInv`: what the pipe holds, plus one for every caller about to write, is at most
  the number of callers. This is why a write never fails for want of room: everyone
  drains the pipe before it writes. It needs the cardinality of a set that loses or
  gains one caller;
* `DiscardInv`: a pipe without descriptors is empty, so that a new one starts empty;
* `OwnInv`: as long as the application closes only its own, nothing of its was
  touched, and before the first pipe both statics are -1.

`WalkExact` needs `WalkInv`: at each point of the loop the frames collected are a chain,
and frame pointer and last frame pointer are where the chain says. It uses `FdInv`
for the end of the walk (a no means that the chain ends there) and `DerefInv` for its
middle (what was read was readable).

**HeapProfiler.** The counters are a sum over records that are in a shard, are
leaving one or have yet to come, so most of the work is in one account:
`DueBytes(id) = LiveBytes + LeavingBytes + ComingBytes`. `Balanced` says what one step does
to the difference between `inuse` and this account: nothing, except that an insert
that replaces a record leaves its bytes counted (which is how `realloc` loses
them). From it `CoverInv`, and from that `InuseCoversLive`, for every program. The account
of an id is only meaningful if the id keeps its counters: `IdInv` (ids are drawn
once, below `next_callsite_id`, and whoever has one finds counters), `LockInv` (one writer
of `callsite_map`), `ResetInv` (a reset that nobody disturbs clears shards, maps and ids in
an order in which nothing points to what is gone) and `ApartInv` (what `mixed` excludes).
Without `realloc`, `BlockInv` adds that a block has one user at a time: the application
or a report in the making, one allocation or one release; and `RecordInv` that a record is of an allocated block of
its size, since the record goes before the block and comes after it. From these
`LiveIsAllocated` and that inserts replace nothing; then the inequality of `CoverInv`
is an equation, `ExactInv`, and `InuseExact` follows when no call is under way.

`HeapReportFaithful` and `HeapPprofFaithful` start from there. When nobody allocates,
releases or resets, though reports may be under way, the state is `Settled`: finitely
many call stacks (`IdInv` bounds their ids), whose bytes in use are those of allocated
blocks (`ExactInv`, `RecordInv`) and at most those ever allocated, which is one more
inductive invariant (`AllocInv`). `LiveGroups` then says that the blocks grouped by functions
are the counters grouped by functions, and `WalkGroups` that the order in which
`heap_report` walks the call sites does not matter. `ReportHolds` is about the loop of
`to_inuse_report`: because each record has a time of its own, no insert replaces a value.
From it the report's stacks and sum (`ReportGroups`), and with `FoldedTally` the
flamegraph; the pprof columns come from `ProfileDecodes`, the lemma behind `PprofTally`.

`SumTheorems` has what the account needs of sums: the order does not matter
(`SumRemove`), a change at one place changes the sum by that much (`SumOnePoint`), a part
sums to no more than the whole, and groups to the whole (`SumGroups`). The library's sum is a fold that picks elements with `CHOOSE`;
the theorems are proved by taking a subset of the least cardinality that violates
them, which is induction without an induction rule (`SubsetInduction`).

**PerfMap.** `FreshUnlessRaced` needs `ClaimInv`: `MTIME` is stored before the map is read, so
whoever finds the file's mtime there may leave without a map. As long as there was no
race the map with this mtime is then shown or some thread is about to bring it, and it
has all lines (`ReadInv`). `SeenInv` says the same of a refresh that has begun and not yet
compared. `OrderInv` orders the time stamps of file, `MTIME` and threads. The proof of
`ClaimInv` failed at first for a good reason: `shown` used to be the mtime of the map
shown *now*, so that a third refresh could pass unnoticed after two had crossed, which
three calls show. It now is the latest ever shown.

**Only model-checked.** `CallsReturn` (of both profilers), `WalkEnds` and `RefreshEnds`:
liveness under fairness is out of the prover's reach. Every other property of a passing
run is stated by a theorem; the heap profiler's exact ones for the behaviours named above.

## 5. Not modelled

* The text layouts of the report formats and the escaping of JSON; the
  `frames_post_processor` callback, which is the application's.
* What framehop, backtrace-rs and symbol resolution compute: third-party crates and
  the memory of the process; the registers of each architecture; `create_pipe` of
  macOS and FreeBSD.
* The errors of `reopen` and `seek` in `TempFdArray::try_iter`, which make one report fail
  and change nothing; a clock that does not move, or is set back, between two records of
  a heap report (`RecordTime`).
* `sample_counter` (never read), `on_stack` (one signal flag), `ReportTiming`
  (descriptive data), the bytes of thread names and how blocklists match them.
* Integer widths: the nanoseconds of a pprof value, a sample rate above `isize::MAX`,
  and a heap report's `sample_rate as i32`. They need integers beyond TLC's 32 bits;
  the hazards of `PROJECT.json` say what each can do.
* `profile`, `profile_with_frequency`, `profile_wall` and the criterion adapter: a
  build, a report and a drop in sequence, which the threads of `Profiler` do in every
  order; the error type, generated protobuf code, benches and examples.
* Weak memory: every atomic is sequentially consistent in the models. The heap
  profiler's relaxed counters are each independent of the others, and so are the
  resolver's `MTIME` and its map.

## 6. Plan

Done: the profiler with its proofs and refinement; the collector and report with
proofs and refinement; the formats of CPU and heap reports with proofs; the heap
profiler with proofs; address validation and the unwinders that use it, with proofs;
the perf map resolver with proofs.

Left: the liveness properties, which need a prover that handles `ENABLED`; a model of
a heap snapshot taken while other threads record, once the documentation says what it
should show; the integer widths listed above, once TLC's integers are wide enough.
