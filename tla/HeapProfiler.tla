---------------------------- MODULE HeapProfiler ----------------------------
(***************************************************************************)
(* The sampling heap profiler of pprof-rs (src/src/alloc.rs): a global     *)
(* allocator that records a sample of the allocations, keyed by address in *)
(* sharded maps and by call stack in two maps behind RwLocks, while any    *)
(* number of threads allocate, free, start, stop, reset and report.        *)
(*                                                                         *)
(* A step is the code between two acquisitions of a lock (or two calls of  *)
(* the wrapped allocator).  The object counters move with the byte         *)
(* counters and are left out.                                              *)
(***************************************************************************)
EXTENDS Integers, FiniteSets, Functions

CONSTANTS
    Threads,
    Ptrs,           \* the addresses the wrapped allocator hands out
    ShardOf,        \* ShardOf[p]: (ptr >> 4) % NUM_SHARDS
    NumShards,      \* NUM_SHARDS
    Sites,          \* the call stacks that allocate
    ReportSite,     \* the call stack of heap_report's own allocations
    Sizes,          \* the sizes requested
    Rates,          \* the sample rates that set_sample_rate is given
    Ops,            \* the operations the application uses
    Profiling,      \* whether start() was called before the threads began
    MaxOps          \* bound on the calls

ASSUME HeapAssumption ==
    /\ NumShards \in Nat \ {0} /\ ShardOf \in [Ptrs -> 0..(NumShards - 1)]
    /\ Sizes \subseteq Nat \ {0} /\ Rates \subseteq Nat /\ Rates # {}
    /\ ReportSite \in Sites /\ Profiling \in BOOLEAN /\ MaxOps \in Nat
    /\ Ptrs # {} /\ IsFiniteSet(Ptrs) /\ IsFiniteSet(Threads)

VARIABLES
    profiling,      \* IS_PROFILING
    rate,           \* SAMPLE_RATE
    heap,           \* the wrapped allocator: size of each block, 0 if free
    owned,          \* the blocks that were handed out and not given back
    temporary,      \* per thread: those of the heap_report it is making
    live,           \* the shards' live maps together: ptr -> (id, size)
    callsiteMap,    \* callsite_map: stack -> id
    callsites,      \* callsites: id -> stack and counters
    nextId,         \* next_callsite_id
    mapWriter,      \* threads holding callsite_map.write()
    siteReaders,    \* threads holding callsites.read() across other calls
    bytesLeft,      \* BYTES_LEFT, per thread
    pc, back,       \* per thread: where it is, and where it returns to
    reg,            \* per thread: its local variables
    ops,            \* the calls made
    mixed,          \* a reset and a recording call overlapped (history)
    paused          \* profiling has been stopped (history)

recordVars == <<live, callsiteMap, callsites, nextId>>
lockVars == <<mapWriter, siteReaders>>
systemVars == <<heap, owned, temporary>>
controlVars == <<profiling, rate, bytesLeft>>
callVars == <<ops, mixed, paused>>
vars == <<recordVars, lockVars, systemVars, controlVars, pc, back, reg,
          callVars>>

Put(f, x, v) == [y \in DOMAIN f \cup {x} |-> IF y = x THEN v ELSE f[y]]
Without(f, x) == [y \in DOMAIN f \ {x} |-> f[y]]
NoMap == [x \in {} |-> 0]

Live(id, size) == [id |-> id, size |-> size]
NoReg == [ptr |-> CHOOSE p \in Ptrs : TRUE, size |-> 0, site |-> ReportSite,
          id |-> 0, old |-> CHOOSE p \in Ptrs : TRUE, gone |-> {}, shard |-> 0]

Goto(t, label) == pc' = [pc EXCEPT ![t] = label]
Forget(t) == reg' = [reg EXCEPT ![t] = NoReg] /\ back' = [back EXCEPT ![t] = "idle"]

(* Where a call of the allocator returns to: heap_report or the application. *)
Home(t) == IF t \in siteReaders THEN "report" ELSE "idle"

Resetting == {"reset_shard", "reset_map", "reset_sites", "reset_id"}
Recording == {"lookup", "map_write", "site_write", "count", "insert", "remove",
              "uncount", "free"}
Others(t, labels) == \E u \in Threads \ {t} : pc[u] \in labels

HeapOps == {"alloc", "dealloc", "realloc",
            "report_alloc", "report_dealloc", "report_realloc"}

Counted(t, op) ==
    /\ op \in Ops /\ ops < MaxOps /\ ops' = ops + 1
    /\ mixed' = \/ mixed
                \/ op = "reset" /\ Others(t, Recording)
                \/ op \in HeapOps /\ Others(t, Resetting)
    /\ paused' = (paused \/ op = "stop")

(* A call that the application may make now; heap_report makes its own     *)
(* calls of the allocator while it walks the call sites, of which there is *)
(* one at least: the vector of no records and the loop allocate nothing.   *)
Call(t, op) == pc[t] = "idle" /\ Counted(t, op)
ReportCall(t, op) ==
    pc[t] = "report" /\ DOMAIN callsites # {} /\ Counted(t, op)

(* A block is handed out to the application or to the heap_report. *)
Grant(t, p) ==
    /\ owned' = owned \cup {p}
    /\ temporary' = IF t \in siteReaders
                    THEN [temporary EXCEPT ![t] = @ \cup {p}] ELSE temporary

Take(t, p) ==
    /\ owned' = owned \ {p}
    /\ temporary' = [temporary EXCEPT ![t] = @ \ {p}]

-----------------------------------------------------------------------------
(* GlobalAlloc::alloc.                                                     *)
(* The wrapped allocator's block is known to nobody else until alloc       *)
(* returns, so the flag and the budget are read in the same step.          *)
Allocate(t, p, size, site) ==
    /\ heap[p] = 0
    /\ heap' = [heap EXCEPT ![p] = size]
    /\ IF profiling /\ bytesLeft[t] - size <= 0
       THEN /\ bytesLeft' = [bytesLeft EXCEPT ![t] = rate]
            /\ reg' = [reg EXCEPT ![t] = [@ EXCEPT !.ptr = p, !.size = size,
                                                   !.site = site]]
            /\ back' = [back EXCEPT ![t] = Home(t)]
            /\ Goto(t, "lookup")
            /\ UNCHANGED <<owned, temporary>>
       ELSE /\ bytesLeft' = IF profiling
                            THEN [bytesLeft EXCEPT ![t] = @ - size]
                            ELSE bytesLeft
            /\ Grant(t, p)
            /\ UNCHANGED <<reg, back, pc>>
    /\ UNCHANGED <<recordVars, lockVars, profiling, rate>>

Alloc(t, p, size, site) ==
    Call(t, "alloc") /\ Allocate(t, p, size, site)

-----------------------------------------------------------------------------
(* record_sample, with IN_ALLOC set: its own allocations are not recorded. *)

Lookup(t) ==
    /\ pc[t] = "lookup" /\ mapWriter = {}
    /\ IF reg[t].site \in DOMAIN callsiteMap
       THEN /\ reg' = [reg EXCEPT ![t].id = callsiteMap[reg[t].site]]
            /\ Goto(t, "count")
       ELSE UNCHANGED reg /\ Goto(t, "map_write")
    /\ UNCHANGED <<recordVars, lockVars, systemVars, controlVars, back, callVars>>

(* Without drop(read): write() waits for the thread's own read guard. *)
MapWrite_ReadKept(t) == pc[t] = "map_write" /\ UNCHANGED vars

(* callsite_map.write(), the read guard having been dropped, and           *)
(* entry(ips): another thread may have inserted the stack meanwhile.       *)
(* If not, the new id is drawn before callsites is locked.                 *)
MapWrite(t) ==
    /\ pc[t] = "map_write" /\ mapWriter = {}
    /\ IF reg[t].site \in DOMAIN callsiteMap
       THEN /\ reg' = [reg EXCEPT ![t].id = callsiteMap[reg[t].site]]
            /\ Goto(t, "count")
            /\ UNCHANGED <<mapWriter, nextId>>
       ELSE /\ mapWriter' = {t}
            /\ reg' = [reg EXCEPT ![t].id = nextId]
            /\ nextId' = nextId + 1
            /\ Goto(t, "site_write")
    /\ UNCHANGED <<live, callsiteMap, callsites, siteReaders, systemVars,
                   controlVars, back, callVars>>

(* or_insert_with: callsites.write() inside callsite_map.write(). *)
SiteInsert(t) ==
    /\ pc[t] = "site_write" /\ siteReaders = {}
    /\ callsites' = Put(callsites, reg[t].id,
                          [ips |-> reg[t].site, alloc |-> 0, inuse |-> 0])
    /\ callsiteMap' = Put(callsiteMap, reg[t].site, reg[t].id)
    /\ mapWriter' = {}
    /\ Goto(t, "count")
    /\ UNCHANGED <<live, nextId, siteReaders, systemVars, controlVars, back,
                   reg, callVars>>

(* The counters, under callsites.read(); a missing id is skipped. *)
Bump(id, alloc, inuse) ==
    callsites' = IF id \in DOMAIN callsites
                 THEN [callsites EXCEPT ![id].alloc = @ + alloc,
                                        ![id].inuse = @ + inuse]
                 ELSE callsites

CountAlloc(t) ==
    /\ pc[t] = "count"
    /\ Bump(reg[t].id, reg[t].size, reg[t].size)
    /\ Goto(t, "insert")
    /\ UNCHANGED <<live, callsiteMap, nextId, lockVars, systemVars,
                   controlVars, back, reg, callVars>>

(* The address goes into its shard, and alloc or realloc returns. *)
LiveInsert(t) ==
    /\ pc[t] = "insert"
    /\ live' = Put(live, reg[t].ptr, Live(reg[t].id, reg[t].size))
    /\ Grant(t, reg[t].ptr)
    /\ Goto(t, back[t]) /\ Forget(t)
    /\ UNCHANGED <<callsiteMap, callsites, nextId, lockVars, heap, controlVars,
                   callVars>>

-----------------------------------------------------------------------------
(* GlobalAlloc::dealloc: the record is taken back before the block is. *)

Release_FreesFirst(t, p) ==
    /\ Take(t, p)
    /\ reg' = [reg EXCEPT ![t].old = p]
    /\ back' = [back EXCEPT ![t] = Home(t)]
    /\ Goto(t, IF profiling THEN "remove" ELSE Home(t))
    /\ heap' = [heap EXCEPT ![p] = 0]
    /\ UNCHANGED <<recordVars, lockVars, controlVars>>

Release(t, p) ==
    /\ Take(t, p)
    /\ reg' = [reg EXCEPT ![t].old = p]
    /\ back' = [back EXCEPT ![t] = "free"]
    /\ Goto(t, IF profiling THEN "remove" ELSE "free")
    /\ UNCHANGED <<recordVars, lockVars, heap, controlVars>>

Dealloc(t, p) == Call(t, "dealloc") /\ Release(t, p)

Removed_Get(p) == live

(* shard.live.remove(&ptr) *)
Removed(p) == Without(live, p)

(* record_dealloc: out of the shard ... *)
LiveRemove(t) ==
    /\ pc[t] = "remove"
    /\ live' = Removed(reg[t].old)
    /\ reg' = [reg EXCEPT ![t].gone =
                   {live[p] : p \in {reg[t].old} \cap DOMAIN live}]
    /\ Goto(t, "uncount")
    /\ UNCHANGED <<callsiteMap, callsites, nextId, lockVars, systemVars,
                   controlVars, back, callVars>>

(* ... and out of the counters, by the size that was recorded. *)
CountDealloc(t) ==
    /\ pc[t] = "uncount"
    /\ IF reg[t].gone = {} THEN UNCHANGED callsites
       ELSE \E e \in reg[t].gone : Bump(e.id, 0, -e.size)
    /\ reg' = [reg EXCEPT ![t].gone = {}]
    /\ Goto(t, back[t])
    /\ back' = [back EXCEPT ![t] = Home(t)]
    /\ UNCHANGED <<live, callsiteMap, nextId, lockVars, systemVars,
                   controlVars, callVars>>

SystemFree(t) ==
    /\ pc[t] = "free"
    /\ heap' = [heap EXCEPT ![reg[t].old] = 0]
    /\ Goto(t, Home(t)) /\ Forget(t)
    /\ UNCHANGED <<recordVars, lockVars, owned, temporary, controlVars, callVars>>

-----------------------------------------------------------------------------
(* GlobalAlloc::realloc: the wrapped realloc runs first and may move the   *)
(* block; then record_dealloc of the old and record_sample of the new      *)
(* address, whatever the sampling budget says.                             *)
Move(t, p, q, size, site) ==
    /\ q = p \/ heap[q] = 0
    /\ heap' = [[heap EXCEPT ![p] = 0] EXCEPT ![q] = size]
    /\ IF profiling
       THEN /\ Take(t, p)
            /\ reg' = [reg EXCEPT ![t] = [@ EXCEPT !.old = p, !.ptr = q,
                                                   !.size = size, !.site = site]]
            /\ Goto(t, "remove")
            /\ back' = [back EXCEPT ![t] = "lookup"]
       ELSE /\ owned' = (owned \ {p}) \cup {q}
            /\ temporary' = IF t \in siteReaders
                            THEN [temporary EXCEPT ![t] = (@ \ {p}) \cup {q}]
                            ELSE temporary
            /\ UNCHANGED <<reg, pc, back>>
    /\ UNCHANGED <<recordVars, lockVars, controlVars>>

Realloc(t, p, q, size, site) ==
    Call(t, "realloc") /\ Move(t, p, q, size, site)

-----------------------------------------------------------------------------
(* start, stop, set_sample_rate.  A second start or stop in a row changes  *)
(* nothing.                                                                *)

SetProfiling(t, on) ==
    /\ Call(t, IF on THEN "start" ELSE "stop") /\ profiling # on
    /\ profiling' = on
    /\ UNCHANGED <<recordVars, lockVars, systemVars, rate, bytesLeft, pc, back,
                   reg>>

SetSampleRate_Unchecked(t, r) ==
    /\ Call(t, "rate")
    /\ rate' = r
    /\ UNCHANGED <<recordVars, lockVars, systemVars, profiling, bytesLeft, pc,
                   back, reg>>

SetSampleRate(t, r) ==
    /\ Call(t, "rate")
    /\ rate' = IF r = 0 THEN 1 ELSE r
    /\ UNCHANGED <<recordVars, lockVars, systemVars, profiling, bytesLeft, pc,
                   back, reg>>

-----------------------------------------------------------------------------
(* HeapState::reset: shard after shard, then each map, then the ids. *)

Reset(t) ==
    /\ Call(t, "reset")
    /\ reg' = [reg EXCEPT ![t].shard = 0]
    /\ Goto(t, "reset_shard")
    /\ UNCHANGED <<recordVars, lockVars, systemVars, controlVars, back>>

ResetShard(t) ==
    /\ pc[t] = "reset_shard"
    /\ live' = [p \in {q \in DOMAIN live : ShardOf[q] # reg[t].shard} |-> live[p]]
    /\ reg' = [reg EXCEPT ![t].shard = @ + 1]
    /\ Goto(t, IF reg[t].shard + 1 < NumShards THEN "reset_shard"
               ELSE "reset_map")
    /\ UNCHANGED <<callsiteMap, callsites, nextId, lockVars, systemVars,
                   controlVars, back, callVars>>

ResetMap(t) ==
    /\ pc[t] = "reset_map" /\ mapWriter = {}
    /\ callsiteMap' = NoMap
    /\ Goto(t, "reset_sites")
    /\ UNCHANGED <<live, callsites, nextId, lockVars, systemVars, controlVars,
                   back, reg, callVars>>

ResetSites(t) ==
    /\ pc[t] = "reset_sites" /\ siteReaders = {}
    /\ callsites' = NoMap
    /\ Goto(t, "reset_id")
    /\ UNCHANGED <<live, callsiteMap, nextId, lockVars, systemVars,
                   controlVars, back, reg, callVars>>

ResetId(t) ==
    /\ pc[t] = "reset_id"
    /\ nextId' = 1
    /\ Goto(t, "idle") /\ Forget(t)
    /\ UNCHANGED <<live, callsiteMap, callsites, lockVars, systemVars,
                   controlVars, callVars>>

-----------------------------------------------------------------------------
(* heap_report holds callsites.read() while it resolves symbols, and the   *)
(* strings and vectors it builds come from this very allocator.            *)

HeapReport(t) ==
    /\ Call(t, "report")
    /\ siteReaders' = siteReaders \cup {t}
    /\ Goto(t, "report")
    /\ UNCHANGED <<recordVars, mapWriter, systemVars, controlVars, back, reg>>

ReportAlloc(t, p, size) ==
    ReportCall(t, "report_alloc") /\ Allocate(t, p, size, ReportSite)

ReportDealloc(t, p) == ReportCall(t, "report_dealloc") /\ Release(t, p)

(* A vector that is full grows, and its realloc is recorded whatever the   *)
(* sampling budget says.                                                   *)
ReportRealloc(t, p, q, size) ==
    ReportCall(t, "report_realloc") /\ Move(t, p, q, size, ReportSite)

(* The HeapReport with its blocks is the application's now. *)
ReportReturn(t) ==
    /\ pc[t] = "report"
    /\ siteReaders' = siteReaders \ {t}
    /\ temporary' = [temporary EXCEPT ![t] = {}]
    /\ Goto(t, "idle")
    /\ UNCHANGED <<recordVars, mapWriter, heap, owned, controlVars, back, reg,
                   callVars>>

-----------------------------------------------------------------------------
Init ==
    /\ profiling = Profiling /\ rate \in Rates \ {0}
    /\ heap = [p \in Ptrs |-> 0] /\ owned = {}
    /\ temporary = [t \in Threads |-> {}]
    /\ live = NoMap /\ callsiteMap = NoMap /\ callsites = NoMap /\ nextId = 1
    /\ mapWriter = {} /\ siteReaders = {}
    /\ bytesLeft = [t \in Threads |-> 0]
    /\ pc = [t \in Threads |-> "idle"] /\ back = [t \in Threads |-> "idle"]
    /\ reg = [t \in Threads |-> NoReg]
    /\ ops = 0 /\ mixed = FALSE /\ paused = FALSE

(* The blocks that are not a report's in the making. *)
Free == owned \ UNION {temporary[t] : t \in Threads}

Calls(t) ==
    \/ \E p \in Ptrs, size \in Sizes, site \in Sites : Alloc(t, p, size, site)
    \/ \E p \in Free : Dealloc(t, p)
    \/ \E p \in Free, q \in Ptrs, size \in Sizes, site \in Sites :
          Realloc(t, p, q, size, site)
    \/ \E on \in BOOLEAN : SetProfiling(t, on)
    \/ \E r \in Rates : SetSampleRate(t, r)
    \/ Reset(t)
    \/ HeapReport(t)

ReportCalls(t) ==
    \/ \E p \in Ptrs, size \in Sizes : ReportAlloc(t, p, size)
    \/ \E p \in temporary[t] : ReportDealloc(t, p)
    \/ \E p \in temporary[t], q \in Ptrs, size \in Sizes :
          ReportRealloc(t, p, q, size)

Step(t) ==
    \/ Lookup(t) \/ MapWrite(t) \/ SiteInsert(t) \/ CountAlloc(t)
    \/ LiveInsert(t) \/ LiveRemove(t) \/ CountDealloc(t) \/ SystemFree(t)
    \/ ResetShard(t) \/ ResetMap(t) \/ ResetSites(t) \/ ResetId(t)
    \/ ReportReturn(t)

Idle == \A t \in Threads : pc[t] = "idle"

Next ==
    \/ \E t \in Threads : Calls(t) \/ ReportCalls(t) \/ Step(t)
    \/ Idle /\ UNCHANGED vars

Spec == Init /\ [][Next]_vars

(* The scheduler runs every thread; nobody has to call anything. *)
FairSpec == Spec /\ \A t \in Threads : WF_vars(Step(t))

-----------------------------------------------------------------------------
(* Properties *)

Labels == {"idle", "report"} \cup Recording \cup Resetting
LiveEntries == [id : Nat, size : Nat]

(* Every variable keeps its type. *)
TypeOK ==
    /\ profiling \in BOOLEAN /\ rate \in Nat \ {0}
    /\ heap \in [Ptrs -> Nat] /\ owned \subseteq Ptrs
    /\ temporary \in [Threads -> SUBSET Ptrs]
    /\ DOMAIN live \subseteq Ptrs
    /\ \A p \in DOMAIN live : live[p] \in LiveEntries
    /\ DOMAIN callsiteMap \subseteq Sites
    /\ \A s \in DOMAIN callsiteMap : callsiteMap[s] \in Nat
    /\ DOMAIN callsites \subseteq Nat
    /\ \A id \in DOMAIN callsites :
          callsites[id] \in [ips : Sites, alloc : Int, inuse : Int]
    /\ nextId \in Nat
    /\ mapWriter \subseteq Threads /\ siteReaders \subseteq Threads
    /\ bytesLeft \in [Threads -> Int]
    /\ pc \in [Threads -> Labels]
    /\ back \in [Threads -> {"idle", "report", "lookup", "free"}]
    /\ reg \in [Threads -> [ptr : Ptrs, size : Nat, site : Sites, id : Nat,
                            old : Ptrs, gone : SUBSET LiveEntries,
                            shard : 0..NumShards]]
    /\ ops \in 0..MaxOps /\ mixed \in BOOLEAN /\ paused \in BOOLEAN

(* The recorded bytes of a call stack that are still recorded as live. *)
LiveBytes(id) ==
    SumFunction([p \in {q \in DOMAIN live : live[q].id = id} |-> live[p].size])

(* The bytes whose record has left its shard but not yet the counters. *)
LeavingBytes(id) ==
    SumFunction([t \in {u \in Threads : \E e \in reg[u].gone : e.id = id} |->
                    (CHOOSE e \in reg[t].gone : TRUE).size])

(* A recorded address is a block that is allocated now, of the recorded    *)
(* size: dealloc takes the record back before the allocator can hand the   *)
(* address to another thread.  For programs that do not realloc, and as    *)
(* long as profiling is not stopped.                                       *)
LiveIsAllocated == ~paused => \A p \in DOMAIN live : heap[p] = live[p].size

(* "Total live bytes across all recorded stack traces." (alloc.rs:327):    *)
(* whenever no call is in progress, a call stack's inuse_bytes are the     *)
(* sizes of its sampled blocks that are still allocated.  Blocks that were *)
(* freed while profiling was stopped may still be counted.                 *)
InuseExact ==
    Idle => /\ LiveIsAllocated
            /\ \A id \in DOMAIN callsites :
                  IF paused THEN callsites[id].inuse >= LiveBytes(id)
                  ELSE callsites[id].inuse = LiveBytes(id)

(* inuse_bytes never falls short of the live records, so it is never       *)
(* negative, although counters and shards are updated under different      *)
(* locks; and every record and every known call stack has its counters.    *)
(* A reset keeps this, unless an allocation or a release is under way: it  *)
(* clears the maps one by one and starts the ids over.                     *)
InuseCoversLive ==
    ~mixed =>
        /\ \A id \in DOMAIN callsites :
              callsites[id].inuse >= LiveBytes(id) + LeavingBytes(id)
        /\ \A p \in DOMAIN live : live[p].id \in DOMAIN callsites
        /\ \A s \in DOMAIN callsiteMap : callsiteMap[s] \in DOMAIN callsites

(* A thread that makes a report waits for a lock that cannot be released   *)
(* while it holds callsites.read(): its own allocation has a new call      *)
(* stack, or looks its stack up while another thread inserts one, or       *)
(* counts beside a writer that RwLock may let go first.                    *)
ReportWaits(t) ==
    /\ t \in siteReaders
    /\ \/ pc[t] \in {"lookup", "map_write", "site_write"} /\ mapWriter # {}
       \/ pc[t] \in {"count", "uncount"}
          /\ Others(t, {"site_write", "reset_sites"})

(* Every call returns, unless a heap_report waits for the lock it holds:   *)
(* allocation, release, reset and report take the maps' locks in the same  *)
(* order, and nothing but a report's own allocations stands against it.    *)
CallsReturn ==
    \A t \in Threads :
        pc[t] # "idle" ~> pc[t] = "idle" \/ \E u \in Threads : ReportWaits(u)

-----------------------------------------------------------------------------
(* Claims of the documentation that the code does not keep *)

(* "Takes a snapshot of recorded heap allocations" (alloc.rs:532): a       *)
(* report that was asked for is made, although it allocates under the lock *)
(* that recording an allocation takes (alloc.rs:535-571).                  *)
ReportsReturn == \A t \in Threads : t \in siteReaders ~> t \notin siteReaders
=============================================================================
