------------------------- MODULE HeapProfilerProofs -------------------------
(* Theorems about HeapProfiler and HeapExport, for every set of threads,   *)
(* addresses, call stacks, sizes and rates, whatever the call stacks       *)
(* resolve to, and any number of shards and calls.                         *)
EXTENDS HeapExport, EncoderProofs

-----------------------------------------------------------------------------
(* The inductive invariants *)

(* A reset in its loop has a shard left. *)
ShardInv ==
    \A t \in Threads : pc[t] = "reset_shard" => reg[t].shard < NumShards

(* callsite_map's writer is the thread that inserts a call stack. *)
LockInv ==
    /\ \A t \in Threads : t \in mapWriter <=> pc[t] = "site_write"
    /\ \A t, u \in mapWriter : t = u

(* A record that left its shard is held until the counters are updated. *)
GoneInv ==
    \A t \in Threads :
        /\ pc[t] # "uncount" => reg[t].gone = {}
        /\ \A e, f \in reg[t].gone : e = f

(* What `mixed` excludes: a reset beside a recording call. *)
ApartInv ==
    ~mixed => \A t, u \in Threads : ~(pc[t] \in Recording /\ pc[u] \in Resetting)

(* What a reset that nobody disturbs has cleared so far. *)
ResetInv ==
    ~mixed => \A t \in Threads :
        /\ pc[t] = "reset_shard" =>
              \A p \in DOMAIN live : ShardOf[p] >= reg[t].shard
        /\ pc[t] \in {"reset_map", "reset_sites", "reset_id"} => DOMAIN live = {}
        /\ pc[t] \in {"reset_sites", "reset_id"} => DOMAIN callsiteMap = {}
        /\ pc[t] = "reset_id" => DOMAIN callsites = {}

(* Ids are drawn once, and whoever has one has its counters. *)
IdInv ==
    ~mixed =>
        /\ \A id \in DOMAIN callsites : id < nextId
        /\ \A s \in DOMAIN callsiteMap : callsiteMap[s] \in DOMAIN callsites
        /\ \A p \in DOMAIN live : live[p].id \in DOMAIN callsites
        /\ \A t \in Threads :
              /\ pc[t] = "site_write" =>
                    reg[t].id < nextId /\ reg[t].id \notin DOMAIN callsites
              /\ pc[t] \in {"count", "insert"} => reg[t].id \in DOMAIN callsites
              /\ \A e \in reg[t].gone : e.id \in DOMAIN callsites

(* The bytes that are counted but not yet in their shard. *)
ComingBytes(id) ==
    SumFunction([t \in {u \in Threads : pc[u] = "insert" /\ reg[u].id = id} |->
                    reg[t].size])

(* What a call stack's inuse_bytes have to account for. *)
DueBytes(id) == LiveBytes(id) + LeavingBytes(id) + ComingBytes(id)

(* The counters account for every record, wherever it is. *)
CoverInv ==
    ~mixed => \A id \in DOMAIN callsites : callsites[id].inuse >= DueBytes(id)

HoldsNew == {"lookup", "map_write", "site_write", "count", "insert"}
HoldsOld == {"remove", "uncount", "free"}

(* The block that a thread is allocating or releasing. *)
Held(t) == IF pc[t] \in HoldsNew THEN reg[t].ptr ELSE reg[t].old

(* Blocks have one user at a time, without realloc. *)
BlockInv ==
    /\ \A p \in owned : heap[p] # 0
    /\ \A t \in Threads :
          /\ pc[t] \in Recording => Held(t) \notin owned /\ heap[Held(t)] # 0
          /\ pc[t] \in HoldsNew =>
                heap[reg[t].ptr] = reg[t].size /\ back[t] \in {"idle", "report"}
          /\ pc[t] \in {"remove", "uncount"} => back[t] = "free"
    /\ \A t, u \in Threads :
          pc[t] \in Recording /\ pc[u] \in Recording /\ t # u => Held(t) # Held(u)

(* The records are those of allocated blocks, without realloc and stop. *)
RecordInv ==
    ~paused =>
        /\ \A p \in DOMAIN live : heap[p] = live[p].size /\ live[p].size # 0
        /\ \A t \in Threads :
              pc[t] \in Recording \ {"remove"} => Held(t) \notin DOMAIN live
        /\ ~profiling => /\ DOMAIN live = {}
                         /\ \A t \in Threads : pc[t] \notin Recording \ {"free"}

(* The blocks of a report in the making are its own, without realloc. *)
TempInv ==
    /\ \A t \in Threads : temporary[t] \subseteq owned
    /\ \A t, u \in Threads : t # u => temporary[t] \cap temporary[u] = {}

(* The counters account for nothing else, while no reset is under way. *)
ExactInv ==
    ~paused /\ ~mixed /\ (\A t \in Threads : pc[t] \notin Resetting) =>
        \A id \in DOMAIN callsites : callsites[id].inuse = DueBytes(id)

TypeInv == TypeOK /\ ShardInv
CountInv == TypeInv /\ LockInv /\ GoneInv /\ ApartInv /\ ResetInv /\ IdInv /\ CoverInv
HeapInv == CountInv /\ BlockInv /\ RecordInv /\ TempInv /\ ExactInv

-----------------------------------------------------------------------------
(* Type correctness *)

Regs == [ptr : Ptrs, size : Nat, site : Sites, id : Nat, old : Ptrs,
         gone : SUBSET LiveEntries, shard : 0..NumShards]

(* The local variables of an idle thread have their types. *)
LEMMA NoRegType == NoReg \in Regs
<1>1. (CHOOSE p \in Ptrs : TRUE) \in Ptrs
  BY HeapAssumption
<1> QED
  BY <1>1, HeapAssumption DEF NoReg, Regs

(* The local variables keep their types when new values are stored. *)
LEMMA RegUpdate ==
    ASSUME NEW r \in Regs, NEW p \in Ptrs, NEW q \in Ptrs, NEW size \in Nat,
           NEW site \in Sites
    PROVE  /\ [r EXCEPT !.ptr = p, !.size = size, !.site = site] \in Regs
           /\ [r EXCEPT !.old = p, !.ptr = q, !.size = size, !.site = site]
                 \in Regs
           /\ [r EXCEPT !.old = p] \in Regs
           /\ \A n \in Nat : [r EXCEPT !.id = n] \in Regs
           /\ \A n \in 0..NumShards : [r EXCEPT !.shard = n] \in Regs
  BY DEF Regs

(* Init establishes the types. *)
LEMMA TypeInit == Init => TypeInv
<1> SUFFICES ASSUME Init PROVE TypeInv
  OBVIOUS
<1> USE HeapAssumption DEF Init
<1>1. reg \in [Threads -> Regs]
  BY NoRegType
<1>2. profiling \in BOOLEAN /\ mixed \in BOOLEAN /\ paused \in BOOLEAN
  OBVIOUS
<1>3. /\ rate \in Nat \ {0}
      /\ heap \in [Ptrs -> Nat] /\ owned \subseteq Ptrs
      /\ temporary \in [Threads -> SUBSET Ptrs]
      /\ nextId \in Nat
      /\ mapWriter \subseteq Threads /\ siteReaders \subseteq Threads
      /\ bytesLeft \in [Threads -> Int]
      /\ pc \in [Threads -> Labels]
      /\ back \in [Threads -> {"idle", "report", "lookup", "free"}]
      /\ ops \in 0..MaxOps
  BY DEF Labels
<1>4. DOMAIN live = {} /\ DOMAIN callsiteMap = {} /\ DOMAIN callsites = {}
  BY DEF NoMap
<1>5. ShardInv
  BY DEF ShardInv
<1> QED
  BY <1>1, <1>2, <1>3, <1>4, <1>5 DEF TypeInv, TypeOK, Regs

(* A call of the allocator returns to one of its two callers. *)
LEMMA HomeType == ASSUME NEW t PROVE Home(t) \in {"idle", "report"}
  BY DEF Home

(* The calls of the allocator, by the application or by heap_report. *)
Begins(t, ops2) == pc[t] \in {"idle", "report"} /\ \E op \in ops2 : Counted(t, op)

Allocates(t, p, size, site) ==
    Begins(t, {"alloc", "report_alloc"}) /\ Allocate(t, p, size, site)

Releases(t, p) == Begins(t, {"dealloc", "report_dealloc"}) /\ Release(t, p)

Moves(t, p, q, size, site) ==
    Begins(t, {"realloc", "report_realloc"}) /\ Move(t, p, q, size, site)

(* The calls that have to do with no block. *)
OtherCall(t) ==
    \/ \E on \in BOOLEAN : SetProfiling(t, on)
    \/ \E r \in Rates : SetSampleRate(t, r)
    \/ Reset(t) \/ HeapReport(t)

(* Every call is one of these, and gives back or moves a block that the    *)
(* application has or the report that makes the call.                      *)
LEMMA CallForms ==
    ASSUME TypeInv, NEW t \in Threads, Calls(t) \/ ReportCalls(t)
    PROVE  \/ \E p \in Ptrs, size \in Sizes, site \in Sites :
                 Allocates(t, p, size, site)
           \/ \E p \in Ptrs : p \in Free \cup temporary[t] /\ Releases(t, p)
           \/ \E p \in Ptrs, q \in Ptrs, size \in Sizes, site \in Sites :
                 Moves(t, p, q, size, site)
           \/ OtherCall(t)
<1> USE DEF Begins, Call, ReportCall
<1>1. ReportSite \in Sites /\ Free \subseteq Ptrs /\ temporary[t] \subseteq Ptrs
  BY HeapAssumption DEF TypeInv, TypeOK, Free
<1>2. ASSUME NEW p \in Ptrs, NEW size \in Sizes, NEW site \in Sites,
             Alloc(t, p, size, site)
      PROVE  Allocates(t, p, size, site)
  BY <1>2 DEF Alloc, Allocates
<1>3. ASSUME NEW p, Dealloc(t, p) PROVE Releases(t, p)
  BY <1>3 DEF Dealloc, Releases
<1>4. ASSUME NEW p, NEW q, NEW size, NEW site, Realloc(t, p, q, size, site)
      PROVE  Moves(t, p, q, size, site)
  BY <1>4 DEF Realloc, Moves
<1>5. ASSUME NEW p, NEW size, ReportAlloc(t, p, size)
      PROVE  Allocates(t, p, size, ReportSite)
  BY <1>5 DEF ReportAlloc, Allocates
<1>6. ASSUME NEW p, ReportDealloc(t, p) PROVE Releases(t, p)
  BY <1>6 DEF ReportDealloc, Releases
<1>7. ASSUME NEW p, NEW q, NEW size, ReportRealloc(t, p, q, size)
      PROVE  Moves(t, p, q, size, ReportSite)
  BY <1>7 DEF ReportRealloc, Moves
<1>8. CASE Calls(t)
  BY <1>1, <1>2, <1>3, <1>4, <1>8 DEF Calls, OtherCall
<1>9. CASE ReportCalls(t)
  BY <1>1, <1>5, <1>6, <1>7, <1>9 DEF ReportCalls
<1> QED
  BY <1>8, <1>9

(* alloc keeps the types. *)
LEMMA AllocateType ==
    ASSUME TypeInv, NEW t \in Threads, NEW p \in Ptrs, NEW size \in Sizes,
           NEW site \in Sites, Allocate(t, p, size, site),
           ops' \in 0..MaxOps, mixed' \in BOOLEAN, paused' \in BOOLEAN
    PROVE  TypeInv'
<1> USE HeapAssumption DEF Allocate, TypeInv, TypeOK
<1>1. size \in Nat
  OBVIOUS
<1>2. /\ rate' \in Nat \ {0} /\ heap' \in [Ptrs -> Nat] /\ owned' \subseteq Ptrs
      /\ temporary' \in [Threads -> SUBSET Ptrs]
  <2>1. rate' \in Nat \ {0} /\ heap' \in [Ptrs -> Nat]
    BY <1>1
  <2>2. CASE UNCHANGED <<owned, temporary>>
    BY <2>1, <2>2
  <2>3. CASE Grant(t, p)
    <3>1. owned' \subseteq Ptrs
      BY <2>3 DEF Grant
    <3>2. temporary' \in [Threads -> SUBSET Ptrs]
      BY <2>3 DEF Grant
    <3> QED
      BY <2>1, <3>1, <3>2
  <2> QED
    BY <2>2, <2>3
<1>7. profiling' = profiling /\ UNCHANGED <<recordVars, lockVars>>
  OBVIOUS
<1>3. bytesLeft' \in [Threads -> Int]
  BY <1>1
<1>4. /\ pc' \in [Threads -> Labels]
      /\ back' \in [Threads -> {"idle", "report", "lookup", "free"}]
  BY HomeType DEF Goto, Labels, Recording
<1>5. reg' \in [Threads -> Regs]
  <2>1. reg \in [Threads -> Regs]
    BY DEF Regs
  <2>2. [reg[t] EXCEPT !.ptr = p, !.size = size, !.site = site] \in Regs
    BY <1>1, <2>1, RegUpdate
  <2> QED
    BY <2>1, <2>2
<1>6. ShardInv'
  BY DEF ShardInv, Goto
<1> QED
  BY <1>2, <1>3, <1>4, <1>5, <1>6, <1>7 DEF Regs, recordVars, lockVars

(* A call keeps the types of the history variables. *)
LEMMA CountedType ==
    ASSUME TypeInv, NEW t \in Threads, NEW op, Counted(t, op)
    PROVE  ops' \in 0..MaxOps /\ mixed' \in BOOLEAN /\ paused' \in BOOLEAN
<1>1. ops' \in 0..MaxOps
  BY HeapAssumption DEF Counted, TypeInv, TypeOK
<1>2. mixed' \in BOOLEAN /\ paused' \in BOOLEAN
  BY DEF Counted, TypeInv, TypeOK
<1> QED
  BY <1>1, <1>2

(* dealloc keeps the types. *)
LEMMA ReleaseCallType ==
    ASSUME TypeInv, NEW t \in Threads, NEW p \in Ptrs, Release(t, p),
           ops' \in 0..MaxOps, mixed' \in BOOLEAN, paused' \in BOOLEAN
    PROVE  TypeInv'
<1>1. reg \in [Threads -> Regs]
  BY DEF TypeInv, TypeOK, Regs
<1> USE DEF TypeInv, TypeOK, Release
<1>2. /\ pc' \in [Threads -> Labels]
      /\ back' \in [Threads -> {"idle", "report", "lookup", "free"}]
      /\ owned' \subseteq Ptrs /\ temporary' \in [Threads -> SUBSET Ptrs]
  BY DEF Goto, Labels, Recording, Take
<1>3. reg' \in [Threads -> Regs]
  <2>1. reg[t] \in Regs
    BY <1>1
  <2>2. [reg[t] EXCEPT !.old = p] \in Regs
    BY <2>1, HeapAssumption, RegUpdate, Zenon
  <2>3. reg' = [reg EXCEPT ![t] = [reg[t] EXCEPT !.old = p]]
    BY <1>1
  <2> QED
    BY <1>1, <2>2, <2>3
<1>4. ShardInv'
  BY DEF ShardInv, Goto
<1> QED
  BY <1>2, <1>3, <1>4 DEF Regs, recordVars, lockVars, controlVars

(* realloc keeps the types. *)
LEMMA MoveType ==
    ASSUME TypeInv, NEW t \in Threads, NEW p \in Ptrs, NEW q \in Ptrs,
           NEW size \in Sizes, NEW site \in Sites, Move(t, p, q, size, site),
           ops' \in 0..MaxOps, mixed' \in BOOLEAN, paused' \in BOOLEAN
    PROVE  TypeInv'
<1>1. reg \in [Threads -> Regs] /\ size \in Nat
  BY HeapAssumption DEF TypeInv, TypeOK, Regs
<1> USE DEF TypeInv, TypeOK
<1>2. owned' \subseteq Ptrs /\ temporary' \in [Threads -> SUBSET Ptrs]
  <2>1. CASE profiling
    <3>1. Take(t, p)
      BY <2>1 DEF Move
    <3>2. owned' \subseteq Ptrs
      BY <3>1 DEF Take
    <3>3. temporary' \in [Threads -> SUBSET Ptrs]
      BY <3>1 DEF Take
    <3> QED
      BY <3>2, <3>3
  <2>2. CASE ~profiling
    <3>1. owned' \subseteq Ptrs
      BY <2>2 DEF Move
    <3>2. CASE t \in siteReaders
      BY <2>2, <3>1, <3>2 DEF Move
    <3>3. CASE t \notin siteReaders
      BY <2>2, <3>1, <3>3 DEF Move
    <3> QED
      BY <3>2, <3>3
  <2> QED
    BY <2>1, <2>2
<1> USE DEF Move
<1>3. /\ pc' \in [Threads -> Labels]
      /\ back' \in [Threads -> {"idle", "report", "lookup", "free"}]
  BY DEF Goto, Labels, Recording
<1>4. heap' \in [Ptrs -> Nat]
  BY <1>1
<1>5. reg' \in [Threads -> Regs]
  <2>1. [reg[t] EXCEPT !.old = p, !.ptr = q, !.size = size, !.site = site]
           \in Regs
    BY <1>1, RegUpdate
  <2> QED
    BY <1>1, <2>1
<1>6. ShardInv'
  BY DEF ShardInv, Goto
<1> QED
  BY <1>2, <1>3, <1>4, <1>5, <1>6 DEF Regs, recordVars, lockVars, controlVars

(* The other calls keep the types. *)
LEMMA CallType ==
    ASSUME TypeInv, NEW t \in Threads, OtherCall(t)
    PROVE  TypeInv'
<1>0. ops' \in 0..MaxOps /\ mixed' \in BOOLEAN /\ paused' \in BOOLEAN
  BY CountedType DEF OtherCall, SetProfiling, SetSampleRate, Reset, HeapReport, Call
<1>1. reg \in [Threads -> Regs]
  BY DEF TypeInv, TypeOK, Regs
<1> USE HeapAssumption DEF TypeInv, TypeOK
<1>4. ASSUME NEW on \in BOOLEAN, SetProfiling(t, on) PROVE TypeInv'
  BY <1>0, <1>4 DEF SetProfiling, ShardInv, recordVars, lockVars, systemVars
<1>5. ASSUME NEW r \in Rates, SetSampleRate(t, r) PROVE TypeInv'
  <2>1. rate' \in Nat \ {0}
    BY <1>5 DEF SetSampleRate
  <2> QED
    BY <1>0, <1>5, <2>1
       DEF SetSampleRate, ShardInv, recordVars, lockVars, systemVars
<1>6. CASE Reset(t)
  <2> USE <1>6 DEF Reset
  <2>1. pc' \in [Threads -> Labels]
    BY DEF Goto, Labels, Resetting
  <2>2. reg' \in [Threads -> Regs]
    <3>1. reg[t] \in Regs /\ 0 \in 0..NumShards
      BY <1>1, HeapAssumption
    <3>2. [reg[t] EXCEPT !.shard = 0] \in Regs
      BY <3>1, HeapAssumption, RegUpdate, Zenon
    <3>3. reg' = [reg EXCEPT ![t] = [reg[t] EXCEPT !.shard = 0]]
      BY <1>1
    <3> QED
      BY <1>1, <3>2, <3>3
  <2>3. ShardInv'
    BY DEF ShardInv, Goto
  <2> QED
    BY <1>0, <2>1, <2>2, <2>3
       DEF Regs, recordVars, lockVars, systemVars, controlVars
<1>7. CASE HeapReport(t)
  <2> USE <1>7 DEF HeapReport
  <2>1. pc' \in [Threads -> Labels] /\ siteReaders' \subseteq Threads
    BY DEF Goto, Labels
  <2>2. ShardInv'
    BY DEF ShardInv, Goto
  <2> QED
    BY <1>0, <2>1, <2>2 DEF recordVars, systemVars, controlVars
<1> QED
  BY <1>4, <1>5, <1>6, <1>7 DEF OtherCall

Counters == [ips : Sites, alloc : Int, inuse : Int]

(* Changing the counters of an id keeps their types and the set of ids. *)
LEMMA BumpIs ==
    ASSUME TypeInv, NEW id \in Nat, NEW a \in Int, NEW b \in Int, Bump(id, a, b)
    PROVE  /\ DOMAIN callsites' = DOMAIN callsites
           /\ \A i \in DOMAIN callsites' : callsites'[i] \in Counters
           /\ \A i \in DOMAIN callsites :
                 callsites'[i].inuse =
                    callsites[i].inuse + (IF i = id THEN b ELSE 0)
<1>1. \A i \in DOMAIN callsites : callsites[i] \in Counters
  BY DEF TypeInv, TypeOK, Counters
<1>2. CASE id \in DOMAIN callsites
  <2>1. callsites' = [callsites EXCEPT ![id].alloc = @ + a, ![id].inuse = @ + b]
    BY <1>2 DEF Bump
  <2>2. callsites'[id] = [callsites[id] EXCEPT !.alloc = @ + a, !.inuse = @ + b]
    BY <1>2, <2>1
  <2>3. \A i \in DOMAIN callsites : i # id => callsites'[i] = callsites[i]
    BY <2>1
  <2>4. DOMAIN callsites' = DOMAIN callsites
    BY <2>1
  <2> DEFINE c == callsites[id]
             d == callsites'[id]
  <2>5. c \in Counters /\ d = [c EXCEPT !.alloc = @ + a, !.inuse = @ + b]
    BY <1>1, <1>2, <2>2
  <2> HIDE DEF c, d
  <2>6. d \in Counters /\ d.inuse = c.inuse + b
    <3>1. c.alloc + a \in Int /\ c.inuse + b \in Int
      BY <2>5 DEF Counters
    <3> QED
      BY <2>5, <3>1 DEF Counters
  <2>7. \A i \in DOMAIN callsites : callsites[i].inuse + 0 = callsites[i].inuse
    BY <1>1 DEF Counters
  <2> QED
    BY <1>1, <2>3, <2>4, <2>6, <2>7 DEF c, d
<1>3. CASE id \notin DOMAIN callsites
  <2>1. callsites' = callsites
    BY <1>3 DEF Bump
  <2>2. \A i \in DOMAIN callsites : callsites[i].inuse + 0 = callsites[i].inuse
    BY <1>1 DEF Counters
  <2> QED
    BY <1>1, <1>3, <2>1, <2>2
<1> QED
  BY <1>2, <1>3

(* or_insert_with puts the call stack and its counters into both maps. *)
LEMMA SiteInsertIs ==
    ASSUME NEW t \in Threads, SiteInsert(t)
    PROVE  /\ DOMAIN callsites' = DOMAIN callsites \cup {reg[t].id}
           /\ callsites'[reg[t].id] = [ips |-> reg[t].site, alloc |-> 0, inuse |-> 0]
           /\ \A i \in DOMAIN callsites : i # reg[t].id =>
                 callsites'[i] = callsites[i]
           /\ DOMAIN callsiteMap' = DOMAIN callsiteMap \cup {reg[t].site}
           /\ callsiteMap'[reg[t].site] = reg[t].id
           /\ \A s \in DOMAIN callsiteMap : s # reg[t].site =>
                 callsiteMap'[s] = callsiteMap[s]
<1>1. /\ callsites' = Put(callsites, reg[t].id,
                          [ips |-> reg[t].site, alloc |-> 0, inuse |-> 0])
      /\ callsiteMap' = Put(callsiteMap, reg[t].site, reg[t].id)
  BY DEF SiteInsert
<1> QED
  BY <1>1 DEF Put

(* The address goes into its shard. *)
LEMMA LiveInsertIs ==
    ASSUME NEW t \in Threads, LiveInsert(t)
    PROVE  /\ DOMAIN live' = DOMAIN live \cup {reg[t].ptr}
           /\ live'[reg[t].ptr] = [id |-> reg[t].id, size |-> reg[t].size]
           /\ \A p \in DOMAIN live : p # reg[t].ptr => live'[p] = live[p]
<1>1. live' = Put(live, reg[t].ptr, [id |-> reg[t].id, size |-> reg[t].size])
  BY DEF LiveInsert, Live
<1> QED
  BY <1>1 DEF Put

(* The address leaves its shard. *)
LEMMA LiveRemoveIs ==
    ASSUME NEW t \in Threads, LiveRemove(t)
    PROVE  /\ DOMAIN live' = DOMAIN live \ {reg[t].old}
           /\ \A p \in DOMAIN live' : live'[p] = live[p]
<1>1. live' = Without(live, reg[t].old)
  BY DEF LiveRemove, Removed
<1> QED
  BY <1>1 DEF Without

(* record_dealloc subtracts the bytes of the record it took out. *)
LEMMA CountDeallocIs ==
    ASSUME TypeInv, NEW t \in Threads, CountDealloc(t)
    PROVE  /\ DOMAIN callsites' = DOMAIN callsites
           /\ \A i \in DOMAIN callsites' : callsites'[i] \in Counters
           /\ reg[t].gone = {} => callsites' = callsites
           /\ reg[t].gone # {} => \E e \in reg[t].gone : \A i \in DOMAIN callsites :
                 callsites'[i].inuse =
                    callsites[i].inuse + (IF i = e.id THEN -e.size ELSE 0)
<1>1. CASE reg[t].gone = {}
  BY <1>1 DEF CountDealloc, TypeInv, TypeOK, Counters
<1>2. CASE reg[t].gone # {}
  <2>1. PICK e \in reg[t].gone : Bump(e.id, 0, -e.size)
    BY <1>2 DEF CountDealloc
  <2> DEFINE b == -e.size
  <2>2. e.id \in Nat /\ b \in Int /\ 0 \in Int
    BY DEF TypeInv, TypeOK, LiveEntries
  <2>3. Bump(e.id, 0, b)
    BY <2>1
  <2> HIDE DEF b
  <2>4. /\ DOMAIN callsites' = DOMAIN callsites
        /\ \A i \in DOMAIN callsites' : callsites'[i] \in Counters
        /\ \A i \in DOMAIN callsites :
              callsites'[i].inuse =
                 callsites[i].inuse + (IF i = e.id THEN b ELSE 0)
    BY <2>2, <2>3, BumpIs
  <2> QED
    BY <1>2, <2>4 DEF b
<1> QED
  BY <1>1, <1>2

(* The steps of record_sample keep the types. *)
LEMMA SampleType ==
    ASSUME TypeInv, NEW t \in Threads,
           \/ Lookup(t) \/ MapWrite(t) \/ SiteInsert(t) \/ CountAlloc(t)
           \/ LiveInsert(t)
    PROVE  TypeInv'
<1>1. reg \in [Threads -> Regs]
  BY DEF TypeInv, TypeOK, Regs
<1> USE DEF TypeInv, TypeOK
<1>2. CASE Lookup(t)
  <2> USE <1>2 DEF Lookup
  <2>1. pc' \in [Threads -> Labels]
    BY DEF Goto, Labels, Recording
  <2>2. reg' \in [Threads -> Regs]
    <3>1. CASE reg[t].site \in DOMAIN callsiteMap
      <4>1. reg[t] \in Regs /\ callsiteMap[reg[t].site] \in Nat
        BY <1>1, <3>1
      <4>2. [reg[t] EXCEPT !.id = callsiteMap[reg[t].site]] \in Regs
        BY <4>1, HeapAssumption, RegUpdate, Zenon
      <4>3. reg' = [reg EXCEPT ![t] = [reg[t] EXCEPT !.id = callsiteMap[reg[t].site]]]
        BY <1>1, <3>1
      <4> QED
        BY <1>1, <4>2, <4>3
    <3>2. CASE reg[t].site \notin DOMAIN callsiteMap
      BY <1>1, <3>2
    <3> QED
      BY <3>1, <3>2
  <2>3. ShardInv'
    BY DEF ShardInv, Goto
  <2> QED
    BY <2>1, <2>2, <2>3
       DEF Regs, recordVars, lockVars, systemVars, controlVars, callVars
<1>3. CASE MapWrite(t)
  <2> USE <1>3 DEF MapWrite
  <2>1. pc' \in [Threads -> Labels]
    BY DEF Goto, Labels, Recording
  <2>2. reg' \in [Threads -> Regs]
    <3>1. CASE reg[t].site \in DOMAIN callsiteMap
      <4>1. [reg[t] EXCEPT !.id = callsiteMap[reg[t].site]] \in Regs
        BY <1>1, <3>1, RegUpdate
      <4> QED
        BY <1>1, <3>1, <4>1
    <3>2. CASE reg[t].site \notin DOMAIN callsiteMap
      <4>1. [reg[t] EXCEPT !.id = nextId] \in Regs
        BY <1>1, RegUpdate
      <4> QED
        BY <1>1, <3>2, <4>1
    <3> QED
      BY <3>1, <3>2
  <2>3. mapWriter' \subseteq Threads /\ nextId' \in Nat
    OBVIOUS
  <2>4. ShardInv'
    BY DEF ShardInv, Goto
  <2> QED
    BY <2>1, <2>2, <2>3, <2>4 DEF Regs, systemVars, controlVars, callVars
<1>4. CASE SiteInsert(t)
  <2>1. pc' \in [Threads -> Labels] /\ ShardInv' /\ mapWriter' \subseteq Threads
    BY <1>4 DEF SiteInsert, Goto, Labels, Recording, ShardInv
  <2>2. reg[t].id \in Nat /\ reg[t].site \in Sites
    OBVIOUS
  <2>3. /\ DOMAIN callsites' = DOMAIN callsites \cup {reg[t].id}
        /\ callsites'[reg[t].id] = [ips |-> reg[t].site, alloc |-> 0, inuse |-> 0]
        /\ \A i \in DOMAIN callsites : i # reg[t].id =>
              callsites'[i] = callsites[i]
        /\ DOMAIN callsiteMap' = DOMAIN callsiteMap \cup {reg[t].site}
        /\ callsiteMap'[reg[t].site] = reg[t].id
        /\ \A s \in DOMAIN callsiteMap : s # reg[t].site =>
              callsiteMap'[s] = callsiteMap[s]
    BY <1>4, SiteInsertIs
  <2>4. callsites'[reg[t].id] \in Counters
    BY <2>2, <2>3 DEF Counters
  <2>5. /\ DOMAIN callsites' \subseteq Nat
        /\ \A id \in DOMAIN callsites' : callsites'[id] \in Counters
    BY <2>2, <2>3, <2>4 DEF Counters
  <2>6. /\ DOMAIN callsiteMap' \subseteq Sites
        /\ \A s \in DOMAIN callsiteMap' : callsiteMap'[s] \in Nat
    BY <2>2, <2>3
  <2> QED
    BY <1>4, <2>1, <2>5, <2>6
       DEF SiteInsert, Counters, systemVars, controlVars, callVars
<1>5. CASE CountAlloc(t)
  <2> USE <1>5 DEF CountAlloc
  <2>1. pc' \in [Threads -> Labels]
    BY DEF Goto, Labels, Recording
  <2>2. /\ DOMAIN callsites' \subseteq Nat
        /\ \A id \in DOMAIN callsites' : callsites'[id] \in Counters
    <3>1. reg[t].id \in Nat /\ reg[t].size \in Int
      OBVIOUS
    <3> QED
      BY <3>1, BumpIs
  <2>3. ShardInv'
    BY DEF ShardInv, Goto
  <2> QED
    BY <2>1, <2>2, <2>3 DEF Counters, lockVars, systemVars, controlVars, callVars
<1>6. CASE LiveInsert(t)
  <2>1. /\ pc' \in [Threads -> Labels] /\ ShardInv'
        /\ back' \in [Threads -> {"idle", "report", "lookup", "free"}]
    BY <1>6 DEF LiveInsert, Goto, Forget, Labels, Recording, ShardInv
  <2>2. reg' \in [Threads -> Regs]
    BY <1>1, <1>6, NoRegType DEF LiveInsert, Forget
  <2>3. /\ DOMAIN live' = DOMAIN live \cup {reg[t].ptr}
        /\ live'[reg[t].ptr] = [id |-> reg[t].id, size |-> reg[t].size]
        /\ \A p \in DOMAIN live : p # reg[t].ptr => live'[p] = live[p]
    BY <1>6, LiveInsertIs
  <2>4. live'[reg[t].ptr] \in LiveEntries
    BY <2>3 DEF LiveEntries
  <2>5. /\ DOMAIN live' \subseteq Ptrs
        /\ \A p \in DOMAIN live' : live'[p] \in LiveEntries
    BY <2>3, <2>4
  <2>6. owned' \subseteq Ptrs /\ temporary' \in [Threads -> SUBSET Ptrs]
    BY <1>6 DEF LiveInsert, Grant
  <2> QED
    BY <1>6, <2>1, <2>2, <2>5, <2>6
       DEF LiveInsert, Regs, lockVars, controlVars, callVars
<1> QED
  BY <1>2, <1>3, <1>4, <1>5, <1>6

(* The steps of dealloc keep the types. *)
LEMMA ReleaseType ==
    ASSUME TypeInv, NEW t \in Threads,
           LiveRemove(t) \/ CountDealloc(t) \/ SystemFree(t)
    PROVE  TypeInv'
<1>1. reg \in [Threads -> Regs]
  BY DEF TypeInv, TypeOK, Regs
<1> USE DEF TypeInv, TypeOK
<1>2. CASE LiveRemove(t)
  <2> USE <1>2 DEF LiveRemove
  <2>1. pc' \in [Threads -> Labels]
    BY DEF Goto, Labels, Recording
  <2>2. reg' \in [Threads -> Regs]
    BY <1>1 DEF Regs
  <2>3. /\ DOMAIN live' \subseteq Ptrs
        /\ \A p \in DOMAIN live' : live'[p] \in LiveEntries
    BY LiveRemoveIs
  <2>4. ShardInv'
    BY DEF ShardInv, Goto
  <2> QED
    BY <2>1, <2>2, <2>3, <2>4 DEF Regs, lockVars, systemVars, controlVars, callVars
<1>3. CASE CountDealloc(t)
  <2> USE <1>3 DEF CountDealloc
  <2>1. /\ pc' \in [Threads -> Labels]
        /\ back' \in [Threads -> {"idle", "report", "lookup", "free"}]
    BY HomeType DEF Goto, Labels, Recording
  <2>2. reg' \in [Threads -> Regs]
    BY <1>1 DEF Regs
  <2>3. /\ DOMAIN callsites' \subseteq Nat
        /\ \A id \in DOMAIN callsites' : callsites'[id] \in Counters
    BY CountDeallocIs
  <2>4. ShardInv'
    BY DEF ShardInv, Goto
  <2> QED
    BY <2>1, <2>2, <2>3, <2>4
       DEF Regs, Counters, lockVars, systemVars, controlVars, callVars
<1>4. CASE SystemFree(t)
  <2> USE <1>4 DEF SystemFree
  <2>1. /\ pc' \in [Threads -> Labels]
        /\ back' \in [Threads -> {"idle", "report", "lookup", "free"}]
    BY HomeType DEF Goto, Forget, Labels
  <2>2. reg' \in [Threads -> Regs]
    BY <1>1, NoRegType DEF Forget
  <2>3. heap' \in [Ptrs -> Nat]
    OBVIOUS
  <2>4. ShardInv'
    BY HomeType DEF ShardInv, Goto, Forget
  <2> QED
    BY <2>1, <2>2, <2>3, <2>4 DEF Regs, recordVars, lockVars, controlVars, callVars
<1> QED
  BY <1>2, <1>3, <1>4

(* The steps of reset and the end of a report keep the types. *)
LEMMA ResetType ==
    ASSUME TypeInv, NEW t \in Threads,
           \/ ResetShard(t) \/ ResetMap(t) \/ ResetSites(t) \/ ResetId(t)
           \/ ReportReturn(t)
    PROVE  TypeInv'
<1>1. reg \in [Threads -> Regs]
  BY DEF TypeInv, TypeOK, Regs
<1> USE DEF TypeInv, TypeOK
<1>2. CASE ResetShard(t)
  <2> USE <1>2, HeapAssumption DEF ResetShard
  <2>1. pc' \in [Threads -> Labels]
    BY DEF Goto, Labels, Resetting
  <2>2. reg[t].shard \in 0..NumShards /\ reg[t].shard < NumShards
    BY DEF ShardInv
  <2>3. reg[t].shard + 1 \in 0..NumShards
    BY <2>2
  <2>4. reg' \in [Threads -> Regs]
    <3>1. [reg[t] EXCEPT !.shard = reg[t].shard + 1] \in Regs
      <4>1. reg[t] \in Regs
        BY <1>1
      <4> DEFINE n == reg[t].shard + 1
      <4>2. n \in 0..NumShards
        BY <2>3
      <4> HIDE DEF n
      <4>3. [reg[t] EXCEPT !.shard = n] \in Regs
        BY <4>1, <4>2, RegUpdate, HeapAssumption, Zenon
      <4> QED
        BY <4>3 DEF n
    <3>2. reg' = [reg EXCEPT ![t] = [reg[t] EXCEPT !.shard = reg[t].shard + 1]]
      BY <1>1
    <3> QED
      BY <1>1, <3>1, <3>2
  <2>5. /\ DOMAIN live' \subseteq Ptrs
        /\ \A p \in DOMAIN live' : live'[p] \in LiveEntries
    OBVIOUS
  <2>6. ShardInv'
    BY <2>2 DEF ShardInv, Goto
  <2> QED
    BY <2>1, <2>4, <2>5, <2>6 DEF Regs, lockVars, systemVars, controlVars, callVars
<1>3. CASE ResetMap(t)
  <2>1. pc' \in [Threads -> Labels] /\ ShardInv'
    BY <1>3 DEF ResetMap, Goto, Labels, Resetting, ShardInv
  <2>2. DOMAIN callsiteMap' = {}
    BY <1>3 DEF ResetMap, NoMap
  <2> QED
    BY <1>3, <2>1, <2>2
       DEF ResetMap, lockVars, systemVars, controlVars, callVars
<1>4. CASE ResetSites(t)
  <2>1. pc' \in [Threads -> Labels] /\ ShardInv'
    BY <1>4 DEF ResetSites, Goto, Labels, Resetting, ShardInv
  <2>2. DOMAIN callsites' = {}
    BY <1>4 DEF ResetSites, NoMap
  <2> QED
    BY <1>4, <2>1, <2>2
       DEF ResetSites, lockVars, systemVars, controlVars, callVars
<1>5. CASE ResetId(t)
  <2>1. /\ pc' \in [Threads -> Labels] /\ ShardInv'
        /\ back' \in [Threads -> {"idle", "report", "lookup", "free"}]
    BY <1>5 DEF ResetId, Goto, Forget, Labels, ShardInv
  <2>2. reg' \in [Threads -> Regs]
    BY <1>1, <1>5, NoRegType DEF ResetId, Forget
  <2> QED
    BY <1>5, <2>1, <2>2
       DEF ResetId, Regs, lockVars, systemVars, controlVars, callVars
<1>6. CASE ReportReturn(t)
  <2>1. /\ pc' \in [Threads -> Labels] /\ ShardInv' /\ siteReaders' \subseteq Threads
        /\ temporary' \in [Threads -> SUBSET Ptrs]
    BY <1>6 DEF ReportReturn, Goto, Labels, ShardInv
  <2> QED
    BY <1>6, <2>1 DEF ReportReturn, recordVars, systemVars, controlVars, callVars
<1> QED
  BY <1>2, <1>3, <1>4, <1>5, <1>6

(* Every step keeps the types. *)
LEMMA TypeStep == TypeInv /\ [Next]_vars => TypeInv'
<1> SUFFICES ASSUME TypeInv, [Next]_vars PROVE TypeInv'
  OBVIOUS
<1>1. CASE UNCHANGED vars
  BY <1>1 DEF vars, recordVars, lockVars, systemVars, controlVars, callVars,
              TypeInv, TypeOK, ShardInv
<1>2. ASSUME NEW t \in Threads, NEW ops2, Begins(t, ops2)
      PROVE  ops' \in 0..MaxOps /\ mixed' \in BOOLEAN /\ paused' \in BOOLEAN
  BY <1>2, CountedType DEF Begins
<1>4. ASSUME NEW t \in Threads, Calls(t) \/ ReportCalls(t) PROVE TypeInv'
  <2>1. ASSUME NEW p \in Ptrs, NEW size \in Sizes, NEW site \in Sites,
               Allocates(t, p, size, site)
        PROVE  TypeInv'
    BY <1>2, <2>1, AllocateType DEF Allocates
  <2>2. ASSUME NEW p \in Ptrs, Releases(t, p) PROVE TypeInv'
    BY <1>2, <2>2, ReleaseCallType DEF Releases
  <2>3. ASSUME NEW p \in Ptrs, NEW q \in Ptrs, NEW size \in Sizes, NEW site \in Sites,
               Moves(t, p, q, size, site)
        PROVE  TypeInv'
    BY <1>2, <2>3, MoveType DEF Moves
  <2> QED
    BY <1>4, <2>1, <2>2, <2>3, CallForms, CallType
<1>5. ASSUME NEW t \in Threads, Step(t) PROVE TypeInv'
  BY <1>5, SampleType, ReleaseType, ResetType DEF Step
<1> QED
  BY <1>1, <1>4, <1>5 DEF Next

(* Every variable keeps its type, whatever the threads do. *)
THEOREM TypeCorrect == Spec => []TypeOK
<1>1. TypeInv => TypeOK
  BY DEF TypeInv
<1> QED
  BY <1>1, TypeInit, TypeStep, PTL DEF Spec

-----------------------------------------------------------------------------
(* Control: who holds callsite_map, which records are on their way, and    *)
(* which calls overlap                                                     *)

(* A step of thread t. *)
StepOf(t) ==
    Calls(t) \/ ReportCalls(t) \/ Step(t)

(* A step leaves the other threads where they are. *)
Local(t) ==
    \A u \in Threads \ {t} : pc'[u] = pc[u] /\ reg'[u] = reg[u] /\ back'[u] = back[u]

(* What a step of t does to the lock, to the record it holds, and to the   *)
(* overlap of resets and recording calls.                                  *)
LockEffect(t) ==
    \/ mapWriter = {} /\ mapWriter' = {t} /\ pc'[t] = "site_write"
    \/ pc[t] = "site_write" /\ mapWriter' = {} /\ pc'[t] # "site_write"
    \/ mapWriter' = mapWriter /\ pc[t] # "site_write" /\ pc'[t] # "site_write"

GoneEffect(t) ==
    /\ pc'[t] # "uncount" => reg'[t].gone = {}
    /\ \A e, f \in reg'[t].gone : e = f

ApartEffect(t) ==
    /\ pc[t] \in Recording => pc'[t] \notin Resetting
    /\ ~mixed' =>
          /\ ~mixed
          /\ pc'[t] \in Recording =>
                \/ pc[t] \in Recording
                \/ \A u \in Threads \ {t} : pc[u] \notin Resetting
          /\ pc'[t] \in Resetting =>
                \/ pc[t] \in Resetting
                \/ \A u \in Threads \ {t} : pc[u] \notin Recording

Control(t) == Local(t) /\ LockEffect(t) /\ GoneEffect(t) /\ ApartEffect(t)
ControlInv == TypeInv /\ LockInv /\ GoneInv /\ ApartInv

(* A step is a step of one thread. *)
LEMMA NextIsStepOf ==
    ASSUME [Next]_vars
    PROVE  UNCHANGED vars \/ \E t \in Threads : StepOf(t)
  BY DEF Next, StepOf

(* alloc begins to record unless a reset runs elsewhere. *)
LEMMA AllocateControl ==
    ASSUME ControlInv, NEW t \in Threads, NEW p \in Ptrs, NEW size \in Sizes,
           NEW site \in Sites, Allocates(t, p, size, site)
    PROVE  Control(t)
<1>1. Allocate(t, p, size, site) /\ pc[t] \in {"idle", "report"}
  BY DEF Allocates, Begins
<1>2. \E op \in {"alloc", "report_alloc"} : Counted(t, op)
  BY DEF Allocates, Begins
<1>3. pc \in [Threads -> Labels] /\ reg \in [Threads -> Regs]
  BY DEF ControlInv, TypeInv, TypeOK, Regs
<1>4. Local(t) /\ mapWriter' = mapWriter
  BY <1>1, <1>3 DEF Allocate, Goto, Local, lockVars, ControlInv, TypeInv, TypeOK
<1>5. pc'[t] = pc[t] \/ pc'[t] = "lookup"
  BY <1>1, <1>3 DEF Allocate, Goto
<1>6. reg'[t].gone = reg[t].gone /\ reg[t].gone = {}
  <2>1. reg[t].gone = {}
    BY <1>1 DEF ControlInv, GoneInv
  <2>2. CASE reg' = reg
    BY <2>1, <2>2
  <2>3. CASE reg' # reg
    BY <1>1, <1>3, <2>1, <2>3 DEF Allocate, Regs
  <2> QED
    BY <2>2, <2>3
<1>7. LockEffect(t) /\ GoneEffect(t)
  BY <1>1, <1>4, <1>5, <1>6 DEF LockEffect, GoneEffect
<1>8. ApartEffect(t)
  BY <1>1, <1>2, <1>5 DEF ApartEffect, Counted, HeapOps, Others, Recording, Resetting
<1> QED
  BY <1>4, <1>7, <1>8 DEF Control

(* dealloc begins to take a record back, and realloc too. *)
LEMMA ReleaseCallControl ==
    ASSUME ControlInv, NEW t \in Threads,
           \/ \E p \in Ptrs : Releases(t, p)
           \/ \E p \in Ptrs, q \in Ptrs, size \in Sizes, site \in Sites :
                 Moves(t, p, q, size, site)
    PROVE  Control(t)
<1>1. /\ pc \in [Threads -> Labels] /\ reg \in [Threads -> Regs]
      /\ pc[t] \in {"idle", "report"}
  BY DEF ControlInv, TypeInv, TypeOK, Regs, Releases, Moves, Begins
<1>2. reg[t].gone = {}
  BY <1>1 DEF ControlInv, GoneInv
<1>3. \E op \in HeapOps : Counted(t, op)
  BY DEF Releases, Moves, Begins, HeapOps
<1> USE DEF ControlInv, TypeInv, TypeOK
<1>4. ASSUME NEW p \in Ptrs, Releases(t, p) PROVE Control(t)
  <2>1. Local(t) /\ mapWriter' = mapWriter /\ pc'[t] \in {"remove", "free"}
    BY <1>1, <1>4 DEF Releases, Release, Goto, Local, lockVars
  <2>2. reg'[t].gone = {}
    BY <1>1, <1>2, <1>4 DEF Releases, Release, Regs
  <2>3. ApartEffect(t)
    BY <1>1, <1>3, <2>1
       DEF ApartEffect, Counted, HeapOps, Others, Recording, Resetting
  <2> QED
    BY <1>1, <2>1, <2>2, <2>3 DEF Control, LockEffect, GoneEffect
<1>5. ASSUME NEW p \in Ptrs, NEW q \in Ptrs, NEW size \in Sizes,
             NEW site \in Sites, Moves(t, p, q, size, site)
      PROVE  Control(t)
  <2>1. /\ Local(t) /\ mapWriter' = mapWriter
        /\ pc'[t] \in {"remove", "idle", "report"}
    <3>1. CASE profiling
      <4>1. /\ pc' = [pc EXCEPT ![t] = "remove"]
            /\ back' = [back EXCEPT ![t] = "lookup"]
        BY <1>5, <3>1 DEF Moves, Move, Goto
      <4>2. UNCHANGED lockVars /\ reg' = [reg EXCEPT ![t] = reg'[t]]
        BY <1>1, <1>5, <3>1 DEF Moves, Move
      <4> QED
        BY <1>1, <4>1, <4>2 DEF Local, lockVars
    <3>2. CASE ~profiling
      BY <1>1, <1>5, <3>2 DEF Moves, Move, Local, lockVars
    <3> QED
      BY <3>1, <3>2
  <2>2. reg'[t].gone = {}
    <3>1. CASE ~profiling
      BY <1>2, <1>5, <3>1 DEF Moves, Move
    <3>2. CASE profiling
      <4>1. reg'[t] = [reg[t] EXCEPT !.old = p, !.ptr = q, !.size = size,
                                     !.site = site]
        <5>1. reg' = [reg EXCEPT ![t] = [@ EXCEPT !.old = p, !.ptr = q,
                                                  !.size = size, !.site = site]]
          BY <1>5, <3>2 DEF Moves, Move
        <5> QED
          BY <1>1, <5>1
      <4>2. reg[t] \in Regs
        BY <1>1
      <4>3. reg'[t].gone = reg[t].gone
        BY <4>1, <4>2 DEF Regs
      <4> QED
        BY <1>2, <4>3
    <3> QED
      BY <3>1, <3>2
  <2>3. ApartEffect(t)
    BY <1>1, <1>3, <2>1
       DEF ApartEffect, Counted, HeapOps, Others, Recording, Resetting
  <2> QED
    BY <1>1, <2>1, <2>2, <2>3 DEF Control, LockEffect, GoneEffect
<1> QED
  BY <1>4, <1>5

(* The other calls. *)
LEMMA CallControl ==
    ASSUME ControlInv, NEW t \in Threads, OtherCall(t)
    PROVE  Control(t)
<1>1. pc \in [Threads -> Labels] /\ reg \in [Threads -> Regs] /\ pc[t] = "idle"
  BY DEF ControlInv, TypeInv, TypeOK, Regs, OtherCall, SetProfiling,
         SetSampleRate, Reset, HeapReport, Call
<1>2. reg[t].gone = {}
  BY <1>1 DEF ControlInv, GoneInv
<1> USE DEF ControlInv, TypeInv, TypeOK
<1>5. CASE \/ \E on \in BOOLEAN : SetProfiling(t, on)
           \/ \E r \in Rates : SetSampleRate(t, r)
  <2>1. /\ pc' = pc /\ reg' = reg /\ back' = back /\ mapWriter' = mapWriter
        /\ mixed => mixed'
    BY <1>5 DEF SetProfiling, SetSampleRate, lockVars, Call, Counted
  <2> QED
    BY <1>1, <1>2, <2>1
       DEF Control, Local, LockEffect, GoneEffect, ApartEffect, Recording, Resetting
<1>6. CASE Reset(t)
  <2>1. Local(t) /\ mapWriter' = mapWriter /\ pc'[t] = "reset_shard"
    BY <1>1, <1>6 DEF Reset, Goto, Local, lockVars
  <2>2. reg'[t].gone = {}
    BY <1>1, <1>2, <1>6 DEF Reset, Regs
  <2>3. ApartEffect(t)
    BY <1>1, <1>6, <2>1
       DEF Reset, Call, ApartEffect, Counted, Others, Recording, Resetting
  <2> QED
    BY <1>1, <2>1, <2>2, <2>3 DEF Control, LockEffect, GoneEffect
<1>7. CASE HeapReport(t)
  <2>1. Local(t) /\ mapWriter' = mapWriter /\ pc'[t] = "report" /\ reg' = reg
    BY <1>1, <1>7 DEF HeapReport, Goto, Local
  <2>2. ApartEffect(t)
    BY <1>1, <1>7, <2>1
       DEF HeapReport, Call, ApartEffect, Counted, Recording, Resetting
  <2> QED
    BY <1>1, <1>2, <2>1, <2>2 DEF Control, LockEffect, GoneEffect
<1> QED
  BY <1>5, <1>6, <1>7 DEF OtherCall

(* The steps of record_sample. *)
LEMMA SampleControl ==
    ASSUME ControlInv, NEW t \in Threads,
           \/ Lookup(t) \/ MapWrite(t) \/ SiteInsert(t) \/ CountAlloc(t)
           \/ LiveInsert(t)
    PROVE  Control(t)
<1>1. pc \in [Threads -> Labels] /\ reg \in [Threads -> Regs]
  BY DEF ControlInv, TypeInv, TypeOK, Regs
<1>2. pc[t] \in {"lookup", "map_write", "site_write", "count", "insert"}
  BY DEF Lookup, MapWrite, SiteInsert, CountAlloc, LiveInsert
<1>3. reg[t].gone = {}
  BY <1>2 DEF ControlInv, GoneInv
<1>4. mixed' = mixed
  BY DEF Lookup, MapWrite, SiteInsert, CountAlloc, LiveInsert, callVars
<1>5. ASSUME pc'[t] \in Labels \ Resetting PROVE ApartEffect(t)
  BY <1>2, <1>4, <1>5 DEF ApartEffect, Recording
<1> USE DEF ControlInv, TypeInv, TypeOK
<1>6. CASE Lookup(t)
  <2>1. Local(t) /\ mapWriter' = mapWriter /\ pc'[t] \in {"count", "map_write"}
    BY <1>1, <1>6 DEF Lookup, Goto, Local, lockVars
  <2>2. reg'[t].gone = {}
    BY <1>1, <1>3, <1>6 DEF Lookup, Regs
  <2>3. ApartEffect(t)
    BY <1>5, <2>1 DEF Labels, Recording, Resetting
  <2> QED
    BY <1>6, <2>1, <2>2, <2>3 DEF Control, LockEffect, GoneEffect, Lookup
<1>7. CASE MapWrite(t)
  <2>1. /\ Local(t)
        /\ \/ mapWriter' = mapWriter /\ pc'[t] = "count"
           \/ mapWriter = {} /\ mapWriter' = {t} /\ pc'[t] = "site_write"
    BY <1>1, <1>7 DEF MapWrite, Goto, Local
  <2>2. reg'[t].gone = {}
    <3>1. CASE reg[t].site \in DOMAIN callsiteMap
      BY <1>1, <1>3, <1>7, <3>1 DEF MapWrite, Regs
    <3>2. CASE reg[t].site \notin DOMAIN callsiteMap
      BY <1>1, <1>3, <1>7, <3>2 DEF MapWrite, Regs
    <3> QED
      BY <3>1, <3>2
  <2>3. ApartEffect(t)
    BY <1>5, <2>1 DEF Labels, Recording, Resetting
  <2> QED
    BY <1>7, <2>1, <2>2, <2>3 DEF Control, LockEffect, GoneEffect, MapWrite
<1>8. CASE SiteInsert(t)
  <2>1. Local(t) /\ mapWriter' = {} /\ pc'[t] = "count" /\ reg' = reg
    BY <1>1, <1>8 DEF SiteInsert, Goto, Local
  <2>2. ApartEffect(t)
    BY <1>5, <2>1 DEF Labels, Recording, Resetting
  <2> QED
    BY <1>3, <1>8, <2>1, <2>2 DEF Control, LockEffect, GoneEffect, SiteInsert
<1>9. CASE CountAlloc(t)
  <2>1. Local(t) /\ mapWriter' = mapWriter /\ pc'[t] = "insert" /\ reg' = reg
    BY <1>1, <1>9 DEF CountAlloc, Goto, Local, lockVars
  <2>2. ApartEffect(t)
    BY <1>5, <2>1 DEF Labels, Recording, Resetting
  <2> QED
    BY <1>3, <1>9, <2>1, <2>2 DEF Control, LockEffect, GoneEffect, CountAlloc
<1>10. CASE LiveInsert(t)
  <2>1. /\ Local(t) /\ mapWriter' = mapWriter /\ reg'[t] = NoReg
        /\ pc'[t] \in {"idle", "report", "lookup", "free"}
    BY <1>1, <1>10 DEF LiveInsert, Goto, Forget, Local, lockVars
  <2>2. reg'[t].gone = {}
    BY <2>1 DEF NoReg
  <2>3. ApartEffect(t)
    BY <1>5, <2>1 DEF Labels, Recording, Resetting
  <2> QED
    BY <1>10, <2>1, <2>2, <2>3 DEF Control, LockEffect, GoneEffect, LiveInsert
<1> QED
  BY <1>6, <1>7, <1>8, <1>9, <1>10

(* The steps of dealloc. *)
LEMMA ReleaseControl ==
    ASSUME ControlInv, NEW t \in Threads,
           LiveRemove(t) \/ CountDealloc(t) \/ SystemFree(t)
    PROVE  Control(t)
<1>1. pc \in [Threads -> Labels] /\ reg \in [Threads -> Regs]
  BY DEF ControlInv, TypeInv, TypeOK, Regs
<1>2. mixed' = mixed /\ pc[t] \in {"remove", "uncount", "free"}
  BY DEF LiveRemove, CountDealloc, SystemFree, callVars
<1>3. ASSUME pc'[t] \in Labels \ Resetting PROVE ApartEffect(t)
  BY <1>2, <1>3 DEF ApartEffect, Recording
<1> USE DEF ControlInv, TypeInv, TypeOK
<1>4. CASE LiveRemove(t)
  <2>1. Local(t) /\ mapWriter' = mapWriter /\ pc'[t] = "uncount"
    BY <1>1, <1>4 DEF LiveRemove, Goto, Local, lockVars
  <2>2. reg'[t].gone = {live[p] : p \in {reg[t].old} \cap DOMAIN live}
    BY <1>1, <1>4 DEF LiveRemove, Regs
  <2>3. \A e, f \in reg'[t].gone : e = f
    BY <2>2
  <2>4. ApartEffect(t)
    BY <1>3, <2>1 DEF Labels, Recording, Resetting
  <2> QED
    BY <1>4, <2>1, <2>3, <2>4 DEF Control, LockEffect, GoneEffect, LiveRemove
<1>5. CASE CountDealloc(t)
  <2>1. /\ Local(t) /\ mapWriter' = mapWriter
        /\ pc'[t] \in {"idle", "report", "lookup", "free"}
    BY <1>1, <1>5 DEF CountDealloc, Goto, Local, lockVars
  <2>2. reg'[t].gone = {}
    BY <1>1, <1>5 DEF CountDealloc, Regs
  <2>3. ApartEffect(t)
    BY <1>3, <2>1 DEF Labels, Recording, Resetting
  <2> QED
    BY <1>5, <2>1, <2>2, <2>3 DEF Control, LockEffect, GoneEffect, CountDealloc
<1>6. CASE SystemFree(t)
  <2>1. /\ Local(t) /\ mapWriter' = mapWriter /\ reg'[t] = NoReg
        /\ pc'[t] \in {"idle", "report"}
    BY <1>1, <1>6, HomeType DEF SystemFree, Goto, Forget, Local, lockVars
  <2>2. reg'[t].gone = {}
    BY <2>1 DEF NoReg
  <2>3. ApartEffect(t)
    BY <1>3, <2>1 DEF Labels, Recording, Resetting
  <2> QED
    BY <1>6, <2>1, <2>2, <2>3 DEF Control, LockEffect, GoneEffect, SystemFree
<1> QED
  BY <1>4, <1>5, <1>6

(* The steps of reset, and the end of a report. *)
LEMMA ResetControl ==
    ASSUME ControlInv, NEW t \in Threads,
           \/ ResetShard(t) \/ ResetMap(t) \/ ResetSites(t) \/ ResetId(t)
           \/ ReportReturn(t)
    PROVE  Control(t)
<1>1. pc \in [Threads -> Labels] /\ reg \in [Threads -> Regs]
  BY DEF ControlInv, TypeInv, TypeOK, Regs
<1>2. pc[t] \in Resetting \cup {"report"}
  BY DEF ResetShard, ResetMap, ResetSites, ResetId, ReportReturn, Resetting
<1>3. reg[t].gone = {} /\ mapWriter' = mapWriter /\ mixed' = mixed
  BY <1>2 DEF ControlInv, GoneInv, ResetShard, ResetMap, ResetSites, ResetId,
              ReportReturn, Resetting, lockVars, callVars
<1>4. /\ Local(t)
      /\ \/ pc[t] \in Resetting /\ pc'[t] \in Resetting \cup {"idle"}
         \/ pc[t] = "report" /\ pc'[t] = "idle"
  BY <1>1 DEF ControlInv, TypeInv, TypeOK, ResetShard, ResetMap, ResetSites,
              ResetId, ReportReturn, Local, Goto, Forget, Resetting
<1>5. reg'[t].gone = {}
  <2>1. CASE ResetShard(t)
    BY <1>1, <1>3, <2>1 DEF ResetShard, Regs
  <2>2. CASE ResetId(t)
    BY <1>1, <2>2 DEF ResetId, Forget, NoReg
  <2>3. CASE ResetMap(t) \/ ResetSites(t) \/ ReportReturn(t)
    BY <1>3, <2>3 DEF ResetMap, ResetSites, ReportReturn
  <2> QED
    BY <2>1, <2>2, <2>3
<1>6. ApartEffect(t)
  BY <1>3, <1>4 DEF ApartEffect, Recording, Resetting
<1> QED
  BY <1>2, <1>3, <1>4, <1>5, <1>6 DEF Control, LockEffect, GoneEffect, Resetting

(* Every step of a thread has these effects. *)
LEMMA StepControl ==
    ASSUME ControlInv, NEW t \in Threads, StepOf(t)
    PROVE  Control(t)
<1>1. CASE Calls(t) \/ ReportCalls(t)
  <2>1. TypeInv
    BY DEF ControlInv
  <2> QED
    BY <1>1, <2>1, CallForms, AllocateControl, ReleaseCallControl, CallControl
<1>2. CASE Step(t)
  BY <1>2, SampleControl, ReleaseControl, ResetControl DEF Step
<1> QED
  BY <1>1, <1>2 DEF StepOf

(* The control invariants hold at first ... *)
LEMMA ControlInit == Init => ControlInv
<1> SUFFICES ASSUME Init PROVE ControlInv
  OBVIOUS
<1>1. LockInv /\ GoneInv /\ ApartInv
  BY DEF Init, LockInv, GoneInv, ApartInv, NoReg, Recording, Resetting
<1> QED
  BY <1>1, TypeInit DEF ControlInv

(* ... and every step keeps them. *)
LEMMA ControlStep == ControlInv /\ [Next]_vars => ControlInv'
<1> SUFFICES ASSUME ControlInv, [Next]_vars PROVE ControlInv'
  OBVIOUS
<1>1. TypeInv /\ TypeInv'
  BY TypeStep DEF ControlInv
<1>2. CASE UNCHANGED vars
  BY <1>1, <1>2 DEF vars, lockVars, callVars, ControlInv, LockInv, GoneInv, ApartInv
<1>3. ASSUME NEW t \in Threads, StepOf(t) PROVE ControlInv'
  <2>1. Control(t)
    BY <1>3, StepControl
  <2>2. LockInv'
    BY <1>1, <2>1
       DEF Control, Local, LockEffect, LockInv, ControlInv, TypeInv, TypeOK
  <2>3. GoneInv'
    BY <2>1 DEF Control, Local, GoneEffect, GoneInv, ControlInv
  <2>4. ApartInv'
    <3> SUFFICES ASSUME ~mixed', NEW a \in Threads, NEW b \in Threads,
                        pc'[a] \in Recording, pc'[b] \in Resetting
                 PROVE  FALSE
      BY DEF ApartInv
    <3>1. /\ ~mixed
          /\ \A u, v \in Threads : ~(pc[u] \in Recording /\ pc[v] \in Resetting)
      BY <2>1 DEF Control, ApartEffect, ApartInv, ControlInv
    <3>2. a # b
      BY DEF Recording, Resetting
    <3>3. CASE a # t /\ b # t
      BY <2>1, <3>1, <3>3 DEF Control, Local
    <3>4. CASE a = t
      BY <2>1, <3>1, <3>2, <3>4 DEF Control, Local, ApartEffect
    <3>5. CASE b = t
      BY <2>1, <3>1, <3>2, <3>5 DEF Control, Local, ApartEffect
    <3> QED
      BY <3>3, <3>4, <3>5
  <2> QED
    BY <1>1, <2>2, <2>3, <2>4 DEF ControlInv
<1> QED
  BY <1>2, <1>3, NextIsStepOf

-----------------------------------------------------------------------------
(* The maps: ids are drawn once, and a reset clears them in order *)

MapsInv == ControlInv /\ ResetInv /\ IdInv

(* A call touches no map, and leads to the first step of its work. *)
LEMMA CallLeads ==
    ASSUME TypeInv, NEW t \in Threads, StepOf(t),
           pc[t] \notin Recording \cup Resetting
    PROVE  /\ UNCHANGED recordVars
           /\ pc'[t] \in {"idle", "report", "lookup", "remove", "free", "reset_shard"}
           /\ pc'[t] = "reset_shard" => reg'[t].shard = 0
<1>1. /\ pc \in [Threads -> Labels] /\ reg \in [Threads -> Regs]
      /\ pc[t] \in {"idle", "report"}
  BY DEF TypeInv, TypeOK, Regs, Labels
<1>2. ASSUME NEW p \in Ptrs, NEW size \in Sizes, NEW site \in Sites,
             Allocates(t, p, size, site)
      PROVE  UNCHANGED recordVars /\ pc'[t] \in {"idle", "report", "lookup"}
  BY <1>1, <1>2 DEF Allocates, Allocate, Goto
<1>3. ASSUME NEW p, Releases(t, p)
      PROVE  UNCHANGED recordVars /\ pc'[t] \in {"remove", "free"}
  BY <1>1, <1>3 DEF Releases, Release, Goto
<1>4. ASSUME NEW p, NEW q, NEW size, NEW site, Moves(t, p, q, size, site)
      PROVE  UNCHANGED recordVars /\ pc'[t] \in {"remove", "idle", "report"}
  BY <1>1, <1>4 DEF Moves, Move, Goto
<1>5. ASSUME \/ \E on \in BOOLEAN : SetProfiling(t, on)
             \/ \E r \in Rates : SetSampleRate(t, r)
      PROVE  UNCHANGED recordVars /\ pc'[t] = "idle"
  BY <1>5 DEF SetProfiling, SetSampleRate, Call
<1>6. ASSUME Reset(t)
      PROVE  UNCHANGED recordVars /\ pc'[t] = "reset_shard" /\ reg'[t].shard = 0
  BY <1>1, <1>6 DEF Reset, Goto, Regs
<1>7. ASSUME HeapReport(t) \/ ReportReturn(t)
      PROVE  UNCHANGED recordVars /\ pc'[t] \in {"idle", "report"}
  BY <1>1, <1>7 DEF HeapReport, ReportReturn, Goto
<1>8. CASE Calls(t) \/ ReportCalls(t)
  <2>1. OtherCall(t) => /\ UNCHANGED recordVars
                        /\ pc'[t] \in {"idle", "report", "reset_shard"}
                        /\ pc'[t] = "reset_shard" => reg'[t].shard = 0
    BY <1>5, <1>6, <1>7 DEF OtherCall
  <2> QED
    BY <1>2, <1>3, <1>4, <1>8, <2>1, CallForms
<1>10. CASE Step(t)
  <2>1. ReportReturn(t)
    BY <1>1, <1>10
       DEF Step, Lookup, MapWrite, SiteInsert, CountAlloc, LiveInsert, LiveRemove,
           CountDealloc, SystemFree, ResetShard, ResetMap, ResetSites, ResetId
  <2> QED
    BY <1>7, <2>1
<1> QED
  BY <1>8, <1>10 DEF StepOf

(* A recording thread takes the step its label names. *)
LEMMA RecordingSteps ==
    ASSUME NEW t \in Threads, StepOf(t), pc[t] \in Recording
    PROVE  \/ Lookup(t) \/ MapWrite(t) \/ SiteInsert(t) \/ CountAlloc(t)
           \/ LiveInsert(t) \/ LiveRemove(t) \/ CountDealloc(t) \/ SystemFree(t)
  BY DEF StepOf, Step, Calls, Alloc, Dealloc, Realloc, SetProfiling,
         SetSampleRate, Reset, HeapReport, Call, ReportCalls, ReportCall,
         ReportAlloc, ReportDealloc, ReportRealloc, ReportReturn,
         ResetShard, ResetMap, ResetSites, ResetId, Recording

(* A resetting thread takes the step its label names. *)
LEMMA ResettingSteps ==
    ASSUME NEW t \in Threads, StepOf(t), pc[t] \in Resetting
    PROVE  ResetShard(t) \/ ResetMap(t) \/ ResetSites(t) \/ ResetId(t)
  BY DEF StepOf, Step, Calls, Alloc, Dealloc, Realloc, SetProfiling,
         SetSampleRate, Reset, HeapReport, Call, ReportCalls, ReportCall,
         ReportAlloc, ReportDealloc, ReportRealloc, ReportReturn,
         Lookup, MapWrite, SiteInsert, CountAlloc, LiveInsert, LiveRemove,
         CountDealloc, SystemFree, Resetting

(* Calls keep the invariants of the maps. *)
LEMMA CallMaps ==
    ASSUME MapsInv, ControlInv', NEW t \in Threads, StepOf(t),
           pc[t] \notin Recording \cup Resetting
    PROVE  ResetInv' /\ IdInv'
<1>1. CASE mixed'
  BY <1>1 DEF ResetInv, IdInv
<1>2. CASE ~mixed'
  <2>1. Control(t) /\ ~mixed
    BY <1>2, StepControl DEF MapsInv, Control, ApartEffect
  <2>2. /\ live' = live /\ callsiteMap' = callsiteMap /\ callsites' = callsites
        /\ nextId' = nextId
        /\ pc'[t] \in {"idle", "report", "lookup", "remove", "free", "reset_shard"}
        /\ pc'[t] = "reset_shard" => reg'[t].shard = 0
    BY CallLeads DEF recordVars, MapsInv, ControlInv
  <2>3. reg'[t].gone = {}
    BY <2>1, <2>2 DEF Control, GoneEffect
  <2>4. IdInv'
    BY <2>1, <2>2, <2>3 DEF MapsInv, IdInv, Control, Local
  <2>5. \A p \in DOMAIN live : ShardOf[p] >= 0
    BY HeapAssumption DEF MapsInv, ControlInv, TypeInv, TypeOK
  <2>6. ResetInv'
    BY <2>1, <2>2, <2>5 DEF MapsInv, ResetInv, Control, Local
  <2> QED
    BY <2>4, <2>6
<1> QED
  BY <1>1, <1>2

(* The steps of alloc and dealloc keep them. *)
LEMMA RecordingMaps ==
    ASSUME MapsInv, ControlInv', NEW t \in Threads, StepOf(t), pc[t] \in Recording
    PROVE  ResetInv' /\ IdInv'
<1>1. CASE mixed'
  BY <1>1 DEF ResetInv, IdInv
<1>2. CASE ~mixed'
  <2>1. Control(t) /\ ~mixed
    BY <1>2, StepControl DEF MapsInv, Control, ApartEffect
  <2>2. \A u \in Threads : pc'[u] \notin Resetting
    <3>1. \A u \in Threads : pc[u] \notin Resetting
      BY <2>1 DEF MapsInv, ControlInv, ApartInv
    <3>2. pc'[t] \notin Resetting
      BY <2>1 DEF Control, ApartEffect
    <3> QED
      BY <2>1, <3>1, <3>2 DEF Control, Local
  <2>3. ResetInv'
    BY <2>2 DEF ResetInv, Resetting
  <2>4. /\ \A id \in DOMAIN callsites : id < nextId
        /\ \A s \in DOMAIN callsiteMap : callsiteMap[s] \in DOMAIN callsites
        /\ \A p \in DOMAIN live : live[p].id \in DOMAIN callsites
        /\ \A u \in Threads :
              /\ pc[u] = "site_write" =>
                    reg[u].id < nextId /\ reg[u].id \notin DOMAIN callsites
              /\ pc[u] \in {"count", "insert"} => reg[u].id \in DOMAIN callsites
              /\ \A e \in reg[u].gone : e.id \in DOMAIN callsites
    BY <2>1 DEF MapsInv, IdInv
  <2>5. \A u \in Threads : u # t => pc'[u] = pc[u] /\ reg'[u] = reg[u]
    BY <2>1 DEF Control, Local
  <2>6. /\ pc \in [Threads -> Labels] /\ reg \in [Threads -> Regs] /\ nextId \in Nat
        /\ DOMAIN callsites \subseteq Nat
    BY DEF MapsInv, ControlInv, TypeInv, TypeOK, Regs
  <2>7. pc'[t] # "uncount" => reg'[t].gone = {}
    BY <2>1 DEF Control, GoneEffect
  <2>8. CASE Lookup(t)
    <3>1. /\ live' = live /\ callsiteMap' = callsiteMap /\ callsites' = callsites
          /\ nextId' = nextId /\ pc'[t] \in {"count", "map_write"}
      BY <2>6, <2>8 DEF Lookup, Goto, recordVars
    <3>2. pc'[t] = "count" => reg'[t].id \in DOMAIN callsites
      BY <2>4, <2>6, <2>8 DEF Lookup, Goto, Regs
    <3> QED
      BY <2>3, <2>4, <2>5, <2>7, <3>1, <3>2 DEF IdInv
  <2>9. CASE MapWrite(t)
    <3>1. live' = live /\ callsiteMap' = callsiteMap /\ callsites' = callsites
      BY <2>9 DEF MapWrite
    <3>2. \/ /\ pc'[t] = "count" /\ nextId' = nextId
             /\ reg'[t].id \in DOMAIN callsites
          \/ /\ pc'[t] = "site_write" /\ nextId' = nextId + 1
             /\ reg'[t].id = nextId
      <4>1. CASE reg[t].site \in DOMAIN callsiteMap
        BY <2>4, <2>6, <2>9, <4>1 DEF MapWrite, Goto, Regs
      <4>2. CASE reg[t].site \notin DOMAIN callsiteMap
        BY <2>4, <2>6, <2>9, <4>2 DEF MapWrite, Goto, Regs
      <4> QED
        BY <4>1, <4>2
    <3>3. \A id \in DOMAIN callsites : id # nextId /\ id < nextId + 1
      BY <2>4, <2>6
    <3>4. \A u \in Threads \ {t} : pc[u] # "site_write"
      BY <2>9 DEF MapWrite, MapsInv, ControlInv, LockInv
    <3>5. CASE pc'[t] = "count"
      BY <2>3, <2>4, <2>5, <2>7, <3>1, <3>2, <3>5 DEF IdInv
    <3>6. CASE pc'[t] = "site_write"
      BY <2>3, <2>4, <2>5, <2>6, <2>7, <3>1, <3>2, <3>3, <3>4, <3>6 DEF IdInv
    <3> QED
      BY <3>2, <3>5, <3>6
  <2>10. CASE SiteInsert(t)
    <3>1. live' = live /\ nextId' = nextId /\ pc'[t] = "count" /\ reg' = reg
      BY <2>6, <2>10 DEF SiteInsert, Goto
    <3>2. reg[t].id < nextId
      BY <2>4, <2>10 DEF SiteInsert
    <3>3. /\ DOMAIN callsites' = DOMAIN callsites \cup {reg[t].id}
          /\ DOMAIN callsiteMap' = DOMAIN callsiteMap \cup {reg[t].site}
          /\ callsiteMap'[reg[t].site] = reg[t].id
          /\ \A s \in DOMAIN callsiteMap : s # reg[t].site =>
                callsiteMap'[s] = callsiteMap[s]
      BY <2>10, SiteInsertIs
    <3>4. \A u \in Threads \ {t} : pc[u] # "site_write"
      BY <2>10 DEF SiteInsert, MapsInv, ControlInv, LockInv
    <3> QED
      BY <2>3, <2>4, <2>5, <2>7, <3>1, <3>2, <3>3, <3>4 DEF IdInv
  <2>11. CASE CountAlloc(t)
    <3>1. /\ live' = live /\ callsiteMap' = callsiteMap /\ nextId' = nextId
          /\ pc'[t] = "insert" /\ pc[t] = "count" /\ reg' = reg
      BY <2>6, <2>11 DEF CountAlloc, Goto
    <3>2. DOMAIN callsites' = DOMAIN callsites
      BY <2>11 DEF CountAlloc, Bump
    <3> QED
      BY <2>3, <2>4, <2>5, <2>7, <3>1, <3>2 DEF IdInv
  <2>12. CASE LiveInsert(t)
    <3>1. /\ callsites' = callsites /\ callsiteMap' = callsiteMap /\ nextId' = nextId
          /\ pc'[t] \in {"idle", "report", "lookup", "free"} /\ pc[t] = "insert"
      BY <2>6, <2>12 DEF LiveInsert, Goto, MapsInv, ControlInv, TypeInv, TypeOK
    <3>2. /\ DOMAIN live' = DOMAIN live \cup {reg[t].ptr}
          /\ live'[reg[t].ptr] = [id |-> reg[t].id, size |-> reg[t].size]
          /\ \A p \in DOMAIN live : p # reg[t].ptr => live'[p] = live[p]
      BY <2>12, LiveInsertIs
    <3>3. \A p \in DOMAIN live' : live'[p].id \in DOMAIN callsites
      BY <2>4, <3>1, <3>2
    <3> QED
      BY <2>3, <2>4, <2>5, <2>7, <3>1, <3>3 DEF IdInv
  <2>13. CASE LiveRemove(t)
    <3>1. /\ callsites' = callsites /\ callsiteMap' = callsiteMap /\ nextId' = nextId
          /\ pc'[t] = "uncount"
      BY <2>6, <2>13 DEF LiveRemove, Goto
    <3>2. reg'[t].gone = {live[p] : p \in {reg[t].old} \cap DOMAIN live}
      BY <2>6, <2>13 DEF LiveRemove, Regs
    <3>3. \A e \in reg'[t].gone : e.id \in DOMAIN callsites
      BY <2>4, <3>2
    <3>4. /\ DOMAIN live' = DOMAIN live \ {reg[t].old}
          /\ \A p \in DOMAIN live' : live'[p] = live[p]
      BY <2>13, LiveRemoveIs
    <3> QED
      BY <2>3, <2>4, <2>5, <3>1, <3>3, <3>4 DEF IdInv
  <2>14. CASE CountDealloc(t)
    <3>1. /\ live' = live /\ callsiteMap' = callsiteMap /\ nextId' = nextId
          /\ pc'[t] \in {"idle", "report", "lookup", "free"}
      BY <2>6, <2>14 DEF CountDealloc, Goto, MapsInv, ControlInv, TypeInv, TypeOK
    <3>2. DOMAIN callsites' = DOMAIN callsites
      BY <2>14, CountDeallocIs DEF MapsInv, ControlInv
    <3> QED
      BY <2>3, <2>4, <2>5, <2>7, <3>1, <3>2 DEF IdInv
  <2>15. CASE SystemFree(t)
    <3>1. /\ live' = live /\ callsiteMap' = callsiteMap /\ nextId' = nextId
          /\ callsites' = callsites /\ pc'[t] \in {"idle", "report"}
      BY <2>6, <2>15, HomeType DEF SystemFree, Goto, recordVars
    <3> QED
      BY <2>3, <2>4, <2>5, <2>7, <3>1 DEF IdInv
  <2> QED
    BY <2>8, <2>9, <2>10, <2>11, <2>12, <2>13, <2>14, <2>15, RecordingSteps
<1> QED
  BY <1>1, <1>2

(* The steps of reset keep them. *)
LEMMA ResettingMaps ==
    ASSUME MapsInv, ControlInv', NEW t \in Threads, StepOf(t), pc[t] \in Resetting
    PROVE  ResetInv' /\ IdInv'
<1>1. CASE mixed'
  BY <1>1 DEF ResetInv, IdInv
<1>2. CASE ~mixed'
  <2>1. Control(t) /\ ~mixed
    BY <1>2, StepControl DEF MapsInv, Control, ApartEffect
  <2>2. /\ pc \in [Threads -> Labels] /\ reg \in [Threads -> Regs]
        /\ DOMAIN live \subseteq Ptrs
    BY DEF MapsInv, ControlInv, TypeInv, TypeOK, Regs
  <2>3. \A u \in Threads : u # t => pc'[u] = pc[u] /\ reg'[u] = reg[u]
    BY <2>1 DEF Control, Local
  <2>4. pc'[t] \in Resetting \cup {"idle"}
    BY <2>2, ResettingSteps
       DEF ResetShard, ResetMap, ResetSites, ResetId, Goto, Resetting
  <2>5. \A u \in Threads : pc'[u] \notin Recording
    <3>1. \A u \in Threads : pc[u] \notin Recording
      BY <2>1 DEF MapsInv, ControlInv, ApartInv
    <3>2. pc'[t] \notin Recording
      BY <2>4 DEF Recording, Resetting
    <3> QED
      BY <2>3, <3>1, <3>2
  <2>6. \A u \in Threads : /\ reg'[u].gone = {}
                           /\ pc'[u] \notin {"site_write", "count", "insert"}
    BY <2>5 DEF ControlInv, GoneInv, Recording
  <2>7. /\ \A id \in DOMAIN callsites : id < nextId
        /\ \A s \in DOMAIN callsiteMap : callsiteMap[s] \in DOMAIN callsites
        /\ \A p \in DOMAIN live : live[p].id \in DOMAIN callsites
    BY <2>1 DEF MapsInv, IdInv
  <2>8. \A u \in Threads :
           /\ pc[u] = "reset_shard" =>
                 \A p \in DOMAIN live : ShardOf[p] >= reg[u].shard
           /\ pc[u] \in {"reset_map", "reset_sites", "reset_id"} => DOMAIN live = {}
           /\ pc[u] \in {"reset_sites", "reset_id"} => DOMAIN callsiteMap = {}
           /\ pc[u] = "reset_id" => DOMAIN callsites = {}
    BY <2>1 DEF MapsInv, ResetInv
  <2>9. CASE ResetShard(t)
    <3>1. /\ callsiteMap' = callsiteMap /\ callsites' = callsites /\ nextId' = nextId
          /\ pc[t] = "reset_shard"
      BY <2>9 DEF ResetShard
    <3>2. /\ DOMAIN live' = {q \in DOMAIN live : ShardOf[q] # reg[t].shard}
          /\ \A p \in DOMAIN live' : live'[p] = live[p]
      BY <2>9 DEF ResetShard
    <3>3. /\ reg[t].shard \in Nat /\ reg'[t].shard = reg[t].shard + 1
          /\ \A p \in DOMAIN live : ShardOf[p] \in 0..(NumShards - 1)
      BY <2>2, <2>9, HeapAssumption DEF ResetShard, Regs
    <3>4. \A p \in DOMAIN live' : ShardOf[p] >= reg[t].shard + 1
      BY <2>8, <3>1, <3>2, <3>3
    <3>5. \/ pc'[t] = "reset_shard"
          \/ pc'[t] = "reset_map" /\ ~(reg[t].shard + 1 < NumShards)
      BY <2>2, <2>9 DEF ResetShard, Goto
    <3>6. pc'[t] = "reset_map" => DOMAIN live' = {}
      BY <3>2, <3>3, <3>4, <3>5, HeapAssumption
    <3>7. IdInv'
      BY <2>6, <2>7, <3>1, <3>2 DEF IdInv
    <3>8. ResetInv'
      BY <2>3, <2>8, <3>1, <3>2, <3>3, <3>4, <3>5, <3>6 DEF ResetInv
    <3> QED
      BY <3>7, <3>8
  <2>10. CASE ResetMap(t)
    <3>1. /\ live' = live /\ DOMAIN callsiteMap' = {} /\ callsites' = callsites
          /\ nextId' = nextId /\ pc[t] = "reset_map" /\ pc'[t] = "reset_sites"
          /\ reg' = reg
      BY <2>2, <2>10 DEF ResetMap, NoMap, Goto
    <3> QED
      BY <2>3, <2>6, <2>7, <2>8, <3>1 DEF IdInv, ResetInv
  <2>11. CASE ResetSites(t)
    <3>1. /\ live' = live /\ DOMAIN callsites' = {} /\ callsiteMap' = callsiteMap
          /\ nextId' = nextId /\ pc[t] = "reset_sites" /\ pc'[t] = "reset_id"
          /\ reg' = reg
      BY <2>2, <2>11 DEF ResetSites, NoMap, Goto
    <3> QED
      BY <2>3, <2>6, <2>7, <2>8, <3>1 DEF IdInv, ResetInv
  <2>12. CASE ResetId(t)
    <3>1. /\ live' = live /\ callsites' = callsites /\ callsiteMap' = callsiteMap
          /\ pc[t] = "reset_id" /\ pc'[t] = "idle"
      BY <2>2, <2>12 DEF ResetId, Goto
    <3>2. DOMAIN callsites = {}
      BY <2>8, <3>1
    <3>3. IdInv'
      BY <2>6, <2>7, <3>1, <3>2 DEF IdInv
    <3>4. ResetInv'
      BY <2>3, <2>8, <3>1 DEF ResetInv
    <3> QED
      BY <3>3, <3>4
  <2> QED
    BY <2>9, <2>10, <2>11, <2>12, ResettingSteps
<1> QED
  BY <1>1, <1>2

(* The invariants of the maps hold at first ... *)
LEMMA MapsInit == Init => MapsInv
<1> SUFFICES ASSUME Init PROVE MapsInv
  OBVIOUS
<1>1. DOMAIN live = {} /\ DOMAIN callsiteMap = {} /\ DOMAIN callsites = {}
  BY DEF Init, NoMap
<1>2. \A t \in Threads : pc[t] = "idle" /\ reg[t].gone = {}
  BY DEF Init, NoReg
<1>3. ResetInv /\ IdInv
  BY <1>1, <1>2 DEF ResetInv, IdInv
<1> QED
  BY <1>3, ControlInit DEF MapsInv

(* ... and every step keeps them. *)
LEMMA MapsStep == MapsInv /\ [Next]_vars => MapsInv'
<1> SUFFICES ASSUME MapsInv, [Next]_vars PROVE MapsInv'
  OBVIOUS
<1>1. ControlInv'
  BY ControlStep DEF MapsInv
<1>2. CASE UNCHANGED vars
  BY <1>1, <1>2 DEF vars, recordVars, callVars, MapsInv, ResetInv, IdInv
<1>3. ASSUME NEW t \in Threads, StepOf(t) PROVE MapsInv'
  BY <1>1, <1>3, CallMaps, RecordingMaps, ResettingMaps DEF MapsInv
<1> QED
  BY <1>2, <1>3, NextIsStepOf

-----------------------------------------------------------------------------
(* The sums: what one step changes of them *)

(* The values that LiveBytes, LeavingBytes and ComingBytes add up. *)
LiveFun(m, id) == [p \in {q \in DOMAIN m : m[q].id = id} |-> m[p].size]
LeaveFun(r, id) ==
    [t \in {u \in Threads : \E e \in r[u].gone : e.id = id} |->
        (CHOOSE e \in r[t].gone : TRUE).size]
ComeFun(c, r, id) ==
    [t \in {u \in Threads : c[u] = "insert" /\ r[u].id = id} |-> r[t].size]

(* What one address, and one thread, contribute. *)
LiveAt(m, p, id) == IF p \in DOMAIN m /\ m[p].id = id THEN m[p].size ELSE 0
LeaveAt(x, id) ==
    IF \E e \in x.gone : e.id = id THEN (CHOOSE e \in x.gone : TRUE).size ELSE 0
ComeAt(label, x, id) == IF label = "insert" /\ x.id = id THEN x.size ELSE 0

IsLiveMap(m) == DOMAIN m \subseteq Ptrs /\ \A p \in DOMAIN m : m[p] \in LiveEntries

(* The sums are finite sums of natural numbers. *)
LEMMA LiveFunType ==
    ASSUME NEW m, IsLiveMap(m), NEW id
    PROVE  /\ IsFiniteSet(DOMAIN LiveFun(m, id))
           /\ \A p \in DOMAIN LiveFun(m, id) : LiveFun(m, id)[p] \in Nat
           /\ SumFunction(LiveFun(m, id)) \in Nat
<1>1. DOMAIN LiveFun(m, id) \in SUBSET Ptrs
  BY DEF LiveFun, IsLiveMap
<1>2. IsFiniteSet(DOMAIN LiveFun(m, id))
  BY <1>1, FS_Subset, HeapAssumption
<1>3. \A p \in DOMAIN LiveFun(m, id) : LiveFun(m, id)[p] \in Nat
  BY DEF LiveFun, IsLiveMap, LiveEntries
<1> QED
  BY <1>2, <1>3, SumNat DEF SumFunction

(* So are those of the records that threads hold ... *)
LEMMA LeaveFunType ==
    ASSUME NEW r \in [Threads -> Regs], NEW id
    PROVE  /\ IsFiniteSet(DOMAIN LeaveFun(r, id))
           /\ \A t \in DOMAIN LeaveFun(r, id) : LeaveFun(r, id)[t] \in Nat
           /\ SumFunction(LeaveFun(r, id)) \in Nat
<1>1. DOMAIN LeaveFun(r, id) \in SUBSET Threads
  BY DEF LeaveFun
<1>2. IsFiniteSet(DOMAIN LeaveFun(r, id))
  BY <1>1, FS_Subset, HeapAssumption
<1>3. ASSUME NEW t \in DOMAIN LeaveFun(r, id)
      PROVE  LeaveFun(r, id)[t] \in Nat
  <2>1. t \in Threads /\ r[t].gone # {} /\ r[t].gone \subseteq LiveEntries
    BY DEF LeaveFun, Regs
  <2>2. (CHOOSE e \in r[t].gone : TRUE) \in r[t].gone
    BY <2>1
  <2>3. (CHOOSE e \in r[t].gone : TRUE).size \in Nat
    BY <2>1, <2>2 DEF LiveEntries
  <2> QED
    BY <2>3 DEF LeaveFun
<1> QED
  BY <1>2, <1>3, SumNat DEF SumFunction

(* ... and those that are counted and not yet in their shard. *)
LEMMA ComeFunType ==
    ASSUME NEW c, NEW r \in [Threads -> Regs], NEW id
    PROVE  /\ IsFiniteSet(DOMAIN ComeFun(c, r, id))
           /\ \A t \in DOMAIN ComeFun(c, r, id) : ComeFun(c, r, id)[t] \in Nat
           /\ SumFunction(ComeFun(c, r, id)) \in Nat
<1>1. DOMAIN ComeFun(c, r, id) \in SUBSET Threads
  BY DEF ComeFun
<1>2. IsFiniteSet(DOMAIN ComeFun(c, r, id))
  BY <1>1, FS_Subset, HeapAssumption
<1>3. \A t \in DOMAIN ComeFun(c, r, id) : ComeFun(c, r, id)[t] \in Nat
  BY DEF ComeFun, Regs
<1> QED
  BY <1>2, <1>3, SumNat DEF SumFunction

(* Changing the shards at one address. *)
LEMMA LiveChange ==
    ASSUME NEW m, IsLiveMap(m), NEW n, IsLiveMap(n), NEW id, NEW x,
           DOMAIN m \ {x} = DOMAIN n \ {x},
           \A p \in DOMAIN m \ {x} : m[p] = n[p]
    PROVE  SumFunction(LiveFun(n, id)) =
              SumFunction(LiveFun(m, id)) - LiveAt(m, x, id) + LiveAt(n, x, id)
<1> DEFINE f == LiveFun(m, id)
           g == LiveFun(n, id)
<1>1. /\ IsFiniteSet(DOMAIN f) /\ \A p \in DOMAIN f : f[p] \in Int
      /\ IsFiniteSet(DOMAIN g) /\ \A p \in DOMAIN g : g[p] \in Int
  BY LiveFunType
<1>2. DOMAIN f \ {x} = DOMAIN g \ {x} /\ \A p \in DOMAIN f \ {x} : f[p] = g[p]
  BY DEF LiveFun
<1>3. ValueAt(f, x) = LiveAt(m, x, id) /\ ValueAt(g, x) = LiveAt(n, x, id)
  BY DEF LiveFun, LiveAt, ValueAt
<1> HIDE DEF f, g
<1>4. SumFunction(g) = SumFunction(f) - ValueAt(f, x) + ValueAt(g, x)
  BY <1>1, <1>2, SumOnePoint
<1> QED
  BY <1>3, <1>4 DEF f, g

(* Changing the local variables of one thread. *)
LEMMA LeaveChange ==
    ASSUME NEW r \in [Threads -> Regs], NEW s \in [Threads -> Regs], NEW id,
           NEW t \in Threads, \A u \in Threads \ {t} : r[u] = s[u]
    PROVE  SumFunction(LeaveFun(s, id)) =
              SumFunction(LeaveFun(r, id)) - LeaveAt(r[t], id) + LeaveAt(s[t], id)
<1> DEFINE f == LeaveFun(r, id)
           g == LeaveFun(s, id)
<1>1. /\ IsFiniteSet(DOMAIN f) /\ \A p \in DOMAIN f : f[p] \in Int
      /\ IsFiniteSet(DOMAIN g) /\ \A p \in DOMAIN g : g[p] \in Int
  BY LeaveFunType
<1>2. DOMAIN f \ {t} = DOMAIN g \ {t} /\ \A p \in DOMAIN f \ {t} : f[p] = g[p]
  BY DEF LeaveFun
<1>3. ValueAt(f, t) = LeaveAt(r[t], id) /\ ValueAt(g, t) = LeaveAt(s[t], id)
  BY DEF LeaveFun, LeaveAt, ValueAt
<1> HIDE DEF f, g
<1>4. SumFunction(g) = SumFunction(f) - ValueAt(f, t) + ValueAt(g, t)
  BY <1>1, <1>2, SumOnePoint
<1> QED
  BY <1>3, <1>4 DEF f, g

(* ... and for the records that are counted and not yet in their shard. *)
LEMMA ComeChange ==
    ASSUME NEW r \in [Threads -> Regs], NEW s \in [Threads -> Regs],
           NEW c, NEW d, NEW id, NEW t \in Threads,
           \A u \in Threads \ {t} : r[u] = s[u] /\ c[u] = d[u]
    PROVE  SumFunction(ComeFun(d, s, id)) =
              SumFunction(ComeFun(c, r, id))
                 - ComeAt(c[t], r[t], id) + ComeAt(d[t], s[t], id)
<1> DEFINE f == ComeFun(c, r, id)
           g == ComeFun(d, s, id)
<1>1. /\ IsFiniteSet(DOMAIN f) /\ \A p \in DOMAIN f : f[p] \in Int
      /\ IsFiniteSet(DOMAIN g) /\ \A p \in DOMAIN g : g[p] \in Int
  BY ComeFunType
<1>2. DOMAIN f \ {t} = DOMAIN g \ {t} /\ \A p \in DOMAIN f \ {t} : f[p] = g[p]
  BY DEF ComeFun
<1>3. ValueAt(f, t) = ComeAt(c[t], r[t], id) /\ ValueAt(g, t) = ComeAt(d[t], s[t], id)
  BY DEF ComeFun, ComeAt, ValueAt
<1> HIDE DEF f, g
<1>4. SumFunction(g) = SumFunction(f) - ValueAt(f, t) + ValueAt(g, t)
  BY <1>1, <1>2, SumOnePoint
<1> QED
  BY <1>3, <1>4 DEF f, g

-----------------------------------------------------------------------------
(* The counters account for the records *)

(* DueBytes in terms of the three sums. *)
LEMMA DueIs ==
    ASSUME NEW id
    PROVE  /\ DueBytes(id) = SumFunction(LiveFun(live, id))
                 + SumFunction(LeaveFun(reg, id)) + SumFunction(ComeFun(pc, reg, id))
           /\ DueBytes(id)' = SumFunction(LiveFun(live', id))
                 + SumFunction(LeaveFun(reg', id)) + SumFunction(ComeFun(pc', reg', id))
  BY DEF DueBytes, LiveBytes, LeavingBytes, ComingBytes, LiveFun, LeaveFun, ComeFun

(* What one address and one thread contribute are natural numbers. *)
LEMMA ShareType ==
    ASSUME NEW m, IsLiveMap(m), NEW p, NEW x \in Regs, NEW label, NEW id
    PROVE  /\ LiveAt(m, p, id) \in Nat /\ LeaveAt(x, id) \in Nat
           /\ ComeAt(label, x, id) \in Nat
<1>1. LiveAt(m, p, id) \in Nat
  BY DEF LiveAt, IsLiveMap, LiveEntries
<1>2. LeaveAt(x, id) \in Nat
  <2>1. CASE \E e \in x.gone : e.id = id
    <3>1. (CHOOSE e \in x.gone : TRUE) \in x.gone /\ x.gone \subseteq LiveEntries
      BY <2>1 DEF Regs
    <3>2. (CHOOSE e \in x.gone : TRUE).size \in Nat
      BY <3>1 DEF LiveEntries
    <3> QED
      BY <2>1, <3>2 DEF LeaveAt
  <2>2. CASE ~\E e \in x.gone : e.id = id
    BY <2>2 DEF LeaveAt
  <2> QED
    BY <2>1, <2>2
<1>3. ComeAt(label, x, id) \in Nat
  BY DEF ComeAt, Regs
<1> QED
  BY <1>1, <1>2, <1>3

(* What a step of t that changes the shards at x only adds to DueBytes. *)
LEMMA DueChange ==
    ASSUME TypeInv, TypeInv', NEW t \in Threads, Local(t), NEW x, NEW id,
           DOMAIN live \ {x} = DOMAIN live' \ {x},
           \A p \in DOMAIN live \ {x} : live[p] = live'[p]
    PROVE  /\ DueBytes(id) \in Nat /\ DueBytes(id)' \in Nat
           /\ LiveAt(live, x, id) \in Nat /\ LiveAt(live', x, id) \in Nat
           /\ LeaveAt(reg[t], id) \in Nat /\ LeaveAt(reg'[t], id) \in Nat
           /\ ComeAt(pc[t], reg[t], id) \in Nat /\ ComeAt(pc'[t], reg'[t], id) \in Nat
           /\ DueBytes(id)' =
                 DueBytes(id) - LiveAt(live, x, id) + LiveAt(live', x, id)
                    - LeaveAt(reg[t], id) + LeaveAt(reg'[t], id)
                    - ComeAt(pc[t], reg[t], id) + ComeAt(pc'[t], reg'[t], id)
<1>1. IsLiveMap(live) /\ IsLiveMap(live')
  BY DEF TypeInv, TypeOK, IsLiveMap
<1>2. reg \in [Threads -> Regs] /\ reg' \in [Threads -> Regs]
  BY DEF TypeInv, TypeOK, Regs
<1>3. /\ LiveAt(live, x, id) \in Nat /\ LiveAt(live', x, id) \in Nat
      /\ LeaveAt(reg[t], id) \in Nat /\ LeaveAt(reg'[t], id) \in Nat
      /\ ComeAt(pc[t], reg[t], id) \in Nat /\ ComeAt(pc'[t], reg'[t], id) \in Nat
  BY <1>1, <1>2, ShareType
<1> DEFINE L == SumFunction(LiveFun(live, id))
           G == SumFunction(LeaveFun(reg, id))
           C == SumFunction(ComeFun(pc, reg, id))
           L1 == SumFunction(LiveFun(live', id))
           G1 == SumFunction(LeaveFun(reg', id))
           C1 == SumFunction(ComeFun(pc', reg', id))
<1>4. L \in Nat /\ G \in Nat /\ C \in Nat /\ L1 \in Nat /\ G1 \in Nat /\ C1 \in Nat
  BY <1>1, <1>2, LiveFunType, LeaveFunType, ComeFunType
<1>5. DueBytes(id) = L + G + C /\ DueBytes(id)' = L1 + G1 + C1
  BY DueIs
<1>6. L1 = L - LiveAt(live, x, id) + LiveAt(live', x, id)
  BY <1>1, LiveChange
<1>7. G1 = G - LeaveAt(reg[t], id) + LeaveAt(reg'[t], id)
  BY <1>2, LeaveChange DEF Local
<1>8. C1 = C - ComeAt(pc[t], reg[t], id) + ComeAt(pc'[t], reg'[t], id)
  BY <1>2, ComeChange DEF Local
<1> HIDE DEF L, G, C, L1, G1, C1
<1>9. DueBytes(id) \in Nat /\ DueBytes(id)' \in Nat
  BY <1>4, <1>5
<1> QED
  BY <1>3, <1>4, <1>5, <1>6, <1>7, <1>8, <1>9

(* A step that leaves the shards alone and holds no record afterwards or   *)
(* before changes nothing of DueBytes.                                     *)
LEMMA DueSame ==
    ASSUME TypeInv, TypeInv', NEW t \in Threads, Local(t), NEW id,
           live' = live, reg[t].gone = {}, reg'[t].gone = {},
           pc[t] # "insert", pc'[t] # "insert"
    PROVE  DueBytes(id)' = DueBytes(id) /\ DueBytes(id) \in Nat
<1> DEFINE x == CHOOSE p \in Ptrs : TRUE
<1>1. /\ LeaveAt(reg[t], id) = 0 /\ LeaveAt(reg'[t], id) = 0
      /\ ComeAt(pc[t], reg[t], id) = 0 /\ ComeAt(pc'[t], reg'[t], id) = 0
      /\ LiveAt(live', x, id) = LiveAt(live, x, id)
  BY DEF LeaveAt, ComeAt
<1>2. /\ DueBytes(id) \in Nat /\ DueBytes(id)' \in Nat
      /\ LiveAt(live, x, id) \in Nat
      /\ DueBytes(id)' =
            DueBytes(id) - LiveAt(live, x, id) + LiveAt(live', x, id)
               - LeaveAt(reg[t], id) + LeaveAt(reg'[t], id)
               - ComeAt(pc[t], reg[t], id) + ComeAt(pc'[t], reg'[t], id)
  BY DueChange
<1> QED
  BY <1>1, <1>2

(* The bytes of the record, if any, that putting t's record replaces. *)
Replaced(t, id) ==
    IF pc[t] = "insert" THEN LiveAt(live, reg[t].ptr, id) ELSE 0

(* What a step does to the difference between counter and account. *)
Balance(id) == callsites[id].inuse - DueBytes(id)

Balanced(t) ==
    \A id \in DOMAIN callsites' :
        \/ id \in DOMAIN callsites /\ Balance(id)' = Balance(id) + Replaced(t, id)
        \/ id \notin DOMAIN callsites /\ Balance(id)' = 0

(* Steps that touch neither shards nor counters. *)
LEMMA IdleBalance ==
    ASSUME TypeInv, TypeInv', NEW t \in Threads, Local(t),
           live' = live, callsites' = callsites, reg[t].gone = {},
           reg'[t].gone = {}, pc[t] # "insert", pc'[t] # "insert"
    PROVE  Balanced(t)
<1> SUFFICES ASSUME NEW id \in DOMAIN callsites
             PROVE  Balance(id)' = Balance(id) + Replaced(t, id)
  BY DEF Balanced
<1>1. DueBytes(id)' = DueBytes(id) /\ DueBytes(id) \in Nat
  BY DueSame
<1>2. callsites[id].inuse \in Int
  BY DEF TypeInv, TypeOK
<1>3. Replaced(t, id) = 0
  BY DEF Replaced
<1> QED
  BY <1>1, <1>2, <1>3 DEF Balance

(* or_insert_with: a fresh id has nothing to account for. *)
LEMMA InsertBalance ==
    ASSUME MapsInv, MapsInv', ~mixed, NEW t \in Threads, SiteInsert(t)
    PROVE  Balanced(t)
<1>1. TypeInv /\ TypeInv' /\ ~mixed'
  BY DEF MapsInv, ControlInv, SiteInsert, callVars
<1>2. /\ pc \in [Threads -> Labels] /\ pc[t] = "site_write" /\ pc'[t] = "count"
      /\ live' = live /\ reg' = reg /\ Local(t)
  BY <1>1 DEF SiteInsert, Goto, Local, TypeInv, TypeOK
<1>3. reg[t].gone = {}
  BY <1>2 DEF MapsInv, ControlInv, GoneInv
<1>4. /\ DOMAIN callsites' = DOMAIN callsites \cup {reg[t].id}
      /\ callsites'[reg[t].id] = [ips |-> reg[t].site, alloc |-> 0, inuse |-> 0]
      /\ \A i \in DOMAIN callsites : i # reg[t].id => callsites'[i] = callsites[i]
  BY SiteInsertIs
<1>5. /\ reg[t].id \notin DOMAIN callsites
      /\ \A p \in DOMAIN live : live[p].id \in DOMAIN callsites
      /\ \A u \in Threads :
            /\ pc[u] \in {"count", "insert"} => reg[u].id \in DOMAIN callsites
            /\ \A e \in reg[u].gone : e.id \in DOMAIN callsites
  BY <1>2 DEF MapsInv, IdInv
<1>6. ASSUME NEW id
      PROVE  DueBytes(id)' = DueBytes(id) /\ DueBytes(id) \in Nat
  BY <1>1, <1>2, <1>3, DueSame
<1>7. ASSUME NEW i, i = reg[t].id PROVE DueBytes(i) = 0
  <2>1. /\ DOMAIN LiveFun(live, i) = {} /\ DOMAIN LeaveFun(reg, i) = {}
        /\ DOMAIN ComeFun(pc, reg, i) = {}
    BY <1>2, <1>5, <1>7 DEF LiveFun, LeaveFun, ComeFun
  <2>2. /\ SumFunction(LiveFun(live, i)) = 0 /\ SumFunction(LeaveFun(reg, i)) = 0
        /\ SumFunction(ComeFun(pc, reg, i)) = 0
    BY <2>1, SumEmpty DEF SumFunction
  <2> QED
    BY <2>2, DueIs
<1>8. ASSUME NEW i, i = reg[t].id PROVE Balance(i)' = 0
  <2>1. callsites'[i].inuse = 0
    BY <1>4, <1>8
  <2>2. DueBytes(i)' = 0
    BY <1>6, <1>7, <1>8
  <2> QED
    BY <2>1, <2>2 DEF Balance
<1>9. ASSUME NEW id \in DOMAIN callsites
      PROVE  Balance(id)' = Balance(id) + Replaced(t, id)
  <2>1. callsites'[id] = callsites[id] /\ callsites[id].inuse \in Int
    BY <1>1, <1>4, <1>5 DEF TypeInv, TypeOK
  <2>2. Replaced(t, id) = 0
    BY <1>2 DEF Replaced
  <2> QED
    BY <1>6, <2>1, <2>2 DEF Balance
<1> QED
  BY <1>4, <1>5, <1>8, <1>9 DEF Balanced

(* Counting a new block moves it into the account. *)
LEMMA CountAllocBalance ==
    ASSUME TypeInv, TypeInv', GoneInv, NEW t \in Threads, CountAlloc(t),
           reg[t].id \in DOMAIN callsites
    PROVE  Balanced(t)
<1>1. /\ pc[t] = "count" /\ pc'[t] = "insert" /\ reg' = reg /\ live' = live
      /\ Local(t) /\ reg[t].gone = {}
      /\ reg[t].id \in Nat /\ reg[t].size \in Nat
  BY DEF CountAlloc, Goto, Local, TypeInv, TypeOK, GoneInv
<1>2. /\ DOMAIN callsites' = DOMAIN callsites
      /\ \A i \in DOMAIN callsites :
            callsites'[i].inuse =
               callsites[i].inuse + (IF i = reg[t].id THEN reg[t].size ELSE 0)
  <2>1. Bump(reg[t].id, reg[t].size, reg[t].size)
    BY DEF CountAlloc
  <2>2. reg[t].size \in Int
    BY <1>1
  <2> QED
    BY <1>1, <2>1, <2>2, BumpIs
<1> SUFFICES ASSUME NEW id \in DOMAIN callsites
             PROVE  Balance(id)' = Balance(id) + Replaced(t, id)
  BY <1>2 DEF Balanced
<1> DEFINE n == IF id = reg[t].id THEN reg[t].size ELSE 0
           x == reg[t].ptr
<1>3. n \in Nat /\ callsites[id].inuse \in Int /\ Replaced(t, id) = 0
  BY <1>1 DEF TypeInv, TypeOK, Replaced
<1>4. callsites'[id].inuse = callsites[id].inuse + n
  BY <1>2
<1>5. /\ LeaveAt(reg[t], id) = 0 /\ LeaveAt(reg'[t], id) = 0
      /\ ComeAt(pc[t], reg[t], id) = 0 /\ ComeAt(pc'[t], reg'[t], id) = n
      /\ LiveAt(live', x, id) = LiveAt(live, x, id)
  BY <1>1 DEF LeaveAt, ComeAt
<1>6. /\ DueBytes(id) \in Nat /\ DueBytes(id)' \in Nat
      /\ LiveAt(live, x, id) \in Nat
      /\ DueBytes(id)' =
            DueBytes(id) - LiveAt(live, x, id) + LiveAt(live', x, id)
               - LeaveAt(reg[t], id) + LeaveAt(reg'[t], id)
               - ComeAt(pc[t], reg[t], id) + ComeAt(pc'[t], reg'[t], id)
  BY <1>1, DueChange
<1> HIDE DEF n, x
<1>7. DueBytes(id)' = DueBytes(id) + n
  BY <1>3, <1>5, <1>6
<1> QED
  BY <1>3, <1>4, <1>6, <1>7 DEF Balance

(* Putting the record into its shard moves it, and drops what it replaces. *)
LEMMA LiveInsertBalance ==
    ASSUME TypeInv, TypeInv', GoneInv, NEW t \in Threads, LiveInsert(t)
    PROVE  Balanced(t)
<1>1. /\ pc[t] = "insert" /\ pc'[t] # "insert" /\ reg'[t] = NoReg
      /\ callsites' = callsites /\ Local(t) /\ reg[t].gone = {}
      /\ reg[t].id \in Nat /\ reg[t].size \in Nat
  BY DEF LiveInsert, Goto, Forget, Local, TypeInv, TypeOK, GoneInv
<1>2. /\ DOMAIN live' = DOMAIN live \cup {reg[t].ptr}
      /\ live'[reg[t].ptr] = [id |-> reg[t].id, size |-> reg[t].size]
      /\ \A p \in DOMAIN live : p # reg[t].ptr => live'[p] = live[p]
  BY LiveInsertIs
<1> SUFFICES ASSUME NEW id \in DOMAIN callsites
             PROVE  Balance(id)' = Balance(id) + Replaced(t, id)
  BY <1>1 DEF Balanced
<1> DEFINE n == IF id = reg[t].id THEN reg[t].size ELSE 0
           x == reg[t].ptr
<1>3. n \in Nat /\ callsites[id].inuse \in Int
  BY <1>1 DEF TypeInv, TypeOK
<1>4. Replaced(t, id) = LiveAt(live, x, id)
  BY <1>1 DEF Replaced
<1>5. /\ LeaveAt(reg[t], id) = 0 /\ LeaveAt(reg'[t], id) = 0
      /\ ComeAt(pc[t], reg[t], id) = n /\ ComeAt(pc'[t], reg'[t], id) = 0
  BY <1>1 DEF LeaveAt, ComeAt, NoReg
<1>6. LiveAt(live', x, id) = n
  BY <1>2 DEF LiveAt
<1>7. /\ DueBytes(id) \in Nat /\ DueBytes(id)' \in Nat
      /\ LiveAt(live, x, id) \in Nat
      /\ DueBytes(id)' =
            DueBytes(id) - LiveAt(live, x, id) + LiveAt(live', x, id)
               - LeaveAt(reg[t], id) + LeaveAt(reg'[t], id)
               - ComeAt(pc[t], reg[t], id) + ComeAt(pc'[t], reg'[t], id)
  <2>1. /\ DOMAIN live \ {x} = DOMAIN live' \ {x}
        /\ \A p \in DOMAIN live \ {x} : live[p] = live'[p]
    BY <1>2
  <2> HIDE DEF x
  <2> QED
    BY <1>1, <2>1, DueChange
<1> HIDE DEF n, x
<1>8. DueBytes(id)' = DueBytes(id) - LiveAt(live, x, id)
  BY <1>3, <1>5, <1>6, <1>7
<1> QED
  BY <1>1, <1>3, <1>4, <1>7, <1>8 DEF Balance

(* Taking the record out of its shard only moves it. *)
LEMMA LiveRemoveBalance ==
    ASSUME TypeInv, TypeInv', GoneInv, NEW t \in Threads, LiveRemove(t)
    PROVE  Balanced(t)
<1>1. /\ pc[t] = "remove" /\ pc'[t] = "uncount" /\ callsites' = callsites
      /\ Local(t) /\ reg[t].gone = {}
      /\ reg'[t].gone = {live[p] : p \in {reg[t].old} \cap DOMAIN live}
  BY DEF LiveRemove, Goto, Local, TypeInv, TypeOK, GoneInv
<1>2. /\ DOMAIN live' = DOMAIN live \ {reg[t].old}
      /\ \A p \in DOMAIN live' : live'[p] = live[p]
  BY LiveRemoveIs
<1> SUFFICES ASSUME NEW id \in DOMAIN callsites
             PROVE  Balance(id)' = Balance(id) + Replaced(t, id)
  BY <1>1 DEF Balanced
<1> DEFINE x == reg[t].old
<1>3. callsites[id].inuse \in Int /\ Replaced(t, id) = 0
  BY <1>1 DEF TypeInv, TypeOK, Replaced
<1>4. /\ LeaveAt(reg[t], id) = 0 /\ LiveAt(live', x, id) = 0
      /\ ComeAt(pc[t], reg[t], id) = 0 /\ ComeAt(pc'[t], reg'[t], id) = 0
  BY <1>1, <1>2 DEF LeaveAt, ComeAt, LiveAt
<1>5. LeaveAt(reg'[t], id) = LiveAt(live, x, id)
  <2>1. CASE x \in DOMAIN live
    <3>1. reg'[t].gone = {live[x]}
      BY <1>1, <2>1
    <3>2. (CHOOSE e \in reg'[t].gone : TRUE) = live[x]
      BY <3>1
    <3> QED
      BY <2>1, <3>1, <3>2 DEF LeaveAt, LiveAt
  <2>2. CASE x \notin DOMAIN live
    <3>1. reg'[t].gone = {}
      BY <1>1, <2>2
    <3> QED
      BY <2>2, <3>1 DEF LeaveAt, LiveAt
  <2> QED
    BY <2>1, <2>2
<1>6. /\ DueBytes(id) \in Nat /\ DueBytes(id)' \in Nat
      /\ LiveAt(live, x, id) \in Nat
      /\ DueBytes(id)' =
            DueBytes(id) - LiveAt(live, x, id) + LiveAt(live', x, id)
               - LeaveAt(reg[t], id) + LeaveAt(reg'[t], id)
               - ComeAt(pc[t], reg[t], id) + ComeAt(pc'[t], reg'[t], id)
  <2>1. /\ DOMAIN live \ {x} = DOMAIN live' \ {x}
        /\ \A p \in DOMAIN live \ {x} : live[p] = live'[p]
    BY <1>2
  <2> HIDE DEF x
  <2> QED
    BY <1>1, <2>1, DueChange
<1> HIDE DEF x
<1>7. DueBytes(id)' = DueBytes(id)
  BY <1>4, <1>5, <1>6
<1> QED
  BY <1>1, <1>3, <1>6, <1>7 DEF Balance

(* Uncounting the record takes it out of the account. *)
LEMMA CountDeallocBalance ==
    ASSUME TypeInv, TypeInv', GoneInv, GoneInv', NEW t \in Threads, CountDealloc(t)
    PROVE  Balanced(t)
<1>1. /\ pc[t] = "uncount" /\ pc'[t] # "insert" /\ pc'[t] # "uncount"
      /\ live' = live /\ Local(t)
  BY DEF CountDealloc, Goto, Local, TypeInv, TypeOK
<1>2. reg'[t].gone = {} /\ \A e, f \in reg[t].gone : e = f
  BY <1>1 DEF GoneInv
<1>3. DOMAIN callsites' = DOMAIN callsites
  BY CountDeallocIs
<1> SUFFICES ASSUME NEW id \in DOMAIN callsites
             PROVE  Balance(id)' = Balance(id) + Replaced(t, id)
  BY <1>3 DEF Balanced
<1> DEFINE x == reg[t].ptr
<1>4. callsites[id].inuse \in Int /\ Replaced(t, id) = 0
  BY <1>1 DEF TypeInv, TypeOK, Replaced
<1>5. /\ LeaveAt(reg'[t], id) = 0 /\ LiveAt(live', x, id) = LiveAt(live, x, id)
      /\ ComeAt(pc[t], reg[t], id) = 0 /\ ComeAt(pc'[t], reg'[t], id) = 0
  BY <1>1, <1>2 DEF LeaveAt, ComeAt, LiveAt
<1>6. /\ DueBytes(id) \in Nat /\ DueBytes(id)' \in Nat
      /\ LiveAt(live, x, id) \in Nat /\ LeaveAt(reg[t], id) \in Nat
      /\ DueBytes(id)' =
            DueBytes(id) - LiveAt(live, x, id) + LiveAt(live', x, id)
               - LeaveAt(reg[t], id) + LeaveAt(reg'[t], id)
               - ComeAt(pc[t], reg[t], id) + ComeAt(pc'[t], reg'[t], id)
  BY <1>1, DueChange
<1>7. DueBytes(id)' = DueBytes(id) - LeaveAt(reg[t], id)
  <2> HIDE DEF x
  <2> QED
    BY <1>5, <1>6
<1>8. callsites'[id].inuse = callsites[id].inuse - LeaveAt(reg[t], id)
  <2>1. CASE reg[t].gone = {}
    <3>1. callsites' = callsites /\ LeaveAt(reg[t], id) = 0
      BY <2>1, CountDeallocIs DEF LeaveAt
    <3> QED
      BY <1>4, <3>1
  <2>2. CASE reg[t].gone # {}
    <3>1. PICK e \in reg[t].gone :
             callsites'[id].inuse =
                callsites[id].inuse + (IF id = e.id THEN -e.size ELSE 0)
      BY <2>2, CountDeallocIs
    <3>2. (CHOOSE f \in reg[t].gone : TRUE) = e
      BY <1>2
    <3>3. LeaveAt(reg[t], id) = IF id = e.id THEN e.size ELSE 0
      BY <1>2, <3>2 DEF LeaveAt
    <3>4. e.size \in Nat
      BY DEF TypeInv, TypeOK, LiveEntries
    <3> QED
      BY <1>4, <3>1, <3>3, <3>4
  <2> QED
    BY <2>1, <2>2
<1> QED
  BY <1>4, <1>6, <1>7, <1>8 DEF Balance

(* Every step but a reset's keeps the balance, but for what it replaces. *)
LEMMA StepBalance ==
    ASSUME MapsInv, MapsInv', ~mixed', NEW t \in Threads, StepOf(t),
           pc[t] \notin Resetting
    PROVE  Balanced(t)
<1>1. /\ TypeInv /\ TypeInv' /\ GoneInv /\ GoneInv'
      /\ Local(t) /\ ~mixed /\ pc \in [Threads -> Labels]
  BY StepControl DEF MapsInv, ControlInv, Control, ApartEffect, TypeInv, TypeOK
<1>2. ASSUME live' = live, callsites' = callsites,
             pc[t] \notin {"insert", "uncount"}, pc'[t] \notin {"insert", "uncount"}
      PROVE  Balanced(t)
  <2>1. reg[t].gone = {} /\ reg'[t].gone = {}
    BY <1>1, <1>2 DEF GoneInv
  <2> QED
    BY <1>1, <1>2, <2>1, IdleBalance
<1>3. CASE pc[t] \notin Recording
  <2>1. /\ UNCHANGED recordVars
        /\ pc'[t] \in {"idle", "report", "lookup", "remove", "free", "reset_shard"}
    BY <1>1, <1>3, CallLeads
  <2> QED
    BY <1>2, <1>3, <2>1 DEF recordVars, Recording
<1>4. CASE Lookup(t) \/ MapWrite(t) \/ SystemFree(t)
  <2>1. /\ live' = live /\ callsites' = callsites
        /\ pc[t] \notin {"insert", "uncount"} /\ pc'[t] \notin {"insert", "uncount"}
    BY <1>1, <1>4, HomeType DEF Lookup, MapWrite, SystemFree, Goto, recordVars
  <2> QED
    BY <1>2, <2>1
<1>5. CASE CountAlloc(t)
  <2>1. reg[t].id \in DOMAIN callsites
    BY <1>1, <1>5 DEF CountAlloc, MapsInv, IdInv
  <2> QED
    BY <1>1, <1>5, <2>1, CountAllocBalance
<1> QED
  BY <1>1, <1>3, <1>4, <1>5, RecordingSteps, InsertBalance, LiveInsertBalance,
     LiveRemoveBalance, CountDeallocBalance

(* A reset step clears records, never counters alone. *)
LEMMA ResetCover ==
    ASSUME MapsInv, MapsInv', CoverInv, ~mixed', NEW t \in Threads, StepOf(t),
           pc[t] \in Resetting
    PROVE  CoverInv'
<1>1. /\ TypeInv /\ TypeInv' /\ GoneInv /\ GoneInv' /\ Local(t) /\ ~mixed
      /\ pc \in [Threads -> Labels]
  BY StepControl DEF MapsInv, ControlInv, Control, ApartEffect, TypeInv, TypeOK
<1>2. pc'[t] \in Resetting \cup {"idle"}
  BY <1>1, ResettingSteps
     DEF ResetShard, ResetMap, ResetSites, ResetId, Goto, Resetting
<1>3. /\ reg[t].gone = {} /\ reg'[t].gone = {}
      /\ pc[t] # "insert" /\ pc'[t] # "insert"
  BY <1>1, <1>2 DEF GoneInv, Resetting
<1>4. CASE ResetSites(t)
  BY <1>4 DEF ResetSites, NoMap, CoverInv
<1>5. CASE ResetMap(t) \/ ResetId(t)
  <2>1. live' = live /\ callsites' = callsites
    BY <1>5 DEF ResetMap, ResetId
  <2>2. \A id \in DOMAIN callsites : DueBytes(id)' = DueBytes(id)
    BY <1>1, <1>3, <2>1, DueSame
  <2> QED
    BY <1>1, <2>1, <2>2 DEF CoverInv
<1>6. CASE ResetShard(t)
  <2>1. callsites' = callsites
    BY <1>6 DEF ResetShard
  <2>2. /\ DOMAIN live' \subseteq DOMAIN live
        /\ \A p \in DOMAIN live' : live'[p] = live[p]
    BY <1>6 DEF ResetShard
  <2> SUFFICES ASSUME NEW id \in DOMAIN callsites
               PROVE  callsites[id].inuse >= DueBytes(id)'
    BY <2>1 DEF CoverInv
  <2>3. callsites[id].inuse >= DueBytes(id) /\ callsites[id].inuse \in Int
    BY <1>1 DEF CoverInv, TypeInv, TypeOK
  <2>4. IsLiveMap(live) /\ IsLiveMap(live')
    BY <1>1 DEF TypeInv, TypeOK, IsLiveMap
  <2>5. reg \in [Threads -> Regs] /\ reg' \in [Threads -> Regs]
    BY <1>1 DEF TypeInv, TypeOK, Regs
  <2> DEFINE L == SumFunction(LiveFun(live, id))
             G == SumFunction(LeaveFun(reg, id))
             C == SumFunction(ComeFun(pc, reg, id))
             L1 == SumFunction(LiveFun(live', id))
             G1 == SumFunction(LeaveFun(reg', id))
             C1 == SumFunction(ComeFun(pc', reg', id))
  <2>6. L \in Nat /\ G \in Nat /\ C \in Nat /\ L1 \in Nat
    BY <2>4, <2>5, LiveFunType, LeaveFunType, ComeFunType
  <2>7. L1 <= L
    <3> DEFINE f == LiveFun(live, id)
               g == LiveFun(live', id)
    <3>1. DOMAIN g \in SUBSET DOMAIN f /\ \A p \in DOMAIN g : f[p] = g[p]
      BY <2>2 DEF LiveFun
    <3>2. /\ IsFiniteSet(DOMAIN f) /\ IsFiniteSet(DOMAIN g)
          /\ \A p \in DOMAIN f : f[p] \in Nat
      BY <2>4, LiveFunType
    <3> HIDE DEF f, g
    <3>3. SumFunctionOnSet(f, DOMAIN g) <= SumFunctionOnSet(f, DOMAIN f)
      BY <3>1, <3>2, SumSubset
    <3>4. SumFunctionOnSet(f, DOMAIN g) = SumFunctionOnSet(g, DOMAIN g)
      BY <3>1, <3>2, SumEqual
    <3>5. SumFunction(g) <= SumFunction(f)
      BY <3>3, <3>4 DEF SumFunction
    <3> QED
      BY <3>5 DEF f, g
  <2>8. G1 = G /\ C1 = C
    <3>1. /\ LeaveAt(reg[t], id) = 0 /\ LeaveAt(reg'[t], id) = 0
          /\ ComeAt(pc[t], reg[t], id) = 0 /\ ComeAt(pc'[t], reg'[t], id) = 0
      BY <1>3 DEF LeaveAt, ComeAt
    <3>4. \A u \in Threads \ {t} : reg[u] = reg'[u] /\ pc[u] = pc'[u]
      BY <1>1 DEF Local
    <3>2. G1 = G - LeaveAt(reg[t], id) + LeaveAt(reg'[t], id)
      BY <2>5, <3>4, LeaveChange
    <3>3. C1 = C - ComeAt(pc[t], reg[t], id) + ComeAt(pc'[t], reg'[t], id)
      BY <2>5, <3>4, ComeChange
    <3> HIDE DEF G, C, G1, C1
    <3> QED
      BY <2>6, <3>1, <3>2, <3>3
  <2>9. DueBytes(id) = L + G + C /\ DueBytes(id)' = L1 + G1 + C1
    BY DueIs
  <2> HIDE DEF L, G, C, L1, G1, C1
  <2> QED
    BY <2>3, <2>6, <2>7, <2>8, <2>9
<1> QED
  BY <1>4, <1>5, <1>6, ResettingSteps

(* DueBytes is a natural number, before and after a step. *)
LEMMA DueType ==
    ASSUME TypeInv, TypeInv', NEW id
    PROVE  DueBytes(id) \in Nat /\ DueBytes(id)' \in Nat
<1>1. /\ IsLiveMap(live) /\ IsLiveMap(live')
      /\ reg \in [Threads -> Regs] /\ reg' \in [Threads -> Regs]
  BY DEF TypeInv, TypeOK, Regs, IsLiveMap
<1>2. /\ SumFunction(LiveFun(live, id)) \in Nat
      /\ SumFunction(LeaveFun(reg, id)) \in Nat
      /\ SumFunction(ComeFun(pc, reg, id)) \in Nat
  BY <1>1, LiveFunType, LeaveFunType, ComeFunType
<1>3. /\ SumFunction(LiveFun(live', id)) \in Nat
      /\ SumFunction(LeaveFun(reg', id)) \in Nat
      /\ SumFunction(ComeFun(pc', reg', id)) \in Nat
  BY <1>1, LiveFunType, LeaveFunType, ComeFunType
<1>4. DueBytes(id) \in Nat
  BY <1>2, DueIs
<1>5. DueBytes(id)' \in Nat
  BY <1>3, DueIs
<1> QED
  BY <1>4, <1>5

(* The parts of the account are natural numbers. *)
LEMMA PartsType ==
    ASSUME TypeInv, NEW id
    PROVE  LiveBytes(id) \in Nat /\ LeavingBytes(id) \in Nat /\ ComingBytes(id) \in Nat
<1>1. IsLiveMap(live) /\ reg \in [Threads -> Regs]
  BY DEF TypeInv, TypeOK, Regs, IsLiveMap
<1>2. /\ LiveBytes(id) = SumFunction(LiveFun(live, id))
      /\ LeavingBytes(id) = SumFunction(LeaveFun(reg, id))
      /\ ComingBytes(id) = SumFunction(ComeFun(pc, reg, id))
  BY DEF LiveBytes, LeavingBytes, ComingBytes, LiveFun, LeaveFun, ComeFun
<1> QED
  BY <1>1, <1>2, LiveFunType, LeaveFunType, ComeFunType

(* The counters cover the records at first ... *)
LEMMA CountInit == Init => CountInv
<1> SUFFICES ASSUME Init PROVE CountInv
  OBVIOUS
<1>1. CoverInv
  BY DEF Init, CoverInv, NoMap
<1> QED
  BY <1>1, MapsInit DEF CountInv, MapsInv, ControlInv

(* ... and every step keeps them covered. *)
LEMMA CountStep == CountInv /\ [Next]_vars => CountInv'
<1> SUFFICES ASSUME CountInv, [Next]_vars PROVE CountInv'
  OBVIOUS
<1>1. MapsInv /\ MapsInv'
  BY MapsStep DEF CountInv, MapsInv, ControlInv
<1>2. CoverInv'
  <2>1. CASE UNCHANGED vars
    <3>1. /\ live' = live /\ reg' = reg /\ pc' = pc /\ callsites' = callsites
          /\ mixed' = mixed
      BY <2>1 DEF vars, recordVars, callVars
    <3>2. ASSUME NEW id PROVE DueBytes(id)' = DueBytes(id)
      BY <3>1, DueIs
    <3> QED
      BY <3>1, <3>2 DEF CountInv, CoverInv
  <2>2. ASSUME NEW t \in Threads, StepOf(t) PROVE CoverInv'
    <3>1. CASE mixed'
      BY <3>1 DEF CoverInv
    <3>2. CASE ~mixed' /\ pc[t] \in Resetting
      BY <1>1, <2>2, <3>2, ResetCover DEF CountInv
    <3>3. CASE ~mixed' /\ pc[t] \notin Resetting
      <4>1. Balanced(t) /\ ~mixed
        BY <1>1, <2>2, <3>3, StepBalance, StepControl
           DEF MapsInv, Control, ApartEffect
      <4>2. ASSUME NEW id \in DOMAIN callsites'
            PROVE  /\ callsites'[id].inuse \in Int /\ DueBytes(id)' \in Nat
                   /\ id \in DOMAIN callsites =>
                         callsites[id].inuse \in Int /\ DueBytes(id) \in Nat
        <5>2. DueBytes(id) \in Nat /\ DueBytes(id)' \in Nat
          BY <1>1, DueType DEF MapsInv, ControlInv
        <5> QED
          BY <1>1, <5>2 DEF MapsInv, ControlInv, TypeInv, TypeOK
      <4>3. ASSUME NEW id \in DOMAIN callsites'
            PROVE  callsites'[id].inuse >= DueBytes(id)'
        <5>1. CASE id \in DOMAIN callsites
          <6>1. Balance(id)' = Balance(id) + Replaced(t, id)
            BY <4>1, <5>1 DEF Balanced
          <6>2. Replaced(t, id) \in Nat
            BY <1>1 DEF Replaced, LiveAt, MapsInv, ControlInv, TypeInv, TypeOK,
                        LiveEntries
          <6>3. callsites[id].inuse >= DueBytes(id)
            BY <4>1, <5>1 DEF CountInv, CoverInv
          <6> QED
            BY <4>2, <5>1, <6>1, <6>2, <6>3 DEF Balance
        <5>2. CASE id \notin DOMAIN callsites
          <6>1. Balance(id)' = 0
            BY <4>1, <5>2 DEF Balanced
          <6> QED
            BY <4>2, <6>1 DEF Balance
        <5> QED
          BY <5>1, <5>2
      <4> QED
        BY <4>3 DEF CoverInv
    <3> QED
      BY <3>1, <3>2, <3>3
  <2> QED
    BY <2>1, <2>2, NextIsStepOf
<1> QED
  BY <1>1, <1>2 DEF CountInv, MapsInv, ControlInv

(* For every program, realloc, stop and reset included: inuse_bytes never  *)
(* falls short of the records, unless a reset overlapped a recording call. *)
THEOREM CountersCoverRecords == Spec => []InuseCoversLive
<1>1. CountInv => InuseCoversLive
  <2> SUFFICES ASSUME CountInv, ~mixed PROVE InuseCoversLive
    BY DEF InuseCoversLive
  <2>1. /\ \A p \in DOMAIN live : live[p].id \in DOMAIN callsites
        /\ \A s \in DOMAIN callsiteMap : callsiteMap[s] \in DOMAIN callsites
    BY DEF CountInv, IdInv
  <2>2. ASSUME NEW id \in DOMAIN callsites
        PROVE  callsites[id].inuse >= LiveBytes(id) + LeavingBytes(id)
    <3>2. LiveBytes(id) \in Nat /\ LeavingBytes(id) \in Nat /\ ComingBytes(id) \in Nat
      BY PartsType DEF CountInv
    <3>3. callsites[id].inuse >= DueBytes(id) /\ callsites[id].inuse \in Int
      BY DEF CountInv, CoverInv, TypeInv, TypeOK
    <3> QED
      BY <3>2, <3>3 DEF DueBytes
  <2> QED
    BY <2>1, <2>2 DEF InuseCoversLive
<1> QED
  BY <1>1, CountInit, CountStep, PTL DEF Spec

-----------------------------------------------------------------------------
(* Blocks and their records, in programs that do not realloc *)

OwnInv == BlockInv /\ RecordInv

(* Neither the application reallocs nor heap_report, whose vectors grow.   *)
NoRealloc == "realloc" \notin Ops /\ "report_realloc" \notin Ops

(* The other threads keep their blocks. *)
LEMMA HeldLocal ==
    ASSUME NEW t \in Threads, Local(t), NEW u \in Threads \ {t}
    PROVE  /\ pc'[u] = pc[u] /\ reg'[u] = reg[u] /\ back'[u] = back[u]
           /\ Held(u)' = Held(u)
  BY DEF Local, Held

(* alloc hands out a block that nobody has. *)
LEMMA AllocateOwn ==
    ASSUME TypeInv, TypeInv', OwnInv, NEW t \in Threads, Local(t),
           pc[t] \in {"idle", "report"},
           NEW p \in Ptrs, NEW size \in Sizes, NEW site,
           Allocate(t, p, size, site),
           paused' = paused
    PROVE  OwnInv'
<1>1. /\ size \in Nat \ {0} /\ heap[p] = 0
      /\ heap'[p] = size /\ \A q \in Ptrs : q # p => heap'[q] = heap[q]
      /\ live' = live /\ profiling' = profiling
  BY HeapAssumption DEF Allocate, recordVars, TypeInv, TypeOK
<1>2. /\ p \notin owned /\ \A q \in owned : q \in Ptrs /\ heap[q] # 0
      /\ \A u \in Threads : pc[u] \in Recording =>
            Held(u) \in Ptrs /\ Held(u) # p /\ Held(u) \notin owned
  <2>1. \A u \in Threads : Held(u) \in Ptrs
    BY DEF TypeInv, TypeOK, Held
  <2> QED
    BY <1>1, <2>1 DEF OwnInv, BlockInv, TypeInv, TypeOK
<1>3. \/ /\ pc'[t] = "lookup" /\ back'[t] \in {"idle", "report"} /\ owned' = owned
         /\ reg'[t].ptr = p /\ reg'[t].size = size /\ profiling
      \/ pc'[t] = pc[t] /\ owned' = owned \cup {p}
  <2>1. CASE profiling /\ bytesLeft[t] - size <= 0
    <3>1. reg'[t] = [reg[t] EXCEPT !.ptr = p, !.size = size, !.site = site]
      BY <2>1 DEF Allocate, TypeInv, TypeOK
    <3>2. reg[t] \in Regs
      BY DEF TypeInv, TypeOK, Regs
    <3>3. reg'[t].ptr = p /\ reg'[t].size = size
      BY <3>1, <3>2 DEF Regs
    <3> QED
      BY <2>1, <3>3, HomeType DEF Allocate, Goto, TypeInv, TypeOK
  <2>2. CASE ~(profiling /\ bytesLeft[t] - size <= 0)
    BY <2>2 DEF Allocate, Grant
  <2> QED
    BY <2>1, <2>2
<1>4. \A u \in Threads \ {t} :
         /\ pc'[u] = pc[u] /\ reg'[u] = reg[u] /\ back'[u] = back[u]
         /\ Held(u)' = Held(u)
  BY HeldLocal
<1>5. pc'[t] = "lookup" => Held(t)' = p
  BY <1>3 DEF Held, HoldsNew
<1>6. \A u \in Threads \ {t} :
         pc[u] \in HoldsNew => pc[u] \in Recording /\ Held(u) = reg[u].ptr
  BY DEF HoldsNew, Recording, Held
<1>7. pc[t] \notin Recording /\ pc[t] \notin HoldsNew
  BY DEF Recording, HoldsNew
<1>8. BlockInv'
  <2>1. \A q \in owned' : heap'[q] # 0
    BY <1>1, <1>2, <1>3
  <2>2. \A u \in Threads \ {t} :
           /\ pc'[u] \in Recording => Held(u)' \notin owned' /\ heap'[Held(u)'] # 0
           /\ pc'[u] \in HoldsNew =>
                 heap'[reg'[u].ptr] = reg'[u].size /\ back'[u] \in {"idle", "report"}
           /\ pc'[u] \in {"remove", "uncount"} => back'[u] = "free"
    BY <1>1, <1>2, <1>3, <1>4, <1>6 DEF OwnInv, BlockInv
  <2>3. /\ pc'[t] \in Recording => Held(t)' \notin owned' /\ heap'[Held(t)'] # 0
        /\ pc'[t] \in HoldsNew =>
              heap'[reg'[t].ptr] = reg'[t].size /\ back'[t] \in {"idle", "report"}
        /\ pc'[t] \in {"remove", "uncount"} => back'[t] = "free"
    BY <1>1, <1>2, <1>3, <1>5, <1>7
  <2>4. \A u, v \in Threads :
           pc'[u] \in Recording /\ pc'[v] \in Recording /\ u # v =>
              Held(u)' # Held(v)'
    BY <1>2, <1>3, <1>4, <1>5, <1>7 DEF OwnInv, BlockInv
  <2> QED
    BY <2>1, <2>2, <2>3, <2>4 DEF BlockInv
<1>9. RecordInv'
  <2> SUFFICES ASSUME ~paused PROVE RecordInv'
    BY DEF RecordInv
  <2>1. /\ \A q \in DOMAIN live : heap[q] = live[q].size /\ live[q].size # 0
        /\ \A u \in Threads :
              pc[u] \in Recording \ {"remove"} => Held(u) \notin DOMAIN live
        /\ ~profiling => /\ DOMAIN live = {}
                         /\ \A u \in Threads : pc[u] \notin Recording \ {"free"}
    BY DEF OwnInv, RecordInv
  <2>2. p \notin DOMAIN live /\ DOMAIN live \subseteq Ptrs
    BY <1>1, <2>1 DEF TypeInv, TypeOK
  <2>3. \A q \in DOMAIN live' : heap'[q] = live'[q].size /\ live'[q].size # 0
    BY <1>1, <2>1, <2>2
  <2>4. \A u \in Threads :
           pc'[u] \in Recording \ {"remove"} => Held(u)' \notin DOMAIN live'
    BY <1>1, <1>3, <1>4, <1>5, <1>7, <2>1, <2>2
  <2>5. ~profiling' => /\ DOMAIN live' = {}
                       /\ \A u \in Threads : pc'[u] \notin Recording \ {"free"}
    BY <1>1, <1>3, <1>4, <1>7, <2>1
  <2> QED
    BY <2>3, <2>4, <2>5 DEF RecordInv
<1> QED
  BY <1>8, <1>9 DEF OwnInv

(* dealloc takes a block from who has it. *)
LEMMA DeallocOwn ==
    ASSUME TypeInv, TypeInv', OwnInv, NEW t \in Threads, Local(t),
           NEW p \in owned, Release(t, p), pc[t] \in {"idle", "report"},
           paused' = paused
    PROVE  OwnInv'
<1>1. /\ heap' = heap /\ live' = live /\ profiling' = profiling
      /\ paused' = paused /\ owned' = owned \ {p} /\ back'[t] = "free"
      /\ reg'[t].old = p /\ pc'[t] = IF profiling THEN "remove" ELSE "free"
  <2>1. reg'[t] = [reg[t] EXCEPT !.old = p] /\ reg[t] \in Regs
    BY DEF Release, TypeInv, TypeOK, Regs
  <2>2. reg'[t].old = p
    BY <2>1 DEF Regs
  <2> QED
    BY <2>2 DEF Release, Take, Goto, recordVars, controlVars, TypeInv, TypeOK
<1>2. \A u \in Threads \ {t} :
         /\ pc'[u] = pc[u] /\ reg'[u] = reg[u] /\ back'[u] = back[u]
         /\ Held(u)' = Held(u)
  BY HeldLocal
<1>3. Held(t)' = p
  BY <1>1 DEF Held, HoldsNew
<1>4. pc[t] \notin Recording /\ pc'[t] \notin HoldsNew
  BY <1>1 DEF Recording, HoldsNew
<1>5. BlockInv'
  BY <1>1, <1>2, <1>3, <1>4 DEF OwnInv, BlockInv
<1>6. RecordInv'
  BY <1>1, <1>2, <1>3, <1>4 DEF OwnInv, RecordInv
<1> QED
  BY <1>5, <1>6 DEF OwnInv

(* Calls and reset steps that have no block. *)
LEMMA OtherOwn ==
    ASSUME OwnInv, NEW t \in Threads, Local(t),
           pc[t] \notin Recording, pc'[t] \notin Recording,
           heap' = heap, owned' = owned, paused \/ paused' \/ profiling' \/ ~profiling,
           paused => paused',
           DOMAIN live' \subseteq DOMAIN live,
           \A p \in DOMAIN live' : live'[p] = live[p]
    PROVE  OwnInv'
<1>1. \A u \in Threads \ {t} :
         /\ pc'[u] = pc[u] /\ reg'[u] = reg[u] /\ back'[u] = back[u]
         /\ Held(u)' = Held(u)
  BY HeldLocal
<1>2. pc'[t] \notin HoldsNew /\ pc'[t] \notin {"remove", "uncount"}
  BY DEF Recording, HoldsNew
<1>3. BlockInv'
  BY <1>1, <1>2 DEF OwnInv, BlockInv
<1>4. RecordInv'
  BY <1>1 DEF OwnInv, RecordInv
<1> QED
  BY <1>3, <1>4 DEF OwnInv

(* record_sample keeps the block until the record is in its shard. *)
LEMMA SampleOwn ==
    ASSUME TypeInv, OwnInv, NEW t \in Threads, Local(t),
           Lookup(t) \/ MapWrite(t) \/ SiteInsert(t) \/ CountAlloc(t)
    PROVE  OwnInv'
<1>1. /\ pc[t] \in HoldsNew /\ pc'[t] \in HoldsNew /\ back' = back /\ heap' = heap
      /\ owned' = owned /\ live' = live /\ profiling' = profiling
      /\ paused' = paused
  BY DEF Lookup, MapWrite, SiteInsert, CountAlloc, Goto, HoldsNew, TypeInv, TypeOK,
         recordVars, systemVars, controlVars, callVars
<1>2. reg'[t].ptr = reg[t].ptr /\ reg'[t].size = reg[t].size
  <2>1. reg[t] \in Regs
    BY DEF TypeInv, TypeOK, Regs
  <2>2. reg'[t] = reg[t] \/ \E i : reg'[t] = [reg[t] EXCEPT !.id = i]
    <3>1. reg' = reg \/ \E i : reg' = [reg EXCEPT ![t].id = i]
      BY Zenon DEF Lookup, MapWrite, SiteInsert, CountAlloc
    <3>2. reg \in [Threads -> Regs]
      BY DEF TypeInv, TypeOK, Regs
    <3> QED
      BY <3>1, <3>2
  <2> QED
    BY <2>1, <2>2 DEF Regs
<1>3. /\ Held(t)' = Held(t) /\ Held(t) = reg[t].ptr
      /\ pc[t] \in Recording \ {"remove", "free"}
      /\ pc'[t] \in Recording \ {"remove", "uncount", "free"}
  BY <1>1, <1>2 DEF Held, HoldsNew, Recording
<1>4. \A u \in Threads \ {t} :
         /\ pc'[u] = pc[u] /\ reg'[u] = reg[u] /\ back'[u] = back[u]
         /\ Held(u)' = Held(u)
  BY HeldLocal
<1>5. BlockInv'
  BY <1>1, <1>2, <1>3, <1>4 DEF OwnInv, BlockInv
<1>6. RecordInv'
  BY <1>1, <1>3, <1>4 DEF OwnInv, RecordInv
<1> QED
  BY <1>5, <1>6 DEF OwnInv

(* The block is handed out with its record. *)
LEMMA LiveInsertOwn ==
    ASSUME TypeInv, OwnInv, NEW t \in Threads, Local(t), LiveInsert(t)
    PROVE  OwnInv'
<1>1. /\ pc[t] = "insert" /\ pc'[t] = back[t] /\ heap' = heap
      /\ owned' = owned \cup {reg[t].ptr} /\ profiling' = profiling
      /\ paused' = paused
  BY DEF LiveInsert, Grant, Goto, TypeInv, TypeOK, controlVars, callVars
<1>2. /\ DOMAIN live' = DOMAIN live \cup {reg[t].ptr}
      /\ live'[reg[t].ptr] = [id |-> reg[t].id, size |-> reg[t].size]
      /\ \A p \in DOMAIN live : p # reg[t].ptr => live'[p] = live[p]
  BY LiveInsertIs
<1>3. live'[reg[t].ptr].size = reg[t].size
  BY <1>2
<1>4. /\ pc[t] \in Recording /\ pc[t] \in HoldsNew /\ Held(t) = reg[t].ptr
      /\ pc[t] \in Recording \ {"remove", "free"}
  BY <1>1 DEF Held, HoldsNew, Recording
<1>5. /\ heap[reg[t].ptr] = reg[t].size /\ heap[reg[t].ptr] # 0
      /\ back[t] \in {"idle", "report"}
  BY <1>4 DEF OwnInv, BlockInv
<1>6. pc'[t] \notin Recording /\ pc'[t] \notin HoldsNew
  BY <1>1, <1>5 DEF Recording, HoldsNew
<1>7. \A u \in Threads \ {t} :
         /\ pc'[u] = pc[u] /\ reg'[u] = reg[u] /\ back'[u] = back[u]
         /\ Held(u)' = Held(u)
  BY HeldLocal
<1>8. \A u \in Threads \ {t} : pc[u] \in Recording => Held(u) # reg[t].ptr
  BY <1>4 DEF OwnInv, BlockInv
<1>9. BlockInv'
  BY <1>1, <1>5, <1>6, <1>7, <1>8 DEF OwnInv, BlockInv
<1>10. RecordInv'
  <2> SUFFICES ASSUME ~paused PROVE RecordInv'
    BY <1>1 DEF RecordInv
  <2>1. profiling
    BY <1>4 DEF OwnInv, RecordInv
  <2>2. \A p \in DOMAIN live' : heap'[p] = live'[p].size /\ live'[p].size # 0
    BY <1>1, <1>2, <1>3, <1>5 DEF OwnInv, RecordInv
  <2>3. \A u \in Threads :
           pc'[u] \in Recording \ {"remove"} => Held(u)' \notin DOMAIN live'
    BY <1>2, <1>6, <1>7, <1>8 DEF OwnInv, RecordInv
  <2> QED
    BY <1>1, <2>1, <2>2, <2>3 DEF RecordInv
<1> QED
  BY <1>9, <1>10 DEF OwnInv

(* dealloc takes the record back, then the bytes, then the block. *)
LEMMA ReleaseOwn ==
    ASSUME TypeInv, OwnInv, NEW t \in Threads, Local(t),
           LiveRemove(t) \/ CountDealloc(t) \/ SystemFree(t)
    PROVE  OwnInv'
<1>0. pc[t] \in HoldsOld /\ pc[t] \in Recording
  BY DEF LiveRemove, CountDealloc, SystemFree, HoldsOld, Recording
<1>1. \A u \in Threads \ {t} :
         /\ pc'[u] = pc[u] /\ reg'[u] = reg[u] /\ back'[u] = back[u]
         /\ Held(u)' = Held(u)
  BY HeldLocal
<1>2. Held(t) = reg[t].old /\ owned' = owned /\ profiling' = profiling /\ paused' = paused
  BY <1>0 DEF Held, HoldsNew, HoldsOld, LiveRemove, CountDealloc, SystemFree,
         systemVars, controlVars, callVars
<1>3. reg[t] \in Regs
  BY DEF TypeInv, TypeOK, Regs
<1>4. CASE LiveRemove(t) \/ CountDealloc(t)
  <2>1. /\ heap' = heap /\ pc'[t] \in {"uncount", "free"}
        /\ pc'[t] = "uncount" => back'[t] = "free"
    <3>1. pc[t] \in {"remove", "uncount"} => back[t] = "free"
      BY DEF OwnInv, BlockInv
    <3> QED
      BY <1>4, <3>1 DEF LiveRemove, CountDealloc, Goto, TypeInv, TypeOK, systemVars
  <2>2. Held(t)' = Held(t)
    <3>1. \E g : reg'[t] = [reg[t] EXCEPT !.gone = g]
      BY <1>4 DEF LiveRemove, CountDealloc, TypeInv, TypeOK
    <3>2. reg'[t].old = reg[t].old
      BY <1>3, <3>1 DEF Regs
    <3> QED
      BY <1>2, <2>1, <3>2 DEF Held, HoldsNew
  <2>3. pc'[t] \in Recording \ {"remove"} /\ pc'[t] \notin HoldsNew
    BY <2>1 DEF Recording, HoldsNew
  <2>4. BlockInv'
    BY <1>0, <1>1, <1>2, <2>1, <2>2, <2>3 DEF OwnInv, BlockInv
  <2>5. /\ DOMAIN live' \subseteq DOMAIN live
        /\ \A p \in DOMAIN live' : live'[p] = live[p]
        /\ pc[t] = "remove" => Held(t) \notin DOMAIN live'
    BY <1>2, <1>4, LiveRemoveIs DEF CountDealloc, LiveRemove
  <2>6. RecordInv'
    <3> SUFFICES ASSUME ~paused PROVE RecordInv'
      BY <1>2 DEF RecordInv
    <3>1. profiling
      BY <1>0, <1>4 DEF OwnInv, RecordInv, LiveRemove, CountDealloc
    <3>2. \A p \in DOMAIN live' : heap'[p] = live'[p].size /\ live'[p].size # 0
      BY <2>1, <2>5 DEF OwnInv, RecordInv
    <3>3. Held(t)' \notin DOMAIN live'
      BY <1>0, <2>2, <2>5 DEF OwnInv, RecordInv
    <3>4. \A u \in Threads :
             pc'[u] \in Recording \ {"remove"} => Held(u)' \notin DOMAIN live'
      BY <1>1, <2>5, <3>3 DEF OwnInv, RecordInv
    <3> QED
      BY <1>2, <3>1, <3>2, <3>4 DEF RecordInv
  <2> QED
    BY <2>4, <2>6 DEF OwnInv
<1>5. CASE SystemFree(t)
  <2>1. /\ pc[t] = "free" /\ pc'[t] \in {"idle", "report"} /\ live' = live
        /\ \A p \in Ptrs : p # Held(t) => heap'[p] = heap[p]
    BY <1>2, <1>5, HomeType DEF SystemFree, Goto, TypeInv, TypeOK, recordVars
  <2>2. pc'[t] \notin Recording /\ pc'[t] \notin HoldsNew
    BY <2>1 DEF Recording, HoldsNew
  <2>3. /\ Held(t) \notin owned
        /\ \A u \in Threads \ {t} : pc[u] \in Recording => Held(u) # Held(t)
    BY <1>0 DEF OwnInv, BlockInv
  <2>4. \A u \in Threads : reg[u].ptr \in Ptrs /\ reg[u].old \in Ptrs
    BY DEF TypeInv, TypeOK
  <2>5. \A u \in Threads : Held(u) \in Ptrs
    BY <2>4 DEF Held
  <2>6. \A u \in Threads : pc[u] \in HoldsNew => pc[u] \in Recording /\ Held(u) = reg[u].ptr
    BY DEF HoldsNew, Recording, Held
  <2>7. BlockInv'
    <3>1. \A p \in owned' : heap'[p] # 0
      BY <1>2, <2>1, <2>3 DEF OwnInv, BlockInv, TypeInv, TypeOK
    <3>2. \A u \in Threads :
             /\ pc'[u] \in Recording => Held(u)' \notin owned' /\ heap'[Held(u)'] # 0
             /\ pc'[u] \in HoldsNew =>
                   heap'[reg'[u].ptr] = reg'[u].size /\ back'[u] \in {"idle", "report"}
             /\ pc'[u] \in {"remove", "uncount"} => back'[u] = "free"
      BY <1>1, <1>2, <2>1, <2>2, <2>3, <2>4, <2>5, <2>6 DEF OwnInv, BlockInv
    <3>3. \A u, v \in Threads :
             pc'[u] \in Recording /\ pc'[v] \in Recording /\ u # v =>
                Held(u)' # Held(v)'
      BY <1>1, <2>2 DEF OwnInv, BlockInv
    <3> QED
      BY <3>1, <3>2, <3>3 DEF BlockInv
  <2>8. RecordInv'
    <3> SUFFICES ASSUME ~paused PROVE RecordInv'
      BY <1>2 DEF RecordInv
    <3>1. Held(t) \notin DOMAIN live /\ DOMAIN live \subseteq Ptrs
      BY <1>0, <2>1 DEF OwnInv, RecordInv, TypeInv, TypeOK
    <3> QED
      BY <1>1, <1>2, <2>1, <2>2, <3>1 DEF OwnInv, RecordInv
  <2> QED
    BY <2>7, <2>8 DEF OwnInv
<1> QED
  BY <1>4, <1>5

(* Only stop pauses profiling, and it stays paused. *)
LEMMA CountedPauses ==
    ASSUME NEW t, NEW op, Counted(t, op), paused \in BOOLEAN
    PROVE  /\ paused => paused'
           /\ op = "stop" => paused'
           /\ op # "stop" => paused' = paused
<1>1. paused' = (paused \/ op = "stop")
  BY DEF Counted
<1> QED
  BY <1>1

(* A call keeps the blocks' invariants, unless it is realloc. *)
LEMMA CallOwn ==
    ASSUME MapsInv, TypeInv', OwnInv, TempInv, NoRealloc, NEW t \in Threads,
           Local(t), StepOf(t), pc[t] \notin Recording \cup Resetting
    PROVE  OwnInv'
<1>1. TypeInv /\ pc \in [Threads -> Labels] /\ pc[t] \in {"idle", "report"}
  BY DEF MapsInv, ControlInv, TypeInv, TypeOK, Labels
<1>0. ASSUME NEW ops2, Begins(t, ops2), "stop" \notin ops2 PROVE paused' = paused
  <2>1. paused \in BOOLEAN
    BY <1>1 DEF TypeInv, TypeOK
  <2> QED
    BY <1>0, <2>1, CountedPauses DEF Begins
<1>2. ASSUME NEW p \in Ptrs, NEW size \in Sizes, NEW site \in Sites,
             Allocates(t, p, size, site)
      PROVE  OwnInv'
  BY <1>0, <1>1, <1>2, AllocateOwn DEF Allocates
<1>3. ASSUME NEW p \in Free \cup temporary[t], Releases(t, p) PROVE OwnInv'
  <2>1. p \in owned
    BY DEF Free, TempInv
  <2> QED
    BY <1>0, <1>1, <1>3, <2>1, DeallocOwn DEF Releases
<1>4. ASSUME NEW p, NEW q, NEW size, NEW site, Moves(t, p, q, size, site)
      PROVE  OwnInv'
  BY <1>4 DEF Moves, Begins, Counted, NoRealloc
<1>5. CASE \/ \E on \in BOOLEAN : SetProfiling(t, on)
           \/ \E r \in Rates : SetSampleRate(t, r)
           \/ Reset(t) \/ HeapReport(t) \/ ReportReturn(t)
  <2>1. /\ heap' = heap /\ owned' = owned /\ live' = live
        /\ pc'[t] \in {"idle", "report", "reset_shard"}
    BY <1>1, <1>5 DEF SetProfiling, SetSampleRate, Reset, HeapReport, ReportReturn,
       Goto, recordVars, systemVars
  <2>2. /\ paused \/ paused' \/ profiling' \/ ~profiling
        /\ paused => paused'
    <3>1. paused \in BOOLEAN
      BY <1>1 DEF TypeInv, TypeOK
    <3>2. CASE SetProfiling(t, TRUE)
      BY <3>1, <3>2, CountedPauses DEF SetProfiling, Call
    <3>3. CASE SetProfiling(t, FALSE)
      BY <3>1, <3>3, CountedPauses DEF SetProfiling, Call
    <3>4. CASE \/ \E r \in Rates : SetSampleRate(t, r)
               \/ Reset(t) \/ HeapReport(t)
      <4>1. profiling' = profiling /\ \E op : Counted(t, op)
        BY <3>4 DEF SetSampleRate, Reset, HeapReport, Call, controlVars
      <4> QED
        BY <3>1, <4>1, CountedPauses
    <3>5. CASE ReportReturn(t)
      BY <3>5 DEF ReportReturn, controlVars, callVars
    <3> QED
      BY <1>5, <3>2, <3>3, <3>4, <3>5
  <2>3. pc[t] \notin Recording /\ pc'[t] \notin Recording
    BY <2>1 DEF Recording
  <2> QED
    BY <2>1, <2>2, <2>3, OtherOwn
<1>6. Calls(t) \/ ReportCalls(t) \/ ReportReturn(t)
  BY <1>1 DEF StepOf, Step, Lookup, MapWrite, SiteInsert, CountAlloc, LiveInsert,
     LiveRemove, CountDealloc, SystemFree, ResetShard, ResetMap, ResetSites, ResetId
<1> QED
  BY <1>1, <1>2, <1>3, <1>4, <1>5, <1>6, CallForms DEF OtherCall

(* A reset takes records away. *)
LEMMA ResetOwn ==
    ASSUME TypeInv, OwnInv, NEW t \in Threads, Local(t), StepOf(t),
           pc[t] \in Resetting
    PROVE  OwnInv'
<1>1. /\ heap' = heap /\ owned' = owned /\ profiling' = profiling
      /\ paused' = paused
      /\ pc'[t] \in Resetting \cup {"idle"}
  BY ResettingSteps DEF ResetShard, ResetMap, ResetSites, ResetId, Goto, Resetting,
     TypeInv, TypeOK, systemVars, controlVars, callVars
<1>2. /\ DOMAIN live' \subseteq DOMAIN live
      /\ \A p \in DOMAIN live' : live'[p] = live[p]
  BY ResettingSteps DEF ResetShard, ResetMap, ResetSites, ResetId
<1>3. pc[t] \notin Recording /\ pc'[t] \notin Recording
  BY <1>1 DEF Recording, Resetting
<1> QED
  BY <1>1, <1>2, <1>3, OtherOwn

(* A report's blocks are given back by it alone, until it is made. *)
LEMMA TempStep ==
    ASSUME TypeInv, OwnInv, TempInv, NoRealloc, NEW t \in Threads, StepOf(t)
    PROVE  TempInv'
<1>1. temporary \in [Threads -> SUBSET Ptrs]
  BY DEF TypeInv, TypeOK
<1>2. ASSUME UNCHANGED <<owned, temporary>> PROVE TempInv'
  BY <1>2 DEF TempInv
<1>3. ASSUME NEW p, p \notin owned, Grant(t, p) PROVE TempInv'
  <2>1. \A u \in Threads : p \notin temporary[u]
    BY <1>3 DEF TempInv
  <2>2. /\ owned' = owned \cup {p}
        /\ \A u \in Threads \ {t} : temporary'[u] = temporary[u]
        /\ temporary'[t] \subseteq temporary[t] \cup {p}
    BY <1>1, <1>3 DEF Grant
  <2> QED
    BY <2>1, <2>2 DEF TempInv
<1>4. ASSUME NEW p, p \in Free \cup temporary[t], Take(t, p) PROVE TempInv'
  <2>1. \A u \in Threads \ {t} : p \notin temporary[u]
    BY <1>4 DEF TempInv, Free
  <2>2. /\ owned' = owned \ {p} /\ temporary'[t] = temporary[t] \ {p}
        /\ \A u \in Threads \ {t} : temporary'[u] = temporary[u]
    BY <1>1, <1>4 DEF Take
  <2> QED
    BY <2>1, <2>2 DEF TempInv
<1>5. ASSUME NEW p \in Ptrs, NEW size, NEW site, Allocates(t, p, size, site)
      PROVE  TempInv'
  <2>1. p \notin owned
    BY <1>5 DEF Allocates, Allocate, OwnInv, BlockInv
  <2> QED
    BY <1>2, <1>3, <1>5, <2>1 DEF Allocates, Allocate
<1>6. ASSUME NEW p, NEW q, NEW size, NEW site, Moves(t, p, q, size, site)
      PROVE  TempInv'
  BY <1>6 DEF Moves, Begins, Counted, NoRealloc
<1>7. ASSUME OtherCall(t) PROVE TempInv'
  BY <1>2, <1>7 DEF OtherCall, SetProfiling, SetSampleRate, Reset, HeapReport, systemVars
<1>8. CASE Calls(t) \/ ReportCalls(t)
  BY <1>4, <1>5, <1>6, <1>7, <1>8, CallForms DEF Releases, Release
<1>9. CASE LiveInsert(t)
  <2>1. reg[t].ptr \notin owned
    <3>1. Held(t) = reg[t].ptr /\ pc[t] \in Recording
      BY <1>9 DEF LiveInsert, Held, HoldsNew, Recording
    <3> QED
      BY <3>1 DEF OwnInv, BlockInv
  <2> QED
    BY <1>3, <1>9, <2>1 DEF LiveInsert
<1>10. CASE ReportReturn(t)
  <2>1. /\ owned' = owned /\ temporary'[t] = {}
        /\ \A u \in Threads \ {t} : temporary'[u] = temporary[u]
    BY <1>1, <1>10 DEF ReportReturn
  <2> QED
    BY <2>1 DEF TempInv
<1>11. CASE \/ Lookup(t) \/ MapWrite(t) \/ SiteInsert(t) \/ CountAlloc(t)
            \/ LiveRemove(t) \/ CountDealloc(t) \/ SystemFree(t)
            \/ ResetShard(t) \/ ResetMap(t) \/ ResetSites(t) \/ ResetId(t)
  BY <1>2, <1>11 DEF Lookup, MapWrite, SiteInsert, CountAlloc, LiveRemove,
     CountDealloc, SystemFree, ResetShard, ResetMap, ResetSites, ResetId, systemVars
<1> QED
  BY <1>8, <1>9, <1>10, <1>11 DEF StepOf, Step

(* The blocks' invariants hold at first ... *)
LEMMA OwnInit == Init => OwnInv /\ TempInv
  BY DEF Init, OwnInv, BlockInv, RecordInv, TempInv, NoMap, Recording, HoldsNew

(* ... and every step keeps them. *)
LEMMA OwnStep ==
    ASSUME MapsInv, MapsInv', OwnInv, TempInv, NoRealloc, [Next]_vars
    PROVE  OwnInv' /\ TempInv'
<1>1. TypeInv /\ TypeInv'
  BY DEF MapsInv, ControlInv
<1>2. CASE UNCHANGED vars
  <2>1. /\ pc' = pc /\ reg' = reg /\ back' = back /\ heap' = heap /\ owned' = owned
        /\ live' = live /\ profiling' = profiling /\ paused' = paused
    BY <1>2 DEF vars, recordVars, systemVars, controlVars, callVars
  <2>2. \A u \in Threads : Held(u)' = Held(u)
    BY <2>1 DEF Held
  <2>3. BlockInv'
    BY <2>1, <2>2 DEF OwnInv, BlockInv
  <2>4. RecordInv'
    BY <2>1, <2>2 DEF OwnInv, RecordInv
  <2>5. TempInv'
    BY <1>2 DEF vars, systemVars, TempInv
  <2> QED
    BY <2>3, <2>4, <2>5 DEF OwnInv
<1>3. ASSUME NEW t \in Threads, StepOf(t) PROVE OwnInv' /\ TempInv'
  <2>1. Local(t)
    BY <1>3, StepControl DEF MapsInv, Control
  <2> QED
    BY <1>1, <1>3, <2>1, CallOwn, ResetOwn, RecordingSteps, SampleOwn, LiveInsertOwn,
       ReleaseOwn, TempStep
<1> QED
  BY <1>2, <1>3, NextIsStepOf

(* For every program that does not realloc: a recorded address is a block  *)
(* that is allocated now, of the recorded size, until profiling is stopped *)
(* (a block that is freed while it is stopped keeps its record).           *)
THEOREM RecordsAreAllocated ==
    ASSUME NoRealloc
    PROVE  Spec => []LiveIsAllocated
<1>1. Init => MapsInv /\ OwnInv /\ TempInv
  BY MapsInit, OwnInit
<1>2. MapsInv /\ OwnInv /\ TempInv /\ [Next]_vars => (MapsInv /\ OwnInv /\ TempInv)'
  BY MapsStep, OwnStep
<1>3. OwnInv => LiveIsAllocated
  BY DEF OwnInv, RecordInv, LiveIsAllocated
<1> QED
  BY <1>1, <1>2, <1>3, PTL DEF Spec

-----------------------------------------------------------------------------
(* The counters are exact, in programs that do not realloc *)

(* A step never ends a pause. *)
LEMMA StepPauses ==
    ASSUME TypeInv, NEW t \in Threads, StepOf(t), paused
    PROVE  paused'
<1>1. paused \in BOOLEAN
  BY DEF TypeInv, TypeOK
<1>2. CASE \E op : Counted(t, op)
  BY <1>1, <1>2, CountedPauses
<1>3. CASE Step(t)
  BY <1>3 DEF Step, Lookup, MapWrite, SiteInsert, CountAlloc, LiveInsert,
     LiveRemove, CountDealloc, SystemFree, ResetShard, ResetMap, ResetSites,
     ResetId, ReportReturn, callVars
<1>4. (\E op : Counted(t, op)) \/ Step(t)
  BY CallForms DEF StepOf, Allocates, Releases, Moves, Begins, OtherCall,
     SetProfiling, SetSampleRate, Reset, HeapReport, Call
<1> QED
  BY <1>2, <1>3, <1>4

(* The counters are exact at first ... *)
LEMMA ExactInit == Init => ExactInv
  BY DEF Init, ExactInv, NoMap

(* ... and every step keeps them so. *)
LEMMA ExactStep ==
    ASSUME MapsInv, MapsInv', OwnInv, ExactInv, [Next]_vars
    PROVE  ExactInv'
<1> SUFFICES ASSUME ~paused', ~mixed', \A u \in Threads : pc'[u] \notin Resetting,
                    NEW id \in DOMAIN callsites'
             PROVE  callsites'[id].inuse = DueBytes(id)'
  BY DEF ExactInv
<1>1. TypeInv /\ TypeInv'
  BY DEF MapsInv, ControlInv
<1>2. CASE UNCHANGED vars
  <2>1. /\ live' = live /\ reg' = reg /\ pc' = pc /\ callsites' = callsites
        /\ mixed' = mixed /\ paused' = paused
    BY <1>2 DEF vars, recordVars, callVars
  <2>2. DueBytes(id)' = DueBytes(id)
    BY <2>1, DueIs
  <2> QED
    BY <2>1, <2>2 DEF ExactInv
<1>3. ASSUME NEW t \in Threads, StepOf(t)
      PROVE  callsites'[id].inuse = DueBytes(id)'
  <2>1. Control(t) /\ ~mixed /\ ~paused
    BY <1>1, <1>3, StepControl, StepPauses DEF MapsInv, Control, ApartEffect
  <2>2. CASE pc[t] \in Resetting
    <3>1. ResetId(t)
      BY <1>1, <1>3, <2>2, ResettingSteps
         DEF ResetShard, ResetMap, ResetSites, Goto, Resetting, TypeInv, TypeOK
    <3>2. DOMAIN callsites = {} /\ callsites' = callsites
      BY <2>1, <3>1 DEF ResetId, MapsInv, ResetInv
    <3> QED
      BY <3>2
  <2>3. CASE pc[t] \notin Resetting
    <3>1. \A u \in Threads : pc[u] \notin Resetting
      BY <2>1, <2>3 DEF Control, Local
    <3>2. \A i \in DOMAIN callsites : callsites[i].inuse = DueBytes(i)
      BY <2>1, <3>1 DEF ExactInv
    <3>3. Replaced(t, id) = 0
      <4>1. CASE pc[t] = "insert"
        <5>1. Held(t) = reg[t].ptr /\ pc[t] \in Recording \ {"remove"}
          BY <4>1 DEF Held, HoldsNew, Recording
        <5>2. reg[t].ptr \notin DOMAIN live
          BY <2>1, <5>1 DEF OwnInv, RecordInv
        <5> QED
          BY <5>2 DEF Replaced, LiveAt
      <4>2. CASE pc[t] # "insert"
        BY <4>2 DEF Replaced
      <4> QED
        BY <4>1, <4>2
    <3>4. Balanced(t)
      BY <1>3, <2>3, StepBalance
    <3>5. DueBytes(id) \in Nat /\ DueBytes(id)' \in Nat
      BY <1>1, DueType
    <3>6. callsites'[id].inuse \in Int
      BY <1>1 DEF TypeInv, TypeOK
    <3>7. Balance(id)' = 0
      <4>1. CASE id \in DOMAIN callsites
        <5>1. Balance(id) = 0
          BY <3>2, <3>5, <4>1 DEF Balance
        <5> QED
          BY <3>3, <3>4, <4>1, <5>1 DEF Balanced
      <4>2. CASE id \notin DOMAIN callsites
        BY <3>4, <4>2 DEF Balanced
      <4> QED
        BY <4>1, <4>2
    <3> QED
      BY <3>5, <3>6, <3>7 DEF Balance
  <2> QED
    BY <2>2, <2>3
<1> QED
  BY <1>2, <1>3, NextIsStepOf

(* While nobody is on the way to a shard or from it, every counted record  *)
(* is in its shard.                                                        *)
LEMMA AtRest ==
    ASSUME CountInv, \A t \in Threads : pc[t] \notin {"insert", "uncount"}, NEW id
    PROVE  DueBytes(id) = LiveBytes(id) /\ LiveBytes(id) \in Nat
<1>1. \A t \in Threads : reg[t].gone = {} /\ pc[t] # "insert"
  BY DEF CountInv, GoneInv
<1>2. LeavingBytes(id) = 0
  <2>1. LeavingBytes(id) = SumFunction(LeaveFun(reg, id))
    BY DEF LeavingBytes, LeaveFun
  <2>2. DOMAIN LeaveFun(reg, id) = {}
    BY <1>1 DEF LeaveFun
  <2> QED
    BY <2>1, <2>2, SumEmpty DEF SumFunction
<1>3. ComingBytes(id) = 0
  <2>1. ComingBytes(id) = SumFunction(ComeFun(pc, reg, id))
    BY DEF ComingBytes, ComeFun
  <2>2. DOMAIN ComeFun(pc, reg, id) = {}
    BY <1>1 DEF ComeFun
  <2> QED
    BY <2>1, <2>2, SumEmpty DEF SumFunction
<1>4. LiveBytes(id) \in Nat
  BY PartsType DEF CountInv
<1> QED
  BY <1>2, <1>3, <1>4 DEF DueBytes

(* The invariants say what inuse_bytes is when no call is in progress. *)
LEMMA HeapInvExact == HeapInv /\ ~mixed => InuseExact
<1> SUFFICES ASSUME HeapInv, ~mixed, Idle
             PROVE  /\ LiveIsAllocated
                    /\ \A id \in DOMAIN callsites :
                          IF paused THEN callsites[id].inuse >= LiveBytes(id)
                          ELSE callsites[id].inuse = LiveBytes(id)
  BY DEF InuseExact
<1>1. LiveIsAllocated
  BY DEF HeapInv, RecordInv, LiveIsAllocated
<1>2. ASSUME NEW id \in DOMAIN callsites
      PROVE  IF paused THEN callsites[id].inuse >= LiveBytes(id)
             ELSE callsites[id].inuse = LiveBytes(id)
  <2>1. DueBytes(id) = LiveBytes(id)
    BY AtRest DEF HeapInv, Idle
  <2>2. callsites[id].inuse >= DueBytes(id)
    BY DEF HeapInv, CountInv, CoverInv
  <2>3. ~paused => callsites[id].inuse = DueBytes(id)
    BY DEF HeapInv, ExactInv, Idle, Resetting
  <2> QED
    BY <2>1, <2>2, <2>3
<1> QED
  BY <1>1, <1>2

(* All the invariants together are inductive, without realloc. *)
LEMMA HeapInductive ==
    ASSUME NoRealloc
    PROVE  /\ Init => HeapInv
           /\ HeapInv /\ [Next]_vars => HeapInv'
<1>1. Init => HeapInv
  BY CountInit, OwnInit, ExactInit DEF HeapInv, OwnInv
<1>2. HeapInv /\ [Next]_vars => HeapInv'
  <2> SUFFICES ASSUME HeapInv, [Next]_vars PROVE HeapInv'
    OBVIOUS
  <2>1. CountInv /\ CountInv' /\ OwnInv /\ TempInv /\ ExactInv
    BY CountStep DEF HeapInv, OwnInv
  <2>2. MapsInv /\ MapsInv'
    BY <2>1 DEF CountInv, MapsInv, ControlInv
  <2>3. OwnInv' /\ TempInv' /\ ExactInv'
    BY <2>1, <2>2, OwnStep, ExactStep
  <2> QED
    BY <2>1, <2>3 DEF HeapInv, OwnInv
<1> QED
  BY <1>1, <1>2

(* For every program that does not realloc, resets included: whenever no   *)
(* call is in progress, inuse_bytes is exactly the sum of the sizes of the *)
(* sampled blocks that are still allocated, unless a reset overlapped an   *)
(* allocation or a release.                                                *)
THEOREM CountersExact ==
    ASSUME NoRealloc
    PROVE  Spec => [](~mixed => InuseExact)
  BY HeapInductive, HeapInvExact, PTL DEF Spec

NoReset == ~mixed /\ \A t \in Threads : pc[t] \notin Resetting

(* A program that does not reset has no reset that overlaps anything. *)
LEMMA NoResetStep ==
    ASSUME TypeInv, NoReset, "reset" \notin Ops, [Next]_vars
    PROVE  NoReset'
<1>1. CASE UNCHANGED vars
  BY <1>1 DEF vars, callVars, NoReset
<1>2. ASSUME NEW t \in Threads, StepOf(t) PROVE NoReset'
  <2>1. pc \in [Threads -> Labels] /\ back \in [Threads -> {"idle", "report", "lookup", "free"}]
    BY DEF TypeInv, TypeOK
  <2>2. \A u \in Threads : pc[u] \notin Resetting
    BY DEF NoReset
  <2>3. CASE Step(t)
    <3>1. mixed' = mixed
      BY <2>2, <2>3 DEF Step, Lookup, MapWrite, SiteInsert, CountAlloc, LiveInsert,
         LiveRemove, CountDealloc, SystemFree, ReportReturn, callVars,
         ResetShard, ResetMap, ResetSites, ResetId
    <3>2. \A u \in Threads : pc'[u] \notin Resetting
      BY <2>1, <2>2, <2>3, HomeType DEF Step, Lookup, MapWrite, SiteInsert, CountAlloc, LiveInsert,
         LiveRemove, CountDealloc, SystemFree, ReportReturn, Goto, Resetting,
         ResetShard, ResetMap, ResetSites, ResetId
    <3> QED
      BY <3>1, <3>2 DEF NoReset
  <2>4. CASE Calls(t) \/ ReportCalls(t)
    <3>1. \E op \in Ops : Counted(t, op)
      BY <2>4, CallForms DEF Allocates, Releases, Moves, Begins, OtherCall,
         SetProfiling, SetSampleRate, Reset, HeapReport, Call, Counted
    <3>2. ~mixed'
      BY <2>2, <3>1 DEF Counted, Others, NoReset
    <3>3. \A u \in Threads : pc'[u] \notin Resetting
      <4>1. ASSUME NEW p, NEW size, NEW site, Allocate(t, p, size, site)
            PROVE  \A u \in Threads : pc'[u] \notin Resetting
        BY <2>1, <2>2, <4>1 DEF Allocate, Goto, Resetting
      <4>2. ASSUME NEW p, Release(t, p) PROVE \A u \in Threads : pc'[u] \notin Resetting
        BY <2>1, <2>2, <4>2 DEF Release, Goto, Resetting
      <4>3. ASSUME NEW p, NEW q, NEW size, NEW site, Move(t, p, q, size, site)
            PROVE  \A u \in Threads : pc'[u] \notin Resetting
        BY <2>1, <2>2, <4>3 DEF Move, Goto, Resetting
      <4>4. ASSUME HeapReport(t) PROVE \A u \in Threads : pc'[u] \notin Resetting
        BY <2>1, <2>2, <4>4 DEF HeapReport, Goto, Resetting
      <4>5. CASE \E on \in BOOLEAN : SetProfiling(t, on)
        BY <2>2, <4>5 DEF SetProfiling
      <4>6. CASE \E r \in Rates : SetSampleRate(t, r)
        BY <2>2, <4>6 DEF SetSampleRate
      <4>7. ~Reset(t)
        BY DEF Reset, Call, Counted
      <4> QED
        BY <2>4, <4>1, <4>2, <4>3, <4>4, <4>5, <4>6, <4>7, CallForms
           DEF Allocates, Releases, Moves, OtherCall
    <3> QED
      BY <3>2, <3>3 DEF NoReset
  <2> QED
    BY <1>2, <2>3, <2>4 DEF StepOf
<1> QED
  BY <1>1, <1>2, NextIsStepOf

(* For every program that neither reallocs nor resets: whenever no call is *)
(* in progress, inuse_bytes is exactly what is still allocated.            *)
THEOREM CountersExactAlways ==
    ASSUME NoRealloc, "reset" \notin Ops
    PROVE  Spec => []InuseExact
<1>1. Init => NoReset
  BY DEF Init, NoReset, Resetting
<1>2. HeapInv /\ NoReset /\ [Next]_vars => NoReset'
  BY NoResetStep DEF HeapInv, CountInv
<1>3. HeapInv /\ NoReset => InuseExact
  BY HeapInvExact DEF NoReset
<1> QED
  BY <1>1, <1>2, <1>3, HeapInductive, PTL DEF Spec

-----------------------------------------------------------------------------
(* What is written of a heap report *)

(* One turn of the loop over the frames of a call stack. *)
KeepFrame(kept, frame) == IF frame = <<>> THEN kept ELSE Append(kept, frame)

(* The loop over the frames of a call stack, unfolded. *)
LEMMA KeptTurns ==
    ASSUME NEW S, NEW site, Unwound[site] \in Seq(S), NEW time
    PROVE  \E r : /\ \A i \in 0..Len(Unwound[site]) :
                        r[i] = IF i = 0 THEN <<>>
                               ELSE KeepFrame(r[i - 1], Unwound[site][i])
                  /\ HeapFrames(site, time).frames = r[Len(Unwound[site])]
<1> DEFINE start == <<>>
           Turns(r, n) ==
               r = [i \in 0..n |-> IF i = 0 THEN start ELSE KeepFrame(r[i - 1], Unwound[site][i])]
           Q == {n \in Nat : \E r : Turns(r, n)}
           r == CHOOSE f : Turns(f, Len(Unwound[site]))
<1>1. HeapFrames(site, time).frames = r[Len(Unwound[site])]
  BY DEF HeapFrames, KeepFrame
<1> HIDE DEF start
<1>2. 0 \in Q
  <2> DEFINE f == [i \in 0..0 |-> start]
  <2>1. Turns(f, 0)
    OBVIOUS
  <2> QED
    BY <2>1
<1>3. ASSUME NEW n \in Nat, n \in Q PROVE n + 1 \in Q
  <2>1. PICK f : Turns(f, n)
    BY <1>3
  <2> DEFINE g == [i \in 0..(n + 1) |->
                      IF i = 0 THEN start ELSE KeepFrame(f[i - 1], Unwound[site][i])]
  <2>2. \A i \in 0..n : f[i] = IF i = 0 THEN start ELSE KeepFrame(f[i - 1], Unwound[site][i])
    BY <2>1
  <2>3. \A i \in 0..n : g[i] = f[i]
    BY <2>2
  <2>4. \A i \in 0..(n + 1) : i # 0 => i - 1 \in 0..n
    OBVIOUS
  <2>5. \A i \in 0..(n + 1) : i # 0 => g[i - 1] = f[i - 1]
    BY <2>3, <2>4
  <2>6. g = [i \in 0..(n + 1) |-> IF i = 0 THEN start ELSE KeepFrame(g[i - 1], Unwound[site][i])]
    BY <2>5
  <2> HIDE DEF g
  <2>7. Turns(g, n + 1) /\ n + 1 \in Nat
    BY <2>6
  <2> HIDE DEF Turns
  <2> QED
    BY <2>7
<1> HIDE DEF Q
<1>4. Nat \subseteq Q
  BY <1>2, <1>3, NatSetInduction
<1>5. Turns(r, Len(Unwound[site]))
  <2>1. Len(Unwound[site]) \in Q
    BY <1>4
  <2> QED
    BY <2>1 DEF Q
<1> HIDE DEF r
<1>6. \A i \in 0..Len(Unwound[site]) :
         r[i] = IF i = 0 THEN start ELSE KeepFrame(r[i - 1], Unwound[site][i])
  BY <1>5
<1> QED
  BY <1>1, <1>6 DEF start

(* A call stack's functions, from its root, in a thread called 0. *)
HeapStack(site) == <<"0">> \o CallPath(site)

(* The Frames of a record have the symbols of their call stack, and their  *)
(* own time.                                                               *)
LEMMA RecordFrames ==
    ASSUME NEW site \in Sites, NEW n
    PROVE  LET f == HeapFrames(site, n)
           IN  /\ f.frames \in Seq(Seq(AllSymbols))
               /\ FlattenSeq(f.frames) = FlattenSeq(Unwound[site])
               /\ f.thread_name = "" /\ f.thread_id = "0" /\ f.sample_timestamp = n
<1> DEFINE u == Unwound[site]
           f == HeapFrames(site, n)
           V == Seq(AllSymbols)
<1>1. u \in Seq(V)
  BY SitesAssumption, UnwoundAssumption
<1>2. f.thread_name = "" /\ f.thread_id = "0" /\ f.sample_timestamp = n
  BY DEF HeapFrames, RecordTime
<1>3. PICK r : /\ \A i \in 0..Len(u) :
                    r[i] = IF i = 0 THEN <<>>
                           ELSE KeepFrame(r[i - 1], u[i])
               /\ f.frames = r[Len(u)]
  BY <1>1, KeptTurns
<1> HIDE DEF u, f
<1> DEFINE Kept(i) == r[i] \in Seq(V) /\ FlattenSeq(r[i]) = FlattenSeq(SubSeq(u, 1, i))
           Q == {i \in Nat : i <= Len(u) => Kept(i)}
<1>4. /\ FlattenSeq(SubSeq(u, 1, 0)) = <<>>
      /\ \A i \in 0..(Len(u) - 1) :
            FlattenSeq(SubSeq(u, 1, i + 1)) = FlattenSeq(SubSeq(u, 1, i)) \o u[i + 1]
      /\ \A i \in 0..Len(u) : FlattenSeq(SubSeq(u, 1, i)) \in Seq(AllSymbols)
      /\ FlattenSeq(SubSeq(u, 1, Len(u))) = FlattenSeq(u)
      /\ Len(u) \in Nat
  <2> USE <1>1
  <2>1. Len(u) \in Nat
    OBVIOUS
  <2> QED
    BY <2>1, FlattenSteps, Zenon
<1>5. 0 \in Q
  <2>1. r[0] = <<>>
    BY <1>3, <1>4
  <2>2. <<>> \in Seq(V)
    BY EmptySeq
  <2>3. FlattenSeq(<<>>) = <<>>
    BY <2>2, FlattenIs
  <2> QED
    BY <1>4, <2>1, <2>2, <2>3
<1>6. ASSUME NEW i \in Nat, i \in Q PROVE i + 1 \in Q
  <2> SUFFICES ASSUME i + 1 <= Len(u) PROVE Kept(i + 1)
    OBVIOUS
  <2>1. i \in 0..(Len(u) - 1) /\ i + 1 \in 0..Len(u) /\ i + 1 # 0 /\ (i + 1) - 1 = i
        /\ i + 1 \in 1..Len(u) /\ i \in 0..Len(u)
    BY <1>4
  <2>2. Kept(i)
    BY <1>4, <1>6, <2>1
  <2>3. r[i + 1] = IF u[i + 1] = <<>> THEN r[i] ELSE Append(r[i], u[i + 1])
    BY <1>3, <2>1 DEF KeepFrame
  <2>4. u[i + 1] \in V
    BY <1>1, <2>1
  <2>5. FlattenSeq(SubSeq(u, 1, i + 1)) = FlattenSeq(SubSeq(u, 1, i)) \o u[i + 1]
    BY <1>4, <2>1
  <2>6. CASE u[i + 1] = <<>>
    <3> DEFINE a == FlattenSeq(SubSeq(u, 1, i))
    <3>1. a \in Seq(AllSymbols)
      BY <1>4, <2>1
    <3> HIDE DEF a
    <3>2. a \o <<>> = a
      BY <3>1
    <3> QED
      BY <2>2, <2>3, <2>5, <2>6, <3>2 DEF a
  <2>7. CASE u[i + 1] # <<>>
    <3>1. FlattenSeq(Append(r[i], u[i + 1])) = FlattenSeq(r[i]) \o u[i + 1]
      BY <2>2, <2>4, FlattenAppend
    <3>2. Append(r[i], u[i + 1]) \in Seq(V)
      BY <2>2, <2>4
    <3> QED
      BY <2>2, <2>3, <2>5, <2>7, <3>1, <3>2
  <2> QED
    BY <2>6, <2>7
<1> HIDE DEF Q
<1>7. Nat \subseteq Q
  BY <1>5, <1>6, NatSetInduction
<1>8. Kept(Len(u))
  BY <1>4, <1>7 DEF Q
<1>9. /\ f.frames \in Seq(Seq(AllSymbols)) /\ FlattenSeq(f.frames) = FlattenSeq(u)
  BY <1>3, <1>4, <1>8
<1> QED
  BY <1>2, <1>9, Zenon DEF f, u

(* The stack that the formats make of a record. *)
LEMMA RecordStack ==
    ASSUME NEW site \in Sites, NEW n
    PROVE  /\ Reverse(Names(HeapFrames(site, n))) = CallPath(site)
           /\ ThreadNameOrId(HeapFrames(site, n)) = "0"
           /\ Stack(HeapFrames(site, n)) = HeapStack(site)
<1> DEFINE f == HeapFrames(site, n)
<1>1. FlattenSeq(f.frames) = FlattenSeq(Unwound[site]) /\ f.thread_name = "" /\ f.thread_id = "0"
  BY RecordFrames, ZenonT(30)
<1> HIDE DEF f
<1>2. Reverse(Names(f)) = CallPath(site)
  BY <1>1 DEF Names, Symbols, CallPath
<1>3. ThreadNameOrId(f) = "0"
  BY <1>1 DEF ThreadNameOrId
<1> QED
  BY <1>2, <1>3 DEF f, Stack, HeapStack

(* A call path is a sequence. *)
LEMMA CallPathType ==
    ASSUME NEW site \in Sites
    PROVE  CallPath(site) \in Seq({Name(s) : s \in AllSymbols})
<1> DEFINE symbols == FlattenSeq(Unwound[site])
           names == [i \in DOMAIN symbols |-> Name(symbols[i])]
           W == {Name(s) : s \in AllSymbols}
<1>1. symbols \in Seq(AllSymbols)
  BY SitesAssumption, UnwoundAssumption, FlattenType
<1> HIDE DEF symbols
<1>2. names \in Seq(W)
  BY <1>1
<1> HIDE DEF names, W
<1>3. Reverse(names) \in Seq(W)
  BY <1>2, ReverseType
<1> QED
  BY <1>3 DEF CallPath, names, symbols, W

(* SetToSeq is one of the walks. *)
LEMMA SetToSeqWalks ==
    ASSUME NEW S, IsFiniteSet(S)
    PROVE  SetToSeq(S) \in SetToSeqs(S)
<1> DEFINE D == 1..Cardinality(S)
<1>1. PICK f \in Bijection(D, S) : TRUE
  BY FS_CardinalityType DEF ExistsBijection
<1>2. f \in [D -> S] /\ IsInjective(f)
  BY DEF Bijection, Injection
<1>3. SetToSeq(S) \in [D -> S] /\ IsInjective(SetToSeq(S))
  BY <1>2 DEF SetToSeq
<1> QED
  BY <1>3 DEF SetToSeqs, IsInjective

(* The loop over the records, unfolded. *)
LEMMA ToReportTurns ==
    ASSUME NEW S, NEW records \in Seq(S), NEW bytes
    PROVE  \E r : /\ \A i \in 0..Len(records) :
                        r[i] = IF i = 0 THEN <<>>
                               ELSE InsertBytes(r[i - 1], records[i].frames, bytes[i])
                  /\ ToReport(records, bytes) = r[Len(records)]
<1> DEFINE start == <<>>
           Turns(r, n) ==
               r = [i \in 0..n |-> IF i = 0 THEN start ELSE InsertBytes(r[i - 1], records[i].frames, bytes[i])]
           Q == {n \in Nat : \E r : Turns(r, n)}
           r == CHOOSE f : Turns(f, Len(records))
<1>1. ToReport(records, bytes) = r[Len(records)]
  BY DEF ToReport
<1> HIDE DEF start
<1>2. 0 \in Q
  <2> DEFINE f == [i \in 0..0 |-> start]
  <2>1. Turns(f, 0)
    OBVIOUS
  <2> QED
    BY <2>1
<1>3. ASSUME NEW n \in Nat, n \in Q PROVE n + 1 \in Q
  <2>1. PICK f : Turns(f, n)
    BY <1>3
  <2> DEFINE g == [i \in 0..(n + 1) |->
                      IF i = 0 THEN start ELSE InsertBytes(f[i - 1], records[i].frames, bytes[i])]
  <2>2. \A i \in 0..n : f[i] = IF i = 0 THEN start ELSE InsertBytes(f[i - 1], records[i].frames, bytes[i])
    BY <2>1
  <2>3. \A i \in 0..n : g[i] = f[i]
    BY <2>2
  <2>4. \A i \in 0..(n + 1) : i # 0 => i - 1 \in 0..n
    OBVIOUS
  <2>5. \A i \in 0..(n + 1) : i # 0 => g[i - 1] = f[i - 1]
    BY <2>3, <2>4
  <2>6. g = [i \in 0..(n + 1) |-> IF i = 0 THEN start ELSE InsertBytes(g[i - 1], records[i].frames, bytes[i])]
    BY <2>5
  <2> HIDE DEF g
  <2>7. Turns(g, n + 1) /\ n + 1 \in Nat
    BY <2>6
  <2> HIDE DEF Turns
  <2> QED
    BY <2>7
<1> HIDE DEF Q
<1>4. Nat \subseteq Q
  BY <1>2, <1>3, NatSetInduction
<1>5. Turns(r, Len(records))
  <2>1. Len(records) \in Q
    BY <1>4
  <2> QED
    BY <2>1 DEF Q
<1> HIDE DEF r
<1>6. \A i \in 0..Len(records) :
         r[i] = IF i = 0 THEN start ELSE InsertBytes(r[i - 1], records[i].frames, bytes[i])
  BY <1>5
<1> QED
  BY <1>1, <1>6 DEF start

(* The records up to n that have bytes, each under its own Frames. *)
Holds(data, records, bytes, n) ==
    /\ DOMAIN data = {records[i].frames : i \in {j \in 1..n : bytes[j] > 0}}
    /\ \A i \in 1..n : bytes[i] > 0 => data[records[i].frames] = bytes[i]

(* The Frames of a record have the record's time. *)
Timed(records, bytes) ==
    /\ DOMAIN bytes = DOMAIN records
    /\ \A i \in DOMAIN records : bytes[i] \in Int /\ records[i].frames.sample_timestamp = i

(* No insert of to_inuse_report replaces a value: no two records of a      *)
(* report have the same time.                                              *)
LEMMA ReportHolds ==
    ASSUME NEW S, NEW records \in Seq(S), NEW bytes, Timed(records, bytes)
    PROVE  Holds(ToReport(records, bytes), records, bytes, Len(records))
<1> DEFINE n == Len(records)
<1>1. n \in Nat /\ DOMAIN records = 1..n
  OBVIOUS
<1>2. PICK r : /\ \A i \in 0..n :
                    r[i] = IF i = 0 THEN <<>>
                           ELSE InsertBytes(r[i - 1], records[i].frames, bytes[i])
               /\ ToReport(records, bytes) = r[n]
  BY ToReportTurns
<1> DEFINE H(i) == Holds(r[i], records, bytes, i)
           Q == {i \in Nat : i <= n => H(i)}
<1> HIDE DEF n
<1>3. 0 \in Q
  <2>1. r[0] = <<>>
    BY <1>1, <1>2
  <2>2. DOMAIN <<>> = {} /\ 1..0 = {}
    BY EmptyReport
  <2> QED
    BY <2>1, <2>2 DEF Holds
<1>4. ASSUME NEW i \in Nat, i \in Q PROVE i + 1 \in Q
  <2> SUFFICES ASSUME i + 1 <= n PROVE H(i + 1)
    OBVIOUS
  <2> DEFINE k == i + 1
             f == records[k].frames
             old == r[i]
  <2>1. /\ k \in 0..n /\ k # 0 /\ k - 1 = i /\ k \in 1..n /\ 1..k = (1..i) \union {k}
        /\ \A j \in 1..i : j \in 1..n /\ j # k
    BY <1>1
  <2>2. Holds(old, records, bytes, i)
    BY <1>1, <1>4, <2>1
  <2>3. r[k] = InsertBytes(old, f, bytes[k])
    BY <1>2, <2>1
  <2>4. bytes[k] \in Int /\ f.sample_timestamp = k
    BY <1>1, <2>1 DEF Timed
  <2> HIDE DEF k, old
  <2>5. CASE bytes[k] > 0
    <3>1. \A g \in DOMAIN old : ~FramesEq(g, f)
      <4> SUFFICES ASSUME NEW g \in DOMAIN old PROVE ~FramesEq(g, f)
        OBVIOUS
      <4>1. PICK j \in 1..i : g = records[j].frames
        BY <2>2 DEF Holds
      <4>2. g.sample_timestamp = j /\ j # k
        BY <1>1, <2>1, <4>1 DEF Timed
      <4> QED
        BY <2>4, <4>2 DEF FramesEq
    <3>2. KeyIn(old, f) = f
      BY <3>1 DEF KeyIn
    <3>3. r[k] = Insert(old, f, bytes[k])
      BY <2>3, <2>5, <3>2 DEF InsertBytes
    <3>4. \A j \in 1..i : records[j].frames # f
      BY <1>1, <2>1, <2>4 DEF Timed
    <3> HIDE DEF f
    <3>5. DOMAIN r[k] = DOMAIN old \union {f} /\ r[k][f] = bytes[k]
          /\ \A g \in DOMAIN old : g # f => r[k][g] = old[g]
      BY <3>3 DEF Insert
    <3>6. DOMAIN r[k] = {records[j].frames : j \in {m \in 1..k : bytes[m] > 0}}
      <4>1. {m \in 1..k : bytes[m] > 0} = {m \in 1..i : bytes[m] > 0} \union {k}
        BY <2>1, <2>5
      <4> QED
        BY <2>2, <3>5, <4>1 DEF Holds, f
    <3>7. ASSUME NEW j \in 1..k, bytes[j] > 0 PROVE r[k][records[j].frames] = bytes[j]
      <4>1. CASE j = k
        BY <3>5, <4>1 DEF f
      <4>2. CASE j \in 1..i
        <5>1. records[j].frames \in DOMAIN old /\ old[records[j].frames] = bytes[j]
          BY <2>2, <3>7, <4>2 DEF Holds
        <5> QED
          BY <3>4, <3>5, <4>2, <5>1
      <4> QED
        BY <2>1, <4>1, <4>2
    <3> QED
      BY <3>6, <3>7 DEF Holds, k
  <2>6. CASE ~(bytes[k] > 0)
    <3>1. r[k] = old
      BY <2>3, <2>6 DEF InsertBytes
    <3>2. {m \in 1..k : bytes[m] > 0} = {m \in 1..i : bytes[m] > 0}
      BY <2>1, <2>6
    <3>3. \A j \in 1..k : bytes[j] > 0 => j \in 1..i
      BY <2>1, <2>6
    <3>4. Holds(r[k], records, bytes, k)
      BY <2>2, <3>1, <3>2, <3>3 DEF Holds
    <3> QED
      BY <3>4 DEF k
  <2> QED
    BY <2>5, <2>6
<1> HIDE DEF Q
<1>5. Nat \subseteq Q
  BY <1>3, <1>4, NatSetInduction
<1>6. H(n)
  BY <1>1, <1>5 DEF Q
<1> QED
  BY <1>2, <1>6 DEF n

(* What is there where it is more than nothing. *)
Positive(f) == [x \in {y \in DOMAIN f : f[y] > 0} |-> f[x]]

(* Nothing adds nothing. *)
LEMMA SumPositive ==
    ASSUME NEW f, IsFiniteSet(DOMAIN f), \A x \in DOMAIN f : f[x] \in Nat
    PROVE  SumFunction(Positive(f)) = SumFunction(f)
<1> DEFINE S == DOMAIN f
           P == {x \in S : f[x] # 0}
<1>1. IsFiniteSet(P) /\ DOMAIN Positive(f) = P /\ \A x \in P : Positive(f)[x] = f[x]
  <2>1. P = {x \in S : f[x] > 0}
    OBVIOUS
  <2>2. IsFiniteSet(P)
    BY FS_Subset
  <2> QED
    BY <2>1, <2>2 DEF Positive
<1> HIDE DEF P
<1>2. SumFunctionOnSet(Positive(f), P) = SumFunctionOnSet(f, P)
  BY <1>1, SumEqual
<1>3. SumFunctionOnSet(f, P) = SumFunctionOnSet(f, S)
  BY SumNonZero DEF P
<1> QED
  BY <1>1, <1>2, <1>3 DEF SumFunction

(* The report made of the records has their stacks and their bytes. *)
LEMMA ReportGroups ==
    ASSUME NEW S, NEW records \in Seq(S), NEW bytes, Timed(records, bytes)
    PROVE  LET data == ToReport(records, bytes)
           IN  /\ IsReport(data)
               /\ ByStack(data) = Grouped(Positive(bytes),
                                          [i \in DOMAIN records |-> Stack(records[i].frames)])
               /\ SumFunction(data) = SumFunction(Positive(bytes))
<1> DEFINE n == Len(records)
           data == ToReport(records, bytes)
           d == Positive(bytes)
           by == [i \in DOMAIN records |-> Stack(records[i].frames)]
           names == [i \in DOMAIN records |-> records[i].frames]
           other == [key \in DOMAIN data |-> Stack(key)]
           P == {j \in 1..n : bytes[j] > 0}
<1>1. n \in Nat /\ DOMAIN records = 1..n
  OBVIOUS
<1>2. Holds(data, records, bytes, n)
  BY ReportHolds
<1> HIDE DEF data
<1>3. IsFiniteSet(P) /\ P \subseteq 1..n
  <2>1. P \in SUBSET (1..n)
    OBVIOUS
  <2>2. IsFiniteSet(1..n)
    BY <1>1, FS_Interval
  <2> HIDE DEF P, n
  <2> QED
    BY <2>1, <2>2, FS_Subset
<1>4. DOMAIN d = P /\ \A i \in P : d[i] = bytes[i] /\ d[i] \in Nat \ {0}
  BY <1>1 DEF Positive, Timed
<1>5. DOMAIN data = {names[i] : i \in P} /\ \A i \in P : data[names[i]] = d[i]
  BY <1>1, <1>2, <1>4 DEF Holds
<1>6. \A i, j \in P : names[i] = names[j] => i = j
  BY <1>1, <1>3 DEF Timed
<1>7. \A i \in P : other[names[i]] = by[i]
  BY <1>1, <1>5
<1> HIDE DEF d, P, names
<1>8. IsReport(data)
  <2>1. IsFiniteSet({names[i] : i \in P})
    BY <1>3, ImageFinite
  <2> QED
    BY <1>4, <1>5, <2>1 DEF IsReport
<1> HIDE DEF by, other
<1>9. IsData(d) /\ IsData(data)
  <2>1. IsData(d)
    BY <1>3, <1>4 DEF IsData
  <2>2. IsData(data)
    BY <1>8, ReportIsData
  <2> QED
    BY <2>1, <2>2
<1>10. Renames(names, d, by, data, other)
  BY <1>4, <1>5, <1>6, <1>7 DEF Renames
<1>11. Grouped(d, by) = Grouped(data, other)
  BY <1>9, <1>10, GroupReindex
<1>12. SumFunction(d) = SumFunction(data)
  <2>1. SumFunction(Grouped(d, by)) = SumFunction(d)
    BY <1>9, GroupType
  <2>2. SumFunction(Grouped(data, other)) = SumFunction(data)
    BY <1>9, GroupType
  <2> QED
    BY <1>11, <2>1, <2>2
<1>13. ByStack(data) = Grouped(d, by)
  BY <1>11 DEF ByStack, other
<1> QED
  BY <1>8, <1>12, <1>13, Zenon DEF data, d, by

(* The thread in front of every stack changes no sum. *)
LEMMA GroupThreaded ==
    ASSUME NEW data, IsData(data), NEW by, NEW V, \A x \in DOMAIN data : by[x] \in Seq(V)
    PROVE  Threaded(Grouped(data, by))
              = Grouped(data, [x \in DOMAIN data |-> <<"0">> \o by[x]])
<1> DEFINE D == DOMAIN data
           Long(s) == <<"0">> \o s
           g == Grouped(data, by)
           far == [x \in D |-> Long(by[x])]
<1>1. \A s \in Seq(V) : Tail(Long(s)) = s
  <2> TAKE s \in Seq(V)
  <2> DEFINE W == V \union {"0"}
             q == Long(s)
  <2>1. <<"0">> \in Seq(W) /\ s \in Seq(W) /\ Len(<<"0">>) = 1
    OBVIOUS
  <2>2. /\ q \in Seq(W) /\ Len(q) = 1 + Len(s)
        /\ \A i \in 1..(1 + Len(s)) : q[i] = IF i <= 1 THEN <<"0">>[i] ELSE s[i - 1]
    BY <2>1, ConcatProperties
  <2> HIDE DEF q
  <2>3. /\ Tail(q) \in Seq(W) /\ Len(Tail(q)) = Len(s)
        /\ \A i \in 1..Len(s) : Tail(q)[i] = q[i + 1]
    BY <2>1, <2>2, HeadTailProperties
  <2>4. \A i \in 1..Len(s) : Tail(q)[i] = s[i]
    BY <2>1, <2>2, <2>3
  <2>5. Tail(q) = s
    BY <2>1, <2>3, <2>4, SeqEqual
  <2> QED
    BY <2>5 DEF q
<1>2. DOMAIN g = {by[x] : x \in D}
      /\ \A v \in DOMAIN g : g[v] = SumFunctionOnSet(data, {x \in D : by[x] = v})
  BY DEF Grouped
<1>3. DOMAIN Grouped(data, far) = {far[x] : x \in D}
      /\ \A v \in DOMAIN Grouped(data, far) :
            Grouped(data, far)[v] = SumFunctionOnSet(data, {x \in D : far[x] = v})
  BY DEF Grouped
<1> HIDE DEF g, Long
<1>4. {Long(s) : s \in DOMAIN g} = {far[x] : x \in D}
  BY <1>2
<1>5. ASSUME NEW x \in D
      PROVE  g[Tail(far[x])] = SumFunctionOnSet(data, {y \in D : far[y] = far[x]})
  <2>1. Tail(far[x]) = by[x]
    BY <1>1
  <2>2. \A y \in D : far[y] = far[x] <=> by[y] = by[x]
    BY <1>1
  <2>3. {y \in D : far[y] = far[x]} = {y \in D : by[y] = by[x]}
    BY <2>2
  <2> QED
    BY <1>2, <2>1, <2>3
<1>6. Threaded(g) = [v \in {far[x] : x \in D} |-> g[Tail(v)]]
  BY <1>4 DEF Threaded, Long
<1> HIDE DEF far
<1>7. \A v \in {far[x] : x \in D} : g[Tail(v)] = Grouped(data, far)[v]
  BY <1>3, <1>5
<1> DEFINE X == {far[x] : x \in D}
           h == Grouped(data, far)
<1>8. Threaded(g) = h
  <2>0. DOMAIN h = X
    BY <1>3
  <2>1. /\ Threaded(g) = [v \in X |-> g[Tail(v)]]
        /\ \A v \in X : g[Tail(v)] = h[v]
    BY <1>6, <1>7
  <2>3. h = [v \in DOMAIN h |-> h[v]]
    BY DEF Grouped
  <2> HIDE DEF X, h
  <2>2. [v \in X |-> g[Tail(v)]] = [v \in X |-> h[v]]
    BY <2>1
  <2> QED
    BY <2>0, <2>1, <2>2, <2>3
<1> QED
  BY <1>8 DEF g, far, Long, h

-----------------------------------------------------------------------------
(* What the counters are when a report is taken *)

(* Whatever is in use has been allocated. *)
AllocInv == \A id \in DOMAIN callsites : callsites[id].alloc >= callsites[id].inuse

(* Counters that get no more in use than allocated keep that. *)
LEMMA BumpAlloc ==
    ASSUME TypeInv, AllocInv, NEW id \in Nat, NEW a \in Int, NEW b \in Int, b <= a,
           Bump(id, a, b)
    PROVE  AllocInv'
<1>1. \A i \in DOMAIN callsites : callsites[i] \in Counters
  BY DEF TypeInv, TypeOK, Counters
<1>2. CASE id \in DOMAIN callsites
  <2>1. callsites' = [callsites EXCEPT ![id].alloc = @ + a, ![id].inuse = @ + b]
    BY <1>2 DEF Bump
  <2>2. callsites'[id] = [callsites[id] EXCEPT !.alloc = @ + a, !.inuse = @ + b]
    BY <1>2, <2>1
  <2>3. \A i \in DOMAIN callsites : i # id => callsites'[i] = callsites[i]
    BY <2>1
  <2>4. DOMAIN callsites' = DOMAIN callsites
    BY <2>1
  <2> DEFINE c == callsites[id]
             d == callsites'[id]
  <2>5. c \in Counters /\ d = [c EXCEPT !.alloc = @ + a, !.inuse = @ + b]
        /\ c.alloc >= c.inuse
    BY <1>1, <1>2, <2>2 DEF AllocInv
  <2> HIDE DEF c, d
  <2>6. d.alloc = c.alloc + a /\ d.inuse = c.inuse + b
    BY <2>5 DEF Counters
  <2>7. c.alloc \in Int /\ c.inuse \in Int
    BY <2>5 DEF Counters
  <2>8. d.alloc >= d.inuse
    BY <2>5, <2>6, <2>7
  <2> QED
    BY <2>3, <2>4, <2>8 DEF AllocInv, d
<1>3. CASE id \notin DOMAIN callsites
  BY <1>3 DEF Bump, AllocInv
<1> QED
  BY <1>2, <1>3

(* No step uses bytes that it has not allocated. *)
LEMMA AllocStep ==
    ASSUME TypeInv, AllocInv, [Next]_vars
    PROVE  AllocInv'
<1>1. CASE callsites' = callsites
  BY <1>1 DEF AllocInv
<1>2. ASSUME NEW t \in Threads, SiteInsert(t) PROVE AllocInv'
  <2> DEFINE n == reg[t].id
  <2>1. /\ DOMAIN callsites' = DOMAIN callsites \cup {n}
        /\ callsites'[n] = [ips |-> reg[t].site, alloc |-> 0, inuse |-> 0]
        /\ \A id \in DOMAIN callsites : id # n => callsites'[id] = callsites[id]
    BY <1>2, SiteInsertIs, Zenon
  <2>2. callsites'[n].alloc >= callsites'[n].inuse
    BY <2>1
  <2> HIDE DEF n
  <2> QED
    BY <2>1, <2>2 DEF AllocInv
<1>3. ASSUME NEW t \in Threads, CountAlloc(t) PROVE AllocInv'
  <2> DEFINE id == reg[t].id
             n == reg[t].size
  <2>1. id \in Nat /\ n \in Int /\ n <= n
    BY DEF TypeInv, TypeOK
  <2>2. Bump(id, n, n)
    BY <1>3 DEF CountAlloc
  <2> HIDE DEF id, n
  <2> QED
    BY <2>1, <2>2, BumpAlloc
<1>4. ASSUME NEW t \in Threads, CountDealloc(t) PROVE AllocInv'
  <2>1. CASE reg[t].gone = {}
    BY <1>1, <1>4, <2>1 DEF CountDealloc
  <2>2. CASE reg[t].gone # {}
    <3>1. PICK e \in reg[t].gone : Bump(e.id, 0, -e.size)
      BY <1>4, <2>2 DEF CountDealloc
    <3> DEFINE b == -e.size
               id == e.id
    <3>2. id \in Nat /\ b \in Int /\ 0 \in Int /\ b <= 0
      BY DEF TypeInv, TypeOK, LiveEntries
    <3>3. Bump(id, 0, b)
      BY <3>1
    <3> HIDE DEF b, id
    <3> QED
      BY <3>2, <3>3, BumpAlloc
  <2> QED
    BY <2>1, <2>2
<1>5. ASSUME NEW t \in Threads, ResetSites(t) PROVE AllocInv'
  BY <1>5 DEF ResetSites, NoMap, AllocInv
<1>6. ASSUME NEW t \in Threads, Step(t) PROVE AllocInv'
  <2>1. CASE Lookup(t) \/ MapWrite(t) \/ LiveInsert(t) \/ LiveRemove(t) \/ SystemFree(t)
             \/ ResetShard(t) \/ ResetMap(t) \/ ResetId(t) \/ ReportReturn(t)
    BY <1>1, <2>1 DEF Lookup, MapWrite, LiveInsert, LiveRemove, SystemFree,
       ResetShard, ResetMap, ResetId, ReportReturn, recordVars
  <2> QED
    BY <1>2, <1>3, <1>4, <1>5, <1>6, <2>1 DEF Step
<1>7. ASSUME NEW t \in Threads, Calls(t) \/ ReportCalls(t) PROVE AllocInv'
  <2>1. callsites' = callsites
    BY <1>7, CallForms DEF Allocates, Allocate, Releases, Release, Moves, Move,
       OtherCall, SetProfiling, SetSampleRate, Reset, HeapReport, recordVars
  <2> QED
    BY <1>1, <2>1
<1>9. CASE UNCHANGED vars
  BY <1>1, <1>9 DEF vars, recordVars
<1> QED
  BY <1>6, <1>7, <1>9 DEF Next

(* What a report finds: the counters of finitely many call stacks, which   *)
(* are the bytes of the sampled blocks that are allocated.                 *)
Settled ==
    /\ IsFiniteSet(DOMAIN callsites) /\ IsFiniteSet(DOMAIN live)
    /\ \A id \in DOMAIN callsites :
          /\ callsites[id].ips \in Sites
          /\ callsites[id].alloc \in Nat /\ callsites[id].inuse \in Nat
          /\ callsites[id].alloc >= callsites[id].inuse
          /\ callsites[id].inuse = LiveBytes(id)
    /\ \A p \in DOMAIN live :
          /\ heap[p] = live[p].size /\ live[p].size \in Nat \ {0}
          /\ live[p].id \in DOMAIN callsites

(* The invariants say so while nobody allocates, releases or resets. *)
LEMMA QuietIsSettled ==
    ASSUME HeapInv, AllocInv, ~mixed, ~paused, Quiet
    PROVE  Settled
<1>1. CountInv /\ TypeOK /\ IdInv /\ RecordInv /\ ExactInv
  BY DEF HeapInv, CountInv, TypeInv
<1>2. \A t \in Threads : pc[t] \notin {"insert", "uncount"} /\ pc[t] \notin Resetting
  BY DEF Quiet, Resetting
<1>3. IsFiniteSet(DOMAIN callsites)
  <2>1. DOMAIN callsites \in SUBSET Nat /\ nextId \in Nat
    BY <1>1 DEF TypeOK
  <2>2. \A id \in DOMAIN callsites : id <= nextId
    BY <1>1, <2>1 DEF IdInv
  <2> QED
    BY <2>1, <2>2, FS_BoundedSetOfNaturals
<1>4. IsFiniteSet(DOMAIN live)
  <2>1. DOMAIN live \in SUBSET Ptrs
    BY <1>1 DEF TypeOK
  <2> QED
    BY <2>1, HeapAssumption, FS_Subset
<1>5. ASSUME NEW id \in DOMAIN callsites
      PROVE  /\ callsites[id].ips \in Sites
             /\ callsites[id].alloc \in Nat /\ callsites[id].inuse \in Nat
             /\ callsites[id].alloc >= callsites[id].inuse
             /\ callsites[id].inuse = LiveBytes(id)
  <2>1. DueBytes(id) = LiveBytes(id) /\ LiveBytes(id) \in Nat
    BY <1>1, <1>2, AtRest
  <2>2. callsites[id].inuse = DueBytes(id)
    BY <1>1, <1>2 DEF ExactInv
  <2>3. callsites[id].ips \in Sites /\ callsites[id].alloc \in Int
    BY <1>1 DEF TypeOK
  <2>4. callsites[id].alloc >= callsites[id].inuse
    BY DEF AllocInv
  <2> QED
    BY <2>1, <2>2, <2>3, <2>4
<1>6. ASSUME NEW p \in DOMAIN live
      PROVE  /\ heap[p] = live[p].size /\ live[p].size \in Nat \ {0}
             /\ live[p].id \in DOMAIN callsites
  BY <1>1 DEF RecordInv, IdInv, TypeOK, LiveEntries
<1> QED
  BY <1>3, <1>4, <1>5, <1>6 DEF Settled

(* The bytes in use and the functions, by call stack. *)
InuseOf == [id \in DOMAIN callsites |-> callsites[id].inuse]
PathOf == [id \in DOMAIN callsites |-> CallPath(callsites[id].ips)]

(* The sampled blocks, put together by call stack and then by functions,   *)
(* are the counters put together by functions.                             *)
LEMMA LiveGroups ==
    ASSUME Settled
    PROVE  LiveByFunctions = Grouped(Positive(InuseOf), PathOf)
<1> DEFINE D == DOMAIN live
           L == [p \in D |-> heap[p]]
           ids == [p \in D |-> live[p].id]
           F(id) == {p \in D : ids[p] = id}
           g == Grouped(L, ids)
           P == {id \in DOMAIN callsites : callsites[id].inuse > 0}
<1>1. /\ DOMAIN L = D /\ IsFiniteSet(D)
      /\ \A p \in D : L[p] \in Nat \ {0} /\ L[p] = live[p].size /\ ids[p] \in DOMAIN callsites
  BY DEF Settled
<1>2. ASSUME NEW id
      PROVE  IsFiniteSet(F(id)) /\ LiveBytes(id) = SumFunctionOnSet(L, F(id))
  <2>1. F(id) = {q \in D : live[q].id = id}
    OBVIOUS
  <2> DEFINE h == [p \in {q \in D : live[q].id = id} |-> live[p].size]
             T == F(id)
  <2>2. LiveBytes(id) = SumFunction(h)
    BY DEF LiveBytes
  <2>3. T \in SUBSET D /\ DOMAIN h = T /\ \A p \in T : h[p] = L[p]
    BY <1>1, <2>1
  <2> HIDE DEF h, T
  <2>4. IsFiniteSet(T)
    BY <1>1, <2>3, FS_Subset
  <2>5. SumFunctionOnSet(h, T) = SumFunctionOnSet(L, T)
    BY <2>3, <2>4, SumEqual
  <2>6. LiveBytes(id) = SumFunctionOnSet(L, T)
    BY <2>2, <2>3, <2>5 DEF SumFunction
  <2> QED
    BY <2>4, <2>6 DEF T
<1>3. DOMAIN g = {ids[p] : p \in D}
      /\ \A id \in DOMAIN g : g[id] = SumFunctionOnSet(L, F(id))
  BY DEF Grouped
<1>4. g = [id \in DOMAIN g |-> g[id]]
  BY DEF Grouped
<1> HIDE DEF L, g
<1>5. ASSUME NEW id \in DOMAIN g PROVE id \in P /\ g[id] = callsites[id].inuse
  <2>1. PICK p \in D : ids[p] = id
    BY <1>3
  <2> DEFINE T == F(id)
             rest == SumFunctionOnSet(L, T \ {p})
  <2>2. p \in T /\ T \subseteq D /\ IsFiniteSet(T)
    BY <1>2, <2>1
  <2> HIDE DEF T
  <2>3. SumFunctionOnSet(L, T) = L[p] + rest
    BY <1>1, <2>2, SumRemove
  <2>4. rest \in Nat
    <3>1. IsFiniteSet(T \ {p}) /\ \A x \in T \ {p} : L[x] \in Nat
      BY <1>1, <2>2, FS_Subset
    <3> QED
      BY <3>1, SumNat
  <2> HIDE DEF rest
  <2>5. L[p] \in Nat \ {0} /\ id \in DOMAIN callsites
    BY <1>1, <2>1
  <2>6. SumFunctionOnSet(L, T) > 0
    BY <2>3, <2>4, <2>5
  <2>7. callsites[id].inuse = SumFunctionOnSet(L, T) /\ g[id] = SumFunctionOnSet(L, T)
    BY <1>2, <1>3, <2>5 DEF Settled, T
  <2> QED
    BY <2>5, <2>6, <2>7
<1>6. ASSUME NEW id \in P PROVE id \in DOMAIN g
  <2> DEFINE T == F(id)
  <2>1. SumFunctionOnSet(L, T) > 0
    BY <1>2 DEF Settled
  <2> HIDE DEF T
  <2>2. T # {}
    BY <2>1, SumEmpty
  <2> QED
    BY <1>3, <2>2 DEF T
<1>7. g = Positive(InuseOf)
  <2>1. DOMAIN g = P
    BY <1>5, <1>6
  <2>2. Positive(InuseOf) = [id \in P |-> callsites[id].inuse]
    <3>1. {y \in DOMAIN InuseOf : InuseOf[y] > 0} = P
      BY DEF InuseOf
    <3> HIDE DEF P
    <3>2. Positive(InuseOf) = [x \in P |-> InuseOf[x]]
      BY <3>1 DEF Positive
    <3>3. \A x \in P : InuseOf[x] = callsites[x].inuse
      BY DEF InuseOf, P
    <3> QED
      BY <3>2, <3>3
  <2>3. \A id \in P : g[id] = callsites[id].inuse
    BY <1>5, <2>1
  <2> HIDE DEF P
  <2> QED
    BY <1>4, <2>1, <2>2, <2>3
<1>8. IsData(L)
  BY <1>1 DEF IsData
<1>9. Grouped(g, PathOf) = Grouped(L, [x \in DOMAIN L |-> PathOf[ids[x]]])
  BY <1>8, GroupGroups DEF g
<1> DEFINE far == [x \in DOMAIN L |-> PathOf[ids[x]]]
           path == [p \in D |-> CallPath(callsites[live[p].id].ips)]
<1>10. \A x \in D : PathOf[ids[x]] = CallPath(callsites[live[x].id].ips)
  BY <1>1 DEF PathOf
<1>11. \A x \in DOMAIN L : far[x] = path[x]
  BY <1>1, <1>10
<1>12. LiveByFunctions = Grouped(L, path)
  BY DEF LiveByFunctions, L
<1> HIDE DEF far, path
<1>13. Grouped(L, far) = Grouped(L, path)
  BY <1>11, GroupSame
<1> QED
  BY <1>7, <1>9, <1>12, <1>13 DEF far

(* The bytes and the functions of the call stacks along a walk. *)
InuseAlong(order) == [i \in DOMAIN order |-> callsites[order[i]].inuse]
AllocAlong(order) == [i \in DOMAIN order |-> callsites[order[i]].alloc]
PathAlong(order) == [i \in DOMAIN order |-> CallPath(callsites[order[i]].ips)]

(* In whatever order the call stacks are walked, their bytes in use are    *)
(* those of the sampled blocks.                                            *)
LEMMA WalkGroups ==
    ASSUME Settled, NEW order \in SetToSeqs(DOMAIN callsites)
    PROVE  Grouped(Positive(InuseAlong(order)), PathAlong(order)) = LiveByFunctions
<1> DEFINE f == Positive(InuseAlong(order))
           g == Positive(InuseOf)
           P == {i \in DOMAIN order : callsites[order[i]].inuse > 0}
           Q == {id \in DOMAIN callsites : callsites[id].inuse > 0}
<1>1. /\ \A i \in DOMAIN order : order[i] \in DOMAIN callsites
      /\ \A i, j \in DOMAIN order : order[i] = order[j] => i = j
      /\ {order[i] : i \in DOMAIN order} = DOMAIN callsites
      /\ DOMAIN order = 1..Len(order) /\ Len(order) \in Nat
  BY WalkPasses DEF Settled
<1>2. DOMAIN f = P /\ \A i \in P : f[i] = callsites[order[i]].inuse
  BY DEF Positive, InuseAlong
<1>3. DOMAIN g = Q /\ \A id \in Q : g[id] = callsites[id].inuse
  BY DEF Positive, InuseOf
<1> HIDE DEF f, g
<1>4. {order[i] : i \in P} = Q
  BY <1>1
<1>5. IsData(f)
  <2>1. IsFiniteSet(DOMAIN order) /\ P \in SUBSET DOMAIN order
    BY <1>1, FS_Interval
  <2>2. \A i \in P : callsites[order[i]].inuse \in Int
    BY <1>1 DEF Settled
  <2> HIDE DEF P
  <2>3. IsFiniteSet(P)
    BY <2>1, FS_Subset
  <2> QED
    BY <1>2, <2>2, <2>3 DEF IsData
<1>6. \A i \in P : PathOf[order[i]] = PathAlong(order)[i] /\ order[i] \in Q
  BY <1>1 DEF PathOf, PathAlong
<1>7. Renames(order, f, PathAlong(order), g, PathOf)
  <2>1. \A i, j \in P : order[i] = order[j] => i = j
    BY <1>1
  <2> HIDE DEF P, Q
  <2>2. \A i \in P : g[order[i]] = callsites[order[i]].inuse
    BY <1>3, <1>6
  <2> QED
    BY <1>2, <1>3, <1>4, <1>6, <2>1, <2>2 DEF Renames
<1>8. Grouped(f, PathAlong(order)) = Grouped(g, PathOf)
  BY <1>5, <1>7, GroupReindex
<1> QED
  BY <1>8, LiveGroups DEF f, g

(* What is more in every place is more in every group, and in no fewer. *)
LEMMA GroupMore ==
    ASSUME NEW f, NEW g, NEW by, IsFiniteSet(DOMAIN f), DOMAIN g = DOMAIN f,
           \A x \in DOMAIN f : f[x] \in Nat /\ g[x] \in Nat /\ g[x] >= f[x],
           NEW v \in DOMAIN Grouped(Positive(f), by)
    PROVE  /\ v \in DOMAIN Grouped(Positive(g), by)
           /\ Grouped(Positive(g), by)[v] >= Grouped(Positive(f), by)[v]
<1> DEFINE D == DOMAIN f
           p == Positive(f)
           q == Positive(g)
           S == {x \in DOMAIN p : by[x] = v}
           T == {x \in DOMAIN q : by[x] = v}
<1>1. /\ DOMAIN p = {x \in D : f[x] > 0} /\ \A x \in DOMAIN p : p[x] = f[x]
      /\ DOMAIN q = {x \in D : g[x] > 0} /\ \A x \in DOMAIN q : q[x] = g[x]
  BY DEF Positive
<1>2. /\ v \in {by[x] : x \in DOMAIN p}
      /\ Grouped(p, by)[v] = SumFunctionOnSet(p, S)
  BY DEF Grouped
<1> HIDE DEF p, q
<1>3. DOMAIN p \subseteq DOMAIN q
  BY <1>1
<1>4. v \in {by[x] : x \in DOMAIN q} /\ v \in DOMAIN Grouped(q, by)
      /\ Grouped(q, by)[v] = SumFunctionOnSet(q, T)
  BY <1>2, <1>3 DEF Grouped
<1>5. S \in SUBSET T /\ T \in SUBSET D
  BY <1>1, <1>3
<1>6. \A x \in S : p[x] \in Int /\ q[x] \in Int /\ p[x] <= q[x]
  BY <1>1, <1>3
<1>7. \A x \in T : q[x] \in Nat
  BY <1>1
<1> HIDE DEF S, T
<1>8. IsFiniteSet(T) /\ IsFiniteSet(S)
  BY <1>5, FS_Subset
<1>9. SumFunctionOnSet(p, S) <= SumFunctionOnSet(q, S)
  BY <1>6, <1>8, SumMonotone
<1>10. SumFunctionOnSet(q, S) <= SumFunctionOnSet(q, T)
  BY <1>5, <1>7, <1>8, SumSubset
<1>11. /\ SumFunctionOnSet(p, S) \in Int /\ SumFunctionOnSet(q, S) \in Int
       /\ SumFunctionOnSet(q, T) \in Int
  <2>1. \A x \in T : q[x] \in Int
    BY <1>7
  <2> QED
    BY <1>6, <1>8, <2>1, SumInt
<1>12. SumFunctionOnSet(q, T) >= SumFunctionOnSet(p, S)
  BY <1>9, <1>10, <1>11
<1> QED
  BY <1>2, <1>4, <1>12 DEF p, q

-----------------------------------------------------------------------------
(* What is made of a heap report *)

(* The records of a walk: a time of its own, the functions of its call     *)
(* stack and its counters for each.                                        *)
LEMMA RecordsAre ==
    ASSUME Settled, NEW order \in SetToSeqs(DOMAIN callsites)
    PROVE  LET records == Records(order)
           IN  /\ records \in Seq(Range(records)) /\ DOMAIN records = DOMAIN order
               /\ DOMAIN order = 1..Len(order) /\ IsFiniteSet(DOMAIN order)
               /\ \A i \in DOMAIN order :
                     /\ records[i].inuse_bytes = InuseAlong(order)[i]
                     /\ records[i].alloc_bytes = AllocAlong(order)[i]
                     /\ InuseAlong(order)[i] \in Nat /\ AllocAlong(order)[i] \in Nat
                     /\ AllocAlong(order)[i] >= InuseAlong(order)[i]
                     /\ records[i].frames.sample_timestamp = i
                     /\ records[i].frames.frames \in Seq(Seq(AllSymbols))
                     /\ Reverse(Names(records[i].frames)) = PathAlong(order)[i]
                     /\ Stack(records[i].frames) = <<"0">> \o PathAlong(order)[i]
                     /\ PathAlong(order)[i] \in Seq({Name(s) : s \in AllSymbols})
<1> DEFINE records == Records(order)
           D == DOMAIN order
<1>1. /\ \A i \in D : order[i] \in DOMAIN callsites
      /\ D = 1..Len(order) /\ Len(order) \in Nat
  BY WalkPasses DEF Settled
<1>2. IsFiniteSet(D)
  <2>1. IsFiniteSet(1..Len(order))
    BY <1>1, FS_Interval
  <2> QED
    BY <1>1, <2>1
<1>3. /\ DOMAIN records = D
      /\ \A i \in D : /\ records[i].frames = HeapFrames(callsites[order[i]].ips, i)
                      /\ records[i].alloc_bytes = callsites[order[i]].alloc
                      /\ records[i].inuse_bytes = callsites[order[i]].inuse
  BY DEF Records
<1>4. records = [i \in D |-> records[i]]
  BY DEF Records
<1> HIDE DEF records
<1>5. records \in Seq(Range(records))
  <2>1. \A i \in D : records[i] \in Range(records)
    BY <1>3 DEF Range
  <2>2. records \in [1..Len(order) -> Range(records)]
    BY <1>1, <1>3, <1>4, <2>1
  <2> QED
    BY <1>1, <2>2
<1>6. ASSUME NEW i \in D
      PROVE  /\ records[i].inuse_bytes = InuseAlong(order)[i]
             /\ records[i].alloc_bytes = AllocAlong(order)[i]
             /\ InuseAlong(order)[i] \in Nat /\ AllocAlong(order)[i] \in Nat
             /\ AllocAlong(order)[i] >= InuseAlong(order)[i]
             /\ records[i].frames.sample_timestamp = i
             /\ records[i].frames.frames \in Seq(Seq(AllSymbols))
             /\ Reverse(Names(records[i].frames)) = PathAlong(order)[i]
             /\ Stack(records[i].frames) = <<"0">> \o PathAlong(order)[i]
             /\ PathAlong(order)[i] \in Seq({Name(s) : s \in AllSymbols})
  <2> DEFINE site == callsites[order[i]].ips
             f == HeapFrames(site, i)
  <2>1. site \in Sites
    BY <1>1 DEF Settled
  <2>2. records[i].frames = f /\ PathAlong(order)[i] = CallPath(site)
    BY <1>3 DEF PathAlong
  <2>3. /\ InuseAlong(order)[i] = callsites[order[i]].inuse
        /\ AllocAlong(order)[i] = callsites[order[i]].alloc
    BY DEF InuseAlong, AllocAlong
  <2>4. /\ callsites[order[i]].alloc \in Nat /\ callsites[order[i]].inuse \in Nat
        /\ callsites[order[i]].alloc >= callsites[order[i]].inuse
    BY <1>1 DEF Settled
  <2> HIDE DEF site
  <2>5. f.frames \in Seq(Seq(AllSymbols)) /\ f.sample_timestamp = i
    BY <2>1, RecordFrames, Zenon
  <2>6. Reverse(Names(f)) = CallPath(site) /\ Stack(f) = <<"0">> \o CallPath(site)
    BY <2>1, RecordStack, Zenon DEF HeapStack
  <2>7. CallPath(site) \in Seq({Name(s) : s \in AllSymbols})
    BY <2>1, CallPathType, Zenon
  <2> HIDE DEF f
  <2> QED
    BY <1>3, <2>2, <2>3, <2>4, <2>5, <2>6, <2>7
<1> QED
  BY <1>1, <1>2, <1>3, <1>5, <1>6 DEF records

(* A report made of the records of a walk has the bytes, by functions and  *)
(* behind the thread id 0, and the sum of them.                            *)
LEMMA ConvertedIs ==
    ASSUME Settled, NEW order \in SetToSeqs(DOMAIN callsites), NEW bytes,
           DOMAIN bytes = DOMAIN order, \A i \in DOMAIN order : bytes[i] \in Nat
    PROVE  LET data == ToReport(Records(order), bytes)
           IN  /\ IsReport(data)
               /\ ByStack(data) = Threaded(Grouped(Positive(bytes), PathAlong(order)))
               /\ TotalSamples(data) = SumFunction(bytes)
<1> DEFINE records == Records(order)
           data == ToReport(records, bytes)
           S == Range(records)
           D == DOMAIN order
           d == Positive(bytes)
           path == PathAlong(order)
           W == {Name(s) : s \in AllSymbols}
           by == [i \in DOMAIN records |-> Stack(records[i].frames)]
           far == [x \in DOMAIN d |-> <<"0">> \o path[x]]
<1>1. /\ records \in Seq(S) /\ DOMAIN records = D /\ IsFiniteSet(D)
      /\ \A i \in D : /\ records[i].frames.sample_timestamp = i
                      /\ Stack(records[i].frames) = <<"0">> \o path[i]
                      /\ path[i] \in Seq(W)
  BY RecordsAre, Zenon
<1> HIDE DEF records, path, S, W
<1>2. Timed(records, bytes)
  BY <1>1 DEF Timed
<1>3. /\ IsReport(data) /\ ByStack(data) = Grouped(d, by)
      /\ SumFunction(data) = SumFunction(d)
  BY <1>1, <1>2, ReportGroups, Zenon
<1>4. DOMAIN d \in SUBSET D /\ \A i \in DOMAIN d : d[i] \in Int
  BY DEF Positive
<1> HIDE DEF d
<1>5. IsData(d)
  <2>1. IsFiniteSet(DOMAIN d)
    BY <1>1, <1>4, FS_Subset
  <2> QED
    BY <1>4, <2>1 DEF IsData
<1>6. \A x \in DOMAIN d : by[x] = far[x] /\ path[x] \in Seq(W)
  BY <1>1, <1>4
<1> HIDE DEF by
<1>7. Grouped(d, by) = Grouped(d, far)
  <2> HIDE DEF far
  <2> QED
    BY <1>6, GroupSame
<1>8. Threaded(Grouped(d, path)) = Grouped(d, far)
  BY <1>5, <1>6, GroupThreaded
<1>9. TotalSamples(data) = SumFunction(data)
  BY <1>3, TotalIsSum
<1>10. SumFunction(d) = SumFunction(bytes)
  BY <1>1, SumPositive DEF d
<1> QED
  BY <1>3, <1>7, <1>8, <1>9, <1>10, Zenon DEF records, data, d, path

(* The conversions of a heap report are faithful to the sampled blocks. *)
LEMMA SettledReport ==
    ASSUME Settled PROVE HeapReportFaithful
<1> SUFFICES ASSUME NEW order \in SetToSeqs(DOMAIN callsites)
             PROVE  LET records == Records(order)
                        inuse == ToInuseReport(records)
                        alloc == ToAllocReport(records)
                    IN  /\ Tally(Folded(inuse, SetToSeq(DOMAIN inuse)))
                             = Threaded(LiveByFunctions)
                        /\ TotalSamples(inuse) = TotalInuseBytes(records)
                        /\ TotalSamples(alloc) = TotalAllocBytes(records)
  BY DEF HeapReportFaithful
<1> DEFINE records == Records(order)
           D == DOMAIN order
           used == InuseAlong(order)
           all == AllocAlong(order)
           inuse == ToReport(records, used)
           alloc == ToReport(records, all)
<1>1. /\ DOMAIN records = D
      /\ \A i \in D : /\ records[i].inuse_bytes = used[i] /\ records[i].alloc_bytes = all[i]
                      /\ used[i] \in Nat /\ all[i] \in Nat
  BY RecordsAre, Zenon
<1>2. /\ DOMAIN used = D /\ used = [i \in D |-> used[i]]
      /\ DOMAIN all = D /\ all = [i \in D |-> all[i]]
  BY DEF InuseAlong, AllocAlong
<1>3. Grouped(Positive(used), PathAlong(order)) = LiveByFunctions
  BY WalkGroups
<1> HIDE DEF used, all
<1>4. /\ IsReport(inuse)
      /\ ByStack(inuse) = Threaded(Grouped(Positive(used), PathAlong(order)))
      /\ TotalSamples(inuse) = SumFunction(used)
  BY <1>1, <1>2, ConvertedIs, Zenon
<1>5. TotalSamples(alloc) = SumFunction(all)
  BY <1>1, <1>2, ConvertedIs, Zenon
<1> HIDE DEF records
<1>6. ToInuseReport(records) = inuse /\ ToAllocReport(records) = alloc
  <2>1. [i \in DOMAIN records |-> records[i].inuse_bytes] = used
    BY <1>1, <1>2
  <2>2. [i \in DOMAIN records |-> records[i].alloc_bytes] = all
    BY <1>1, <1>2
  <2> QED
    BY <2>1, <2>2 DEF ToInuseReport, ToAllocReport
<1>7. TotalAllocBytes(records) = SumFunction(all)
  <2>1. [i \in DOMAIN records |-> records[i].alloc_bytes] = all
    BY <1>1, <1>2
  <2> QED
    BY <2>1 DEF TotalAllocBytes
<1>8. TotalInuseBytes(records) = SumFunction(used)
  <2>1. \A i \in D : Max({records[i].inuse_bytes, 0}) = used[i]
    BY <1>1, MaxZero
  <2>2. [i \in DOMAIN records |-> Max({records[i].inuse_bytes, 0})] = used
    BY <1>1, <1>2, <2>1
  <2> QED
    BY <2>2 DEF TotalInuseBytes
<1> HIDE DEF inuse, alloc
<1>9. Tally(Folded(inuse, SetToSeq(DOMAIN inuse))) = ByStack(inuse)
  <2>1. SetToSeq(DOMAIN inuse) \in SetToSeqs(DOMAIN inuse)
    BY <1>4, SetToSeqWalks DEF IsReport
  <2> QED
    BY <1>4, <2>1, FoldedTally
<1> QED
  BY <1>3, <1>4, <1>5, <1>6, <1>7, <1>8, <1>9, Zenon DEF records

(* The strings of a heap profile are finitely many. *)
LEMMA HeapStringsFinite == IsFiniteSet(HeapStrings)
<1> DEFINE h == <<"alloc_objects", "alloc_space", "inuse_objects", "inuse_space",
                  "count", "bytes", "space">>
<1>1. HeapStrings = {h[i] : i \in 1..7}
  BY DEF HeapStrings
<1> HIDE DEF h
<1>2. IsFiniteSet(1..7)
  <2>1. 1 \in Int /\ 7 \in Int
    OBVIOUS
  <2> QED
    BY <2>1, FS_Interval, Zenon
<1>3. IsFiniteSet({h[i] : i \in 1..7})
  BY <1>2, ImageFinite
<1> QED
  BY <1>1, <1>3

(* A column of a heap profile: the bytes by functions. *)
ColumnIs(p, order, type, bytes) ==
    Tally(HeapPprofLines(p, type)) = Grouped(Positive(bytes), PathAlong(order))

(* The columns of a heap profile are the bytes in use and the bytes ever   *)
(* allocated, by functions.                                                *)
LEMMA HeapColumns ==
    ASSUME Settled, NEW order \in SetToSeqs(DOMAIN callsites)
    PROVE  /\ ColumnIs(HeapPprof(Records(order)), order, "inuse_space", InuseAlong(order))
           /\ ColumnIs(HeapPprof(Records(order)), order, "alloc_space", AllocAlong(order))
<1> DEFINE records == Records(order)
           D == DOMAIN order
           used == InuseAlong(order)
           all == AllocAlong(order)
           path == PathAlong(order)
           keys == {rec.frames : rec \in Range(records)}
           walk == [i \in D |-> records[i].frames]
           p == HeapPprof(records)
           str == Strings(p.string_table)
<1>1. /\ DOMAIN records = D /\ D = 1..Len(order) /\ IsFiniteSet(D)
      /\ \A i \in D : /\ records[i].inuse_bytes = used[i] /\ records[i].alloc_bytes = all[i]
                      /\ used[i] \in Nat /\ all[i] \in Nat
                      /\ records[i].frames.frames \in Seq(Seq(AllSymbols))
                      /\ Reverse(Names(records[i].frames)) = path[i]
  BY RecordsAre, Zenon
<1>2. Len(order) \in Nat
  BY WalkPasses DEF Settled
<1>3. DOMAIN used = D /\ DOMAIN all = D /\ DOMAIN path = D
  BY DEF InuseAlong, AllocAlong, PathAlong
<1> HIDE DEF records, used, all, path
<1>4. keys = {walk[i] : i \in D}
  BY <1>1 DEF Range
<1>5. IsFiniteSet(keys)
  <2> HIDE DEF walk
  <2>1. IsFiniteSet({walk[i] : i \in D})
    BY <1>1, ImageFinite
  <2> QED
    BY <1>4, <2>1
<1>6. \A key \in keys : key.frames \in Seq(Seq(AllSymbols))
  BY <1>1, <1>4
<1>7. walk \in Seq(keys) /\ DOMAIN walk = D
  <2>1. walk \in [1..Len(order) -> keys]
    BY <1>1, <1>4
  <2> HIDE DEF walk, keys
  <2> QED
    BY <1>1, <1>2, <2>1
<1>8. IsProfileOf(p, keys, HeapStrings, walk)
  <2> DEFINE stacks == [i \in DOMAIN records |-> Symbols(records[i].frames)]
             done == PprofTables(str, stacks)
  <2>1. /\ p.string_table = StringTable(keys, HeapStrings)
        /\ p.function = done.fn_tbl /\ p.location = done.loc_tbl
        /\ \A i \in DOMAIN records : p.sample[i].location_id = done.location_ids[i]
    BY DEF HeapPprof
  <2>2. stacks = [i \in DOMAIN walk |-> Symbols(walk[i])]
    BY <1>1, <1>7
  <2> HIDE DEF stacks, p, keys, walk
  <2> QED
    BY <1>1, <1>7, <2>1, <2>2 DEF IsProfileOf
<1>9. /\ p.sample_type = <<[ty |-> str["alloc_space"], unit |-> str["bytes"]],
                           [ty |-> str["inuse_space"], unit |-> str["bytes"]]>>
      /\ DOMAIN p.sample = D
      /\ \A i \in D : p.sample[i].value = <<records[i].alloc_bytes,
                                           Max({records[i].inuse_bytes, 0})>>
  BY <1>1 DEF HeapPprof, HeapValues
<1> HIDE DEF p, keys, walk
<1>10. ReadsBack(p, keys, HeapStrings, walk)
  BY <1>5, <1>6, <1>7, <1>8, HeapStringsFinite, ProfileDecodes
<1>11. /\ At(p.string_table, str["alloc_space"]) = "alloc_space"
       /\ At(p.string_table, str["inuse_space"]) = "inuse_space"
  <2>1. "alloc_space" \in HeapStrings /\ "inuse_space" \in HeapStrings
    BY DEF HeapStrings
  <2>2. \A x \in HeapStrings : At(p.string_table, str[x]) = x
    BY <1>10, Zenon DEF ReadsBack
  <2> QED
    BY <2>1, <2>2, Zenon
<1>12. \A i \in D : PprofStack(p, p.sample[i].location_id) = path[i]
  <2>1. \A i \in DOMAIN walk :
           PprofStack(p, p.sample[i].location_id) = Reverse(Names(walk[i]))
    BY <1>10, Zenon DEF ReadsBack
  <2>2. \A i \in D : Reverse(Names(walk[i])) = path[i]
    BY <1>1 DEF walk
  <2> QED
    BY <1>7, <2>1, <2>2
<1>13. \A i \in D : p.sample[i].value[1] = all[i] /\ p.sample[i].value[2] = used[i]
  <2>1. \A i \in D : Max({records[i].inuse_bytes, 0}) = used[i]
    BY <1>1, MaxZero
  <2> TAKE i \in D
  <2> DEFINE a == records[i].alloc_bytes
             b == Max({records[i].inuse_bytes, 0})
             v == p.sample[i].value
  <2>2. v = <<a, b>> /\ a = all[i] /\ b = used[i]
    BY <1>1, <1>9, <2>1
  <2> HIDE DEF a, b, v
  <2>3. v[1] = a /\ v[2] = b
    BY <2>2
  <2> QED
    BY <2>2, <2>3 DEF v
<1>14. /\ DOMAIN p.sample_type = 1..2
       /\ At(p.string_table, p.sample_type[1].ty) = "alloc_space"
       /\ At(p.string_table, p.sample_type[2].ty) = "inuse_space"
  BY <1>9, <1>11
<1> HIDE DEF str
<1>15. ASSUME NEW type, NEW c, NEW bytes,
              c = CHOOSE k \in DOMAIN p.sample_type :
                      At(p.string_table, p.sample_type[k].ty) = type,
              DOMAIN bytes = D, \A i \in D : p.sample[i].value[c] = bytes[i]
       PROVE  ColumnIs(p, order, type, bytes)
  <2> DEFINE lines == HeapPprofLines(p, type)
             d == Positive(bytes)
             P == {i \in D : bytes[i] > 0}
  <2>1. lines = [i \in {i \in DOMAIN p.sample : p.sample[i].value[c] > 0} |->
                    [stack |-> PprofStack(p, p.sample[i].location_id),
                     weight |-> p.sample[i].value[c]]]
    BY <1>15, Zenon DEF HeapPprofLines
  <2>2. {i \in DOMAIN p.sample : p.sample[i].value[c] > 0} = P
    BY <1>9, <1>15
  <2>3. DOMAIN lines = P /\ \A i \in P : lines[i].weight = bytes[i] /\ lines[i].stack = path[i]
    <3>1. lines = [i \in P |-> [stack |-> PprofStack(p, p.sample[i].location_id),
                                weight |-> p.sample[i].value[c]]]
      BY <2>1, <2>2
    <3> HIDE DEF lines
    <3>2. DOMAIN lines = P
      BY <3>1
    <3>3. \A i \in P : /\ lines[i].weight = p.sample[i].value[c]
                       /\ lines[i].stack = PprofStack(p, p.sample[i].location_id)
      BY <3>1
    <3> QED
      BY <1>12, <1>15, <3>2, <3>3
  <2>4. d = [i \in P |-> bytes[i]]
    BY <1>15 DEF Positive
  <2> HIDE DEF lines, P
  <2>5. [i \in DOMAIN lines |-> lines[i].weight] = d
    BY <2>3, <2>4
  <2>6. DOMAIN d = P
    BY <2>4
  <2> DEFINE stack == [i \in DOMAIN lines |-> lines[i].stack]
  <2>7. Tally(lines) = Grouped(d, stack)
    BY <2>5 DEF Tally
  <2>8. \A x \in DOMAIN d : stack[x] = path[x]
    BY <2>3, <2>6
  <2> HIDE DEF d, stack
  <2>9. Grouped(d, stack) = Grouped(d, path)
    BY <2>8, GroupSame
  <2> QED
    BY <2>7, <2>9 DEF ColumnIs, lines, d, path
<1>16. ASSUME NEW type, NEW c \in 1..2,
              \A k \in 1..2 : At(p.string_table, p.sample_type[k].ty) = type <=> k = c
       PROVE  c = CHOOSE k \in DOMAIN p.sample_type :
                      At(p.string_table, p.sample_type[k].ty) = type
  BY <1>14, <1>16
<1>17. ColumnIs(p, order, "inuse_space", used)
  <2>1. \A k \in 1..2 : At(p.string_table, p.sample_type[k].ty) = "inuse_space" <=> k = 2
    BY <1>14
  <2>2. 2 = CHOOSE k \in DOMAIN p.sample_type :
                At(p.string_table, p.sample_type[k].ty) = "inuse_space"
    BY <1>16, <2>1
  <2> QED
    BY <1>3, <1>13, <1>15, <2>2
<1>18. ColumnIs(p, order, "alloc_space", all)
  <2>1. \A k \in 1..2 : At(p.string_table, p.sample_type[k].ty) = "alloc_space" <=> k = 1
    BY <1>14
  <2>2. 1 = CHOOSE k \in DOMAIN p.sample_type :
                At(p.string_table, p.sample_type[k].ty) = "alloc_space"
    BY <1>16, <2>1
  <2> QED
    BY <1>3, <1>13, <1>15, <2>2
<1> QED
  BY <1>17, <1>18 DEF p, records, used, all

(* A pprof heap profile is faithful to the sampled blocks. *)
LEMMA SettledPprof ==
    ASSUME Settled PROVE HeapPprofFaithful
<1> SUFFICES ASSUME NEW order \in SetToSeqs(DOMAIN callsites)
             PROVE  LET p == HeapPprof(Records(order))
                        inuse == Tally(HeapPprofLines(p, "inuse_space"))
                        alloc == Tally(HeapPprofLines(p, "alloc_space"))
                    IN  /\ inuse = LiveByFunctions
                        /\ \A st \in DOMAIN inuse :
                               st \in DOMAIN alloc /\ alloc[st] >= inuse[st]
  BY DEF HeapPprofFaithful
<1> DEFINE p == HeapPprof(Records(order))
           inuse == Tally(HeapPprofLines(p, "inuse_space"))
           alloc == Tally(HeapPprofLines(p, "alloc_space"))
           used == InuseAlong(order)
           all == AllocAlong(order)
           path == PathAlong(order)
<1>1. inuse = Grouped(Positive(used), path) /\ alloc = Grouped(Positive(all), path)
  BY HeapColumns DEF ColumnIs
<1>2. Grouped(Positive(used), path) = LiveByFunctions
  BY WalkGroups
<1>3. IsFiniteSet(DOMAIN order)
      /\ \A i \in DOMAIN order : used[i] \in Nat /\ all[i] \in Nat /\ all[i] >= used[i]
  BY RecordsAre, Zenon
<1>4. DOMAIN used = DOMAIN order /\ DOMAIN all = DOMAIN order
  BY DEF InuseAlong, AllocAlong
<1> HIDE DEF used, all, path, inuse, alloc
<1>5. \A st \in DOMAIN inuse : st \in DOMAIN alloc /\ alloc[st] >= inuse[st]
  BY <1>1, <1>3, <1>4, GroupMore
<1> QED
  BY <1>1, <1>2, <1>5, Zenon DEF p, inuse, alloc

(* The invariants say what a heap report is converted to. *)
LEMMA HeapFaithful ==
    HeapInv /\ AllocInv /\ ~mixed => HeapReportFaithful /\ HeapPprofFaithful
<1> SUFFICES ASSUME HeapInv, AllocInv, ~mixed
             PROVE  HeapReportFaithful /\ HeapPprofFaithful
  OBVIOUS
<1>1. CASE Quiet /\ ~paused
  BY <1>1, QuietIsSettled, SettledReport, SettledPprof
<1>2. CASE ~(Quiet /\ ~paused)
  BY <1>2 DEF HeapReportFaithful, HeapPprofFaithful
<1> QED
  BY <1>1, <1>2

(* All the invariants are inductive together with AllocInv, without realloc. *)
LEMMA ExportInductive ==
    ASSUME NoRealloc
    PROVE  /\ Init => HeapInv /\ AllocInv
           /\ HeapInv /\ AllocInv /\ [Next]_vars => (HeapInv /\ AllocInv)'
<1>1. Init => AllocInv
  BY DEF Init, AllocInv, NoMap
<1>2. HeapInv /\ AllocInv /\ [Next]_vars => AllocInv'
  BY AllocStep DEF HeapInv, CountInv
<1> QED
  BY <1>1, <1>2, HeapInductive

(* For every program that does not realloc: the flamegraph of the bytes in *)
(* use that to_inuse_report leads to is exactly the sampled blocks that    *)
(* are allocated, by their functions, and no conversion drops a byte of    *)
(* the totals, unless a reset overlapped an allocation or a release.       *)
THEOREM HeapReportExact ==
    ASSUME NoRealloc
    PROVE  Spec => [](~mixed => HeapReportFaithful)
<1>1. HeapInv /\ AllocInv => (~mixed => HeapReportFaithful)
  BY HeapFaithful
<1> QED
  BY <1>1, ExportInductive, PTL DEF Spec

(* The same of the inuse_space column of HeapReport::pprof, whose          *)
(* alloc_space column has at least as much for every stack.                *)
THEOREM HeapPprofExact ==
    ASSUME NoRealloc
    PROVE  Spec => [](~mixed => HeapPprofFaithful)
<1>1. HeapInv /\ AllocInv => (~mixed => HeapPprofFaithful)
  BY HeapFaithful
<1> QED
  BY <1>1, ExportInductive, PTL DEF Spec

(* For every program that neither reallocs nor resets, both hold in every  *)
(* state in which nobody is allocating or releasing a block.               *)
THEOREM HeapExportsExactAlways ==
    ASSUME NoRealloc, "reset" \notin Ops
    PROVE  Spec => [](HeapReportFaithful /\ HeapPprofFaithful)
<1>1. Init => NoReset
  BY DEF Init, NoReset, Resetting
<1>2. HeapInv /\ NoReset /\ [Next]_vars => NoReset'
  BY NoResetStep DEF HeapInv, CountInv
<1>3. HeapInv /\ AllocInv /\ NoReset => HeapReportFaithful /\ HeapPprofFaithful
  BY HeapFaithful DEF NoReset
<1> QED
  BY <1>1, <1>2, <1>3, ExportInductive, PTL DEF Spec
=============================================================================
