----------------------------- MODULE HeapExport -----------------------------
(***************************************************************************)
(* What heap_report makes of the callsites, and the formats a HeapReport   *)
(* is turned into (src/src/alloc.rs): a Report of the bytes in use, one of *)
(* the bytes ever allocated, and a pprof profile.  The callsites are       *)
(* walked in any order (`order`, a sequence of their ids).  None of this   *)
(* changes the state; the counters are taken in one step.                  *)
(***************************************************************************)
EXTENDS HeapProfiler, Encoders

ASSUME SitesAssumption == Sites \subseteq DOMAIN Unwound

RecordTime_Once(i) == 0

(* sample_timestamp: SystemTime::now() is read for every record, after its *)
(* symbols have been resolved, and is taken to have moved on.              *)
RecordTime(i) == i

(* The Frames of a record: every frame that has a symbol, no thread. *)
HeapFrames(site, i) ==
    LET kept[n \in 0..Len(Unwound[site])] ==
            IF n = 0 THEN <<>>
            ELSE IF Unwound[site][n] = <<>> THEN kept[n - 1]
            ELSE Append(kept[n - 1], Unwound[site][n])
    IN  [frames |-> kept[Len(Unwound[site])], thread_name |-> "",
         thread_id |-> "0", sample_timestamp |-> RecordTime(i)]

(* heap_report: a record per call site. *)
Records(order) ==
    [i \in DOMAIN order |->
        LET data == callsites[order[i]]
        IN  [frames |-> HeapFrames(data.ips, i),
             alloc_bytes |-> data.alloc, inuse_bytes |-> data.inuse]]

(* total_inuse_bytes *)
TotalInuseBytes(records) ==
    SumFunction([i \in DOMAIN records |-> Max({records[i].inuse_bytes, 0})])

(* total_alloc_bytes *)
TotalAllocBytes(records) ==
    SumFunction([i \in DOMAIN records |-> records[i].alloc_bytes])

(* HashMap::insert: a value under equal Frames is replaced. *)
InsertBytes(data, frames, bytes) ==
    IF bytes > 0 THEN Insert(data, KeyIn(data, frames), bytes) ELSE data

(* The loop over the records, of which each has these bytes. *)
ToReport(records, bytes) ==
    LET data[i \in 0..Len(records)] ==
            IF i = 0 THEN <<>>
            ELSE InsertBytes(data[i - 1], records[i].frames, bytes[i])
    IN  data[Len(records)]

(* to_inuse_report *)
ToInuseReport(records) ==
    ToReport(records, [i \in DOMAIN records |-> records[i].inuse_bytes])

(* to_alloc_report *)
ToAllocReport(records) ==
    ToReport(records, [i \in DOMAIN records |-> records[i].alloc_bytes])

HeapStrings == {"alloc_objects", "alloc_space", "inuse_objects", "inuse_space",
                "count", "bytes", "space"}

HeapValues_InuseFirst(rec) == <<Max({rec.inuse_bytes, 0}), rec.alloc_bytes>>

(* The values of a sample, in the order of sample_types. *)
HeapValues(rec) == <<rec.alloc_bytes, Max({rec.inuse_bytes, 0})>>

(* HeapReport::pprof: a sample per record, without a label; functions are  *)
(* shared as in a Report's.                                                *)
HeapPprof(records) ==
    LET tbl == StringTable({rec.frames : rec \in Range(records)}, HeapStrings)
        str == Strings(tbl)
        done == PprofTables(str, [i \in DOMAIN records |-> Symbols(records[i].frames)])
    IN  [sample |-> [i \in DOMAIN records |->
                        [location_id |-> done.location_ids[i],
                         value |-> HeapValues(records[i])]],
         function |-> done.fn_tbl,
         location |-> done.loc_tbl, string_table |-> tbl, period |-> rate,
         sample_type |-> <<[ty |-> str["alloc_space"], unit |-> str["bytes"]],
                           [ty |-> str["inuse_space"], unit |-> str["bytes"]]>>]

-----------------------------------------------------------------------------
(* What a reader makes of a heap profile's column: lines as write_folded's *)
(* but for the thread; samples without bytes say nothing.                  *)

HeapPprofLines(p, type) ==
    LET column == CHOOSE c \in DOMAIN p.sample_type :
                      At(p.string_table, p.sample_type[c].ty) = type
    IN  [i \in {i \in DOMAIN p.sample : p.sample[i].value[column] > 0} |->
            [stack |-> PprofStack(p, p.sample[i].location_id),
             weight |-> p.sample[i].value[column]]]

-----------------------------------------------------------------------------
(* Properties *)

(* Nobody is in the middle of a call that changes the records. *)
Quiet == \A t \in Threads : pc[t] \in {"idle", "report"}

(* The functions of a call stack, from its root. *)
CallPath(site) ==
    LET symbols == FlattenSeq(Unwound[site])
    IN  Reverse([i \in DOMAIN symbols |-> Name(symbols[i])])

(* The sampled blocks that are allocated now, by the functions that        *)
(* allocated them.                                                         *)
LiveByFunctions ==
    Grouped([p \in DOMAIN live |-> heap[p]],
            [p \in DOMAIN live |-> CallPath(callsites[live[p].id].ips)])

Threaded(tally) ==
    [st \in {<<"0">> \o s : s \in DOMAIN tally} |-> tally[Tail(st)]]

(* "Converts in-use (live) heap allocations into a standard `Report`"      *)
(* (alloc.rs:337): the flamegraph of the bytes in use shows the sampled    *)
(* blocks that are allocated, by their functions, although call sites may  *)
(* differ in an address only and the report is keyed by symbols; and       *)
(* neither conversion drops a byte of the report's totals.                 *)
HeapReportFaithful ==
    Quiet /\ ~paused =>
        \A order \in SetToSeqs(DOMAIN callsites) :
            LET records == Records(order)
                inuse == ToInuseReport(records)
                alloc == ToAllocReport(records)
            IN  /\ Tally(Folded(inuse, SetToSeq(DOMAIN inuse)))
                     = Threaded(LiveByFunctions)
                /\ TotalSamples(inuse) = TotalInuseBytes(records)
                /\ TotalSamples(alloc) = TotalAllocBytes(records)

(* The same of the inuse_space column of a pprof heap profile, whose       *)
(* alloc_space column has at least as much for every stack.                *)
HeapPprofFaithful ==
    Quiet /\ ~paused =>
        \A order \in SetToSeqs(DOMAIN callsites) :
            LET p == HeapPprof(Records(order))
                inuse == Tally(HeapPprofLines(p, "inuse_space"))
                alloc == Tally(HeapPprofLines(p, "alloc_space"))
            IN  /\ inuse = LiveByFunctions
                /\ \A st \in DOMAIN inuse :
                       st \in DOMAIN alloc /\ alloc[st] >= inuse[st]
=============================================================================
