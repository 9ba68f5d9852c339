------------------------------- MODULE Report -------------------------------
(***************************************************************************)
(* The reports made from a collector (src/src/report.rs).  Building one    *)
(* changes nothing: build_unresolved and build are functions of the        *)
(* collector's state, taken with the profiler locked.                      *)
(***************************************************************************)
EXTENDS Collector, Encoders

CONSTANT Frequency  \* timing.frequency

ASSUME FrequencyAssumption == Frequency \in Nat \ {0}

ASSUME KeysAssumption == Keys \subseteq DOMAIN Unwound

(* The kernel enters the handler, which returns to the trampoline: it has  *)
(* no other caller, and does not interrupt itself.                         *)
ASSUME TrampolineAssumption ==
    \A k \in Keys : \A i, j \in DOMAIN Unwound[k] :
        IsHandler(Unwound[k][i]) /\ j = i + 1 => ~IsHandler(Unwound[k][j])

(* HashCounter::iter: the entries of the first n buckets, in order. *)
MapIter[n \in 0..Buckets] == IF n = 0 THEN <<>> ELSE MapIter[n - 1] \o map[n - 1]

(* Collector::try_iter: every entry of the table, then of the temp array.  *)
Iter == MapIter[Buckets] \o TempIter

(* The key under which hash_map finds an entry's stack, or will: an equal  *)
(* one that came before keeps its place.                                   *)
UnresolvedKey(sofar, e) ==
    LET equal == {k \in DOMAIN sofar : UnresolvedEq(k, e.item)}
    IN  IF equal = {} THEN e.item ELSE CHOOSE k \in equal : TRUE

(* One turn of build_unresolved's loop: the entry is added to what its     *)
(* stack has in hash_map, or inserted.                                     *)
UnresolvedMerge(sofar, e) ==
    IF e.count > 0 THEN Added(sofar, UnresolvedKey(sofar, e), e.count) ELSE sofar

(* The loop (what it has so far is bound in a set of one, so that TLC      *)
(* builds it once).                                                        *)
Merged(entries) ==
    LET report[n \in 0..Len(entries)] ==
            IF n = 0 THEN <<>>
            ELSE CHOOSE merged \in
                     {UnresolvedMerge(sofar, entries[n]) : sofar \in {report[n - 1]}} : TRUE
    IN  report[Len(entries)]

(* build_unresolved: the entries of equal stacks are merged. *)
UnresolvedReport == Merged(Iter)

(* The key of an entry in a report: the Frames it resolves to, with its    *)
(* timestamp.                                                              *)
ResolvedKey(e) ==
    LET f == FramesFrom[e.item]
    IN  [frames |-> f.frames, thread_name |-> f.thread_name,
         thread_id |-> f.thread_id, sample_timestamp |-> e.at]

(* One turn of build's loop: entries that resolve to equal Frames are      *)
(* merged under the first of them.                                         *)
ResolvedMerge(sofar, e) ==
    IF e.count > 0 THEN Added(sofar, KeyIn(sofar, ResolvedKey(e)), e.count)
    ELSE sofar

Resolved(entries) ==
    LET report[n \in 0..Len(entries)] ==
            IF n = 0 THEN <<>> ELSE ResolvedMerge(report[n - 1], entries[n])
    IN  report[Len(entries)]

(* build *)
ResolvedReport == Resolved(Iter)

(* unique_stacks: the number of keys of the report's map. *)
UniqueStacks == Cardinality(DOMAIN ResolvedReport)

-----------------------------------------------------------------------------
(* Properties *)

(* What Eq compares of a stack: the functions and the thread. *)
Kind == [k \in Keys |-> [functions |-> Addresses[k], thread |-> ThreadId[k]]]

(* The stacks a report has, with their counts, and none when it fails.     *)
Reported == IF Readable THEN UnresolvedReport ELSE <<>>

(* What a map of stacks holds for those of a kind. *)
CountOfKind(report, kind) ==
    LET equal == {k \in DOMAIN report : Kind[k] = kind}
    IN  IF equal = {} THEN 0 ELSE report[CHOOSE k \in equal : TRUE]

(* What the report counts for every kind (bound in a set of one, so that   *)
(* TLC builds the report once).                                            *)
Counts ==
    CHOOSE counts \in
        {[kind \in Range(Kind) |-> CountOfKind(report, kind)] : report \in {Reported}} : TRUE

(* Through any history of evictions, flushes and failed writes a report    *)
(* either counts every sample added, among those of its functions and      *)
(* thread, or fails, and a collector that has failed once never reports    *)
(* again.                                                                  *)
Bag == INSTANCE SampleBag
         WITH Kinds <- Range(Kind), lost <- ~Readable, counts <- Counts
ImplementsBag == Bag!Spec

(* The interrupted code of a stack, from its thread and its root: what is  *)
(* neither the signal handler nor its trampoline.                          *)
Interrupted(k) ==
    LET outer == {i \in DOMAIN Unwound[k] :
                     \A j \in {i, i - 1} \intersect DOMAIN Unwound[k] :
                         ~IsHandler(Unwound[k][j])}
        frames == [i \in DOMAIN Unwound[k] |->
                      IF i \in outer THEN Unwound[k][i] ELSE <<>>]
        symbols == FlattenSeq(frames)
        thread == IF ThreadName[k] = "" THEN ThreadId[k] ELSE ThreadName[k]
    IN  <<thread>> \o Reverse([i \in DOMAIN symbols |-> Name(symbols[i])])

(* The samples by the code they are shown to have interrupted: that of the *)
(* first sample of the entry they were counted in.                         *)
Expected == Grouped(samples, [s \in DOMAIN samples |-> Interrupted(s.shown)])

(* Samples at different ips of one function share an entry, and the report *)
(* resolves the ips, the inlined calls and the thread's name of the first: *)
(* whatever was evicted and merged, a stack in the report is, at its time, *)
(* one that was taken, and counts only samples of its functions and thread.*)
ShownWasTaken ==
    /\ \A s \in DOMAIN samples : Kind[s.taken] = Kind[s.shown]
    /\ Readable =>
          \A f \in DOMAIN ResolvedReport : \E s \in DOMAIN samples :
             s.taken = s.shown /\ f = ResolvedKey([item |-> s.taken, at |-> s.at])

(* From the signal to the file: whatever the collector evicted and however *)
(* the report merged it, the folded stacks count every sample once, under  *)
(* what the first sample of its entry interrupted, without the handler's   *)
(* own frames, in whatever order the HashMap is walked.                    *)
FoldedFaithful ==
    Readable =>
        LET report == ResolvedReport
            expected == Expected
        IN  \A order \in SetToSeqs(DOMAIN report) :
                Tally(Folded(report, order)) = expected

(* The same of a speedscope file, although stacks, and threads named like  *)
(* functions, share one table; its end value is total_samples, which is    *)
(* the number of samples taken.                                            *)
SpeedscopeFaithful ==
    Readable =>
        LET report == ResolvedReport
            expected == Expected
        IN  \A order \in SetToSeqs(DOMAIN report) :
                LET p == Speedscope(report, order)
                IN  /\ Tally(SpeedscopeLines(p)) = expected
                    /\ p.total = TotalSamples(report)
                    /\ p.total = SumFunction(expected)

(* The same of a pprof profile: every string, location and function id     *)
(* resolves, to the demangled name of the symbol it was written for,       *)
(* although functions of one name share an entry.                          *)
PprofFaithful ==
    Readable =>
        LET report == ResolvedReport
            expected == Expected
        IN  \A order \in SetToSeqs(DOMAIN report) :
                Tally(PprofLines(Pprof(report, order, Frequency))) = expected

(* "Returns the number of unique backtraces recorded." (report.rs:159)     *)
UniqueStacksExact ==
    Readable => UniqueStacks = Cardinality(DOMAIN UnresolvedReport)
=============================================================================
