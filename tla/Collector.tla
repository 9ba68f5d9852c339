----------------------------- MODULE Collector -----------------------------
(***************************************************************************)
(* The sample store of pprof-rs (src/src/collector.rs): a hash table of    *)
(* small buckets that evicts its least counted entry into a buffered       *)
(* temporary file, and reads both back for a report.                       *)
(*                                                                         *)
(* The handler calls add with the profiler locked, so add is one step; the *)
(* difficulty is the file, whose writes can fail half way.  The file is    *)
(* measured in entries: what a torn entry holds is never read.             *)
(***************************************************************************)
EXTENDS Naturals, Sequences, BagsExt, Frames

CONSTANTS
    Keys,           \* the stacks (UnresolvedFrames but for the timestamp)
    Buckets,        \* BUCKETS: the number of buckets
    Hash,           \* Hash[k]: the bucket of a stack, hash % BUCKETS
    Associativity,  \* BUCKETS_ASSOCIATIVITY
    BufferLength,   \* BUFFER_LENGTH
    Clock,          \* Clock[n]: the system time at which sample n is taken
    DiskFails,      \* TRUE: a write to the temporary file may fail
    MaxAdds         \* bound on the samples added

ASSUME SizeAssumption ==
    /\ Buckets \in Nat \ {0} /\ Associativity \in Nat \ {0}
    /\ BufferLength \in Nat \ {0} /\ MaxAdds \in Nat
    /\ DiskFails \in BOOLEAN

ASSUME ClockAssumption == Clock \in [0..MaxAdds -> Nat]

(* Hash takes in what Eq compares. *)
ASSUME HashAssumption ==
    /\ Hash \in [Keys -> 0..(Buckets - 1)]
    /\ \A k, l \in Keys : UnresolvedEq(k, l) => Hash[k] = Hash[l]

VARIABLES
    map,        \* HashCounter: per bucket its entries[0..length]
    buffer,     \* TempFdArray: buffer[0..buffer_index]
    flushN,     \* flush_n
    file,       \* the entries in the temporary file
    now,        \* the samples added so far
    failed,     \* history: some write failed
    samples     \* history: the samples, each with the entry that counts it

vars == <<map, buffer, flushN, file, now, failed, samples>>

(* An entry's item is a stack with the time of the sample that created it. *)
Entry(k, at, n) == [item |-> k, at |-> at, count |-> n]

Entries == [item : Keys, at : Nat, count : Nat]

Samples == [taken : Keys, shown : Keys, at : Nat]

-----------------------------------------------------------------------------
(* Bucket *)

Matches_SkipsLast(b, k) ==
    {i \in DOMAIN b : UnresolvedEq(b[i].item, k) /\ i < Len(b)}

(* The entries of the bucket for this stack, which keep their own item.    *)
Matches(b, k) == {i \in DOMAIN b : UnresolvedEq(b[i].item, k)}

Counted(b, k, n) ==
    [i \in DOMAIN b |-> IF i \in Matches(b, k)
                        THEN Entry(b[i].item, b[i].at, b[i].count + n)
                        ELSE b[i]]

MinIndex_Last(b) ==
    CHOOSE i \in DOMAIN b : \A j \in DOMAIN b : b[i].count >= b[j].count

(* The first of the least counted entries. *)
MinIndex(b) ==
    CHOOSE i \in DOMAIN b : \A j \in DOMAIN b :
        b[i].count <= b[j].count /\ (j < i => b[i].count < b[j].count)

BucketAdd_OffByOne(b, k, at, n) ==
    IF Matches(b, k) # {}
    THEN [bucket |-> Counted(b, k, n), evict |-> <<>>]
    ELSE IF Len(b) <= Associativity
    THEN [bucket |-> Append(b, Entry(k, at, n)), evict |-> <<>>]
    ELSE [bucket |-> [b EXCEPT ![MinIndex(b)] = Entry(k, at, n)],
          evict |-> <<b[MinIndex(b)]>>]

(* Bucket::add: the new bucket, and the entry it evicts as a sequence.     *)
BucketAdd(b, k, at, n) ==
    IF Matches(b, k) # {}
    THEN [bucket |-> Counted(b, k, n), evict |-> <<>>]
    ELSE IF Len(b) < Associativity
    THEN [bucket |-> Append(b, Entry(k, at, n)), evict |-> <<>>]
    ELSE [bucket |-> [b EXCEPT ![MinIndex(b)] = Entry(k, at, n)],
          evict |-> <<b[MinIndex(b)]>>]

(* History: a sample of stack k at this time, with the stack and the time  *)
(* of the entry that counts it, which are its own when the entry is new.   *)
Sample(b, k, at) ==
    LET counting == IF Matches(b, k) = {} THEN Entry(k, at, 1)
                    ELSE b[CHOOSE i \in Matches(b, k) : TRUE]
    IN  [taken |-> k, shown |-> counting.item, at |-> counting.at]

-----------------------------------------------------------------------------
(* TempFdArray *)

FlushCount_AfterWrite(written) ==
    IF written = BufferLength THEN flushN + 1 ELSE flushN

(* flush_n grows before write_all runs, whatever it returns. *)
FlushCount(written) == flushN + 1

(* push of e: a full buffer is flushed first, of which `written` entries   *)
(* reach the file; when that is not all, the error leaves e and the whole  *)
(* buffer behind.                                                          *)
Push(e, written) ==
    IF Len(buffer) < BufferLength
    THEN buffer' = Append(buffer, e) /\ UNCHANGED <<flushN, file, failed>>
    ELSE /\ flushN' = FlushCount(written)
         /\ file' = file \o SubSeq(buffer, 1, written)
         /\ buffer' = IF written = BufferLength THEN <<e>> ELSE <<>>
         /\ failed' = IF written = BufferLength THEN failed ELSE TRUE

(* What a flush may manage to write. *)
Writes == IF DiskFails THEN 0..BufferLength ELSE {BufferLength}

(* Collector::add with the count of 1 that Profiler::sample passes.        *)
Add(k, written) ==
    /\ now < MaxAdds
    /\ LET r == BucketAdd(map[Hash[k]], k, Clock[now], 1)
       IN  /\ map' = [map EXCEPT ![Hash[k]] = r.bucket]
           /\ IF r.evict = <<>>
              THEN UNCHANGED <<buffer, flushN, file, failed>>
              ELSE Push(r.evict[1], written)
    /\ samples' = BagAdd(samples, Sample(map[Hash[k]], k, Clock[now]))
    /\ now' = now + 1

(* TempFdArray::try_iter: read_exact needs every flush in the file.  (An   *)
(* error of reopen or seek fails that report only, and changes nothing.)   *)
Readable == Len(file) >= BufferLength * flushN

(* Its iterator: the buffer, then what was flushed. *)
TempIter == buffer \o SubSeq(file, 1, BufferLength * flushN)

-----------------------------------------------------------------------------
(* Collector::new *)
Init ==
    /\ map = [h \in 0..(Buckets - 1) |-> <<>>]
    /\ buffer = <<>> /\ flushN = 0 /\ file = <<>>
    /\ now = 0 /\ failed = FALSE /\ samples = EmptyBag

(* The session may end at any time; the collector goes with it. *)
Done == now = MaxAdds /\ UNCHANGED vars

Next == (\E k \in Keys, written \in Writes : Add(k, written)) \/ Done

Spec == Init /\ [][Next]_vars

-----------------------------------------------------------------------------
(* Properties *)

(* The table and the buffer never outgrow their arrays: an index past      *)
(* either would panic in the signal handler.                               *)
TypeOK ==
    /\ map \in [0..(Buckets - 1) -> Seq(Entries)]
    /\ buffer \in Seq(Entries) /\ file \in Seq(Entries)
    /\ \A h \in 0..(Buckets - 1) : Len(map[h]) <= Associativity
    /\ Len(buffer) <= BufferLength
    /\ flushN \in Nat /\ now \in 0..MaxAdds /\ failed \in BOOLEAN
    /\ DOMAIN samples \subseteq Samples /\ samples \in [DOMAIN samples -> Nat \ {0}]

(* A bucket holds equal stacks at most once, in the bucket they hash to,   *)
(* so a sample is counted once although add increments every match.        *)
KeysUnique ==
    \A h \in 0..(Buckets - 1) :
        /\ \A i \in DOMAIN map[h] : Hash[map[h][i].item] = h
        /\ \A i, j \in DOMAIN map[h] :
              UnresolvedEq(map[h][i].item, map[h][j].item) => i = j

(* A write that failed is never masked by later ones that succeed: the     *)
(* file stays shorter than flush_n says, and try_iter reports the error    *)
(* instead of a profile with a hole.                                       *)
FailedFlushShows == failed => ~Readable

(* The most counted stack of a bucket survives every eviction. *)
HotStackStays ==
    [][\A h \in 0..(Buckets - 1) : \A i \in DOMAIN map[h] :
          (\A j \in DOMAIN map[h] : j # i => map[h][j].count < map[h][i].count)
             /\ Len(map[h]) > 1
          => \E j \in DOMAIN map'[h] : map'[h][j].item = map[h][i].item]_vars
=============================================================================
