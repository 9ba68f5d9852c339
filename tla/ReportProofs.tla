---------------------------- MODULE ReportProofs ----------------------------
(* Theorems about Collector and Report, for every set of stacks, hash      *)
(* function, table and buffer size, with and without failing writes: the   *)
(* collector keeps its invariants, build_unresolved implements SampleBag,  *)
(* and the formats show every sample under the stack of the first sample   *)
(* of its entry, which was taken, in the same functions and thread.        *)
EXTENDS Report, EncoderProofs

-----------------------------------------------------------------------------
(* The collector *)

(* A nonempty bucket has a first least counted entry, and MinIndex is it:  *)
(* the loop of Bucket::add stays within the bucket.                        *)
LEMMA MinIndexInBucket ==
    ASSUME NEW b \in Seq(Entries), Len(b) > 0
    PROVE  /\ MinIndex(b) \in 1..Len(b)
           /\ \A j \in 1..Len(b) : b[MinIndex(b)].count <= b[j].count
<1> DEFINE Numbers == {b[i].count : i \in DOMAIN b}
<1>1. DOMAIN b = 1..Len(b) /\ \A i \in DOMAIN b : b[i] \in Entries
  OBVIOUS
<1>2. Numbers \in SUBSET Nat /\ Numbers # {}
  <2>1. \A i \in DOMAIN b : b[i].count \in Nat
    BY <1>1 DEF Entries
  <2>2. 1 \in DOMAIN b
    BY <1>1
  <2> QED
    BY <2>1, <2>2
<1> HIDE DEF Numbers
<1>3. PICK least \in Numbers : \A n \in Numbers : least <= n
  BY <1>2, LeastNat
<1> DEFINE Where == {i \in DOMAIN b : b[i].count = least}
<1>4. Where \in SUBSET Nat /\ Where # {}
  BY <1>1 DEF Numbers
<1> HIDE DEF Where
<1>5. PICK m \in Where : \A i \in Where : m <= i
  BY <1>4, LeastNat
<1>6. m \in DOMAIN b /\ b[m].count = least
  BY DEF Where
<1>7. ASSUME NEW j \in DOMAIN b
      PROVE  b[m].count <= b[j].count /\ (j < m => b[m].count < b[j].count)
  <2>1. b[j].count \in Numbers /\ b[j].count \in Nat /\ least \in Nat
    BY <1>2 DEF Numbers
  <2>2. least <= b[j].count
    BY <1>3, <2>1
  <2>3. j < m => b[j].count # least
    BY <1>1, <1>5, <1>6 DEF Where
  <2> QED
    BY <1>6, <2>1, <2>2, <2>3
<1>8. MinIndex(b) \in DOMAIN b /\ \A j \in DOMAIN b : b[MinIndex(b)].count <= b[j].count
  BY <1>6, <1>7 DEF MinIndex
<1> QED
  BY <1>1, <1>8

(* Bucket::add keeps the array's length and evicts at most one entry; its  *)
(* entries stay in any set that may hold them when they count more.        *)
LEMMA BucketAddIn ==
    ASSUME NEW T \in SUBSET Entries,
           \A e \in T : Entry(e.item, e.at, e.count + 1) \in T,
           NEW b \in Seq(T), Len(b) <= Associativity,
           NEW k, NEW at, Matches(b, k) = {} => Entry(k, at, 1) \in T
    PROVE  LET r == BucketAdd(b, k, at, 1)
           IN  /\ r.bucket \in Seq(T) /\ Len(r.bucket) <= Associativity
               /\ r.evict = <<>> \/ (r.evict # <<>> /\ r.evict[1] \in T)
<1> DEFINE new == Entry(k, at, 1)
<1>0. b \in Seq(Entries) /\ Associativity \in Nat \ {0}
  BY SizeAssumption
<1>1. CASE Matches(b, k) # {}
  <2>1. Counted(b, k, 1) \in [1..Len(b) -> T]
    <3>1. \A e \in T : Entry(e.item, e.at, e.count + 1) \in T
      OBVIOUS
    <3>2. \A i \in DOMAIN b : b[i] \in T
      OBVIOUS
    <3> QED
      BY <3>1, <3>2 DEF Counted
  <2>2. Counted(b, k, 1) \in Seq(T) /\ Len(Counted(b, k, 1)) = Len(b)
    BY <2>1, IsASeq
  <2> QED
    BY <1>1, <2>2 DEF BucketAdd
<1>2. CASE Matches(b, k) = {} /\ Len(b) < Associativity
  <2>1. /\ Append(b, new) \in Seq(T)
        /\ Len(Append(b, new)) = Len(b) + 1
    BY <1>2, AppendProperties
  <2> HIDE DEF new
  <2> QED
    BY <1>0, <1>2, <2>1 DEF BucketAdd, new
<1>3. CASE Matches(b, k) = {} /\ ~(Len(b) < Associativity)
  <2>1. MinIndex(b) \in 1..Len(b)
    BY <1>0, <1>3, MinIndexInBucket
  <2>2. b[MinIndex(b)] \in T
    BY <2>1
  <2>3. /\ [b EXCEPT ![MinIndex(b)] = new] \in Seq(T)
        /\ Len([b EXCEPT ![MinIndex(b)] = new]) = Len(b)
    BY <1>3, <2>1, ExceptSeq
  <2> QED
    BY <1>3, <2>2, <2>3 DEF BucketAdd
<1> QED
  BY <1>1, <1>2, <1>3

(* Buckets are made of entries. *)
LEMMA BucketAddType ==
    ASSUME NEW b \in Seq(Entries), Len(b) <= Associativity,
           NEW k \in Keys, NEW at \in Nat
    PROVE  LET r == BucketAdd(b, k, at, 1)
           IN  /\ r.bucket \in Seq(Entries) /\ Len(r.bucket) <= Associativity
               /\ r.evict = <<>> \/ (r.evict # <<>> /\ r.evict[1] \in Entries)
<1>1. Entry(k, at, 1) \in Entries /\ \A e \in Entries : Entry(e.item, e.at, e.count + 1) \in Entries
  BY DEF Entry, Entries
<1> QED
  BY <1>1, BucketAddIn

(* A sample is of its own stack, but for the entry that counts it.         *)
LEMMA SampleType ==
    ASSUME NEW b \in Seq(Entries), NEW k \in Keys, NEW at \in Nat
    PROVE  LET s == Sample(b, k, at)
           IN  /\ s \in Samples /\ s.taken = k
               /\ \/ Matches(b, k) = {} /\ s.shown = k /\ s.at = at
                  \/ \E i \in Matches(b, k) : s.shown = b[i].item /\ s.at = b[i].at
<1>1. \A i \in DOMAIN b : b[i] \in Entries
  OBVIOUS
<1>2. CASE Matches(b, k) = {}
  <2>1. Sample(b, k, at) = [taken |-> k, shown |-> k, at |-> at]
    BY <1>2 DEF Sample, Entry
  <2> QED
    BY <1>2, <2>1 DEF Samples
<1>3. CASE Matches(b, k) # {}
  <2> DEFINE i == CHOOSE j \in Matches(b, k) : TRUE
  <2>1. Sample(b, k, at) = [taken |-> k, shown |-> b[i].item, at |-> b[i].at]
    BY <1>3 DEF Sample
  <2>2. i \in Matches(b, k)
    BY <1>3
  <2> HIDE DEF i
  <2>3. b[i].item \in Keys /\ b[i].at \in Nat
    BY <1>1, <2>2 DEF Matches, Entries
  <2> QED
    BY <2>1, <2>2, <2>3 DEF Samples
<1> QED
  BY <1>2, <1>3

(* A bag: at least once each of the elements it has. *)
IsBag(B) == B \in [DOMAIN B -> Nat \ {0}]

(* One more sample keeps a bag a bag. *)
LEMMA BagAddType ==
    ASSUME NEW B, IsBag(B), NEW x
    PROVE  /\ IsBag(BagAdd(B, x)) /\ DOMAIN BagAdd(B, x) = DOMAIN B \union {x}
           /\ BagAdd(B, x) = Added(B, x, 1)
<1>1. \A y \in DOMAIN B : B[y] \in Nat \ {0}
  BY DEF IsBag
<1>2. CASE x \in DOMAIN B
  <2>1. BagAdd(B, x) = [e \in DOMAIN B |-> IF e = x THEN B[e] + 1 ELSE B[e]]
    BY <1>2 DEF BagAdd
  <2>2. Added(B, x, 1) = [e \in DOMAIN B |-> IF e = x THEN B[e] + 1 ELSE B[e]]
    BY <1>2 DEF Added, IsBag
  <2> DEFINE new == [e \in DOMAIN B |-> IF e = x THEN B[e] + 1 ELSE B[e]]
  <2>3. new \in [DOMAIN B -> Nat \ {0}] /\ DOMAIN new = DOMAIN B
    BY <1>1
  <2> HIDE DEF new
  <2>4. BagAdd(B, x) = new /\ Added(B, x, 1) = new
    BY <2>1, <2>2 DEF new
  <2> QED
    BY <1>2, <2>3, <2>4 DEF IsBag
<1>3. CASE x \notin DOMAIN B
  <2>1. BagAdd(B, x) = [e \in DOMAIN B \union {x} |-> IF e = x THEN 1 ELSE B[e]]
    BY <1>3 DEF BagAdd
  <2>2. Added(B, x, 1) = [e \in DOMAIN B \union {x} |-> IF e = x THEN 1 ELSE B[e]]
    BY <1>3 DEF Added, Insert
  <2> QED
    BY <1>1, <1>3, <2>1, <2>2 DEF IsBag
<1> QED
  BY <1>2, <1>3

(* Types and capacities hold in every behaviour: see TypeOK. *)
THEOREM TypeCorrect == Spec => []TypeOK
<1>1. Init => TypeOK
  <2>1. DOMAIN EmptyBag = {} /\ EmptyBag \in [DOMAIN EmptyBag -> Nat \ {0}]
    BY DEF EmptyBag, SetToBag
  <2> QED
    BY <2>1, SizeAssumption DEF Init, TypeOK
<1>2. ASSUME TypeOK, NEW k \in Keys, NEW written \in Writes, Add(k, written)
      PROVE  TypeOK'
  <2> DEFINE r == BucketAdd(map[Hash[k]], k, Clock[now], 1)
  <2>1. Hash[k] \in 0..(Buckets - 1)
    BY HashAssumption
  <2>2. Clock[now] \in Nat
    BY <1>2, ClockAssumption DEF TypeOK
  <2>3. /\ r.bucket \in Seq(Entries) /\ Len(r.bucket) <= Associativity
        /\ r.evict = <<>> \/ (r.evict # <<>> /\ r.evict[1] \in Entries)
    BY <1>2, <2>1, <2>2, BucketAddType DEF TypeOK
  <2>4. map' = [map EXCEPT ![Hash[k]] = r.bucket] /\ now' = now + 1
    BY <1>2 DEF Add
  <2>5. IF r.evict = <<>> THEN UNCHANGED <<buffer, flushN, file, failed>>
        ELSE Push(r.evict[1], written)
    BY <1>2 DEF Add
  <2> HIDE DEF r
  <2>6. /\ map' \in [0..(Buckets - 1) -> Seq(Entries)]
        /\ \A h \in 0..(Buckets - 1) : Len(map'[h]) <= Associativity
    BY <1>2, <2>1, <2>3, <2>4 DEF TypeOK
  <2>7. now' \in 0..MaxAdds
    BY <1>2, <2>4, SizeAssumption DEF TypeOK, Add
  <2>8. /\ buffer' \in Seq(Entries) /\ Len(buffer') <= BufferLength
        /\ file' \in Seq(Entries) /\ flushN' \in Nat /\ failed' \in BOOLEAN
    <3>1. CASE r.evict = <<>>
      BY <1>2, <2>5, <3>1 DEF TypeOK
    <3>2. CASE r.evict # <<>> /\ Len(buffer) < BufferLength
      <4>1. /\ r.evict[1] \in Entries /\ buffer \in Seq(Entries)
            /\ buffer' = Append(buffer, r.evict[1])
            /\ UNCHANGED <<flushN, file, failed>>
        BY <1>2, <2>3, <2>5, <3>2 DEF TypeOK, Push
      <4>2. buffer' \in Seq(Entries) /\ Len(buffer') = Len(buffer) + 1
        BY <4>1, AppendProperties
      <4> QED
        BY <1>2, <3>2, <4>1, <4>2, SizeAssumption DEF TypeOK
    <3>3. CASE r.evict # <<>> /\ ~(Len(buffer) < BufferLength)
      <4>1. written \in 0..Len(buffer) /\ Len(buffer) = BufferLength
        BY <1>2, <3>3, SizeAssumption DEF TypeOK, Writes
      <4>2. SubSeq(buffer, 1, written) \in Seq(Entries)
        BY <1>2, <4>1 DEF TypeOK
      <4>3. /\ r.evict[1] \in Entries
            /\ flushN' = flushN + 1
            /\ file' = file \o SubSeq(buffer, 1, written)
            /\ buffer' = <<r.evict[1]>> \/ buffer' = <<>>
            /\ failed' = IF written = BufferLength THEN failed ELSE TRUE
        BY <2>3, <2>5, <3>3 DEF Push, FlushCount
      <4>4. buffer' \in Seq(Entries) /\ Len(buffer') <= BufferLength
        <5>1. ASSUME NEW x \in Entries
              PROVE  <<x>> \in Seq(Entries) /\ Len(<<x>>) = 1
          OBVIOUS
        <5>2. <<>> \in Seq(Entries) /\ Len(<<>>) = 0
          OBVIOUS
        <5>3. 0 <= BufferLength /\ 1 <= BufferLength
          BY SizeAssumption
        <5> QED
          BY <4>3, <5>1, <5>2, <5>3
      <4>5. file' \in Seq(Entries)
        BY <1>2, <4>2, <4>3, ConcatProperties DEF TypeOK
      <4>6. failed' \in BOOLEAN
        BY <1>2, <4>3 DEF TypeOK
      <4>7. flushN' \in Nat
        BY <1>2, <4>3 DEF TypeOK
      <4> QED
        BY <4>4, <4>5, <4>6, <4>7
    <3> QED
      BY <3>1, <3>2, <3>3
  <2>9. DOMAIN samples' \subseteq Samples /\ samples' \in [DOMAIN samples' -> Nat \ {0}]
    <3> DEFINE s == Sample(map[Hash[k]], k, Clock[now])
    <3>1. samples' = BagAdd(samples, s)
      BY <1>2 DEF Add
    <3>2. s \in Samples
      BY <1>2, <2>1, <2>2, SampleType DEF TypeOK
    <3>3. DOMAIN samples \subseteq Samples /\ IsBag(samples)
      BY <1>2 DEF TypeOK, IsBag
    <3> HIDE DEF s
    <3>4. IsBag(BagAdd(samples, s)) /\ DOMAIN BagAdd(samples, s) = DOMAIN samples \union {s}
      BY <3>3, BagAddType
    <3>5. DOMAIN BagAdd(samples, s) \subseteq Samples
      BY <3>2, <3>3, <3>4
    <3> QED
      BY <3>1, <3>4, <3>5 DEF IsBag
  <2> QED
    BY <2>6, <2>7, <2>8, <2>9 DEF TypeOK
<1>3. TypeOK /\ UNCHANGED vars => TypeOK'
  BY DEF TypeOK, vars
<1>4. TypeOK /\ [Next]_vars => TypeOK'
  BY <1>2, <1>3 DEF Next, Done
<1> QED
  BY <1>1, <1>4, PTL DEF Spec

-----------------------------------------------------------------------------
(* Every flush adds BUFFER_LENGTH to what try_iter will ask for and at     *)
(* most that to the file, so the deficit of a failed one stays.            *)
FileInv ==
    /\ Len(file) <= BufferLength * flushN
    /\ failed => Len(file) < BufferLength * flushN

(* The file keeps falling short by what a failed write left out. *)
LEMMA DeficitStays == Spec => []FileInv
<1>1. Init => FileInv
  BY SizeAssumption DEF Init, FileInv
<1>2. ASSUME TypeOK, FileInv, NEW k \in Keys, NEW written \in Writes,
             Add(k, written)
      PROVE  FileInv'
  <2>1. CASE UNCHANGED <<flushN, file, failed>>
    BY <1>2, <2>1 DEF FileInv
  <2>2. CASE /\ Len(buffer) >= BufferLength
             /\ flushN' = flushN + 1
             /\ file' = file \o SubSeq(buffer, 1, written)
             /\ failed' = IF written = BufferLength THEN failed ELSE TRUE
    <3>1. written \in 0..Len(buffer) /\ Len(buffer) = BufferLength
      BY <1>2, <2>2, SizeAssumption DEF TypeOK, Writes
    <3>2. Len(SubSeq(buffer, 1, written)) = written
      BY <1>2, <3>1 DEF TypeOK
    <3>3. Len(file') = Len(file) + written /\ Len(file) \in Nat
      BY <1>2, <2>2, <3>1, <3>2, ConcatProperties DEF TypeOK
    <3>4. /\ BufferLength * (flushN + 1) = BufferLength * flushN + BufferLength
          /\ BufferLength * flushN \in Nat /\ BufferLength \in Nat
      BY <1>2, SizeAssumption DEF TypeOK
    <3>5. Len(file') <= BufferLength * flushN'
      BY <1>2, <2>2, <3>1, <3>3, <3>4 DEF FileInv
    <3>6. failed' => Len(file') < BufferLength * flushN'
      <4>1. CASE written = BufferLength
        BY <1>2, <2>2, <3>1, <3>3, <3>4, <4>1 DEF FileInv
      <4>2. CASE written # BufferLength
        <5>1. written < BufferLength
          BY <3>1, <3>4, <4>2
        <5> QED
          BY <1>2, <2>2, <3>1, <3>3, <3>4, <5>1 DEF FileInv
      <4> QED
        BY <4>1, <4>2
    <3> QED
      BY <3>5, <3>6 DEF FileInv
  <2> QED
    <3>1. Len(buffer) \in Nat /\ BufferLength \in Nat
      BY <1>2, SizeAssumption DEF TypeOK
    <3>2. PICK e : \/ UNCHANGED <<buffer, flushN, file, failed>>
                   \/ Push(e, written)
      BY <1>2 DEF Add
    <3>3. CASE Push(e, written) /\ Len(buffer) < BufferLength
      BY <2>1, <3>3 DEF Push
    <3>4. CASE Push(e, written) /\ ~(Len(buffer) < BufferLength)
      <4>1. /\ flushN' = flushN + 1
            /\ file' = file \o SubSeq(buffer, 1, written)
            /\ failed' = IF written = BufferLength THEN failed ELSE TRUE
        BY <3>4 DEF Push, FlushCount
      <4>2. Len(buffer) >= BufferLength
        BY <3>1, <3>4
      <4> QED
        BY <2>2, <4>1, <4>2
    <3> QED
      BY <2>1, <3>2, <3>3, <3>4
<1>3. FileInv /\ UNCHANGED vars => FileInv'
  BY DEF FileInv, vars
<1>4. TypeOK /\ FileInv /\ [Next]_vars => FileInv'
  BY <1>2, <1>3 DEF Next, Done
<1> QED
  BY <1>1, <1>4, TypeCorrect, PTL DEF Spec

(* A report is refused from the first failed write on, for good: see       *)
(* FailedFlushShows.                                                       *)
THEOREM FailureIsPermanent == Spec => []FailedFlushShows
<1>1. TypeOK /\ FileInv => FailedFlushShows
  <2> SUFFICES ASSUME TypeOK, FileInv PROVE FailedFlushShows
    OBVIOUS
  <2>1. Len(file) \in Nat /\ BufferLength * flushN \in Nat
    BY SizeAssumption DEF TypeOK
  <2> QED
    BY <2>1 DEF FileInv, FailedFlushShows, Readable
<1> QED
  BY <1>1, TypeCorrect, DeficitStays, PTL

-----------------------------------------------------------------------------
(* One bucket's part of KeysUnique. *)
BucketUnique(b, h) ==
    /\ \A i \in DOMAIN b : Hash[b[i].item] = h
    /\ \A i, j \in DOMAIN b : UnresolvedEq(b[i].item, b[j].item) => i = j

(* PartialEq of UnresolvedFrames is symmetric. *)
LEMMA EqSymmetric == \A k, l : UnresolvedEq(k, l) <=> UnresolvedEq(l, k)
  BY DEF UnresolvedEq

(* And transitive. *)
LEMMA EqTransitive ==
    \A k, l, m : UnresolvedEq(k, m) /\ UnresolvedEq(l, m) => UnresolvedEq(k, l)
  BY DEF UnresolvedEq

(* Bucket::add appends or swaps a stack in only when it is not there.      *)
LEMMA BucketAddUnique ==
    ASSUME NEW b \in Seq(Entries), NEW k \in Keys, NEW at,
           Len(b) <= Associativity, BucketUnique(b, Hash[k])
    PROVE  BucketUnique(BucketAdd(b, k, at, 1).bucket, Hash[k])
<1> DEFINE new == Entry(k, at, 1)
<1>0. new.item = k /\ DOMAIN b = 1..Len(b) /\ Len(b) \in Nat
  BY DEF Entry
<1>1. CASE Matches(b, k) # {}
  <2>1. /\ DOMAIN Counted(b, k, 1) = DOMAIN b
        /\ \A i \in DOMAIN b : Counted(b, k, 1)[i].item = b[i].item
    BY DEF Counted, Entry
  <2>2. BucketAdd(b, k, at, 1).bucket = Counted(b, k, 1)
    BY <1>1 DEF BucketAdd
  <2> QED
    BY <2>1, <2>2 DEF BucketUnique
<1>2. CASE Matches(b, k) = {} /\ Len(b) < Associativity
  <2>1. BucketAdd(b, k, at, 1).bucket = Append(b, new)
    BY <1>2 DEF BucketAdd
  <2>2. /\ DOMAIN Append(b, new) = 1..(Len(b) + 1)
        /\ \A i \in 1..Len(b) : Append(b, new)[i] = b[i]
        /\ Append(b, new)[Len(b) + 1] = new
    OBVIOUS
  <2> DEFINE c == Append(b, new)
  <2> HIDE DEF new
  <2>3. \A i \in DOMAIN c : \/ i \in DOMAIN b /\ c[i] = b[i]
                            \/ i = Len(b) + 1 /\ c[i].item = k
    BY <1>0, <2>2
  <2>4. \A i \in DOMAIN b : ~UnresolvedEq(b[i].item, k) /\ ~UnresolvedEq(k, b[i].item)
    BY <1>2, EqSymmetric DEF Matches
  <2> HIDE DEF c
  <2>5. BucketUnique(c, Hash[k])
    BY <2>3, <2>4 DEF BucketUnique
  <2> QED
    BY <2>1, <2>5 DEF c
<1>3. CASE Matches(b, k) = {} /\ ~(Len(b) < Associativity)
  <2>1. BucketAdd(b, k, at, 1).bucket = [b EXCEPT ![MinIndex(b)] = new]
    BY <1>3 DEF BucketAdd
  <2> DEFINE c == [b EXCEPT ![MinIndex(b)] = new]
  <2> HIDE DEF new
  <2>2. /\ DOMAIN c = DOMAIN b
        /\ \A i \in DOMAIN b : \/ c[i] = b[i]
                               \/ i = MinIndex(b) /\ c[i].item = k
    BY <1>0
  <2>3. \A i \in DOMAIN b : ~UnresolvedEq(b[i].item, k) /\ ~UnresolvedEq(k, b[i].item)
    BY <1>3, EqSymmetric DEF Matches
  <2> HIDE DEF c
  <2>4. BucketUnique(c, Hash[k])
    BY <2>2, <2>3 DEF BucketUnique
  <2> QED
    BY <2>1, <2>4 DEF c
<1> QED
  BY <1>1, <1>2, <1>3

(* No stack is ever in the table twice: see KeysUnique. *)
THEOREM NoStackTwice == Spec => []KeysUnique
<1>1. Init => KeysUnique
  BY DEF Init, KeysUnique
<1>2. ASSUME TypeOK, KeysUnique, NEW k \in Keys, NEW written \in Writes,
             Add(k, written)
      PROVE  KeysUnique'
  <2> DEFINE b == BucketAdd(map[Hash[k]], k, Clock[now], 1).bucket
  <2>1. Hash[k] \in 0..(Buckets - 1)
    BY HashAssumption
  <2>2. map' = [map EXCEPT ![Hash[k]] = b]
    BY <1>2 DEF Add
  <2>3. BucketUnique(map[Hash[k]], Hash[k])
    BY <1>2, <2>1 DEF KeysUnique, BucketUnique
  <2>4. map[Hash[k]] \in Seq(Entries) /\ Len(map[Hash[k]]) <= Associativity
    BY <1>2, <2>1 DEF TypeOK
  <2>5. BucketUnique(b, Hash[k])
    BY <2>3, <2>4, BucketAddUnique
  <2> HIDE DEF b
  <2>6. ASSUME NEW h \in 0..(Buckets - 1) PROVE BucketUnique(map'[h], h)
    BY <1>2, <2>1, <2>2, <2>5 DEF TypeOK, KeysUnique, BucketUnique
  <2> QED
    BY <2>6 DEF KeysUnique, BucketUnique
<1>3. KeysUnique /\ UNCHANGED vars => KeysUnique'
  BY DEF KeysUnique, vars
<1>4. TypeOK /\ KeysUnique /\ [Next]_vars => KeysUnique'
  BY <1>2, <1>3 DEF Next, Done
<1> QED
  BY <1>1, <1>4, TypeCorrect, PTL DEF Spec

-----------------------------------------------------------------------------
(* The only entry with the highest count, among several, is not the one    *)
(* that Bucket::add evicts.                                                *)
LEMMA HotEntryStays ==
    ASSUME NEW b \in Seq(Entries), NEW k \in Keys, NEW at \in Nat,
           NEW i \in DOMAIN b, Len(b) > 1,
           \A j \in DOMAIN b : j # i => b[j].count < b[i].count
    PROVE  LET c == BucketAdd(b, k, at, 1).bucket
           IN  i \in DOMAIN c /\ c[i].item = b[i].item
<1> DEFINE new == Entry(k, at, 1)
<1>0. DOMAIN b = 1..Len(b) /\ Len(b) \in Nat /\ \A j \in DOMAIN b : b[j].count \in Nat
  <2>1. DOMAIN b = 1..Len(b) /\ Len(b) \in Nat /\ \A j \in DOMAIN b : b[j] \in Entries
    OBVIOUS
  <2> QED
    BY <2>1 DEF Entries
<1>1. CASE Matches(b, k) # {}
  BY <1>1 DEF BucketAdd, Counted, Entry
<1>2. CASE Matches(b, k) = {} /\ Len(b) < Associativity
  <2>1. /\ DOMAIN Append(b, new) = 1..(Len(b) + 1)
        /\ \A j \in 1..Len(b) : Append(b, new)[j] = b[j]
    OBVIOUS
  <2>2. BucketAdd(b, k, at, 1).bucket = Append(b, new)
    BY <1>2 DEF BucketAdd
  <2> HIDE DEF new
  <2>3. i \in 1..Len(b) /\ i \in 1..(Len(b) + 1)
    BY <1>0
  <2> QED
    BY <2>1, <2>2, <2>3
<1>3. CASE Matches(b, k) = {} /\ ~(Len(b) < Associativity)
  <2>1. /\ MinIndex(b) \in 1..Len(b)
        /\ \A j \in 1..Len(b) : b[MinIndex(b)].count <= b[j].count
    BY <1>0, MinIndexInBucket
  <2>2. PICK j \in DOMAIN b : j # i
    <3>1. 1 \in DOMAIN b /\ 2 \in DOMAIN b
      BY <1>0
    <3> QED
      BY <3>1
  <2>3. MinIndex(b) # i
    <3>1. b[j].count < b[i].count /\ b[j].count \in Nat /\ b[i].count \in Nat
      BY <1>0, <2>2
    <3>2. b[MinIndex(b)].count <= b[j].count
      BY <1>0, <2>1, <2>2
    <3> QED
      BY <3>1, <3>2
  <2>4. BucketAdd(b, k, at, 1).bucket = [b EXCEPT ![MinIndex(b)] = new]
    BY <1>3 DEF BucketAdd
  <2> HIDE DEF new
  <2> QED
    BY <2>3, <2>4
<1> QED
  BY <1>1, <1>2, <1>3

(* The hottest stack of a bucket is never evicted (Bucket::add,            *)
(* collector.rs): see HotStackStays.                                       *)
THEOREM HottestStackStays == Spec => HotStackStays
<1> DEFINE Stays(h, i) ==
               (\A j \in DOMAIN map[h] : j # i => map[h][j].count < map[h][i].count)
                  /\ Len(map[h]) > 1
               => \E j \in DOMAIN map'[h] : map'[h][j].item = map[h][i].item
<1>1. ASSUME TypeOK, [Next]_vars, NEW h \in 0..(Buckets - 1), NEW i \in DOMAIN map[h]
      PROVE  Stays(h, i)
  <2>1. CASE map'[h] = map[h]
    BY <2>1
  <2>2. ASSUME NEW k \in Keys, NEW written \in Writes, Add(k, written)
        PROVE  Stays(h, i)
    <3> DEFINE b == BucketAdd(map[Hash[k]], k, Clock[now], 1).bucket
    <3>1. map' = [map EXCEPT ![Hash[k]] = b]
      BY <2>2 DEF Add
    <3>2. map \in [0..(Buckets - 1) -> Seq(Entries)] /\ Clock[now] \in Nat
      BY <1>1, ClockAssumption DEF TypeOK
    <3>3. CASE h = Hash[k]
      <4>1. map'[h] = b
        BY <3>1, <3>2, <3>3
      <4> SUFFICES ASSUME \A j \in DOMAIN map[h] : j # i => map[h][j].count < map[h][i].count,
                          Len(map[h]) > 1
                   PROVE  \E j \in DOMAIN map'[h] : map'[h][j].item = map[h][i].item
        OBVIOUS
      <4>2. i \in DOMAIN b /\ b[i].item = map[h][i].item
        BY <3>2, <3>3, HotEntryStays
      <4> HIDE DEF b
      <4> QED
        BY <4>1, <4>2
    <3>4. CASE h # Hash[k]
      <4> HIDE DEF b
      <4>1. map'[h] = map[h]
        BY <3>1, <3>2, <3>4
      <4> QED
        BY <2>1, <4>1
    <3> QED
      BY <3>3, <3>4
  <2> QED
    BY <1>1, <2>1, <2>2 DEF Next, Done, vars
<1>2. TypeOK /\ [Next]_vars =>
         [\A h \in 0..(Buckets - 1) : \A i \in DOMAIN map[h] : Stays(h, i)]_vars
  BY <1>1
<1> QED
  BY <1>2, TypeCorrect, PTL DEF Spec, HotStackStays

-----------------------------------------------------------------------------
(* Entries counted by a label *)

(* What a loop like those of the builders makes of entries when it keeps   *)
(* apart what L tells apart: L[k] labels stack k.                          *)
LabelMerge(sofar, e, L) ==
    IF e.count > 0 THEN Added(sofar, L[e.item], e.count) ELSE sofar

Labelled(entries, L) ==
    LET report[n \in 0..Len(entries)] ==
            IF n = 0 THEN <<>> ELSE LabelMerge(report[n - 1], entries[n], L)
    IN  report[Len(entries)]

(* r has the map after each of the first n turns of the loop over s. *)
Loops(r, s, L, n) ==
    r = [i \in 0..n |-> IF i = 0 THEN <<>> ELSE LabelMerge(r[i - 1], s[i], L)]

(* The loop can be run over any number of entries. *)
LEMMA LoopExists ==
    ASSUME NEW s, NEW L
    PROVE  \A n \in Nat : \E r : Loops(r, s, L, n)
<1> DEFINE Q == {n \in Nat : \E r : Loops(r, s, L, n)}
<1>1. 0 \in Q
  <2> DEFINE r == [i \in 0..0 |-> <<>>]
  <2>1. Loops(r, s, L, 0)
    BY DEF Loops
  <2> QED
    BY <2>1
<1>2. ASSUME NEW n \in Nat, n \in Q PROVE n + 1 \in Q
  <2>1. PICK r : Loops(r, s, L, n)
    BY <1>2
  <2> DEFINE f == [i \in 0..(n + 1) |->
                      IF i = 0 THEN <<>>
                      ELSE LabelMerge(r[i - 1], s[i], L)]
  <2>2. \A i \in 0..n : r[i] = IF i = 0 THEN <<>> ELSE LabelMerge(r[i - 1], s[i], L)
    BY <2>1 DEF Loops
  <2>3. \A i \in 0..n : f[i] = r[i]
    BY <2>2
  <2>4. \A i \in 0..(n + 1) : i # 0 => i - 1 \in 0..n /\ f[i - 1] = r[i - 1]
    <3> HIDE DEF f
    <3>1. \A i \in 0..(n + 1) : i # 0 => i - 1 \in 0..n
      OBVIOUS
    <3> QED
      BY <2>3, <3>1
  <2>5. f = [i \in 0..(n + 1) |->
                IF i = 0 THEN <<>> ELSE LabelMerge(f[i - 1], s[i], L)]
    BY <2>4
  <2> HIDE DEF f
  <2> QED
    BY <2>5 DEF Loops
<1> HIDE DEF Q
<1>3. Nat \subseteq Q
  BY <1>1, <1>2, NatSetInduction
<1> QED
  BY <1>3 DEF Q

(* Loops over sequences that begin alike build the same maps as long as    *)
(* the sequences are alike.                                                *)
LEMMA LoopUnique ==
    ASSUME NEW n \in Nat, NEW m \in Nat, n <= m, NEW s, NEW t, NEW L,
           Alike(s, t, n),
           NEW r, Loops(r, s, L, n), NEW f, Loops(f, t, L, m)
    PROVE  r[n] = f[n]
<1> DEFINE Q == {i \in Nat : i <= n => r[i] = f[i]}
<1>1. \A i \in 0..n :
         /\ r[i] = IF i = 0 THEN <<>> ELSE LabelMerge(r[i - 1], s[i], L)
         /\ f[i] = IF i = 0 THEN <<>> ELSE LabelMerge(f[i - 1], t[i], L)
  BY DEF Loops
<1>2. 0 \in Q
  BY <1>1
<1>3. ASSUME NEW i \in Nat, i \in Q PROVE i + 1 \in Q
  <2> SUFFICES ASSUME i + 1 <= n PROVE r[i + 1] = f[i + 1]
    OBVIOUS
  <2>1. r[i] = f[i] /\ s[i + 1] = t[i + 1]
    BY <1>3 DEF Alike
  <2>2. /\ r[i + 1] = LabelMerge(r[(i + 1) - 1], s[i + 1], L)
        /\ f[i + 1] = LabelMerge(f[(i + 1) - 1], t[i + 1], L)
    BY <1>1
  <2>3. (i + 1) - 1 = i
    OBVIOUS
  <2> QED
    BY <2>1, <2>2, <2>3
<1> HIDE DEF Q
<1>4. Nat \subseteq Q
  BY <1>2, <1>3, NatSetInduction
<1> QED
  BY <1>4 DEF Q

(* What the loop leaves. *)
LEMMA LabelledIsLoop ==
    ASSUME NEW S, NEW s \in Seq(S), NEW L
    PROVE  \E r : Loops(r, s, L, Len(s)) /\ Labelled(s, L) = r[Len(s)]
<1> DEFINE r == CHOOSE f : Loops(f, s, L, Len(s))
<1>1. Labelled(s, L) = r[Len(s)]
  BY DEF Labelled, Loops
<1>2. Loops(r, s, L, Len(s))
  BY LoopExists
<1> HIDE DEF r
<1> QED
  BY <1>1, <1>2

(* Nothing is made of nothing. *)
LEMMA LabelledEmpty == \A L : Labelled(<<>>, L) = <<>>
<1> TAKE L
<1>1. <<>> \in Seq(Entries) /\ Len(<<>>) = 0
  BY EmptySeq
<1>2. PICK r : Loops(r, <<>>, L, 0) /\ Labelled(<<>>, L) = r[0]
  BY <1>1, LabelledIsLoop
<1> QED
  BY <1>2 DEF Loops

(* One more entry is one more turn. *)
LEMMA LabelledAppend ==
    ASSUME NEW S, NEW s \in Seq(S), NEW e \in S, NEW L
    PROVE  Labelled(Append(s, e), L) = LabelMerge(Labelled(s, L), e, L)
<1> DEFINE t == Append(s, e)
           n == Len(s)
<1>1. /\ t \in Seq(S) /\ Len(t) = n + 1 /\ n \in Nat /\ t[n + 1] = e
      /\ \A i \in 1..n : s[i] = t[i]
  OBVIOUS
<1> HIDE DEF t
<1>2. PICK r : Loops(r, s, L, n) /\ Labelled(s, L) = r[n]
  BY LabelledIsLoop
<1>3. PICK f : Loops(f, t, L, n + 1) /\ Labelled(t, L) = f[n + 1]
  BY <1>1, LabelledIsLoop
<1> HIDE DEF n
<1>4. r[n] = f[n]
  <2>1. n \in Nat /\ n + 1 \in Nat /\ n <= n + 1 /\ Alike(s, t, n)
    BY <1>1 DEF Alike
  <2>2. Loops(r, s, L, n) /\ Loops(f, t, L, n + 1)
    BY <1>2, <1>3
  <2> DEFINE m == n + 1
  <2> HIDE DEF m
  <2>3. m \in Nat /\ n <= m /\ Loops(f, t, L, m)
    BY <2>1, <2>2 DEF m
  <2> QED
    BY <2>1, <2>2, <2>3, LoopUnique
<1>5. f[n + 1] = LabelMerge(f[n], t[n + 1], L)
  <2>1. n + 1 \in 0..(n + 1) /\ n + 1 # 0 /\ (n + 1) - 1 = n
    BY <1>1
  <2> QED
    BY <1>3, <2>1 DEF Loops
<1> QED
  BY <1>1, <1>2, <1>3, <1>4, <1>5 DEF t

-----------------------------------------------------------------------------
(* What a sequence of entries counts for a label *)

CountOf(s, L, k) == IF k \in DOMAIN Labelled(s, L) THEN Labelled(s, L)[k] ELSE 0

(* What one entry counts for it. *)
Worth(e, L, k) == IF L[e.item] = k THEN e.count ELSE 0

(* An entry counts a number of samples. *)
LEMMA WorthNat ==
    ASSUME NEW e \in Entries, NEW L, NEW k
    PROVE  Worth(e, L, k) \in Nat /\ e.count \in Nat
  BY DEF Worth, Entries

(* No entry, no sample. *)
LEMMA CountEmpty == \A L, k : CountOf(<<>>, L, k) = 0
<1>1. DOMAIN <<>> = {}
  OBVIOUS
<1> QED
  BY <1>1, LabelledEmpty DEF CountOf

(* The counts are numbers of samples. *)
LEMMA CountNat ==
    ASSUME NEW s \in Seq(Entries), NEW L, NEW k
    PROVE  CountOf(s, L, k) \in Nat
<1> DEFINE Q == {t \in Seq(Entries) : CountOf(t, L, k) \in Nat}
<1>1. <<>> \in Q
  BY EmptySeq, CountEmpty
<1>2. ASSUME NEW t \in Seq(Entries), NEW e \in Entries, t \in Q
      PROVE  Append(t, e) \in Q
  <2>1. Append(t, e) \in Seq(Entries)
    OBVIOUS
  <2>2. Labelled(Append(t, e), L) = LabelMerge(Labelled(t, L), e, L)
    BY LabelledAppend
  <2>3. CountOf(t, L, k) \in Nat /\ e.count \in Nat
    BY <1>2, WorthNat
  <2>4. CountOf(Append(t, e), L, k) \in Nat
    BY <2>2, <2>3 DEF CountOf, LabelMerge, Added, Insert
  <2> QED
    BY <2>1, <2>4
<1> HIDE DEF Q
<1>3. Seq(Entries) \subseteq Q
  BY <1>1, <1>2, SeqSetInduction
<1> QED
  BY <1>3 DEF Q

(* One more entry adds what it is worth. *)
LEMMA CountAppend ==
    ASSUME NEW s \in Seq(Entries), NEW e \in Entries, NEW L, NEW k
    PROVE  CountOf(Append(s, e), L, k) = CountOf(s, L, k) + Worth(e, L, k)
<1>1. Labelled(Append(s, e), L) = LabelMerge(Labelled(s, L), e, L)
  BY LabelledAppend
<1>2. CountOf(s, L, k) \in Nat /\ e.count \in Nat
  BY CountNat, WorthNat
<1>3. CASE e.count = 0
  <2>1. Worth(e, L, k) = 0
    BY <1>3 DEF Worth
  <2>2. Labelled(Append(s, e), L) = Labelled(s, L)
    BY <1>1, <1>3 DEF LabelMerge
  <2> QED
    BY <1>2, <2>1, <2>2 DEF CountOf
<1>4. CASE e.count > 0 /\ L[e.item] = k
  BY <1>1, <1>2, <1>4 DEF CountOf, LabelMerge, Added, Insert, Worth
<1>5. CASE e.count > 0 /\ L[e.item] # k
  BY <1>1, <1>2, <1>5 DEF CountOf, LabelMerge, Added, Insert, Worth
<1> QED
  BY <1>2, <1>3, <1>4, <1>5

(* Two sequences, one after the other, count what both count. *)
LEMMA CountConcat ==
    ASSUME NEW s \in Seq(Entries), NEW t \in Seq(Entries), NEW L, NEW k
    PROVE  CountOf(s \o t, L, k) = CountOf(s, L, k) + CountOf(t, L, k)
<1> DEFINE Q == {u \in Seq(Entries) : CountOf(s \o u, L, k) = CountOf(s, L, k) + CountOf(u, L, k)}
<1>1. <<>> \in Q
  <2>1. s \o <<>> = s /\ <<>> \in Seq(Entries)
    BY ConcatEmptySeq, EmptySeq
  <2> QED
    BY <2>1, CountEmpty, CountNat
<1>2. ASSUME NEW u \in Seq(Entries), NEW e \in Entries, u \in Q
      PROVE  Append(u, e) \in Q
  <2>1. s \o u \in Seq(Entries) /\ Append(u, e) \in Seq(Entries)
    OBVIOUS
  <2>2. s \o Append(u, e) = Append(s \o u, e)
    <3>1. <<e>> \in Seq(Entries)
      OBVIOUS
    <3>2. Append(u, e) = u \o <<e>> /\ Append(s \o u, e) = (s \o u) \o <<e>>
      OBVIOUS
    <3> QED
      BY <3>1, <3>2, ConcatAssociative
  <2>3. CountOf(Append(s \o u, e), L, k) = CountOf(s \o u, L, k) + Worth(e, L, k)
    <3> DEFINE w == s \o u
    <3> HIDE DEF w
    <3>1. w \in Seq(Entries)
      BY <2>1 DEF w
    <3>2. CountOf(Append(w, e), L, k) = CountOf(w, L, k) + Worth(e, L, k)
      BY <3>1, CountAppend
    <3> QED
      BY <3>2 DEF w
  <2>4. CountOf(Append(u, e), L, k) = CountOf(u, L, k) + Worth(e, L, k)
    BY CountAppend
  <2>5. CountOf(s \o u, L, k) = CountOf(s, L, k) + CountOf(u, L, k)
    BY <1>2
  <2>6. CountOf(s, L, k) \in Nat /\ CountOf(u, L, k) \in Nat /\ Worth(e, L, k) \in Nat
    BY CountNat, WorthNat
  <2>7. CountOf(s \o Append(u, e), L, k) = CountOf(s, L, k) + CountOf(Append(u, e), L, k)
    BY <2>2, <2>3, <2>4, <2>5, <2>6
  <2> QED
    BY <2>1, <2>7
<1> HIDE DEF Q
<1>3. Seq(Entries) \subseteq Q
  BY <1>1, <1>2, SeqSetInduction
<1> QED
  BY <1>3 DEF Q

(* An entry alone counts what it is worth. *)
LEMMA CountOne ==
    ASSUME NEW e \in Entries, NEW L, NEW k
    PROVE  CountOf(<<e>>, L, k) = Worth(e, L, k)
<1>1. <<>> \in Seq(Entries) /\ <<e>> = Append(<<>>, e)
  BY EmptySeq
<1>2. CountOf(Append(<<>>, e), L, k) = CountOf(<<>>, L, k) + Worth(e, L, k)
  BY <1>1, CountAppend
<1>3. CountOf(<<>>, L, k) = 0 /\ Worth(e, L, k) \in Nat
  BY CountEmpty, WorthNat
<1> QED
  BY <1>1, <1>2, <1>3

(* An entry in place of another. *)
LEMMA CountExcept ==
    ASSUME NEW s \in Seq(Entries), NEW i \in 1..Len(s), NEW e \in Entries, NEW L, NEW k
    PROVE  CountOf([s EXCEPT ![i] = e], L, k) = CountOf(s, L, k) - Worth(s[i], L, k) + Worth(e, L, k)
<1> DEFINE t == [s EXCEPT ![i] = e]
           a == SubSeq(s, 1, i - 1)
           b == SubSeq(s, i + 1, Len(s))
<1>0. Len(s) \in Nat /\ s[i] \in Entries /\ \A j \in 1..Len(s) : s[j] \in Entries
  BY ElementOfSeq
<1>1. /\ a \in Seq(Entries) /\ Len(a) = i - 1
      /\ \A j \in 1..(i - 1) : a[j] = s[j]
  <2>1. \A j \in 1..(i - 1) : s[j] \in Entries
    BY <1>0
  <2>2. /\ a \in Seq(Entries) /\ Len(a) = IF 1 <= i - 1 THEN (i - 1) - 1 + 1 ELSE 0
        /\ \A j \in 1..((i - 1) - 1 + 1) : a[j] = s[1 + j - 1]
    BY <2>1, SubSeqProperties
  <2> HIDE DEF a
  <2> QED
    BY <2>2
<1>2. /\ b \in Seq(Entries) /\ Len(b) = Len(s) - i
      /\ \A j \in 1..(Len(s) - i) : b[j] = s[i + j]
  <2>1. \A j \in (i + 1)..Len(s) : s[j] \in Entries
    BY <1>0
  <2>2. i + 1 \in Int /\ Len(s) \in Int
    BY <1>0
  <2>3. /\ b \in Seq(Entries)
        /\ Len(b) = IF i + 1 <= Len(s) THEN Len(s) - (i + 1) + 1 ELSE 0
        /\ \A j \in 1..(Len(s) - (i + 1) + 1) : b[j] = s[(i + 1) + j - 1]
    BY <2>1, <2>2, SubSeqProperties
  <2> HIDE DEF b
  <2>4. Len(b) = Len(s) - i
    BY <1>0, <2>3
  <2>5. ASSUME NEW j \in 1..(Len(s) - i) PROVE b[j] = s[i + j]
    <3>1. j \in 1..(Len(s) - (i + 1) + 1) /\ (i + 1) + j - 1 = i + j
      BY <1>0
    <3> QED
      BY <2>3, <3>1
  <2> QED
    BY <2>3, <2>4, <2>5
<1>3. /\ t \in Seq(Entries) /\ Len(t) = Len(s)
      /\ \A j \in 1..Len(s) : t[j] = IF j = i THEN e ELSE s[j]
  BY ExceptSeq
<1> HIDE DEF t, a, b
<1>4. ASSUME NEW x \in Entries, NEW u \in Seq(Entries), Len(u) = Len(s),
             \A j \in 1..Len(s) : u[j] = IF j = i THEN x ELSE s[j]
      PROVE  CountOf(u, L, k) = CountOf(a, L, k) + Worth(x, L, k) + CountOf(b, L, k)
  <2> DEFINE one == <<x>>
             w == a \o one
             v == w \o b
  <2>1. one \in Seq(Entries) /\ Len(one) = 1 /\ one[1] = x
    OBVIOUS
  <2> HIDE DEF one
  <2>2. /\ w \in Seq(Entries) /\ Len(w) = i
        /\ \A j \in 1..i : w[j] = IF j <= i - 1 THEN a[j] ELSE one[j - (i - 1)]
    <3>1. /\ w \in Seq(Entries) /\ Len(w) = Len(a) + Len(one)
          /\ \A j \in 1..(Len(a) + Len(one)) :
                w[j] = IF j <= Len(a) THEN a[j] ELSE one[j - Len(a)]
      BY <1>1, <2>1, ConcatProperties
    <3>2. Len(a) + Len(one) = i
      BY <1>1, <2>1
    <3> QED
      BY <1>1, <3>1, <3>2
  <2> HIDE DEF w
  <2>3. /\ v \in Seq(Entries) /\ Len(v) = i + Len(b)
        /\ \A j \in 1..(i + Len(b)) :
              v[j] = IF j <= i THEN w[j] ELSE b[j - i]
    <3>1. w \in Seq(Entries) /\ b \in Seq(Entries)
      BY <1>2, <2>2
    <3>2. /\ v \in Seq(Entries) /\ Len(v) = Len(w) + Len(b)
          /\ \A j \in 1..(Len(w) + Len(b)) :
                v[j] = IF j <= Len(w) THEN w[j] ELSE b[j - Len(w)]
      BY <3>1, ConcatProperties, Zenon
    <3> QED
      BY <2>2, <3>2
  <2> HIDE DEF v
  <2>4. Len(v) = Len(s)
    BY <1>0, <1>2, <2>3
  <2>5. ASSUME NEW j \in 1..Len(s) PROVE v[j] = u[j]
    <3>1. v[j] = IF j <= i THEN w[j] ELSE b[j - i]
      BY <1>0, <1>2, <2>3, <2>4
    <3>2. CASE j < i
      BY <1>0, <1>1, <1>4, <2>2, <3>1, <3>2
    <3>3. CASE j = i
      <4>1. one[j - (i - 1)] = x
        BY <2>1, <3>3
      <4> QED
        BY <1>0, <1>4, <2>2, <3>1, <3>3, <4>1
    <3>4. CASE j > i
      <4>1. j - i \in 1..(Len(s) - i) /\ i + (j - i) = j
        BY <1>0, <3>4
      <4> QED
        BY <1>0, <1>2, <1>4, <3>1, <3>4, <4>1
    <3> QED
      BY <1>0, <3>2, <3>3, <3>4
  <2>6. u = v
    BY <1>4, <2>3, <2>4, <2>5, SeqEqual
  <2>7. CountOf(v, L, k) = CountOf(w, L, k) + CountOf(b, L, k)
    BY <1>2, <2>2, CountConcat DEF v
  <2>8. CountOf(w, L, k) = CountOf(a, L, k) + Worth(x, L, k)
    <3>1. CountOf(a \o one, L, k) = CountOf(a, L, k) + CountOf(one, L, k)
      BY <1>1, <2>1, CountConcat
    <3>2. CountOf(one, L, k) = Worth(x, L, k)
      BY CountOne DEF one
    <3> QED
      BY <3>1, <3>2 DEF w
  <2> QED
    BY <2>6, <2>7, <2>8
<1>5. CountOf(s, L, k) = CountOf(a, L, k) + Worth(s[i], L, k) + CountOf(b, L, k)
  BY <1>0, <1>4
<1>6. CountOf(t, L, k) = CountOf(a, L, k) + Worth(e, L, k) + CountOf(b, L, k)
  BY <1>3, <1>4
<1>7. /\ CountOf(a, L, k) \in Nat /\ CountOf(b, L, k) \in Nat
      /\ Worth(s[i], L, k) \in Nat /\ Worth(e, L, k) \in Nat
  BY <1>0, <1>1, <1>2, CountNat, WorthNat
<1> QED
  BY <1>5, <1>6, <1>7 DEF t

-----------------------------------------------------------------------------
(* The table *)

(* f has the entries of the first buckets of m, for up to n of them. *)
Walks(f, m, n) ==
    f = [i \in 0..n |-> IF i = 0 THEN <<>> ELSE f[i - 1] \o m[i - 1]]

WalkOf(m) == CHOOSE f : Walks(f, m, Buckets)

(* The table's iterator is a walk through its buckets. *)
LEMMA MapIterIsWalk == MapIter = WalkOf(map) /\ MapIter' = WalkOf(map')
  BY DEF MapIter, WalkOf, Walks

(* There is a walk through any table. *)
LEMMA WalkUnfolds ==
    ASSUME NEW m
    PROVE  \A i \in 0..Buckets :
              WalkOf(m)[i] = IF i = 0 THEN <<>> ELSE WalkOf(m)[i - 1] \o m[i - 1]
<1> DEFINE Q == {n \in Nat : \E f : Walks(f, m, n)}
<1>1. 0 \in Q
  <2> DEFINE f == [i \in 0..0 |-> <<>>]
  <2>1. Walks(f, m, 0)
    BY DEF Walks
  <2> QED
    BY <2>1
<1>2. ASSUME NEW n \in Nat, n \in Q PROVE n + 1 \in Q
  <2>1. PICK f : Walks(f, m, n)
    BY <1>2
  <2> DEFINE g == [i \in 0..(n + 1) |-> IF i = 0 THEN <<>> ELSE f[i - 1] \o m[i - 1]]
  <2>2. \A i \in 0..n : f[i] = IF i = 0 THEN <<>> ELSE f[i - 1] \o m[i - 1]
    BY <2>1 DEF Walks
  <2>3. \A i \in 0..n : g[i] = f[i]
    BY <2>2
  <2>4. \A i \in 0..(n + 1) : i # 0 => i - 1 \in 0..n /\ g[i - 1] = f[i - 1]
    <3> HIDE DEF g
    <3> QED
      BY <2>3
  <2>5. g = [i \in 0..(n + 1) |-> IF i = 0 THEN <<>> ELSE g[i - 1] \o m[i - 1]]
    BY <2>4
  <2> HIDE DEF g
  <2>6. Walks(g, m, n + 1)
    BY <2>5 DEF Walks
  <2> QED
    BY <2>6
<1> HIDE DEF Q
<1>3. Nat \subseteq Q
  BY <1>1, <1>2, NatSetInduction
<1>4. Walks(WalkOf(m), m, Buckets)
  BY <1>3, SizeAssumption DEF Q, WalkOf
<1> HIDE DEF WalkOf
<1> QED
  BY <1>4 DEF Walks

Tables == [0..(Buckets - 1) -> Seq(Entries)]

(* A walk collects what is in the buckets. *)
LEMMA WalkIn ==
    ASSUME NEW S, NEW m \in [0..(Buckets - 1) -> Seq(S)]
    PROVE  \A i \in 0..Buckets : WalkOf(m)[i] \in Seq(S)
<1> DEFINE Q == {i \in Nat : i <= Buckets => WalkOf(m)[i] \in Seq(S)}
<1>1. 0 \in Q
  <2>1. 0 \in 0..Buckets
    BY SizeAssumption
  <2>2. WalkOf(m)[0] = <<>>
    BY <2>1, WalkUnfolds
  <2> QED
    BY <2>2, EmptySeq
<1>2. ASSUME NEW i \in Nat, i \in Q PROVE i + 1 \in Q
  <2> SUFFICES ASSUME i + 1 <= Buckets PROVE WalkOf(m)[i + 1] \in Seq(S)
    OBVIOUS
  <2>1. i \in 0..(Buckets - 1) /\ i + 1 \in 0..Buckets /\ i + 1 # 0 /\ (i + 1) - 1 = i
    BY SizeAssumption
  <2>2. WalkOf(m)[i + 1] = WalkOf(m)[i] \o m[i]
    BY <2>1, WalkUnfolds
  <2>3. WalkOf(m)[i] \in Seq(S) /\ m[i] \in Seq(S)
    BY <1>2, <2>1, SizeAssumption
  <2> QED
    BY <2>2, <2>3, ConcatProperties
<1> HIDE DEF Q
<1>3. Nat \subseteq Q
  BY <1>1, <1>2, NatSetInduction
<1> QED
  BY <1>3, SizeAssumption DEF Q

(* A walk collects entries. *)
LEMMA WalkType ==
    ASSUME NEW m \in Tables
    PROVE  \A i \in 0..Buckets : WalkOf(m)[i] \in Seq(Entries)
  BY WalkIn DEF Tables

TableCount(m, L, k) == CountOf(WalkOf(m)[Buckets], L, k)

(* An empty table counts nothing. *)
LEMMA EmptyTable ==
    ASSUME NEW m \in Tables, \A h \in 0..(Buckets - 1) : m[h] = <<>>, NEW L, NEW k
    PROVE  TableCount(m, L, k) = 0
<1> DEFINE Q == {i \in Nat : i <= Buckets => WalkOf(m)[i] = <<>>}
<1>1. 0 \in Q
  BY WalkUnfolds, SizeAssumption
<1>2. ASSUME NEW i \in Nat, i \in Q PROVE i + 1 \in Q
  <2> SUFFICES ASSUME i + 1 <= Buckets PROVE WalkOf(m)[i + 1] = <<>>
    OBVIOUS
  <2>1. i \in 0..(Buckets - 1) /\ i + 1 \in 0..Buckets /\ i + 1 # 0 /\ (i + 1) - 1 = i
    BY SizeAssumption
  <2>2. WalkOf(m)[i + 1] = WalkOf(m)[i] \o m[i]
    BY <2>1, WalkUnfolds
  <2>3. WalkOf(m)[i] = <<>> /\ m[i] = <<>>
    BY <1>2, <2>1, SizeAssumption
  <2>4. <<>> \o <<>> = <<>>
    OBVIOUS
  <2> QED
    BY <2>2, <2>3, <2>4
<1> HIDE DEF Q
<1>3. Nat \subseteq Q
  BY <1>1, <1>2, NatSetInduction
<1>4. WalkOf(m)[Buckets] = <<>>
  BY <1>3, SizeAssumption DEF Q
<1> QED
  BY <1>4, CountEmpty DEF TableCount

(* A new bucket changes the table's counts by the difference between new   *)
(* and old.                                                                *)
LEMMA TableChange ==
    ASSUME NEW m \in Tables, NEW h \in 0..(Buckets - 1), NEW b \in Seq(Entries), NEW L, NEW k
    PROVE  TableCount([m EXCEPT ![h] = b], L, k)
              = TableCount(m, L, k) - CountOf(m[h], L, k) + CountOf(b, L, k)
<1> DEFINE n == [m EXCEPT ![h] = b]
           Old(i) == CountOf(WalkOf(m)[i], L, k)
           New(i) == CountOf(WalkOf(n)[i], L, k)
           Change(i) == IF h < i THEN CountOf(b, L, k) - CountOf(m[h], L, k) ELSE 0
           Q == {i \in Nat : i <= Buckets => New(i) = Old(i) + Change(i)}
<1>0. /\ n \in Tables /\ n[h] = b /\ \A i \in 0..(Buckets - 1) : i # h => n[i] = m[i]
      /\ h \in Nat /\ m[h] \in Seq(Entries)
  BY DEF Tables
<1> HIDE DEF n
<1>1. ASSUME NEW i \in 0..Buckets PROVE Old(i) \in Nat /\ New(i) \in Nat
  BY <1>0, WalkType, CountNat
<1>2. CountOf(b, L, k) \in Nat /\ CountOf(m[h], L, k) \in Nat
  BY <1>0, CountNat
<1>3. 0 \in Q
  <2>1. WalkOf(m)[0] = <<>> /\ WalkOf(n)[0] = <<>>
    BY WalkUnfolds, SizeAssumption
  <2>2. Old(0) = 0 /\ New(0) = 0 /\ Change(0) = 0
    BY <1>0, <2>1, CountEmpty
  <2> QED
    BY <2>2
<1>4. ASSUME NEW i \in Nat, i \in Q PROVE i + 1 \in Q
  <2> SUFFICES ASSUME i + 1 <= Buckets PROVE New(i + 1) = Old(i + 1) + Change(i + 1)
    OBVIOUS
  <2>1. /\ i \in 0..(Buckets - 1) /\ i \in 0..Buckets /\ i + 1 \in 0..Buckets
        /\ i + 1 # 0 /\ (i + 1) - 1 = i
    BY SizeAssumption
  <2>2. WalkOf(m)[i + 1] = WalkOf(m)[i] \o m[i] /\ WalkOf(n)[i + 1] = WalkOf(n)[i] \o n[i]
    BY <2>1, WalkUnfolds
  <2>3. /\ WalkOf(m)[i] \in Seq(Entries) /\ m[i] \in Seq(Entries)
        /\ WalkOf(n)[i] \in Seq(Entries) /\ n[i] \in Seq(Entries)
    BY <1>0, <2>1, WalkType DEF Tables
  <2>4. Old(i + 1) = Old(i) + CountOf(m[i], L, k) /\ New(i + 1) = New(i) + CountOf(n[i], L, k)
    BY <2>2, <2>3, CountConcat
  <2>5. New(i) = Old(i) + Change(i)
    BY <1>4, <2>1
  <2>6. Old(i) \in Nat /\ New(i) \in Nat /\ CountOf(m[i], L, k) \in Nat
    BY <1>1, <2>1, <2>3, CountNat
  <2> HIDE DEF Old, New
  <2>7. CASE i = h
    <3>1. ~(h < i) /\ h < i + 1
      BY <1>0, <2>7
    <3> QED
      BY <1>0, <1>2, <2>4, <2>5, <2>6, <2>7, <3>1
  <2>8. CASE i # h
    <3>1. (h < i) <=> (h < i + 1)
      BY <1>0, <2>8
    <3>2. n[i] = m[i]
      BY <1>0, <2>1, <2>8
    <3> QED
      BY <1>2, <2>4, <2>5, <2>6, <3>1, <3>2
  <2> QED
    BY <2>7, <2>8
<1> HIDE DEF Q
<1>5. Nat \subseteq Q
  BY <1>3, <1>4, NatSetInduction
<1>6. New(Buckets) = Old(Buckets) + Change(Buckets) /\ h < Buckets
  BY <1>5, SizeAssumption DEF Q
<1>7. Old(Buckets) \in Nat
  BY <1>1, SizeAssumption
<1> QED
  BY <1>2, <1>6, <1>7 DEF TableCount, n

-----------------------------------------------------------------------------
(* Bucket::add and push *)

(* Bucket::add counts the sample, and what leaves the bucket is evicted.   *)
LEMMA BucketCounts ==
    ASSUME NEW b \in Seq(Entries), Len(b) <= Associativity,
           NEW k \in Keys, NEW at \in Nat, BucketUnique(b, Hash[k]), NEW L, NEW q
    PROVE  CountOf(BucketAdd(b, k, at, 1).bucket, L, q) + CountOf(BucketAdd(b, k, at, 1).evict, L, q)
              = CountOf(b, L, q) + (IF q = L[Sample(b, k, at).shown] THEN 1 ELSE 0)
<1> DEFINE new == Entry(k, at, 1)
<1>0. /\ new \in Entries /\ Worth(new, L, q) = IF q = L[k] THEN 1 ELSE 0
      /\ Len(b) \in Nat /\ DOMAIN b = 1..Len(b)
      /\ \A i \in 1..Len(b) : b[i] \in Entries
  <2>1. new \in Entries /\ Worth(new, L, q) = IF q = L[k] THEN 1 ELSE 0
    BY DEF Entries, Entry, Worth
  <2> QED
    BY <2>1, LenProperties, ElementOfSeq
<1>1. CountOf(b, L, q) \in Nat /\ CountOf(<<>>, L, q) = 0
  BY CountNat, CountEmpty
<1>2. ASSUME NEW j \in 1..Len(b), NEW e \in Entries
      PROVE  CountOf([b EXCEPT ![j] = e], L, q) = CountOf(b, L, q) - Worth(b[j], L, q) + Worth(e, L, q)
  BY CountExcept
<1>3. Matches(b, k) = {} => Sample(b, k, at).shown = k
  BY SampleType
<1>4. CASE Matches(b, k) # {}
  <2>0. PICK i \in Matches(b, k) : Sample(b, k, at).shown = b[i].item
    BY <1>4, SampleType
  <2>1. i \in 1..Len(b) /\ UnresolvedEq(b[i].item, k)
    BY <1>0, <2>0 DEF Matches
  <2> DEFINE e == Entry(b[i].item, b[i].at, b[i].count + 1)
  <2>2. b[i] \in Entries /\ b[i].count \in Nat /\ b[i].at \in Nat /\ b[i].item \in Keys
    BY <1>0, <2>1 DEF Entries
  <2>3. e \in Entries /\ e.item = b[i].item /\ e.count = b[i].count + 1
    BY <2>1, <2>2 DEF Entries, Entry
  <2>4. \A j \in DOMAIN b : j \in Matches(b, k) <=> j = i
    BY <1>0, <2>1, EqTransitive DEF Matches, BucketUnique
  <2>5. Counted(b, k, 1) = [b EXCEPT ![i] = e]
    BY <2>4 DEF Counted
  <2> HIDE DEF e
  <2>6. CountOf([b EXCEPT ![i] = e], L, q) = CountOf(b, L, q) - Worth(b[i], L, q) + Worth(e, L, q)
    BY <1>2, <2>1, <2>3, Zenon
  <2>7. /\ BucketAdd(b, k, at, 1).bucket = Counted(b, k, 1)
        /\ BucketAdd(b, k, at, 1).evict = <<>>
    BY <1>4 DEF BucketAdd
  <2>8. Worth(e, L, q) = Worth(b[i], L, q) + (IF q = L[b[i].item] THEN 1 ELSE 0) /\ Worth(b[i], L, q) \in Nat
    BY <2>1, <2>2, <2>3 DEF Worth
  <2>9. /\ CountOf(BucketAdd(b, k, at, 1).evict, L, q) = 0
        /\ CountOf(BucketAdd(b, k, at, 1).bucket, L, q)
              = CountOf(b, L, q) - Worth(b[i], L, q) + Worth(e, L, q)
    BY <2>5, <2>6, <2>7, CountEmpty
  <2> QED
    BY <1>1, <2>0, <2>8, <2>9
<1>5. CASE Matches(b, k) = {} /\ Len(b) < Associativity
  <2>1. /\ BucketAdd(b, k, at, 1).bucket = Append(b, new)
        /\ BucketAdd(b, k, at, 1).evict = <<>>
    BY <1>5 DEF BucketAdd
  <2>2. CountOf(Append(b, new), L, q) = CountOf(b, L, q) + Worth(new, L, q)
    BY <1>0, CountAppend
  <2> HIDE DEF new
  <2>3. /\ CountOf(BucketAdd(b, k, at, 1).evict, L, q) = 0
        /\ CountOf(BucketAdd(b, k, at, 1).bucket, L, q) = CountOf(b, L, q) + Worth(new, L, q)
    BY <2>1, <2>2, CountEmpty
  <2> QED
    BY <1>0, <1>1, <1>5, <1>3, <2>3
<1>6. CASE Matches(b, k) = {} /\ ~(Len(b) < Associativity)
  <2> DEFINE i == MinIndex(b)
  <2>1. i \in 1..Len(b)
    BY <1>0, <1>6, SizeAssumption, MinIndexInBucket
  <2>2. /\ BucketAdd(b, k, at, 1).bucket = [b EXCEPT ![i] = new]
        /\ BucketAdd(b, k, at, 1).evict = <<b[i]>>
    BY <1>6 DEF BucketAdd
  <2>3. CountOf([b EXCEPT ![i] = new], L, q) = CountOf(b, L, q) - Worth(b[i], L, q) + Worth(new, L, q)
    <3>1. new \in Entries
      BY <1>0
    <3> HIDE DEF new, i
    <3> QED
      BY <1>2, <2>1, <3>1, Zenon
  <2> HIDE DEF new, i
  <2>4. b[i] \in Entries
    BY <1>0, <2>1
  <2>5. CountOf(<<b[i]>>, L, q) = Worth(b[i], L, q) /\ Worth(b[i], L, q) \in Nat
    BY <2>4, CountOne, WorthNat
  <2>6. Worth(new, L, q) \in Nat /\ Worth(new, L, q) = IF q = L[Sample(b, k, at).shown] THEN 1 ELSE 0
    BY <1>0, <1>6, <1>3
  <2>7. /\ CountOf(BucketAdd(b, k, at, 1).evict, L, q) = Worth(b[i], L, q)
        /\ CountOf(BucketAdd(b, k, at, 1).bucket, L, q)
              = CountOf(b, L, q) - Worth(b[i], L, q) + Worth(new, L, q)
    BY <2>2, <2>3, <2>5
  <2> QED
    BY <1>1, <2>5, <2>6, <2>7
<1> QED
  BY <1>4, <1>5, <1>6

(* What a readable collector counts for a label, in its three places. *)
HeldCount(L, q) == TableCount(map, L, q) + CountOf(buffer, L, q) + CountOf(file, L, q)

(* What it counts for every kind of stack. *)
Held == [kind \in Range(Kind) |-> IF Readable THEN HeldCount(Kind, kind) ELSE 0]

(* A readable collector is iterated to its end, through all three. *)
LEMMA IterIn ==
    ASSUME TypeOK, FileInv, Readable, NEW S, map \in [0..(Buckets - 1) -> Seq(S)],
           buffer \in Seq(S), file \in Seq(S)
    PROVE  /\ Iter = WalkOf(map)[Buckets] \o (buffer \o file) /\ Iter \in Seq(S)
           /\ WalkOf(map)[Buckets] \in Seq(S)
<1>1. MapIter[Buckets] = WalkOf(map)[Buckets]
  BY MapIterIsWalk
<1>2. WalkOf(map)[Buckets] \in Seq(S)
  <2>1. Buckets \in 0..Buckets
    BY SizeAssumption
  <2> QED
    BY <2>1, WalkIn
<1>3. Len(file) = BufferLength * flushN
  <2>1. Len(file) \in Nat /\ BufferLength * flushN \in Nat
    BY SizeAssumption DEF TypeOK
  <2> QED
    BY <2>1 DEF FileInv, Readable
<1>4. TempIter = buffer \o file
  BY <1>3, SubSeqFull DEF TempIter
<1>5. buffer \o file \in Seq(S)
  BY ConcatProperties
<1>6. Iter = WalkOf(map)[Buckets] \o (buffer \o file)
  BY <1>1, <1>4 DEF Iter
<1> HIDE DEF WalkOf
<1>7. Iter \in Seq(S)
  BY <1>2, <1>5, <1>6, ConcatProperties
<1> QED
  BY <1>2, <1>6, <1>7

(* It counts what is in the three. *)
LEMMA IterCounts ==
    ASSUME TypeOK, FileInv, Readable
    PROVE  /\ Iter \in Seq(Entries)
           /\ \A L, q : CountOf(Iter, L, q) = HeldCount(L, q)
<1>1. file \in Seq(Entries) /\ buffer \in Seq(Entries)
  BY DEF TypeOK
<1>2. /\ Iter = WalkOf(map)[Buckets] \o (buffer \o file) /\ Iter \in Seq(Entries)
      /\ WalkOf(map)[Buckets] \in Seq(Entries)
  BY IterIn DEF TypeOK
<1>3. buffer \o file \in Seq(Entries)
  BY <1>1, ConcatProperties
<1>4. ASSUME NEW L, NEW q PROVE CountOf(Iter, L, q) = HeldCount(L, q)
  <2>1. CountOf(buffer \o file, L, q) = CountOf(buffer, L, q) + CountOf(file, L, q)
    BY <1>1, CountConcat
  <2>2. CountOf(Iter, L, q) = TableCount(map, L, q) + CountOf(buffer \o file, L, q)
    <3> DEFINE w == WalkOf(map)[Buckets]
               rest == buffer \o file
    <3>1. Iter = w \o rest /\ w \in Seq(Entries) /\ rest \in Seq(Entries)
      BY <1>2, <1>3
    <3> HIDE DEF w, rest
    <3>2. CountOf(w \o rest, L, q) = CountOf(w, L, q) + CountOf(rest, L, q)
      BY <3>1, CountConcat
    <3> QED
      BY <3>1, <3>2 DEF w, rest, TableCount
  <2>3. TableCount(map, L, q) \in Nat /\ CountOf(buffer, L, q) \in Nat /\ CountOf(file, L, q) \in Nat
    BY <1>1, <1>2, CountNat DEF TableCount
  <2> QED
    BY <2>1, <2>2, <2>3 DEF HeldCount
<1> QED
  BY <1>2, <1>4

(* What Collector::add does with an entry that is evicted. *)
LEMMA AddEffect ==
    ASSUME TypeOK, NEW k \in Keys, NEW written \in Writes, Add(k, written)
    PROVE  LET r == BucketAdd(map[Hash[k]], k, Clock[now], 1)
           IN  \/ r.evict = <<>> /\ UNCHANGED <<buffer, flushN, file, failed>>
               \/ \E e \in Entries :
                     /\ r.evict = <<e>> /\ Len(buffer) < BufferLength
                     /\ buffer' = Append(buffer, e) /\ UNCHANGED <<flushN, file, failed>>
               \/ \E e \in Entries :
                     /\ r.evict = <<e>> /\ Len(buffer) = BufferLength
                     /\ flushN' = flushN + 1
                     /\ file' = file \o SubSeq(buffer, 1, written)
                     /\ buffer' = IF written = BufferLength THEN <<e>> ELSE <<>>
                     /\ failed' = IF written = BufferLength THEN failed ELSE TRUE
<1> DEFINE b == map[Hash[k]]
           r == BucketAdd(b, k, Clock[now], 1)
<1>1. /\ b \in Seq(Entries) /\ Len(b) <= Associativity /\ Clock[now] \in Nat
      /\ Len(buffer) \in Nat /\ Len(buffer) <= BufferLength /\ BufferLength \in Nat
  BY HashAssumption, ClockAssumption, SizeAssumption DEF TypeOK
<1>2. IF r.evict = <<>> THEN UNCHANGED <<buffer, flushN, file, failed>>
                        ELSE Push(r.evict[1], written)
  BY DEF Add
<1>3. r.evict = <<>> \/ \E e : r.evict = <<e>>
  BY DEF BucketAdd
<1>4. r.evict = <<>> \/ r.evict[1] \in Entries
  BY <1>1, BucketAddType
<1> HIDE DEF r
<1>5. CASE r.evict = <<>>
  BY <1>2, <1>5 DEF r
<1>6. CASE r.evict # <<>>
  <2>1. PICK e : r.evict = <<e>>
    BY <1>3, <1>6
  <2>2. e \in Entries /\ Push(e, written)
    BY <1>2, <1>4, <1>6, <2>1
  <2>3. CASE Len(buffer) < BufferLength
    BY <2>1, <2>2, <2>3 DEF Push, r
  <2>4. CASE ~(Len(buffer) < BufferLength)
    <3>1. Len(buffer) = BufferLength
      BY <1>1, <2>4
    <3> QED
      BY <2>1, <2>2, <2>4, <3>1 DEF Push, FlushCount, r
  <2> QED
    BY <2>3, <2>4
<1> QED
  BY <1>5, <1>6

(* A sample is counted once, under its entry's label, wherever its stack's *)
(* entries go.                                                             *)
LEMMA AddCounts ==
    ASSUME TypeOK, TypeOK', KeysUnique, FileInv, FileInv', Readable',
           NEW k \in Keys, NEW written \in Writes, Add(k, written), NEW L, NEW q
    PROVE  HeldCount(L, q)' = HeldCount(L, q)
               + (IF q = L[Sample(map[Hash[k]], k, Clock[now]).shown] THEN 1 ELSE 0)
<1> DEFINE h == Hash[k]
           r == BucketAdd(map[h], k, Clock[now], 1)
<1>1. /\ h \in 0..(Buckets - 1) /\ map \in Tables /\ Clock[now] \in Nat
      /\ map[h] \in Seq(Entries) /\ Len(map[h]) <= Associativity
      /\ buffer \in Seq(Entries) /\ file \in Seq(Entries)
  BY HashAssumption, ClockAssumption DEF TypeOK, Tables
<1>2. BucketUnique(map[h], Hash[k])
  BY <1>1 DEF KeysUnique, BucketUnique
<1>3. r.bucket \in Seq(Entries)
  BY <1>1, BucketAddType
<1>4. map' = [map EXCEPT ![h] = r.bucket]
  BY DEF Add
<1>5. CountOf(r.bucket, L, q) + CountOf(r.evict, L, q)
         = CountOf(map[h], L, q) + (IF q = L[Sample(map[Hash[k]], k, Clock[now]).shown] THEN 1 ELSE 0)
  BY <1>1, <1>2, BucketCounts
<1>6. TableCount(map', L, q) = TableCount(map, L, q) - CountOf(map[h], L, q) + CountOf(r.bucket, L, q)
  <2>1. ASSUME NEW b \in Seq(Entries)
        PROVE  TableCount([map EXCEPT ![h] = b], L, q)
                  = TableCount(map, L, q) - CountOf(map[h], L, q) + CountOf(b, L, q)
    <3> HIDE DEF h
    <3> QED
      BY <1>1, TableChange
  <2> QED
    BY <1>3, <1>4, <2>1
<1>7. CountOf(buffer', L, q) + CountOf(file', L, q)
         = CountOf(buffer, L, q) + CountOf(file, L, q) + CountOf(r.evict, L, q)
  <2>0. /\ CountOf(buffer, L, q) \in Nat /\ CountOf(file, L, q) \in Nat
        /\ \A e \in Entries : CountOf(<<e>>, L, q) = Worth(e, L, q) /\ Worth(e, L, q) \in Nat
    BY <1>1, CountNat, CountOne, WorthNat
  <2>1. CASE r.evict = <<>> /\ UNCHANGED <<buffer, flushN, file, failed>>
    <3>1. CountOf(r.evict, L, q) = 0
      BY <2>1, CountEmpty
    <3> QED
      BY <2>0, <2>1, <3>1
  <2>2. ASSUME NEW e \in Entries, r.evict = <<e>>, buffer' = Append(buffer, e), file' = file
        PROVE  CountOf(buffer', L, q) + CountOf(file', L, q)
                  = CountOf(buffer, L, q) + CountOf(file, L, q) + CountOf(r.evict, L, q)
    <3>1. CountOf(buffer', L, q) = CountOf(buffer, L, q) + Worth(e, L, q)
      BY <1>1, <2>2, CountAppend
    <3>2. CountOf(r.evict, L, q) = Worth(e, L, q) /\ Worth(e, L, q) \in Nat
      BY <2>0, <2>2
    <3> QED
      BY <2>0, <2>2, <3>1, <3>2
  <2>3. ASSUME NEW e \in Entries, r.evict = <<e>>, Len(buffer) = BufferLength,
               flushN' = flushN + 1, file' = file \o SubSeq(buffer, 1, written),
               buffer' = IF written = BufferLength THEN <<e>> ELSE <<>>,
               failed' = IF written = BufferLength THEN failed ELSE TRUE
        PROVE  CountOf(buffer', L, q) + CountOf(file', L, q)
                  = CountOf(buffer, L, q) + CountOf(file, L, q) + CountOf(r.evict, L, q)
    <3>1. written = BufferLength
      <4>1. Len(file') \in Nat /\ BufferLength * flushN' \in Nat
        <5>1. flushN' \in Nat /\ BufferLength \in Nat /\ Len(file') \in Nat
          BY SizeAssumption DEF TypeOK
        <5>2. \A a, b \in Nat : a * b \in Nat
          OBVIOUS
        <5> QED
          BY <5>1, <5>2
      <4>2. ~failed'
        BY <4>1 DEF FileInv, Readable
      <4> QED
        BY <2>3, <4>2
    <3>2. file' = file \o buffer
      BY <1>1, <2>3, <3>1, SubSeqFull
    <3>3. CountOf(file', L, q) = CountOf(file, L, q) + CountOf(buffer, L, q)
      BY <1>1, <3>2, CountConcat
    <3>4. CountOf(buffer', L, q) = CountOf(r.evict, L, q) /\ CountOf(r.evict, L, q) \in Nat
      BY <2>0, <2>3, <3>1
    <3> QED
      BY <2>0, <3>3, <3>4
  <2> QED
    BY <2>1, <2>2, <2>3, AddEffect
<1>8. /\ CountOf(buffer, L, q) \in Nat /\ CountOf(file, L, q) \in Nat /\ CountOf(map[h], L, q) \in Nat
      /\ CountOf(r.bucket, L, q) \in Nat /\ TableCount(map, L, q) \in Nat
  <2>1. Buckets \in 0..Buckets
    BY SizeAssumption
  <2>2. WalkOf(map)[Buckets] \in Seq(Entries)
    BY <1>1, <2>1, WalkType
  <2> QED
    BY <1>1, <1>3, <2>2, CountNat DEF TableCount
<1>9. /\ CountOf(r.evict, L, q) \in Nat
      /\ CountOf(buffer', L, q) \in Nat /\ CountOf(file', L, q) \in Nat
  <2>1. r.evict = <<>> \/ \E e \in Entries : r.evict = <<e>>
    BY AddEffect
  <2>2. <<>> \in Seq(Entries) /\ \A e \in Entries : <<e>> \in Seq(Entries)
    BY EmptySeq
  <2>3. buffer' \in Seq(Entries) /\ file' \in Seq(Entries)
    BY DEF TypeOK
  <2>4. r.evict \in Seq(Entries)
    <3> HIDE DEF r
    <3> QED
      BY <2>1, <2>2
  <2> QED
    BY <2>3, <2>4, CountNat
<1>10. /\ HeldCount(L, q)' = TableCount(map', L, q) + CountOf(buffer', L, q) + CountOf(file', L, q)
       /\ HeldCount(L, q) = TableCount(map, L, q) + CountOf(buffer, L, q) + CountOf(file, L, q)
  BY DEF HeldCount
<1> DEFINE one == IF q = L[Sample(map[Hash[k]], k, Clock[now]).shown] THEN 1 ELSE 0
<1>11. one \in Nat
  OBVIOUS
<1>12. CountOf(r.bucket, L, q) + CountOf(r.evict, L, q) = CountOf(map[h], L, q) + one
  BY <1>5
<1> HIDE DEF h, r, one
<1>13. HeldCount(L, q)' = HeldCount(L, q) + one
  BY <1>6, <1>7, <1>8, <1>9, <1>10, <1>11, <1>12
<1> QED
  BY <1>13 DEF one

(* A collector that cannot be read stays so. *)
LEMMA LostStays ==
    ASSUME TypeOK, TypeOK', NEW k \in Keys, NEW written \in Writes, Add(k, written),
           ~Readable
    PROVE  ~Readable'
<1>1. CASE UNCHANGED <<flushN, file>>
  BY <1>1 DEF Readable
<1>2. CASE /\ Len(buffer) = BufferLength /\ flushN' = flushN + 1
           /\ file' = file \o SubSeq(buffer, 1, written)
  <2>1. written \in 0..BufferLength /\ BufferLength \in Nat
    BY SizeAssumption DEF Writes
  <2>2. /\ SubSeq(buffer, 1, written) \in Seq(Entries)
        /\ Len(SubSeq(buffer, 1, written)) = written
    <3>1. \A i \in 1..written : buffer[i] \in Entries
      BY <1>2, <2>1, ElementOfSeq DEF TypeOK
    <3>2. /\ SubSeq(buffer, 1, written) \in Seq(Entries)
          /\ Len(SubSeq(buffer, 1, written)) = IF 1 <= written THEN written - 1 + 1 ELSE 0
      BY <2>1, <3>1, SubSeqProperties
    <3> QED
      BY <2>1, <3>2
  <2>3. Len(file') = Len(file) + written /\ Len(file) \in Nat
    BY <1>2, <2>2, ConcatProperties DEF TypeOK
  <2>4. /\ BufferLength * (flushN + 1) = BufferLength * flushN + BufferLength
        /\ BufferLength * flushN \in Nat
    BY <2>1 DEF TypeOK
  <2>5. Len(file) < BufferLength * flushN
    BY <2>3, <2>4 DEF Readable
  <2>6. Len(file') < BufferLength * flushN'
    BY <1>2, <2>1, <2>3, <2>4, <2>5
  <2>7. Len(file') \in Nat /\ BufferLength * flushN' \in Nat
    BY <1>2, <2>1, <2>3, <2>4
  <2> QED
    BY <2>6, <2>7 DEF Readable
<1> QED
  BY <1>1, <1>2, AddEffect

-----------------------------------------------------------------------------
(* build_unresolved *)

(* One turn of its loop, as Merged binds it. *)
Turn(sofar, e) == CHOOSE merged \in {UnresolvedMerge(m, e) : m \in {sofar}} : TRUE

(* The loop of build_unresolved, unfolded. *)
LEMMA MergedTurns ==
    ASSUME NEW S, NEW s \in Seq(S)
    PROVE  \E r : /\ \A i \in 0..Len(s) :
                        r[i] = IF i = 0 THEN <<>> ELSE UnresolvedMerge(r[i - 1], s[i])
                  /\ Merged(s) = r[Len(s)]
<1> DEFINE start == <<>>
           Turns(r, n) ==
               r = [i \in 0..n |-> IF i = 0 THEN start ELSE Turn(r[i - 1], s[i])]
           Q == {n \in Nat : \E r : Turns(r, n)}
           r == CHOOSE f : Turns(f, Len(s))
<1>1. Merged(s) = r[Len(s)]
  BY DEF Merged, Turn
<1> HIDE DEF start
<1>2. 0 \in Q
  <2> DEFINE f == [i \in 0..0 |-> start]
  <2>1. Turns(f, 0)
    OBVIOUS
  <2> QED
    BY <2>1
<1>3. ASSUME NEW n \in Nat, n \in Q PROVE n + 1 \in Q
  <2>1. PICK f : Turns(f, n)
    BY <1>3
  <2> DEFINE g == [i \in 0..(n + 1) |-> IF i = 0 THEN start ELSE Turn(f[i - 1], s[i])]
  <2>2. \A i \in 0..n : f[i] = IF i = 0 THEN start ELSE Turn(f[i - 1], s[i])
    BY <2>1
  <2>3. \A i \in 0..n : g[i] = f[i]
    BY <2>2
  <2>4. \A i \in 0..(n + 1) : i # 0 => i - 1 \in 0..n
    OBVIOUS
  <2>5. \A i \in 0..(n + 1) : i # 0 => g[i - 1] = f[i - 1]
    BY <2>3, <2>4
  <2>6. g = [i \in 0..(n + 1) |-> IF i = 0 THEN start ELSE Turn(g[i - 1], s[i])]
    BY <2>5
  <2> HIDE DEF g
  <2>7. Turns(g, n + 1) /\ n + 1 \in Nat
    BY <2>6
  <2> HIDE DEF Turns
  <2> QED
    BY <2>7
<1> HIDE DEF Q
<1>4. Nat \subseteq Q
  BY <1>2, <1>3, NatSetInduction
<1>5. Turns(r, Len(s))
  <2>1. Len(s) \in Q
    BY <1>4
  <2> QED
    BY <2>1 DEF Q
<1> HIDE DEF r
<1>6. \A i \in 0..Len(s) : r[i] = IF i = 0 THEN start ELSE Turn(r[i - 1], s[i])
  BY <1>5
<1>7. \A m, e : Turn(m, e) = UnresolvedMerge(m, e)
  BY DEF Turn
<1> QED
  BY <1>1, <1>6, <1>7 DEF start

(* A map of stacks as build_unresolved makes it: one stack of a kind. *)
IsMerged(m) ==
    /\ DOMAIN m \subseteq Keys
    /\ \A k \in DOMAIN m : m[k] \in Nat
    /\ \A k, l \in DOMAIN m : Kind[k] = Kind[l] => k = l

(* Stacks are equal when they are of a kind. *)
LEMMA EqIsKind == \A k, l \in Keys : UnresolvedEq(k, l) <=> Kind[k] = Kind[l]
<1> SUFFICES ASSUME NEW k \in Keys, NEW l \in Keys
             PROVE  UnresolvedEq(k, l) <=> Kind[k] = Kind[l]
  OBVIOUS
<1>1. /\ Kind[k] = [functions |-> Addresses[k], thread |-> ThreadId[k]]
      /\ Kind[l] = [functions |-> Addresses[l], thread |-> ThreadId[l]]
  BY DEF Kind
<1> QED
  BY <1>1 DEF UnresolvedEq

(* The map's only stack of a kind has its count. *)
LEMMA CountOfOnly ==
    ASSUME NEW m, IsMerged(m)
    PROVE  /\ \A k \in DOMAIN m : CountOfKind(m, Kind[k]) = m[k]
           /\ \A kind : (\A k \in DOMAIN m : Kind[k] # kind) => CountOfKind(m, kind) = 0
<1>1. ASSUME NEW k \in DOMAIN m PROVE CountOfKind(m, Kind[k]) = m[k]
  <2> DEFINE equal == {l \in DOMAIN m : Kind[l] = Kind[k]}
  <2>1. equal = {k}
    BY DEF IsMerged
  <2>2. CountOfKind(m, Kind[k]) = IF equal = {} THEN 0 ELSE m[CHOOSE l \in equal : TRUE]
    BY DEF CountOfKind
  <2> HIDE DEF equal
  <2>3. (CHOOSE l \in {k} : TRUE) = k
    OBVIOUS
  <2> QED
    BY <2>1, <2>2, <2>3
<1>2. ASSUME NEW kind, \A k \in DOMAIN m : Kind[k] # kind PROVE CountOfKind(m, kind) = 0
  BY <1>2 DEF CountOfKind
<1> QED
  BY <1>1, <1>2

(* new is data with n added to what it has at key, or has it there. *)
HasAdded(new, data, key, n) ==
    /\ DOMAIN new = DOMAIN data \union {key}
    /\ new[key] = (IF key \in DOMAIN data THEN data[key] ELSE 0) + n
    /\ \A x \in DOMAIN data \ {key} : new[x] = data[x]

(* That is what Added makes of a map. *)
LEMMA AddedHas ==
    ASSUME NEW data, NEW key, NEW n \in Nat
    PROVE  HasAdded(Added(data, key, n), data, key, n)
<1> DEFINE new == Added(data, key, n)
<1>1. CASE key \in DOMAIN data
  <2>1. new = [data EXCEPT ![key] = data[key] + n]
    BY <1>1 DEF Added
  <2> QED
    BY <1>1, <2>1 DEF HasAdded
<1>2. CASE key \notin DOMAIN data
  <2>1. new = [x \in DOMAIN data \union {key} |-> IF x = key THEN n ELSE data[x]]
    BY <1>2 DEF Added, Insert
  <2> HIDE DEF new
  <2>2. 0 + n = n
    OBVIOUS
  <2> QED
    BY <1>2, <2>1, <2>2 DEF new, HasAdded
<1> QED
  BY <1>1, <1>2

(* A turn adds an entry to what its kind has. *)
LEMMA KindAdded ==
    ASSUME NEW m, IsMerged(m), NEW e \in Entries
    PROVE  /\ IsMerged(UnresolvedMerge(m, e))
           /\ \A kind : CountOfKind(UnresolvedMerge(m, e), kind)
                           = CountOfKind(m, kind) + Worth(e, Kind, kind)
<1> DEFINE key == UnresolvedKey(m, e)
           new == UnresolvedMerge(m, e)
           equal == {k \in DOMAIN m : UnresolvedEq(k, e.item)}
<1>0. /\ e.item \in Keys /\ e.count \in Nat /\ DOMAIN m \subseteq Keys
      /\ \A k \in DOMAIN m : m[k] \in Nat
  BY DEF IsMerged, Entries
<1>1. /\ key \in Keys /\ Kind[key] = Kind[e.item]
      /\ \A k \in DOMAIN m : Kind[k] = Kind[e.item] => k = key
  <2>1. CASE equal = {}
    <3>1. key = e.item
      BY <2>1 DEF UnresolvedKey
    <3>2. \A k \in DOMAIN m : Kind[k] # Kind[e.item]
      BY <1>0, <2>1, EqIsKind
    <3> QED
      BY <1>0, <3>1, <3>2
  <2>2. CASE equal # {}
    <3>1. key \in equal
      BY <2>2 DEF UnresolvedKey
    <3> HIDE DEF key
    <3>2. key \in DOMAIN m /\ Kind[key] = Kind[e.item]
      BY <1>0, <3>1, EqIsKind
    <3> QED
      BY <1>0, <3>2 DEF IsMerged
  <2> QED
    BY <2>1, <2>2
<1> HIDE DEF key, equal
<1>2. ASSUME NEW kind PROVE CountOfKind(m, kind) \in Nat
  BY <1>0, CountOfOnly
<1>3. CASE e.count = 0
  <2>1. new = m
    BY <1>3 DEF UnresolvedMerge
  <2>2. \A kind : Worth(e, Kind, kind) = 0
    BY <1>3 DEF Worth
  <2> QED
    BY <1>2, <2>1, <2>2
<1>4. CASE e.count # 0
  <2>1. new = Added(m, key, e.count)
    BY <1>0, <1>4 DEF UnresolvedMerge, key
  <2>2. /\ DOMAIN new = DOMAIN m \union {key}
        /\ new[key] = (IF key \in DOMAIN m THEN m[key] ELSE 0) + e.count
        /\ \A k \in DOMAIN m \ {key} : new[k] = m[k]
    <3>1. HasAdded(new, m, key, e.count)
      BY <1>0, <2>1, AddedHas
    <3> HIDE DEF new
    <3> QED
      BY <3>1 DEF HasAdded
  <2> HIDE DEF new
  <2>3. new[key] \in Nat
    BY <1>0, <2>2
  <2>4. IsMerged(new)
    <3>1. DOMAIN new \subseteq Keys
      BY <1>0, <1>1, <2>2
    <3>2. \A k \in DOMAIN new : new[k] \in Nat
      BY <1>0, <2>2, <2>3
    <3>3. \A k, l \in DOMAIN new : Kind[k] = Kind[l] => k = l
      BY <1>1, <2>2 DEF IsMerged
    <3> QED
      BY <3>1, <3>2, <3>3 DEF IsMerged
  <2>5. ASSUME NEW kind
        PROVE  CountOfKind(new, kind) = CountOfKind(m, kind) + Worth(e, Kind, kind)
    <3>1. CASE kind = Kind[e.item]
      <4>1. CountOfKind(new, kind) = new[key]
        BY <1>1, <2>2, <2>4, <3>1, CountOfOnly
      <4>2. CountOfKind(m, kind) = IF key \in DOMAIN m THEN m[key] ELSE 0
        BY <1>1, <3>1, CountOfOnly
      <4>3. Worth(e, Kind, kind) = e.count
        BY <3>1 DEF Worth
      <4> QED
        BY <2>2, <4>1, <4>2, <4>3
    <3>2. CASE kind # Kind[e.item] /\ \E k \in DOMAIN m : Kind[k] = kind
      <4>1. PICK k \in DOMAIN m : Kind[k] = kind
        BY <3>2
      <4>2. k # key /\ k \in DOMAIN new /\ new[k] = m[k]
        BY <1>1, <2>2, <3>2, <4>1
      <4>3. CountOfKind(new, kind) = new[k] /\ CountOfKind(m, kind) = m[k]
        BY <2>4, <4>1, <4>2, CountOfOnly
      <4>4. Worth(e, Kind, kind) = 0
        BY <3>2 DEF Worth
      <4> QED
        BY <1>0, <4>1, <4>2, <4>3, <4>4
    <3>3. CASE kind # Kind[e.item] /\ \A k \in DOMAIN m : Kind[k] # kind
      <4>1. \A k \in DOMAIN new : Kind[k] # kind
        BY <1>1, <2>2, <3>3
      <4>2. CountOfKind(new, kind) = 0 /\ CountOfKind(m, kind) = 0
        BY <2>4, <3>3, <4>1, CountOfOnly
      <4>3. Worth(e, Kind, kind) = 0
        BY <3>3 DEF Worth
      <4> QED
        BY <4>2, <4>3
    <3> QED
      BY <3>1, <3>2, <3>3
  <2> QED
    BY <2>4, <2>5 DEF new
<1> QED
  BY <1>3, <1>4

(* The report counts of every kind what the entries count. *)
LEMMA MergedCounts ==
    ASSUME NEW s \in Seq(Entries)
    PROVE  /\ IsMerged(Merged(s))
           /\ \A kind : CountOfKind(Merged(s), kind) = CountOf(s, Kind, kind)
<1>1. PICK r : /\ \A i \in 0..Len(s) :
                     r[i] = IF i = 0 THEN <<>> ELSE UnresolvedMerge(r[i - 1], s[i])
               /\ Merged(s) = r[Len(s)]
  BY MergedTurns
<1> DEFINE Good(i) == /\ IsMerged(r[i])
                      /\ \A kind : CountOfKind(r[i], kind) = CountOf(SubSeq(s, 1, i), Kind, kind)
           Q == {i \in Nat : i <= Len(s) => Good(i)}
<1>2. 0 \in Q
  <2>1. r[0] = <<>>
    <3>1. 0 \in 0..Len(s)
      OBVIOUS
    <3> QED
      BY <1>1, <3>1, Zenon
  <2>2. IsMerged(<<>>) /\ \A kind : CountOfKind(<<>>, kind) = 0
    <3>1. DOMAIN <<>> = {}
      OBVIOUS
    <3>2. IsMerged(<<>>)
      BY <3>1, Zenon DEF IsMerged
    <3> QED
      BY <3>1, <3>2, CountOfOnly, Zenon
  <2>3. \A kind : CountOf(SubSeq(s, 1, 0), Kind, kind) = 0
    <3>1. SubSeq(s, 1, 0) = <<>>
      BY SubSeqEmpty
    <3> QED
      BY <3>1, CountEmpty
  <2> QED
    BY <2>1, <2>2, <2>3
<1>3. ASSUME NEW i \in Nat, i \in Q PROVE i + 1 \in Q
  <2> SUFFICES ASSUME i + 1 <= Len(s) PROVE Good(i + 1)
    OBVIOUS
  <2> DEFINE e == s[i + 1]
             t == SubSeq(s, 1, i)
  <2>1. e \in Entries /\ t \in Seq(Entries) /\ SubSeq(s, 1, i + 1) = Append(t, e)
    BY SubSeqStep
  <2>2. r[i + 1] = UnresolvedMerge(r[i], e)
    <3>1. i + 1 \in 0..Len(s) /\ i + 1 # 0 /\ (i + 1) - 1 = i
      OBVIOUS
    <3> QED
      BY <1>1, <3>1
  <2>3. IsMerged(r[i]) /\ \A kind : CountOfKind(r[i], kind) = CountOf(t, Kind, kind)
    BY <1>3
  <2> HIDE DEF e, t
  <2>4. /\ IsMerged(r[i + 1])
        /\ \A kind : CountOfKind(r[i + 1], kind) = CountOfKind(r[i], kind) + Worth(e, Kind, kind)
    BY <2>1, <2>2, <2>3, KindAdded
  <2>5. \A kind : CountOf(Append(t, e), Kind, kind) = CountOf(t, Kind, kind) + Worth(e, Kind, kind)
    BY <2>1, CountAppend
  <2> QED
    BY <2>1, <2>3, <2>4, <2>5
<1> HIDE DEF Q
<1>4. Nat \subseteq Q
  BY <1>2, <1>3, NatSetInduction
<1>5. Good(Len(s))
  <2>1. Len(s) \in Q
    BY <1>4
  <2> QED
    BY <2>1 DEF Q
<1>6. SubSeq(s, 1, Len(s)) = s
  BY SubSeqFull
<1> QED
  BY <1>1, <1>5, <1>6

(* The counts of a report. *)
LEMMA CountsAreHeld == TypeOK /\ FileInv => Counts = Held
<1> SUFFICES ASSUME TypeOK, FileInv PROVE Counts = Held
  OBVIOUS
<1> DEFINE counts == [kind \in Range(Kind) |-> CountOfKind(Reported, kind)]
<1>1. Counts = counts
  <2>1. Counts = CHOOSE c \in {[kind \in Range(Kind) |-> CountOfKind(report, kind)] :
                                  report \in {Reported}} : TRUE
    BY Zenon DEF Counts
  <2>2. {[kind \in Range(Kind) |-> CountOfKind(report, kind)] : report \in {Reported}} = {counts}
    OBVIOUS
  <2> HIDE DEF counts
  <2> QED
    BY <2>1, <2>2
<1>2. ASSUME NEW kind
      PROVE  CountOfKind(Reported, kind) = IF Readable THEN HeldCount(Kind, kind) ELSE 0
  <2>1. CASE Readable
    <3>1. Iter \in Seq(Entries) /\ CountOf(Iter, Kind, kind) = HeldCount(Kind, kind)
      BY <2>1, IterCounts
    <3>2. CountOfKind(Merged(Iter), kind) = CountOf(Iter, Kind, kind)
      BY <3>1, MergedCounts
    <3> QED
      BY <2>1, <3>1, <3>2 DEF Reported, UnresolvedReport
  <2>2. CASE ~Readable
    <3>1. DOMAIN <<>> = {}
      OBVIOUS
    <3>2. CountOfKind(<<>>, kind) = 0
      BY <3>1, Zenon DEF CountOfKind
    <3> QED
      BY <2>2, <3>2 DEF Reported
  <2> QED
    BY <2>1, <2>2
<1> QED
  BY <1>1, <1>2 DEF Held

-----------------------------------------------------------------------------
(* The refinement *)

BagInv == TypeOK /\ KeysUnique /\ FileInv

(* A new collector holds nothing. *)
LEMMA NothingHeld ==
    ASSUME Init, TypeOK
    PROVE  Readable /\ \A L, q : HeldCount(L, q) = 0
<1>1. Readable
  BY SizeAssumption DEF Init, Readable
<1>2. ASSUME NEW L, NEW q PROVE HeldCount(L, q) = 0
  <2>1. map \in Tables /\ \A h \in 0..(Buckets - 1) : map[h] = <<>>
    BY DEF Init, TypeOK, Tables
  <2>2. TableCount(map, L, q) = 0
    BY <2>1, EmptyTable
  <2>3. CountOf(buffer, L, q) = 0 /\ CountOf(file, L, q) = 0
    BY CountEmpty DEF Init
  <2> QED
    BY <2>2, <2>3 DEF HeldCount
<1> QED
  BY <1>1, <1>2

(* A collector's counts are numbers of samples. *)
LEMMA HeldNat ==
    ASSUME TypeOK
    PROVE  \A L, q : HeldCount(L, q) \in Nat
<1>1. WalkOf(map)[Buckets] \in Seq(Entries)
  <2>1. map \in Tables /\ Buckets \in 0..Buckets
    BY SizeAssumption DEF TypeOK, Tables
  <2> QED
    BY <2>1, WalkType
<1>2. buffer \in Seq(Entries) /\ file \in Seq(Entries)
  BY DEF TypeOK
<1>3. ASSUME NEW L, NEW q
      PROVE  /\ TableCount(map, L, q) \in Nat
             /\ CountOf(buffer, L, q) \in Nat /\ CountOf(file, L, q) \in Nat
  BY <1>1, <1>2, CountNat DEF TableCount
<1> QED
  BY <1>3 DEF HeldCount

(* A new collector is an empty bag. *)
LEMMA BagInit == Init /\ BagInv => Bag!Init
<1> SUFFICES ASSUME Init, BagInv PROVE Bag!Init
  OBVIOUS
<1>1. Counts = Held
  BY CountsAreHeld DEF BagInv
<1>2. Readable /\ \A L, q : HeldCount(L, q) = 0
  BY NothingHeld DEF BagInv
<1>3. Counts = [kind \in Range(Kind) |-> 0]
  BY <1>1, <1>2 DEF Held
<1> QED
  BY <1>2, <1>3 DEF Bag!Init

(* A sample that can be read afterwards was added to the bag; one that     *)
(* made the collector unreadable lost it, and from then on it stutters.    *)
LEMMA BagStep == BagInv /\ BagInv' /\ [Next]_vars => [Bag!Next]_<<~Readable, Counts>>
<1> SUFFICES ASSUME BagInv, BagInv', [Next]_vars
             PROVE  [Bag!Next]_<<~Readable, Counts>>
  OBVIOUS
<1>0. TypeOK /\ TypeOK' /\ FileInv /\ FileInv' /\ KeysUnique
  BY DEF BagInv
<1>1. Counts = Held /\ Counts' = Held'
  <2>1. (TypeOK /\ FileInv => Counts = Held)'
    BY CountsAreHeld, PTL
  <2> QED
    BY <1>0, <2>1, CountsAreHeld
<1>2. CASE UNCHANGED vars
  <2>1. Readable' = Readable
    BY <1>2 DEF vars, Readable
  <2>2. Held' = Held
    BY <1>2, <2>1 DEF vars, Held, HeldCount
  <2> QED
    BY <1>1, <2>1, <2>2
<1>3. ASSUME NEW k \in Keys, NEW written \in Writes, Add(k, written)
      PROVE  [Bag!Next]_<<~Readable, Counts>>
  <2>1. CASE ~Readable
    <3>1. ~Readable'
      BY <1>0, <1>3, <2>1, LostStays
    <3>2. Held = [q \in Range(Kind) |-> 0] /\ Held' = [q \in Range(Kind) |-> 0]
      BY <2>1, <3>1 DEF Held
    <3>3. (~Readable)' = ~Readable
      BY <2>1, <3>1
    <3> QED
      BY <1>1, <3>2, <3>3
  <2>2. CASE Readable /\ ~Readable'
    <3>1. Counts' = [q \in Range(Kind) |-> 0]
      BY <1>1, <2>2 DEF Held
    <3>2. (~Readable)' = TRUE
      BY <2>2
    <3> QED
      BY <3>1, <3>2 DEF Bag!Next, Bag!Lose
  <2>3. CASE Readable /\ Readable'
    <3> DEFINE s == Sample(map[Hash[k]], k, Clock[now])
               kind == Kind[s.shown]
               K == Range(Kind)
    <3>0. kind \in K
      <4>1. s.shown \in Keys
        <5>1. map[Hash[k]] \in Seq(Entries) /\ Clock[now] \in Nat
          BY <1>0, HashAssumption, ClockAssumption DEF TypeOK
        <5> QED
          BY <5>1, SampleType DEF Samples
      <4> HIDE DEF s
      <4> QED
        BY <4>1 DEF Kind, Range
    <3>1. \A q : HeldCount(Kind, q)' = HeldCount(Kind, q) + (IF q = kind THEN 1 ELSE 0)
      BY <1>0, <1>3, <2>3, AddCounts
    <3>2. /\ Counts = [q \in K |-> HeldCount(Kind, q)]
          /\ Counts' = [q \in K |-> HeldCount(Kind, q)']
      BY <1>1, <2>3 DEF Held
    <3>3. \A q : HeldCount(Kind, q) \in Nat
      BY <1>0, HeldNat
    <3> HIDE DEF kind, K
    <3>4. Counts' = [Counts EXCEPT ![kind] = @ + 1]
      BY <3>0, <3>1, <3>2, <3>3
    <3>5. (~Readable)' = ~Readable /\ ~(~Readable)
      BY <2>3
    <3>6. Bag!Add(kind)
      BY <3>4, <3>5 DEF Bag!Add
    <3> QED
      BY <3>0, <3>6 DEF Bag!Next, K
  <2> QED
    BY <2>1, <2>2, <2>3
<1> QED
  BY <1>2, <1>3 DEF Next, Done

(* Through any history of evictions, flushes and failed writes the reports *)
(* of a collector (Collector, TempFdArray and build_unresolved) count      *)
(* every sample once, among those of its functions and thread, or fail     *)
(* from then on: see ImplementsBag.                                        *)
THEOREM ReportIsBag == Spec => ImplementsBag
<1>1. Spec => []BagInv
  BY TypeCorrect, NoStackTwice, DeficitStays, PTL DEF BagInv
<1> QED
  BY <1>1, BagInit, BagStep, PTL DEF Spec, ImplementsBag, Bag!Spec

-----------------------------------------------------------------------------
(* Frames::from: the interrupted code is what is left *)

(* The loop of Frames::from, unfolded. *)
LEMMA ResolveTurns ==
    ASSUME NEW S, NEW u \in Seq(S)
    PROVE  \E r : /\ \A i \in 0..Len(u) :
                        r[i] = IF i = 0 THEN [frames |-> <<>>, dropNext |-> FALSE]
                               ELSE ResolveFrame(r[i - 1], u[i])
                  /\ ResolveFrames(u) = r[Len(u)].frames
<1> DEFINE start == [frames |-> <<>>, dropNext |-> FALSE]
           Turns(r, n) ==
               r = [i \in 0..n |-> IF i = 0 THEN start ELSE ResolveFrame(r[i - 1], u[i])]
           Q == {n \in Nat : \E r : Turns(r, n)}
           r == CHOOSE f : Turns(f, Len(u))
<1>1. ResolveFrames(u) = r[Len(u)].frames
  BY DEF ResolveFrames
<1> HIDE DEF start
<1>2. 0 \in Q
  <2> DEFINE f == [i \in 0..0 |-> start]
  <2>1. Turns(f, 0)
    OBVIOUS
  <2> QED
    BY <2>1
<1>3. ASSUME NEW n \in Nat, n \in Q PROVE n + 1 \in Q
  <2>1. PICK f : Turns(f, n)
    BY <1>3
  <2>0. \A i \in 0..(n + 1) : i # 0 => i - 1 \in 0..n
    OBVIOUS
  <2> DEFINE g == [i \in 0..(n + 1) |->
                      IF i = 0 THEN start ELSE ResolveFrame(f[i - 1], u[i])]
  <2>2. \A i \in 0..n : f[i] = IF i = 0 THEN start ELSE ResolveFrame(f[i - 1], u[i])
    BY <2>1
  <2>3. \A i \in 0..n : g[i] = f[i]
    BY <2>2
  <2>4. \A i \in 0..(n + 1) : i # 0 => g[i - 1] = f[i - 1]
    BY <2>0, <2>3
  <2>5. g = [i \in 0..(n + 1) |-> IF i = 0 THEN start ELSE ResolveFrame(g[i - 1], u[i])]
    BY <2>4
  <2> HIDE DEF g
  <2>6. Turns(g, n + 1)
    BY <2>5
  <2>7. n + 1 \in Nat
    OBVIOUS
  <2> HIDE DEF Turns
  <2> QED
    BY <2>6, <2>7
<1> HIDE DEF Q
<1>4. Nat \subseteq Q
  BY <1>2, <1>3, NatSetInduction
<1>5. Turns(r, Len(u))
  <2>1. Len(u) \in Q
    BY <1>4
  <2> QED
    BY <2>1 DEF Q
<1> HIDE DEF r
<1>6. \A i \in 0..Len(u) :
         r[i] = IF i = 0 THEN start ELSE ResolveFrame(r[i - 1], u[i])
  BY <1>5
<1> QED
  BY <1>1, <1>6 DEF start

(* The frames that Interrupted looks at. *)
Shown(u) ==
    [i \in DOMAIN u |->
        IF \A j \in {i, i - 1} \intersect DOMAIN u : ~IsHandler(u[j]) THEN u[i] ELSE <<>>]

(* They are a stack. *)
LEMMA ShownType ==
    ASSUME NEW S, NEW u \in Seq(Seq(S))
    PROVE  /\ Shown(u) \in Seq(Seq(S)) /\ Len(Shown(u)) = Len(u)
           /\ DOMAIN Shown(u) = 1..Len(u) /\ DOMAIN u = 1..Len(u)
<1>1. DOMAIN u = 1..Len(u) /\ Len(u) \in Nat /\ \A i \in 1..Len(u) : u[i] \in Seq(S)
  BY ElementOfSeq
<1>2. <<>> \in Seq(S)
  BY EmptySeq
<1> DEFINE n == Len(u)
           v == Shown(u)
<1>3. DOMAIN v = 1..n /\ v \in [1..n -> Seq(S)]
  BY <1>1, <1>2 DEF Shown
<1>4. n \in Nat
  BY <1>1
<1> HIDE DEF n, v
<1>5. v \in Seq(Seq(S)) /\ Len(v) = n
  BY <1>3, <1>4
<1> QED
  BY <1>1, <1>3, <1>5 DEF n, v

(* Frames::from keeps the symbols of the interrupted code. *)
LEMMA ResolvedSymbols ==
    ASSUME NEW k \in Keys
    PROVE  /\ ResolveFrames(Unwound[k]) \in Seq(Seq(AllSymbols))
           /\ FlattenSeq(ResolveFrames(Unwound[k])) = FlattenSeq(Shown(Unwound[k]))
<1> DEFINE u == Unwound[k]
           S == AllSymbols
           n == Len(u)
           T == [frames : Seq(Seq(S)), dropNext : BOOLEAN]
           F(i) == FlattenSeq(SubSeq(Shown(u), 1, i))
<1>1. u \in Seq(Seq(S)) /\ n \in Nat /\ DOMAIN u = 1..n
      /\ \A i \in 1..n : u[i] \in Seq(S)
  <2>1. u \in Seq(Seq(S))
    BY KeysAssumption, UnwoundAssumption
  <2> QED
    BY <2>1, ElementOfSeq
<1>2. \A i \in 1..n : i + 1 \in 1..n => ~(IsHandler(u[i]) /\ IsHandler(u[i + 1]))
  BY <1>1, TrampolineAssumption
<1> HIDE DEF u, S
<1>3. PICK r : /\ \A i \in 0..n :
                     r[i] = IF i = 0 THEN [frames |-> <<>>, dropNext |-> FALSE]
                            ELSE ResolveFrame(r[i - 1], u[i])
               /\ ResolveFrames(u) = r[n].frames
  BY <1>1, ResolveTurns
<1>4. /\ Shown(u) \in Seq(Seq(S)) /\ Len(Shown(u)) = n /\ DOMAIN Shown(u) = 1..n
  BY <1>1, ShownType
<1>5. /\ F(0) = <<>>
      /\ \A i \in 0..(n - 1) : F(i + 1) = F(i) \o Shown(u)[i + 1]
      /\ \A i \in 0..n : F(i) \in Seq(S)
      /\ F(n) = FlattenSeq(Shown(u))
  BY <1>4, FlattenSteps
<1> DEFINE Good(i) == /\ r[i] \in T
                      /\ r[i].dropNext = (i # 0 /\ IsHandler(u[i]))
                      /\ FlattenSeq(r[i].frames) = F(i)
           Q == {i \in Nat : i <= n => Good(i)}
<1> HIDE DEF F
<1>6. 0 \in Q
  <2>1. r[0] = [frames |-> <<>>, dropNext |-> FALSE]
    BY <1>1, <1>3
  <2>2. <<>> \in Seq(Seq(S)) /\ FlattenSeq(<<>>) = <<>>
    BY EmptySeq, FlattenIs
  <2>3. r[0] \in T
    BY <2>1, <2>2
  <2>4. r[0].dropNext = FALSE /\ r[0].frames = <<>>
    BY <2>1
  <2> QED
    BY <1>5, <2>2, <2>3, <2>4
<1>7. ASSUME NEW i \in Nat, i \in Q PROVE i + 1 \in Q
  <2> SUFFICES ASSUME i + 1 <= n PROVE Good(i + 1)
    OBVIOUS
  <2> DEFINE x == u[i + 1]
             y == Shown(u)[i + 1]
             a == r[i]
             b == r[i + 1]
             h == i # 0 /\ IsHandler(u[i])
  <2>1. a \in T /\ a.dropNext = h /\ FlattenSeq(a.frames) = F(i)
    BY <1>7
  <2>2. b = ResolveFrame(a, x)
    <3>1. i + 1 \in 0..n /\ i + 1 # 0 /\ (i + 1) - 1 = i
      BY <1>1
    <3> QED
      BY <1>3, <3>1
  <2>3. x \in Seq(S) /\ F(i) \in Seq(S) /\ F(i + 1) = F(i) \o y
    <3>1. i + 1 \in 1..n /\ i \in 0..n /\ i \in 0..(n - 1)
      BY <1>1
    <3> QED
      BY <1>1, <1>5, <3>1
  <2>4. y = IF IsHandler(x) \/ h THEN <<>> ELSE x
    <3>1. i + 1 \in 1..n /\ (i + 1) - 1 = i /\ (i \in 1..n <=> i # 0)
      BY <1>1
    <3>2. y = IF \A j \in {i + 1, i} \intersect 1..n : ~IsHandler(u[j]) THEN x ELSE <<>>
      BY <1>1, <3>1 DEF Shown
    <3> QED
      BY <3>1, <3>2
  <2>5. h => ~IsHandler(x)
    BY <1>1, <1>2
  <2>6. i + 1 # 0
    OBVIOUS
  <2> HIDE DEF x, y, a, b, h
  <2>7. F(i) \o <<>> = F(i)
    BY <2>3
  <2>8. a.frames \in Seq(Seq(S)) /\ a.dropNext \in BOOLEAN
    BY <2>1
  <2>10. h \in BOOLEAN /\ IsHandler(x) \in BOOLEAN
    BY DEF h, IsHandler
  <2>9. b \in T /\ b.dropNext = IsHandler(x) /\ FlattenSeq(b.frames) = F(i + 1)
    <3>1. CASE h
      <4>1. b = [a EXCEPT !.dropNext = FALSE]
        BY <2>1, <2>2, <3>1 DEF ResolveFrame
      <4>2. b \in T /\ b.frames = a.frames /\ b.dropNext = FALSE
        BY <2>1, <4>1
      <4> QED
        BY <2>1, <2>3, <2>4, <2>5, <2>7, <2>10, <3>1, <4>2
    <3>2. CASE ~h /\ IsHandler(x)
      <4>1. b = [a EXCEPT !.dropNext = TRUE]
        BY <2>1, <2>2, <3>2 DEF ResolveFrame
      <4>2. b \in T /\ b.frames = a.frames /\ b.dropNext = TRUE
        BY <2>1, <4>1
      <4> QED
        BY <2>1, <2>3, <2>4, <2>7, <3>2, <4>2
    <3>3. CASE ~h /\ ~IsHandler(x) /\ x = <<>>
      <4>1. b = a
        BY <2>1, <2>2, <3>3 DEF ResolveFrame
      <4> QED
        BY <2>1, <2>3, <2>4, <2>7, <2>10, <3>3, <4>1
    <3>4. CASE ~h /\ ~IsHandler(x) /\ x # <<>>
      <4>1. b = [a EXCEPT !.frames = Append(a.frames, x)]
        BY <2>1, <2>2, <3>4 DEF ResolveFrame
      <4>2. Append(a.frames, x) \in Seq(Seq(S))
        BY <2>3, <2>8
      <4>3. b \in T /\ b.frames = Append(a.frames, x) /\ b.dropNext = a.dropNext
        BY <2>1, <4>1, <4>2
      <4>4. FlattenSeq(Append(a.frames, x)) = FlattenSeq(a.frames) \o x
        BY <2>3, <2>8, FlattenAppend
      <4> QED
        BY <2>1, <2>3, <2>4, <2>10, <3>4, <4>3, <4>4
    <3> QED
      BY <3>1, <3>2, <3>3, <3>4
  <2> QED
    BY <2>6, <2>9 DEF x, b
<1> HIDE DEF Q
<1>8. Nat \subseteq Q
  BY <1>6, <1>7, NatSetInduction
<1>9. Good(n)
  <2>1. n \in Q
    BY <1>1, <1>8
  <2> QED
    BY <1>1, <2>1 DEF Q
<1>10. r[n].frames \in Seq(Seq(S))
  BY <1>9
<1> QED
  BY <1>3, <1>5, <1>9, <1>10 DEF u, S

(* The Frames of an entry are written as the code it interrupted. *)
LEMMA StackOfEntry ==
    ASSUME NEW e, e.item \in Keys
    PROVE  /\ Stack(ResolvedKey(e)) = Interrupted(e.item)
           /\ ResolvedKey(e).frames \in Seq(Seq(AllSymbols))
<1> DEFINE k == e.item
           key == ResolvedKey(e)
           symbols == FlattenSeq(Shown(Unwound[k]))
<1>1. /\ key.frames = ResolveFrames(Unwound[k])
      /\ key.thread_name = ThreadName[k] /\ key.thread_id = ThreadId[k]
  <2>1. k \in DOMAIN Unwound
    BY KeysAssumption
  <2> QED
    BY <2>1 DEF ResolvedKey, FramesFrom
<1>2. key.frames \in Seq(Seq(AllSymbols)) /\ Symbols(key) = symbols
  BY <1>1, ResolvedSymbols DEF Symbols
<1>3. ThreadNameOrId(key) = IF ThreadName[k] = "" THEN ThreadId[k] ELSE ThreadName[k]
  BY <1>1 DEF ThreadNameOrId
<1>4. Interrupted(k) = <<IF ThreadName[k] = "" THEN ThreadId[k] ELSE ThreadName[k]>>
                          \o Reverse([i \in DOMAIN symbols |-> Name(symbols[i])])
  <2> DEFINE outer == {i \in DOMAIN Unwound[k] :
                          \A j \in {i, i - 1} \intersect DOMAIN Unwound[k] :
                              ~IsHandler(Unwound[k][j])}
             frames == [i \in DOMAIN Unwound[k] |->
                           IF i \in outer THEN Unwound[k][i] ELSE <<>>]
  <2>1. frames = Shown(Unwound[k])
    BY DEF Shown
  <2> QED
    BY <2>1, Zenon DEF Interrupted
<1>5. Names(key) = [i \in DOMAIN symbols |-> Name(symbols[i])]
  BY <1>2 DEF Names
<1> HIDE DEF symbols, key
<1>6. Stack(key) = Interrupted(k)
  BY <1>3, <1>4, <1>5 DEF Stack
<1> QED
  BY <1>2, <1>6 DEF key

-----------------------------------------------------------------------------
(* build and build_unresolved count the same samples *)

(* The loop of build, unfolded. *)
LEMMA ResolvedTurns ==
    ASSUME NEW S, NEW s \in Seq(S)
    PROVE  \E r : /\ \A i \in 0..Len(s) :
                        r[i] = IF i = 0 THEN <<>>
                               ELSE ResolvedMerge(r[i - 1], s[i])
                  /\ Resolved(s) = r[Len(s)]
<1> DEFINE start == <<>>
           Turns(r, n) ==
               r = [i \in 0..n |-> IF i = 0 THEN start ELSE ResolvedMerge(r[i - 1], s[i])]
           Q == {n \in Nat : \E r : Turns(r, n)}
           r == CHOOSE f : Turns(f, Len(s))
<1>1. Resolved(s) = r[Len(s)]
  BY DEF Resolved
<1> HIDE DEF start
<1>2. 0 \in Q
  <2> DEFINE f == [i \in 0..0 |-> start]
  <2>1. Turns(f, 0)
    OBVIOUS
  <2> QED
    BY <2>1
<1>3. ASSUME NEW n \in Nat, n \in Q PROVE n + 1 \in Q
  <2>1. PICK f : Turns(f, n)
    BY <1>3
  <2> DEFINE g == [i \in 0..(n + 1) |->
                      IF i = 0 THEN start ELSE ResolvedMerge(f[i - 1], s[i])]
  <2>2. \A i \in 0..n : f[i] = IF i = 0 THEN start ELSE ResolvedMerge(f[i - 1], s[i])
    BY <2>1
  <2>3. \A i \in 0..n : g[i] = f[i]
    BY <2>2
  <2>4. \A i \in 0..(n + 1) : i # 0 => i - 1 \in 0..n
    OBVIOUS
  <2>5. \A i \in 0..(n + 1) : i # 0 => g[i - 1] = f[i - 1]
    BY <2>3, <2>4
  <2>6. g = [i \in 0..(n + 1) |-> IF i = 0 THEN start ELSE ResolvedMerge(g[i - 1], s[i])]
    BY <2>5
  <2> HIDE DEF g
  <2>7. Turns(g, n + 1) /\ n + 1 \in Nat
    BY <2>6
  <2> HIDE DEF Turns
  <2> QED
    BY <2>7
<1> HIDE DEF Q
<1>4. Nat \subseteq Q
  BY <1>2, <1>3, NatSetInduction
<1>5. Turns(r, Len(s))
  <2>1. Len(s) \in Q
    BY <1>4
  <2> QED
    BY <2>1 DEF Q
<1> HIDE DEF r
<1>6. \A i \in 0..Len(s) :
         r[i] = IF i = 0 THEN start ELSE ResolvedMerge(r[i - 1], s[i])
  BY <1>5
<1> QED
  BY <1>1, <1>6 DEF start

(* Frames with frames that were resolved. *)
HasFrames(key) == key.frames \in Seq(Seq(AllSymbols))

(* The key a HashMap finds for equal Frames is written as the same stack. *)
LEMMA KeyInStack ==
    ASSUME NEW data, NEW key, HasFrames(key), \A f \in DOMAIN data : HasFrames(f)
    PROVE  /\ KeyIn(data, key) \in DOMAIN data \union {key}
           /\ Stack(KeyIn(data, key)) = Stack(key)
<1> DEFINE equal == {f \in DOMAIN data : FramesEq(f, key)}
           c == CHOOSE f \in equal : TRUE
<1>1. CASE equal = {}
  <2>1. KeyIn(data, key) = key
    BY <1>1 DEF KeyIn
  <2> QED
    BY <2>1
<1>2. CASE equal # {}
  <2>1. KeyIn(data, key) = c
    BY <1>2 DEF KeyIn
  <2>2. c \in equal
    BY <1>2
  <2> HIDE DEF c
  <2>3. /\ c \in DOMAIN data /\ FramesEq(c, key)
        /\ c.frames \in Seq(Seq(AllSymbols)) /\ key.frames \in Seq(Seq(AllSymbols))
    BY <2>2 DEF HasFrames
  <2>4. Stack(c) = Stack(key)
    BY <2>3, EqualFramesEqualStack
  <2> QED
    BY <2>1, <2>3, <2>4
<1> QED
  BY <1>1, <1>2

(* What a stack shows, when it is written. *)
Shows == [k \in Keys |-> Interrupted(k)]

(* Nothing in groups is nothing. *)
LEMMA GroupEmpty == \A by : Grouped(<<>>, by) = <<>>
<1> TAKE by
<1>1. DOMAIN <<>> = {} /\ {by[x] : x \in DOMAIN <<>>} = {}
  OBVIOUS
<1>2. Grouped(<<>>, by)
         = [v \in {by[x] : x \in DOMAIN <<>>} |->
               SumFunctionOnSet(<<>>, {x \in DOMAIN <<>> : by[x] = v})]
  BY DEF Grouped
<1> DEFINE g == Grouped(<<>>, by)
<1>3. DOMAIN g = {} /\ g = [x \in {} |-> g[x]]
  BY <1>1, <1>2
<1> HIDE DEF g
<1>4. g = <<>>
  BY <1>3
<1> QED
  BY <1>4 DEF g

(* build counts the entries by what their stacks show, under their Frames. *)
LEMMA BuilderLabels ==
    ASSUME NEW s \in Seq(Entries)
    PROVE  /\ IsReport(Resolved(s)) /\ IsReport(Labelled(s, Shows))
           /\ ByStack(Resolved(s)) = Labelled(s, Shows)
           /\ DOMAIN Resolved(s) \subseteq {ResolvedKey(s[i]) : i \in 1..Len(s)}
<1> DEFINE K == {ResolvedKey(s[i]) : i \in 1..Len(s)}
           byStack == [key \in K |-> Stack(key)]
           M(i) == Labelled(SubSeq(s, 1, i), Shows)
<1>1. PICK r : /\ \A i \in 0..Len(s) :
                     r[i] = IF i = 0 THEN <<>> ELSE ResolvedMerge(r[i - 1], s[i])
               /\ Resolved(s) = r[Len(s)]
  BY ResolvedTurns
<1> DEFINE Good(i) == /\ IsReport(M(i))
                      /\ IsReport(r[i]) /\ DOMAIN r[i] \subseteq K
                      /\ M(i) = Grouped(r[i], byStack)
           Q == {i \in Nat : i <= Len(s) => Good(i)}
<1>2. \A key \in K : HasFrames(key)
  <2>1. ASSUME NEW i \in 1..Len(s) PROVE HasFrames(ResolvedKey(s[i]))
    <3>0. s[i] \in Entries
      BY ElementOfSeq
    <3>1. s[i].item \in Keys
      BY <3>0 DEF Entries
    <3> QED
      BY <3>1, StackOfEntry DEF HasFrames
  <2> QED
    BY <2>1
<1>3. 0 \in Q
  <2>1. M(0) = <<>>
    <3>1. SubSeq(s, 1, 0) = <<>>
      BY SubSeqEmpty
    <3> QED
      BY <3>1, LabelledEmpty
  <2>2. r[0] = <<>>
    <3>1. 0 \in 0..Len(s)
      OBVIOUS
    <3> QED
      BY <1>1, <3>1, Zenon
  <2>3. Grouped(<<>>, byStack) = <<>>
    BY GroupEmpty
  <2> HIDE DEF M, byStack, K
  <2> QED
    BY <2>1, <2>2, <2>3, EmptyReport
<1>4. ASSUME NEW i \in Nat, i \in Q PROVE i + 1 \in Q
  <2> SUFFICES ASSUME i + 1 <= Len(s) PROVE Good(i + 1)
    OBVIOUS
  <2> DEFINE e == s[i + 1]
             f == ResolvedKey(e)
             m == M(i)
             d == r[i]
             key == KeyIn(d, f)
             shows == Shows[e.item]
  <2>1. e \in Entries /\ SubSeq(s, 1, i) \in Seq(Entries)
        /\ SubSeq(s, 1, i + 1) = Append(SubSeq(s, 1, i), e)
    BY SubSeqStep
  <2>2. M(i + 1) = LabelMerge(m, e, Shows)
    BY <2>1, LabelledAppend
  <2>3. r[i + 1] = ResolvedMerge(d, e)
    <3>1. i + 1 \in 0..Len(s) /\ i + 1 # 0 /\ (i + 1) - 1 = i
      OBVIOUS
    <3> QED
      BY <1>1, <3>1
  <2>4. Good(i)
    BY <1>4
  <2>5. e.item \in Keys /\ e.count \in Nat
    BY <2>1 DEF Entries
  <2>6. f \in K /\ Stack(f) = shows
    <3>1. i + 1 \in 1..Len(s)
      OBVIOUS
    <3>2. f \in K
      BY <3>1
    <3>3. Stack(f) = Interrupted(e.item)
      BY <2>5, StackOfEntry
    <3> QED
      BY <2>5, <3>2, <3>3 DEF Shows
  <2>7. key \in DOMAIN d \union {f} /\ Stack(key) = Stack(f)
    <3>1. HasFrames(f) /\ \A g \in DOMAIN d : HasFrames(g)
      BY <1>2, <2>4, <2>6
    <3> HIDE DEF f, d
    <3> QED
      BY <3>1, KeyInStack, Zenon
  <2>8. key \in K /\ byStack[key] = shows
    <3>1. key \in K
      BY <2>4, <2>6, <2>7
    <3> HIDE DEF K, key, f, shows
    <3> QED
      BY <2>6, <2>7, <3>1
  <2> HIDE DEF M, K, byStack, key, shows
  <2>9. CASE e.count > 0
    <3> DEFINE n == e.count
    <3>1. n \in Nat \ {0} /\ n \in Int
      BY <2>5, <2>9
    <3>2. M(i + 1) = Added(m, shows, n) /\ r[i + 1] = Added(d, key, n)
      BY <2>2, <2>3, <2>9 DEF LabelMerge, ResolvedMerge, key, shows
    <3>3. IsReport(m) /\ IsReport(d) /\ IsData(d) /\ m = Grouped(d, byStack)
          /\ DOMAIN d \subseteq K
      BY <2>4, ReportIsData
    <3> HIDE DEF n, m, d
    <3>4. /\ IsReport(Added(m, shows, n))
          /\ IsReport(Added(d, key, n)) /\ DOMAIN Added(d, key, n) = DOMAIN d \union {key}
      BY <3>1, <3>3, AddedReport
    <3>5. Grouped(Added(d, key, n), byStack) = Added(Grouped(d, byStack), byStack[key], n)
      BY <3>1, <3>3, GroupAdded
    <3>6. Grouped(Added(d, key, n), byStack) = Added(m, shows, n)
      BY <2>8, <3>3, <3>5
    <3>7. DOMAIN Added(d, key, n) \subseteq K
      BY <2>8, <3>3, <3>4
    <3> QED
      BY <3>2, <3>4, <3>6, <3>7
  <2>10. CASE ~(e.count > 0)
    <3>1. M(i + 1) = m /\ r[i + 1] = d
      BY <2>2, <2>3, <2>10 DEF LabelMerge, ResolvedMerge
    <3> QED
      BY <2>4, <3>1
  <2> QED
    BY <2>9, <2>10
<1> HIDE DEF Q
<1>5. Nat \subseteq Q
  BY <1>3, <1>4, NatSetInduction
<1>6. Good(Len(s))
  <2>1. Len(s) \in Q
    BY <1>5
  <2> QED
    BY <2>1 DEF Q
<1>7. M(Len(s)) = Labelled(s, Shows)
  BY SubSeqFull
<1> DEFINE d == Resolved(s)
<1>8. /\ IsReport(Labelled(s, Shows)) /\ IsReport(d) /\ DOMAIN d \subseteq K
      /\ Labelled(s, Shows) = Grouped(d, byStack)
  BY <1>1, <1>6, <1>7
<1>9. Grouped(d, byStack) = ByStack(d)
  <2> DEFINE other == [k \in DOMAIN d |-> Stack(k)]
  <2>1. \A k \in DOMAIN d : byStack[k] = other[k]
    BY <1>8
  <2> HIDE DEF byStack, other, d
  <2>2. Grouped(d, byStack) = Grouped(d, other)
    BY <2>1, GroupSame
  <2> QED
    BY <2>2 DEF other, ByStack
<1> QED
  BY <1>8, <1>9

-----------------------------------------------------------------------------
(* The samples and what the formats show of them *)

(* What a map has at x. *)
CountAt(data, x) == IF x \in DOMAIN data THEN data[x] ELSE 0

(* A readable collector counts as many samples of what an entry shows as   *)
(* were credited to entries that show it.                                  *)
CreditInv ==
    /\ IsReport(samples) /\ IsReport(Expected)
    /\ Readable => \A x : HeldCount(Shows, x) = CountAt(Expected, x)

(* What every possible sample is shown as. *)
ShownAs == [s \in Samples |-> Shows[s.shown]]

(* The samples are expected as they are shown. *)
LEMMA ExpectedIs == TypeOK => Expected = Grouped(samples, ShownAs)
<1> SUFFICES ASSUME TypeOK PROVE Expected = Grouped(samples, ShownAs)
  OBVIOUS
<1> DEFINE by == [s \in DOMAIN samples |-> Interrupted(s.shown)]
<1>1. ASSUME NEW s \in DOMAIN samples PROVE by[s] = ShownAs[s]
  <2>1. s \in Samples
    BY DEF TypeOK
  <2>2. s.shown \in Keys
    BY <2>1 DEF Samples
  <2> QED
    BY <2>1, <2>2 DEF ShownAs, Shows
<1>2. Expected = Grouped(samples, by)
  BY DEF Expected
<1> HIDE DEF by
<1> QED
  BY <1>1, <1>2, GroupSame

(* A new collector has no samples. *)
LEMMA CreditInit == Init /\ TypeOK => CreditInv
<1> SUFFICES ASSUME Init, TypeOK PROVE CreditInv
  OBVIOUS
<1>1. samples = <<>>
  <2>1. DOMAIN samples = {} /\ samples = [x \in {} |-> samples[x]]
    BY DEF Init, EmptyBag, SetToBag
  <2> QED
    BY <2>1
<1>2. Expected = <<>>
  BY <1>1, ExpectedIs, GroupEmpty
<1>3. \A x : CountAt(Expected, x) = 0
  BY <1>2, EmptyReport, Zenon DEF CountAt
<1>4. IsReport(samples) /\ IsReport(Expected)
  BY <1>1, <1>2, EmptyReport
<1>5. \A x : HeldCount(Shows, x) = 0
  BY NothingHeld
<1> QED
  BY <1>3, <1>4, <1>5 DEF CreditInv

(* A sample is credited to what its entry shows, where it is counted. *)
LEMMA CreditStep ==
    ASSUME BagInv, BagInv', CreditInv, [Next]_vars
    PROVE  CreditInv'
<1>0. TypeOK /\ TypeOK' /\ FileInv /\ FileInv' /\ KeysUnique
  BY DEF BagInv
<1>1. CASE UNCHANGED vars
  <2>1. Readable' = Readable /\ Expected' = Expected /\ samples' = samples
    BY <1>1 DEF vars, Readable, Expected
  <2>2. \A x : HeldCount(Shows, x)' = HeldCount(Shows, x)
    BY <1>1 DEF vars, HeldCount
  <2> QED
    BY <2>1, <2>2 DEF CreditInv
<1>2. ASSUME NEW k \in Keys, NEW written \in Writes, Add(k, written)
      PROVE  CreditInv'
  <2> DEFINE s == Sample(map[Hash[k]], k, Clock[now])
             shows == Shows[s.shown]
  <2>1. s \in Samples
    <3>1. map[Hash[k]] \in Seq(Entries) /\ Clock[now] \in Nat
      BY <1>0, HashAssumption, ClockAssumption DEF TypeOK
    <3> QED
      BY <3>1, SampleType
  <2>2. samples' = Added(samples, s, 1)
    <3>1. samples' = BagAdd(samples, s)
      BY <1>2 DEF Add
    <3>2. IsBag(samples)
      BY <1>0 DEF TypeOK, IsBag
    <3> HIDE DEF s
    <3> QED
      BY <3>1, <3>2, BagAddType
  <2>3. ShownAs[s] = shows
    <3> HIDE DEF s
    <3> QED
      BY <2>1 DEF ShownAs
  <2> HIDE DEF shows, s
  <2>4. IsReport(samples) /\ IsReport(Expected) /\ IsData(samples)
    BY ReportIsData DEF CreditInv
  <2>5. Expected' = Grouped(samples', ShownAs)
    <3>1. (TypeOK => Expected = Grouped(samples, ShownAs))'
      BY ExpectedIs, PTL
    <3> QED
      BY <1>0, <3>1
  <2>6. Expected' = Added(Expected, shows, 1)
    <3>1. Grouped(Added(samples, s, 1), ShownAs) = Added(Grouped(samples, ShownAs), ShownAs[s], 1)
      BY <2>4, GroupAdded
    <3>2. Expected = Grouped(samples, ShownAs)
      BY <1>0, ExpectedIs
    <3> QED
      BY <2>2, <2>3, <2>5, <3>1, <3>2
  <2>7. IsReport(Added(samples, s, 1)) /\ IsReport(Added(Expected, shows, 1))
    <3> DEFINE one == 1
    <3>1. one \in Nat \ {0}
      OBVIOUS
    <3> HIDE DEF one
    <3>2. IsReport(Added(samples, s, one)) /\ IsReport(Added(Expected, shows, one))
      BY <2>4, <3>1, AddedReport
    <3> QED
      BY <3>2 DEF one
  <2>8. ASSUME Readable', NEW x
        PROVE  HeldCount(Shows, x)' = CountAt(Added(Expected, shows, 1), x)
    <3>1. Readable
      BY <1>0, <1>2, <2>8, LostStays
    <3>2. HeldCount(Shows, x)' = HeldCount(Shows, x) + (IF x = shows THEN 1 ELSE 0)
      BY <1>0, <1>2, <2>8, AddCounts DEF shows, s
    <3>3. HeldCount(Shows, x) = CountAt(Expected, x)
      BY <3>1 DEF CreditInv
    <3>4. HasAdded(Added(Expected, shows, 1), Expected, shows, 1)
      BY AddedHas
    <3>5. \A y \in DOMAIN Expected : Expected[y] \in Nat
      BY <2>4 DEF IsReport
    <3>6. CountAt(Added(Expected, shows, 1), x) = CountAt(Expected, x) + (IF x = shows THEN 1 ELSE 0)
      <4> DEFINE new == Added(Expected, shows, 1)
      <4> HIDE DEF new
      <4>1. HasAdded(new, Expected, shows, 1)
        BY <3>4 DEF new
      <4>2. CountAt(new, x) = CountAt(Expected, x) + (IF x = shows THEN 1 ELSE 0)
        BY <3>5, <4>1 DEF HasAdded, CountAt
      <4> QED
        BY <4>2 DEF new
    <3> QED
      BY <3>2, <3>3, <3>6
  <2>9. IsReport(samples') /\ IsReport(Expected')
    BY <2>2, <2>6, <2>7
  <2>10. Readable' => \A x : HeldCount(Shows, x)' = CountAt(Expected', x)
    BY <2>6, <2>8
  <2> QED
    BY <2>9, <2>10 DEF CreditInv, IsReport, CountAt
<1> QED
  BY <1>1, <1>2 DEF Next, Done

(* Every sample is credited once, whatever happens to its entry. *)
LEMMA CreditStays == Spec => [](BagInv /\ CreditInv)
<1>1. Spec => []BagInv
  BY TypeCorrect, NoStackTwice, DeficitStays, PTL DEF BagInv
<1>2. Init /\ BagInv => CreditInv
  BY CreditInit DEF BagInv
<1>3. BagInv /\ BagInv' /\ CreditInv /\ [Next]_vars => CreditInv'
  BY CreditStep
<1> QED
  BY <1>1, <1>2, <1>3, PTL DEF Spec

(* What the formats are held to is what the report holds. *)
LEMMA ReportIsExpected ==
    ASSUME BagInv, CreditInv, Readable
    PROVE  /\ IsReport(ResolvedReport) /\ ByStack(ResolvedReport) = Expected
           /\ \A key \in DOMAIN ResolvedReport : key.frames \in Seq(Seq(AllSymbols))
<1> DEFINE labelled == Labelled(Iter, Shows)
<1>1. Iter \in Seq(Entries) /\ \A L, q : CountOf(Iter, L, q) = HeldCount(L, q)
  BY IterCounts DEF BagInv
<1>2. /\ IsReport(ResolvedReport) /\ IsReport(labelled)
      /\ ByStack(ResolvedReport) = labelled
      /\ DOMAIN ResolvedReport \subseteq {ResolvedKey(Iter[i]) : i \in 1..Len(Iter)}
  BY <1>1, BuilderLabels DEF ResolvedReport
<1>3. \A x : CountAt(labelled, x) = CountAt(Expected, x)
  <2>1. \A x : CountOf(Iter, Shows, x) = CountAt(labelled, x)
    BY DEF CountOf, CountAt
  <2> QED
    BY <1>1, <2>1 DEF CreditInv
<1> HIDE DEF labelled
<1>4. IsReport(Expected)
  BY DEF CreditInv
<1>5. DOMAIN labelled = DOMAIN Expected
  BY <1>2, <1>3, <1>4 DEF IsReport, CountAt
<1>6. \A x \in DOMAIN Expected : labelled[x] = Expected[x]
  BY <1>3, <1>5 DEF CountAt
<1>7. /\ ByStack(ResolvedReport) = [x \in DOMAIN ByStack(ResolvedReport) |-> ByStack(ResolvedReport)[x]]
      /\ Expected = [x \in DOMAIN Expected |-> Expected[x]]
  BY Zenon DEF ByStack, Expected, Grouped
<1>8. labelled = [x \in DOMAIN labelled |-> labelled[x]]
  BY <1>2, <1>7
<1>9. labelled = Expected
  BY <1>5, <1>6, <1>7, <1>8
<1>10. ASSUME NEW key \in DOMAIN ResolvedReport PROVE key.frames \in Seq(Seq(AllSymbols))
  <2>1. PICK i \in 1..Len(Iter) : key = ResolvedKey(Iter[i])
    BY <1>2
  <2>2. Iter[i] \in Entries
    BY <1>1, ElementOfSeq
  <2>3. Iter[i].item \in Keys
    BY <2>2 DEF Entries
  <2> QED
    BY <2>1, <2>3, StackOfEntry
<1> QED
  BY <1>2, <1>9, <1>10

(* The folded stacks count every sample once, under the code that the      *)
(* first sample of its entry interrupted (Collector::add,                  *)
(* ReportBuilder::build and Report::write_folded): see FoldedFaithful.     *)
THEOREM FoldedStacksFaithful == Spec => []FoldedFaithful
<1>1. BagInv /\ CreditInv => FoldedFaithful
  <2> SUFFICES ASSUME BagInv, CreditInv, Readable,
                      NEW order \in SetToSeqs(DOMAIN ResolvedReport)
               PROVE  Tally(Folded(ResolvedReport, order)) = Expected
    BY DEF FoldedFaithful
  <2> QED
    BY ReportIsExpected, FoldedTally
<1> QED
  BY <1>1, CreditStays, PTL

(* A speedscope file gives back every sample, under the code that the      *)
(* first one of its entry interrupted, and ends at the number of samples   *)
(* (Collector::add, Report::write_speedscope): see SpeedscopeFaithful.     *)
THEOREM SpeedscopeFileFaithful == Spec => []SpeedscopeFaithful
<1>1. BagInv /\ CreditInv => SpeedscopeFaithful
  <2> SUFFICES ASSUME BagInv, CreditInv, Readable,
                      NEW order \in SetToSeqs(DOMAIN ResolvedReport)
               PROVE  LET p == Speedscope(ResolvedReport, order)
                      IN  /\ Tally(SpeedscopeLines(p)) = Expected
                          /\ p.total = TotalSamples(ResolvedReport)
                          /\ p.total = SumFunction(Expected)
    BY DEF SpeedscopeFaithful
  <2> DEFINE report == ResolvedReport
             p == Speedscope(report, order)
  <2>1. IsReport(report) /\ ByStack(report) = Expected /\ IsKeyed(report) /\ IsData(report)
    BY ReportIsExpected, ReportIsData DEF IsKeyed
  <2> HIDE DEF report
  <2>2. /\ Tally(SpeedscopeLines(p)) = ByStack(report) /\ p.total = SumFunction(report)
    <3>1. order \in SetToSeqs(DOMAIN report)
      BY DEF report
    <3> QED
      BY <2>1, <3>1, SpeedscopeTally
  <2>3. SumFunction(ByStack(report)) = SumFunction(report)
    BY <2>1, GroupType DEF ByStack
  <2>4. TotalSamples(report) = SumFunction(report)
    BY <2>1, TotalIsSum
  <2> QED
    BY <2>1, <2>2, <2>3, <2>4, Zenon DEF report
<1> QED
  BY <1>1, CreditStays, PTL

(* A pprof profile gives back every sample under the code that the first   *)
(* one of its entry interrupted: its string, function and location ids     *)
(* lead to the demangled names (Collector::add, Report::pprof): see        *)
(* PprofFaithful.                                                          *)
THEOREM PprofProfileFaithful == Spec => []PprofFaithful
<1>1. BagInv /\ CreditInv => PprofFaithful
  <2> SUFFICES ASSUME BagInv, CreditInv, Readable,
                      NEW order \in SetToSeqs(DOMAIN ResolvedReport)
               PROVE  Tally(PprofLines(Pprof(ResolvedReport, order, Frequency))) = Expected
    BY DEF PprofFaithful
  <2> DEFINE report == ResolvedReport
  <2>1. ByStack(report) = Expected /\ IsKeyed(report)
    BY ReportIsExpected DEF IsKeyed
  <2>2. order \in SetToSeqs(DOMAIN report)
    OBVIOUS
  <2> HIDE DEF report
  <2>3. Tally(PprofLines(Pprof(report, order, Frequency))) = ByStack(report)
    BY <2>1, <2>2, PprofTally
  <2> QED
    BY <2>1, <2>3 DEF report
<1> QED
  BY <1>1, CreditStays, PTL

-----------------------------------------------------------------------------
(* The stacks that are shown were taken *)

(* The entries that a sample among D created. *)
CreatedBy(D) == {e \in Entries : [taken |-> e.item, shown |-> e.item, at |-> e.at] \in D}

TakenInv ==
    /\ map \in [0..(Buckets - 1) -> Seq(CreatedBy(DOMAIN samples))]
    /\ buffer \in Seq(CreatedBy(DOMAIN samples)) /\ file \in Seq(CreatedBy(DOMAIN samples))
    /\ \A s \in DOMAIN samples : Kind[s.taken] = Kind[s.shown]

(* Every entry, in the table, the buffer or the file, keeps the stack and  *)
(* the time of a sample, and counts only stacks equal to it.               *)
LEMMA EntriesWereTaken ==
    ASSUME TypeOK, TakenInv, NEW k \in Keys, NEW written \in Writes, Add(k, written)
    PROVE  TakenInv'
<1> DEFINE b == map[Hash[k]]
           at == Clock[now]
           s == Sample(b, k, at)
           r == BucketAdd(b, k, at, 1)
           D == DOMAIN samples
           E == D \union {s}
           T == CreatedBy(D)
           U == CreatedBy(E)
<1>1. Hash[k] \in 0..(Buckets - 1) /\ at \in Nat
  BY HashAssumption, ClockAssumption DEF TypeOK
<1>2. b \in Seq(T) /\ b \in Seq(Entries) /\ Len(b) <= Associativity
  BY <1>1 DEF TypeOK, TakenInv
<1>3. DOMAIN samples' = E
  <2>1. IsBag(samples)
    BY DEF TypeOK, IsBag
  <2>2. samples' = BagAdd(samples, s)
    BY DEF Add
  <2> HIDE DEF s
  <2> QED
    BY <2>1, <2>2, BagAddType
<1>4. map' = [map EXCEPT ![Hash[k]] = r.bucket]
  BY DEF Add
<1>5. /\ s.taken = k
      /\ \/ Matches(b, k) = {} /\ s.shown = k /\ s.at = at
         \/ \E i \in Matches(b, k) : s.shown = b[i].item /\ s.at = b[i].at
      /\ s \in Samples
  BY <1>1, <1>2, SampleType
<1>6. Matches(b, k) = {} => s = [taken |-> k, shown |-> k, at |-> at]
  BY DEF Sample, Entry
<1> HIDE DEF s, b, at, D
<1>7. T \subseteq U /\ T \in SUBSET Entries /\ U \in SUBSET Entries
  BY DEF CreatedBy
<1>8. \A e \in U : Entry(e.item, e.at, e.count + 1) \in U
  BY DEF CreatedBy, Entry, Entries
<1>9. Matches(b, k) = {} => Entry(k, at, 1) \in U
  <2> SUFFICES ASSUME Matches(b, k) = {} PROVE Entry(k, at, 1) \in U
    OBVIOUS
  <2> DEFINE new == Entry(k, at, 1)
  <2>1. new \in Entries /\ new.item = k /\ new.at = at
    BY <1>1 DEF Entry, Entries
  <2> HIDE DEF new
  <2>2. [taken |-> new.item, shown |-> new.item, at |-> new.at] \in E
    BY <1>6, <2>1
  <2>3. new \in U
    BY <2>1, <2>2 DEF CreatedBy
  <2> QED
    BY <2>3 DEF new
<1> HIDE DEF T, U
<1>10. Seq(T) \subseteq Seq(U)
  BY <1>7
<1>11. r.bucket \in Seq(U) /\ (r.evict = <<>> \/ (r.evict # <<>> /\ r.evict[1] \in U))
  BY <1>2, <1>7, <1>8, <1>9, <1>10, BucketAddIn
<1>12. map' \in [0..(Buckets - 1) -> Seq(U)]
  <2> HIDE DEF r
  <2>1. map \in [0..(Buckets - 1) -> Seq(T)]
    BY DEF TakenInv, T, D
  <2> QED
    BY <1>1, <1>4, <1>10, <1>11, <2>1
<1>13. buffer' \in Seq(U) /\ file' \in Seq(U)
  <2> HIDE DEF r
  <2>1. buffer \in Seq(U) /\ file \in Seq(U)
    BY <1>10 DEF TakenInv, T, D
  <2>2. CASE UNCHANGED <<buffer, file>>
    BY <2>1, <2>2
  <2>3. ASSUME NEW e, r.evict = <<e>>, buffer' = Append(buffer, e), file' = file
        PROVE  buffer' \in Seq(U) /\ file' \in Seq(U)
    <3>1. e \in U
      BY <1>11, <2>3
    <3>2. Append(buffer, e) \in Seq(U)
      BY <2>1, <3>1, AppendProperties
    <3> QED
      BY <2>1, <2>3, <3>2
  <2>4. ASSUME NEW e, r.evict = <<e>>, Len(buffer) = BufferLength,
               file' = file \o SubSeq(buffer, 1, written),
               buffer' = IF written = BufferLength THEN <<e>> ELSE <<>>
        PROVE  buffer' \in Seq(U) /\ file' \in Seq(U)
    <3>1. e \in U
      BY <1>11, <2>4
    <3>2. buffer' \in Seq(U)
      BY <2>4, <3>1
    <3>3. written \in 0..Len(buffer)
      BY <2>4, SizeAssumption DEF Writes
    <3>4. SubSeq(buffer, 1, written) \in Seq(U)
      BY <2>1, <3>3
    <3>5. file \o SubSeq(buffer, 1, written) \in Seq(U)
      BY <2>1, <3>4, ConcatProperties
    <3> QED
      BY <2>4, <3>2, <3>5
  <2> QED
    BY <2>2, <2>3, <2>4, AddEffect DEF r, b, at
<1>14. \A t \in E : Kind[t.taken] = Kind[t.shown]
  <2>1. Kind[s.taken] = Kind[s.shown]
    <3>1. CASE s.shown = k
      BY <1>5, <3>1
    <3>2. ASSUME NEW i \in Matches(b, k), s.shown = b[i].item
          PROVE  Kind[s.taken] = Kind[s.shown]
      <4>1. b[i] \in Entries /\ UnresolvedEq(b[i].item, k)
        BY <1>2, <3>2 DEF Matches
      <4>2. b[i].item \in Keys
        BY <4>1 DEF Entries
      <4> QED
        BY <1>5, <3>2, <4>1, <4>2, EqIsKind
    <3> QED
      BY <1>5, <3>1, <3>2
  <2> QED
    BY <2>1 DEF TakenInv, D
<1> QED
  BY <1>3, <1>12, <1>13, <1>14 DEF TakenInv, U

(* Whatever was evicted, flushed and merged, a stack in a report is one    *)
(* that was taken, at its time, and counts only samples of the same        *)
(* functions and thread (Bucket::add and PartialEq of UnresolvedFrames):   *)
(* see ShownWasTaken.                                                      *)
THEOREM ShownStacksWereTaken == Spec => []ShownWasTaken
<1>1. Init /\ TypeOK => TakenInv
  <2> SUFFICES ASSUME Init, TypeOK PROVE TakenInv
    OBVIOUS
  <2>1. DOMAIN samples = {}
    BY DEF Init, EmptyBag, SetToBag
  <2>2. \A S : <<>> \in Seq(S)
    OBVIOUS
  <2> QED
    BY <2>1, <2>2 DEF Init, TakenInv
<1>2. TypeOK /\ TakenInv /\ [Next]_vars => TakenInv'
  <2>1. TakenInv /\ UNCHANGED vars => TakenInv'
    BY DEF TakenInv, vars
  <2> QED
    BY <2>1, EntriesWereTaken DEF Next, Done
<1>3. TypeOK /\ FileInv /\ TakenInv => ShownWasTaken
  <2> SUFFICES ASSUME TypeOK, FileInv, TakenInv PROVE ShownWasTaken
    OBVIOUS
  <2> DEFINE T == CreatedBy(DOMAIN samples)
  <2>1. ASSUME Readable, NEW f \in DOMAIN ResolvedReport
        PROVE  \E s \in DOMAIN samples :
                  s.taken = s.shown /\ f = ResolvedKey([item |-> s.taken, at |-> s.at])
    <3>1. Iter \in Seq(T)
      BY <2>1, IterIn DEF TakenInv
    <3>2. Iter \in Seq(Entries)
      BY <2>1, IterCounts
    <3>3. DOMAIN ResolvedReport \subseteq {ResolvedKey(Iter[i]) : i \in 1..Len(Iter)}
      BY <3>2, BuilderLabels DEF ResolvedReport
    <3>4. PICK i \in 1..Len(Iter) : f = ResolvedKey(Iter[i])
      BY <2>1, <3>3
    <3> DEFINE e == Iter[i]
               s == [taken |-> e.item, shown |-> e.item, at |-> e.at]
    <3>5. e \in T
      BY <3>1, ElementOfSeq
    <3> HIDE DEF e
    <3>6. s \in DOMAIN samples
      BY <3>5 DEF CreatedBy
    <3>7. s.taken = s.shown /\ s.taken = e.item /\ s.at = e.at
      OBVIOUS
    <3>8. ResolvedKey([item |-> s.taken, at |-> s.at]) = ResolvedKey(e)
      BY DEF ResolvedKey
    <3> HIDE DEF s
    <3> QED
      BY <3>4, <3>6, <3>7, <3>8 DEF e
  <2> QED
    BY <2>1 DEF ShownWasTaken, TakenInv
<1> QED
  BY <1>1, <1>2, <1>3, TypeCorrect, DeficitStays, PTL DEF Spec
=============================================================================
