--------------------------- MODULE ValidateProofs ---------------------------
(* The pipe behind validate, and the frame pointer walk that depends on    *)
(* its answers: what a no means, whose descriptors are used, and what the  *)
(* walk returns, for any number of threads, descriptors and addresses.     *)
EXTENDS UnwindProofs, FiniteSetTheorems, WellFoundedInduction

-----------------------------------------------------------------------------
(* The inductive invariants *)

Ends == (Fds \cup {-1}) \X (Fds \cup {-1})
Kinds == {"free", "app", "r", "w"}

(* The types of what validate uses, stronger than TypeOK: a descriptor is  *)
(* free, the application's, or an end of a pipe, and null is not mapped.   *)
CallInv ==
    /\ fds \in [Fds -> [kind : Kinds, pipe : 0..NumFds]]
    /\ \A n \in Fds : fds[n].pipe = 0 <=> fds[n].kind \in {"free", "app"}
    /\ bytes \in [Pipes -> 0..Capacity]
    /\ read_fd \in Fds \cup {-1} /\ write_fd \in Fds \cup {-1}
    /\ mapped \subseteq Addrs /\ 0 \notin mapped
    /\ pc \in [Callers -> Labels]
    /\ addr \in [Callers -> Addrs] /\ ok \in [Callers -> BOOLEAN]
    /\ fd \in [Callers -> Fds \cup {-1}] /\ ends \in [Callers -> Ends]
    /\ noPipe \subseteq Callers /\ torn \subseteq Callers
    /\ appOps \in 0..MaxAppOps

FlagInv ==
    /\ overlapped \in BOOLEAN /\ closedAll \in BOOLEAN /\ touched \in BOOLEAN
    /\ moved \in BOOLEAN /\ faulted \in BOOLEAN

(* The types of the walk; the handler is in validate only where it waits   *)
(* for the answer.                                                         *)
TraceInv ==
    /\ unwinder \in Unwinders /\ memory \in Memories \cup {NoMemory}
    /\ walk \in {"off", "loop", "validate", "next", "yield", "read_stack", "done"}
    /\ start \in Addrs /\ frame_pointer \in Addrs /\ last_frame_pointer \in Addrs
    /\ bt \in Seq(Addrs) /\ Len(bt) <= MaxDepth
    /\ pc[h] \in Calling => walk \in {"validate", "read_stack"}

TypeInv == CallInv /\ FlagInv /\ TraceInv

(* A pipe without descriptors holds nothing. *)
DiscardInv ==
    \A p \in Pipes : (\A n \in Fds : fds[n].pipe # p) => bytes[p] = 0

(* The two descriptors are the ends of one pipe. *)
Made(r, w) ==
    /\ r \in Fds /\ w \in Fds
    /\ \E p \in Pipes : fds[r] = End("r", p) /\ fds[w] = End("w", p)

NoEnds == \A n \in Fds : fds[n].kind \in {"free", "app"}

Writing == {"load_write", "write"}
Writers == {c \in Callers : pc[c] \in Writing}

(* Who replaces the pipe is alone in validate. *)
Alone ==
    \A c, d \in Callers : pc[c] \in Opening /\ pc[d] \in Calling => c = d

(* Otherwise the pipe is there or there is none. *)
Settled ==
    (\A c \in Callers : pc[c] \notin Opening) => NoEnds \/ Made(read_fd, write_fd)

(* What a caller knows of the pipe, and what descriptor it has loaded. *)
Knows(c) ==
    /\ pc[c] \in Opening \ {"store_read", "store_write"} => NoEnds
    /\ pc[c] \in {"store_read", "store_write"} => Made(ends[c][1], ends[c][2])
    /\ pc[c] = "store_write" => read_fd = ends[c][1]
    /\ pc[c] \in {"read", "close_read"} => fd[c] = read_fd
    /\ pc[c] \in {"write", "close_write"} => fd[c] = write_fd
    /\ pc[c] \in Writing => Made(read_fd, write_fd)

(* This is so unless calls overlapped while the pipe was replaced or the   *)
(* application's files were used.                                          *)
PipeInv ==
    ~overlapped /\ ~touched => Alone /\ Settled /\ \A c \in Callers : Knows(c)

(* The pipe never runs full: who writes has drained it before. *)
Room ==
    \A p \in Pipes :
        write_fd \in Fds /\ fds[write_fd] = End("w", p) =>
            bytes[p] + Cardinality(Writers) <= Cardinality(Callers)

Empty == \A p \in Pipes : bytes[p] = 0

RoomInv ==
    ~overlapped /\ ~touched =>
        Room /\ ((\E c \in Callers : pc[c] \in Opening) => Empty)

(* Before the first pipe there is none to use, and it stays open. *)
OwnInv ==
    ~overlapped /\ ~closedAll =>
        ~touched /\ (NoEnds => read_fd = -1 /\ write_fd = -1)

FdInv == DiscardInv /\ PipeInv /\ RoomInv /\ OwnInv /\ NoMeansUnreadable

(* What the walk has collected, and where it is. *)
Follows ==
    IF bt = <<>> THEN frame_pointer = start /\ last_frame_pointer = 0
    ELSE /\ frame_pointer = memory[bt[Len(bt)]]
         /\ last_frame_pointer = bt[Len(bt)]

WalkInv ==
    /\ walk = "off" => pc[h] = "idle"
    /\ h \in torn => moved
    /\ unwinder = "frame_pointer" /\ ~touched /\ ~moved =>
          /\ walk = "off" => bt = <<>> /\ last_frame_pointer = 0
          /\ walk \in {"loop", "validate", "next"} => Chain(bt)
          /\ walk \in {"loop", "validate"} => Follows
          /\ walk = "validate" => ~Backwards
          /\ walk = "next" => /\ bt # <<>> /\ frame_pointer = bt[Len(bt)]
                              /\ last_frame_pointer = bt[Len(bt)]

-----------------------------------------------------------------------------
(* Descriptors *)

(* A set of numbers that is not empty has a least element. *)
LEMMA MinIs ==
    ASSUME NEW S \in SUBSET Nat, S # {}
    PROVE  Min(S) \in S
<1>1. PICK x \in S : \A y \in S : ~(<<y, x>> \in OpToRel(<, Nat))
  BY NatLessThanWellFounded, WFMin
<1>2. ASSUME NEW y \in S PROVE x <= y
  <2>1. x \in Nat /\ y \in Nat
    OBVIOUS
  <2>2. ~(y < x)
    <3>1. OpToRel(<, Nat) = {z \in Nat \X Nat : z[1] < z[2]}
      BY DEF OpToRel
    <3>2. <<y, x>> \notin {z \in Nat \X Nat : z[1] < z[2]}
      BY <1>1, <3>1
    <3> QED
      BY <2>1, <3>2
  <2> QED
    BY <2>1, <2>2
<1> QED
  BY <1>2 DEF Min

(* Two free descriptors leave a pipe that is not in use. *)
LEMMA PipeLeft ==
    ASSUME CallInv, NEW r \in Fds, fds[r].pipe = 0
    PROVE  \E q \in Pipes : \A n \in Fds : fds[n].pipe # q
<1> SUFFICES ASSUME \A q \in Pipes : \E n \in Fds : fds[n].pipe = q
             PROVE  FALSE
  OBVIOUS
<1> DEFINE f == [q \in Pipes |-> CHOOSE n \in Fds : fds[n].pipe = q]
<1>1. \A q \in Pipes : f[q] \in Fds /\ fds[f[q]].pipe = q
  OBVIOUS
<1>2. \A q \in Pipes : f[q] # r /\ q # 0
  BY <1>1 DEF Pipes
<1>3. f \in [Pipes -> Fds \ {r}]
  BY <1>1, <1>2
<1>4. NumFds \in Nat
  BY ValidateAssumption
<1>5. /\ IsFiniteSet(Pipes) /\ Cardinality(Pipes) = NumFds
      /\ IsFiniteSet(Fds) /\ Cardinality(Fds) = NumFds
  <2>1. /\ IsFiniteSet(1..NumFds)
        /\ Cardinality(1..NumFds) = IF 1 > NumFds THEN 0 ELSE NumFds - 1 + 1
    BY <1>4, FS_Interval
  <2>2. /\ IsFiniteSet(0..(NumFds - 1))
        /\ Cardinality(0..(NumFds - 1)) =
              IF 0 > NumFds - 1 THEN 0 ELSE NumFds - 1 - 0 + 1
    BY <1>4, FS_Interval
  <2> QED
    BY <1>4, <2>1, <2>2 DEF Pipes, Fds
<1>6. IsFiniteSet(Fds \ {r}) /\ Cardinality(Fds \ {r}) = NumFds - 1
  BY <1>5, FS_RemoveElement
<1> HIDE DEF f
<1>7. \E p, q \in Pipes : p # q /\ f[p] = f[q]
  BY <1>3, <1>4, <1>5, <1>6, FS_PigeonHole
<1> QED
  BY <1>1, <1>7

(* create_pipe: no two descriptors are free, or two free ones become the   *)
(* ends of a pipe that was not in use.                                     *)
LEMMA CreateIs ==
    ASSUME CallInv, NEW c \in Callers, CreatePipe(c)
    PROVE  \/ /\ pc' = [pc EXCEPT ![c] = "ret"]
              /\ noPipe' = noPipe \cup {c} /\ fds' = fds /\ ends' = ends
           \/ /\ pc' = [pc EXCEPT ![c] = "store_read"] /\ noPipe' = noPipe
              /\ \E r, w \in Fds, p \in Pipes :
                    /\ r # w /\ fds[r] = Free /\ fds[w] = Free
                    /\ \A n \in Fds : fds[n].pipe # p
                    /\ fds' = [fds EXCEPT ![r] = End("r", p), ![w] = End("w", p)]
                    /\ ends' = [ends EXCEPT ![c] = <<r, w>>]
<1>1. CASE Cardinality(FreeFds) < 2
  BY <1>1 DEF CreatePipe, Goto
<1>2. CASE ~(Cardinality(FreeFds) < 2)
  <2> DEFINE r == Min(FreeFds)
             w == Min(FreeFds \ {r})
             p == Min({q \in Pipes : \A n \in Fds : fds[n].pipe # q})
  <2>1. /\ fds' = [fds EXCEPT ![r] = End("r", p), ![w] = End("w", p)]
        /\ ends' = [ends EXCEPT ![c] = <<r, w>>]
        /\ pc' = [pc EXCEPT ![c] = "store_read"] /\ noPipe' = noPipe
    BY <1>2 DEF CreatePipe, Goto
  <2>2. FreeFds \in SUBSET Fds /\ Fds \in SUBSET Nat /\ IsFiniteSet(FreeFds)
    <3>1. IsFiniteSet(Fds) /\ Fds \in SUBSET Nat
      BY ValidateAssumption, FS_Interval DEF Fds
    <3>2. FreeFds \in SUBSET Fds
      BY DEF FreeFds
    <3> QED
      BY <3>1, <3>2, FS_Subset
  <2>3. Cardinality(FreeFds) \in Nat
    BY <2>2, FS_CardinalityType
  <2>4. FreeFds # {}
    BY <1>2, FS_EmptySet
  <2>5. r \in FreeFds
    BY <2>2, <2>4, MinIs
  <2> HIDE DEF r
  <2>6. FreeFds \ {r} # {}
    BY <1>2, <2>2, <2>3, <2>5, FS_RemoveElement, FS_EmptySet
  <2>7. w \in FreeFds \ {r}
    BY <2>2, <2>6, MinIs
  <2>8. fds[r].pipe = 0 /\ r \in Fds
    BY <2>5 DEF FreeFds, Free, End
  <2>9. {q \in Pipes : \A n \in Fds : fds[n].pipe # q} # {}
    BY <2>8, PipeLeft
  <2>10. Pipes \in SUBSET Nat
    BY ValidateAssumption DEF Pipes
  <2>11. p \in {q \in Pipes : \A n \in Fds : fds[n].pipe # q}
    BY <2>9, <2>10, MinIs
  <2> HIDE DEF w, p
  <2> QED
    BY <2>1, <2>5, <2>7, <2>11 DEF FreeFds
<1> QED
  BY <1>1, <1>2

-----------------------------------------------------------------------------
(* Types *)

(* A step of the specification, as validate sees it. *)
CallerStep ==
    \/ UNCHANGED validateVars
    \/ \E c \in Callers, a \in Addrs :
          pc[c] \notin Calling /\ Validate(c, a) /\ appOps' \in 0..MaxAppOps
    \/ \E c \in Callers : pc[c] \notin Calling /\ Return(c) /\ appOps' = appOps
    \/ \E c \in Callers : ValidateStep(c)
    \/ AppStep

(* close(n) frees one descriptor, or none. *)
LEMMA CloseIs ==
    ASSUME CallInv, NEW n \in Fds \cup {-1}, fds' = Close(n)
    PROVE  /\ fds' \in [Fds -> [kind : Kinds, pipe : 0..NumFds]]
           /\ \A m \in Fds : m # n => fds'[m] = fds[m]
           /\ n \in Fds => fds'[n] = Free
           /\ n \notin Fds => fds' = fds
           /\ \A m \in Fds : fds'[m].pipe = 0 <=> fds'[m].kind \in {"free", "app"}
<1>1. Free \in [kind : Kinds, pipe : 0..NumFds]
  BY ValidateAssumption DEF Free, End, Kinds
<1>2. \A m \in Fds : fds'[m] = IF m = n THEN Free ELSE fds[m]
  BY DEF Close
<1>3. fds' \in [Fds -> [kind : Kinds, pipe : 0..NumFds]]
  BY <1>1, <1>2 DEF Close, CallInv
<1>4. n \notin Fds => fds' = fds
  BY DEF Close, CallInv
<1>5. Free.pipe = 0 /\ Free.kind = "free"
  BY DEF Free, End
<1> QED
  BY <1>2, <1>3, <1>4, <1>5 DEF CallInv

(* A pipe keeps its bytes as long as it has a descriptor. *)
LEMMA DiscardIs ==
    ASSUME CallInv, Discard
    PROVE  /\ bytes' \in [Pipes -> 0..Capacity]
           /\ \A p \in Pipes : bytes'[p] <= bytes[p]
           /\ \A p \in Pipes : bytes'[p] = bytes[p] \/ bytes'[p] = 0
           /\ \A p \in Pipes : (\A n \in Fds : fds'[n].pipe # p) => bytes'[p] = 0
<1>1. \A p \in Pipes : bytes[p] \in 0..Capacity
  BY DEF CallInv
<1>2. Capacity \in Nat
  BY ValidateAssumption
<1> QED
  BY <1>1, <1>2 DEF Discard

(* pipe2 makes two ends. *)
LEMMA MakeIs ==
    ASSUME CallInv, NEW r \in Fds, NEW w \in Fds, NEW p \in Pipes, r # w,
           fds' = [fds EXCEPT ![r] = End("r", p), ![w] = End("w", p)]
    PROVE  /\ fds' \in [Fds -> [kind : Kinds, pipe : 0..NumFds]]
           /\ fds'[r] = End("r", p) /\ fds'[w] = End("w", p)
           /\ \A n \in Fds \ {r, w} : fds'[n] = fds[n]
           /\ \A n \in Fds : fds'[n].pipe = 0 <=> fds'[n].kind \in {"free", "app"}
<1>1. /\ End("r", p) \in [kind : Kinds, pipe : 0..NumFds]
      /\ End("w", p) \in [kind : Kinds, pipe : 0..NumFds]
      /\ End("r", p).pipe = p /\ End("w", p).pipe = p /\ p # 0
      /\ End("r", p).kind = "r" /\ End("w", p).kind = "w"
  BY ValidateAssumption DEF End, Kinds, Pipes
<1>2. fds \in [Fds -> [kind : Kinds, pipe : 0..NumFds]]
  BY DEF CallInv
<1>3. /\ fds'[r] = End("r", p) /\ fds'[w] = End("w", p)
      /\ \A n \in Fds \ {r, w} : fds'[n] = fds[n]
  BY <1>2
<1>4. fds' \in [Fds -> [kind : Kinds, pipe : 0..NumFds]]
  BY <1>1, <1>2
<1> QED
  BY <1>1, <1>3, <1>4 DEF CallInv

(* The application's open and close. *)
LEMMA AppFdIs ==
    ASSUME CallInv, NEW n \in Fds, NEW x \in {Free, App},
           fds[n] \in {Free, App}, fds' = [fds EXCEPT ![n] = x]
    PROVE  /\ fds' \in [Fds -> [kind : Kinds, pipe : 0..NumFds]]
           /\ \A m \in Fds : m # n => fds'[m] = fds[m]
           /\ \A m \in Fds : fds'[m].pipe = fds[m].pipe
           /\ \A m \in Fds : fds[m].pipe # 0 => fds'[m] = fds[m]
           /\ \A m \in Fds : fds'[m].pipe = 0 <=> fds'[m].kind \in {"free", "app"}
<1>1. /\ x \in [kind : Kinds, pipe : 0..NumFds] /\ x.pipe = 0
      /\ x.kind \in {"free", "app"} /\ fds[n].pipe = 0
  BY ValidateAssumption DEF Free, App, End, Kinds
<1>2. fds \in [Fds -> [kind : Kinds, pipe : 0..NumFds]]
  BY DEF CallInv
<1>3. fds'[n] = x /\ \A m \in Fds : m # n => fds'[m] = fds[m]
  BY <1>2
<1>4. fds' \in [Fds -> [kind : Kinds, pipe : 0..NumFds]]
  BY <1>1, <1>2
<1> QED
  BY <1>1, <1>3, <1>4 DEF CallInv

(* What read(n) leaves of the bytes. *)
LEMMA DrainedIs ==
    ASSUME CallInv, NEW n, bytes' = Drained(n)
    PROVE  /\ bytes' \in [Pipes -> 0..Capacity]
           /\ \A p \in Pipes : bytes'[p] <= bytes[p]
           /\ \A p \in Pipes :
                 n \in Fds /\ fds[n] = End("r", p) /\ bytes[p] > 0 =>
                    bytes'[p] = bytes[p] - 1
<1>1. bytes \in [Pipes -> 0..Capacity] /\ Capacity \in Nat
  BY ValidateAssumption DEF CallInv
<1>2. \A p \in Pipes : bytes[p] \in Nat
  BY <1>1
<1>3. CASE KindOf(n) = "r" /\ bytes[fds[n].pipe] > 0
  <2>1. bytes' = [bytes EXCEPT ![fds[n].pipe] = bytes[fds[n].pipe] - 1]
    BY <1>3 DEF Drained
  <2>2. \A p \in Pipes :
           bytes'[p] = IF p = fds[n].pipe THEN bytes[p] - 1 ELSE bytes[p]
    BY <1>1, <2>1
  <2>3. \A p \in Pipes : bytes'[p] \in 0..Capacity /\ bytes'[p] <= bytes[p]
    BY <1>1, <1>3, <2>2
  <2>4. bytes' \in [Pipes -> 0..Capacity]
    BY <1>1, <2>1, <2>3
  <2> QED
    BY <1>2, <2>2, <2>3, <2>4 DEF End
<1>4. CASE ~(KindOf(n) = "r" /\ bytes[fds[n].pipe] > 0)
  <2>1. bytes' = bytes
    BY <1>4 DEF Drained
  <2>2. \A p \in Pipes : ~(n \in Fds /\ fds[n] = End("r", p) /\ bytes[p] > 0)
    BY <1>4 DEF KindOf, End
  <2> QED
    BY <1>1, <1>2, <2>1, <2>2
<1> QED
  BY <1>3, <1>4

(* What write(n, a) adds to them. *)
LEMMA FilledIs ==
    ASSUME CallInv, NEW n, NEW a,
           bytes' = IF Copies(n, a) THEN [bytes EXCEPT ![fds[n].pipe] = @ + 1]
                    ELSE bytes
    PROVE  /\ bytes' \in [Pipes -> 0..Capacity]
           /\ \A p \in Pipes : bytes'[p] <= bytes[p] + 1
           /\ \A p \in Pipes : (\A m \in Fds : fds[m].pipe # p) => bytes'[p] = bytes[p]
<1>1. bytes \in [Pipes -> 0..Capacity] /\ Capacity \in Nat
  BY ValidateAssumption DEF CallInv
<1>2. \A p \in Pipes : bytes[p] \in Nat
  BY <1>1
<1>3. CASE Copies(n, a)
  <2>1. bytes' = [bytes EXCEPT ![fds[n].pipe] = bytes[fds[n].pipe] + 1]
    BY <1>3
  <2>2. \A p \in Pipes :
           bytes'[p] = IF p = fds[n].pipe THEN bytes[p] + 1 ELSE bytes[p]
    BY <1>1, <2>1
  <2>3. bytes[fds[n].pipe] < Capacity /\ n \in Fds
    BY <1>3 DEF Copies, KindOf
  <2>4. \A p \in Pipes : bytes'[p] \in 0..Capacity
    BY <1>1, <2>2, <2>3
  <2>5. bytes' \in [Pipes -> 0..Capacity]
    BY <1>1, <2>1, <2>4
  <2> QED
    BY <1>2, <2>2, <2>3, <2>5
<1>4. CASE ~Copies(n, a)
  BY <1>1, <1>2, <1>4
<1> QED
  BY <1>3, <1>4

(* Every step keeps the types of what validate uses. *)
LEMMA CallInvStep ==
    ASSUME CallInv, CallerStep
    PROVE  CallInv'
<1> DEFINE FdTypes == /\ fds \in [Fds -> [kind : Kinds, pipe : 0..NumFds]]
                      /\ \A n \in Fds : fds[n].pipe = 0 <=> fds[n].kind \in {"free", "app"}
           ByteTypes == bytes \in [Pipes -> 0..Capacity]
           PipeTypes == read_fd \in Fds \cup {-1} /\ write_fd \in Fds \cup {-1}
           MapTypes == mapped \subseteq Addrs /\ 0 \notin mapped
           PcTypes == pc \in [Callers -> Labels]
           ArgTypes == /\ addr \in [Callers -> Addrs] /\ ok \in [Callers -> BOOLEAN]
                       /\ noPipe \subseteq Callers /\ torn \subseteq Callers
           LocalTypes == fd \in [Callers -> Fds \cup {-1}] /\ ends \in [Callers -> Ends]
           OpsTypes == appOps \in 0..MaxAppOps
<1>1. /\ FdTypes /\ ByteTypes /\ PipeTypes /\ MapTypes /\ PcTypes /\ ArgTypes
      /\ LocalTypes /\ OpsTypes
  BY DEF CallInv
<1>2. ASSUME FdTypes', ByteTypes', PipeTypes', MapTypes', PcTypes', ArgTypes',
             LocalTypes', OpsTypes'
      PROVE  CallInv'
  BY <1>2 DEF CallInv
<1>3. CASE UNCHANGED validateVars
  BY <1>3 DEF validateVars, kernelVars, pipeVars, localVars, historyVars, CallInv
<1>4. ASSUME NEW c \in Callers, NEW a \in Addrs, Validate(c, a),
             appOps' \in 0..MaxAppOps
      PROVE  CallInv'
  <2>1. FdTypes' /\ ByteTypes' /\ PipeTypes' /\ MapTypes' /\ LocalTypes' /\ OpsTypes'
    BY <1>1, <1>4 DEF Validate, kernelVars, pipeVars
  <2>2. PcTypes'
    BY <1>1, <1>4 DEF Validate, Goto, Labels, Calling
  <2>3. ArgTypes'
    BY <1>1, <1>4 DEF Validate
  <2> QED
    BY <1>2, <2>1, <2>2, <2>3
<1>5. ASSUME NEW c \in Callers, Return(c), appOps' = appOps PROVE CallInv'
  <2>1. FdTypes' /\ ByteTypes' /\ PipeTypes' /\ MapTypes' /\ LocalTypes' /\ OpsTypes'
    BY <1>1, <1>5 DEF Return, kernelVars, pipeVars
  <2>2. PcTypes'
    BY <1>1, <1>5 DEF Return, Goto, Labels
  <2>3. ArgTypes'
    BY <1>1, <1>5, ValidateAssumption DEF Return
  <2> QED
    BY <1>2, <2>1, <2>2, <2>3
<1>6. ASSUME NEW c \in Callers,
             LoadRead(c) \/ LoadWrite(c) \/ OpenLoadRead(c) \/ OpenLoadWrite(c),
             appOps' = appOps
      PROVE  CallInv'
  <2>1. FdTypes' /\ ByteTypes' /\ PipeTypes' /\ MapTypes' /\ ArgTypes' /\ OpsTypes'
    BY <1>1, <1>6 DEF LoadRead, LoadWrite, OpenLoadRead, OpenLoadWrite, Load,
       kernelVars, pipeVars, historyVars
  <2>2. PcTypes'
    BY <1>1, <1>6 DEF LoadRead, LoadWrite, OpenLoadRead, OpenLoadWrite, Load,
       Goto, Labels, Calling, Opening
  <2>3. LocalTypes'
    BY <1>1, <1>6 DEF LoadRead, LoadWrite, OpenLoadRead, OpenLoadWrite, Load
  <2> QED
    BY <1>2, <2>1, <2>2, <2>3
<1>7. ASSUME NEW c \in Callers, Read(c), appOps' = appOps PROVE CallInv'
  <2>1. FdTypes' /\ PipeTypes' /\ MapTypes' /\ ArgTypes' /\ OpsTypes'
    BY <1>1, <1>7 DEF Read, pipeVars
  <2>2. PcTypes'
    BY <1>1, <1>7 DEF Read, Goto, Labels, Calling, Opening
  <2>3. LocalTypes'
    BY <1>1, <1>7 DEF Read, Forget
  <2>4. ByteTypes'
    BY <1>7, DrainedIs DEF Read
  <2> QED
    BY <1>2, <2>1, <2>2, <2>3, <2>4
<1>8. ASSUME NEW c \in Callers, CloseEnd(c), appOps' = appOps PROVE CallInv'
  <2>1. PipeTypes' /\ MapTypes' /\ ArgTypes' /\ OpsTypes'
    BY <1>1, <1>8 DEF CloseEnd, pipeVars
  <2>2. PcTypes'
    BY <1>1, <1>8 DEF CloseEnd, Goto, Labels, Calling, Opening
  <2>3. LocalTypes'
    BY <1>1, <1>8 DEF CloseEnd, Forget
  <2>4. FdTypes'
    BY <1>1, <1>8, CloseIs DEF CloseEnd
  <2>5. ByteTypes'
    BY <1>8, DiscardIs DEF CloseEnd
  <2> QED
    BY <1>2, <2>1, <2>2, <2>3, <2>4, <2>5
<1>9. ASSUME NEW c \in Callers, CreatePipe(c), appOps' = appOps PROVE CallInv'
  <2>1. PipeTypes' /\ MapTypes' /\ OpsTypes' /\ ByteTypes'
    BY <1>1, <1>9 DEF CreatePipe, pipeVars
  <2>2. UNCHANGED <<addr, ok, torn, fd>>
    BY <1>9 DEF CreatePipe
  <2>3. CASE /\ pc' = [pc EXCEPT ![c] = "ret"]
             /\ noPipe' = noPipe \cup {c} /\ fds' = fds /\ ends' = ends
    <3>1. FdTypes' /\ ArgTypes' /\ LocalTypes'
      BY <1>1, <2>2, <2>3
    <3>2. PcTypes'
      BY <1>1, <2>3 DEF Labels
    <3> QED
      BY <1>2, <2>1, <3>1, <3>2
  <2>4. ASSUME NEW r \in Fds, NEW w \in Fds, NEW p \in Pipes, r # w,
               pc' = [pc EXCEPT ![c] = "store_read"], noPipe' = noPipe,
               fds' = [fds EXCEPT ![r] = End("r", p), ![w] = End("w", p)],
               ends' = [ends EXCEPT ![c] = <<r, w>>]
        PROVE  CallInv'
    <3>1. FdTypes'
      BY <2>4, MakeIs
    <3>2. PcTypes'
      BY <1>1, <2>4 DEF Labels, Calling, Opening
    <3>3. ArgTypes'
      BY <1>1, <2>2, <2>4
    <3>4. LocalTypes'
      BY <1>1, <2>2, <2>4 DEF Ends
    <3> QED
      BY <1>2, <2>1, <3>1, <3>2, <3>3, <3>4
  <2> QED
    BY <1>9, <2>3, <2>4, CreateIs
<1>10. ASSUME NEW c \in Callers, StoreRead(c) \/ StoreWrite(c), appOps' = appOps
       PROVE  CallInv'
  <2>1. FdTypes' /\ ByteTypes' /\ MapTypes' /\ ArgTypes' /\ OpsTypes'
    BY <1>1, <1>10 DEF StoreRead, StoreWrite, kernelVars, historyVars
  <2>2. PcTypes'
    BY <1>1, <1>10 DEF StoreRead, StoreWrite, Goto, Labels, Calling, Opening
  <2>3. LocalTypes'
    BY <1>1, <1>10 DEF StoreRead, StoreWrite, Ends
  <2>4. PipeTypes'
    BY <1>1, <1>10 DEF StoreRead, StoreWrite, Ends
  <2> QED
    BY <1>2, <2>1, <2>2, <2>3, <2>4
<1>11. ASSUME NEW c \in Callers, Write(c), appOps' = appOps PROVE CallInv'
  <2>1. FdTypes' /\ PipeTypes' /\ MapTypes' /\ OpsTypes'
    BY <1>1, <1>11 DEF Write, pipeVars
  <2>2. PcTypes'
    BY <1>1, <1>11 DEF Write, Goto, Labels
  <2>3. LocalTypes'
    BY <1>1, <1>11 DEF Write, Forget
  <2>4. ByteTypes'
    BY <1>11, FilledIs DEF Write
  <2>5. ArgTypes'
    <3>1. PICK answer \in Answer(fd[c], addr[c]) : ok' = [ok EXCEPT ![c] = answer]
      BY <1>11 DEF Write
    <3>2. answer \in BOOLEAN
      BY <3>1, Zenon DEF Answer, Copies
    <3> QED
      BY <1>1, <1>11, <3>1, <3>2 DEF Write
  <2> QED
    BY <1>2, <2>1, <2>2, <2>3, <2>4, <2>5
<1>12. CASE AppStep
  <2>1. OpsTypes'
    BY <1>1, <1>12, ValidateAssumption DEF AppStep, AppCall
  <2>2. CASE AppOpen \/ \E n \in Fds : AppClose(n)
    <3>1. PipeTypes' /\ MapTypes' /\ ByteTypes' /\ PcTypes' /\ ArgTypes' /\ LocalTypes'
      BY <1>1, <2>2 DEF AppOpen, AppClose, pipeVars, localVars, historyVars
    <3>2. FdTypes'
      <4>1. CASE AppOpen
        <5>1. FreeFds \in SUBSET Nat /\ FreeFds # {}
          BY <4>1, ValidateAssumption DEF AppOpen, FreeFds, Fds
        <5>2. Min(FreeFds) \in FreeFds
          BY <5>1, MinIs
        <5> QED
          BY <4>1, <5>2, AppFdIs DEF AppOpen, FreeFds
      <4>2. CASE \E n \in Fds : AppClose(n)
        BY <4>2, AppFdIs DEF AppClose
      <4> QED
        BY <2>2, <4>1, <4>2
    <3> QED
      BY <1>2, <2>1, <3>1, <3>2
  <2>3. CASE CloseFrom
    <3>1. PipeTypes' /\ MapTypes' /\ PcTypes' /\ ArgTypes' /\ LocalTypes'
      BY <1>1, <2>3 DEF CloseFrom, pipeVars, localVars
    <3>2. FdTypes'
      BY <2>3, ValidateAssumption DEF CloseFrom, Free, End, Kinds
    <3>3. ByteTypes'
      BY <2>3, DiscardIs DEF CloseFrom
    <3> QED
      BY <1>2, <2>1, <3>1, <3>2, <3>3
  <2>4. CASE \E a \in Unmappable : Unmap(a)
    <3>1. /\ PipeTypes' /\ FdTypes' /\ ByteTypes' /\ PcTypes' /\ LocalTypes'
          /\ MapTypes' /\ ArgTypes'
      BY <1>1, <2>4 DEF Unmap, pipeVars, localVars
    <3> QED
      BY <1>2, <2>1, <3>1
  <2> QED
    BY <1>12, <2>2, <2>3, <2>4 DEF AppStep
<1>13. ASSUME NEW c \in Callers, Hang(c), appOps' = appOps PROVE CallInv'
  <2>1. /\ FdTypes' /\ ByteTypes' /\ PipeTypes' /\ MapTypes' /\ ArgTypes' /\ OpsTypes'
    BY <1>1, <1>13 DEF Hang, kernelVars, pipeVars
  <2>2. PcTypes'
    BY <1>1, <1>13 DEF Hang, Goto, Labels
  <2>3. LocalTypes'
    BY <1>1, <1>13 DEF Hang, Forget
  <2> QED
    BY <1>2, <2>1, <2>2, <2>3
<1> QED
  BY <1>3, <1>4, <1>5, <1>6, <1>7, <1>8, <1>9, <1>10, <1>11, <1>12, <1>13
  DEF CallerStep, ValidateStep

(* Every step of the specification is one that CallerStep describes. *)
LEMMA StepIs ==
    ASSUME TypeInv, Step
    PROVE  CallerStep
<1>1. h \in Callers /\ appOps \in 0..MaxAppOps /\ frame_pointer \in Addrs
  BY UnwindAssumption DEF h, TypeInv, CallInv, TraceInv
<1>2. walk \notin {"validate", "read_stack"} => pc[h] \notin Calling
  BY DEF TypeInv, TraceInv
<1>3. ASSUME NEW c, ValidateStep(c), c \in Callers PROVE CallerStep
  BY <1>3 DEF CallerStep
<1>4. CASE WalkCheck
  BY <1>1, <1>2, <1>4 DEF WalkCheck, CallerStep
<1>5. CASE WalkFrame \/ WalkNext \/ FramehopYield \/ FramehopEnd \/ ReadStack \/ FramehopStart
  BY <1>5 DEF WalkFrame, WalkNext, FramehopYield, FramehopEnd, ReadStack, FramehopStart,
              CallerStep
<1>6. ASSUME NEW a \in Addrs, FramehopRead(a) PROVE CallerStep
  BY <1>1, <1>2, <1>6 DEF FramehopRead, CallerStep
<1>7. CASE TraceReturn
  BY <1>1, <1>2, <1>7 DEF TraceReturn, CallerStep
<1>8. ASSUME NEW c \in Callers, NEW a \in AppAddrs, AppValidate(c, a) PROVE CallerStep
  <2>1. a \in Addrs /\ pc[c] \notin Calling /\ Validate(c, a)
    BY <1>8, UnwindAssumption DEF AppValidate, Calling, Opening
  <2>2. appOps' \in 0..MaxAppOps
    BY <1>1, <1>8, ValidateAssumption DEF AppValidate, AppCall
  <2> QED
    BY <2>1, <2>2 DEF CallerStep
<1>9. ASSUME NEW c \in Callers, AppReturn(c) PROVE CallerStep
  <2>1. pc[c] \notin Calling /\ Return(c) /\ appOps' = appOps
    BY <1>9 DEF AppReturn, Calling, Opening
  <2> QED
    BY <2>1 DEF CallerStep
<1>10. ASSUME NEW a \in Addrs, NEW m \in Memories, TraceStart(a, m) PROVE CallerStep
  BY <1>10 DEF TraceStart, CallerStep
<1> QED
  BY <1>3, <1>4, <1>5, <1>6, <1>7, <1>8, <1>9, <1>10
  DEF Step, WalkStep, CallStep, CallerStep

(* The histories are set by Boolean conditions. *)
LEMMA FlagInvStep ==
    ASSUME FlagInv, CallerStep, Step
    PROVE  FlagInv'
<1>1. overlapped' \in BOOLEAN /\ closedAll' \in BOOLEAN /\ touched' \in BOOLEAN
  <2> USE DEF FlagInv, historyVars, Touch
  <2>1. CASE UNCHANGED validateVars
    BY <2>1 DEF validateVars
  <2>2. ASSUME NEW c, NEW a, Validate(c, a) \/ Return(c)
        PROVE  overlapped' \in BOOLEAN /\ closedAll' \in BOOLEAN /\ touched' \in BOOLEAN
    BY <2>2 DEF Validate, Return
  <2>3. ASSUME NEW c, ValidateStep(c)
        PROVE  overlapped' \in BOOLEAN /\ closedAll' \in BOOLEAN /\ touched' \in BOOLEAN
    <3>1. CASE LoadRead(c) \/ LoadWrite(c) \/ OpenLoadRead(c) \/ OpenLoadWrite(c)
               \/ StoreRead(c) \/ StoreWrite(c)
      BY <3>1 DEF LoadRead, LoadWrite, OpenLoadRead, OpenLoadWrite, Load, StoreRead,
                  StoreWrite
    <3>2. CASE Read(c)
      BY <3>2 DEF Read
    <3>3. CASE CloseEnd(c) \/ CreatePipe(c) \/ Write(c) \/ Hang(c)
      BY <3>3 DEF CloseEnd, CreatePipe, Write, Hang
    <3> QED
      BY <2>3, <3>1, <3>2, <3>3 DEF ValidateStep
  <2>4. CASE AppStep
    BY <2>4 DEF AppStep, AppOpen, AppClose, CloseFrom, Unmap
  <2> QED
    BY <2>1, <2>2, <2>3, <2>4 DEF CallerStep
<1>2. moved' \in BOOLEAN /\ faulted' \in BOOLEAN
  <2> USE DEF FlagInv, traceVars, walkVars
  <2>1. CASE WalkStep
    BY <2>1 DEF WalkStep, WalkCheck, WalkFrame, WalkNext, FramehopYield, FramehopEnd,
                ReadStack, FramehopRead, Deref
  <2>2. CASE ~WalkStep
    BY <2>2 DEF Step, TraceStart, FramehopStart, TraceReturn, CallStep, AppValidate,
                AppReturn, Observe
  <2> QED
    BY <2>1, <2>2
<1> QED
  BY <1>1, <1>2 DEF FlagInv

(* The callback keeps at most MAX_DEPTH frames. *)
LEMMA CollectIs ==
    ASSUME NEW ip \in Addrs, Collect(ip), bt \in Seq(Addrs), Len(bt) <= MaxDepth
    PROVE  /\ bt' \in Seq(Addrs) /\ Len(bt') <= MaxDepth
           /\ walk' \in {"next", "done"}
           /\ walk' = "next" => bt' = Append(bt, ip)
           /\ walk' = "next" /\ unwinder = "frame_pointer" => ~IsBlocklisted(ip)
           /\ walk' = "done" =>
                 /\ bt' = bt
                 /\ \/ unwinder = "frame_pointer" /\ IsBlocklisted(ip)
                    \/ Len(bt) = MaxDepth
<1> DEFINE kept == ~(unwinder = "frame_pointer" /\ IsBlocklisted(ip))
                   /\ Len(bt) < MaxDepth
<1>1. bt' = (IF kept THEN Append(bt, ip) ELSE bt)
      /\ walk' = IF kept THEN "next" ELSE "done"
  BY DEF Collect, WalkGoto
<1>2. Len(bt) \in Nat /\ MaxDepth \in Nat
  BY UnwindAssumption
<1>3. CASE kept
  <2>1. bt' = Append(bt, ip) /\ walk' = "next" /\ Len(bt) < MaxDepth
    BY <1>1, <1>3
  <2>2. bt' \in Seq(Addrs) /\ Len(bt') = Len(bt) + 1
    BY <2>1
  <2> QED
    BY <1>2, <1>3, <2>1, <2>2
<1>4. CASE ~kept
  <2>1. bt' = bt /\ walk' = "done"
    BY <1>1, <1>4
  <2> QED
    BY <1>2, <1>4, <2>1
<1> QED
  BY <1>3, <1>4

(* Every step keeps the types of the walk. *)
LEMMA TraceInvStep ==
    ASSUME TypeInv, Step
    PROVE  TraceInv'
<1>0. /\ h \in Callers /\ pc \in [Callers -> Labels] /\ 0 \in Addrs
      /\ MaxDepth \in Nat /\ Memories \subseteq [Addrs -> Addrs]
  BY UnwindAssumption, ValidateAssumption DEF h, TypeInv, CallInv
<1> DEFINE Words == /\ unwinder \in Unwinders /\ memory \in Memories \cup {NoMemory}
                    /\ start \in Addrs /\ frame_pointer \in Addrs
                    /\ last_frame_pointer \in Addrs
           Frames == bt \in Seq(Addrs) /\ Len(bt) <= MaxDepth
           Where == walk \in {"off", "loop", "validate", "next", "yield", "read_stack", "done"}
           Inside == pc[h] \in Calling => walk \in {"validate", "read_stack"}
<1>1. Words /\ Frames /\ Where /\ Inside /\ memory \in [Addrs -> Addrs]
  BY <1>0 DEF TypeInv, TraceInv, NoMemory
<1>2. ASSUME Words', Frames', Where', Inside' PROVE TraceInv'
  BY <1>2 DEF TraceInv
<1>3. ASSUME NEW a \in Addrs, NEW m \in Memories, TraceStart(a, m) PROVE TraceInv'
  <2>1. Words' /\ Frames' /\ Where' /\ Inside'
    BY <1>1, <1>3 DEF TraceStart, WalkGoto, validateVars, localVars
  <2> QED
    BY <1>2, <2>1
<1>4. CASE TraceReturn
  <2>1. Words' /\ Where'
    BY <1>0, <1>1, <1>4 DEF TraceReturn, WalkGoto
  <2>2. Frames'
    BY <1>0, <1>4 DEF TraceReturn
  <2>3. Inside'
    BY <1>0, <1>4 DEF TraceReturn, Return, Goto, Calling, Opening
  <2> QED
    BY <1>2, <2>1, <2>2, <2>3
<1>5. CASE FramehopStart \/ FramehopEnd \/ ReadStack
  <2>1. Words' /\ Frames' /\ Where'
    BY <1>1, <1>5 DEF FramehopStart, FramehopEnd, ReadStack, WalkGoto, traceVars
  <2>2. Inside'
    BY <1>1, <1>5 DEF FramehopStart, FramehopEnd, ReadStack, WalkGoto, validateVars,
                      localVars, Calling, Opening
  <2> QED
    BY <1>2, <2>1, <2>2
<1>6. CASE WalkCheck
  <2>1. Words' /\ Frames' /\ Where'
    BY <1>1, <1>6 DEF WalkCheck, WalkGoto, traceVars
  <2>2. Inside'
    BY <1>1, <1>6 DEF WalkCheck, WalkGoto, validateVars, localVars
  <2> QED
    BY <1>2, <2>1, <2>2
<1>7. CASE WalkFrame
  <2>1. UNCHANGED <<unwinder, memory, start, frame_pointer, pc>> /\ pc[h] = "ret"
    BY <1>7 DEF WalkFrame, traceVars, validateVars, localVars
  <2>2. Inside'
    BY <2>1 DEF Calling, Opening
  <2>3. CASE ok[h]
    <3>1. Collect(frame_pointer) /\ last_frame_pointer' = frame_pointer
      BY <1>7, <2>3 DEF WalkFrame
    <3>2. Frames' /\ Where'
      BY <1>1, <3>1, CollectIs
    <3>3. Words'
      BY <1>1, <2>1, <3>1
    <3> QED
      BY <1>2, <2>2, <3>2, <3>3
  <2>4. CASE ~ok[h]
    <3>1. Words' /\ Frames' /\ Where'
      BY <1>1, <1>7, <2>1, <2>4 DEF WalkFrame, WalkGoto
    <3> QED
      BY <1>2, <2>2, <3>1
  <2> QED
    BY <2>3, <2>4
<1>8. CASE WalkNext
  <2>1. Words' /\ Frames' /\ Where'
    BY <1>1, <1>8 DEF WalkNext, WalkGoto, traceVars
  <2>2. Inside'
    BY <1>1, <1>8 DEF WalkNext, WalkGoto, validateVars, localVars
  <2> QED
    BY <1>2, <2>1, <2>2
<1>9. CASE FramehopYield
  <2>1. Words' /\ Inside'
    BY <1>1, <1>9 DEF FramehopYield, traceVars, validateVars, localVars
  <2>2. Frames' /\ Where'
    BY <1>0, <1>1, <1>9, CollectIs DEF FramehopYield
  <2> QED
    BY <1>2, <2>1, <2>2
<1>10. ASSUME NEW a \in Addrs, FramehopRead(a) PROVE TraceInv'
  <2>1. Words' /\ Frames' /\ Where' /\ Inside'
    BY <1>1, <1>10 DEF FramehopRead, WalkGoto, traceVars
  <2> QED
    BY <1>2, <2>1
<1>11. ASSUME UNCHANGED <<unwinder, memory, start, walkVars>>,
              pc'[h] \in Calling => pc[h] \in Calling
       PROVE  TraceInv'
  <2>1. Words' /\ Frames' /\ Where' /\ Inside'
    BY <1>1, <1>11 DEF walkVars
  <2> QED
    BY <1>2, <2>1
<1>12. ASSUME NEW c \in Callers, CallStep(c) PROVE TraceInv'
  <2>2. pc[c] \in Calling
    BY <1>12 DEF CallStep, ValidateStep, LoadRead, LoadWrite, OpenLoadRead,
       OpenLoadWrite, Read, CloseEnd, CreatePipe, StoreRead, StoreWrite, Write,
       Hang, Calling, Opening
  <2>3. \E label : pc' = [pc EXCEPT ![c] = label]
    BY <1>12 DEF CallStep, ValidateStep, LoadRead, LoadWrite, OpenLoadRead,
       OpenLoadWrite, Load, Read, CloseEnd, CreatePipe, StoreRead, StoreWrite, Write,
       Hang, Goto
  <2>4. UNCHANGED <<unwinder, memory, start, walkVars>>
    BY <1>12 DEF CallStep, traceVars
  <2> QED
    BY <1>0, <1>11, <2>2, <2>3, <2>4
<1>13. ASSUME NEW c \in Callers, NEW a, AppValidate(c, a) \/ AppReturn(c)
       PROVE  TraceInv'
  <2>1. UNCHANGED <<unwinder, memory, start, walkVars>>
    BY <1>13 DEF AppValidate, AppReturn, traceVars
  <2>2. pc'[h] = pc[h]
    BY <1>0, <1>13 DEF AppValidate, AppReturn, Validate, Return, Goto
  <2> QED
    BY <1>11, <2>1, <2>2
<1>14. CASE AppStep /\ Observe
  <2>1. pc' = pc
    BY <1>14 DEF AppStep, AppOpen, AppClose, CloseFrom, Unmap, localVars
  <2> QED
    BY <1>11, <1>14, <2>1 DEF Observe
<1> QED
  BY <1>3, <1>4, <1>5, <1>6, <1>7, <1>8, <1>9, <1>10, <1>12, <1>13, <1>14
  DEF Step, WalkStep

(* The types hold at first ... *)
LEMMA TypeInvInit == Init => TypeInv
<1> SUFFICES ASSUME Init PROVE TypeInv
  OBVIOUS
<1> USE DEF Init, ValidateInit
<1>1. Free \in [kind : Kinds, pipe : 0..NumFds] /\ Free.pipe = 0 /\ Free.kind = "free"
  BY ValidateAssumption DEF Free, End, Kinds
<1>2. CallInv
  <2>1. /\ fds \in [Fds -> [kind : Kinds, pipe : 0..NumFds]]
        /\ \A n \in Fds : fds[n].pipe = 0 <=> fds[n].kind \in {"free", "app"}
    BY <1>1
  <2>2. /\ bytes \in [Pipes -> 0..Capacity] /\ appOps \in 0..MaxAppOps
        /\ mapped \subseteq Addrs /\ 0 \notin mapped
        /\ addr \in [Callers -> Addrs] /\ ok \in [Callers -> BOOLEAN]
        /\ noPipe \subseteq Callers /\ torn \subseteq Callers
    BY ValidateAssumption
  <2>3. /\ read_fd \in Fds \cup {-1} /\ write_fd \in Fds \cup {-1}
        /\ fd \in [Callers -> Fds \cup {-1}] /\ ends \in [Callers -> Ends]
        /\ pc \in [Callers -> Labels]
    BY DEF Unset, Ends, Labels
  <2> QED
    BY <2>1, <2>2, <2>3 DEF CallInv
<1>3. FlagInv
  BY DEF FlagInv
<1>4. TraceInv
  BY ValidateAssumption, UnwindAssumption DEF TraceInv, h, Calling, Opening
<1> QED
  BY <1>2, <1>3, <1>4 DEF TypeInv

(* ... and every step keeps them. *)
LEMMA TypeInvStep == TypeInv /\ [Next]_vars => TypeInv'
<1> SUFFICES ASSUME TypeInv, [Next]_vars PROVE TypeInv'
  OBVIOUS
<1>1. CASE UNCHANGED vars
  <2>1. UNCHANGED validateVars /\ UNCHANGED traceVars /\ UNCHANGED walkVars
    BY <1>1 DEF vars
  <2>2. CallInv'
    BY <2>1, CallInvStep DEF CallerStep, TypeInv
  <2>3. FlagInv'
    BY <2>1 DEF FlagInv, TypeInv, validateVars, historyVars, traceVars, walkVars
  <2>4. TraceInv'
    BY <2>1 DEF TraceInv, TypeInv, validateVars, localVars, traceVars, walkVars
  <2> QED
    BY <2>2, <2>3, <2>4 DEF TypeInv
<1>2. CASE Step
  BY <1>2, StepIs, CallInvStep, FlagInvStep, TraceInvStep DEF TypeInv
<1> QED
  BY <1>1, <1>2 DEF Next

(* Every variable keeps its type; in particular the handler never collects *)
(* more than MAX_DEPTH frames, so that its SmallVec is never reallocated,  *)
(* and no pipe holds more than its capacity.                               *)
THEOREM UnwindTypes == Spec => []TypeOK
<1>1. TypeInv => TypeOK
  <2> SUFFICES ASSUME TypeInv PROVE TypeOK
    OBVIOUS
  <2>1. \A c \in Callers : ends[c][1] \in Fds \cup {-1} /\ ends[c][2] \in Fds \cup {-1}
    BY DEF TypeInv, CallInv, Ends
  <2>2. \A i \in DOMAIN bt : bt[i] \in Addrs
    BY DEF TypeInv, TraceInv
  <2>3. FlagInv /\ CallInv /\ TraceInv
    BY DEF TypeInv
  <2>4. /\ overlapped \in BOOLEAN /\ closedAll \in BOOLEAN /\ touched \in BOOLEAN
        /\ moved \in BOOLEAN /\ faulted \in BOOLEAN
    BY <2>3 DEF FlagInv
  <2> QED
    BY <2>1, <2>2, <2>3, <2>4 DEF CallInv, TraceInv, TypeOK, Kinds, Labels
<1> QED
  BY <1>1, TypeInvInit, TypeInvStep, PTL DEF Spec

-----------------------------------------------------------------------------
(* The pipe: facts about one state *)

(* Whoever writes to the pipe is one of the callers. *)
LEMMA WritersAre ==
    ASSUME NEW W \in SUBSET Callers
    PROVE  /\ IsFiniteSet(W) /\ Cardinality(W) \in Nat
           /\ Cardinality(W) <= Cardinality(Callers) /\ Cardinality(Callers) \in Nat
  BY CapacityAssumption, FS_Subset, FS_CardinalityType

(* A pipe that is empty has room. *)
LEMMA EmptyHasRoom == (Empty => Room) /\ (Empty' => Room')
<1>1. Writers \in SUBSET Callers /\ Writers' \in SUBSET Callers
  BY DEF Writers
<1>2. /\ Cardinality(Writers) <= Cardinality(Callers) /\ Cardinality(Writers) \in Nat
      /\ Cardinality(Writers') <= Cardinality(Callers) /\ Cardinality(Writers') \in Nat
  BY <1>1, WritersAre
<1> QED
  BY <1>2 DEF Empty, Room

(* Without ends no pipe holds anything. *)
LEMMA NoEndsEmpty ==
    ASSUME CallInv, DiscardInv, NoEnds
    PROVE  Empty
<1>1. \A p \in Pipes : p # 0
  BY ValidateAssumption DEF Pipes
<1>2. \A n \in Fds : fds[n].pipe = 0
  BY DEF CallInv, NoEnds
<1> QED
  BY <1>1, <1>2 DEF DiscardInv, Empty

(* What a descriptor stands for. *)
LEMMA KindIs ==
    /\ KindOf(-1) = "free"
    /\ \A r, w : Made(r, w) =>
          KindOf(r) = "r" /\ KindOf(w) = "w" /\ IsOpen("r", fds[w].pipe)
          /\ IsOpen("w", fds[r].pipe) /\ ~NoEnds
    /\ NoEnds => \A n : KindOf(n) \in {"free", "app"}
<1>1. -1 \notin Fds
  BY ValidateAssumption DEF Fds
<1>2. ASSUME NEW r, NEW w, Made(r, w)
      PROVE  KindOf(r) = "r" /\ KindOf(w) = "w" /\ IsOpen("r", fds[w].pipe)
             /\ IsOpen("w", fds[r].pipe) /\ ~NoEnds
  <2>1. PICK p \in Pipes : /\ r \in Fds /\ w \in Fds
                           /\ fds[r] = End("r", p) /\ fds[w] = End("w", p)
    BY <1>2 DEF Made
  <2>2. fds[r].kind = "r" /\ fds[w].kind = "w" /\ fds[r].pipe = p /\ fds[w].pipe = p
    BY <2>1 DEF End
  <2> QED
    BY <2>1, <2>2 DEF KindOf, IsOpen, NoEnds
<1> QED
  BY <1>1, <1>2 DEF KindOf, NoEnds

(* Who is in validate and does not replace the pipe finds it settled. *)
LEMMA CallerSettled ==
    ASSUME PipeInv, ~overlapped, ~touched, NEW c \in Callers,
           pc[c] \in Calling \ Opening
    PROVE  /\ \A d \in Callers : pc[d] \notin Opening
           /\ NoEnds \/ Made(read_fd, write_fd)
  BY DEF PipeInv, Alone, Settled

(* A flag that is not set after a step was not set before. *)
LEMMA FlagsGrow ==
    ASSUME FlagInv, CallerStep
    PROVE  (overlapped => overlapped') /\ (touched => touched')
           /\ (closedAll => closedAll')
<1> USE DEF historyVars, Touch, FlagInv
<1>1. CASE UNCHANGED validateVars
  BY <1>1 DEF validateVars
<1>2. ASSUME NEW c, NEW a, Validate(c, a) \/ Return(c)
      PROVE  (overlapped => overlapped') /\ (touched => touched')
             /\ (closedAll => closedAll')
  <2>1. CASE Validate(c, a)
    BY <2>1 DEF Validate
  <2>2. CASE Return(c)
    BY <2>2 DEF Return
  <2> QED
    BY <1>2, <2>1, <2>2
<1>3. ASSUME NEW c, ValidateStep(c)
      PROVE  (overlapped => overlapped') /\ (touched => touched')
             /\ (closedAll => closedAll')
  <2>1. CASE LoadRead(c) \/ LoadWrite(c) \/ OpenLoadRead(c) \/ OpenLoadWrite(c)
             \/ StoreRead(c) \/ StoreWrite(c)
    BY <2>1 DEF LoadRead, LoadWrite, OpenLoadRead, OpenLoadWrite, Load, StoreRead,
                StoreWrite
  <2>2. CASE Read(c)
    BY <2>2 DEF Read
  <2>3. CASE CloseEnd(c)
    BY <2>3 DEF CloseEnd
  <2>4. CASE CreatePipe(c)
    BY <2>4 DEF CreatePipe
  <2>5. CASE Write(c)
    BY <2>5 DEF Write
  <2>6. CASE Hang(c)
    BY <2>6 DEF Hang
  <2> QED
    BY <1>3, <2>1, <2>2, <2>3, <2>4, <2>5, <2>6 DEF ValidateStep
<1>4. CASE AppStep
  BY <1>4 DEF AppStep, AppOpen, AppClose, CloseFrom, Unmap
<1> QED
  BY <1>1, <1>2, <1>3, <1>4 DEF CallerStep

-----------------------------------------------------------------------------
(* The pipe: the steps *)

FileInv == DiscardInv /\ PipeInv /\ RoomInv /\ OwnInv

(* A step of c that uses neither files nor atomics. *)
LEMMA LocalFile ==
    ASSUME TypeInv, CallInv', FileInv, NEW c \in Callers,
           UNCHANGED <<fds, bytes, read_fd, write_fd, ends, touched, closedAll>>,
           \A d \in Callers \ {c} : pc'[d] = pc[d] /\ fd'[d] = fd[d],
           overlapped => overlapped',
           pc'[c] \in Opening <=> pc[c] \in Opening,
           pc'[c] \in Writing <=> pc[c] \in Writing,
           pc'[c] \in Calling /\ ~overlapped' =>
              pc[c] \in Calling \/ \A d \in Callers \ {c} : pc[d] \notin Opening,
           Knows(c) => Knows(c)'
    PROVE  FileInv'
<1>1. /\ NoEnds' <=> NoEnds
      /\ Made(read_fd, write_fd)' <=> Made(read_fd, write_fd)
      /\ Empty' <=> Empty
      /\ \A d \in Callers : Made(ends[d][1], ends[d][2])' <=> Made(ends[d][1], ends[d][2])
  BY DEF NoEnds, Made, Empty
<1>2. DiscardInv'
  BY DEF FileInv, DiscardInv
<1>3. OwnInv'
  BY <1>1 DEF FileInv, OwnInv
<1>4. Writers' = Writers
  BY DEF Writers
<1>5. PipeInv'
  <2> SUFFICES ASSUME ~overlapped', ~touched'
               PROVE  Alone' /\ Settled' /\ \A d \in Callers : Knows(d)'
    BY DEF PipeInv
  <2>1. Alone /\ Settled /\ \A d \in Callers : Knows(d)
    BY DEF FileInv, PipeInv
  <2>2. Alone'
    BY <2>1 DEF Alone
  <2>3. Settled'
    BY <1>1, <2>1 DEF Settled
  <2>4. ASSUME NEW d \in Callers \ {c} PROVE Knows(d)'
    BY <1>1, <2>1 DEF Knows
  <2> QED
    BY <2>1, <2>2, <2>3, <2>4
<1>6. RoomInv'
  BY <1>1, <1>4 DEF FileInv, RoomInv, Room
<1> QED
  BY <1>2, <1>3, <1>5, <1>6 DEF FileInv

(* A call, its return, and the loads of the atomics. *)
LEMMA CallFile ==
    ASSUME TypeInv, CallInv', FileInv, NEW c \in Callers, CallerStep,
           \/ \E a \in Addrs : pc[c] \notin Calling /\ Validate(c, a)
           \/ pc[c] \notin Calling /\ Return(c)
           \/ LoadRead(c) \/ LoadWrite(c) \/ OpenLoadRead(c) \/ OpenLoadWrite(c)
    PROVE  FileInv'
<1> USE DEF TypeInv, CallInv
<1>1. (overlapped => overlapped') /\ (touched => touched')
  BY FlagsGrow
<1>2. CASE \E a \in Addrs : pc[c] \notin Calling /\ Validate(c, a)
  <2>1. /\ UNCHANGED <<fds, bytes, read_fd, write_fd, ends, touched, closedAll>>
        /\ \A d \in Callers \ {c} : pc'[d] = pc[d] /\ fd'[d] = fd[d]
        /\ pc'[c] \in {"ret", "load_read"}
    BY <1>2 DEF Validate, Goto, kernelVars, pipeVars
  <2>2. pc'[c] \in Calling /\ ~overlapped' => \A d \in Callers \ {c} : pc[d] \notin Opening
    BY <1>2, ZenonT(40) DEF Validate, Goto, Others, Calling, Opening
  <2>3. pc[c] \notin Opening /\ pc[c] \notin Writing
    BY <1>2 DEF Calling, Writing
  <2>4. pc'[c] \notin Opening /\ pc'[c] \notin Writing
    BY <2>1 DEF Opening, Writing
  <2>5. Knows(c)'
    BY <2>1, <2>4 DEF Knows, Writing
  <2> QED
    BY <1>1, <2>1, <2>2, <2>3, <2>4, <2>5, LocalFile
<1>3. CASE pc[c] \notin Calling /\ Return(c)
  <2>1. /\ UNCHANGED <<fds, bytes, read_fd, write_fd, ends, touched, closedAll>>
        /\ \A d \in Callers \ {c} : pc'[d] = pc[d] /\ fd'[d] = fd[d]
        /\ pc'[c] = "idle"
    BY <1>3 DEF Return, Goto, kernelVars, pipeVars
  <2>2. pc[c] \notin Opening /\ pc[c] \notin Writing
    BY <1>3 DEF Calling, Writing
  <2>3. pc'[c] \notin Opening /\ pc'[c] \notin Writing /\ pc'[c] \notin Calling
    BY <2>1 DEF Opening, Writing, Calling
  <2>4. Knows(c)'
    BY <2>1, <2>3 DEF Knows
  <2> QED
    BY <1>1, <2>1, <2>2, <2>3, <2>4, LocalFile
<1>4. CASE LoadRead(c) \/ LoadWrite(c) \/ OpenLoadRead(c) \/ OpenLoadWrite(c)
  <2>1. /\ UNCHANGED <<fds, bytes, read_fd, write_fd, ends, touched, closedAll>>
        /\ \A d \in Callers \ {c} : pc'[d] = pc[d] /\ fd'[d] = fd[d]
    BY <1>4 DEF LoadRead, LoadWrite, OpenLoadRead, OpenLoadWrite, Load, Goto,
                kernelVars, pipeVars, historyVars
  <2>2. \/ pc[c] = "load_read" /\ pc'[c] = "read" /\ fd'[c] = read_fd
        \/ pc[c] = "load_write" /\ pc'[c] = "write" /\ fd'[c] = write_fd
        \/ pc[c] = "open_load_read" /\ pc'[c] = "close_read" /\ fd'[c] = read_fd
        \/ pc[c] = "open_load_write" /\ pc'[c] = "close_write" /\ fd'[c] = write_fd
    BY <1>4 DEF LoadRead, LoadWrite, OpenLoadRead, OpenLoadWrite, Load, Goto
  <2>3. /\ pc'[c] \in Opening <=> pc[c] \in Opening
        /\ pc'[c] \in Writing <=> pc[c] \in Writing
        /\ pc[c] \in Calling
    BY <2>2 DEF Opening, Writing, Calling
  <2>4. NoEnds' <=> NoEnds
    BY <2>1 DEF NoEnds
  <2>5. Made(read_fd, write_fd)' <=> Made(read_fd, write_fd)
    BY <2>1 DEF Made
  <2>6. Knows(c) => Knows(c)'
    BY <2>1, <2>2, <2>4, <2>5 DEF Knows, Opening, Writing
  <2> QED
    BY <1>1, <2>1, <2>3, <2>6, LocalFile
<1> QED
  BY <1>2, <1>3, <1>4

(* read(2): the pipe is there and is drained, or it is not and has to be   *)
(* created, by this caller alone.                                          *)
LEMMA ReadFile ==
    ASSUME TypeInv, CallInv', FileInv, NEW c \in Callers, CallerStep, Read(c)
    PROVE  FileInv'
<1>0. CallInv
  BY DEF TypeInv
<1>1. /\ UNCHANGED <<fds, read_fd, write_fd, ends, closedAll>>
      /\ \A d \in Callers \ {c} : pc'[d] = pc[d] /\ fd'[d] = fd[d]
      /\ pc[c] = "read" /\ pc'[c] \in {"load_write", "open_load_read"}
  BY <1>0 DEF Read, Goto, Forget, pipeVars, CallInv
<1>2. (overlapped => overlapped') /\ (touched => touched')
  BY FlagsGrow DEF TypeInv
<1>3. touched' = (touched \/ KindOf(fd[c]) = "app")
  BY DEF Read, Touch
<1>4. PICK valid \in ReadValid(fd[c]) :
         /\ pc' = [pc EXCEPT ![c] = IF valid THEN "load_write" ELSE "open_load_read"]
         /\ overlapped' = (overlapped \/ (~valid /\ Others(c, Calling)))
  BY DEF Read, Goto
<1>5. /\ pc'[c] = IF valid THEN "load_write" ELSE "open_load_read"
      /\ ~valid /\ ~overlapped' => \A d \in Callers \ {c} : pc[d] \notin Calling
  <2>1. pc'[c] = IF valid THEN "load_write" ELSE "open_load_read"
    BY <1>0, <1>4 DEF CallInv
  <2>2. ~valid /\ ~overlapped' => ~Others(c, Calling)
    BY <1>4
  <2> QED
    BY <2>1, <2>2 DEF Others
<1>6. /\ \A p \in Pipes : bytes[p] \in Nat /\ bytes'[p] \in Nat /\ bytes'[p] <= bytes[p]
      /\ \A p \in Pipes :
            fd[c] \in Fds /\ fds[fd[c]] = End("r", p) /\ bytes[p] > 0 =>
               bytes'[p] = bytes[p] - 1
  <2>1. bytes' = Drained(fd[c])
    BY DEF Read
  <2>2. Capacity \in Nat
    BY ValidateAssumption
  <2> QED
    BY <1>0, <2>1, <2>2, DrainedIs DEF CallInv
<1>7. /\ NoEnds' <=> NoEnds
      /\ Made(read_fd, write_fd)' <=> Made(read_fd, write_fd)
      /\ \A d \in Callers : Made(ends[d][1], ends[d][2])' <=> Made(ends[d][1], ends[d][2])
  BY <1>1 DEF NoEnds, Made
<1>8. DiscardInv'
  BY <1>1, <1>6 DEF FileInv, DiscardInv
<1>9. ASSUME ~overlapped, ~touched
      PROVE  /\ fd[c] = read_fd
             /\ \A d \in Callers : pc[d] \notin Opening
             /\ \/ Made(read_fd, write_fd) /\ valid /\ KindOf(read_fd) = "r"
                \/ NoEnds /\ (KindOf(read_fd) # "app" => ~valid)
  <2>1. pc[c] \in Calling \ Opening
    BY <1>1 DEF Calling, Opening
  <2>2. fd[c] = read_fd
    BY <1>1, <1>9 DEF FileInv, PipeInv, Knows
  <2>3. /\ \A d \in Callers : pc[d] \notin Opening
        /\ NoEnds \/ Made(read_fd, write_fd)
    BY <1>9, <2>1, CallerSettled DEF FileInv
  <2>4. CASE Made(read_fd, write_fd)
    <3>1. KindOf(read_fd) = "r" /\ IsOpen("w", fds[read_fd].pipe)
      BY <2>4, KindIs
    <3>2. ReadValid(read_fd) = {TRUE}
      BY <3>1 DEF ReadValid
    <3> QED
      BY <1>4, <2>2, <2>3, <2>4, <3>1, <3>2
  <2>5. CASE NoEnds
    <3>1. KindOf(read_fd) \in {"free", "app"}
      BY <2>5, KindIs
    <3>2. KindOf(read_fd) # "app" => ReadValid(read_fd) = {FALSE}
      BY <3>1 DEF ReadValid
    <3> QED
      BY <1>4, <2>2, <2>3, <2>5, <3>2
  <2> QED
    BY <2>3, <2>4, <2>5
<1>10. OwnInv'
  <2> SUFFICES ASSUME ~overlapped', ~closedAll'
               PROVE  ~touched' /\ (NoEnds => read_fd = -1 /\ write_fd = -1)
    BY <1>1, <1>7 DEF OwnInv
  <2>1. ~touched /\ ~overlapped /\ (NoEnds => read_fd = -1 /\ write_fd = -1)
    BY <1>1, <1>2 DEF FileInv, OwnInv
  <2>2. KindOf(fd[c]) # "app"
    BY <1>9, <2>1, KindIs
  <2> QED
    BY <1>3, <2>1, <2>2
<1>11. PipeInv' /\ RoomInv'
  <2> SUFFICES ASSUME ~overlapped', ~touched'
               PROVE  /\ Alone' /\ Settled' /\ \A d \in Callers : Knows(d)'
                      /\ Room' /\ ((\E d \in Callers : pc'[d] \in Opening) => Empty')
    BY DEF PipeInv, RoomInv
  <2>1. ~overlapped /\ ~touched /\ KindOf(fd[c]) # "app"
    BY <1>2, <1>3
  <2>2. Alone /\ Settled /\ (\A d \in Callers : Knows(d)) /\ Room
    BY <2>1 DEF FileInv, PipeInv, RoomInv
  <2>3. /\ fd[c] = read_fd /\ \A d \in Callers : pc[d] \notin Opening
    BY <1>9, <2>1
  <2>4. \A d \in Callers \ {c} : Knows(d)'
    BY <1>1, <1>7, <2>2 DEF Knows
  <2>5. CASE Made(read_fd, write_fd) /\ valid
    <3>1. pc'[c] = "load_write" /\ pc'[c] \notin Opening
      BY <1>5, <2>5 DEF Opening
    <3>2. \A d \in Callers : pc'[d] \notin Opening
      BY <1>1, <2>3, <3>1
    <3>3. Alone' /\ Settled'
      BY <1>7, <2>5, <3>2 DEF Alone, Settled
    <3>4. Knows(c)'
      BY <1>7, <2>5, <3>1 DEF Knows
    <3>5. Room'
      <4> SUFFICES ASSUME NEW p \in Pipes, write_fd \in Fds, fds[write_fd] = End("w", p)
                   PROVE  bytes'[p] + Cardinality(Writers') <= Cardinality(Callers)
        BY <1>1 DEF Room
      <4>1. bytes[p] + Cardinality(Writers) <= Cardinality(Callers)
        BY <2>2 DEF Room
      <4>2. fd[c] \in Fds /\ fds[fd[c]] = End("r", p)
        BY <2>3, <2>5 DEF Made, End
      <4>3. Writers' = Writers \cup {c} /\ c \notin Writers
        BY <1>1, <3>1 DEF Writers, Writing
      <4>4. Writers \in SUBSET Callers /\ Writers' \in SUBSET Callers
        BY DEF Writers
      <4>5. /\ IsFiniteSet(Writers) /\ Cardinality(Writers) \in Nat
            /\ Cardinality(Writers') <= Cardinality(Callers)
            /\ Cardinality(Callers) \in Nat
        BY <4>4, WritersAre
      <4>6. Cardinality(Writers') = Cardinality(Writers) + 1
        BY <4>3, <4>5, FS_AddElement
      <4> QED
        BY <1>6, <4>1, <4>2, <4>5, <4>6
    <3> QED
      BY <2>4, <3>2, <3>3, <3>4, <3>5
  <2>6. CASE NoEnds /\ ~valid
    <3>1. /\ pc'[c] = "open_load_read"
          /\ \A d \in Callers \ {c} : pc[d] \notin Calling
      BY <1>5, <2>6
    <3>2. Alone'
      BY <1>1, <3>1 DEF Alone, Calling
    <3>3. Settled' /\ Knows(c)'
      BY <1>7, <2>6, <3>1 DEF Settled, Knows, Writing
    <3>4. Empty'
      <4>1. Empty
        BY <1>0, <2>6, NoEndsEmpty DEF FileInv
      <4> QED
        BY <1>6, <4>1 DEF Empty
    <3>5. Room'
      BY <3>4, EmptyHasRoom
    <3> QED
      BY <2>4, <3>2, <3>3, <3>4, <3>5
  <2> QED
    BY <1>9, <2>1, <2>3, <2>5, <2>6
<1> QED
  BY <1>8, <1>10, <1>11 DEF FileInv

(* A read or a write that does not return is one of an application's file. *)
LEMMA HangFile ==
    ASSUME TypeInv, FileInv, NEW c \in Callers, Hang(c)
    PROVE  FileInv'
<1>1. /\ UNCHANGED <<fds, bytes, read_fd, write_fd, overlapped, closedAll>>
      /\ pc[c] \in {"read", "write"} /\ KindOf(fd[c]) = "app" /\ touched'
  BY DEF Hang, Touch, kernelVars, pipeVars
<1>2. DiscardInv' /\ PipeInv' /\ RoomInv'
  BY <1>1 DEF FileInv, DiscardInv, PipeInv, RoomInv
<1>3. overlapped \/ closedAll
  <2> SUFFICES ASSUME ~overlapped, ~closedAll PROVE FALSE
    OBVIOUS
  <2>1. ~touched /\ (NoEnds => read_fd = -1 /\ write_fd = -1)
    BY DEF FileInv, OwnInv
  <2>2. pc[c] \in Calling \ Opening
    BY <1>1 DEF Calling, Opening
  <2>3. NoEnds \/ Made(read_fd, write_fd)
    BY <2>1, <2>2, CallerSettled DEF FileInv
  <2>4. fd[c] \in {read_fd, write_fd}
    BY <1>1, <2>1 DEF FileInv, PipeInv, Knows
  <2> QED
    BY <1>1, <2>1, <2>3, <2>4, KindIs
<1> QED
  BY <1>1, <1>2, <1>3 DEF FileInv, OwnInv

(* close(2) in open_pipe closes nothing that is in use. *)
LEMMA CloseFile ==
    ASSUME TypeInv, CallInv', FileInv, NEW c \in Callers, CallerStep, CloseEnd(c)
    PROVE  FileInv'
<1>0. CallInv
  BY DEF TypeInv
<1>1. /\ UNCHANGED <<read_fd, write_fd, ends, closedAll, overlapped>>
      /\ \A d \in Callers \ {c} : pc'[d] = pc[d] /\ fd'[d] = fd[d]
      /\ pc[c] \in {"close_read", "close_write"}
      /\ pc'[c] \in {"open_load_write", "create"}
      /\ fd[c] \in Fds \cup {-1}
  BY <1>0 DEF CloseEnd, Goto, Forget, pipeVars, CallInv
<1>2. touched => touched'
  BY FlagsGrow DEF TypeInv
<1>3. touched' = (touched \/ KindOf(fd[c]) = "app")
  BY DEF CloseEnd, Touch
<1>4. /\ fds' = Close(fd[c]) /\ Discard
  BY DEF CloseEnd
<1>5. /\ \A m \in Fds : m # fd[c] => fds'[m] = fds[m]
      /\ fd[c] \in Fds => fds'[fd[c]] = Free
  BY <1>0, <1>1, <1>4, CloseIs
<1>6. /\ \A p \in Pipes : bytes'[p] = bytes[p] \/ bytes'[p] = 0
      /\ \A p \in Pipes : (\A n \in Fds : fds'[n].pipe # p) => bytes'[p] = 0
  BY <1>0, <1>4, DiscardIs
<1>7. DiscardInv'
  BY <1>6 DEF DiscardInv
<1>8. /\ pc[c] \in Opening \ {"store_read", "store_write"}
      /\ pc'[c] \in Opening \ {"store_read", "store_write"}
      /\ pc[c] \notin Writing /\ pc'[c] \notin Writing
  BY <1>1 DEF Opening, Writing
<1>9. NoEnds => NoEnds'
  BY <1>5 DEF NoEnds, Free, End
<1>10. ASSUME ~overlapped, ~touched
       PROVE  /\ NoEnds /\ \A d \in Callers \ {c} : pc[d] \notin Calling
              /\ fd[c] \in {read_fd, write_fd} /\ Empty
  <2>1. Alone /\ Knows(c)
    BY <1>10 DEF FileInv, PipeInv
  <2>2. NoEnds /\ fd[c] \in {read_fd, write_fd}
    BY <1>1, <1>8, <2>1 DEF Knows
  <2>3. \A d \in Callers \ {c} : pc[d] \notin Calling
    BY <1>8, <2>1 DEF Alone
  <2>4. Empty
    BY <1>8, <1>10 DEF FileInv, RoomInv
  <2> QED
    BY <2>2, <2>3, <2>4
<1>11. OwnInv'
  <2> SUFFICES ASSUME ~overlapped, ~closedAll
               PROVE  ~touched' /\ read_fd = -1 /\ write_fd = -1
    BY <1>1 DEF OwnInv
  <2>1. ~touched /\ (NoEnds => read_fd = -1 /\ write_fd = -1)
    BY DEF FileInv, OwnInv
  <2>2. read_fd = -1 /\ write_fd = -1 /\ fd[c] = -1
    BY <1>10, <2>1
  <2>3. KindOf(fd[c]) # "app"
    BY <2>2, KindIs
  <2> QED
    BY <1>3, <2>1, <2>2, <2>3
<1>12. PipeInv' /\ RoomInv'
  <2> SUFFICES ASSUME ~overlapped, ~touched'
               PROVE  /\ Alone' /\ Settled' /\ \A d \in Callers : Knows(d)'
                      /\ Room' /\ Empty'
    BY <1>1 DEF PipeInv, RoomInv
  <2>1. /\ NoEnds' /\ \A d \in Callers \ {c} : pc[d] \notin Calling
        /\ Empty
    BY <1>2, <1>9, <1>10
  <2>2. Alone' /\ Settled'
    BY <1>1, <2>1 DEF Alone, Settled, Calling
  <2>3. \A d \in Callers \ {c} : Knows(d)'
    BY <1>1, <2>1 DEF Knows, Calling, Opening, Writing
  <2>4. Knows(c)'
    BY <1>1, <1>8, <2>1 DEF Knows
  <2>5. Empty'
    BY <1>6, <2>1 DEF Empty
  <2> QED
    BY <2>2, <2>3, <2>4, <2>5, EmptyHasRoom
<1> QED
  BY <1>7, <1>11, <1>12 DEF FileInv

(* pipe2 fails and nothing has changed, or there is a pipe. *)
LEMMA CreateFile ==
    ASSUME TypeInv, CallInv', FileInv, NEW c \in Callers, CreatePipe(c)
    PROVE  FileInv'
<1>0. CallInv
  BY DEF TypeInv
<1>1. /\ UNCHANGED <<bytes, read_fd, write_fd, fd, closedAll, overlapped, touched>>
      /\ pc[c] = "create"
  BY DEF CreatePipe, pipeVars
<1>2. pc[c] \in Opening \ {"store_read", "store_write"} /\ pc[c] \notin Writing
  BY <1>1 DEF Opening, Writing
<1>3. ASSUME ~overlapped, ~touched
      PROVE  NoEnds /\ (\A d \in Callers \ {c} : pc[d] \notin Calling) /\ Empty
  <2>1. Alone /\ Knows(c)
    BY <1>3 DEF FileInv, PipeInv
  <2> QED
    BY <1>2, <1>3, <2>1 DEF Knows, Alone, FileInv, RoomInv
<1>4. CASE pc' = [pc EXCEPT ![c] = "ret"] /\ fds' = fds /\ ends' = ends
  <2>1. pc'[c] = "ret" /\ \A d \in Callers \ {c} : pc'[d] = pc[d]
    BY <1>0, <1>4 DEF CallInv
  <2>2. DiscardInv'
    BY <1>1, <1>4 DEF FileInv, DiscardInv
  <2>3. (NoEnds' <=> NoEnds) /\ (Empty' <=> Empty)
    BY <1>1, <1>4 DEF NoEnds, Empty
  <2>4. OwnInv'
    BY <1>1, <2>3 DEF FileInv, OwnInv
  <2>5. PipeInv' /\ RoomInv'
    <3> SUFFICES ASSUME ~overlapped, ~touched
                 PROVE  /\ Alone' /\ Settled' /\ \A d \in Callers : Knows(d)'
                        /\ Room' /\ Empty'
      BY <1>1 DEF PipeInv, RoomInv
    <3>1. NoEnds' /\ Empty' /\ \A d \in Callers : pc'[d] \notin Calling
      BY <1>3, <2>1, <2>3 DEF Calling, Opening
    <3>2. \A d \in Callers : pc'[d] \notin Opening
      BY <3>1 DEF Calling
    <3>3. Alone' /\ Settled'
      BY <3>1, <3>2 DEF Alone, Settled
    <3>4. \A d \in Callers : Knows(d)'
      BY <3>1 DEF Knows, Calling, Opening, Writing
    <3> QED
      BY <3>1, <3>3, <3>4, EmptyHasRoom
  <2> QED
    BY <2>2, <2>4, <2>5 DEF FileInv
<1>5. ASSUME NEW r \in Fds, NEW w \in Fds, NEW p \in Pipes, r # w,
             fds[r] = Free, fds[w] = Free,
             pc' = [pc EXCEPT ![c] = "store_read"],
             \A n \in Fds : fds[n].pipe # p,
             fds' = [fds EXCEPT ![r] = End("r", p), ![w] = End("w", p)],
             ends' = [ends EXCEPT ![c] = <<r, w>>]
      PROVE  FileInv'
  <2>1. /\ pc'[c] = "store_read" /\ \A d \in Callers \ {c} : pc'[d] = pc[d]
        /\ ends'[c] = <<r, w>>
    BY <1>0, <1>5 DEF CallInv
  <2>2. /\ fds'[r] = End("r", p) /\ fds'[w] = End("w", p)
        /\ \A n \in Fds \ {r, w} : fds'[n] = fds[n]
    BY <1>0, <1>5, MakeIs
  <2>3. ends'[c][1] = r /\ ends'[c][2] = w
    BY <2>1
  <2>4. Made(ends[c][1], ends[c][2])'
    BY <2>2, <2>3 DEF Made
  <2>5. ~NoEnds'
    BY <2>2 DEF NoEnds, End
  <2>6. DiscardInv'
    <3> SUFFICES ASSUME NEW q \in Pipes, \A n \in Fds : fds'[n].pipe # q
                 PROVE  bytes[q] = 0
      BY <1>1 DEF DiscardInv
    <3>1. \A n \in Fds \ {r, w} : fds[n].pipe # q
      BY <2>2
    <3>2. fds[r].pipe = 0 /\ fds[w].pipe = 0 /\ q # 0
      BY <1>5, ValidateAssumption DEF Free, End, Pipes
    <3>3. \A n \in Fds : fds[n].pipe # q
      BY <3>1, <3>2
    <3> QED
      BY <3>3 DEF FileInv, DiscardInv
  <2>7. OwnInv'
    BY <1>1, <2>5 DEF FileInv, OwnInv
  <2>8. PipeInv' /\ RoomInv'
    <3> SUFFICES ASSUME ~overlapped, ~touched
                 PROVE  /\ Alone' /\ Settled' /\ \A d \in Callers : Knows(d)'
                        /\ Room' /\ Empty'
      BY <1>1 DEF PipeInv, RoomInv
    <3>1. Empty' /\ \A d \in Callers \ {c} : pc'[d] \notin Calling
      BY <1>1, <1>3, <2>1 DEF Empty
    <3>2. pc'[c] \in Opening /\ \A d \in Callers \ {c} : pc'[d] \notin Opening
      BY <2>1, <3>1 DEF Opening, Calling
    <3>3. Alone' /\ Settled'
      BY <3>1, <3>2 DEF Alone, Settled
    <3>4. Knows(c)'
      BY <2>1, <2>4 DEF Knows, Writing
    <3>5. \A d \in Callers \ {c} : Knows(d)'
      BY <3>1 DEF Knows, Calling, Opening, Writing
    <3> QED
      BY <3>1, <3>3, <3>4, <3>5, EmptyHasRoom
  <2> QED
    BY <2>6, <2>7, <2>8 DEF FileInv
<1> QED
  BY <1>0, <1>4, <1>5, CreateIs

(* The atomics are set while nobody else is in validate. *)
LEMMA StoreFile ==
    ASSUME TypeInv, CallInv', FileInv, NEW c \in Callers,
           StoreRead(c) \/ StoreWrite(c)
    PROVE  FileInv'
<1>0. CallInv
  BY DEF TypeInv
<1>1. /\ UNCHANGED <<fds, bytes, fd, closedAll, overlapped, touched>>
      /\ \A d \in Callers \ {c} : pc'[d] = pc[d]
      /\ \/ /\ pc[c] = "store_read" /\ pc'[c] = "store_write" /\ ends' = ends
            /\ read_fd' = ends[c][1] /\ write_fd' = write_fd
         \/ /\ pc[c] = "store_write" /\ pc'[c] = "load_write"
            /\ write_fd' = ends[c][2] /\ read_fd' = read_fd
  BY <1>0 DEF StoreRead, StoreWrite, Goto, kernelVars, historyVars, CallInv
<1>2. pc[c] \in Opening
  BY <1>1 DEF Opening
<1>3. (NoEnds' <=> NoEnds) /\ (Empty' <=> Empty)
  BY <1>1 DEF NoEnds, Empty
<1>4. ASSUME ~overlapped, ~touched
      PROVE  /\ Made(ends[c][1], ends[c][2]) /\ Empty
             /\ pc[c] = "store_write" => read_fd = ends[c][1]
             /\ \A d \in Callers \ {c} : pc[d] \notin Calling
  <2>1. Alone /\ Knows(c) /\ Empty
    BY <1>2, <1>4 DEF FileInv, PipeInv, RoomInv
  <2> QED
    BY <1>1, <1>2, <2>1 DEF Knows, Alone
<1>5. DiscardInv'
  BY <1>1 DEF FileInv, DiscardInv
<1>6. OwnInv'
  BY <1>1, <1>3, <1>4, KindIs DEF FileInv, OwnInv
<1>7. PipeInv' /\ RoomInv'
  <2> SUFFICES ASSUME ~overlapped, ~touched
               PROVE  /\ Alone' /\ Settled' /\ \A d \in Callers : Knows(d)'
                      /\ Room' /\ Empty'
    BY <1>1 DEF PipeInv, RoomInv
  <2>1. Empty' /\ \A d \in Callers \ {c} : pc'[d] \notin Calling
    BY <1>1, <1>3, <1>4
  <2>2. \A d \in Callers \ {c} : pc'[d] \notin Opening
    BY <2>1 DEF Calling
  <2>3. Alone'
    BY <2>1, <2>2 DEF Alone
  <2>4. pc'[c] = "load_write" => Made(read_fd, write_fd)'
    BY <1>1, <1>4 DEF Made
  <2>5. pc'[c] = "store_write" => Made(ends[c][1], ends[c][2])' /\ read_fd' = ends'[c][1]
    BY <1>1, <1>4 DEF Made
  <2>6. Settled'
    BY <1>1, <2>4 DEF Settled, Opening
  <2>7. Knows(c)'
    BY <1>1, <2>4, <2>5 DEF Knows, Opening, Writing
  <2>8. \A d \in Callers \ {c} : Knows(d)'
    BY <2>1 DEF Knows, Calling, Opening, Writing
  <2> QED
    BY <2>1, <2>3, <2>6, <2>7, <2>8, EmptyHasRoom
<1> QED
  BY <1>5, <1>6, <1>7 DEF FileInv

(* write(2): the byte that it adds had been drained before. *)
LEMMA WriteFile ==
    ASSUME TypeInv, CallInv', FileInv, NEW c \in Callers, CallerStep, Write(c)
    PROVE  FileInv'
<1>0. CallInv
  BY DEF TypeInv
<1>1. /\ UNCHANGED <<fds, read_fd, write_fd, ends, closedAll, overlapped>>
      /\ \A d \in Callers \ {c} : pc'[d] = pc[d] /\ fd'[d] = fd[d]
      /\ pc[c] = "write" /\ pc'[c] = "ret"
  BY <1>0 DEF Write, Goto, Forget, pipeVars, CallInv
<1>2. touched => touched'
  BY FlagsGrow DEF TypeInv
<1>3. touched' = (touched \/ KindOf(fd[c]) = "app")
  BY DEF Write, Touch
<1>4. bytes' = IF Copies(fd[c], addr[c])
               THEN [bytes EXCEPT ![fds[fd[c]].pipe] = @ + 1] ELSE bytes
  BY DEF Write
<1>5. /\ \A p \in Pipes : bytes'[p] <= bytes[p] + 1
      /\ \A p \in Pipes : (\A m \in Fds : fds[m].pipe # p) => bytes'[p] = bytes[p]
  BY <1>0, <1>4, FilledIs
<1>6. /\ NoEnds' <=> NoEnds
      /\ Made(read_fd, write_fd)' <=> Made(read_fd, write_fd)
      /\ \A d \in Callers : Made(ends[d][1], ends[d][2])' <=> Made(ends[d][1], ends[d][2])
  BY <1>1 DEF NoEnds, Made
<1>7. DiscardInv'
  BY <1>1, <1>5 DEF FileInv, DiscardInv
<1>8. ASSUME ~overlapped, ~touched
      PROVE  /\ Made(read_fd, write_fd) /\ fd[c] = write_fd /\ KindOf(fd[c]) = "w"
             /\ \A d \in Callers : pc[d] \notin Opening
  <2>1. pc[c] \in Calling \ Opening /\ pc[c] \in Writing
    BY <1>1 DEF Calling, Opening, Writing
  <2>2. \A d \in Callers : pc[d] \notin Opening
    BY <1>8, <2>1, CallerSettled DEF FileInv
  <2>3. Made(read_fd, write_fd) /\ fd[c] = write_fd
    BY <1>1, <1>8, <2>1 DEF FileInv, PipeInv, Knows
  <2> QED
    BY <2>2, <2>3, KindIs
<1>9. OwnInv'
  <2> SUFFICES ASSUME ~overlapped, ~closedAll
               PROVE  ~touched' /\ (NoEnds => read_fd = -1 /\ write_fd = -1)
    BY <1>1, <1>6 DEF OwnInv
  <2>1. ~touched /\ (NoEnds => read_fd = -1 /\ write_fd = -1)
    BY DEF FileInv, OwnInv
  <2> QED
    BY <1>3, <1>8, <2>1
<1>10. PipeInv' /\ RoomInv'
  <2> SUFFICES ASSUME ~overlapped, ~touched'
               PROVE  /\ Alone' /\ Settled' /\ \A d \in Callers : Knows(d)'
                      /\ Room' /\ \A d \in Callers : pc'[d] \notin Opening
    BY <1>1 DEF PipeInv, RoomInv
  <2>1. (\A d \in Callers : Knows(d)) /\ Room /\ ~touched
    BY <1>2 DEF FileInv, PipeInv, RoomInv
  <2>2. Made(read_fd, write_fd) /\ \A d \in Callers : pc[d] \notin Opening
    BY <1>8, <2>1
  <2>3. \A d \in Callers : pc'[d] \notin Opening
    BY <1>1, <2>2 DEF Opening
  <2>4. Alone' /\ Settled'
    BY <1>6, <2>2, <2>3 DEF Alone, Settled
  <2>5. \A d \in Callers \ {c} : Knows(d)'
    BY <1>1, <1>6, <2>1 DEF Knows
  <2>6. Knows(c)'
    BY <1>1 DEF Knows, Opening, Writing
  <2>7. Room'
    <3> SUFFICES ASSUME NEW p \in Pipes, write_fd \in Fds, fds[write_fd] = End("w", p)
                 PROVE  bytes'[p] + Cardinality(Writers') <= Cardinality(Callers)
      BY <1>1 DEF Room
    <3>1. bytes[p] + Cardinality(Writers) <= Cardinality(Callers)
      BY <2>1 DEF Room
    <3>2. Writers' = Writers \ {c} /\ c \in Writers
      BY <1>1 DEF Writers, Writing
    <3>3. Writers \in SUBSET Callers
      BY DEF Writers
    <3>4. /\ IsFiniteSet(Writers) /\ Cardinality(Writers) \in Nat
          /\ Cardinality(Callers) \in Nat
      BY <3>3, WritersAre
    <3>5. Cardinality(Writers') = Cardinality(Writers) - 1
      BY <3>2, <3>4, FS_RemoveElement
    <3>6. bytes[p] \in Nat /\ bytes'[p] \in Nat
      <4>1. Capacity \in Nat
        BY ValidateAssumption
      <4> QED
        BY <1>0, <4>1 DEF CallInv
    <3> QED
      BY <1>5, <3>1, <3>4, <3>5, <3>6
  <2> QED
    BY <2>3, <2>4, <2>5, <2>6, <2>7
<1> QED
  BY <1>7, <1>9, <1>10 DEF FileInv

(* The application opens and closes files of its own, all files, or        *)
(* unmaps memory.                                                          *)
LEMMA AppFile ==
    ASSUME TypeInv, CallInv', FileInv, CallerStep, AppStep
    PROVE  FileInv'
<1>0. CallInv
  BY DEF TypeInv
<1>1. CASE AppOpen \/ \E n \in Fds : AppClose(n)
  <2>1. UNCHANGED <<bytes, read_fd, write_fd, pc, fd, ends, closedAll, overlapped,
                    touched>>
    BY <1>1 DEF AppOpen, AppClose, pipeVars, localVars, historyVars
  <2>2. /\ \A m \in Fds : fds'[m].pipe = fds[m].pipe
        /\ \A m \in Fds : fds[m].pipe # 0 => fds'[m] = fds[m]
        /\ \A m \in Fds : fds'[m].pipe = 0 <=> fds'[m].kind \in {"free", "app"}
        /\ \A m \in Fds : fds[m].pipe = 0 <=> fds[m].kind \in {"free", "app"}
    <3>0. \A m \in Fds : fds[m].pipe = 0 <=> fds[m].kind \in {"free", "app"}
      BY <1>0 DEF CallInv
    <3>1. CASE AppOpen
      <4>1. FreeFds \in SUBSET Nat /\ FreeFds # {}
        BY <3>1, ValidateAssumption DEF AppOpen, FreeFds, Fds
      <4>2. Min(FreeFds) \in FreeFds
        BY <4>1, MinIs
      <4> QED
        BY <1>0, <3>0, <3>1, <4>2, AppFdIs DEF AppOpen, FreeFds
    <3>2. CASE \E n \in Fds : AppClose(n)
      BY <1>0, <3>0, <3>2, AppFdIs DEF AppClose
    <3> QED
      BY <1>1, <3>1, <3>2
  <2>3. NoEnds' <=> NoEnds
    BY <2>2 DEF NoEnds
  <2>4. \A p \in Pipes : p # 0
    BY ValidateAssumption DEF Pipes
  <2>5. ASSUME NEW r, NEW w, Made(r, w)
        PROVE  /\ r \in Fds /\ w \in Fds
               /\ \E p \in Pipes : fds'[r] = End("r", p) /\ fds'[w] = End("w", p)
    <3>1. PICK p \in Pipes : /\ r \in Fds /\ w \in Fds
                             /\ fds[r] = End("r", p) /\ fds[w] = End("w", p)
      BY <2>5 DEF Made
    <3>2. fds[r].pipe # 0 /\ fds[w].pipe # 0
      BY <2>4, <3>1 DEF End
    <3> QED
      BY <2>2, <3>1, <3>2
  <2>6. /\ Made(read_fd, write_fd) => Made(read_fd, write_fd)'
        /\ \A d \in Callers :
              Made(ends[d][1], ends[d][2]) => Made(ends[d][1], ends[d][2])'
    BY <2>1, <2>5 DEF Made
  <2>7. DiscardInv'
    BY <2>1, <2>2 DEF FileInv, DiscardInv
  <2>8. OwnInv'
    BY <2>1, <2>3 DEF FileInv, OwnInv
  <2>9. PipeInv'
    <3> SUFFICES ASSUME ~overlapped, ~touched
                 PROVE  Alone' /\ Settled' /\ \A d \in Callers : Knows(d)'
      BY <2>1 DEF PipeInv
    <3>1. Alone /\ Settled /\ \A d \in Callers : Knows(d)
      BY DEF FileInv, PipeInv
    <3>2. Alone' /\ Settled'
      BY <2>1, <2>3, <2>6, <3>1 DEF Alone, Settled
    <3>3. \A d \in Callers : Knows(d)'
      BY <2>1, <2>3, <2>6, <3>1 DEF Knows
    <3> QED
      BY <3>2, <3>3
  <2>10. RoomInv'
    <3>1. Writers' = Writers /\ (Empty' <=> Empty)
      BY <2>1 DEF Writers, Empty
    <3>2. ASSUME NEW p \in Pipes, write_fd \in Fds, fds'[write_fd] = End("w", p)
          PROVE  fds[write_fd] = End("w", p)
      <4>1. fds'[write_fd].pipe # 0
        BY <2>4, <3>2 DEF End
      <4> QED
        BY <2>2, <3>2, <4>1
    <3>3. Room => Room'
      BY <2>1, <3>1, <3>2 DEF Room
    <3> QED
      BY <2>1, <3>1, <3>3 DEF FileInv, RoomInv
  <2> QED
    BY <2>7, <2>8, <2>9, <2>10 DEF FileInv
<1>2. CASE CloseFrom
  <2>1. /\ UNCHANGED <<read_fd, write_fd, pc, fd, ends, touched>>
        /\ closedAll' = TRUE
        /\ overlapped' = (overlapped \/ \E c \in Callers : pc[c] \in Calling)
        /\ \A n \in Fds : fds'[n] = Free
        /\ Discard
    BY <1>2 DEF CloseFrom, pipeVars, localVars
  <2>2. NoEnds' /\ \A n \in Fds : fds'[n].pipe = 0
    BY <2>1 DEF NoEnds, Free, End
  <2>3. \A p \in Pipes : (\A n \in Fds : fds'[n].pipe # p) => bytes'[p] = 0
    BY <1>0, <2>1, DiscardIs
  <2>4. DiscardInv'
    BY <2>3 DEF DiscardInv
  <2>5. OwnInv'
    BY <2>1 DEF OwnInv
  <2>6. Empty'
    <3>1. \A p \in Pipes : p # 0
      BY ValidateAssumption DEF Pipes
    <3> QED
      BY <2>2, <2>3, <3>1 DEF Empty
  <2>7. ~overlapped' => \A d \in Callers : pc'[d] \notin Calling
    BY <2>1
  <2>8. PipeInv'
    <3> SUFFICES ASSUME \A d \in Callers : pc'[d] \notin Calling
                 PROVE  Alone' /\ Settled' /\ \A d \in Callers : Knows(d)'
      BY <2>7 DEF PipeInv
    <3>1. Alone' /\ Settled'
      BY <2>2 DEF Alone, Settled
    <3>2. \A d \in Callers : Knows(d)'
      BY DEF Knows, Calling, Opening, Writing
    <3> QED
      BY <3>1, <3>2
  <2>9. RoomInv'
    BY <2>6, EmptyHasRoom DEF RoomInv
  <2> QED
    BY <2>4, <2>5, <2>8, <2>9 DEF FileInv
<1>3. CASE \E a \in Unmappable : Unmap(a)
  <2>1. UNCHANGED <<fds, bytes, read_fd, write_fd, pc, fd, ends, closedAll,
                    overlapped, touched>>
    BY <1>3 DEF Unmap, pipeVars, localVars
  <2> QED
    BY <2>1 DEF FileInv, DiscardInv, PipeInv, RoomInv, OwnInv, Alone, Settled, Knows,
                Made, NoEnds, Room, Empty, Writers
<1> QED
  BY <1>1, <1>2, <1>3 DEF AppStep

(* The facts about files and bytes survive every step of a caller, of the *)
(* application, and of the other threads.                                 *)
LEMMA FileInvStep ==
    ASSUME TypeInv, CallInv', FileInv, CallerStep
    PROVE  FileInv'
<1>1. CASE UNCHANGED validateVars
  <2>1. UNCHANGED <<fds, bytes, read_fd, write_fd, pc, fd, ends, closedAll,
                    overlapped, touched>>
    BY <1>1 DEF validateVars, kernelVars, pipeVars, localVars, historyVars
  <2> QED
    BY <2>1 DEF FileInv, DiscardInv, PipeInv, RoomInv, OwnInv, Alone, Settled, Knows,
                Made, NoEnds, Room, Empty, Writers
<1>2. ASSUME NEW c \in Callers, NEW a \in Addrs, pc[c] \notin Calling, Validate(c, a)
      PROVE  FileInv'
  BY <1>2, CallFile
<1>3. ASSUME NEW c \in Callers, pc[c] \notin Calling, Return(c) PROVE FileInv'
  BY <1>3, CallFile
<1>4. ASSUME NEW c \in Callers, ValidateStep(c) PROVE FileInv'
  BY <1>4, CallFile, ReadFile, CloseFile, CreateFile, StoreFile, WriteFile, HangFile
  DEF ValidateStep
<1> QED
  BY <1>1, <1>2, <1>3, <1>4, AppFile DEF CallerStep

(* Before the first call neither static holds a descriptor and no pipe exists. *)
LEMMA FileInvInit == Init => FileInv
<1> SUFFICES ASSUME Init PROVE FileInv
  OBVIOUS
<1>1. /\ \A n \in Fds : fds[n] = Free
      /\ \A p \in Pipes : bytes[p] = 0
      /\ read_fd = -1 /\ write_fd = -1 /\ touched = FALSE
      /\ \A c \in Callers : pc[c] = "idle"
  BY DEF Init, ValidateInit, Unset
<1>2. NoEnds /\ Empty /\ \A c \in Callers : pc[c] \notin Calling
  BY <1>1 DEF NoEnds, Empty, Free, End, Calling, Opening
<1>3. DiscardInv /\ OwnInv
  BY <1>1 DEF DiscardInv, OwnInv
<1>4. Alone /\ Settled
  BY <1>2 DEF Alone, Settled
<1>5. \A c \in Callers : Knows(c)
  BY <1>1 DEF Knows, Opening, Writing
<1> QED
  BY <1>2, <1>3, <1>4, <1>5, EmptyHasRoom DEF FileInv, PipeInv, RoomInv

-----------------------------------------------------------------------------
(* What a no means *)

(* A step of c gives a right answer or none, and keeps those of others. *)
LEMMA AnswersKept ==
    ASSUME NoMeansUnreadable, NEW c \in Callers,
           \A d \in Callers \ {c} :
              /\ pc'[d] = pc[d] /\ ok'[d] = ok[d] /\ addr'[d] = addr[d]
              /\ d \in noPipe => d \in noPipe',
           mapped' \subseteq mapped,
           overlapped => overlapped', touched => touched',
           pc'[c] = "ret" /\ ~ok'[c] /\ addr'[c] \in mapped' =>
              c \in noPipe' \/ overlapped' \/ touched'
    PROVE  NoMeansUnreadable'
  BY DEF NoMeansUnreadable

(* write(2) on the pipe copies what can be read: the pipe has a reader and *)
(* has room for the byte of everyone that writes.                          *)
LEMMA WriteAnswers ==
    ASSUME CallInv, FileInv, NEW c \in Callers, pc[c] = "write",
           ~overlapped, ~touched, addr[c] \in mapped
    PROVE  KindOf(fd[c]) = "w" /\ Copies(fd[c], addr[c])
<1>1. pc[c] \in Writing
  BY DEF Writing
<1>2. Made(read_fd, write_fd) /\ fd[c] = write_fd /\ Room
  BY <1>1 DEF FileInv, PipeInv, RoomInv, Knows
<1>3. KindOf(fd[c]) = "w" /\ IsOpen("r", fds[fd[c]].pipe)
  BY <1>2, KindIs
<1>4. PICK p \in Pipes : write_fd \in Fds /\ fds[write_fd] = End("w", p)
  BY <1>2 DEF Made
<1>5. fds[fd[c]].pipe = p
  BY <1>2, <1>4 DEF End
<1>6. bytes[p] + Cardinality(Writers) <= Cardinality(Callers)
  BY <1>2, <1>4 DEF Room
<1>7. c \in Writers /\ Writers \in SUBSET Callers
  BY <1>1 DEF Writers
<1>8. /\ IsFiniteSet(Writers) /\ Cardinality(Writers) \in Nat
      /\ Cardinality(Callers) \in Nat
  BY <1>7, WritersAre
<1>9. Cardinality(Writers) > 0
  <2>1. Cardinality(Writers) # 0
    BY <1>7, <1>8, FS_EmptySet
  <2> QED
    BY <1>8, <2>1
<1>10. bytes[p] < Capacity
  <2>1. Capacity \in Nat /\ Cardinality(Callers) <= Capacity
    BY ValidateAssumption, CapacityAssumption
  <2>2. bytes[p] \in Nat
    BY <2>1 DEF CallInv
  <2> QED
    BY <1>6, <1>8, <1>9, <2>1, <2>2
<1> QED
  BY <1>3, <1>5, <1>10 DEF Copies

(* A step that answers "not readable" gives that answer about an address       *)
(* that is not readable, unless one of the excuses of NoMeansUnreadable holds. *)
LEMMA AnswerStep ==
    ASSUME TypeInv, CallInv', FileInv, NoMeansUnreadable, CallerStep
    PROVE  NoMeansUnreadable'
<1>0. CallInv
  BY DEF TypeInv
<1>1. (overlapped => overlapped') /\ (touched => touched')
  BY FlagsGrow DEF TypeInv
<1>2. CASE UNCHANGED validateVars
  BY <1>2 DEF validateVars, kernelVars, localVars, historyVars, NoMeansUnreadable
<1>3. ASSUME NEW c \in Callers, NEW a \in Addrs, Validate(c, a)
      PROVE  NoMeansUnreadable'
  <2>1. /\ \A d \in Callers \ {c} :
              /\ pc'[d] = pc[d] /\ ok'[d] = ok[d] /\ addr'[d] = addr[d]
              /\ d \in noPipe => d \in noPipe'
        /\ mapped' = mapped /\ addr'[c] = a
        /\ pc'[c] = IF a = 0 THEN "ret" ELSE "load_read"
    BY <1>0, <1>3 DEF Validate, Goto, kernelVars, CallInv
  <2>2. ~(pc'[c] = "ret" /\ addr'[c] \in mapped')
    BY <1>0, <2>1 DEF CallInv
  <2> QED
    BY <1>1, <2>1, <2>2, AnswersKept
<1>4. ASSUME NEW c \in Callers, Return(c) PROVE NoMeansUnreadable'
  <2>1. /\ \A d \in Callers \ {c} :
              /\ pc'[d] = pc[d] /\ ok'[d] = ok[d] /\ addr'[d] = addr[d]
              /\ d \in noPipe => d \in noPipe'
        /\ mapped' = mapped /\ pc'[c] = "idle"
    BY <1>0, <1>4 DEF Return, Goto, kernelVars, CallInv
  <2> QED
    BY <1>1, <2>1, AnswersKept
<1>5. ASSUME NEW c \in Callers,
             \/ LoadRead(c) \/ LoadWrite(c) \/ OpenLoadRead(c) \/ OpenLoadWrite(c)
             \/ StoreRead(c) \/ StoreWrite(c)
      PROVE  NoMeansUnreadable'
  <2>1. UNCHANGED <<ok, addr, mapped, noPipe>>
    BY <1>5 DEF LoadRead, LoadWrite, OpenLoadRead, OpenLoadWrite, Load, StoreRead,
                StoreWrite, kernelVars, historyVars
  <2>2. /\ \A d \in Callers \ {c} : pc'[d] = pc[d]
        /\ pc'[c] # "ret"
    BY <1>0, <1>5 DEF LoadRead, LoadWrite, OpenLoadRead, OpenLoadWrite, Load,
                      StoreRead, StoreWrite, Goto, CallInv
  <2> QED
    BY <1>1, <2>1, <2>2, AnswersKept
<1>6. ASSUME NEW c \in Callers, Read(c) \/ CloseEnd(c) \/ Hang(c)
      PROVE  NoMeansUnreadable'
  <2>1. UNCHANGED <<ok, addr, mapped, noPipe>>
    BY <1>6 DEF Read, CloseEnd, Hang, kernelVars
  <2>2. /\ \A d \in Callers \ {c} : pc'[d] = pc[d]
        /\ pc'[c] # "ret"
    BY <1>0, <1>6 DEF Read, CloseEnd, Hang, Goto, CallInv
  <2> QED
    BY <1>1, <2>1, <2>2, AnswersKept
<1>7. ASSUME NEW c \in Callers, CreatePipe(c) PROVE NoMeansUnreadable'
  <2>1. UNCHANGED <<ok, addr, mapped>>
    BY <1>7 DEF CreatePipe
  <2>2. \/ pc' = [pc EXCEPT ![c] = "ret"] /\ noPipe' = noPipe \cup {c}
        \/ pc' = [pc EXCEPT ![c] = "store_read"] /\ noPipe' = noPipe
    BY <1>7 DEF CreatePipe, Goto
  <2>3. /\ \A d \in Callers \ {c} : pc'[d] = pc[d] /\ (d \in noPipe => d \in noPipe')
        /\ pc'[c] = "ret" => c \in noPipe'
    BY <1>0, <2>2 DEF CallInv
  <2> QED
    BY <1>1, <2>1, <2>3, AnswersKept
<1>8. ASSUME NEW c \in Callers, Write(c) PROVE NoMeansUnreadable'
  <2>1. UNCHANGED <<addr, mapped, noPipe>> /\ pc[c] = "write"
    BY <1>8 DEF Write
  <2>2. PICK answer \in Answer(fd[c], addr[c]) : ok' = [ok EXCEPT ![c] = answer]
    BY <1>8 DEF Write
  <2>3. /\ \A d \in Callers \ {c} : pc'[d] = pc[d] /\ ok'[d] = ok[d]
        /\ ok'[c] = answer
    BY <1>0, <1>8, <2>2 DEF Write, Goto, CallInv
  <2>4. addr[c] \in mapped /\ ~overlapped /\ ~touched => answer
    <3> SUFFICES ASSUME addr[c] \in mapped, ~overlapped, ~touched PROVE answer
      OBVIOUS
    <3>1. KindOf(fd[c]) = "w" /\ Copies(fd[c], addr[c])
      BY <1>0, <2>1, WriteAnswers
    <3>2. Answer(fd[c], addr[c]) = {Copies(fd[c], addr[c])}
      BY <3>1 DEF Answer
    <3> QED
      BY <2>2, <3>1, <3>2
  <2>5. ~ok'[c] /\ addr'[c] \in mapped' => overlapped' \/ touched'
    BY <1>1, <2>1, <2>3, <2>4
  <2> QED
    BY <1>1, <2>1, <2>3, <2>5, AnswersKept
<1>9. CASE AppStep
  <2>1. UNCHANGED <<pc, ok, addr, noPipe>> /\ mapped' \subseteq mapped
    BY <1>9 DEF AppStep, AppOpen, AppClose, CloseFrom, Unmap, localVars, historyVars
  <2> QED
    BY <1>1, <2>1 DEF NoMeansUnreadable
<1> QED
  BY <1>2, <1>3, <1>4, <1>5, <1>6, <1>7, <1>8, <1>9 DEF CallerStep, ValidateStep

(* The descriptor invariant and the answer invariant hold initially. *)
LEMMA FdInvInit == Init => FdInv
<1>1. Init => NoMeansUnreadable
  BY DEF Init, ValidateInit, NoMeansUnreadable
<1> QED
  BY <1>1, FileInvInit DEF FdInv, FileInv

(* Every step of the whole specification preserves the descriptor invariant. *)
LEMMA FdInvStep == TypeInv /\ TypeInv' /\ FdInv /\ [Next]_vars => FdInv'
<1> SUFFICES ASSUME TypeInv, TypeInv', FdInv, [Next]_vars PROVE FdInv'
  OBVIOUS
<1>1. CallerStep
  BY StepIs DEF Next, vars, CallerStep
<1>2. CallInv' /\ FileInv /\ NoMeansUnreadable
  BY DEF TypeInv, FdInv, FileInv
<1> QED
  BY <1>1, <1>2, FileInvStep, AnswerStep DEF FdInv, FileInv

(* validate (addr_validate.rs) uses no descriptor of the application: any   *)
(* number of threads, as long as the pipe is not taken away from it or     *)
(* replaced by two calls at once.                                          *)
THEOREM OwnDescriptors == Spec => []OnlyOwnFds
<1>1. FdInv /\ TypeInv => OnlyOwnFds
  BY DEF FdInv, OwnInv, OnlyOwnFds
<1> QED
  BY <1>1, TypeInvInit, TypeInvStep, FdInvInit, FdInvStep, PTL DEF Spec

(* A no of validate is about the address and not about the pipe, which     *)
(* has room for all callers, unless no pipe could be created or it was     *)
(* replaced during a call.                                                 *)
THEOREM NoIsUnreadable == Spec => []NoMeansUnreadable
<1>1. FdInv => NoMeansUnreadable
  BY DEF FdInv
<1> QED
  BY <1>1, TypeInvInit, TypeInvStep, FdInvInit, FdInvStep, PTL DEF Spec

-----------------------------------------------------------------------------
(* The frame pointer walk *)

(* A chain that is continued, is so in one way. *)
LEMMA ChainGrows ==
    ASSUME NEW s \in Seq(Addrs), NEW a \in Addrs
    PROVE  Chain(Append(s, a)) <=>
              /\ Chain(s) /\ a \in mapped /\ ~IsBlocklisted(a)
              /\ s = <<>> => a = start
              /\ s # <<>> => a = memory[s[Len(s)]] /\ a >= s[Len(s)]
<1> DEFINE t == Append(s, a)
<1>1. /\ Len(s) \in Nat /\ t \in Seq(Addrs) /\ Len(t) = Len(s) + 1
      /\ DOMAIN s = 1..Len(s) /\ DOMAIN t = 1..(Len(s) + 1)
      /\ t[Len(s) + 1] = a /\ \A i \in 1..Len(s) : t[i] = s[i]
      /\ s = <<>> <=> Len(s) = 0
  OBVIOUS
<1> HIDE DEF t
<1>2. ASSUME Chain(t)
      PROVE  /\ Chain(s) /\ a \in mapped /\ ~IsBlocklisted(a)
             /\ s = <<>> => a = start
             /\ s # <<>> => a = memory[s[Len(s)]] /\ a >= s[Len(s)]
  <2>1. /\ t[1] = start
        /\ \A i \in DOMAIN t : t[i] \in mapped /\ ~IsBlocklisted(t[i])
        /\ \A i \in 2..Len(t) : t[i] = memory[t[i - 1]] /\ t[i] >= t[i - 1]
    <3>1. t # <<>>
      BY <1>1
    <3> QED
      BY <1>2, <3>1 DEF Chain
  <2>2. s # <<>> => s[1] = start
    BY <1>1, <2>1
  <2>3. \A i \in DOMAIN s : s[i] \in mapped /\ ~IsBlocklisted(s[i])
    BY <1>1, <2>1
  <2>4. ASSUME NEW i \in 2..Len(s)
        PROVE  s[i] = memory[s[i - 1]] /\ s[i] >= s[i - 1]
    <3>1. i \in 2..Len(t) /\ i \in 1..Len(s) /\ i - 1 \in 1..Len(s)
      BY <1>1
    <3>2. t[i] = s[i] /\ t[i - 1] = s[i - 1]
      BY <1>1, <3>1
    <3> QED
      BY <2>1, <3>1, <3>2
  <2>5. a \in mapped /\ ~IsBlocklisted(a) /\ (s = <<>> => a = start)
    BY <1>1, <2>1
  <2>6. s # <<>> => a = memory[s[Len(s)]] /\ a >= s[Len(s)]
    <3> SUFFICES ASSUME s # <<>> PROVE a = memory[s[Len(s)]] /\ a >= s[Len(s)]
      OBVIOUS
    <3>1. Len(s) + 1 \in 2..Len(t) /\ Len(s) \in 1..Len(s) /\ Len(s) + 1 - 1 = Len(s)
      BY <1>1
    <3>2. t[Len(s) + 1] = memory[t[Len(s)]] /\ t[Len(s) + 1] >= t[Len(s)]
      BY <2>1, <3>1
    <3> QED
      BY <1>1, <3>1, <3>2
  <2> QED
    BY <2>2, <2>3, <2>4, <2>5, <2>6 DEF Chain
<1>3. ASSUME Chain(s), a \in mapped, ~IsBlocklisted(a),
             s = <<>> => a = start,
             s # <<>> => a = memory[s[Len(s)]] /\ a >= s[Len(s)]
      PROVE  Chain(t)
  <2>1. /\ s # <<>> => s[1] = start
        /\ \A i \in DOMAIN s : s[i] \in mapped /\ ~IsBlocklisted(s[i])
        /\ \A i \in 2..Len(s) : s[i] = memory[s[i - 1]] /\ s[i] >= s[i - 1]
    BY <1>3 DEF Chain
  <2>2. t[1] = start
    BY <1>1, <1>3, <2>1
  <2>3. ASSUME NEW i \in DOMAIN t PROVE t[i] \in mapped /\ ~IsBlocklisted(t[i])
    <3>1. i \in 1..Len(s) \/ i = Len(s) + 1
      BY <1>1
    <3> QED
      BY <1>1, <1>3, <2>1, <3>1
  <2>4. ASSUME NEW i \in 2..Len(t)
        PROVE  t[i] = memory[t[i - 1]] /\ t[i] >= t[i - 1]
    <3>1. CASE i \in 2..Len(s)
      <4>1. i \in 1..Len(s) /\ i - 1 \in 1..Len(s)
        BY <1>1, <3>1
      <4>2. t[i] = s[i] /\ t[i - 1] = s[i - 1]
        BY <1>1, <4>1
      <4> QED
        BY <2>1, <3>1, <4>2
    <3>2. CASE i = Len(s) + 1
      <4>1. s # <<>> /\ Len(s) \in 1..Len(s) /\ i - 1 = Len(s)
        BY <1>1, <3>2
      <4>2. t[i] = a /\ t[i - 1] = s[Len(s)]
        BY <1>1, <3>2, <4>1
      <4> QED
        BY <1>3, <4>1, <4>2
    <3>3. i \in 2..Len(s) \/ i = Len(s) + 1
      BY <1>1
    <3> QED
      BY <3>1, <3>2, <3>3
  <2> QED
    BY <2>2, <2>3, <2>4 DEF Chain
<1> QED
  BY <1>2, <1>3 DEF t

(* What the walk is about to look at: the only frame that can follow. *)
LEMMA OnlyFollower ==
    ASSUME bt \in Seq(Addrs), Follows, NEW a \in Addrs, Chain(Append(bt, a))
    PROVE  /\ a = frame_pointer /\ a \in mapped /\ ~IsBlocklisted(a)
           /\ last_frame_pointer # 0 => a >= last_frame_pointer
<1>1. /\ Chain(bt) /\ a \in mapped /\ ~IsBlocklisted(a)
      /\ bt = <<>> => a = start
      /\ bt # <<>> => a = memory[bt[Len(bt)]] /\ a >= bt[Len(bt)]
  BY ChainGrows
<1> QED
  BY <1>1 DEF Follows

(* The handler is where it was, and what it looks at is as it was. *)
LEMMA WalkKept ==
    ASSUME WalkInv, WalkExact,
           UNCHANGED <<unwinder, memory, start, walkVars>>,
           mapped' = mapped \/ moved',
           moved => moved', touched => touched', overlapped => overlapped',
           walk = "done" /\ h \in noPipe => h \in noPipe',
           h \in torn' => moved',
           walk = "off" => pc'[h] = "idle"
    PROVE  WalkInv' /\ WalkExact'
<1>1. UNCHANGED <<walk, frame_pointer, last_frame_pointer, bt>>
  BY DEF walkVars
<1>2. mapped' = mapped => /\ Chain(bt)' <=> Chain(bt)
                          /\ \A a \in Addrs : Chain(Append(bt, a))' <=> Chain(Append(bt, a))
  BY <1>1 DEF Chain
<1>3. (Follows' <=> Follows) /\ (Backwards' <=> Backwards)
  BY <1>1 DEF Follows, Backwards
<1>4. WalkInv'
  BY <1>1, <1>2, <1>3 DEF WalkInv
<1>5. WalkExact'
  BY <1>1, <1>2 DEF WalkExact
<1> QED
  BY <1>4, <1>5

(* The handler enters and leaves Trace::trace. *)
LEMMA WalkEntered ==
    ASSUME TypeInv, WalkInv, WalkExact,
           \/ \E a \in Addrs, m \in Memories : TraceStart(a, m)
           \/ FramehopStart \/ TraceReturn
    PROVE  WalkInv' /\ WalkExact'
<1> USE DEF WalkGoto
<1>1. CASE \E a \in Addrs, m \in Memories : TraceStart(a, m)
  <2>1. /\ walk = "off" /\ walk' = "loop" /\ frame_pointer' = start'
        /\ UNCHANGED <<bt, last_frame_pointer, unwinder, moved, touched, torn>>
    BY <1>1 DEF TraceStart, validateVars, historyVars
  <2>2. bt' = <<>> => Chain(bt)'
    BY DEF Chain
  <2>3. unwinder = "frame_pointer" /\ ~touched /\ ~moved => Chain(bt)' /\ Follows'
    BY <2>1, <2>2 DEF WalkInv, Follows
  <2> QED
    BY <2>1, <2>3 DEF WalkInv, WalkExact
<1>2. CASE FramehopStart
  <2>1. /\ walk' = "yield" /\ unwinder' = "framehop"
        /\ UNCHANGED <<moved, torn>>
    BY <1>2 DEF FramehopStart, validateVars, historyVars, traceVars
  <2> QED
    BY <2>1 DEF WalkInv, WalkExact
<1>3. CASE TraceReturn
  <2>1. /\ walk' = "off" /\ bt' = <<>> /\ last_frame_pointer' = 0
        /\ Return(h)
    BY <1>3 DEF TraceReturn
  <2>2. h \in Callers
    BY UnwindAssumption DEF h
  <2>3. h \notin torn' /\ pc'[h] = "idle"
    BY <2>1, <2>2 DEF Return, Goto, TypeInv, CallInv
  <2> QED
    BY <2>1, <2>3 DEF WalkInv, WalkExact
<1> QED
  BY <1>1, <1>2, <1>3

(* The head of the loop: a frame pointer that points down has nothing      *)
(* behind it.                                                              *)
LEMMA WalkCheckKeeps ==
    ASSUME TypeInv, WalkInv, WalkCheck
    PROVE  WalkInv' /\ WalkExact'
<1> USE DEF WalkGoto
<1>1. /\ walk = "loop" /\ UNCHANGED <<unwinder, moved, memory, start>>
      /\ UNCHANGED <<frame_pointer, last_frame_pointer, bt>>
  BY DEF WalkCheck, traceVars
<1>2. UNCHANGED <<mapped, touched>> /\ (h \in torn' => h \in torn)
  BY DEF WalkCheck, Validate, validateVars, kernelVars, historyVars
<1>3. Chain(bt)' <=> Chain(bt)
  BY <1>1, <1>2 DEF Chain
<1>4. (Follows' <=> Follows) /\ (Backwards' <=> Backwards)
  BY <1>1 DEF Follows, Backwards
<1>5. CASE ~Backwards
  <2>1. walk' = "validate"
    BY <1>5 DEF WalkCheck
  <2> QED
    BY <1>1, <1>2, <1>3, <1>4, <1>5, <2>1 DEF WalkInv, WalkExact
<1>6. CASE Backwards
  <2>1. walk' = "done"
    BY <1>6 DEF WalkCheck
  <2>2. WalkInv'
    BY <1>1, <1>2, <2>1 DEF WalkInv
  <2>3. ASSUME unwinder = "frame_pointer", ~touched, ~moved
        PROVE  Chain(bt) /\ \A a \in Addrs : ~Chain(Append(bt, a))
    <3>1. Chain(bt) /\ Follows
      BY <1>1, <2>3 DEF WalkInv
    <3>2. bt \in Seq(Addrs) /\ Addrs \subseteq Nat
          /\ frame_pointer \in Addrs /\ last_frame_pointer \in Addrs
      BY ValidateAssumption DEF TypeInv, TraceInv
    <3>3. last_frame_pointer # 0 /\ ~(frame_pointer >= last_frame_pointer)
      BY <1>6, <3>2 DEF Backwards
    <3> QED
      BY <3>1, <3>2, <3>3, OnlyFollower
  <2>4. \A a \in Addrs : Chain(Append(bt, a))' <=> Chain(Append(bt, a))
    BY <1>1, <1>2 DEF Chain
  <2>5. WalkExact'
    BY <1>1, <1>2, <1>3, <2>3, <2>4 DEF WalkExact
  <2> QED
    BY <2>2, <2>5
<1> QED
  BY <1>5, <1>6

(* validate has answered: a yes adds the frame to the chain, unless it is  *)
(* the last; a no means that there is nothing behind it.                   *)
LEMMA WalkFrameKeeps ==
    ASSUME TypeInv, FdInv, ReadInv, WalkValidated, WalkInv, WalkFrame
    PROVE  WalkInv' /\ WalkExact'
<1> USE DEF WalkGoto
<1>1. /\ walk = "validate" /\ pc[h] = "ret"
      /\ UNCHANGED <<unwinder, moved, memory, start, frame_pointer>>
      /\ UNCHANGED <<mapped, touched, torn, noPipe, overlapped>>
  BY DEF WalkFrame, traceVars, validateVars, kernelVars, historyVars
<1>2. h \in Callers /\ addr[h] = frame_pointer
  BY <1>1, UnwindAssumption DEF h, WalkValidated
<1>3. /\ bt \in Seq(Addrs) /\ Len(bt) <= MaxDepth /\ Addrs \subseteq Nat
      /\ frame_pointer \in Addrs /\ last_frame_pointer \in Addrs
      /\ ok[h] \in BOOLEAN
  BY <1>2, ValidateAssumption DEF TypeInv, TraceInv, CallInv
<1>4. ASSUME unwinder = "frame_pointer", ~touched, ~moved
      PROVE  Chain(bt) /\ Follows /\ ~Backwards /\ h \notin torn
  BY <1>1, <1>4 DEF WalkInv
<1>5. ASSUME NEW s \in Seq(Addrs) PROVE Chain(s)' <=> Chain(s)
  BY <1>1 DEF Chain
<1>6. CASE ok[h]
  <2>1. Collect(frame_pointer) /\ last_frame_pointer' = frame_pointer
    BY <1>6 DEF WalkFrame
  <2>2. /\ walk' \in {"next", "done"}
        /\ walk' = "next" => bt' = Append(bt, frame_pointer)
        /\ walk' = "next" /\ unwinder = "frame_pointer" => ~IsBlocklisted(frame_pointer)
        /\ walk' = "done" =>
              /\ bt' = bt
              /\ \/ unwinder = "frame_pointer" /\ IsBlocklisted(frame_pointer)
                 \/ Len(bt) = MaxDepth
    BY <1>3, <2>1, CollectIs
  <2>3. ASSUME unwinder = "frame_pointer", ~touched, ~moved, walk' = "next"
        PROVE  Chain(bt)' /\ bt' # <<>> /\ frame_pointer = bt'[Len(bt')]
    <3>1. frame_pointer \in mapped
      BY <1>1, <1>2, <1>4, <1>6, <2>3 DEF ReadInv, YesMeansReadable
    <3>2. frame_pointer >= last_frame_pointer
      BY <1>3, <1>4, <2>3 DEF Backwards
    <3>3. Chain(Append(bt, frame_pointer))
      BY <1>3, <1>4, <2>2, <2>3, <3>1, <3>2, ChainGrows DEF Follows
    <3>4. /\ Append(bt, frame_pointer) \in Seq(Addrs)
          /\ Append(bt, frame_pointer) # <<>>
          /\ Append(bt, frame_pointer)[Len(Append(bt, frame_pointer))] = frame_pointer
      BY <1>3
    <3>5. bt' = Append(bt, frame_pointer)
      BY <2>2, <2>3
    <3>6. Chain(bt)' <=> Chain(bt')
      BY <1>1 DEF Chain
    <3> QED
      BY <3>3, <3>4, <3>5, <3>6
  <2>4. ASSUME unwinder = "frame_pointer", ~touched, ~moved, walk' = "done"
        PROVE  /\ Chain(bt)'
               /\ Len(bt') = MaxDepth \/ \A a \in Addrs : ~Chain(Append(bt, a))'
    <3>1. bt' = bt
      BY <2>2, <2>4
    <3>2. Chain(bt)' <=> Chain(bt)
      BY <1>1, <3>1 DEF Chain
    <3>3. \A a \in Addrs : Chain(Append(bt, a))' <=> Chain(Append(bt, a))
      BY <1>1, <3>1 DEF Chain
    <3>4. IsBlocklisted(frame_pointer) => \A a \in Addrs : ~Chain(Append(bt, a))
      BY <1>3, <1>4, <2>4, OnlyFollower
    <3> QED
      BY <1>4, <2>2, <2>4, <3>1, <3>2, <3>3, <3>4
  <2>5. WalkInv'
    BY <1>1, <2>1, <2>2, <2>3 DEF WalkInv
  <2>6. WalkExact'
    BY <1>1, <2>4 DEF WalkExact
  <2> QED
    BY <2>5, <2>6
<1>7. CASE ~ok[h]
  <2>1. walk' = "done" /\ bt' = bt
    BY <1>7 DEF WalkFrame
  <2>2. WalkInv'
    BY <1>1, <2>1 DEF WalkInv
  <2>3. ASSUME unwinder = "frame_pointer", ~touched, ~moved
        PROVE  /\ Chain(bt)
               /\ \/ h \in noPipe \/ overlapped
                  \/ \A a \in Addrs : ~Chain(Append(bt, a))
    <3>1. frame_pointer \notin mapped \/ h \in noPipe \/ overlapped
      BY <1>1, <1>2, <1>7, <2>3 DEF FdInv, NoMeansUnreadable
    <3> QED
      BY <1>3, <1>4, <2>3, <3>1, OnlyFollower
  <2>4. Chain(bt)' <=> Chain(bt)
    BY <1>1, <2>1 DEF Chain
  <2>5. \A a \in Addrs : Chain(Append(bt, a))' <=> Chain(Append(bt, a))
    BY <1>1, <2>1 DEF Chain
  <2>6. WalkExact'
    BY <1>1, <2>3, <2>4, <2>5 DEF WalkExact
  <2> QED
    BY <2>2, <2>6
<1> QED
  BY <1>3, <1>6, <1>7

(* The rest of the loop, and framehop's. *)
LEMMA WalkRestKeeps ==
    ASSUME TypeInv, WalkValidated, WalkInv, WalkExact,
           \/ WalkNext \/ FramehopYield \/ FramehopEnd \/ ReadStack
           \/ \E a \in Addrs : FramehopRead(a)
    PROVE  WalkInv' /\ WalkExact'
<1> USE DEF WalkGoto
<1>1. CASE WalkNext
  <2>1. /\ walk = "next" /\ walk' = "loop" /\ frame_pointer' = memory[frame_pointer]
        /\ UNCHANGED <<unwinder, moved, memory, start, mapped, touched, torn>>
        /\ UNCHANGED <<last_frame_pointer, bt>>
    BY <1>1 DEF WalkNext, traceVars, validateVars, kernelVars, historyVars
  <2>2. Chain(bt)' <=> Chain(bt)
    BY <2>1 DEF Chain
  <2>3. unwinder = "frame_pointer" /\ ~touched /\ ~moved => Chain(bt) /\ Follows'
    BY <2>1 DEF WalkInv, Follows
  <2> QED
    BY <2>1, <2>2, <2>3 DEF WalkInv, WalkExact
<1>2. CASE FramehopYield \/ FramehopEnd \/ ReadStack \/ \E a \in Addrs : FramehopRead(a)
  <2>1. unwinder = "framehop" /\ unwinder' = unwinder /\ moved' = moved
    BY <1>2 DEF FramehopYield, FramehopEnd, ReadStack, FramehopRead, WalkValidated,
                traceVars
  <2>2. walk' # "off"
    BY <1>2 DEF FramehopYield, FramehopEnd, ReadStack, FramehopRead, Collect
  <2>3. h \in torn' => h \in torn
    BY <1>2 DEF FramehopYield, FramehopEnd, ReadStack, FramehopRead, Validate,
                validateVars, historyVars
  <2> QED
    BY <2>1, <2>2, <2>3 DEF WalkInv, WalkExact
<1> QED
  BY <1>1, <1>2

(* The callers in validate. *)
LEMMA WalkCallKeeps ==
    ASSUME TypeInv, ReadInv, CallerStep, WalkInv, WalkExact, NEW c \in Callers,
           \/ CallStep(c)
           \/ \E a \in AppAddrs : AppValidate(c, a)
           \/ AppReturn(c)
    PROVE  WalkInv' /\ WalkExact'
<1>1. h \in Callers /\ pc \in [Callers -> Labels]
  BY UnwindAssumption DEF h, TypeInv, CallInv
<1>2. (overlapped => overlapped') /\ (touched => touched')
  BY FlagsGrow DEF TypeInv
<1>3. UNCHANGED <<unwinder, moved, memory, start, walkVars>>
  BY DEF CallStep, AppValidate, AppReturn, traceVars
<1>4. CASE CallStep(c)
  <2>1. UNCHANGED <<mapped, torn>>
    BY <1>4 DEF CallStep, ValidateStep, LoadRead, LoadWrite, OpenLoadRead,
                OpenLoadWrite, Load, Read, CloseEnd, CreatePipe, StoreRead,
                StoreWrite, Write, Hang, kernelVars, historyVars
  <2>2. noPipe \subseteq noPipe'
    BY <1>4 DEF CallStep, ValidateStep, LoadRead, LoadWrite, OpenLoadRead,
                OpenLoadWrite, Load, Read, CloseEnd, CreatePipe, StoreRead,
                StoreWrite, Write, Hang, historyVars
  <2>3. pc[c] \in Calling /\ \A d \in Callers \ {c} : pc'[d] = pc[d]
    BY <1>4, ValidateStepLocal DEF CallStep
  <2>4. walk = "off" => pc'[h] = "idle"
    BY <1>1, <2>3 DEF TypeInv, TraceInv, WalkInv
  <2>5. h \in torn' => moved'
    BY <1>3, <2>1 DEF WalkInv
  <2> QED
    BY <1>2, <1>3, <2>1, <2>2, <2>4, <2>5, WalkKept
<1>5. CASE (\E a \in AppAddrs : AppValidate(c, a)) \/ AppReturn(c)
  <2>1. /\ c # h /\ mapped' = mapped
        /\ noPipe' = noPipe \ {c} /\ torn' = torn \ {c}
    BY <1>5 DEF AppValidate, AppReturn, Validate, Return, kernelVars
  <2>2. pc'[h] = pc[h]
    BY <1>1, <1>5, <2>1 DEF AppValidate, AppReturn, Validate, Return, Goto
  <2>3. /\ h \in torn' => moved'
        /\ walk = "off" => pc'[h] = "idle"
    BY <1>3, <2>1, <2>2 DEF WalkInv
  <2> QED
    BY <1>2, <1>3, <2>1, <2>3, WalkKept
<1> QED
  BY <1>4, <1>5

(* The application: memory that it unmaps moves the walk off the stack     *)
(* that was interrupted.                                                   *)
LEMMA WalkAppKeeps ==
    ASSUME TypeInv, CallerStep, WalkInv, WalkExact, AppStep, Observe
    PROVE  WalkInv' /\ WalkExact'
<1>1. h \in Callers
  BY UnwindAssumption DEF h
<1>2. (overlapped => overlapped') /\ (touched => touched')
  BY FlagsGrow DEF TypeInv
<1>3. UNCHANGED <<pc, noPipe>>
  BY DEF AppStep, AppOpen, AppClose, CloseFrom, Unmap, localVars, historyVars
<1>4. /\ UNCHANGED <<unwinder, memory, start, walkVars>>
      /\ moved' = (moved \/ (walk # "off" /\ mapped' # mapped))
  BY DEF Observe
<1>5. (moved => moved') /\ (walk # "off" /\ mapped' # mapped => moved')
  BY <1>4
<1>6. h \in torn' => h \in torn \/ (pc[h] = "ret" /\ mapped' # mapped)
  <2>1. CASE UNCHANGED <<torn, mapped>>
    BY <2>1
  <2>2. ASSUME NEW a \in Unmappable, Unmap(a)
        PROVE  h \in torn' => h \in torn \/ (pc[h] = "ret" /\ mapped' # mapped)
    BY <2>2 DEF Unmap
  <2> QED
    BY <2>1, <2>2 DEF AppStep, AppOpen, AppClose, CloseFrom, historyVars
<1>7. h \in torn' => moved'
  BY <1>5, <1>6 DEF WalkInv
<1>8. CASE walk = "off"
  <2>1. UNCHANGED <<walk, bt, last_frame_pointer>>
    BY <1>4 DEF walkVars
  <2>2. unwinder' = "frame_pointer" /\ ~touched' /\ ~moved' =>
           bt = <<>> /\ last_frame_pointer = 0
    BY <1>2, <1>4, <1>5, <1>8 DEF WalkInv
  <2>3. WalkInv'
    BY <1>3, <1>7, <1>8, <2>1, <2>2 DEF WalkInv
  <2> QED
    BY <1>8, <2>1, <2>3 DEF WalkExact
<1>9. CASE walk # "off"
  BY <1>2, <1>3, <1>4, <1>5, <1>7, <1>9, WalkKept
<1> QED
  BY <1>8, <1>9

(* A handler that walks no stack has collected nothing. *)
LEMMA WalkInvInit == Init => WalkInv /\ WalkExact
<1> SUFFICES ASSUME Init PROVE WalkInv /\ WalkExact
  OBVIOUS
<1>1. /\ walk = "off" /\ bt = <<>> /\ last_frame_pointer = 0 /\ torn = {}
      /\ pc = [c \in Callers |-> "idle"]
  BY DEF Init, ValidateInit
<1>2. h \in Callers
  BY UnwindAssumption DEF h
<1> QED
  BY <1>1, <1>2 DEF WalkInv, WalkExact

(* Every step of the whole specification preserves the chain collected so far, *)
(* and a trace that is handed over is the whole chain.                         *)
LEMMA WalkInvStep ==
    TypeInv /\ FdInv /\ DerefInv /\ WalkInv /\ WalkExact /\ [Next]_vars
        => WalkInv' /\ WalkExact'
<1> SUFFICES ASSUME TypeInv, FdInv, DerefInv, WalkInv, WalkExact, [Next]_vars
             PROVE  WalkInv' /\ WalkExact'
  OBVIOUS
<1>1. ReadInv /\ WalkValidated
  BY DEF DerefInv
<1>2. CASE UNCHANGED vars
  <2>1. /\ UNCHANGED <<unwinder, moved, memory, start, walkVars>>
        /\ UNCHANGED <<mapped, touched, overlapped, noPipe, torn, pc>>
    BY <1>2 DEF vars, traceVars, validateVars, kernelVars, localVars, historyVars
  <2>2. /\ h \in torn' => moved'
        /\ walk = "off" => pc'[h] = "idle"
    BY <2>1 DEF WalkInv
  <2> QED
    BY <2>1, <2>2, WalkKept
<1>3. CASE Step
  <2>1. CallerStep
    BY <1>3, StepIs
  <2>2. ASSUME NEW c \in Callers,
               CallStep(c) \/ (\E a \in AppAddrs : AppValidate(c, a)) \/ AppReturn(c)
        PROVE  WalkInv' /\ WalkExact'
    BY <1>1, <2>1, <2>2, WalkCallKeeps
  <2>3. CASE AppStep /\ Observe
    BY <2>1, <2>3, WalkAppKeeps
  <2>4. CASE WalkStep
    BY <1>1, <2>4, WalkCheckKeeps, WalkFrameKeeps, WalkRestKeeps DEF WalkStep
  <2>5. CASE \/ \E a \in Addrs, m \in Memories : TraceStart(a, m)
             \/ FramehopStart \/ TraceReturn
    BY <2>5, WalkEntered
  <2> QED
    BY <1>3, <2>2, <2>3, <2>4, <2>5 DEF Step
<1> QED
  BY <1>2, <1>3 DEF Next

(* The frame pointer walk (frame_pointer.rs) returns the interrupted       *)
(* stack's chain and nothing else, and stops only where the chain ends, at *)
(* MAX_DEPTH, or where validate had no pipe: whatever the stack holds and  *)
(* whoever else calls validate.                                            *)
THEOREM WalkReturnsChain == Spec => []WalkExact
<1>1. DerefInv /\ [Next]_vars => DerefInv'
  BY DerefInvNext
<1> QED
  BY <1>1, TypeInvInit, TypeInvStep, FdInvInit, FdInvStep, DerefInvInit, WalkInvInit,
     WalkInvStep, PTL DEF Spec
=============================================================================
