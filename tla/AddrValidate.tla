---------------------------- MODULE AddrValidate ----------------------------
(***************************************************************************)
(* The address validation of pprof-rs (src/src/addr_validate.rs): an       *)
(* address is readable if the kernel can copy from it into a pipe.  All    *)
(* callers share one pipe whose two descriptors are in two atomics; a      *)
(* caller whose read fails re-creates it.  validate is public, and the     *)
(* unwinders call it in the signal handler.                                *)
(*                                                                         *)
(* A step is one system call or one access to an atomic.  Bytes are        *)
(* counted in units of CHECK_LENGTH.  The pipe is not blocking, so its     *)
(* calls do not return EINTR.                                              *)
(***************************************************************************)
EXTENDS Integers, FiniteSetsExt

CONSTANTS
    Callers,        \* the threads that may be in validate
    Addrs,          \* addresses; 0 is the null pointer
    NumFds,         \* RLIMIT_NOFILE
    Capacity,       \* of a pipe, in units of CHECK_LENGTH
    Unmappable,     \* the addresses that the application may unmap
    MaxAppOps       \* bound on what the application does

ASSUME ValidateAssumption ==
    /\ Addrs \subseteq Nat /\ 0 \in Addrs /\ Unmappable \subseteq Addrs
    /\ NumFds \in Nat /\ Capacity \in Nat /\ MaxAppOps \in Nat

(* A pipe of 64 KiB has room for 4096 validations at a time. *)
ASSUME CapacityAssumption ==
    IsFiniteSet(Callers) /\ Cardinality(Callers) <= Capacity

VARIABLES
    fds,            \* the process's descriptors
    bytes,          \* what each pipe holds
    read_fd, write_fd,      \* MEM_VALIDATE_PIPE
    mapped,         \* the addresses that can be read now
    appOps,         \* what the application has done
    pc,             \* where each caller is
    addr,           \* validate's argument
    fd, ends,       \* its local variables
    ok,             \* its answer
    noPipe,         \* callers that were refused a pipe (history)
    torn,           \* callers whose address was unmapped since (history)
    overlapped,     \* the pipe was replaced or closed during a call (history)
    closedAll,      \* the application closed what is not its own (history)
    touched         \* a descriptor of the application was used (history)

pipeVars == <<read_fd, write_fd>>
kernelVars == <<fds, bytes, mapped>>
localVars == <<pc, addr, fd, ends, ok>>
historyVars == <<noPipe, torn, overlapped, closedAll, touched>>
validateVars == <<kernelVars, pipeVars, localVars, historyVars, appOps>>

Fds == 0..(NumFds - 1)
Pipes == 1..NumFds
End(kind, pipe) == [kind |-> kind, pipe |-> pipe]
Free == End("free", 0)
App == End("app", 0)
FreeFds == {n \in Fds : fds[n] = Free}
IsOpen(kind, pipe) == \E n \in Fds : fds[n] = End(kind, pipe)
KindOf(n) == IF n \in Fds THEN fds[n].kind ELSE "free"

Opening == {"open_load_read", "close_read", "open_load_write", "close_write",
            "create", "store_read", "store_write"}
Calling == {"load_read", "read", "load_write", "write"} \cup Opening

Goto(c, label) == pc' = [pc EXCEPT ![c] = label]
Forget(c) == fd' = [fd EXCEPT ![c] = -1]
Others(c, labels) == \E d \in Callers \ {c} : pc[d] \in labels

(* A system call on descriptor n. *)
Touch(n) == touched' = (touched \/ KindOf(n) = "app")

-----------------------------------------------------------------------------
(* validate is called; null is answered at once. *)
Validate(c, a) ==
    /\ addr' = [addr EXCEPT ![c] = a]
    /\ ok' = [ok EXCEPT ![c] = FALSE]
    /\ Goto(c, IF a = 0 THEN "ret" ELSE "load_read")
    /\ overlapped' = (overlapped \/ (a # 0 /\ Others(c, Opening)))
    /\ noPipe' = noPipe \ {c} /\ torn' = torn \ {c}
    /\ UNCHANGED <<kernelVars, pipeVars, fd, ends, closedAll, touched>>

(* The caller has used the answer. *)
Return(c) ==
    /\ Goto(c, "idle")
    /\ addr' = [addr EXCEPT ![c] = 0] /\ ok' = [ok EXCEPT ![c] = FALSE]
    /\ noPipe' = noPipe \ {c} /\ torn' = torn \ {c}
    /\ UNCHANGED <<kernelVars, pipeVars, fd, ends, overlapped, closedAll,
                   touched>>

Load(c, value, label) ==
    /\ fd' = [fd EXCEPT ![c] = value]
    /\ Goto(c, label)
    /\ UNCHANGED <<kernelVars, pipeVars, addr, ends, ok, historyVars>>

LoadRead(c) == pc[c] = "load_read" /\ Load(c, read_fd, "read")

(* A read or a write of an application's file, which may be blocking as    *)
(* the pipe is not, need not return.                                       *)
Hang(c) ==
    /\ pc[c] \in {"read", "write"} /\ KindOf(fd[c]) = "app"
    /\ Goto(c, "stuck")
    /\ Touch(fd[c]) /\ Forget(c)
    /\ UNCHANGED <<kernelVars, pipeVars, addr, ends, ok, noPipe, torn,
                   overlapped, closedAll>>

(* What read(n) can say: EAGAIN is success; at the end of file, without a  *)
(* writer, the pipe is broken; an application's file may say anything.     *)
ReadValid(n) ==
    CASE KindOf(n) = "r" -> {bytes[fds[n].pipe] > 0 \/ IsOpen("w", fds[n].pipe)}
      [] KindOf(n) = "app" -> BOOLEAN
      [] OTHER -> {FALSE}

Drained_Kept(n) == bytes

(* read(n) takes at most CHECK_LENGTH bytes out of the pipe. *)
Drained(n) ==
    IF KindOf(n) = "r" /\ bytes[fds[n].pipe] > 0
    THEN [bytes EXCEPT ![fds[n].pipe] = @ - 1]
    ELSE bytes

Read(c) ==
    /\ pc[c] = "read"
    /\ \E valid \in ReadValid(fd[c]) :
          /\ Goto(c, IF valid THEN "load_write" ELSE "open_load_read")
          /\ overlapped' = (overlapped \/ (~valid /\ Others(c, Calling)))
    /\ bytes' = Drained(fd[c])
    /\ Touch(fd[c]) /\ Forget(c)
    /\ UNCHANGED <<fds, mapped, pipeVars, addr, ends, ok, noPipe, torn,
                   closedAll>>

-----------------------------------------------------------------------------
(* open_pipe *)

OpenLoadRead(c) == pc[c] = "open_load_read" /\ Load(c, read_fd, "close_read")
OpenLoadWrite(c) == pc[c] = "open_load_write" /\ Load(c, write_fd, "close_write")

(* close(n), of whatever the number stands for now *)
Close(n) == [m \in Fds |-> IF m = n THEN Free ELSE fds[m]]

(* A pipe without descriptors is gone, and what it held. *)
Discard ==
    bytes' = [p \in Pipes |->
                 IF \E n \in Fds : fds'[n].pipe = p THEN bytes[p] ELSE 0]

CloseEnd(c) ==
    /\ pc[c] \in {"close_read", "close_write"}
    /\ fds' = Close(fd[c]) /\ Discard
    /\ Touch(fd[c]) /\ Forget(c)
    /\ Goto(c, IF pc[c] = "close_read" THEN "open_load_write" ELSE "create")
    /\ UNCHANGED <<mapped, pipeVars, addr, ends, ok, noPipe, torn, overlapped,
                   closedAll>>

(* create_pipe: pipe2 takes the two lowest free descriptors, or fails; the *)
(* atomics then keep the numbers that were closed.                         *)
CreatePipe(c) ==
    /\ pc[c] = "create"
    /\ IF Cardinality(FreeFds) < 2
       THEN /\ Goto(c, "ret")
            /\ noPipe' = noPipe \cup {c}
            /\ UNCHANGED <<fds, ends>>
       ELSE LET r == Min(FreeFds)
                w == Min(FreeFds \ {r})
                p == Min({q \in Pipes : \A n \in Fds : fds[n].pipe # q})
            IN  /\ fds' = [fds EXCEPT ![r] = End("r", p), ![w] = End("w", p)]
                /\ ends' = [ends EXCEPT ![c] = <<r, w>>]
                /\ Goto(c, "store_read")
                /\ UNCHANGED noPipe
    /\ UNCHANGED <<bytes, mapped, pipeVars, addr, fd, ok, torn, overlapped,
                   closedAll, touched>>

StoreRead(c) ==
    /\ pc[c] = "store_read"
    /\ read_fd' = ends[c][1]
    /\ Goto(c, "store_write")
    /\ UNCHANGED <<kernelVars, write_fd, addr, fd, ends, ok, historyVars>>

StoreWrite(c) ==
    /\ pc[c] = "store_write"
    /\ write_fd' = ends[c][2]
    /\ ends' = [ends EXCEPT ![c] = <<-1, -1>>]
    /\ Goto(c, "load_write")
    /\ UNCHANGED <<kernelVars, read_fd, addr, fd, ok, historyVars>>

-----------------------------------------------------------------------------
LoadWrite(c) == pc[c] = "load_write" /\ Load(c, write_fd, "write")

(* write(n, a) copies: the pipe has a reader and room, and the kernel can  *)
(* read all of the buffer.                                                 *)
Copies(n, a) ==
    /\ KindOf(n) = "w" /\ IsOpen("r", fds[n].pipe)
    /\ bytes[fds[n].pipe] < Capacity
    /\ a \in mapped

Answer_OnlyEFAULT(n, a) ==
    IF KindOf(n) = "app" THEN BOOLEAN
    ELSE {Copies(n, a) \/ KindOf(n) # "w" \/ ~IsOpen("r", fds[n].pipe)}

(* Every error of write(n, a) is a no. *)
Answer(n, a) == IF KindOf(n) = "app" THEN BOOLEAN ELSE {Copies(n, a)}

Write(c) ==
    /\ pc[c] = "write"
    /\ \E answer \in Answer(fd[c], addr[c]) : ok' = [ok EXCEPT ![c] = answer]
    /\ bytes' = IF Copies(fd[c], addr[c])
                THEN [bytes EXCEPT ![fds[fd[c]].pipe] = @ + 1]
                ELSE bytes
    /\ Touch(fd[c]) /\ Forget(c)
    /\ Goto(c, "ret")
    /\ UNCHANGED <<fds, mapped, pipeVars, addr, ends, noPipe, torn, overlapped,
                   closedAll>>

ValidateStep(c) ==
    /\ \/ LoadRead(c) \/ Read(c)
       \/ OpenLoadRead(c) \/ CloseEnd(c) \/ OpenLoadWrite(c)
       \/ CreatePipe(c) \/ StoreRead(c) \/ StoreWrite(c)
       \/ LoadWrite(c) \/ Write(c) \/ Hang(c)
    /\ UNCHANGED appOps

-----------------------------------------------------------------------------
(* The application's own descriptors and memory *)

AppOpen ==
    /\ FreeFds # {}
    /\ fds' = [fds EXCEPT ![Min(FreeFds)] = App]
    /\ UNCHANGED <<bytes, mapped, pipeVars, localVars, historyVars>>

AppClose(n) ==
    /\ fds[n] = App
    /\ fds' = [fds EXCEPT ![n] = Free]
    /\ UNCHANGED <<bytes, mapped, pipeVars, localVars, historyVars>>

(* A daemon's closefrom(3) takes the pipe with it. *)
CloseFrom ==
    /\ ~closedAll
    /\ fds' = [n \in Fds |-> Free] /\ Discard
    /\ closedAll' = TRUE
    /\ overlapped' = (overlapped \/ \E c \in Callers : pc[c] \in Calling)
    /\ UNCHANGED <<mapped, pipeVars, localVars, noPipe, torn, touched>>

Unmap(a) ==
    /\ a \in mapped \cap Unmappable
    /\ mapped' = mapped \ {a}
    /\ torn' = torn \cup {c \in Callers : pc[c] = "ret" /\ addr[c] = a}
    /\ UNCHANGED <<fds, bytes, pipeVars, localVars, noPipe, overlapped,
                   closedAll, touched>>

AppCall == appOps < MaxAppOps /\ appOps' = appOps + 1

AppStep ==
    /\ AppCall
    /\ \/ AppOpen \/ CloseFrom
       \/ \E n \in Fds : AppClose(n)
       \/ \E a \in Unmappable : Unmap(a)

Unset_Zero == 0

(* What both atomics hold before the first call. *)
Unset == -1

ValidateInit ==
    /\ fds = [n \in Fds |-> Free]
    /\ bytes = [p \in Pipes |-> 0]
    /\ read_fd = Unset /\ write_fd = Unset
    /\ pc = [c \in Callers |-> "idle"]
    /\ addr = [c \in Callers |-> 0]
    /\ fd = [c \in Callers |-> -1]
    /\ ends = [c \in Callers |-> <<-1, -1>>]
    /\ ok = [c \in Callers |-> FALSE]
    /\ noPipe = {} /\ torn = {} /\ appOps = 0
    /\ overlapped = FALSE /\ closedAll = FALSE /\ touched = FALSE

-----------------------------------------------------------------------------
(* Properties *)

(* "validate whether the address `addr` is readable": whatever pipe its    *)
(* caller ends up with, even one that other threads are replacing, a yes   *)
(* was given to an address that could be read; the caller dereferences it. *)
(* Excepted are an unmapping after the answer, and an answer that is not   *)
(* the pipe's because a call used a descriptor of the application.         *)
YesMeansReadable ==
    \A c \in Callers :
        pc[c] = "ret" /\ ok[c] => addr[c] \in mapped \/ c \in torn \/ touched

(* A no means that the address cannot be read.  The pipe is drained as     *)
(* fast as it is filled, so that it never runs full, and a broken pipe is  *)
(* repaired by the call that finds it: readable addresses are refused only *)
(* when no descriptor is to be had, when the pipe was replaced during      *)
(* another call, or when a call used a descriptor of the application.      *)
NoMeansUnreadable ==
    \A c \in Callers :
        pc[c] = "ret" /\ ~ok[c] /\ addr[c] \in mapped =>
            c \in noPipe \/ overlapped \/ touched

(* validate reads, writes and closes no descriptor that the application    *)
(* has opened, unless the application closed the pipe's or two calls       *)
(* replaced it at once.                                                    *)
OnlyOwnFds == touched => closedAll \/ overlapped
=============================================================================
