------------------------------- MODULE Unwind -------------------------------
(***************************************************************************)
(* The unwinders that read the interrupted thread's stack by themselves:   *)
(* the frame pointer walk (src/src/backtrace/frame_pointer.rs) and the     *)
(* reads of framehop (src/src/backtrace/framehop_unwinder.rs), in the      *)
(* handler that collects the frames (src/src/profiler.rs).  The PROFILER   *)
(* lock lets one handler at a time in: it is the caller Handler.  The      *)
(* application's threads call validate meanwhile.                          *)
(*                                                                         *)
(* The words at a mapped address are the next frame pointer and a return   *)
(* address; the return address is identified with the address it is at.    *)
(***************************************************************************)
EXTENDS AddrValidate, Sequences

CONSTANTS
    Handler,        \* the caller that is the signal handler
    Unwinders,      \* the unwinders compiled in, one per behaviour
    Memories,       \* what the words may be: memory[a] is the word at a
    AppAddrs,       \* the addresses the application asks about
    Segments,       \* blocklist_segments: <<first address, first after>>
    MaxDepth        \* MAX_DEPTH

ASSUME UnwindAssumption ==
    /\ Handler \in Callers /\ MaxDepth \in Nat
    /\ Unwinders \subseteq {"frame_pointer", "framehop"}
    /\ Memories \subseteq [Addrs -> Addrs] /\ AppAddrs \subseteq Addrs
    /\ Segments \subseteq Nat \X Nat

VARIABLES
    unwinder,       \* TraceImpl
    memory,         \* the words of the stack the handler walks
    moved,          \* memory was unmapped during the walk (history)
    walk,           \* where Trace::trace is
    start,          \* the frame pointer in ucontext
    frame_pointer, last_frame_pointer,
    bt,             \* the frames collected
    faulted         \* an address was read that is not mapped

traceVars == <<unwinder, moved, memory, start>>
walkVars == <<walk, frame_pointer, last_frame_pointer, bt, faulted>>
vars == <<validateVars, traceVars, walkVars>>

h == Handler
NoMemory == [a \in Addrs |-> a]
WalkGoto(label) == walk' = label

-----------------------------------------------------------------------------
(* The handler enters Trace::trace with the registers of ucontext. *)
TraceStart(a, m) ==
    /\ walk = "off" /\ unwinder = "frame_pointer"
    /\ memory' = m
    /\ start' = a /\ frame_pointer' = a
    /\ WalkGoto("loop")
    /\ UNCHANGED <<validateVars, unwinder, moved, last_frame_pointer, bt,
                   faulted>>

(* What the handler does with the frames, and with the names of threads,   *)
(* is the profiler's matter.                                               *)
TraceReturn ==
    /\ walk = "done"
    /\ WalkGoto("off")
    /\ start' = 0 /\ frame_pointer' = 0 /\ last_frame_pointer' = 0
    /\ bt' = <<>> /\ memory' = NoMemory /\ moved' = FALSE
    /\ Return(h)
    /\ UNCHANGED <<appOps, unwinder, faulted>>

Deref(a) == faulted' = (faulted \/ a \notin mapped)

Backwards_Strict == last_frame_pointer # 0 /\ frame_pointer <= last_frame_pointer

(* "the frame pointer should never be smaller than the former one." *)
Backwards == last_frame_pointer # 0 /\ frame_pointer < last_frame_pointer

(* The head of the loop, until validate is called. *)
WalkCheck ==
    /\ walk = "loop"
    /\ IF Backwards
       THEN WalkGoto("done") /\ UNCHANGED validateVars
       ELSE /\ WalkGoto("validate")
            /\ Validate(h, frame_pointer) /\ UNCHANGED appOps
    /\ UNCHANGED <<traceVars, frame_pointer, last_frame_pointer, bt, faulted>>

(* is_blocklisted; the first address of a segment does not count. *)
IsBlocklisted(ip) == \E seg \in Segments : ip > seg[1] /\ ip < seg[2]

Collect_AlwaysTrue(ip) ==
    /\ bt' = IF Len(bt) < MaxDepth THEN Append(bt, ip) ELSE bt
    /\ WalkGoto(IF IsBlocklisted(ip) /\ unwinder = "frame_pointer"
                THEN "done" ELSE "next")

Collect_OneMore(ip) ==
    LET blocked == unwinder = "frame_pointer" /\ IsBlocklisted(ip)
        kept == ~blocked /\ Len(bt) <= MaxDepth
    IN  /\ bt' = IF kept THEN Append(bt, ip) ELSE bt
        /\ WalkGoto(IF kept THEN "next" ELSE "done")

(* The handler's callback: a frame in a blocklisted library ends the walk  *)
(* (feature frame-pointer), and so does the frame after MAX_DEPTH frames.  *)
Collect(ip) ==
    LET blocked == unwinder = "frame_pointer" /\ IsBlocklisted(ip)
        kept == ~blocked /\ Len(bt) < MaxDepth
    IN  /\ bt' = IF kept THEN Append(bt, ip) ELSE bt
        /\ WalkGoto(IF kept THEN "next" ELSE "done")

(* validate has answered: the return address is read and handed on. *)
WalkFrame ==
    /\ walk = "validate" /\ pc[h] = "ret"
    /\ IF ok[h]
       THEN /\ last_frame_pointer' = frame_pointer
            /\ Deref(frame_pointer)
            /\ Collect(frame_pointer)
       ELSE /\ WalkGoto("done")
            /\ UNCHANGED <<last_frame_pointer, bt, faulted>>
    /\ UNCHANGED <<validateVars, traceVars, frame_pointer>>

WalkNext ==
    /\ walk = "next" /\ unwinder = "frame_pointer"
    /\ Deref(frame_pointer)
    /\ frame_pointer' = memory[frame_pointer]
    /\ WalkGoto("loop")
    /\ UNCHANGED <<validateVars, traceVars, last_frame_pointer, bt>>

-----------------------------------------------------------------------------
(* framehop's iterator is external: to find a frame it may read any        *)
(* address, through read_stack, and it ends when a read fails or the stack *)
(* does.  The first frame is the interrupted instruction.  What a frame's  *)
(* address is, is framehop's matter: 0 stands for it.                      *)

FramehopStart ==
    /\ walk = "off" /\ unwinder = "framehop"
    /\ WalkGoto("yield")
    /\ UNCHANGED <<validateVars, traceVars, frame_pointer, last_frame_pointer,
                   bt, faulted>>

FramehopYield ==
    /\ walk = "yield"
    /\ Collect(0)
    /\ UNCHANGED <<validateVars, traceVars, frame_pointer,
                   last_frame_pointer, faulted>>

FramehopRead(a) ==
    /\ walk = "next" /\ unwinder = "framehop"
    /\ Validate(h, a)
    /\ WalkGoto("read_stack")
    /\ UNCHANGED <<appOps, traceVars, frame_pointer, last_frame_pointer, bt,
                   faulted>>

FramehopEnd ==
    /\ walk = "next" /\ unwinder = "framehop"
    /\ WalkGoto("done")
    /\ UNCHANGED <<validateVars, traceVars, frame_pointer,
                   last_frame_pointer, bt, faulted>>

ReadStack ==
    /\ walk = "read_stack" /\ pc[h] = "ret"
    /\ IF ok[h] THEN Deref(addr[h]) /\ WalkGoto("yield")
       ELSE UNCHANGED faulted /\ WalkGoto("done")
    /\ UNCHANGED <<validateVars, traceVars, frame_pointer,
                   last_frame_pointer, bt>>

-----------------------------------------------------------------------------
(* An application's thread calls validate and gets its answer. *)
AppValidate(c, a) ==
    /\ c # h /\ pc[c] = "idle" /\ AppCall
    /\ Validate(c, a)
    /\ UNCHANGED <<traceVars, walkVars>>

AppReturn(c) ==
    /\ c # h /\ pc[c] = "ret"
    /\ Return(c)
    /\ UNCHANGED <<appOps, traceVars, walkVars>>

Init ==
    /\ ValidateInit /\ mapped = Addrs \ {0}
    /\ unwinder \in Unwinders /\ memory = NoMemory
    /\ moved = FALSE /\ walk = "off" /\ start = 0
    /\ frame_pointer = 0 /\ last_frame_pointer = 0
    /\ bt = <<>> /\ faulted = FALSE

WalkStep ==
    \/ WalkCheck \/ WalkFrame \/ WalkNext
    \/ FramehopYield \/ FramehopEnd \/ ReadStack
    \/ \E a \in Addrs : FramehopRead(a)

CallStep(c) == ValidateStep(c) /\ UNCHANGED <<traceVars, walkVars>>

(* What the application does while the handler walks. *)
Observe ==
    /\ moved' = (moved \/ (walk # "off" /\ mapped' # mapped))
    /\ UNCHANGED <<unwinder, memory, start, walkVars>>

Step ==
    \/ \E a \in Addrs, m \in Memories : TraceStart(a, m)
    \/ FramehopStart \/ WalkStep \/ TraceReturn
    \/ \E c \in Callers : CallStep(c)
    \/ \E c \in Callers, a \in AppAddrs : AppValidate(c, a)
    \/ \E c \in Callers : AppReturn(c)
    \/ AppStep /\ Observe

(* Nothing is under way, or hangs for good. *)
Quiet ==
    /\ \A c \in Callers \ {h} : pc[c] \in {"idle", "stuck"}
    /\ pc[h] = "stuck" \/ (walk = "off" /\ pc[h] = "idle")

(* Reading what is not mapped ends the process. *)
Next ==
    \/ ~faulted /\ Step
    \/ (faulted \/ Quiet) /\ UNCHANGED vars

(* The handler runs until it returns; nobody else has to.                  *)
Spec == Init /\ [][Next]_vars
        /\ WF_vars(~faulted /\ WalkStep) /\ WF_vars(~faulted /\ CallStep(h))

-----------------------------------------------------------------------------
(* Properties *)

(* Every variable keeps its type; bt never outgrows the SmallVec that the  *)
(* handler must not reallocate.                                            *)
TypeOK ==
    /\ fds \in [Fds -> [kind : {"free", "app", "r", "w"}, pipe : 0..NumFds]]
    /\ bytes \in [Pipes -> 0..Capacity]
    /\ read_fd \in Fds \cup {-1} /\ write_fd \in Fds \cup {-1}
    /\ mapped \subseteq Addrs
    /\ pc \in [Callers -> {"idle", "ret", "stuck"} \cup Calling]
    /\ addr \in [Callers -> Addrs] /\ ok \in [Callers -> BOOLEAN]
    /\ fd \in [Callers -> Fds \cup {-1}]
    /\ \A c \in Callers : ends[c][1] \in Fds \cup {-1}
                          /\ ends[c][2] \in Fds \cup {-1}
    /\ noPipe \subseteq Callers /\ torn \subseteq Callers
    /\ appOps \in 0..MaxAppOps
    /\ overlapped \in BOOLEAN /\ closedAll \in BOOLEAN /\ touched \in BOOLEAN
    /\ unwinder \in Unwinders /\ memory \in Memories \cup {NoMemory}
    /\ walk \in {"off", "loop", "validate", "next", "yield", "read_stack", "done"}
    /\ moved \in BOOLEAN /\ start \in Addrs
    /\ frame_pointer \in Addrs /\ last_frame_pointer \in Addrs
    /\ Len(bt) <= MaxDepth /\ \A i \in DOMAIN bt : bt[i] \in Addrs \cup {0}
    /\ faulted \in BOOLEAN

(* The handler reads no address that is not mapped, although it follows    *)
(* whatever words it finds: only memory that the application unmaps        *)
(* between validate and the read can fault, or a yes that came from a file *)
(* of the application, whose descriptor was taken for the pipe's.          *)
DerefsMapped == faulted => h \in torn \/ touched

(* The frame pointers of a stack from a on: each readable, none below the  *)
(* one before, none in a blocklisted library.                              *)
Chain(frames) ==
    /\ frames # <<>> => frames[1] = start
    /\ \A i \in DOMAIN frames : frames[i] \in mapped /\ ~IsBlocklisted(frames[i])
    /\ \A i \in 2..Len(frames) :
          frames[i] = memory[frames[i - 1]] /\ frames[i] >= frames[i - 1]

(* The frame pointer walk returns a chain of the interrupted stack from    *)
(* its innermost frame, and all of it, but for MAX_DEPTH and the failures  *)
(* of validate.                                                            *)
WalkExact ==
    walk = "done" /\ unwinder = "frame_pointer" /\ ~touched /\ ~moved =>
        /\ Chain(bt)
        /\ \/ h \in noPipe \/ overlapped
           \/ Len(bt) = MaxDepth
           \/ \A a \in Addrs : ~Chain(Append(bt, a))

(* The handler gets out of the walk, even of a frame pointer that points   *)
(* to itself, which is not smaller than the former one, unless it hangs in *)
(* a read or write of a file of the application that may block.            *)
WalkEnds == walk # "off" ~> walk = "done" \/ faulted \/ pc[h] = "stuck"

-----------------------------------------------------------------------------
(* Claims of the repository's tests that the code does not keep            *)

(* `assert!(validate(...))` (addr_validate.rs:154 and 162, two tests that  *)
(* the test runner starts at once): as long as there are descriptors to    *)
(* be had, a readable address is found to be readable.                     *)
ReadableValidates ==
    \A c \in Callers :
        pc[c] = "ret" /\ ~ok[c] /\ addr[c] \in mapped =>
            c \in noPipe \/ closedAll
=============================================================================
