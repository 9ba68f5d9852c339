------------------------------- MODULE Frames -------------------------------
(***************************************************************************)
(* Stacks and their symbols (src/src/frames.rs): an UnresolvedFrames holds *)
(* addresses; Frames::from resolves them when a report is built.           *)
(***************************************************************************)
EXTENDS SequencesExt

CONSTANTS
    Addresses,  \* Addresses[k]: per frame of stack k, its symbol_address
    Unwound,    \* Unwound[k]: per frame, innermost first, the symbols at its ip
    ThreadName, \* ThreadName[k]: the name of the sampled thread, or ""
    ThreadId,   \* ThreadId[k]: its id, printed
    Demangle    \* Demangle[n]: what symbolic_demangle makes of a raw name

AllSymbols ==
    UNION {UNION {Range(frame) : frame \in Range(Unwound[k])} : k \in DOMAIN Unwound}

ASSUME UnwoundAssumption ==
    \A k \in DOMAIN Unwound : Unwound[k] \in Seq(Seq(AllSymbols))

UnresolvedEq_AnyThread(k, l) == Addresses[k] = Addresses[l]

(* PartialEq of UnresolvedFrames: the functions and the thread's id, not   *)
(* the ips within the functions nor the thread's name.                     *)
UnresolvedEq(k, l) == ThreadId[k] = ThreadId[l] /\ Addresses[k] = Addresses[l]

(* An Option is a sequence of at most one value. *)
UnwrapOr(opt, default) == IF opt = <<>> THEN default ELSE opt[1]

(* Symbol::raw_name *)
RawName(s) == UnwrapOr(s.name, "Unknown")

(* Symbol::name, which Display prints too *)
Name(s) == Demangle[RawName(s)]

(* Symbol::filename *)
Filename(s) == UnwrapOr(s.filename, "Unknown")

(* Symbol::lineno *)
Lineno(s) == UnwrapOr(s.lineno, 0)

IsHandler(frame) ==
    \E i \in DOMAIN frame :
        Name(frame[i]) \in {"perf_signal_handler", "_perf_signal_handler"}

ResolveFrame_KeepsNext(acc, frame) ==
    IF IsHandler(frame) \/ frame = <<>> THEN acc
    ELSE [acc EXCEPT !.frames = Append(@, frame)]

(* One turn of the loop of Frames::from.  The frame after the signal       *)
(* handler is dropped unseen; a frame without symbols is left out.         *)
ResolveFrame(acc, frame) ==
    IF acc.dropNext THEN [acc EXCEPT !.dropNext = FALSE]
    ELSE IF IsHandler(frame) THEN [acc EXCEPT !.dropNext = TRUE]
    ELSE IF frame = <<>> THEN acc
    ELSE [acc EXCEPT !.frames = Append(@, frame)]

(* The loop, over the frames of a stack. *)
ResolveFrames(unwound) ==
    LET turn[n \in 0..Len(unwound)] ==
            IF n = 0 THEN [frames |-> <<>>, dropNext |-> FALSE]
            ELSE ResolveFrame(turn[n - 1], unwound[n])
    IN  turn[Len(unwound)].frames

(* Frames::from, but for the timestamp *)
FramesFrom ==
    [k \in DOMAIN Unwound |->
        [frames |-> ResolveFrames(Unwound[k]),
         thread_name |-> ThreadName[k],
         thread_id |-> ThreadId[k]]]

RawNames(frames) ==
    [i \in DOMAIN frames |->
        [j \in DOMAIN frames[i] |-> RawName(frames[i][j])]]

(* Frames: Eq and Hash are derived, so they include the timestamp; those   *)
(* of a Symbol look at the raw name alone.                                 *)
FramesEq(f, g) ==
    /\ RawNames(f.frames) = RawNames(g.frames)
    /\ f.thread_name = g.thread_name /\ f.thread_id = g.thread_id
    /\ f.sample_timestamp = g.sample_timestamp

(* HashMap::insert under a key the map does not have, or has itself. *)
Insert(data, key, value) ==
    [k \in DOMAIN data \union {key} |-> IF k = key THEN value ELSE data[k]]

(* The key under which a HashMap finds these Frames, or will. *)
KeyIn(data, frames) ==
    LET equal == {f \in DOMAIN data : FramesEq(f, frames)}
    IN  IF equal = {} THEN frames ELSE CHOOSE f \in equal : TRUE

(* Frames::thread_name_or_id *)
ThreadNameOrId(f) == IF f.thread_name # "" THEN f.thread_name ELSE f.thread_id
=============================================================================
