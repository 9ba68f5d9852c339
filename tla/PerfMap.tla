------------------------------- MODULE PerfMap -------------------------------
(***************************************************************************)
(* The perf map resolver (src/src/perfmap.rs, feature perfmaps): code that *)
(* a JIT compiler generated is named by lines the JIT appends to           *)
(* /tmp/perf-<pid>.map.  Every frame that is resolved spawns a thread that *)
(* reads the file again if its modification time has changed, and takes    *)
(* the map that was published last.  The first use initialises the static  *)
(* RESOLVER.                                                               *)
(*                                                                         *)
(* A map is the set of its lines; line n is the n-th the JIT wrote, and    *)
(* None is the empty map, which answers every find alike.                  *)
(***************************************************************************)
EXTENDS Integers, FiniteSetsExt

CONSTANTS
    Codes,          \* the addresses of generated code
    CodeOf,         \* CodeOf[n]: the code that line n names
    MaxLines,       \* bound on the lines
    MaxCalls,       \* bound on the frames resolved
    MaxTime         \* bound on the seconds that pass

ASSUME PerfMapAssumption ==
    /\ MaxLines \in Nat /\ MaxCalls \in Nat /\ MaxTime \in Nat \ {0}
    /\ CodeOf \in [1..MaxLines -> Codes]

VARIABLES
    now,            \* the clock, in seconds
    exists, lines, mtime,   \* the file: its whole lines, and when it changed
    partial,        \* half of the next line has been written
    cut,            \* the JIT's next write is not where a line begins
    broken,         \* the file begins with what is not a line
    appends,        \* whether the JIT opened the file with O_APPEND
    written,        \* the lines the JIT wrote, in the file or truncated
    MTIME, resolver,        \* the statics
    pc,             \* where each refresh thread, and RESOLVER's Lazy, is
    stat, got,      \* their local variables: mtime and the map read
    calls,          \* the frames resolved
    caller,         \* where the reporting thread is
    seen,           \* a refresh began after the last change (history)
    shown,          \* the last mtime of a map in resolver (history)
    parsed,         \* the seconds whose file has been read (history)
    races           \* what went wrong with a refresh (history)

fileVars == <<exists, lines, mtime, partial, cut, broken, appends,
              written>>
historyVars == <<seen, shown, parsed, races>>
vars == <<now, fileVars, MTIME, resolver, pc, stat, got, calls, caller,
          historyVars>>

Lazy == 0
Workers == 1..MaxCalls
Refreshers == Workers \cup {Lazy}

Goto(p, label) == pc' = [pc EXCEPT ![p] = label]

(* PerfMap::find: the first line whose range holds the address *)
Find(map, code) ==
    LET covering == {n \in map : CodeOf[n] = code}
    IN  IF covering = {} THEN {} ELSE {Min(covering)}

-----------------------------------------------------------------------------
(* The file *)

Tick ==
    /\ now < MaxTime /\ now' = now + 1
    /\ UNCHANGED <<fileVars, MTIME, resolver, pc, stat, got, calls, caller,
                   historyVars>>

(* The JIT writes half a line, a line, or the rest of one.                 *)
JitWrite(whole) ==
    /\ written < MaxLines /\ (whole \/ ~partial)
    /\ exists' = TRUE /\ mtime' = now
    /\ broken' = (broken \/ cut) /\ cut' = FALSE
    /\ IF whole
       THEN /\ lines' = lines \cup {written + 1}
            /\ written' = written + 1 /\ partial' = FALSE
       ELSE partial' = TRUE /\ UNCHANGED <<lines, written>>
    /\ seen' = FALSE
    /\ races' = IF now \in parsed THEN races \cup {"same second"} ELSE races
    /\ UNCHANGED <<now, appends, MTIME, resolver, pc, stat, got, calls, caller,
                   shown, parsed>>

-----------------------------------------------------------------------------
(* get_resolver, for one frame: a refresh thread is spawned, then RESOLVER *)
(* is loaded.                                                              *)

GetResolver ==
    /\ caller = "idle" /\ calls < MaxCalls
    /\ calls' = calls + 1
    /\ Goto(calls + 1, "stat")
    /\ caller' = "load"
    /\ UNCHANGED <<now, fileVars, MTIME, resolver, stat, got, historyVars>>

(* Who first uses RESOLVER initialises it; all others wait for that. *)
ForceLazy ==
    /\ pc[Lazy] = "unset"
    /\ caller = "load" \/ \E w \in Workers : pc[w] = "publish"
    /\ Goto(Lazy, "touch")
    /\ UNCHANGED <<now, fileVars, MTIME, resolver, stat, got, calls, caller,
                   historyVars>>

(* The JIT does not know: it goes on with its line and, without O_APPEND,  *)
(* at its old offset, which leaves a hole of NULs.                         *)
Truncated ==
    /\ exists' = TRUE /\ mtime' = now
    /\ lines' = {} /\ partial' = FALSE /\ broken' = FALSE
    /\ cut' = (partial \/ (~appends /\ written > 0))

Touch_Unwrapped ==
    /\ pc[Lazy] = "touch"
    /\ \/ Truncated /\ Goto(Lazy, "stat")
       \/ UNCHANGED <<exists, mtime, lines, partial, cut, broken>>
          /\ Goto(Lazy, "unset")
    /\ UNCHANGED <<now, appends, written, MTIME, resolver, stat, got, calls,
                   caller, historyVars>>

(* touch: the file is created or truncated; that this fails is ignored. *)
Touch ==
    /\ pc[Lazy] = "touch"
    /\ Truncated \/ UNCHANGED <<exists, mtime, lines, partial, cut, broken>>
    /\ Goto(Lazy, "stat")
    /\ UNCHANGED <<now, appends, written, MTIME, resolver, stat, got, calls,
                   caller, historyVars>>

(* RESOLVER.load().clone(), and the frame is resolved with it. *)
Load ==
    /\ caller = "load" /\ pc[Lazy] = "done"
    /\ caller' = "idle"
    /\ UNCHANGED <<now, fileVars, MTIME, resolver, pc, stat, got, calls,
                   historyVars>>

-----------------------------------------------------------------------------
(* init_resolver, in a refresh thread or in the Lazy *)

NoMap_Published(p) == Goto(p, "publish") /\ UNCHANGED got

(* Without a map a refresh thread ends; the Lazy's map is None. *)
NoMap(p) ==
    Goto(p, IF p = Lazy THEN "publish" ELSE "done") /\ UNCHANGED got

(* File::open, and the file's modification time *)
Stat(p) ==
    /\ pc[p] = "stat"
    /\ IF exists
       THEN /\ stat' = [stat EXCEPT ![p] = mtime]
            /\ Goto(p, "compare")
            /\ UNCHANGED got
       ELSE UNCHANGED stat /\ NoMap(p)
    /\ seen' = TRUE
    /\ UNCHANGED <<now, fileVars, MTIME, resolver, calls, caller, shown,
                   parsed, races>>

Compare(p) ==
    /\ pc[p] = "compare"
    /\ IF MTIME = stat[p] THEN NoMap(p)
       ELSE Goto(p, "store") /\ UNCHANGED got
    /\ UNCHANGED <<now, fileVars, MTIME, resolver, stat, calls, caller,
                   historyVars>>

Store_Millis(p) ==
    /\ pc[p] = "store"
    /\ MTIME' = stat[p] * 1000
    /\ Goto(p, "parse")
    /\ UNCHANGED <<now, fileVars, resolver, stat, got, calls, caller,
                   historyVars>>

Store(p) ==
    /\ pc[p] = "store"
    /\ MTIME' = stat[p]
    /\ Goto(p, "parse")
    /\ UNCHANGED <<now, fileVars, resolver, stat, got, calls, caller,
                   historyVars>>

(* PerfMap::new: a line that cannot be parsed makes the whole map None.    *)
(* Half a line may parse, with half a name.                                *)
Parse(p) ==
    /\ pc[p] = "parse"
    /\ \/ /\ ~broken
          /\ got' = [got EXCEPT ![p] = lines]
          /\ Goto(p, "publish")
          /\ UNCHANGED races
       \/ /\ broken \/ partial
          /\ NoMap(p)
          /\ races' = races \cup {IF broken THEN "broken" ELSE "torn"}
    /\ parsed' = parsed \cup {stat[p]}
    /\ UNCHANGED <<now, fileVars, MTIME, resolver, stat, calls, caller, seen,
                   shown>>

(* RESOLVER.store, or the value of the Lazy. *)
Publish(p) ==
    /\ pc[p] = "publish" /\ (p # Lazy => pc[Lazy] = "done")
    /\ resolver' = got[p]
    /\ Goto(p, "done")
    /\ got' = [got EXCEPT ![p] = {}]
    /\ shown' = IF stat[p] > shown THEN stat[p] ELSE shown
    /\ races' = IF stat[p] >= shown \/ (resolver \cap lines) \subseteq got[p]
                THEN races
                ELSE races \cup {"overtaken"}
    /\ UNCHANGED <<now, fileVars, MTIME, stat, calls, caller, seen, parsed>>

-----------------------------------------------------------------------------
Init ==
    /\ now = 1
    /\ exists = FALSE /\ lines = {} /\ mtime = 0 /\ partial = FALSE
    /\ cut = FALSE /\ broken = FALSE /\ appends \in BOOLEAN /\ written = 0
    /\ MTIME = 0 /\ resolver = {}
    /\ pc = [p \in Refreshers |-> "unset"]
    /\ stat = [p \in Refreshers |-> 0] /\ got = [p \in Refreshers |-> {}]
    /\ calls = 0 /\ caller = "idle"
    /\ seen = FALSE /\ shown = 0 /\ parsed = {} /\ races = {}

Refresh(p) == Stat(p) \/ Compare(p) \/ Store(p) \/ Parse(p) \/ Publish(p)
Resolve == ForceLazy \/ Touch \/ Load

Done == caller = "idle" /\ \A p \in Refreshers : pc[p] \in {"unset", "done"}

Next ==
    \/ Tick \/ \E whole \in BOOLEAN : JitWrite(whole)
    \/ GetResolver \/ Resolve
    \/ \E p \in Refreshers : Refresh(p)
    \/ Done /\ UNCHANGED vars

(* The scheduler runs every thread. *)
Spec == Init /\ [][Next]_vars
        /\ WF_vars(Resolve) /\ \A p \in Refreshers : WF_vars(Refresh(p))

-----------------------------------------------------------------------------
(* Properties *)

Lines == 1..MaxLines

(* Every variable keeps its type. *)
TypeOK ==
    /\ now \in 1..MaxTime /\ mtime \in 0..MaxTime /\ MTIME \in 0..MaxTime
    /\ lines \subseteq 1..written /\ resolver \subseteq 1..written
    /\ {exists, partial, cut, broken, appends, seen} \subseteq BOOLEAN
    /\ written \in 0..MaxLines /\ calls \in 0..MaxCalls
    /\ pc \in [Refreshers -> {"unset", "touch", "stat", "compare", "store",
                              "parse", "publish", "done"}]
    /\ stat \in [Refreshers -> 0..MaxTime]
    /\ got \in [Refreshers -> SUBSET Lines]
    /\ caller \in {"idle", "load"}
    /\ shown \in 0..MaxTime /\ parsed \subseteq 0..MaxTime
    /\ races \subseteq {"same second", "torn", "broken", "overtaken"}

(* Once a refresh that began after the JIT's last line is over, every      *)
(* address the file names is named, unless the file changed again within   *)
(* the second it was read in, was read with half a line or after touch cut *)
(* off what the JIT had written, or an older map was published last.       *)
FreshUnlessRaced ==
    Done /\ calls > 0 /\ seen /\ races = {} =>
        \A n \in lines : Find(resolver, CodeOf[n]) # {}

(* Every frame is resolved and every refresh thread ends, although they    *)
(* wait for whichever of them initialises RESOLVER.                        *)
RefreshEnds == calls > 0 ~> Done
=============================================================================
