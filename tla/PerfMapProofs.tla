---------------------------- MODULE PerfMapProofs ----------------------------
(* The maps of generated code: for any number of refresh threads, lines    *)
(* and seconds, a refresh that is over has named what the file names.      *)
EXTENDS PerfMap, TLAPS

-----------------------------------------------------------------------------
(* The inductive invariant *)

(* What is read, and by whom, is in order. *)
OrderInv ==
    /\ mtime <= now /\ MTIME <= mtime /\ (exists => mtime >= 1)
    /\ ~exists => mtime = 0 /\ lines = {}
    /\ \A p \in Refreshers : stat[p] <= mtime /\ got[p] \subseteq 1..written
    /\ \A w \in Workers : w > calls => pc[w] = "unset"
    /\ \A w \in Workers : pc[w] # "touch"
    /\ pc[Lazy] # "done" => shown = 0 /\ resolver = {}

(* A map is as new as its file when it is read, and until the file         *)
(* changes: within the second that would be a race.                        *)
ReadInv ==
    races = {} =>
        \A w \in Workers :
            pc[w] = "publish" /\ stat[w] = mtime =>
                mtime \in parsed /\ lines \subseteq got[w]

(* The resolver has the file's lines, or somebody is about to bring them.  *)
Published == mtime \in parsed /\ shown >= mtime /\ lines \subseteq resolver

Coming(p) ==
    /\ stat[p] = mtime
    /\ \/ pc[p] = "parse"
       \/ pc[p] = "publish" /\ mtime \in parsed /\ lines \subseteq got[p]

Covered == Published \/ \E p \in Refreshers : Coming(p)

(* Who finds its mtime in MTIME may leave: the map is somebody else's task. *)
ClaimInv == races = {} /\ exists /\ MTIME = mtime => Covered

Asking(p) == \/ pc[p] = "stat"
             \/ pc[p] \in {"compare", "store"} /\ stat[p] = mtime

SeenInv ==
    races = {} /\ exists /\ seen =>
        Covered \/ \E p \in Refreshers : Asking(p)

MapInv == ReadInv /\ ClaimInv /\ SeenInv

-----------------------------------------------------------------------------
(* Types and order *)

(* What every step of one refresher leaves alone. *)
OneMoves(p) ==
    \A q \in Refreshers \ {p} : pc'[q] = pc[q] /\ stat'[q] = stat[q] /\ got'[q] = got[q]

Places == {"unset", "touch", "stat", "compare", "store", "parse", "publish", "done"}

(* The types, in parts. *)
ClockTypes ==
    /\ now \in 1..MaxTime /\ mtime \in 0..MaxTime /\ MTIME \in 0..MaxTime
    /\ shown \in 0..MaxTime /\ parsed \subseteq 0..MaxTime
    /\ calls \in 0..MaxCalls /\ written \in 0..MaxLines
    /\ caller \in {"idle", "load"}
FlagTypes ==
    /\ exists \in BOOLEAN /\ partial \in BOOLEAN /\ cut \in BOOLEAN
    /\ broken \in BOOLEAN /\ appends \in BOOLEAN /\ seen \in BOOLEAN
MapTypes == lines \subseteq 1..written /\ resolver \subseteq 1..written
PlaceTypes ==
    /\ pc \in [Refreshers -> Places] /\ stat \in [Refreshers -> 0..MaxTime]
    /\ got \in [Refreshers -> SUBSET (1..MaxLines)]
RaceTypes == races \subseteq {"same second", "torn", "broken", "overtaken"}

(* The parts make up TypeOK, before and after a step. *)
LEMMA TypeParts ==
    /\ TypeOK <=> ClockTypes /\ FlagTypes /\ MapTypes /\ PlaceTypes /\ RaceTypes
    /\ TypeOK' <=> ClockTypes' /\ FlagTypes' /\ MapTypes' /\ PlaceTypes' /\ RaceTypes'
<1>1. {exists, partial, cut, broken, appends, seen} \subseteq BOOLEAN <=> FlagTypes
  BY Zenon DEF FlagTypes
<1>2. ({exists, partial, cut, broken, appends, seen} \subseteq BOOLEAN)' <=> FlagTypes'
  BY Zenon DEF FlagTypes
<1> QED
  BY <1>1, <1>2 DEF TypeOK, ClockTypes, MapTypes, PlaceTypes, RaceTypes, Lines, Places

(* The bounds are numbers. *)
LEMMA Bounds ==
    MaxLines \in Nat /\ MaxCalls \in Nat /\ MaxTime \in Nat /\ MaxTime >= 1
  BY PerfMapAssumption

(* Who refreshes. *)
LEMMA Constants ==
    /\ Lazy \in Refreshers /\ Lazy \notin Workers
    /\ \A p \in Refreshers : p # Lazy => p \in Workers
    /\ \A w \in Workers : w \in Refreshers /\ w # Lazy
  BY PerfMapAssumption DEF Refreshers, Workers, Lazy

(* The flags of the file and of the history. *)
LEMMA FlagStep == TypeOK /\ [Next]_vars => FlagTypes'
<1> SUFFICES ASSUME TypeOK, [Next]_vars PROVE FlagTypes'
  OBVIOUS
<1>0. FlagTypes
  BY TypeParts
<1> USE DEF FlagTypes, fileVars, historyVars
<1>1. CASE Tick \/ GetResolver \/ ForceLazy \/ Load \/ UNCHANGED vars
  <2>1. UNCHANGED <<exists, partial, cut, broken, appends, seen>>
    BY <1>1 DEF Tick, GetResolver, ForceLazy, Load, vars
  <2> QED
    BY <1>0, <2>1
<1>2. ASSUME NEW whole \in BOOLEAN, JitWrite(whole) PROVE FlagTypes'
  <2>1. exists' \in BOOLEAN /\ cut' \in BOOLEAN /\ appends' \in BOOLEAN /\ seen' \in BOOLEAN
        /\ partial' \in BOOLEAN
    BY <1>0, <1>2 DEF JitWrite
  <2>2. broken' \in BOOLEAN
    BY <1>2, Zenon DEF JitWrite
  <2> QED
    BY <2>1, <2>2
<1>3. CASE Touch
  <2>1. CASE Truncated
    <3>1. cut' \in BOOLEAN
      BY <2>1, Zenon DEF Truncated
    <3> QED
      BY <1>0, <1>3, <2>1, <3>1 DEF Touch, Truncated
  <2>2. CASE UNCHANGED <<exists, mtime, lines, partial, cut, broken>>
    BY <1>0, <1>3, <2>2 DEF Touch
  <2> QED
    BY <1>3, <2>1, <2>2 DEF Touch
<1>4. ASSUME NEW p \in Refreshers, Refresh(p) PROVE FlagTypes'
  BY <1>0, <1>4 DEF Refresh, Stat, Compare, Store, Parse, Publish
<1> QED
  BY <1>1, <1>2, <1>3, <1>4 DEF Next, Resolve

(* A refresh thread's step, with the types it keeps. *)
LEMMA RefreshTypes ==
    ASSUME TypeOK, OrderInv, NEW p \in Refreshers, Refresh(p)
    PROVE  /\ ClockTypes' /\ MapTypes' /\ PlaceTypes' /\ RaceTypes'
           /\ UNCHANGED <<now, fileVars, calls, caller>>
           /\ OneMoves(p)
<1>0. ClockTypes /\ MapTypes /\ PlaceTypes /\ RaceTypes
  BY TypeParts
<1>1. UNCHANGED <<now, fileVars, calls, caller>>
  BY DEF Refresh, Stat, Compare, Store, Parse, Publish
<1>2. UNCHANGED <<now, exists, lines, mtime, partial, cut, broken, appends, written,
                  calls, caller>>
  BY <1>1 DEF fileVars
<1>3. pc' \in [Refreshers -> Places] /\ \A q \in Refreshers \ {p} : pc'[q] = pc[q]
  BY <1>0 DEF PlaceTypes, Places, Goto, NoMap, Refresh, Stat, Compare, Store, Parse,
     Publish
<1>4. /\ stat' \in [Refreshers -> 0..MaxTime]
      /\ \A q \in Refreshers \ {p} : stat'[q] = stat[q]
  BY <1>0 DEF PlaceTypes, ClockTypes, NoMap, Refresh, Stat, Compare, Store, Parse,
     Publish
<1>5. lines \subseteq 1..MaxLines /\ written \in Nat
  BY <1>0, Bounds DEF MapTypes, ClockTypes
<1>6. /\ got' \in [Refreshers -> SUBSET (1..MaxLines)]
      /\ \A q \in Refreshers \ {p} : got'[q] = got[q]
  BY <1>0, <1>5 DEF PlaceTypes, NoMap, Refresh, Stat, Compare, Store, Parse, Publish
<1>7. stat[p] \in 0..MaxTime /\ got[p] \subseteq 1..written
  BY <1>0 DEF PlaceTypes, OrderInv
<1>8. ClockTypes'
  <2>1. MTIME' \in {MTIME, stat[p]} /\ shown' \in {shown, stat[p]}
        /\ parsed' \subseteq parsed \cup {stat[p]}
    BY DEF Refresh, Stat, Compare, Store, Parse, Publish, historyVars
  <2> QED
    BY <1>0, <1>2, <1>7, <2>1 DEF ClockTypes
<1>9. MapTypes'
  BY <1>0, <1>2, <1>7 DEF MapTypes, Refresh, Stat, Compare, Store, Parse, Publish
<1>10. RaceTypes'
  BY <1>0 DEF RaceTypes, Refresh, Stat, Compare, Store, Parse, Publish, historyVars
<1> QED
  BY <1>1, <1>3, <1>4, <1>6, <1>8, <1>9, <1>10 DEF PlaceTypes, OneMoves

(* The order of a refresh thread's steps. *)
LEMMA RefreshOrder ==
    ASSUME TypeOK, OrderInv, NEW p \in Refreshers, Refresh(p)
    PROVE  OrderInv'
<1>0. ClockTypes /\ MapTypes /\ PlaceTypes
  BY TypeParts
<1>1. /\ UNCHANGED <<now, exists, lines, mtime, written, calls>>
      /\ OneMoves(p)
  BY RefreshTypes DEF fileVars
<1>2. pc[p] \notin {"unset", "touch"} /\ pc'[p] # "touch" /\ pc[p] # "done"
  BY <1>0 DEF PlaceTypes, Goto, NoMap, Refresh, Stat, Compare, Store, Parse, Publish
<1>3. mtime \in Nat /\ stat[p] <= mtime /\ stat'[p] <= mtime
  <2>1. stat'[p] \in {stat[p], mtime}
    BY <1>0 DEF PlaceTypes, NoMap, Refresh, Stat, Compare, Store, Parse, Publish
  <2> QED
    BY <1>0, <2>1, Bounds DEF OrderInv, ClockTypes
<1>4. got'[p] \subseteq 1..written
  <2>1. got'[p] \in {got[p], lines, {}}
    BY <1>0 DEF PlaceTypes, NoMap, Refresh, Stat, Compare, Store, Parse, Publish
  <2> QED
    BY <1>0, <2>1 DEF OrderInv, MapTypes
<1>5. MTIME' <= mtime
  BY <1>3 DEF OrderInv, Refresh, Stat, Compare, Store, Parse, Publish
<1>6. pc'[Lazy] # "done" => shown' = 0 /\ resolver' = {}
  <2> SUFFICES ASSUME pc'[Lazy] # "done" PROVE shown' = 0 /\ resolver' = {}
    OBVIOUS
  <2>1. pc[Lazy] # "done"
    BY <1>1, <1>2, Constants DEF OneMoves
  <2>2. ~Publish(p)
    BY <1>0, <2>1, Constants DEF Publish, Goto, PlaceTypes
  <2>3. UNCHANGED <<shown, resolver>>
    BY <2>2 DEF Refresh, Stat, Compare, Store, Parse, historyVars
  <2> QED
    BY <2>1, <2>3 DEF OrderInv
<1>7. \A q \in Refreshers : stat'[q] <= mtime' /\ got'[q] \subseteq 1..written'
  BY <1>1, <1>3, <1>4 DEF OrderInv, OneMoves
<1>8. \A w \in Workers : w > calls' => pc'[w] = "unset"
  BY <1>1, <1>2, Constants DEF OrderInv, OneMoves
<1>9. \A w \in Workers : pc'[w] # "touch"
  BY <1>1, <1>2, Constants DEF OrderInv, OneMoves
<1> QED
  BY <1>1, <1>5, <1>6, <1>7, <1>8, <1>9 DEF OrderInv

(* The steps of the clock, the JIT and the reporting thread. *)
LEMMA OtherOrder ==
    ASSUME TypeOK, OrderInv,
           \/ Tick \/ \E whole \in BOOLEAN : JitWrite(whole)
           \/ GetResolver \/ Resolve
    PROVE  ClockTypes' /\ MapTypes' /\ PlaceTypes' /\ RaceTypes' /\ OrderInv'
<1>0. ClockTypes /\ MapTypes /\ PlaceTypes /\ RaceTypes
  BY TypeParts
<1>1. CASE Tick
  <2>1. /\ now < MaxTime /\ now' = now + 1
        /\ UNCHANGED <<exists, lines, mtime, written, MTIME, resolver, pc, stat, got,
                       calls, caller, shown, parsed, races>>
    BY <1>1 DEF Tick, fileVars, historyVars
  <2>2. ClockTypes' /\ MapTypes' /\ PlaceTypes' /\ RaceTypes'
    <3>1. ClockTypes'
      BY <1>0, <2>1, Bounds DEF ClockTypes
    <3> QED
      BY <1>0, <2>1, <3>1 DEF MapTypes, PlaceTypes, RaceTypes
  <2>3. OrderInv'
    BY <1>0, <2>1, Bounds DEF OrderInv, ClockTypes
  <2> QED
    BY <2>2, <2>3
<1>2. ASSUME NEW whole \in BOOLEAN, JitWrite(whole)
      PROVE  ClockTypes' /\ MapTypes' /\ PlaceTypes' /\ RaceTypes' /\ OrderInv'
  <2>1. /\ UNCHANGED <<now, MTIME, resolver, pc, stat, got, calls, caller, shown, parsed>>
        /\ exists' /\ mtime' = now
        /\ written < MaxLines
        /\ \/ lines' = lines \cup {written + 1} /\ written' = written + 1
           \/ lines' = lines /\ written' = written
        /\ races' \in {races, races \cup {"same second"}}
    BY <1>2 DEF JitWrite
  <2>2. written \in Nat /\ written' \in Nat /\ written <= written' /\ written' <= MaxLines
    <3>1. written \in 0..MaxLines /\ MaxLines \in Nat
      BY <1>0, Bounds DEF ClockTypes
    <3>2. written' \in {written, written + 1} /\ written < MaxLines
      BY <2>1
    <3> QED
      BY <3>1, <3>2
  <2>3. 1..written \subseteq 1..written' /\ lines' \subseteq 1..written'
    <3>1. 1..written \subseteq 1..written'
      BY <2>2
    <3>2. lines' \subseteq lines \cup {written'} /\ (lines' = lines \/ written' # 0)
      <4>1. CASE lines' = lines
        BY <4>1
      <4>2. CASE lines' = lines \cup {written + 1} /\ written' = written + 1
        BY <2>2, <4>2
      <4> QED
        BY <2>1, <4>1, <4>2
    <3>3. written' # 0 => written' \in 1..written'
      BY <2>2
    <3> QED
      BY <1>0, <3>1, <3>2, <3>3 DEF MapTypes
  <2>4. ClockTypes' /\ PlaceTypes' /\ RaceTypes' /\ MapTypes'
    <3>1. ClockTypes'
      <4>1. UNCHANGED <<now, MTIME, calls, caller, shown, parsed>> /\ mtime' = now
        BY <2>1
      <4> QED
        BY <1>0, <2>2, <4>1, Bounds DEF ClockTypes
    <3>2. PlaceTypes' /\ RaceTypes' /\ MapTypes'
      BY <1>0, <2>1, <2>3 DEF MapTypes, PlaceTypes, RaceTypes
    <3> QED
      BY <3>1, <3>2
  <2>5. \A p \in Refreshers : stat[p] \in Nat
    BY <1>0, Bounds DEF PlaceTypes
  <2>6. MTIME \in Nat /\ mtime \in Nat /\ now \in Nat /\ now >= 1
    BY <1>0, Bounds DEF ClockTypes
  <2>7. OrderInv'
    <3>1. \A p \in Refreshers : stat[p] <= now /\ got[p] \subseteq 1..written'
      BY <2>3, <2>5, <2>6 DEF OrderInv
    <3>2. MTIME <= now
      BY <2>6 DEF OrderInv
    <3> QED
      <4>1. UNCHANGED <<now, MTIME, calls, pc, stat, got, resolver, shown>>
            /\ mtime' = now /\ exists'
        BY <2>1
      <4> QED
        BY <2>6, <3>1, <3>2, <4>1 DEF OrderInv
  <2> QED
    BY <2>4, <2>7
<1>3. CASE GetResolver
  <2>1. /\ UNCHANGED <<now, MTIME, exists, lines, mtime, written, resolver, stat, got,
                       shown, parsed, races>>
        /\ calls' = calls + 1 /\ calls < MaxCalls /\ caller' = "load"
        /\ pc' = [pc EXCEPT ![calls + 1] = "stat"]
    BY <1>3 DEF GetResolver, fileVars, historyVars, Goto
  <2>2. calls \in Nat /\ calls + 1 \in Workers
    BY <1>0, <2>1, Bounds DEF ClockTypes, Workers
  <2>3. /\ \A q \in Refreshers \ {calls + 1} : pc'[q] = pc[q]
        /\ pc'[calls + 1] = "stat" /\ pc' \in [Refreshers -> Places]
    BY <1>0, <2>1, <2>2, Constants DEF PlaceTypes, Places
  <2>4. ClockTypes' /\ MapTypes' /\ PlaceTypes' /\ RaceTypes'
    <3>1. ClockTypes'
      BY <1>0, <2>1, <2>2, Bounds DEF ClockTypes
    <3> QED
      BY <1>0, <2>1, <2>3, <3>1 DEF MapTypes, PlaceTypes, RaceTypes
  <2>5. \A w \in Workers : (w > calls + 1 => pc'[w] = "unset") /\ pc'[w] # "touch"
    <3>1. \A w \in Workers : w \in Nat
      BY DEF Workers
    <3> QED
      BY <2>2, <2>3, <3>1, Constants DEF OrderInv
  <2>6. pc'[Lazy] = pc[Lazy]
    BY <2>2, <2>3, Constants
  <2>7. OrderInv'
    BY <2>1, <2>5, <2>6 DEF OrderInv
  <2> QED
    BY <2>4, <2>7
<1>4. CASE ForceLazy
  <2>1. /\ UNCHANGED <<now, MTIME, exists, lines, mtime, written, resolver, stat, got,
                       shown, parsed, races, calls, caller>>
        /\ pc' = [pc EXCEPT ![Lazy] = "touch"] /\ pc[Lazy] = "unset"
    BY <1>4 DEF ForceLazy, fileVars, historyVars, Goto
  <2>2. /\ \A q \in Workers : pc'[q] = pc[q]
        /\ pc'[Lazy] = "touch" /\ pc' \in [Refreshers -> Places]
    BY <1>0, <2>1, Constants DEF PlaceTypes, Places
  <2>3. ClockTypes' /\ MapTypes' /\ PlaceTypes' /\ RaceTypes'
    BY <1>0, <2>1, <2>2 DEF ClockTypes, MapTypes, PlaceTypes, RaceTypes
  <2>4. OrderInv'
    BY <2>1, <2>2 DEF OrderInv
  <2> QED
    BY <2>3, <2>4
<1>5. CASE Touch
  <2>1. /\ UNCHANGED <<now, MTIME, written, resolver, stat, got, shown, parsed, races,
                       calls, caller>>
        /\ pc' = [pc EXCEPT ![Lazy] = "stat"] /\ pc[Lazy] = "touch"
        /\ \/ exists' /\ mtime' = now /\ lines' = {}
           \/ UNCHANGED <<exists, mtime, lines>>
    BY <1>5 DEF Touch, Truncated, historyVars, Goto
  <2>2. /\ \A q \in Workers : pc'[q] = pc[q]
        /\ pc'[Lazy] = "stat" /\ pc' \in [Refreshers -> Places]
    BY <1>0, <2>1, Constants DEF PlaceTypes, Places
  <2>3. ClockTypes' /\ MapTypes' /\ PlaceTypes' /\ RaceTypes'
    <3>1. mtime' \in {now, mtime} /\ lines' \subseteq lines
          /\ UNCHANGED <<now, MTIME, written, resolver, stat, got, shown, parsed,
                         races, calls, caller>>
      BY <2>1
    <3>2. ClockTypes'
      BY <1>0, <3>1, Bounds DEF ClockTypes
    <3> QED
      BY <1>0, <2>2, <3>1, <3>2 DEF MapTypes, PlaceTypes, RaceTypes
  <2>4. (\A p \in Refreshers : stat[p] \in Nat)
        /\ MTIME \in Nat /\ mtime \in Nat /\ now \in Nat /\ now >= 1
    BY <1>0, Bounds DEF PlaceTypes, ClockTypes
  <2>5. OrderInv'
    BY <2>1, <2>2, <2>4, Constants DEF OrderInv
  <2> QED
    BY <2>3, <2>5
<1>6. CASE Load
  BY <1>0, <1>6 DEF Load, ClockTypes, MapTypes, PlaceTypes, RaceTypes, OrderInv,
     fileVars, historyVars
<1> QED
  BY <1>1, <1>2, <1>3, <1>4, <1>5, <1>6 DEF Resolve

(* Types and order hold in every state. *)
LEMMA OrderStep == TypeOK /\ OrderInv /\ [Next]_vars => TypeOK' /\ OrderInv'
<1> SUFFICES ASSUME TypeOK, OrderInv, [Next]_vars PROVE TypeOK' /\ OrderInv'
  OBVIOUS
<1>1. FlagTypes'
  BY FlagStep
<1>2. CASE UNCHANGED vars
  BY <1>2 DEF vars, fileVars, historyVars, TypeOK, OrderInv
<1>3. ASSUME NEW p \in Refreshers, Refresh(p) PROVE TypeOK' /\ OrderInv'
  BY <1>1, <1>3, RefreshTypes, RefreshOrder, TypeParts
<1> QED
  BY <1>1, <1>2, <1>3, OtherOrder, TypeParts DEF Next

(* Initially no refresh is under way and no map has been published. *)
LEMMA OrderInit == Init => TypeOK /\ OrderInv
<1> SUFFICES ASSUME Init PROVE TypeOK /\ OrderInv
  OBVIOUS
<1> USE DEF Init
<1>1. ClockTypes /\ MapTypes /\ PlaceTypes /\ RaceTypes
  BY Bounds DEF ClockTypes, MapTypes, PlaceTypes, RaceTypes, Places
<1>2. FlagTypes
  BY DEF FlagTypes
<1>3. OrderInv
  BY Constants DEF OrderInv
<1> QED
  BY <1>1, <1>2, <1>3, TypeParts

(* Every variable of the perf map resolver (perfmap.rs) keeps its type,    *)
(* however many frames are resolved.                                       *)
THEOREM TypeCorrect == Spec => []TypeOK
  BY OrderInit, OrderStep, PTL DEF Spec

-----------------------------------------------------------------------------
(* The maps *)

(* Somebody's step that leaves the file and the resolver alone keeps the   *)
(* lines covered, unless it was the one to bring them.                     *)
LEMMA CoveredKept ==
    ASSUME NEW p \in Refreshers, OneMoves(p), Covered,
           UNCHANGED <<mtime, resolver, shown>>, lines' \subseteq lines,
           parsed \subseteq parsed', Coming(p) => Coming(p)'
    PROVE  Covered'
<1>1. CASE Published
  BY <1>1 DEF Published, Covered
<1>2. ASSUME NEW q \in Refreshers, Coming(q) PROVE Covered'
  <2>1. CASE q = p
    BY <1>2, <2>1 DEF Covered
  <2>2. CASE q # p
    BY <1>2, <2>2 DEF Covered, Coming, OneMoves
  <2> QED
    BY <2>1, <2>2
<1> QED
  BY <1>1, <1>2 DEF Covered

(* stat(2), and the comparison with MTIME. *)
LEMMA AskStep ==
    ASSUME TypeOK, OrderInv, MapInv, NEW p \in Refreshers,
           Stat(p) \/ Compare(p) \/ Store(p)
    PROVE  MapInv'
<1>0. PlaceTypes /\ p \in Refreshers
  BY TypeParts
<1>1. /\ UNCHANGED <<mtime, resolver, shown, lines, parsed, exists, races>>
      /\ OneMoves(p)
  <2>1. Refresh(p)
    BY DEF Refresh
  <2> QED
    BY <2>1, RefreshTypes DEF fileVars, Stat, Compare, Store, historyVars
<1>2. pc[p] \in {"stat", "compare", "store"}
  BY DEF Stat, Compare, Store
<1>3. p \in Workers => pc'[p] # "publish"
  BY <1>0, Constants DEF Stat, Compare, Store, Goto, NoMap, PlaceTypes
<1>4. ReadInv'
  BY <1>1, <1>3, Constants DEF MapInv, ReadInv, OneMoves
<1>5. Covered => Covered'
  <2>1. ~Coming(p)
    BY <1>2 DEF Coming
  <2> QED
    BY <1>1, <2>1, CoveredKept
<1>6. ASSUME races = {}, exists, Asking(p)
      PROVE  Covered' \/ Asking(p)'
  <2>1. CASE Stat(p)
    <3>1. stat'[p] = mtime /\ pc'[p] = "compare"
      BY <1>0, <1>6, <2>1 DEF Stat, Goto, PlaceTypes
    <3> QED
      BY <1>1, <3>1 DEF Asking
  <2>2. CASE Compare(p)
    <3>1. stat[p] = mtime /\ stat'[p] = stat[p]
      BY <1>6, <2>2 DEF Compare, Asking
    <3>2. CASE MTIME = stat[p]
      BY <1>5, <1>6, <3>1, <3>2 DEF MapInv, ClaimInv
    <3>3. CASE MTIME # stat[p]
      <4>1. pc'[p] = "store"
        BY <1>0, <2>2, <3>3 DEF Compare, Goto, PlaceTypes
      <4> QED
        BY <1>1, <3>1, <4>1 DEF Asking
    <3> QED
      BY <3>2, <3>3
  <2>3. CASE Store(p)
    <3>1. stat'[p] = mtime /\ pc'[p] = "parse"
      BY <1>0, <1>6, <2>3 DEF Store, Goto, PlaceTypes, Asking
    <3> QED
      BY <1>1, <3>1 DEF Coming, Covered
  <2> QED
    BY <2>1, <2>2, <2>3
<1>7. ClaimInv'
  <2> SUFFICES ASSUME races = {}, exists, MTIME' = mtime PROVE Covered'
    BY <1>1 DEF ClaimInv
  <2>1. CASE Store(p)
    <3>1. stat'[p] = mtime /\ pc'[p] = "parse"
      BY <1>0, <2>1 DEF Store, Goto, PlaceTypes
    <3> QED
      BY <1>1, <3>1 DEF Coming, Covered
  <2>2. CASE Stat(p) \/ Compare(p)
    <3>1. MTIME' = MTIME
      BY <2>2 DEF Stat, Compare
    <3> QED
      BY <1>5, <3>1 DEF MapInv, ClaimInv
  <2> QED
    BY <2>1, <2>2
<1>8. SeenInv'
  <2> SUFFICES ASSUME races = {}, exists, seen'
               PROVE  Covered' \/ \E q \in Refreshers : Asking(q)'
    BY <1>1 DEF SeenInv
  <2>1. CASE Stat(p)
    <3>1. Asking(p)
      BY <2>1 DEF Stat, Asking
    <3> QED
      BY <1>6, <3>1
  <2>2. CASE Compare(p) \/ Store(p)
    <3>1. seen
      BY <2>2 DEF Compare, Store, historyVars
    <3>2. CASE Covered
      BY <1>5, <3>2
    <3>3. ASSUME NEW q \in Refreshers, Asking(q)
          PROVE  Covered' \/ \E r \in Refreshers : Asking(r)'
      <4>1. CASE q = p
        BY <1>6, <3>3, <4>1
      <4>2. CASE q # p
        BY <1>1, <3>3, <4>2 DEF Asking, OneMoves
      <4> QED
        BY <4>1, <4>2
    <3> QED
      BY <3>1, <3>2, <3>3 DEF MapInv, SeenInv
  <2> QED
    BY <2>1, <2>2
<1> QED
  BY <1>4, <1>7, <1>8 DEF MapInv

(* PerfMap::new: the file is read as it is now. *)
LEMMA ParseStep ==
    ASSUME TypeOK, OrderInv, MapInv, NEW p \in Refreshers, Parse(p)
    PROVE  MapInv'
<1>0. PlaceTypes
  BY TypeParts
<1>1. /\ UNCHANGED <<mtime, MTIME, resolver, shown, lines, exists, seen, stat>>
      /\ OneMoves(p)
  <2>1. Refresh(p)
    BY DEF Refresh
  <2> QED
    BY <2>1, RefreshTypes DEF fileVars, Parse
<1>2. parsed' = parsed \cup {stat[p]} /\ pc[p] = "parse" /\ (races' = {} => races = {})
  BY DEF Parse
<1>3. races' = {} => got'[p] = lines /\ pc'[p] = "publish"
  BY <1>0 DEF Parse, Goto, PlaceTypes
<1>4. races' = {} /\ Coming(p) => Coming(p)'
  BY <1>1, <1>2, <1>3 DEF Coming
<1>5. races' = {} /\ Covered => Covered'
  BY <1>1, <1>2, <1>4, CoveredKept
<1>6. ReadInv'
  <2> SUFFICES ASSUME races' = {}, NEW w \in Workers, pc'[w] = "publish", stat'[w] = mtime
               PROVE  mtime \in parsed' /\ lines \subseteq got'[w]
    BY <1>1 DEF ReadInv
  <2>1. CASE w = p
    BY <1>1, <1>2, <1>3, <2>1
  <2>2. CASE w # p
    BY <1>1, <1>2, <2>2, Constants DEF MapInv, ReadInv, OneMoves
  <2> QED
    BY <2>1, <2>2
<1>7. ClaimInv'
  BY <1>1, <1>2, <1>5 DEF MapInv, ClaimInv
<1>8. SeenInv'
  <2>1. ~Asking(p)
    BY <1>2 DEF Asking
  <2>2. \A q \in Refreshers : Asking(q) => Asking(q)'
    BY <1>1, <2>1 DEF Asking, OneMoves
  <2> QED
    BY <1>1, <1>2, <1>5, <2>2 DEF MapInv, SeenInv
<1> QED
  BY <1>6, <1>7, <1>8 DEF MapInv

(* RESOLVER.store: the lines get there, and stay unless an older map       *)
(* takes their place, which is a race.                                     *)
LEMMA PublishStep ==
    ASSUME TypeOK, OrderInv, MapInv, NEW p \in Refreshers, Publish(p)
    PROVE  MapInv'
<1>0. PlaceTypes /\ ClockTypes
  BY TypeParts
<1>1. /\ UNCHANGED <<mtime, MTIME, lines, exists, seen, stat, parsed>>
      /\ OneMoves(p)
  <2>1. Refresh(p)
    BY DEF Refresh
  <2> QED
    BY <2>1, RefreshTypes DEF fileVars, Publish
<1>2. /\ pc[p] = "publish" /\ pc'[p] = "done" /\ resolver' = got[p]
      /\ p # Lazy => pc[Lazy] = "done"
      /\ shown' = IF stat[p] > shown THEN stat[p] ELSE shown
  BY <1>0 DEF Publish, Goto, PlaceTypes
<1>3. races' = {} =>
         races = {} /\ (stat[p] >= shown \/ (resolver \cap lines) \subseteq got[p])
  BY DEF Publish
<1>4. mtime \in Nat /\ shown \in Nat /\ stat[p] \in Nat /\ stat[p] <= mtime
  BY <1>0, Bounds DEF ClockTypes, PlaceTypes, OrderInv
<1>5. ASSUME races' = {}, exists, Covered PROVE Covered'
  <2>1. ASSUME NEW q \in Refreshers, Coming(q) PROVE Covered'
    <3>1. CASE q = p
      <4>1. stat[p] = mtime /\ mtime \in parsed /\ lines \subseteq got[p]
        BY <1>2, <2>1, <3>1 DEF Coming
      <4>2. shown' >= mtime
        BY <1>2, <1>4, <4>1
      <4> QED
        BY <1>1, <1>2, <4>1, <4>2 DEF Covered, Published
    <3>2. CASE q # p
      BY <1>1, <2>1, <3>2 DEF Covered, Coming, OneMoves
    <3> QED
      BY <3>1, <3>2
  <2>2. CASE Published
    <3>1. mtime \in parsed /\ shown >= mtime /\ lines \subseteq resolver
      BY <2>2 DEF Published
    <3>2. shown' >= mtime
      BY <1>2, <1>4, <3>1
    <3>3. pc[Lazy] = "done"
      BY <1>4, <1>5, <3>1 DEF OrderInv
    <3>4. p \in Workers
      BY <1>2, <3>3, Constants
    <3>5. lines \subseteq got[p]
      <4>1. CASE stat[p] >= shown
        <5>1. stat[p] = mtime
          BY <1>4, <3>1, <4>1
        <5> QED
          BY <1>2, <1>3, <1>5, <3>4, <5>1 DEF MapInv, ReadInv
      <4>2. CASE (resolver \cap lines) \subseteq got[p]
        BY <3>1, <4>2
      <4> QED
        BY <1>3, <1>5, <4>1, <4>2
    <3> QED
      BY <1>1, <1>2, <3>1, <3>2, <3>5 DEF Covered, Published
  <2> QED
    BY <1>5, <2>1, <2>2 DEF Covered
<1>6. ReadInv'
  BY <1>1, <1>2, <1>3, Constants DEF MapInv, ReadInv, OneMoves
<1>7. ClaimInv'
  BY <1>1, <1>3, <1>5 DEF MapInv, ClaimInv
<1>8. SeenInv'
  <2>1. \A q \in Refreshers : Asking(q) => Asking(q)'
    BY <1>1, <1>2 DEF Asking, OneMoves
  <2> QED
    BY <1>1, <1>3, <1>5, <2>1 DEF MapInv, SeenInv
<1> QED
  BY <1>6, <1>7, <1>8 DEF MapInv

(* The JIT writes: in a second whose file nobody has read, or it is a race. *)
LEMMA JitStep ==
    ASSUME TypeOK, OrderInv, MapInv, NEW whole \in BOOLEAN, JitWrite(whole)
    PROVE  MapInv'
<1>0. PlaceTypes /\ ClockTypes
  BY TypeParts
<1>1. /\ UNCHANGED <<MTIME, pc, stat, parsed>>
      /\ mtime' = now /\ ~seen'
      /\ races' = {} => races = {} /\ now \notin parsed
  BY DEF JitWrite
<1>2. mtime \in Nat /\ now \in Nat /\ MTIME \in Nat /\ MTIME <= mtime /\ mtime <= now
      /\ now >= 1
  BY <1>0, Bounds DEF ClockTypes, OrderInv
<1>3. \A p \in Refreshers : stat[p] \in Nat /\ stat[p] <= mtime
  BY <1>0, Bounds DEF PlaceTypes, OrderInv
<1>4. ReadInv'
  <2> SUFFICES ASSUME races' = {}, NEW w \in Workers, pc[w] = "publish", stat[w] = now
               PROVE  FALSE
    BY <1>1 DEF ReadInv
  <2>1. stat[w] = mtime
    BY <1>2, <1>3, Constants
  <2> QED
    BY <1>1, <2>1 DEF MapInv, ReadInv
<1>5. ClaimInv'
  <2> SUFFICES ASSUME races' = {}, MTIME = now PROVE Covered'
    BY <1>1 DEF ClaimInv
  <2>1. mtime = now /\ exists
    BY <1>2 DEF OrderInv
  <2>2. Covered /\ mtime \notin parsed
    BY <1>1, <2>1 DEF MapInv, ClaimInv
  <2>3. PICK p \in Refreshers : stat[p] = mtime /\ pc[p] = "parse"
    BY <2>2 DEF Covered, Published, Coming
  <2> QED
    BY <1>1, <2>1, <2>3 DEF Covered, Coming
<1>6. SeenInv'
  BY <1>1 DEF SeenInv
<1> QED
  BY <1>4, <1>5, <1>6 DEF MapInv

(* touch: an empty file, and a Lazy that is about to ask for it. *)
LEMMA TouchStep ==
    ASSUME TypeOK, OrderInv, MapInv, Touch
    PROVE  MapInv'
<1>0. PlaceTypes /\ ClockTypes
  BY TypeParts
<1>1. /\ UNCHANGED <<MTIME, stat, got, parsed, resolver, shown, races>>
      /\ pc' = [pc EXCEPT ![Lazy] = "stat"] /\ pc[Lazy] = "touch"
      /\ \/ mtime' = now /\ lines' = {}
         \/ UNCHANGED <<mtime, lines, exists>>
  BY DEF Touch, Truncated, historyVars, Goto
<1>2. pc'[Lazy] = "stat" /\ \A q \in Refreshers \ {Lazy} : pc'[q] = pc[q]
  BY <1>0, <1>1, Constants DEF PlaceTypes
<1>3. OneMoves(Lazy) /\ Lazy \in Refreshers /\ ~Coming(Lazy)
  BY <1>1, <1>2, Constants DEF OneMoves, Coming
<1>4. mtime \in Nat /\ now \in Nat /\ MTIME \in Nat /\ MTIME <= mtime /\ mtime <= now
      /\ now >= 1
  BY <1>0, Bounds DEF ClockTypes, OrderInv
<1>5. \A p \in Refreshers : stat[p] \in Nat /\ stat[p] <= mtime
  BY <1>0, Bounds DEF PlaceTypes, OrderInv
<1>6. \A w \in Workers : stat[w] = mtime' => stat[w] = mtime
  BY <1>1, <1>4, <1>5, Constants
<1>7. ReadInv'
  <2> SUFFICES ASSUME races = {}, NEW w \in Workers, pc'[w] = "publish", stat[w] = mtime'
               PROVE  mtime' \in parsed /\ lines' \subseteq got[w]
    BY <1>1 DEF ReadInv
  <2>1. pc[w] = "publish" /\ stat[w] = mtime
    BY <1>2, <1>6, Constants
  <2>2. mtime \in parsed /\ lines \subseteq got[w]
    BY <2>1 DEF MapInv, ReadInv
  <2> QED
    BY <1>1, <2>1, <2>2
<1>8. ClaimInv'
  <2> SUFFICES ASSUME races = {}, exists', MTIME = mtime' PROVE Covered'
    BY <1>1 DEF ClaimInv
  <2>1. mtime' = mtime
    <3>1. mtime' = now \/ mtime' = mtime
      BY <1>1
    <3> QED
      BY <1>4, <3>1
  <2>2. exists
    <3>1. mtime' = now \/ (exists' <=> exists)
      BY <1>1
    <3>2. mtime' = now => mtime # 0
      BY <1>4, <2>1
    <3> QED
      BY <3>1, <3>2 DEF OrderInv
  <2>3. Covered
    BY <2>1, <2>2 DEF MapInv, ClaimInv
  <2>4. lines' \subseteq lines
    BY <1>1
  <2> QED
    BY <1>1, <1>3, <2>1, <2>3, <2>4, CoveredKept
<1>9. SeenInv'
  BY <1>2, <1>3 DEF SeenInv, Asking
<1> QED
  BY <1>7, <1>8, <1>9 DEF MapInv

(* A frame is resolved, and somebody initialises RESOLVER. *)
LEMMA CallStep ==
    ASSUME TypeOK, OrderInv, MapInv, GetResolver \/ ForceLazy
    PROVE  MapInv'
<1>0. PlaceTypes /\ ClockTypes
  BY TypeParts
<1>1. /\ UNCHANGED <<mtime, lines, exists, MTIME, stat, got, parsed, resolver, shown,
                     races, seen>>
      /\ \/ pc' = [pc EXCEPT ![calls + 1] = "stat"] /\ calls < MaxCalls
         \/ pc' = [pc EXCEPT ![Lazy] = "touch"] /\ pc[Lazy] = "unset"
  BY DEF GetResolver, ForceLazy, fileVars, historyVars, Goto
<1>2. PICK p \in Refreshers :
         pc[p] = "unset" /\ pc'[p] \in {"stat", "touch"} /\ OneMoves(p)
  <2>1. CASE pc' = [pc EXCEPT ![calls + 1] = "stat"] /\ calls < MaxCalls
    <3>1. calls + 1 \in Workers /\ calls + 1 > calls
      BY <1>0, <2>1, Bounds DEF ClockTypes, Workers
    <3>2. calls + 1 \in Refreshers /\ pc[calls + 1] = "unset"
      BY <3>1, Constants DEF OrderInv
    <3>3. pc'[calls + 1] = "stat" /\ OneMoves(calls + 1)
      BY <1>0, <1>1, <2>1, <3>2 DEF OneMoves, PlaceTypes
    <3> QED
      BY <3>2, <3>3
  <2>2. CASE pc' = [pc EXCEPT ![Lazy] = "touch"] /\ pc[Lazy] = "unset"
    <3>1. pc'[Lazy] = "touch" /\ OneMoves(Lazy) /\ Lazy \in Refreshers
      BY <1>0, <1>1, <2>2, Constants DEF OneMoves, PlaceTypes
    <3> QED
      BY <2>2, <3>1
  <2> QED
    BY <1>1, <2>1, <2>2
<1>3. ~Coming(p) /\ ~Asking(p)
  BY <1>2 DEF Coming, Asking
<1>4. Covered => Covered'
  BY <1>1, <1>2, <1>3, CoveredKept
<1>5. \A q \in Refreshers : Asking(q) => Asking(q)'
  BY <1>1, <1>2, <1>3 DEF Asking, OneMoves
<1>6. ReadInv'
  BY <1>1, <1>2, Constants DEF MapInv, ReadInv, OneMoves
<1> QED
  BY <1>1, <1>4, <1>5, <1>6 DEF MapInv, ClaimInv, SeenInv

(* Every step keeps the lines covered. *)
LEMMA MapStep == TypeOK /\ OrderInv /\ MapInv /\ [Next]_vars => MapInv'
<1> SUFFICES ASSUME TypeOK, OrderInv, MapInv, [Next]_vars PROVE MapInv'
  OBVIOUS
<1>1. CASE Tick \/ Load \/ UNCHANGED vars
  <2>1. UNCHANGED <<exists, lines, mtime, MTIME, resolver, pc, stat, got, seen, shown,
                    parsed, races>>
    BY <1>1 DEF Tick, Load, vars, fileVars, historyVars
  <2> QED
    BY <2>1 DEF MapInv, ReadInv, ClaimInv, SeenInv, Covered, Published, Coming, Asking
<1>2. ASSUME NEW p \in Refreshers, Refresh(p) PROVE MapInv'
  BY <1>2, AskStep, ParseStep, PublishStep DEF Refresh
<1> QED
  BY <1>1, <1>2, JitStep, TouchStep, CallStep DEF Next, Resolve

(* At first there is no file. *)
LEMMA MapInit == Init => MapInv
  BY Constants DEF Init, MapInv, ReadInv, ClaimInv, SeenInv

(* When all refreshes are over, nobody is left to bring the lines: the     *)
(* resolver has them.                                                      *)
LEMMA DoneIsFresh == TypeOK /\ OrderInv /\ MapInv => FreshUnlessRaced
<1> SUFFICES ASSUME TypeOK, OrderInv, MapInv, Done, seen, races = {}, NEW n \in lines
             PROVE  Find(resolver, CodeOf[n]) # {}
  BY DEF FreshUnlessRaced
<1>1. exists
  BY DEF OrderInv
<1>2. \A p \in Refreshers : ~Asking(p) /\ ~Coming(p)
  BY DEF Done, Asking, Coming
<1>3. lines \subseteq resolver
  BY <1>1, <1>2 DEF MapInv, SeenInv, Covered, Published
<1>4. n \in {k \in resolver : CodeOf[k] = CodeOf[n]}
  BY <1>3
<1> QED
  BY <1>4 DEF Find

(* A refresh of the perf map (get_resolver and init_resolver, perfmap.rs)  *)
(* that began after the JIT's last line and is over has named every line   *)
(* of the file, unless there was one of the races that FreshUnlessRaced    *)
(* names: for any number of frames, lines and seconds.                     *)
THEOREM RefreshIsFresh == Spec => []FreshUnlessRaced
  BY OrderInit, OrderStep, MapInit, MapStep, DoneIsFresh, PTL DEF Spec
=============================================================================
