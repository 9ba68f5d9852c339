------------------------------ MODULE Encoders ------------------------------
(***************************************************************************)
(* The formats a Report is written in (src/src/report.rs): folded stacks,  *)
(* speedscope and pprof.  Each walks the report's HashMap, whose order is  *)
(* arbitrary: `order` is the sequence of the stacks as it is walked.       *)
(*                                                                         *)
(* A format is right when its reader gets the samples back, so each has a  *)
(* decoder here: an external program's, that follows the format's indices. *)
(***************************************************************************)
EXTENDS Integers, FiniteSetsExt, Frames

CONSTANT NanosPerSecond  \* 1_000_000_000, scaled to TLC's integers

ASSUME NanosAssumption == NanosPerSecond \in Nat

(* The symbols of a stack, innermost first. *)
Symbols(key) == FlattenSeq(key.frames)

Names(key) ==
    LET symbols == Symbols(key)
    IN  [i \in DOMAIN symbols |-> Name(symbols[i])]

(* The data of a report: n is added to what the key has, or inserted. *)
Added(data, key, n) ==
    IF key \in DOMAIN data THEN [data EXCEPT ![key] = @ + n]
    ELSE Insert(data, key, n)

(* Report::total_samples *)
TotalSamples(report) ==
    SumFunction([key \in DOMAIN report |-> Max({report[key], 0})])

-----------------------------------------------------------------------------
(* Folded stacks *)

(* A stack as write_folded and write_speedscope walk it: the thread, then  *)
(* the frames from the root.                                               *)
Stack(key) == <<ThreadNameOrId(key)>> \o Reverse(Names(key))

(* write_folded, and flamegraph, which writes the same lines: a line for   *)
(* each place of the walk that is not skipped.                             *)
Folded(report, order) ==
    [i \in {i \in DOMAIN order : report[order[i]] > 0} |->
        [stack |-> Stack(order[i]), weight |-> report[order[i]]]]

-----------------------------------------------------------------------------
(* Speedscope *)

FrameIdx_AfterPush(acc, name) ==
    LET known == name \in DOMAIN acc.indices
        idx == IF known THEN acc.indices[name] ELSE Len(acc.names) + 1
    IN  [indices |-> IF known THEN acc.indices ELSE Insert(acc.indices, name, idx),
         names |-> IF known THEN acc.names ELSE Append(acc.names, name),
         sample |-> Append(acc.sample, idx)]

(* get_frame_idx, its answer pushed to the sample; indices are zero based. *)
FrameIdx(acc, name) ==
    LET known == name \in DOMAIN acc.indices
        idx == IF known THEN acc.indices[name] ELSE Len(acc.names)
    IN  [indices |-> IF known THEN acc.indices ELSE Insert(acc.indices, name, idx),
         names |-> IF known THEN acc.names ELSE Append(acc.names, name),
         sample |-> Append(acc.sample, idx)]

(* The sample of a stack, pushed name by name. *)
FrameIndices(acc, stack) ==
    LET turn[j \in 0..Len(stack)] ==
            IF j = 0
            THEN [indices |-> acc.indices, names |-> acc.names, sample |-> <<>>]
            ELSE FrameIdx(turn[j - 1], stack[j])
    IN  turn[Len(stack)]

SpeedscopeSample(acc, key, n) ==
    LET a == FrameIndices(acc, Stack(key))
    IN  IF n <= 0 THEN acc
        ELSE [indices |-> a.indices, names |-> a.names,
              samples |-> Append(acc.samples, a.sample),
              weights |-> Append(acc.weights, n), total |-> acc.total + n]

(* write_speedscope: the thread and the frames share one table of names.   *)
Speedscope(report, order) ==
    LET turn[i \in 0..Len(order)] ==
            IF i = 0
            THEN [indices |-> <<>>, names |-> <<>>, samples |-> <<>>,
                  weights |-> <<>>, total |-> 0]
            ELSE SpeedscopeSample(turn[i - 1], order[i], report[order[i]])
    IN  turn[Len(order)]

-----------------------------------------------------------------------------
(* pprof *)

CpuStrings == {"samples", "count", "cpu", "nanoseconds", "thread",
               "missed samples due to lock contention"}

(* str_tbl: the empty string, then dedup_str in an arbitrary order.        *)
(* `fixed` are the names of the profile's own types and units.             *)
StringTable(keys, fixed) ==
    LET symbols == UNION {Range(Symbols(key)) : key \in keys}
        dedup_str ==
            {ThreadNameOrId(key) : key \in keys}
            \union (UNION {{Name(s), RawName(s), Filename(s)} : s \in symbols})
            \union fixed
    IN  FoldSet(LAMBDA str, tbl : Append(tbl, str), <<"">>, dedup_str)

(* strings: a later entry of the table overwrites an equal earlier one. *)
Strings(tbl) ==
    [s \in Range(tbl) |-> Max({i \in DOMAIN tbl : tbl[i] = s}) - 1]

PprofSymbol_HitNotPushed(strings, acc, s) ==
    LET known == Name(s) \in DOMAIN acc.functions
        id == IF known THEN acc.functions[Name(s)] ELSE Len(acc.fn_tbl) + 1
        function == [id |-> id, name |-> strings[Name(s)],
                     system_name |-> strings[RawName(s)],
                     filename |-> strings[Filename(s)]]
        loc == [id |-> id, function_id |-> id, line |-> Lineno(s)]
    IN  IF known THEN acc
        ELSE [functions |-> Insert(acc.functions, Name(s), id),
              fn_tbl |-> Append(acc.fn_tbl, function),
              loc_tbl |-> Append(acc.loc_tbl, loc),
              locs |-> Append(acc.locs, id)]

(* The loop over a stack's symbols: a function is known by its demangled   *)
(* name, so the file and the line are those of the first symbol that has   *)
(* the name.  Ids start at 1, a location's id is its function's.           *)
PprofSymbol(strings, acc, s) ==
    LET known == Name(s) \in DOMAIN acc.functions
        id == IF known THEN acc.functions[Name(s)] ELSE Len(acc.fn_tbl) + 1
        function == [id |-> id, name |-> strings[Name(s)],
                     system_name |-> strings[RawName(s)],
                     filename |-> strings[Filename(s)]]
        loc == [id |-> id, function_id |-> id, line |-> Lineno(s)]
    IN  IF known
        THEN [functions |-> acc.functions, fn_tbl |-> acc.fn_tbl,
              loc_tbl |-> acc.loc_tbl, locs |-> Append(acc.locs, id)]
        ELSE [functions |-> Insert(acc.functions, Name(s), id),
              fn_tbl |-> Append(acc.fn_tbl, function),
              loc_tbl |-> Append(acc.loc_tbl, loc),
              locs |-> Append(acc.locs, id)]

PprofLocs(strings, acc, symbols) ==
    LET turn[j \in 0..Len(symbols)] ==
            IF j = 0
            THEN [functions |-> acc.functions, fn_tbl |-> acc.fn_tbl,
                  loc_tbl |-> acc.loc_tbl, locs |-> <<>>]
            ELSE PprofSymbol(strings, turn[j - 1], symbols[j])
    IN  turn[Len(symbols)]

PprofSample(strings, acc, symbols) ==
    LET a == PprofLocs(strings, acc, symbols)
    IN  [functions |-> a.functions, fn_tbl |-> a.fn_tbl, loc_tbl |-> a.loc_tbl,
         location_ids |-> Append(acc.location_ids, a.locs)]

(* The loop over the stacks, here sequences of symbols: the tables, and    *)
(* the location_id of each stack.                                          *)
PprofTables(strings, stacks) ==
    LET turn[i \in 0..Len(stacks)] ==
            IF i = 0
            THEN [functions |-> <<>>, fn_tbl |-> <<>>, loc_tbl |-> <<>>,
                  location_ids |-> <<>>]
            ELSE PprofSample(strings, turn[i - 1], stacks[i])
    IN  turn[Len(stacks)]

(* Report::pprof; frequency is the report's timing.frequency. *)
Pprof(report, order, frequency) ==
    LET tbl == StringTable(DOMAIN report, CpuStrings)
        str == Strings(tbl)
        done == PprofTables(str, [i \in DOMAIN order |-> Symbols(order[i])])
        Sample(i) ==
            LET n == report[order[i]]
            IN  [location_id |-> done.location_ids[i],
                 value |-> <<n, (n * NanosPerSecond) \div frequency>>,
                 label |-> [key |-> str["thread"],
                            str |-> str[ThreadNameOrId(order[i])]]]
    IN  [sample |-> [i \in DOMAIN order |-> Sample(i)], function |-> done.fn_tbl,
         location |-> done.loc_tbl, string_table |-> tbl,
         period |-> NanosPerSecond \div frequency]

-----------------------------------------------------------------------------
(* What a reader makes of each format: lines as write_folded's. *)

At(tbl, i) == IF i + 1 \in DOMAIN tbl THEN tbl[i + 1] ELSE "out of range"

SpeedscopeLines(p) ==
    [i \in DOMAIN p.samples |->
        [stack |-> [j \in DOMAIN p.samples[i] |-> At(p.names, p.samples[i][j])],
         weight |-> p.weights[i]]]

(* Locations and functions are found by their ids, not by their places;    *)
(* the stack is read from its root.                                        *)
PprofStack(p, ids) ==
    LET FunctionNames(id) ==
            {At(p.string_table, f.name) :
                f \in {f \in Range(p.function) :
                         \E loc \in Range(p.location) :
                             loc.id = id /\ loc.function_id = f.id}}
        FunctionName(id) ==
            IF Cardinality(FunctionNames(id)) = 1
            THEN CHOOSE name \in FunctionNames(id) : TRUE
            ELSE "ambiguous or missing"
    IN  Reverse([j \in DOMAIN ids |-> FunctionName(ids[j])])

PprofLines(p) ==
    [i \in DOMAIN p.sample |->
        [stack |-> <<At(p.string_table, p.sample[i].label.str)>>
                   \o PprofStack(p, p.sample[i].location_id),
         weight |-> p.sample[i].value[1]]]

(* data, summed over the places that `by` gives the same value. *)
Grouped(data, by) ==
    [v \in {by[x] : x \in DOMAIN data} |->
        SumFunctionOnSet(data, {x \in DOMAIN data : by[x] = v})]

(* The weight a format gives to each stack. *)
Tally(lines) ==
    Grouped([i \in DOMAIN lines |-> lines[i].weight],
            [i \in DOMAIN lines |-> lines[i].stack])
=============================================================================
