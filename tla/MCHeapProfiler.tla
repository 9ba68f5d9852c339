--------------------------- MODULE MCHeapProfiler ---------------------------
(* Instances of HeapProfiler and HeapExport for TLC.                       *)
EXTENDS HeapExport

CONSTANTS t1, t2, p1, p2, s1, s2

(* Two addresses in shards of their own. *)
MCShardOf == [p \in {p1, p2} |-> IF p = p1 THEN 0 ELSE 1]

Sym(name, lineno) ==
    [name |-> <<name>>, filename |-> <<"a.rs">>, lineno |-> <<lineno>>]

MCDemangle == [n \in {"make", "main"} |-> n]

(* Two calls in one function, of which one passes a frame without symbols. *)
MCUnwound == (s1 :> << <<Sym("make", 1)>>, <<Sym("main", 2)>> >>) @@
             (s2 :> << <<Sym("make", 3)>>, <<>>, <<Sym("main", 2)>> >>)

(* A heap report names no thread. *)
MCThread == [s \in {s1, s2} |-> ""]

(* The two call stacks have frames at other addresses. *)
MCAddresses == [s \in {s1, s2} |-> <<s>>]
=============================================================================
