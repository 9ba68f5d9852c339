------------------------------ MODULE MCPerfMap ------------------------------
(* An instance of PerfMap for TLC.                                         *)
EXTENDS PerfMap

(* The third line names code that was generated where the first one was.   *)
MCCodeOf == [n \in 1..MaxLines |-> n % 2]
=============================================================================
