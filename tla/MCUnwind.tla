------------------------------ MODULE MCUnwind ------------------------------
(* Instances of Unwind for TLC.                                            *)
EXTENDS Unwind

CONSTANTS hd, a1, a2

(* Three frames, the last two of them in a blocklisted library that begins *)
(* with the second.  In the first stack a frame pointer points to itself,  *)
(* in the second one goes back.                                            *)
MCMemories ==
    { [a \in Addrs |-> CASE a = 1 -> 2 [] a = 3 -> 1 [] OTHER -> a],
      [a \in Addrs |-> CASE a = 1 -> 3 [] a = 2 -> 1 [] OTHER -> a] }

MCSegments == {<<2, 4>>}
=============================================================================
