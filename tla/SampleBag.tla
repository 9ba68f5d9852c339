----------------------------- MODULE SampleBag -----------------------------
(***************************************************************************)
(* What a report promises about the samples that were added: either every  *)
(* one of them is counted, or the report fails, and then for good.         *)
(***************************************************************************)
EXTENDS Naturals

CONSTANT Kinds  \* what tells one sample from another

VARIABLES lost, counts

Init == lost = FALSE /\ counts = [k \in Kinds |-> 0]

Add(k) ==
    /\ ~lost
    /\ counts' = [counts EXCEPT ![k] = @ + 1]
    /\ UNCHANGED lost

Lose == lost' = TRUE /\ counts' = [k \in Kinds |-> 0]

Next == (\E k \in Kinds : Add(k)) \/ Lose

Spec == Init /\ [][Next]_<<lost, counts>>
=============================================================================
