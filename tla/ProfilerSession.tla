-------------------------- MODULE ProfilerSession --------------------------
(***************************************************************************)
(* What the profiler promises its users, without threads, locks, timers or *)
(* signals: one session at a time, a record that only grows until the      *)
(* session ends, and no record of a thread the session excludes.           *)
(***************************************************************************)
EXTENDS Naturals

CONSTANT Configs

VARIABLES on, number, config, samples

sessionSpecVars == <<on, number, config, samples>>

Init == on = FALSE /\ number = 0 /\ config \in Configs /\ samples = {}

Begin(c) ==
    /\ ~on
    /\ on' = TRUE /\ number' = number + 1 /\ config' = c
    /\ UNCHANGED samples

(* A late handler may still record after the end: `on` is not required. *)
Record ==
    /\ number > 0
    /\ \E s \in samples' \ samples :
          samples' = samples \cup {s} /\ s.thread \notin config.threads
    /\ UNCHANGED <<on, number, config>>

End == on /\ on' = FALSE /\ samples' = {} /\ UNCHANGED <<number, config>>

Next ==
    \/ \E c \in Configs : Begin(c)
    \/ Record
    \/ End

Spec == Init /\ [][Next]_sessionSpecVars
=============================================================================
