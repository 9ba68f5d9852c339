----------------------------- MODULE MCProfiler -----------------------------
(* Instances of Profiler for TLC.                                          *)
EXTENDS Profiler

CONSTANTS t1, t2

MCThreads == {t1, t2}

Config(f, clock, threads, segments) ==
    [frequency |-> f, clock |-> clock, threads |-> threads,
     segments |-> segments]

(* Two clocks; the second configuration excludes a thread and a library. *)
SafeConfigs == {Config(100, "Cpu", {}, {}), Config(100, "Wall", {t1}, {"lib"})}

(* Both clocks, a frequency that panics, one that rounds to no interval    *)
(* and one that setitimer rejects.                                         *)
OddConfigs == {Config(100, "Cpu", {t1}, {}), Config(100, "Wall", {}, {}),
               Config(0, "Cpu", {}, {}), Config(2000000, "Cpu", {}, {}),
               Config(-100, "Wall", {}, {})}
=============================================================================
