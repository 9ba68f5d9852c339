------------------------------ MODULE MCReport ------------------------------
(* Instances of Collector, Encoders and Report for TLC.                    *)
EXTENDS Report

CONSTANTS k1, k2, k3, k4, k5

(* Three stacks fight for one bucket, the fourth has its own. *)
MCKeys == {k1, k2, k3, k4}
MCHash == [k \in MCKeys |-> IF k = k4 THEN 1 ELSE 0]

(* Four stacks of three kinds fight for one bucket. *)
FightingKeys == {k1, k2, k3, k5}
FightingHash == [k \in FightingKeys |-> 0]

Sym(name, filename, lineno) ==
    [name |-> name, filename |-> filename, lineno |-> lineno]

(* Two instances of a generic function demangle to one name. *)
MCDemangle == [n \in {"handler", "restore", "foo1", "foo2", "bar", "main",
                      "Unknown"} |->
                 CASE n = "handler" -> "perf_signal_handler"
                   [] n \in {"foo1", "foo2"} -> "foo"
                   [] OTHER -> n]

Handler == << <<Sym(<<"handler">>, <<>>, <<>>)>>,
              <<Sym(<<"restore">>, <<>>, <<>>)>> >>
Foo1 == Sym(<<"foo1">>, <<"a.rs">>, <<1>>)
Foo2 == Sym(<<"foo2">>, <<"b.rs">>, <<2>>)
Bar == Sym(<<"bar">>, <<"b.rs">>, <<3>>)
Main == Sym(<<"main">>, <<"a.rs">>, <<4>>)
MainLater == Sym(<<"main">>, <<"a.rs">>, <<5>>)
Nameless == Sym(<<>>, <<>>, <<>>)

(* k1 and k3 differ in their thread only, and that of k3 is named like a   *)
(* function; k2 has an inlined call, a frame without symbols and one       *)
(* without a name.  k5 is at other ips of the functions of k1, in the same *)
(* thread under a new name: another line, and an inlined call.             *)
Entered == <<"handler", "restore">>

MCAddresses ==
    (k1 :> Entered \o <<"foo1", "main">>) @@
    (k2 :> Entered \o <<"foo2", "jit", "none">>) @@
    (k3 :> Entered \o <<"foo1", "main">>) @@
    (k4 :> Entered \o <<"main">>) @@
    (k5 :> Entered \o <<"foo1", "main">>)

MCUnwound ==
    (k1 :> Handler \o << <<Foo1>>, <<Main>> >>) @@
    (k2 :> Handler \o << <<Foo2, Bar>>, <<>>, <<Nameless>> >>) @@
    (k3 :> Handler \o << <<Foo1>>, <<Main>> >>) @@
    (k4 :> Handler \o << <<Main>> >>) @@
    (k5 :> Handler \o << <<Bar, Foo1>>, <<MainLater>> >>)

MCThreadName == (k1 :> "worker") @@ (k2 :> "") @@ (k3 :> "foo") @@ (k4 :> "") @@ (k5 :> "idle")

MCThreadId == (k1 :> "1") @@ (k2 :> "2") @@ (k3 :> "3") @@ (k4 :> "4") @@ (k5 :> "1")

(* A clock so coarse that it moves once, before the last sample, and one   *)
(* that moves with every sample.                                           *)
CoarseClock == [n \in 0..MaxAdds |-> IF n + 1 < MaxAdds THEN 0 ELSE 1]
FineClock == [n \in 0..MaxAdds |-> n]
=============================================================================
