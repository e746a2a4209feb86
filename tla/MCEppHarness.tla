---------------------------- MODULE MCEppHarness ----------------------------
(* A small instance of EppHarness for TLC: the sequences of commands of    *)
(* verify-all in its order, and two benchmarks.                            *)
EXTENDS EppHarness

MCEppPlans == {<<"path", "decides", "vllm", "failmode">>,
               <<"failmode">>,
               <<"bench-cache", "bench-sweep">>}
MCModes == <<"epp", "chwbl", "rr">>
=============================================================================
