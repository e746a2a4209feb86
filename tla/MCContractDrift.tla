-------------------------- MODULE MCContractDrift --------------------------
(***************************************************************************)
(* A small instance of ContractDrift for TLC.  Gateway commits: g2 changes *)
(* nothing of g1 that is frozen, g3 changes the metric manifest, g4 a      *)
(* Swagger file, g5 too and adds a definition without a note, and at g6    *)
(* no contract can be frozen.  Texts: t2 has another heading than t1, t3   *)
(* another command, which the Swagger files of g4 and g5 accept.           *)
(***************************************************************************)
EXTENDS ContractDrift, TLC

CONSTANTS g1, g2, g3, g4, g5, g6, k1, k2, t1, t2, t3

MCSwagger == [g \in Commits |-> IF g \in {g4, g5} THEN "s2" ELSE "s1"]
MCManifest == [g \in Commits |-> IF g = g3 THEN "m2" ELSE "m1"]
MCEvidence == [g \in Commits |-> "e1"]
MCBuildable == Commits \ {g6}
MCClassified == Commits \ {g5}
MCBlocks == [t \in Texts |-> IF t = t3 THEN "b2" ELSE "b1"]
MCHeadings == [t \in Texts |-> IF t = t2 THEN "h2" ELSE "h1"]
MCProducers == [t \in Texts |-> IF t = t3 THEN "p2" ELSE "p1"]
MCAccepted == {<<t, g, k>> \in Texts \X Commits \X CliCommits : t = t3 => g \in {g4, g5}}
=============================================================================
