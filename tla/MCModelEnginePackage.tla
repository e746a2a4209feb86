------------------------ MODULE MCModelEnginePackage ------------------------
(* Small instances of ModelEnginePackage for TLC. *)
EXTENDS ModelEnginePackage, TLC

(* Trees the evidence validator accepts: the matrix (file 2) exists and    *)
(* the results (file 1) are either absent or of the same revision.         *)
MCValidTrees ==
    {t \in [1..2 -> 0..MaxVersion] : t[2] # 0 /\ t[1] \in {0, t[2]}}

(* Builds are interchangeable: nothing orders them or chooses among them. *)
MCBuildSymmetry == Permutations(Builds)
=============================================================================
