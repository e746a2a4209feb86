------------------------- MODULE MCReceiptCollector -------------------------
(* Small instances of ReceiptCollector for TLC. *)
EXTENDS ReceiptCollector, TLC

(* Requests are interchangeable (not used where liveness is checked). *)
MCRequestSymmetry == Permutations(Requests)
=============================================================================
