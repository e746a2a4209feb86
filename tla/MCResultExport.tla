--------------------------- MODULE MCResultExport ---------------------------
(* A small instance of ResultExport, and with it of receipt-proxy.py, for  *)
(* TLC.                                                                    *)
EXTENDS ResultExport, TLC

(* One content that two verifiers find normal, and one for the third. *)
MCContents == {{"incomplete", "converged"}, {"settings"}}

(* Requests are interchangeable. *)
MCRequestSymmetry == Permutations(Requests)
=============================================================================
