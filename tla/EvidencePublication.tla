------------------------- MODULE EvidencePublication -------------------------
(***************************************************************************)
(* The published evidence of the model/engine matrix and the gate that     *)
(* accepts it, tools/validate_model_engine_evidence.py.  Four files are    *)
(* edited by hand, one at a time and in any order: qualification-matrix,   *)
(* matrix-results (summary), matrix-request-ledger and catalog-            *)
(* registration.  What they contain is taken from runs of the traffic,     *)
(* which may be repeated; the editor of the summary may claim more than    *)
(* the run showed and the editor of the ledger may leave records out.      *)
(* A record itself is copied: it says what client and collector saw.       *)
(*                                                                         *)
(* The cases are the two modes of one engine for one model, "rr" and       *)
(* "exact".  Hashes, digests, versions and identities are left out.        *)
(***************************************************************************)
EXTENDS Integers, FiniteSets

CONSTANTS EvRuns,       \* runs of the traffic
          EvMain,       \* main samples that are offered to a case
          EvOutcomes    \* what a run of a case can come to

EvCases == {"rr", "exact"}
Verdicts == {"PASS_BOUNDED_FUNCTIONAL", "BLOCKED_NATIVE_ARCHITECTURE",
             "FAIL_TRAFFIC_OR_ROUTING", "NOT_RUN"}
Pass    == "PASS_BOUNDED_FUNCTIONAL"
Blocked == "BLOCKED_NATIVE_ARCHITECTURE"

(* attempt "unsent" and "blocked" never offered a request; of a case that  *)
(* was run, `whole` main and `cold` cold samples were answered whole, with *)
(* equal receipts.                                                         *)
ASSUME EvidenceAssumption ==
    /\ EvMain \in Nat \ {0}
    /\ EvOutcomes \subseteq [attempt : {"unsent", "blocked", "run"}, whole : 0..EvMain, cold : 0..1]

VARIABLES outcome,      \* per run and case, what it came to
          matrix,       \* status, the verdict of each case, its evidenceSummary
          summary,      \* matrix-results.json: a set of at most one summary
          ledger,       \* matrix-request-ledger.json: likewise
          plan          \* catalog-registration.json: "none" or the state of the tuple

evVars == <<outcome, matrix, summary, ledger, plan>>

NotRun == [c \in EvCases |-> "not-run"]

EvInit ==
    /\ outcome \in {o \in [EvRuns -> [EvCases -> EvOutcomes]] : \A v \in EvRuns : o[v]["rr"].cold = 0}
    /\ matrix = [status |-> "pending", verdict |-> NotRun, refers |-> FALSE]
    /\ summary = {}
    /\ ledger = {}
    /\ plan = "none"

----------------------------------------------------------------------------
(* What editors write (external). *)

(* honest: what the run showed; optimistic: a case that was run passed in  *)
(* full; dropping: only whole samples were offered.                        *)
SummaryRow(run, claim, c) ==
    LET o == outcome[run][c]
        passed == \/ o.whole = EvMain /\ (c = "exact" => o.cold = 1)
                  \/ claim = "optimistic"
                  \/ claim = "dropping" /\ o.whole > 0
        verdict == CASE o.attempt = "unsent" -> "NOT_RUN"
                     [] o.attempt = "blocked" -> Blocked
                     [] o.attempt = "run" /\ passed -> Pass
                     [] OTHER -> "FAIL_TRAFFIC_OR_ROUTING"
    IN  [verdict |-> verdict,
         offered |-> IF claim = "dropping" THEN o.whole ELSE EvMain,
         normal |-> IF claim = "optimistic" THEN EvMain ELSE o.whole,
         cold |-> IF claim = "optimistic" THEN 1 ELSE o.cold]

Summaries == {[c \in EvCases |-> SummaryRow(run, claim, c)] :
                run \in EvRuns, claim \in {"honest", "optimistic", "dropping"}}

(* Main and cold records of one case that were retained, and how many of   *)
(* each were answered whole with equal receipts.                           *)
Records(run, all, c) ==
    LET o == outcome[run][c]
    IN  IF o.attempt # "run" THEN [main |-> 0, cold |-> 0, good |-> TRUE]
        ELSE [main |-> IF all THEN EvMain ELSE o.whole,
              cold |-> IF c = "rr" THEN 0 ELSE IF all THEN 1 ELSE o.cold,
              good |-> all => o.whole = EvMain /\ (c = "exact" => o.cold = 1)]

NoRecords == [main |-> 0, cold |-> 0, good |-> TRUE]

Ledgers == {[run |-> run, rows |-> [c \in EvCases |-> IF c \in of THEN Records(run, all, c) ELSE NoRecords]] :
              run \in EvRuns, of \in SUBSET EvCases, all \in BOOLEAN}

EditStatus ==
    /\ matrix' \in {[matrix EXCEPT !.status = s] : s \in {"pending", "published"}}
    /\ UNCHANGED <<outcome, summary, ledger, plan>>

(* The verdicts of the summary are copied into the matrix, or reset. *)
EditVerdicts ==
    /\ \/ matrix' = [matrix EXCEPT !.verdict = NotRun, !.refers = FALSE]
       \/ \E s \in summary :
             matrix' = [matrix EXCEPT !.verdict = [c \in EvCases |-> s[c].verdict], !.refers = TRUE]
    /\ UNCHANGED <<outcome, summary, ledger, plan>>

EditSummary ==
    /\ \/ summary' = {}
       \/ \E s \in Summaries : summary' = {s}
    /\ UNCHANGED <<outcome, matrix, ledger, plan>>

EditLedger ==
    /\ \/ ledger' = {}
       \/ \E l \in Ledgers : ledger' = {l}
    /\ UNCHANGED <<outcome, matrix, summary, plan>>

EditPlan ==
    /\ plan' \in {"none", "candidate", "blocked"}
    /\ UNCHANGED <<outcome, matrix, summary, ledger>>

EvNext == EditStatus \/ EditVerdicts \/ EditSummary \/ EditLedger \/ EditPlan

EvSpec == EvInit /\ [][EvNext]_evVars

----------------------------------------------------------------------------
(* The gate. *)

(* Mutated forms, to see that the properties can fail. *)
RecordsUncompared(s, l) == TRUE

PendingAccepted ==
    /\ summary = {} /\ ledger = {}
    /\ matrix.verdict = NotRun
    /\ ~matrix.refers

RowAccepted(row, c) ==
    /\ row.verdict = matrix.verdict[c]
    /\ row.verdict = Pass =>
          /\ row.normal > 0 /\ row.offered = row.normal
          /\ c = "exact" => row.cold > 0

(* Every record is whole and of a case that passed, and their numbers are  *)
(* those of the summary.                                                   *)
RecordsReconcile(s, l) ==
    \A c \in EvCases :
        /\ l.rows[c].good
        /\ l.rows[c].main = (IF s[c].verdict = Pass THEN s[c].normal ELSE 0)
        /\ l.rows[c].cold = (IF s[c].verdict = Pass /\ c = "exact" THEN s[c].cold ELSE 0)

PublishedAccepted ==
    /\ matrix.refers
    /\ \E s \in summary, l \in ledger :
          /\ \A c \in EvCases : RowAccepted(s[c], c)
          /\ RecordsReconcile(s, l)

(* validate_runtime_evidence. *)
EvidenceAccepted ==
    \/ matrix.status = "pending" /\ PendingAccepted
    \/ matrix.status = "published" /\ PublishedAccepted

(* validate_registration_plan, of one model with one tuple. *)
PlanAccepted ==
    \E s \in summary :
        LET blocked == \A c \in EvCases : s[c].verdict = Blocked
        IN  /\ plan = (IF blocked THEN "blocked" ELSE "candidate")
            /\ ~blocked => \A c \in EvCases : s[c].verdict = Pass

PackageAccepted == EvidenceAccepted /\ (plan # "none" => PlanAccepted)

----------------------------------------------------------------------------
EvTypeOK ==
    /\ outcome \in [EvRuns -> [EvCases -> EvOutcomes]]
    /\ matrix \in [status : {"pending", "published"}, refers : BOOLEAN,
                   verdict : [EvCases -> Verdicts \cup {"not-run"}]]
    /\ \A s \in summary :
          s \in [EvCases -> [verdict : Verdicts, offered : 0..EvMain, normal : 0..EvMain, cold : 0..1]]
    /\ \A l \in ledger :
          /\ l.run \in EvRuns
          /\ l.rows \in [EvCases -> [main : 0..EvMain, cold : 0..1, good : BOOLEAN]]
    /\ Cardinality(summary) \in 0..1 /\ Cardinality(ledger) \in 0..1
    /\ plan \in {"none", "candidate", "blocked"}

(* "Published evidence must reconcile": a case that an accepted matrix     *)
(* calls passed, or whose tuple an accepted plan proposes, was run in the  *)
(* run the ledger was taken from, and its count of normal answers is no    *)
(* more than that run had of whole ones, whoever claimed or left out what, *)
(* and although matrix, summary and ledger may come from different runs.   *)
PublishedPassIsReal ==
    PackageAccepted =>
        \A c \in EvCases :
            matrix.verdict[c] = Pass \/ plan = "candidate" =>
                \E s \in summary, l \in ledger :
                    LET o == outcome[l.run][c]
                    IN  /\ o.attempt = "run"
                        /\ s[c].normal \in 1..o.whole
                        /\ c = "exact" => o.cold = 1
=============================================================================
