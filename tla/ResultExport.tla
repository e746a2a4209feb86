---------------------------- MODULE ResultExport ----------------------------
(***************************************************************************)
(* What becomes of the ledger of receipt-proxy.py: an exporter (external)  *)
(* retains one row for each request, with the client's own copy of the     *)
(* body and the receipt the ledger had by then, and later the ledger; the  *)
(* verifiers of docs/assets/existing-profiles judge that export.           *)
(*                                                                         *)
(*   IncompleteAccepts    verify-incomplete-results.py, which also accepts *)
(*                        clients that timed out                           *)
(*   ConvergedAccepts     verify-converged.py                              *)
(*   SettingsAccept       verify-results.py, which accepts nothing but     *)
(*                        normal answers                                   *)
(*                                                                         *)
(* Pieces of one answer are told apart by their number, so that equal      *)
(* numbers stand for equal hashes and lengths.  Settings, phases, timing   *)
(* and workers are left out.                                               *)
(***************************************************************************)
EXTENDS ReceiptCollector, FiniteSets

Verifiers == {"incomplete", "converged", "settings"}

(* Each verifier has its own idea of a normal answer: that of              *)
(* verify-converged.py is that of verify-incomplete-results.py without its *)
(* keywords, and verify-results.py has the keywords and a bound on the     *)
(* usage, but asks one profile less for its reasoning.  The content of an  *)
(* answer is the set of verifiers that find it normal.                     *)
CONSTANTS Contents      \* contents of the whole answers

ASSUME ContentsAssumption ==
    \A c \in Contents :
        /\ c \subseteq Verifiers
        /\ "incomplete" \in c => "converged" \in c
        /\ {"converged", "settings"} \subseteq c => "incomplete" \in c

(* The ledger is that of receipt-proxy.py. *)
ASSUME ProxyAssumption == ForwardsLength

VARIABLES sent,         \* history: requests whose body was sent completely
          rows,         \* the exported rows, {} before the export
          allReceipts   \* the exported ledger: {} when there is none, else {ledger}

exportVars == <<vars, sent, rows, allReceipts>>

NoReceipt == [req |-> "none"]
NoFile    == -2             \* no upstreamPartialResponse
ErrorPage == -1             \* the body of the proxy's own 502

(* What the verifiers may find in a body.  One that was cut has no [DONE], *)
(* no finish reason and no usage.                                          *)
Texts(r, body) == IF body = size[r] /\ body > 0 THEN Contents ELSE {{}}

----------------------------------------------------------------------------
(* The exporter. *)

Finished(r) == client[r] \notin {"sending", "waiting"}

Body(r) == IF client[r] = "rejected" THEN ErrorPage ELSE got[r]

ReceiptsOf(r) == {x \in ledger : x.req = r}

(* A client that timed out before it had any of the answer may or may not  *)
(* have seen its status.                                                   *)
Statuses(r) ==
    IF client[r] = "gone" /\ got[r] = 0 THEN {"none", answer[r]} ELSE {answer[r]}

Row(r, status, text) ==
    LET mine == ReceiptsOf(r)
        receipt == IF mine = {} THEN NoReceipt ELSE CHOOSE x \in mine : TRUE
    IN  [req |-> r, body |-> Body(r), wholeRequest |-> r \in sent, status |-> status,
         receipt |-> receipt, text |-> text,
         timeout |-> client[r] = "gone",
         partial |-> IF mine # {} /\ receipt.bytes # Body(r) THEN receipt.bytes ELSE NoFile]

ExportRows ==
    /\ rows = {}
    /\ \A r \in Requests : Finished(r)
    /\ \E status \in [Requests -> {"none", "200", "502"}], text \in [Requests -> Contents \cup {{}}] :
          /\ \A r \in Requests : status[r] \in Statuses(r) /\ text[r] \in Texts(r, Body(r))
          /\ rows' = {Row(r, status[r], text[r]) : r \in Requests}
    /\ UNCHANGED <<vars, sent, allReceipts>>

ExportLedger ==
    /\ rows # {}
    /\ allReceipts = {}
    /\ allReceipts' = {ledger}
    /\ UNCHANGED <<vars, sent, rows>>

ExportInit == Init /\ sent = {} /\ rows = {} /\ allReceipts = {}

Traffic ==
    /\ Next
    /\ sent' = sent \cup {r \in Requests : client'[r] = "waiting"}
    /\ UNCHANGED <<rows, allReceipts>>

ExportNext == Traffic \/ ExportRows \/ ExportLedger

ExportSpec == ExportInit /\ [][ExportNext]_exportVars

----------------------------------------------------------------------------
(* The verifiers. *)

(* Mutated forms, to see that the properties can fail. *)
SameBodyOnly(row) == row.receipt.bytes = row.body

HasRowReceipt(row) == row.receipt # NoReceipt

(* The flag of the row is recomputed; an honest export has the same.       *)
Normal(verifier, row) == row.status = "200" /\ verifier \in row.text

(* receipt['requestSha256'] and requestBytes are those of the whole body   *)
(* that was offered.                                                       *)
RequestAgrees(row) == row.wholeRequest

(* A different response is accepted of a client that timed out, with what  *)
(* upstream had sent so far, which the ledger calls incomplete.            *)
ResponseAgrees(row) ==
    row.receipt.bytes # row.body =>
        /\ row.timeout
        /\ ~Normal("incomplete", row)
        /\ ~row.receipt.complete
        /\ row.partial = row.receipt.bytes

IncompleteAccepts ==
    \A row \in rows : HasRowReceipt(row) => RequestAgrees(row) /\ ResponseAgrees(row)

(* receipt['httpStatus'] is that of upstream: none when it is the proxy's  *)
(* own 502, or nothing, that the client was sent.                          *)
NativeStatus(r) == IF answer[r] = "200" THEN "200" ELSE "none"

(* Every row must have a receipt, as in verify-results.py. *)
ConvergedNeedsReceipt(file) ==
    \A row \in rows :
        /\ HasRowReceipt(row) /\ RequestAgrees(row)
        /\ row.receipt.bytes = row.body
        /\ NativeStatus(row.req) = row.status
        /\ {x \in file : x.req = row.req} = {row.receipt}

ConvergedAccepts(file) ==
    \A row \in rows :
        /\ HasRowReceipt(row) =>
              /\ RequestAgrees(row)
              /\ row.receipt.bytes = row.body
              /\ NativeStatus(row.req) = row.status
        /\ {x \in file : x.req = row.req} = (IF HasRowReceipt(row) THEN {row.receipt} ELSE {})

SettingsAccept ==
    \A row \in rows :
        /\ HasRowReceipt(row) /\ RequestAgrees(row)
        /\ row.receipt.bytes = row.body
        /\ row.status = NativeStatus(row.req) /\ row.receipt.complete
        /\ Normal("settings", row)

----------------------------------------------------------------------------
(* existing-profiles-tuning.md:68, verify-incomplete-results.py:92: an      *)
(* honest export, whose rows are what clients and ledger had, is rejected  *)
(* for nothing but these: a client that gave up in the middle of its       *)
(* request, the 502 of the proxy itself, and a client timeout that races   *)
(* the last write, after which upstream is complete and the bodies differ. *)
HonestExportIsAccepted ==
    ~IncompleteAccepts =>
        \E row \in rows :
            /\ HasRowReceipt(row)
            /\ \/ client[row.req] = "gone" /\ row.req \notin sent
               \/ client[row.req] = "rejected"
               \/ /\ client[row.req] = "gone" /\ row.receipt.complete
                  /\ row.receipt.bytes # row.body

(* receipt-proxy.py ends the body before it appends the receipt, so that   *)
(* an exporter which reads the ledger as soon as all clients have their    *)
(* answers can miss a receipt.  Nothing else goes wrong then, although     *)
(* engines may have cut their bodies and the proxy may have been killed:   *)
(* verify-converged.py rejects such an export only for a receipt that came *)
(* after its row and is in the ledger that was exported later, and         *)
(* verify-results.py only for a missing receipt or an answer that it does  *)
(* not find normal.                                                        *)
AnsweredExportIsAccepted ==
    (\A row \in rows : client[row.req] = "answered") =>
        /\ \A file \in allReceipts :
              ~ConvergedAccepts(file) =>
                  \E row \in rows : ~HasRowReceipt(row) /\ \E x \in file : x.req = row.req
        /\ ~SettingsAccept =>
              \E row \in rows : ~HasRowReceipt(row) \/ ~Normal("settings", row)
=============================================================================
