-------------------------- MODULE ResultExportProofs --------------------------
(***************************************************************************)
(* Proofs about ResultExport, for any requests and any number of pieces.   *)
(* They rest on the invariant of ReceiptCollectorProofs; what is added is  *)
(* how clients end and what a retained row still says of its request.      *)
(***************************************************************************)
EXTENDS ResultExport, ReceiptCollectorProofs

EndInv(r) ==
    /\ r \notin sent => client[r] \in {"sending", "gone"}
    /\ client[r] = "broken" => wire[r] = "closed" /\ got[r] = written[r]
    /\ answer[r] # "200" => recorded[r] = 0

RowInv(row) ==
    /\ row.req \in Requests /\ Finished(row.req)
    /\ row.body = Body(row.req)
    /\ row.wholeRequest <=> row.req \in sent
    /\ row.timeout <=> client[row.req] = "gone"
    /\ row.status = "200" => answer[row.req] = "200"
    /\ client[row.req] = "answered" => row.status = "200"
    /\ row.text # {} =>
          answer[row.req] = "200" /\ row.body = size[row.req] /\ row.body > 0
    /\ row.receipt # NoReceipt =>
          /\ row.receipt \in ledger /\ row.receipt.req = row.req
          /\ row.receipt.bytes # row.body => row.partial = row.receipt.bytes

(* A ledger exported after the rows has the receipts they have.            *)
FileInv ==
    \A file \in allReceipts :
        /\ file \subseteq ledger
        /\ \A row \in rows : row.receipt # NoReceipt => row.receipt \in file

ExportInv ==
    /\ IInv
    /\ \A r \in Requests : EndInv(r)
    /\ \A row \in rows : RowInv(row)
    /\ FileInv
    /\ rows = {} => allReceipts = {}

----------------------------------------------------------------------------
(* What no step takes back. *)
Kept(r) ==
    /\ Finished(r) => client'[r] = client[r] /\ got'[r] = got[r]
    /\ answer[r] = "200" => answer'[r] = "200" /\ size'[r] = size[r]
    /\ client'[r] = "waiting" => client[r] \in {"sending", "waiting"}

LEMMA LedgerGrows == ASSUME [Next]_vars PROVE ledger \subseteq ledger'
  BY DEF Next, Thread, ReadBody, Connect, Relay, EndOfBody, UpstreamError, AppendReceipt, Close, Kill,
         ClientSends, ClientReads, ClientEnds, ClientGivesUp, vars, threadVars

LEMMA OwnKeeps ==
    ASSUME TypeOK, NEW r \in Requests, ThreadInv(r), Step(r)
    PROVE  Kept(r)
<1> USE DEF TypeOK, Kept, Finished, Set, At, Except, threadVars, clientVars, ThreadInv, Before, Streaming
<1>1. CASE ReadBody(r) \/ Relay(r) \/ EndOfBody(r) \/ UpstreamError(r) \/ AppendReceipt(r) \/ Close(r)
  BY <1>1 DEF ReadBody, Relay, EndOfBody, UpstreamError, AppendReceipt, Close
<1>2. CASE Connect(r)
  BY <1>2 DEF Connect
<1>3. CASE ClientSends(r) \/ ClientReads(r) \/ ClientEnds(r) \/ ClientGivesUp(r)
  BY <1>3 DEF ClientSends, ClientReads, ClientEnds, ClientGivesUp
<1> QED
  BY <1>1, <1>2, <1>3 DEF Step, Thread

LEMMA StepKeeps == ASSUME IInv, [Next]_vars, NEW r \in Requests PROVE Kept(r)
<1>0. TypeOK /\ ThreadInv(r)
  BY DEF IInv
<1>1. ASSUME NEW q \in Requests, Step(q) PROVE Kept(r)
  <2>1. CASE q = r
    BY <1>0, <1>1, <2>1, OwnKeeps
  <2>2. CASE q # r
    BY <1>0, <1>1, <2>2, OthersSame DEF Same, Kept
  <2> QED
    BY <2>1, <2>2
<1>2. CASE Kill
  BY <1>2 DEF Kill, Kept, clientVars
<1>3. CASE UNCHANGED vars
  BY <1>3 DEF vars, threadVars, clientVars, Kept
<1> QED
  BY <1>1, <1>2, <1>3 DEF Next, Step

(* How a request goes on. *)
LEMMA OwnEnd ==
    ASSUME TypeOK, NEW r \in Requests, ThreadInv(r), EndInv(r), Step(r),
           r \in sent' <=> r \in sent \/ client'[r] = "waiting"
    PROVE  EndInv(r)'
<1> USE CollectorAssumption DEF TypeOK, EndInv, Set, At, Except, threadVars, clientVars, ThreadInv,
        Counts, Before, Streaming, Closed, Flags
<1>1. CASE ReadBody(r)
  BY <1>1 DEF ReadBody
<1>2. CASE Connect(r)
  BY <1>2 DEF Connect
<1>3. CASE Relay(r)
  BY <1>3 DEF Relay
<1>4. CASE EndOfBody(r)
  BY <1>4 DEF EndOfBody
<1>5. CASE UpstreamError(r)
  BY <1>5 DEF UpstreamError
<1>6. CASE AppendReceipt(r)
  BY <1>6 DEF AppendReceipt
<1>7. CASE Close(r)
  BY <1>7 DEF Close
<1>8. CASE ClientSends(r)
  BY <1>8 DEF ClientSends
<1>9. CASE ClientReads(r)
  BY <1>9 DEF ClientReads
<1>10. CASE ClientEnds(r)
  BY <1>10 DEF ClientEnds
<1>11. CASE ClientGivesUp(r)
  BY <1>11 DEF ClientGivesUp
<1> QED
  BY <1>1, <1>2, <1>3, <1>4, <1>5, <1>6, <1>7, <1>8, <1>9, <1>10, <1>11
     DEF Step, Thread

LEMMA TrafficEnd ==
    ASSUME IInv, NEW r \in Requests, EndInv(r), Traffic
    PROVE  EndInv(r)'
<1>0. TypeOK /\ ThreadInv(r)
  BY DEF IInv
<1>s. r \in sent' <=> r \in sent \/ client'[r] = "waiting"
  BY DEF Traffic
<1>1. ASSUME NEW q \in Requests, Step(q) PROVE EndInv(r)'
  <2>1. CASE q = r
    BY <1>0, <1>1, <1>s, <2>1, OwnEnd
  <2>2. CASE q # r
    BY <1>0, <1>1, <1>s, <2>2, OthersSame DEF Same, EndInv
  <2> QED
    BY <2>1, <2>2
<1>2. CASE Kill
  BY <1>0, <1>2, <1>s DEF Kill, EndInv, clientVars, TypeOK
<1> QED
  BY <1>1, <1>2 DEF Traffic, Next, Step

(* What a row says of its request stays true. *)
LEMMA TrafficRow ==
    ASSUME IInv, NEW row, RowInv(row), Traffic
    PROVE  RowInv(row)'
<1> DEFINE r == row.req
<1>1. r \in Requests /\ Kept(r) /\ ledger \subseteq ledger'
  BY StepKeeps, LedgerGrows DEF Traffic, RowInv
<1>2. Finished(r)' /\ Body(r)' = Body(r) /\ client'[r] = client[r]
  BY <1>1 DEF RowInv, Kept, Finished, Body
<1>3. r \in sent' <=> r \in sent
  BY <1>1, <1>2 DEF RowInv, Traffic, Finished
<1> QED
  BY <1>1, <1>2, <1>3 DEF RowInv, Kept

(* A row as it is exported. *)
LEMMA RowIsOf ==
    ASSUME IInv, NEW r \in Requests, EndInv(r), Finished(r),
           NEW status \in Statuses(r), NEW text \in Texts(r, Body(r))
    PROVE  RowInv(Row(r, status, text))
<1> DEFINE row == Row(r, status, text)
           mine == ReceiptsOf(r)
<1>1. /\ row.req = r /\ row.body = Body(r) /\ row.status = status /\ row.text = text
      /\ row.receipt = IF mine = {} THEN NoReceipt ELSE CHOOSE x \in mine : TRUE
  BY DEF Row
<1>2. row.wholeRequest <=> r \in sent
  BY DEF Row
<1>3. row.timeout <=> client[r] = "gone"
  BY DEF Row
<1>4. text # {} => answer[r] = "200" /\ Body(r) = size[r] /\ Body(r) > 0
  <2> SUFFICES ASSUME text # {} PROVE answer[r] = "200" /\ Body(r) = size[r] /\ Body(r) > 0
    OBVIOUS
  <2>1. Body(r) = size[r] /\ Body(r) > 0
    BY DEF Texts
  <2>2. got[r] > 0
    BY <2>1 DEF Body, ErrorPage
  <2>3. /\ got[r] <= written[r] /\ written[r] <= recorded[r]
        /\ got[r] \in Int /\ written[r] \in Int /\ recorded[r] \in Int
    BY DEF IInv, TypeOK, ThreadInv, Counts
  <2> QED
    BY <2>1, <2>2, <2>3 DEF EndInv
<1>5. /\ status = "200" => answer[r] = "200"
      /\ client[r] = "answered" => status = "200"
  BY DEF Statuses, IInv, ThreadInv, Answered
<1>6. row.partial = IF mine # {} /\ row.receipt.bytes # Body(r) THEN row.receipt.bytes ELSE NoFile
  BY <1>1 DEF Row
<1>7. mine # {} => row.receipt \in ledger /\ row.receipt.req = r
  BY <1>1 DEF ReceiptsOf
<1> HIDE DEF row, mine
<1>8. RowInv(row)
  BY <1>1, <1>2, <1>3, <1>4, <1>5, <1>6, <1>7 DEF RowInv
<1> QED
  BY <1>8 DEF row

(* The ledger only grows. *)
LEMMA FilesKeep == ASSUME FileInv, [Next]_vars, UNCHANGED <<rows, allReceipts>> PROVE FileInv'
  BY LedgerGrows DEF FileInv

LEMMA ExportStep == ExportInv /\ [ExportNext]_exportVars => ExportInv'
<1> SUFFICES ASSUME ExportInv, [ExportNext]_exportVars PROVE ExportInv'
  OBVIOUS
<1> USE DEF ExportInv
<1>1. CASE Traffic
  <2>1. IInv'
    BY <1>1, StepType, StepThreadInv, StepLedger DEF Traffic, IInv
  <2>2. \A r \in Requests : EndInv(r)'
    BY <1>1, TrafficEnd
  <2>3. \A row \in rows : RowInv(row)'
    BY <1>1, TrafficRow
  <2>4. FileInv'
    BY <1>1, FilesKeep DEF Traffic
  <2> QED
    BY <1>1, <2>1, <2>2, <2>3, <2>4 DEF Traffic
<1>2. ASSUME UNCHANGED <<vars, sent>>
      PROVE  /\ IInv' /\ \A r \in Requests : EndInv(r)'
             /\ \A row : RowInv(row) => RowInv(row)'
  <2>1. IInv'
    BY <1>2, StepType, StepThreadInv, StepLedger DEF IInv
  <2>2. \A r \in Requests : EndInv(r)'
    BY <1>2 DEF EndInv, vars, threadVars, clientVars
  <2>3. \A row : RowInv(row) => RowInv(row)'
    BY <1>2 DEF RowInv, vars, threadVars, clientVars, Finished, Body
  <2> QED
    BY <2>1, <2>2, <2>3
<1>3. CASE ExportRows
  <2>1. UNCHANGED <<vars, sent>> /\ allReceipts' = {}
    BY <1>3 DEF ExportRows
  <2>2. \A row \in rows' : RowInv(row)
    BY <1>3, RowIsOf DEF ExportRows
  <2> QED
    BY <1>2, <2>1, <2>2 DEF FileInv
<1>4. CASE ExportLedger
  <2>1. UNCHANGED <<vars, sent, rows>> /\ rows # {} /\ allReceipts' = {ledger}
    BY <1>4 DEF ExportLedger
  <2>2. ledger' = ledger
    BY <2>1 DEF vars, threadVars
  <2>3. FileInv'
    BY <2>1, <2>2 DEF FileInv, RowInv
  <2> QED
    BY <1>2, <2>1, <2>3
<1>5. CASE UNCHANGED exportVars
  <2>1. FileInv'
    BY <1>5 DEF FileInv, exportVars, vars, threadVars
  <2> QED
    BY <1>2, <1>5, <2>1 DEF exportVars
<1> QED
  BY <1>1, <1>3, <1>4, <1>5 DEF ExportNext

LEMMA ExportInvariant == ExportSpec => []ExportInv
<1>1. ExportInit => ExportInv
  BY InitInv DEF ExportInit, ExportInv, EndInv, FileInv, Init
<1> QED
  BY <1>1, ExportStep, PTL DEF ExportSpec

----------------------------------------------------------------------------
(* The exporter and the history of requests sent only look on: under it    *)
(* receipt-proxy.py takes the steps of its own specification, so that the  *)
(* theorems about that specification, its refinement included, hold of     *)
(* every export.                                                           *)
THEOREM ExportOnlyWatches == ExportSpec => Spec
<1>1. ExportInit => Init
  BY DEF ExportInit
<1>2. [ExportNext]_exportVars => [Next]_vars
  BY DEF ExportNext, Traffic, ExportRows, ExportLedger, exportVars
<1> QED
  BY <1>1, <1>2, PTL DEF ExportSpec, Spec

(* What receipt-proxy.py recorded of any request agrees with what its      *)
(* client got, and a chunked body that was cut is not called complete,     *)
(* whatever is exported in the meantime and whenever Ctrl-C comes.         *)
THEOREM ExportedTrafficAgrees ==
    ExportSpec => /\ [](AnswerAgreesWithReceipt /\ ChunkedCompleteIsWhole)
                  /\ ImplementsReceiptLog
BY ExportOnlyWatches, ReceiptAgrees, ChunkedWhole, CollectorRefines, PTL

----------------------------------------------------------------------------
(* A row with a receipt of fewer or more pieces than its client has can    *)
(* only be of a client that gave up, or of the proxy's own 502.            *)
LEMMA DifferentBytes ==
    ASSUME ExportInv, NEW row \in rows, row.receipt # NoReceipt, row.receipt.bytes # row.body
    PROVE  /\ client[row.req] \in {"gone", "rejected"}
           /\ row.text = {}
           /\ row.partial = row.receipt.bytes
<1> DEFINE r == row.req
<1>1. /\ r \in Requests /\ Finished(r) /\ ThreadInv(r) /\ EndInv(r)
      /\ row.receipt \in ledger /\ row.receipt.req = r /\ row.body = Body(r)
      /\ row.partial = row.receipt.bytes
      /\ row.text # {} => answer[r] = "200" /\ row.body = size[r] /\ row.body > 0
  BY DEF ExportInv, RowInv, IInv
<1>2. row.receipt.bytes = recorded[r] /\ pc[r] \in {"close", "done"}
  BY <1>1 DEF ExportInv, IInv, LedgerInv
<1>3. /\ recorded[r] \in Nat /\ written[r] \in Nat /\ got[r] \in Nat /\ size[r] \in Nat
      /\ client[r] \in Clients /\ answer[r] \in {"none", "200", "502"}
  BY <1>1, CollectorAssumption DEF ExportInv, IInv, TypeOK
<1>4. got[r] <= written[r] /\ written[r] <= recorded[r] /\ recorded[r] <= size[r]
  BY <1>1 DEF ThreadInv, Counts
<1>5. client[r] # "answered"
  <2>1. client[r] = "answered" => row.receipt.bytes = got[r] /\ Body(r) = got[r]
    BY <1>1, <1>2 DEF ThreadInv, Answered, Flags, SeesEnd, Body
  <2> QED
    BY <1>1, <2>1
<1>6. client[r] # "broken"
  BY <1>1, <1>2, <1>3, <1>4 DEF EndInv, ThreadInv, Flags, Body
<1>7. row.text = {}
  <2> SUFFICES ASSUME row.text # {} PROVE FALSE
    OBVIOUS
  <2>1. Body(r) = got[r] \/ Body(r) = -1
    BY DEF Body, ErrorPage
  <2>2. got[r] = size[r]
    BY <1>1, <1>3, <2>1
  <2> QED
    BY <1>1, <1>2, <1>3, <1>4, <2>1, <2>2
<1> QED
  BY <1>1, <1>3, <1>5, <1>6, <1>7 DEF Finished, Clients

(* verify-incomplete-results.py: an honest export is rejected for nothing  *)
(* but a request that was cut, the proxy's own 502, and a client timeout   *)
(* that races the last write, for any number of requests and of pieces.    *)
THEOREM HonestAccepted == ExportSpec => []HonestExportIsAccepted
<1>1. ASSUME ExportInv PROVE HonestExportIsAccepted
  <2> SUFFICES ASSUME ~IncompleteAccepts
               PROVE  \E row \in rows :
                         /\ HasRowReceipt(row)
                         /\ \/ client[row.req] = "gone" /\ row.req \notin sent
                            \/ client[row.req] = "rejected"
                            \/ /\ client[row.req] = "gone" /\ row.receipt.complete
                               /\ row.receipt.bytes # row.body
    BY DEF HonestExportIsAccepted
  <2>1. \A row \in rows : RowInv(row) /\ EndInv(row.req)
    BY <1>1 DEF ExportInv, RowInv
  <2> PICK row \in rows : HasRowReceipt(row) /\ (~RequestAgrees(row) \/ ~ResponseAgrees(row))
    BY DEF IncompleteAccepts
  <2>3. ~RequestAgrees(row) => client[row.req] = "gone" /\ row.req \notin sent
    BY <2>1 DEF RequestAgrees, RowInv, EndInv, Finished
  <2>4. ~ResponseAgrees(row) => row.receipt.bytes # row.body
    BY DEF ResponseAgrees
  <2>5. row.receipt.bytes # row.body =>
            /\ client[row.req] \in {"gone", "rejected"} /\ ~Normal("incomplete", row)
            /\ row.partial = row.receipt.bytes
    BY <1>1, DifferentBytes DEF HasRowReceipt, Normal
  <2>6. client[row.req] = "gone" => row.timeout
    BY <2>1 DEF RowInv
  <2>7. ~ResponseAgrees(row) /\ client[row.req] = "gone" => row.receipt.complete
    BY <2>4, <2>5, <2>6 DEF ResponseAgrees
  <2> QED
    BY <2>3, <2>4, <2>5, <2>7
<1> QED
  BY <1>1, ExportInvariant, PTL

(* A row with a receipt and an answered client has all that the stricter   *)
(* verifiers ask for, except an answer that is found normal.               *)
LEMMA AnsweredRow ==
    ASSUME ExportInv, NEW row \in rows, HasRowReceipt(row), client[row.req] = "answered"
    PROVE  /\ RequestAgrees(row) /\ row.receipt.bytes = row.body
           /\ row.status = "200" /\ NativeStatus(row.req) = "200"
           /\ row.receipt \in ledger /\ row.receipt.req = row.req
           /\ row.receipt.complete
<1>1. RowInv(row) /\ EndInv(row.req) /\ AnswerAgreesWithReceipt
  BY InvAgrees DEF ExportInv, RowInv
<1>2. row.status = "200" /\ NativeStatus(row.req) = "200"
  BY <1>1 DEF RowInv, NativeStatus
<1>3. RequestAgrees(row)
  BY <1>1 DEF RowInv, EndInv, RequestAgrees
<1>4. row.receipt \in ledger /\ row.receipt.req = row.req
  BY <1>1 DEF RowInv, HasRowReceipt
<1>5. row.receipt.bytes = row.body
  BY DifferentBytes DEF HasRowReceipt
<1>6. row.receipt.complete
  BY <1>1, <1>4, ProxyAssumption DEF AnswerAgreesWithReceipt
<1> QED
  BY <1>2, <1>3, <1>4, <1>5, <1>6

(* The ledger has one record of a request. *)
LEMMA OneRecord ==
    ASSUME IInv, NEW x \in ledger, NEW y \in ledger, x.req = y.req PROVE x = y
<1>1. x \in Receipts /\ y \in Receipts
  BY DEF IInv, TypeOK
<1>2. x.bytes = y.bytes /\ x.complete = y.complete /\ x.error = y.error
  BY DEF IInv, LedgerInv
<1> QED
  BY <1>1, <1>2 DEF Receipts

(* verify-converged.py and verify-results.py: an export of traffic that    *)
(* was all answered is rejected only because a receipt was read before it  *)
(* was appended, or (by the latter) for what the engines answered, for any *)
(* number of requests and of pieces and whenever Ctrl-C comes.             *)
THEOREM AnsweredAccepted == ExportSpec => []AnsweredExportIsAccepted
<1>1. ASSUME ExportInv PROVE AnsweredExportIsAccepted
  <2> SUFFICES ASSUME \A row \in rows : client[row.req] = "answered"
               PROVE  /\ \A file \in allReceipts :
                             (\A row \in rows : HasRowReceipt(row) \/ {x \in file : x.req = row.req} = {})
                                 => ConvergedAccepts(file)
                      /\ (\A row \in rows : HasRowReceipt(row) /\ Normal("settings", row))
                            => SettingsAccept
    BY DEF AnsweredExportIsAccepted
  <2>1. ASSUME NEW file \in allReceipts, NEW row \in rows, HasRowReceipt(row)
        PROVE  {x \in file : x.req = row.req} = {row.receipt}
    <3>1. row.receipt \in file /\ file \subseteq ledger /\ row.receipt.req = row.req
      BY <1>1, <2>1, AnsweredRow DEF ExportInv, FileInv, HasRowReceipt
    <3>2. \A x \in file : x.req = row.req => x = row.receipt
      BY <1>1, <3>1, OneRecord DEF ExportInv
    <3> QED
      BY <3>1, <3>2
  <2>2. \A file \in allReceipts :
            (\A row \in rows : HasRowReceipt(row) \/ {x \in file : x.req = row.req} = {})
                => ConvergedAccepts(file)
    BY <1>1, <2>1, AnsweredRow DEF ConvergedAccepts
  <2>3. (\A row \in rows : HasRowReceipt(row) /\ Normal("settings", row)) => SettingsAccept
    BY <1>1, AnsweredRow DEF SettingsAccept
  <2> QED
    BY <2>2, <2>3
<1> QED
  BY <1>1, ExportInvariant, PTL
=============================================================================
