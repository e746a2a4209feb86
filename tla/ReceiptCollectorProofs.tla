----------------------- MODULE ReceiptCollectorProofs -----------------------
(***************************************************************************)
(* Proofs about ReceiptCollector, for any set of requests and any number   *)
(* of pieces in a body.  One inductive invariant serves all theorems: what *)
(* a thread and its client know of each other (ThreadInv), and what the    *)
(* ledger says of the threads (LedgerInv).                                 *)
(***************************************************************************)
EXTENDS ReceiptCollector, TLAPS

Counts(r) ==
    got[r] <= written[r] /\ written[r] <= recorded[r] /\ recorded[r] <= size[r]

Before(r) ==
    pc[r] \in {"body", "connect"} =>
        recorded[r] = 0 /\ answer[r] = "none" /\ ~completed[r] /\ ~failed[r]

Streaming(r) ==
    pc[r] = "stream" => answer[r] = "200" /\ ~completed[r] /\ ~failed[r]

Flags(r) ==
    /\ completed[r] => ~failed[r] /\ (kind[r] = "chunked" => recorded[r] = size[r])
    /\ client[r] # "gone" => written[r] = recorded[r]
    /\ (/\ pc[r] \in {"receipt", "close", "done"} /\ kind[r] = "length"
        /\ answer[r] = "200" /\ recorded[r] = size[r] /\ client[r] # "gone") => completed[r]

Answered(r) == client[r] = "answered" => answer[r] = "200" /\ SeesEnd(r)

Closed(r) ==
    /\ alive /\ wire[r] = "closed" => pc[r] = "done"
    /\ ~alive /\ ~MayBeKilled => pc[r] = "done"

ThreadInv(r) ==
    Counts(r) /\ Before(r) /\ Streaming(r) /\ Flags(r) /\ Answered(r) /\ Closed(r)

LedgerInv ==
    /\ \A x \in ledger : /\ pc[x.req] \in {"close", "done"}
                         /\ x.bytes = recorded[x.req]
                         /\ x.complete = completed[x.req]
                         /\ x.error = failed[x.req]
    /\ \A r \in Requests : pc[r] \in {"close", "done"} => HasReceipt(r)

IInv == TypeOK /\ (\A r \in Requests : ThreadInv(r)) /\ LedgerInv

----------------------------------------------------------------------------
LEMMA InitInv == Init => IInv
BY CollectorAssumption
DEF Init, IInv, TypeOK, ThreadInv, LedgerInv, Counts, Before, Streaming, Flags,
    Answered, Closed, Steps, Clients, Framings, Receipts

(* Types are preserved; the counters stay in range because of Counts. *)
LEMMA StepType == IInv /\ [Next]_vars => TypeOK'
<1> SUFFICES ASSUME IInv, [Next]_vars PROVE TypeOK'
  OBVIOUS
<1> USE CollectorAssumption
    DEF IInv, TypeOK, Steps, Clients, Set, At, Except, threadVars, clientVars
<1>1. ASSUME NEW r \in Requests, ReadBody(r) PROVE TypeOK'
  <2>1. UNCHANGED <<kind, size, recorded, written, wire, completed, ledger, clientVars, alive>>
    BY <1>1 DEF ReadBody
  <2>2. pc' \in [Requests -> Steps] /\ failed' \in [Requests -> BOOLEAN]
    BY <1>1 DEF ReadBody
  <2>3. answer' \in [Requests -> {"none", "200", "502"}]
    BY <1>1 DEF ReadBody
  <2> QED
    BY <2>1, <2>2, <2>3
<1>2. ASSUME NEW r \in Requests, Connect(r) PROVE TypeOK'
  <2>1. kind' \in [Requests -> Framings] /\ size' \in [Requests -> 0..MaxPieces]
    BY <1>2 DEF Connect
  <2>2. pc' \in [Requests -> Steps] /\ failed' \in [Requests -> BOOLEAN]
    BY <1>2 DEF Connect
  <2>3. answer' \in [Requests -> {"none", "200", "502"}]
    BY <1>2 DEF Connect
  <2> QED
    BY <1>2, <2>1, <2>2, <2>3 DEF Connect
<1>3. ASSUME NEW r \in Requests, Relay(r) PROVE TypeOK'
  <2>1. Counts(r) /\ recorded[r] + 1 \in 0..MaxPieces
    BY <1>3 DEF Relay, ThreadInv, Counts
  <2>2. recorded' \in [Requests -> 0..MaxPieces] /\ written' \in [Requests -> 0..MaxPieces]
    BY <1>3, <2>1 DEF Relay, Counts
  <2>3. UNCHANGED <<kind, size, wire, completed, ledger, clientVars, alive>>
    BY <1>3 DEF Relay
  <2>4. pc' \in [Requests -> Steps] /\ failed' \in [Requests -> BOOLEAN]
    BY <1>3 DEF Relay
  <2>5. answer' \in [Requests -> {"none", "200", "502"}]
    BY <1>3 DEF Relay
  <2> QED
    BY <2>2, <2>3, <2>4, <2>5
<1>4. ASSUME NEW r \in Requests, EndOfBody(r) PROVE TypeOK'
  BY <1>4 DEF EndOfBody
<1>5. ASSUME NEW r \in Requests, UpstreamError(r) PROVE TypeOK'
  BY <1>5 DEF UpstreamError
<1>6. ASSUME NEW r \in Requests, AppendReceipt(r) PROVE TypeOK'
  <2>1. [req |-> r, bytes |-> recorded[r], complete |-> completed[r],
         error |-> failed[r]] \in Receipts
    BY DEF Receipts
  <2> QED
    BY <1>6, <2>1 DEF AppendReceipt
<1>7. ASSUME NEW r \in Requests, Close(r) PROVE TypeOK'
  BY <1>7 DEF Close
<1>8. ASSUME NEW r \in Requests, ClientSends(r) PROVE TypeOK'
  BY <1>8 DEF ClientSends
<1>9. ASSUME NEW r \in Requests, ClientReads(r) PROVE TypeOK'
  BY <1>9 DEF ClientReads
<1>10. ASSUME NEW r \in Requests, ClientEnds(r) PROVE TypeOK'
  BY <1>10 DEF ClientEnds
<1>11. ASSUME NEW r \in Requests, ClientGivesUp(r) PROVE TypeOK'
  BY <1>11 DEF ClientGivesUp
<1>12. CASE Kill
  BY <1>12 DEF Kill
<1>13. CASE UNCHANGED vars
  BY <1>13 DEF vars
<1> QED
  BY <1>1, <1>2, <1>3, <1>4, <1>5, <1>6, <1>7, <1>8, <1>9, <1>10, <1>11,
     <1>12, <1>13 DEF Next, Thread

----------------------------------------------------------------------------
(* A step of one request leaves everything ThreadInv says of another one.  *)
Same(q) ==
    /\ pc'[q] = pc[q] /\ kind'[q] = kind[q] /\ size'[q] = size[q]
    /\ recorded'[q] = recorded[q] /\ written'[q] = written[q] /\ wire'[q] = wire[q]
    /\ answer'[q] = answer[q] /\ completed'[q] = completed[q] /\ failed'[q] = failed[q]
    /\ client'[q] = client[q] /\ got'[q] = got[q]

LEMMA SameKeeps ==
    ASSUME NEW q \in Requests, ThreadInv(q), Same(q), alive' = alive
    PROVE  ThreadInv(q)'
BY DEF ThreadInv, Same, Counts, Before, Streaming, Flags, Answered, Closed, SeesEnd

Step(r) ==
    \/ Thread(r) \/ ClientSends(r) \/ ClientReads(r) \/ ClientEnds(r) \/ ClientGivesUp(r)

LEMMA OthersSame ==
    ASSUME TypeOK, NEW r \in Requests, Step(r), NEW q \in Requests, q # r
    PROVE  Same(q) /\ alive' = alive
<1> USE DEF TypeOK, Set, At, Except, threadVars, clientVars, Same
<1>1. CASE ReadBody(r) \/ Connect(r)
  BY <1>1 DEF ReadBody, Connect
<1>2. CASE Relay(r) \/ EndOfBody(r) \/ UpstreamError(r)
  BY <1>2 DEF Relay, EndOfBody, UpstreamError
<1>3. CASE AppendReceipt(r) \/ Close(r)
  BY <1>3 DEF AppendReceipt, Close
<1>4. CASE ClientSends(r) \/ ClientReads(r) \/ ClientEnds(r) \/ ClientGivesUp(r)
  BY <1>4 DEF ClientSends, ClientReads, ClientEnds, ClientGivesUp
<1> QED
  BY <1>1, <1>2, <1>3, <1>4 DEF Step, Thread

(* A step of a request preserves its own ThreadInv. *)
LEMMA OwnStep ==
    ASSUME TypeOK, NEW r \in Requests, ThreadInv(r), Step(r)
    PROVE  ThreadInv(r)'
<1> USE CollectorAssumption
    DEF TypeOK, Set, At, Except, threadVars, clientVars, ThreadInv, Counts, Before,
        Streaming, Flags, Answered, Closed, SeesEnd
<1>1. CASE ReadBody(r)
  BY <1>1 DEF ReadBody
<1>2. CASE Connect(r)
  BY <1>2 DEF Connect
<1>3. CASE Relay(r)
  BY <1>3 DEF Relay
<1>4. CASE EndOfBody(r)
  BY <1>4 DEF EndOfBody
<1>5. CASE UpstreamError(r)
  BY <1>5 DEF UpstreamError
<1>6. CASE AppendReceipt(r)
  BY <1>6 DEF AppendReceipt
<1>7. CASE Close(r)
  BY <1>7 DEF Close
<1>8. CASE ClientSends(r)
  BY <1>8 DEF ClientSends
<1>9. CASE ClientReads(r)
  BY <1>9 DEF ClientReads
<1>10. CASE ClientEnds(r)
  BY <1>10 DEF ClientEnds
<1>11. CASE ClientGivesUp(r)
  BY <1>11 DEF ClientGivesUp
<1> QED
  BY <1>1, <1>2, <1>3, <1>4, <1>5, <1>6, <1>7, <1>8, <1>9, <1>10, <1>11
     DEF Step, Thread

LEMMA StepThreadInv == IInv /\ [Next]_vars => \A q \in Requests : ThreadInv(q)'
<1> SUFFICES ASSUME IInv, [Next]_vars, NEW q \in Requests PROVE ThreadInv(q)'
  OBVIOUS
<1>1. TypeOK /\ ThreadInv(q)
  BY DEF IInv
<1>2. ASSUME NEW r \in Requests, Step(r) PROVE ThreadInv(q)'
  BY <1>1, <1>2, OthersSame, SameKeeps, OwnStep
<1>3. CASE Kill
  BY <1>1, <1>3
     DEF TypeOK, Kill, ThreadInv, Counts, Before, Streaming, Flags, Answered, Closed,
         SeesEnd, clientVars
<1>4. CASE UNCHANGED vars
  BY <1>1, <1>4, SameKeeps DEF vars, threadVars, clientVars, Same
<1> QED
  BY <1>2, <1>3, <1>4 DEF Next, Step

LEMMA StepLedger == IInv /\ [Next]_vars => LedgerInv'
<1> SUFFICES ASSUME IInv, [Next]_vars PROVE LedgerInv'
  OBVIOUS
<1>a. TypeOK /\ LedgerInv
  BY DEF IInv
<1> USE DEF TypeOK, Receipts, HasReceipt
(* A step that leaves the ledger alone moves no thread to or from its last *)
(* two states, and disturbs no thread that is there.                       *)
<1>1. ASSUME NEW r \in Requests, ledger' = ledger,
             pc'[r] \in {"close", "done"} <=> pc[r] \in {"close", "done"},
             pc[r] \in {"close", "done"} => /\ recorded'[r] = recorded[r]
                                            /\ completed'[r] = completed[r]
                                            /\ failed'[r] = failed[r],
             \A q \in Requests : q # r => Same(q)
      PROVE  LedgerInv'
  BY <1>a, <1>1 DEF LedgerInv, Same
<1>2. ASSUME NEW r \in Requests, AppendReceipt(r) PROVE LedgerInv'
  <2>1. \A q \in Requests : q # r => Same(q)
    BY <1>2, <1>a, OthersSame DEF Step, Thread
  <2>2. /\ pc[r] = "receipt" /\ pc'[r] = "close"
        /\ recorded' = recorded /\ completed' = completed /\ failed' = failed
        /\ ledger' = ledger \cup {[req |-> r, bytes |-> recorded[r],
                                   complete |-> completed[r], error |-> failed[r]]}
    BY <1>a, <1>2 DEF AppendReceipt, At, Set
  <2>3. \A x \in ledger : x.req # r
    BY <1>a, <2>2 DEF LedgerInv
  <2> DEFINE entry == [req |-> r, bytes |-> recorded[r], complete |-> completed[r],
                       error |-> failed[r]]
  <2>4. ASSUME NEW x \in ledger'
        PROVE  /\ pc'[x.req] \in {"close", "done"} /\ x.bytes = recorded'[x.req]
               /\ x.complete = completed'[x.req] /\ x.error = failed'[x.req]
    <3>1. CASE x \in ledger
      BY <1>a, <2>1, <2>2, <2>3, <3>1 DEF LedgerInv, Same
    <3>2. CASE x = entry
      <4>1. /\ x.req = r /\ x.bytes = recorded[r]
            /\ x.complete = completed[r] /\ x.error = failed[r]
        BY <3>2
      <4> QED
        BY <2>2, <4>1
    <3> QED
      BY <2>2, <2>4, <3>1, <3>2
  <2>5. ASSUME NEW q \in Requests, pc'[q] \in {"close", "done"}
        PROVE  \E x \in ledger' : x.req = q
    <3>1. CASE q = r
      <4>1. entry \in ledger' /\ entry.req = r
        BY <2>2
      <4> QED
        BY <3>1, <4>1
    <3>2. CASE q # r
      BY <1>a, <2>1, <2>2, <2>5, <3>2 DEF LedgerInv, Same
    <3> QED
      BY <3>1, <3>2
  <2> QED
    BY <2>4, <2>5 DEF LedgerInv
<1>3. ASSUME NEW r \in Requests, Step(r), ~AppendReceipt(r) PROVE LedgerInv'
  <2>1. \A q \in Requests : q # r => Same(q)
    BY <1>3, <1>a, OthersSame
  <2>2. ledger' = ledger
    BY <1>3 DEF Step, Thread, ReadBody, Connect, Relay, EndOfBody, UpstreamError, Close,
       ClientSends, ClientReads, ClientEnds, ClientGivesUp, threadVars, Except
  <2> DEFINE Stays ==
        /\ pc'[r] \in {"close", "done"} <=> pc[r] \in {"close", "done"}
        /\ pc[r] \in {"close", "done"} => /\ recorded'[r] = recorded[r]
                                          /\ completed'[r] = completed[r]
                                          /\ failed'[r] = failed[r]
  <2>3. ASSUME ReadBody(r) \/ Connect(r) PROVE Stays
    <3>1. pc[r] \notin {"close", "done"} /\ pc'[r] \notin {"close", "done"}
      BY <1>a, <2>3 DEF ReadBody, Connect, Except, At, Set
    <3> QED
      BY <3>1
  <2>4. ASSUME Relay(r) \/ EndOfBody(r) \/ UpstreamError(r) PROVE Stays
    <3>1. pc[r] \notin {"close", "done"} /\ pc'[r] \notin {"close", "done"}
      BY <1>a, <2>4 DEF Relay, EndOfBody, UpstreamError, Except, At, Set
    <3> QED
      BY <3>1
  <2>5. ASSUME Close(r) PROVE Stays
    BY <1>a, <2>5 DEF Close, At, Set
  <2>6. ASSUME ClientSends(r) \/ ClientReads(r) \/ ClientEnds(r) \/ ClientGivesUp(r) PROVE Stays
    BY <1>a, <2>6 DEF ClientSends, ClientReads, ClientEnds, ClientGivesUp, threadVars
  <2>7. Stays
    BY <1>3, <2>3, <2>4, <2>5, <2>6 DEF Step, Thread
  <2> QED
    BY <1>1, <2>1, <2>2, <2>7
<1>4. CASE Kill
  BY <1>a, <1>4 DEF Kill, LedgerInv
<1>5. CASE UNCHANGED vars
  BY <1>a, <1>5 DEF vars, threadVars, LedgerInv
<1> QED
  BY <1>2, <1>3, <1>4, <1>5 DEF Next, Step

LEMMA Inductive == Spec => []IInv
<1>1. IInv /\ [Next]_vars => IInv'
  BY StepType, StepThreadInv, StepLedger DEF IInv
<1> QED
  BY <1>1, InitInv, PTL DEF Spec

----------------------------------------------------------------------------
(* Every reachable state is well typed. *)
THEOREM CollectorTypes == Spec => []TypeOK
<1>1. IInv => TypeOK
  BY DEF IInv
<1> QED
  BY <1>1, Inductive, PTL

(* receipt-collector.py, stopped after traffic has drained: a client that  *)
(* has its whole answer has its receipt.                                   *)
THEOREM ReceiptBeforeAnswer ==
    ASSUME ForwardsLength = FALSE, MayBeKilled = FALSE
    PROVE  Spec => []AnsweredHasReceipt
<1>1. IInv => AnsweredHasReceipt
  <2> SUFFICES ASSUME IInv, NEW r \in Requests, client[r] = "answered"
               PROVE  HasReceipt(r)
    BY DEF AnsweredHasReceipt
  <2>1. wire[r] = "closed"
    BY DEF IInv, ThreadInv, Answered, SeesEnd
  <2>2. pc[r] = "done"
    BY <2>1 DEF IInv, TypeOK, ThreadInv, Closed
  <2> QED
    BY <2>2 DEF IInv, LedgerInv
<1> QED
  BY <1>1, Inductive, PTL

LEMMA InvAgrees == IInv => AnswerAgreesWithReceipt
<1> SUFFICES ASSUME IInv, NEW x \in ledger, client[x.req] = "answered"
             PROVE  x.bytes = got[x.req] /\ (ForwardsLength => x.complete /\ ~x.error)
  BY DEF AnswerAgreesWithReceipt
<1>1. x.req \in Requests /\ ThreadInv(x.req) /\ TypeOK
  BY DEF IInv, TypeOK, Receipts
<1>2. /\ pc[x.req] \in {"close", "done"} /\ x.bytes = recorded[x.req]
      /\ x.complete = completed[x.req] /\ x.error = failed[x.req]
  BY DEF IInv, LedgerInv
<1>3. answer[x.req] = "200" /\ SeesEnd(x.req) /\ written[x.req] = recorded[x.req]
  BY <1>1 DEF ThreadInv, Answered, Flags
<1>4. ASSUME ForwardsLength PROVE completed[x.req] /\ ~failed[x.req]
  BY <1>1, <1>2, <1>3, <1>4 DEF ThreadInv, Flags, SeesEnd, TypeOK
<1> QED
  BY <1>2, <1>3, <1>4 DEF SeesEnd

(* Both collectors, killed at any time: receipt and client agree. *)
THEOREM ReceiptAgrees == Spec => []AnswerAgreesWithReceipt
BY InvAgrees, Inductive, PTL

(* A cut chunked body is never recorded as complete. *)
THEOREM ChunkedWhole == Spec => []ChunkedCompleteIsWhole
<1>1. IInv => ChunkedCompleteIsWhole
  BY DEF IInv, TypeOK, Receipts, LedgerInv, ThreadInv, Flags, ChunkedCompleteIsWhole
<1> QED
  BY <1>1, Inductive, PTL
----------------------------------------------------------------------------
(* The collectors implement ReceiptLog. *)
Whole == {[req |-> r, bytes |-> got[r]] : r \in {q \in Requests : client[q] = "answered"}}
Drained == \A r \in Requests : pc[r] = "done"
State == IF alive THEN "open" ELSE IF Drained THEN "drained" ELSE "killed"

(* A thread leaves the clients alone and runs while the collector does; a  *)
(* client only comes to its answer by ending, and then reads no more.      *)
LEMMA ThreadMoves ==
    ASSUME NEW r \in Requests, Thread(r)
    PROVE  UNCHANGED clientVars /\ alive /\ alive' = alive
<1>1. CASE ReadBody(r) \/ Connect(r)
  BY <1>1 DEF ReadBody, Connect, At
<1>2. CASE Relay(r) \/ EndOfBody(r) \/ UpstreamError(r)
  BY <1>2 DEF Relay, EndOfBody, UpstreamError, At
<1>3. CASE AppendReceipt(r) \/ Close(r)
  BY <1>3 DEF AppendReceipt, Close, At
<1> QED
  BY <1>1, <1>2, <1>3 DEF Thread

LEMMA ClientsMove ==
    ASSUME TypeOK, NEW r \in Requests, Step(r)
    PROVE  /\ client[r] = "answered" => UNCHANGED clientVars
           /\ client[r] # "answered" /\ client'[r] = "answered" => ClientEnds(r)
<1>1. CASE Thread(r)
  BY <1>1, ThreadMoves DEF clientVars
<1>2. CASE ClientSends(r) \/ ClientReads(r) \/ ClientGivesUp(r)
  BY <1>2 DEF ClientSends, ClientReads, ClientGivesUp, Set, TypeOK
<1>3. CASE ClientEnds(r)
  BY <1>3 DEF ClientEnds
<1> QED
  BY <1>1, <1>2, <1>3 DEF Step

(* The answers are as they were unless a client comes to have its answer.  *)
LEMMA SameWhole ==
    ASSUME TypeOK, NEW r \in Requests, Step(r), client'[r] # "answered" \/ client[r] = "answered"
    PROVE  Whole' = Whole
<1>1. client[r] = "answered" => Whole' = Whole
  BY ClientsMove DEF clientVars, Whole
<1>2. \A q \in Requests : q # r => client'[q] = client[q] /\ got'[q] = got[q]
  BY OthersSame DEF Same
<1> QED
  BY <1>1, <1>2 DEF Whole

(* The state of the collector changes only when it is stopped. *)
LEMMA SameState ==
    ASSUME NEW r \in Requests, Step(r)
    PROVE  State' = State
<1>1. CASE Thread(r)
  BY <1>1, ThreadMoves DEF State
<1>2. CASE ClientSends(r) \/ ClientReads(r) \/ ClientEnds(r) \/ ClientGivesUp(r)
  BY <1>2 DEF ClientSends, ClientReads, ClientEnds, ClientGivesUp, threadVars, State, Drained
<1> QED
  BY <1>1, <1>2 DEF Step

(* A receipt is the first of its request and agrees with an answer that is *)
(* already there.                                                          *)
LEMMA AppendRefines ==
    ASSUME IInv, AnswerAgreesWithReceipt', NEW r \in Requests, AppendReceipt(r)
    PROVE  Promise!Next
<1> DEFINE entry == [req |-> r, bytes |-> recorded[r], complete |-> completed[r], error |-> failed[r]]
<1>1. TypeOK /\ LedgerInv
  BY DEF IInv
<1>2. alive /\ pc[r] = "receipt" /\ ledger' = ledger \cup {entry} /\ UNCHANGED <<client, got, alive>>
  BY DEF AppendReceipt, At, clientVars
<1>3. entry \in Receipts /\ entry.req = r
  BY <1>1 DEF TypeOK, Receipts
<1>4. \A x \in ledger : x.req # r
  BY <1>1, <1>2 DEF LedgerInv
<1>5. client[r] = "answered" =>
        entry.bytes = got[r] /\ (ForwardsLength => entry.complete /\ ~entry.error)
  BY <1>2, <1>3 DEF AnswerAgreesWithReceipt
<1> HIDE DEF entry
<1>6. Whole' = Whole /\ State' = State /\ State = "open"
  BY <1>2 DEF Whole, State
<1>7. \A a \in Whole : Promise!Agree(entry, a)
  BY <1>3, <1>5 DEF Whole, Promise!Agree
<1>8. Promise!Append(entry)
  BY <1>2, <1>3, <1>4, <1>6, <1>7 DEF Promise!Append, Promise!Logged, Whole, State, Drained
<1> QED
  BY <1>3, <1>8 DEF Promise!Next

(* A client that comes to have its answer agrees with a receipt that is    *)
(* already there; without a length it is there, unless the collector was   *)
(* killed, since the end of the answer is the end of the connection.       *)
LEMMA AnswerRefines ==
    ASSUME IInv, IInv', AnswerAgreesWithReceipt', NEW r \in Requests,
           ClientEnds(r), client'[r] = "answered"
    PROVE  Promise!Next
<1> DEFINE a == [req |-> r, bytes |-> got[r]]
<1>1. TypeOK /\ LedgerInv /\ ThreadInv(r)'
  BY DEF IInv
<1>2. /\ client[r] = "waiting" /\ client' = Set(client, r, "answered")
      /\ UNCHANGED <<threadVars, got, alive>>
  BY <1>1 DEF ClientEnds, Set, TypeOK
<1>3. a \in [req : Requests, bytes : 0..MaxPieces] /\ a.req = r /\ a.bytes = got[r]
  BY <1>1 DEF TypeOK
<1>4. \A b \in Whole : b.req # r
  BY <1>2 DEF Whole
<1>5. Whole' = Whole \cup {a}
  BY <1>1, <1>2 DEF Whole, Set, TypeOK
<1>6. \A x \in ledger : Promise!Agree(x, a)
  <2> SUFFICES ASSUME NEW x \in ledger, x.req = r
               PROVE  x.bytes = got[r] /\ (ForwardsLength => x.complete /\ ~x.error)
    BY <1>3 DEF Promise!Agree
  <2> QED
    BY <1>1, <1>2 DEF AnswerAgreesWithReceipt, threadVars
<1>7. ~ForwardsLength => HasReceipt(r) \/ State = "killed"
  <2> SUFFICES ASSUME ~ForwardsLength, State # "killed" PROVE HasReceipt(r)
    OBVIOUS
  <2>1. wire[r] = "closed"
    BY <1>1, <1>2 DEF ThreadInv, Answered, SeesEnd, threadVars
  <2>2. pc[r] = "done"
    BY <2>1 DEF State, Drained, IInv, ThreadInv, Closed
  <2> QED
    BY <1>1, <2>2 DEF LedgerInv
<1>8. State' = State
  BY <1>2, SameState DEF Step
<1> HIDE DEF a
<1>9. PICK b \in [req : Requests, bytes : 0..MaxPieces] : b = a
  BY <1>3
<1>10. Promise!Answer(b)
  BY <1>2, <1>9, <1>3, <1>4, <1>5, <1>6, <1>7, <1>8
     DEF Promise!Answer, Promise!Logged, HasReceipt, Whole, State, Drained, threadVars
<1> QED
  BY <1>10 DEF Promise!Next

(* Both collectors implement ReceiptLog: their log and the answers of      *)
(* their clients are written once for each request and agree, and          *)
(* receipt-collector.py leaves a client that has its answer without a      *)
(* receipt only when it is killed in the middle of its traffic.            *)
THEOREM CollectorRefines == Spec => ImplementsReceiptLog
<1>1. Init => Promise!Init
  BY DEF Init, Promise!Init
<1>2. IInv /\ IInv' /\ AnswerAgreesWithReceipt' /\ [Next]_vars => [Promise!Next]_(Promise!vars)
  <2> SUFFICES ASSUME IInv, IInv', AnswerAgreesWithReceipt', [Next]_vars PROVE [Promise!Next]_(Promise!vars)
    OBVIOUS
  <2>1. ASSUME NEW r \in Requests, Step(r) PROVE [Promise!Next]_(Promise!vars)
    <3>1. CASE AppendReceipt(r)
      BY <3>1, AppendRefines
    <3>2. CASE client[r] # "answered" /\ client'[r] = "answered"
      <4>1. ClientEnds(r)
        BY <2>1, <3>2, ClientsMove DEF IInv
      <4> QED
        BY <3>2, <4>1, AnswerRefines
    <3>3. CASE ~AppendReceipt(r) /\ ~(client[r] # "answered" /\ client'[r] = "answered")
      <4>1. ledger' = ledger
        BY <2>1, <3>3 DEF Step, Thread, ReadBody, Connect, Relay, EndOfBody, UpstreamError, Close,
           ClientSends, ClientReads, ClientEnds, ClientGivesUp, threadVars, Except
      <4>2. Whole' = Whole
        BY <2>1, <3>3, SameWhole DEF IInv
      <4> QED
        BY <2>1, <4>1, <4>2, SameState DEF Promise!vars, Whole, State, Drained
    <3> QED
      BY <3>1, <3>2, <3>3
  <2>2. CASE Kill
    <3>1. UNCHANGED <<ledger, Whole>> /\ State = "open"
      BY <2>2 DEF Kill, clientVars, Whole, State
    <3>2. CASE Drained
      <4>1. State' = "drained" /\ \A r \in Requests : HasReceipt(r)
        BY <2>2, <3>2 DEF Kill, State, Drained, IInv, LedgerInv
      <4>2. Promise!Drain
        BY <3>1, <4>1 DEF Promise!Drain, Promise!Logged, HasReceipt, Whole, State, Drained
      <4> QED
        BY <4>2 DEF Promise!Next
    <3>3. CASE ~Drained
      <4>1. State' = "killed" /\ MayBeKilled
        BY <2>2, <3>3 DEF Kill, State, Drained
      <4>2. Promise!Kill
        BY <3>1, <4>1 DEF Promise!Kill, Whole, State, Drained
      <4> QED
        BY <4>2 DEF Promise!Next
    <3> QED
      BY <3>2, <3>3
  <2>3. CASE UNCHANGED vars
    BY <2>3 DEF vars, threadVars, clientVars, Promise!vars
  <2> QED
    BY <2>1, <2>2, <2>3 DEF Next, Step
<1> QED
  BY <1>1, <1>2, Inductive, ReceiptAgrees, PTL DEF Spec, ImplementsReceiptLog, Promise!Spec

----------------------------------------------------------------------------
(* What can be proved of EveryRequestIsRecorded without its fairness: how  *)
(* many steps a thread has at most before it.                              *)
StepsLeft(r) ==
    CASE pc[r] = "body"    -> MaxPieces + 5
      [] pc[r] = "connect" -> MaxPieces + 4
      [] pc[r] = "stream"  -> size[r] - recorded[r] + 3
      [] pc[r] = "receipt" -> 2
      [] pc[r] = "close"   -> 1
      [] pc[r] = "done"    -> 0

StepsCounted ==
    \A r \in Requests : /\ StepsLeft(r) \in 0..MaxPieces + 5
                        /\ StepsLeft(r) < 2 => HasReceipt(r)

LEMMA StepsAreCounted == IInv => StepsCounted
<1> SUFFICES ASSUME IInv, NEW r \in Requests
             PROVE  StepsLeft(r) \in 0..MaxPieces + 5 /\ (StepsLeft(r) < 2 => HasReceipt(r))
  BY DEF StepsCounted
<1>1. /\ MaxPieces \in Nat /\ size[r] \in 0..MaxPieces /\ recorded[r] \in 0..MaxPieces
      /\ recorded[r] <= size[r] /\ pc[r] \in Steps
  BY CollectorAssumption DEF IInv, TypeOK, ThreadInv, Counts
<1> QED
  BY <1>1 DEF StepsLeft, Steps, IInv, LedgerInv

LEMMA ThreadAdvances ==
    ASSUME IInv, NEW r \in Requests, Thread(r)
    PROVE  StepsLeft(r)' < StepsLeft(r)
<1>1. /\ TypeOK /\ MaxPieces \in Nat
      /\ size[r] \in 0..MaxPieces /\ recorded[r] \in 0..MaxPieces
      /\ recorded[r] <= size[r] /\ (pc[r] = "connect" => recorded[r] = 0)
  BY CollectorAssumption DEF IInv, TypeOK, ThreadInv, Counts, Before
<1> USE <1>1 DEF StepsLeft, TypeOK, At, Set, Except
<1>2. CASE ReadBody(r)
  BY <1>2 DEF ReadBody
<1>3. CASE Connect(r)
  BY <1>3 DEF Connect
<1>4. CASE Relay(r)
  BY <1>4 DEF Relay
<1>5. CASE EndOfBody(r) \/ UpstreamError(r)
  BY <1>5 DEF EndOfBody, UpstreamError
<1>6. CASE AppendReceipt(r) \/ Close(r)
  BY <1>6 DEF AppendReceipt, Close
<1> QED
  BY <1>2, <1>3, <1>4, <1>5, <1>6 DEF Thread

(* Both collectors: the thread of a request has at most MaxPieces + 5      *)
(* steps, one for each piece of the body and five around them; nothing     *)
(* that clients, the other threads or Ctrl-C do gives it more; and before  *)
(* its last one the receipt is written.                                    *)
THEOREM ThreadsAreShort ==
    Spec => /\ [][\A r \in Requests : /\ StepsLeft(r)' <= StepsLeft(r)
                                      /\ Thread(r) => StepsLeft(r)' < StepsLeft(r)]_vars
            /\ []StepsCounted
<1>1. ASSUME IInv, StepsCounted, StepsCounted', [Next]_vars
      PROVE  \A r \in Requests : /\ StepsLeft(r)' <= StepsLeft(r)
                                 /\ Thread(r) => StepsLeft(r)' < StepsLeft(r)
  <2> SUFFICES ASSUME NEW r \in Requests, ~Thread(r) PROVE StepsLeft(r)' <= StepsLeft(r)
    <3>1. \A r \in Requests : StepsLeft(r) \in Int /\ StepsLeft(r)' \in Int
      BY <1>1, CollectorAssumption DEF StepsCounted
    <3> QED
      BY <1>1, <3>1, ThreadAdvances
  <2>1. pc'[r] = pc[r] /\ size'[r] = size[r] /\ recorded'[r] = recorded[r]
    <3>1. ASSUME NEW q \in Requests, Step(q)
          PROVE  pc'[r] = pc[r] /\ size'[r] = size[r] /\ recorded'[r] = recorded[r]
      <4>1. CASE q = r
        BY <3>1, <4>1 DEF Step, ClientSends, ClientReads, ClientEnds, ClientGivesUp, threadVars
      <4>2. CASE q # r
        BY <1>1, <3>1, <4>2, OthersSame DEF IInv, Same
      <4> QED
        BY <4>1, <4>2
    <3>2. CASE Kill \/ UNCHANGED vars
      BY <3>2 DEF Kill, vars, threadVars
    <3> QED
      BY <1>1, <3>1, <3>2 DEF Next, Step
  <2>2. StepsLeft(r)' = StepsLeft(r)
    BY <2>1 DEF StepsLeft
  <2>3. StepsLeft(r) \in Int
    BY <1>1, CollectorAssumption DEF StepsCounted
  <2> QED
    BY <2>2, <2>3
<1> QED
  BY <1>1, StepsAreCounted, Inductive, PTL DEF Spec
=============================================================================
