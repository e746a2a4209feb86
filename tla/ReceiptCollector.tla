-------------------------- MODULE ReceiptCollector --------------------------
(***************************************************************************)
(* The two QA receipt collectors: HTTP proxies in front of an inference    *)
(* engine that append one line to receipts.jsonl for each request, which   *)
(* is later compared with what the client received.                        *)
(*                                                                         *)
(*   ForwardsLength = FALSE   model-engine-standard/verification/          *)
(*                            receipt-collector.py: answers over HTTP/1.0  *)
(*                            without a length, so that a body ends when   *)
(*                            the connection is closed;                    *)
(*   ForwardsLength = TRUE    existing-profiles/receipt-proxy.py: forwards *)
(*                            Content-Length or writes chunks.             *)
(*                                                                         *)
(* Each request has a thread (ThreadingHTTPServer) and its own client and  *)
(* upstream connection.  A body is a number of pieces.  What goes on the   *)
(* wire is delivered in order; a client may stop at any time.              *)
(***************************************************************************)
EXTENDS Integers

CONSTANTS Requests,         \* requests, one thread and one client each
          MaxPieces,        \* bound: pieces in an upstream body
          ForwardsLength,   \* which collector
          MayBeKilled       \* is Ctrl-C possible before traffic has drained?

ASSUME CollectorAssumption ==
    /\ MaxPieces \in Nat
    /\ ForwardsLength \in BOOLEAN
    /\ MayBeKilled \in BOOLEAN

VARIABLES pc,           \* next step of the thread
          kind,         \* how upstream delimits its body
          size,         \* pieces upstream means to send
          recorded,     \* pieces hashed into the receipt (response)
          written,      \* pieces written to the client
          wire,         \* client connection: "open", "closed"
          answer,       \* header the thread has sent: "none", "200", "502"
          completed,    \* the completed flag
          failed,       \* error is set
          ledger,       \* receipts.jsonl, as a set of records
          client,       \* "sending", "waiting", "answered", "rejected", "broken", "gone"
          got,          \* pieces the client has read
          alive         \* the collector process runs

threadVars == <<pc, kind, size, recorded, written, wire, answer, completed, failed, ledger>>
clientVars == <<client, got>>
vars == <<threadVars, clientVars, alive>>

Steps   == {"body", "connect", "stream", "receipt", "close", "done"}
Clients == {"sending", "waiting", "answered", "rejected", "broken", "gone"}
Framings == {"length", "chunked", "close"}      \* "close": ends with the connection
Receipts == [req : Requests, bytes : 0..MaxPieces, complete : BOOLEAN, error : BOOLEAN]

Init ==
    /\ pc = [r \in Requests |-> "body"]
    /\ kind = [r \in Requests |-> "length"]
    /\ size = [r \in Requests |-> 0]
    /\ recorded = [r \in Requests |-> 0]
    /\ written = [r \in Requests |-> 0]
    /\ wire = [r \in Requests |-> "open"]
    /\ answer = [r \in Requests |-> "none"]
    /\ completed = [r \in Requests |-> FALSE]
    /\ failed = [r \in Requests |-> FALSE]
    /\ ledger = {}
    /\ client = [r \in Requests |-> "sending"]
    /\ got = [r \in Requests |-> 0]
    /\ alive = TRUE

Set(f, r, v) == [f EXCEPT ![r] = v]
At(r, step)  == alive /\ pc[r] = step

(* The except clause: remember the error, answer 502 unless a status was   *)
(* received from upstream, and go on with finally.  The 502 carries its    *)
(* own length in both collectors.                                          *)
Except(r) ==
    /\ failed' = Set(failed, r, TRUE)
    /\ answer' = IF answer[r] = "none" THEN Set(answer, r, "502") ELSE answer
    /\ pc' = Set(pc, r, "receipt")

----------------------------------------------------------------------------
(* Mutated forms of steps below, to see that the properties can fail. *)

(* The loop does not stop at the end of the body. *)
RelayPastEnd(r) ==
    /\ At(r, "stream")
    /\ recorded[r] <= size[r]
    /\ recorded' = [recorded EXCEPT ![r] = @ + 1]
    /\ written' = [written EXCEPT ![r] = @ + 1]
    /\ UNCHANGED <<pc, kind, size, wire, answer, completed, failed, ledger, clientVars, alive>>

(* The connection is closed before the receipt is appended. *)
EndOfBodyCloses(r) ==
    /\ At(r, "stream")
    /\ recorded[r] < size[r] => kind[r] # "chunked"
    /\ completed' = Set(completed, r, TRUE)
    /\ wire' = Set(wire, r, "closed")
    /\ pc' = Set(pc, r, "receipt")
    /\ UNCHANGED <<kind, size, recorded, written, answer, failed, ledger, clientVars, alive>>

(* completed = True under the "if chunked" before it. *)
EndOfBodyChunkedOnly(r) ==
    /\ At(r, "stream")
    /\ recorded[r] < size[r] => kind[r] # "chunked"
    /\ completed' = Set(completed, r, kind[r] # "length")
    /\ pc' = Set(pc, r, "receipt")
    /\ UNCHANGED <<kind, size, recorded, written, wire, answer, failed, ledger, clientVars, alive>>

(* A cut is taken for the end of the body whatever its framing. *)
EndOfBodyAnyCut(r) ==
    /\ At(r, "stream")
    /\ completed' = Set(completed, r, TRUE)
    /\ pc' = Set(pc, r, "receipt")
    /\ UNCHANGED <<kind, size, recorded, written, wire, answer, failed, ledger, clientVars, alive>>

(* The bytes of a failed transfer are not recorded. *)
AppendWholeBytesOnly(r) ==
    /\ At(r, "receipt")
    /\ ledger' = ledger \cup {[req |-> r, bytes |-> IF completed[r] THEN recorded[r] ELSE 0,
                               complete |-> completed[r], error |-> failed[r]]}
    /\ pc' = Set(pc, r, "close")
    /\ UNCHANGED <<kind, size, recorded, written, wire, answer, completed, failed, clientVars, alive>>

(* A receipt only for a request that did not fail. *)
AppendOnSuccess(r) ==
    /\ At(r, "receipt")
    /\ ledger' = IF failed[r] THEN ledger
                 ELSE ledger \cup {[req |-> r, bytes |-> recorded[r],
                                    complete |-> completed[r], error |-> failed[r]]}
    /\ pc' = Set(pc, r, "close")
    /\ UNCHANGED <<kind, size, recorded, written, wire, answer, completed, failed, clientVars, alive>>

----------------------------------------------------------------------------
(* rfile.read returns when the whole body is there, or with what there is  *)
(* when the client has gone; the request file is written (or cannot be).   *)
ReadBody(r) ==
    /\ At(r, "body")
    /\ client[r] # "sending"
    /\ \/ pc' = Set(pc, r, "connect") /\ UNCHANGED <<failed, answer>>
       \/ Except(r)
    /\ UNCHANGED <<kind, size, recorded, written, wire, completed, ledger, clientVars, alive>>

(* Upstream answers and the header is passed on; or the connection is      *)
(* refused or times out; or the client has gone before the header, which   *)
(* an error on the socket may or may not tell at this point.               *)
Connect(r) ==
    /\ At(r, "connect")
    /\ \/ /\ \E k \in Framings, n \in 0..MaxPieces :
                kind' = Set(kind, r, k) /\ size' = Set(size, r, n)
          /\ answer' = Set(answer, r, "200")
          /\ \/ pc' = Set(pc, r, "stream") /\ UNCHANGED failed
             \/ /\ client[r] = "gone"
                /\ failed' = Set(failed, r, TRUE)
                /\ pc' = Set(pc, r, "receipt")
       \/ Except(r) /\ UNCHANGED <<kind, size>>
    /\ UNCHANGED <<recorded, written, wire, completed, ledger, clientVars, alive>>

(* read1 returns a piece: it is recorded, then written to the client.      *)
Relay(r) ==
    /\ At(r, "stream")
    /\ recorded[r] < size[r]
    /\ recorded' = [recorded EXCEPT ![r] = @ + 1]
    /\ \/ /\ written' = [written EXCEPT ![r] = @ + 1]
          /\ UNCHANGED <<pc, failed, answer>>
       \/ client[r] = "gone" /\ Except(r) /\ UNCHANGED written
    /\ UNCHANGED <<kind, size, wire, completed, ledger, clientVars, alive>>

(* read1 returns nothing.  That is the end of the body, or an upstream     *)
(* connection cut short: http.client notices a cut only in a chunked body. *)
(* Where upstream declared no length the proxy writes chunks of its own,   *)
(* and now ends them, which can fail like any write to a client that has   *)
(* gone.                                                                   *)
EndOfBody(r) ==
    /\ At(r, "stream")
    /\ recorded[r] < size[r] => kind[r] # "chunked"
    /\ \/ /\ completed' = Set(completed, r, TRUE)
          /\ pc' = Set(pc, r, "receipt")
          /\ UNCHANGED <<answer, failed>>
       \/ /\ ForwardsLength /\ kind[r] # "length" /\ client[r] = "gone"
          /\ Except(r)
          /\ UNCHANGED completed
    /\ UNCHANGED <<kind, size, recorded, written, wire, ledger, clientVars, alive>>

(* A timeout or reset of the upstream connection, or a chunked body that   *)
(* was cut, raises; once a declared length has been read nothing more is.  *)
UpstreamError(r) ==
    /\ At(r, "stream")
    /\ kind[r] # "length" \/ recorded[r] < size[r]
    /\ Except(r)
    /\ UNCHANGED <<kind, size, recorded, written, wire, completed, ledger, clientVars, alive>>

(* finally: the receipt is appended under the lock. *)
AppendReceipt(r) ==
    /\ At(r, "receipt")
    /\ ledger' = ledger \cup {[req |-> r, bytes |-> recorded[r],
                               complete |-> completed[r], error |-> failed[r]]}
    /\ pc' = Set(pc, r, "close")
    /\ UNCHANGED <<kind, size, recorded, written, wire, answer, completed, failed, clientVars, alive>>

(* The handler returns and the server shuts the connection down. *)
Close(r) ==
    /\ At(r, "close")
    /\ wire' = Set(wire, r, "closed")
    /\ pc' = Set(pc, r, "done")
    /\ UNCHANGED <<kind, size, recorded, written, answer, completed, failed, ledger, clientVars, alive>>

(* Ctrl-C: the threads are daemons and end where they are; the kernel      *)
(* closes their connections.                                               *)
Kill ==
    /\ alive
    /\ MayBeKilled \/ \A r \in Requests : pc[r] = "done"
    /\ alive' = FALSE
    /\ wire' = [r \in Requests |-> "closed"]
    /\ UNCHANGED <<pc, kind, size, recorded, written, answer, completed, failed, ledger, clientVars>>

----------------------------------------------------------------------------
(* The client (external). *)
ClientSends(r) ==
    /\ client[r] = "sending"
    /\ client' = Set(client, r, "waiting")
    /\ UNCHANGED <<threadVars, got, alive>>

ClientReads(r) ==
    /\ client[r] = "waiting"
    /\ answer[r] = "200"
    /\ got[r] < written[r]
    /\ got' = [got EXCEPT ![r] = @ + 1]
    /\ UNCHANGED <<threadVars, client, alive>>

(* What HTTP lets the client take for the end of the answer: the closing   *)
(* of the connection, the declared length, or the last chunk (which is     *)
(* written just before the completed flag is set).                         *)
SeesEnd(r) ==
    /\ got[r] = written[r]
    /\ \/ ~ForwardsLength /\ wire[r] = "closed"
       \/ ForwardsLength /\ kind[r] = "length" /\ got[r] = size[r]
       \/ ForwardsLength /\ kind[r] # "length" /\ completed[r]

ClientEnds(r) ==
    /\ client[r] = "waiting"
    /\ \/ answer[r] = "200" /\ SeesEnd(r) /\ client' = Set(client, r, "answered")
       \/ answer[r] = "502" /\ client' = Set(client, r, "rejected")
       \/ /\ wire[r] = "closed" /\ answer[r] # "502"
          /\ ~(answer[r] = "200" /\ (got[r] < written[r] \/ SeesEnd(r)))
          /\ client' = Set(client, r, "broken")
    /\ UNCHANGED <<threadVars, got, alive>>

(* The client's own timeout (curl --max-time). *)
ClientGivesUp(r) ==
    /\ client[r] \in {"sending", "waiting"}
    /\ client' = Set(client, r, "gone")
    /\ UNCHANGED <<threadVars, got, alive>>

Thread(r) ==
    \/ ReadBody(r) \/ Connect(r) \/ Relay(r) \/ EndOfBody(r) \/ UpstreamError(r)
    \/ AppendReceipt(r) \/ Close(r)

Next ==
    \/ \E r \in Requests : \/ Thread(r)
                           \/ ClientSends(r)
                           \/ ClientReads(r)
                           \/ ClientEnds(r)
                           \/ ClientGivesUp(r)
    \/ Kill

Spec == Init /\ [][Next]_vars

(* Threads are scheduled, their upstream connection has a timeout (180 s), *)
(* and a client does not stay in the middle of its request for ever.       *)
FairSpec ==
    /\ Spec
    /\ \A r \in Requests : WF_vars(Thread(r)) /\ WF_vars(ClientGivesUp(r))

----------------------------------------------------------------------------
HasReceipt(r) == \E x \in ledger : x.req = r

TypeOK ==
    /\ pc \in [Requests -> Steps]
    /\ kind \in [Requests -> Framings]
    /\ size \in [Requests -> 0..MaxPieces]
    /\ recorded \in [Requests -> 0..MaxPieces]
    /\ written \in [Requests -> 0..MaxPieces]
    /\ wire \in [Requests -> {"open", "closed"}]
    /\ answer \in [Requests -> {"none", "200", "502"}]
    /\ completed \in [Requests -> BOOLEAN]
    /\ failed \in [Requests -> BOOLEAN]
    /\ ledger \subseteq Receipts
    /\ client \in [Requests -> Clients]
    /\ got \in [Requests -> 0..MaxPieces]
    /\ alive \in BOOLEAN

(* With receipt-collector.py a client that has seen the end of its answer  *)
(* can read its receipt: the receipt is appended in the finally clause,    *)
(* before the connection is closed, and closing it is the only end of body *)
(* the client is given.  With receipt-proxy.py this does not hold.         *)
AnsweredHasReceipt ==
    \A r \in Requests : client[r] = "answered" => HasReceipt(r)

(* A receipt and a client that got an answer agree on the bytes, and a     *)
(* client of receipt-proxy.py that got a whole answer has a receipt that   *)
(* says the transfer completed without error, although the client, the     *)
(* engine and either connection may give up between any two pieces.        *)
AnswerAgreesWithReceipt ==
    \A x \in ledger : client[x.req] = "answered" =>
        /\ x.bytes = got[x.req]
        /\ ForwardsLength => x.complete /\ ~x.error

(* A chunked upstream body that was cut is never recorded as complete.     *)
ChunkedCompleteIsWhole ==
    \A x \in ledger : (x.complete /\ kind[x.req] = "chunked") => x.bytes = size[x.req]

(* verification/README.md:23, "`upstreamComplete` proves transport read    *)
(* completion".  It does not hold for a body with a declared length.  (Of   *)
(* a body that ends with the connection nobody can tell whether it was     *)
(* cut.)                                                                   *)
CompleteIsWhole ==
    \A x \in ledger : (x.complete /\ kind[x.req] # "close") => x.bytes = size[x.req]

(* Every request ends in the ledger, whoever gives up on the way, unless   *)
(* the collector is stopped before.                                        *)
EveryRequestIsRecorded ==
    \A r \in Requests : <>(HasReceipt(r) \/ ~alive)

----------------------------------------------------------------------------
(* What a collector promises (ReceiptLog).  Only receipt-collector.py logs *)
(* a request before its client has the answer, and only receipt-proxy.py   *)
(* lets the client tell an answer that was passed on to its end from one   *)
(* that the collector broke off.                                           *)
Promise == INSTANCE ReceiptLog WITH
    Entries      <- Receipts,
    Answers      <- [req : Requests, bytes : 0..MaxPieces],
    LogsFirst    <- ~ForwardsLength,
    VouchesWhole <- ForwardsLength,
    log          <- ledger,
    answers      <- {[req |-> r, bytes |-> got[r]] : r \in {q \in Requests : client[q] = "answered"}},
    state        <- IF alive THEN "open"
                    ELSE IF \A r \in Requests : pc[r] = "done" THEN "drained" ELSE "killed"

(* Log and answers are written once for each request and agree, whichever  *)
(* comes first, although client, engine and collector may give up between  *)
(* any two pieces; and with receipt-collector.py a client has its answer   *)
(* without a receipt only after the collector was killed in its traffic.   *)
ImplementsReceiptLog == Promise!Spec
=============================================================================
