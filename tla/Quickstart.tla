------------------------------- MODULE Quickstart -------------------------------
(***************************************************************************)
(* Steps 5 and 7 of the Quickstart (snippets/getting-started): the metrics *)
(* setting that is saved, changed and put back, and the positive request   *)
(* that is proved delivered by the log of assets/quickstart/receipt-       *)
(* backend.py.  The commands are pasted into a shell without set -e: one   *)
(* that fails does not stop the next.  Step 5 may be repeated, with the    *)
(* same nonce when it is repeated within a second.  What the Gateway       *)
(* (external) does with a request is to deliver it any number of times, at *)
(* any time, or never, with its X-Docs-Nonce header or without, or to send *)
(* it where the same marker is answered but another log is kept.           *)
(***************************************************************************)
EXTENDS Integers

CONSTANTS QsAttempts,   \* bound: how often step 5 is done
          QsCopies      \* bound: deliveries of one request

ASSUME QsAssumption == QsAttempts \in Nat \ {0} /\ QsCopies \in Nat \ {0}

VARIABLES metricsOn,    \* Gateway: config/metrics .prometheus
          original,     \* history: what it was before step 5
          saved,        \* metrics-config-before.json: "absent", "on", "off" or "bad"
          attempt,      \* how often step 5 was begun
          nonce,        \* per attempt
          receiptsBefore, \* positive_receipts_before, -1 when empty
          delivered,    \* backend: per attempt, how often its request arrived
          unlogged,     \* attempts whose request was handled where no line is written
          receipts,     \* backend: per attempt, its lines in the log
          status,       \* per attempt: "none", "open", "200" with the marker, or "000"
          qsStep        \* the next thing to do

qsVars == <<metricsOn, original, saved, attempt, nonce, receiptsBefore, delivered,
            unlogged, receipts, status, qsStep>>
traffic == <<nonce, receiptsBefore, delivered, unlogged, receipts, status>>

QsSteps == {"idle", "save", "enable", "count", "send", "validate", "passed", "clean"}
Attempts == 1..QsAttempts

QsInit ==
    /\ metricsOn \in BOOLEAN /\ original = metricsOn
    /\ saved = "absent" /\ attempt = 0
    /\ nonce = [k \in Attempts |-> 0] /\ receiptsBefore = -1
    /\ delivered = [k \in Attempts |-> 0] /\ receipts = [k \in Attempts |-> 0]
    /\ unlogged = {} /\ status = [k \in Attempts |-> "none"]
    /\ qsStep = "idle"

----------------------------------------------------------------------------
(* receipt-backend.py. *)

setting == <<metricsOn, original, saved, attempt, nonce, receiptsBefore>>

Deliver(k) ==
    /\ status[k] # "none" /\ delivered[k] < QsCopies
    /\ delivered' = [delivered EXCEPT ![k] = @ + 1]
    /\ UNCHANGED <<setting, unlogged, receipts, status, qsStep>>

WriteReceipt(k) ==
    /\ receipts[k] < delivered[k]
    /\ receipts' = [receipts EXCEPT ![k] = @ + 1]
    /\ UNCHANGED <<setting, delivered, unlogged, status, qsStep>>

(* Without a nonce that it accepts, the backend writes no line. *)
HandleUnlogged(k) ==
    /\ status[k] # "none"
    /\ unlogged' = unlogged \cup {k}
    /\ UNCHANGED <<setting, delivered, receipts, status, qsStep>>

(* The answer with the marker is written after the line, if there is one;  *)
(* the client may be given something else.                                 *)
MayAnswer(k) == receipts[k] > 0 \/ k \in unlogged

QsAnswer(k) ==
    /\ status[k] = "open"
    /\ \/ MayAnswer(k) /\ status' = [status EXCEPT ![k] = "200"]
       \/ status' = [status EXCEPT ![k] = "000"]
    /\ UNCHANGED <<setting, delivered, unlogged, receipts, qsStep>>

(* receipt_count: the lines with a nonce, of whichever attempt. *)
Lines(n) ==
    LET lines[k \in 0..QsAttempts] ==
          IF k = 0 THEN 0 ELSE lines[k - 1] + (IF nonce[k] = n THEN receipts[k] ELSE 0)
    IN  lines[QsAttempts]

----------------------------------------------------------------------------
(* Step 5, as pasted. *)

Step5 ==
    /\ qsStep \in {"idle", "passed"} /\ attempt < QsAttempts
    /\ attempt' = attempt + 1
    /\ qsStep' = "save"
    /\ UNCHANGED <<metricsOn, original, saved, traffic>>

(* The file is truncated before the request is sent. *)
SaveMetrics ==
    /\ qsStep = "save"
    /\ saved' \in {IF metricsOn THEN "on" ELSE "off", "bad"}
    /\ qsStep' = "enable"
    /\ UNCHANGED <<metricsOn, original, attempt, traffic>>

EnableMetrics ==
    /\ qsStep = "enable"
    /\ metricsOn' \in {TRUE, metricsOn}
    /\ qsStep' = "count"
    /\ UNCHANGED <<original, saved, attempt, traffic>>

CountBefore ==
    /\ qsStep = "count"
    /\ \E n \in {attempt, IF attempt > 1 THEN nonce[attempt - 1] ELSE 1} :
          /\ nonce' = [nonce EXCEPT ![attempt] = n]
          /\ receiptsBefore' \in {Lines(n), -1}
    /\ qsStep' = "send"
    /\ UNCHANGED <<metricsOn, original, saved, attempt, delivered, unlogged, receipts, status>>

SendTraffic ==
    /\ qsStep = "send"
    /\ status' = [status EXCEPT ![attempt] = "open"]
    /\ qsStep' = "validate"
    /\ UNCHANGED <<setting, delivered, unlogged, receipts>>

(* positive_receipts_after - positive_receipts_before -eq 1 *)
DeltaAny(n) == Lines(n) >= receiptsBefore
DeltaIsOne(n) == Lines(n) - receiptsBefore = 1

(* A copy of the log that could not be read leaves an empty operand, which *)
(* is an error of the arithmetic.                                          *)
ValidateTraffic ==
    /\ qsStep = "validate" /\ status[attempt] # "open"
    /\ \/ /\ status[attempt] = "200" /\ receiptsBefore # -1
          /\ DeltaIsOne(nonce[attempt])
          /\ qsStep' = "passed"
       \/ qsStep' = "idle"
    /\ UNCHANGED <<metricsOn, original, saved, attempt, traffic>>

(* Step 7, "Restore the previous metrics setting", when its own check has  *)
(* accepted it.  It may also be done when step 5 was left.                 *)
RestoreAlways == metricsOn' = FALSE
RestoreMetrics == metricsOn' = (metricsOn /\ saved # "off")

CleanUp ==
    /\ qsStep \notin {"clean", "save"} /\ attempt > 0
    /\ RestoreMetrics
    /\ qsStep' = "clean"
    /\ UNCHANGED <<original, saved, attempt, traffic>>

QsNext ==
    \/ Step5 \/ SaveMetrics \/ EnableMetrics \/ CountBefore \/ SendTraffic
    \/ ValidateTraffic \/ CleanUp
    \/ \E k \in Attempts : Deliver(k) \/ WriteReceipt(k) \/ HandleUnlogged(k) \/ QsAnswer(k)

QsSpec == QsInit /\ [][QsNext]_qsVars

----------------------------------------------------------------------------
QsTypeOK ==
    /\ metricsOn \in BOOLEAN /\ original \in BOOLEAN
    /\ saved \in {"absent", "on", "off", "bad"}
    /\ attempt \in 0..QsAttempts
    /\ nonce \in [Attempts -> 0..QsAttempts]
    /\ receiptsBefore \in -1..(QsAttempts * QsCopies)
    /\ delivered \in [Attempts -> 0..QsCopies] /\ receipts \in [Attempts -> 0..QsCopies]
    /\ unlogged \subseteq Attempts
    /\ status \in [Attempts -> {"none", "open", "200", "000"}]
    /\ qsStep \in QsSteps

(* "HTTP 200 without the marker or receipt delta: the request did not      *)
(* prove the expected active backend path": a positive check that passes   *)
(* is of a request that the backend received and logged, also when it came *)
(* several times or was answered where no line is written.  It takes both  *)
(* such an answer and the late line of another attempt, with the same      *)
(* nonce as step 5 was repeated within a second, to pass without.          *)
PassedTrafficIsOwn ==
    qsStep = "passed" =>
        \/ receipts[attempt] > 0
        \/ /\ attempt \in unlogged
           /\ \E k \in Attempts \ {attempt} : nonce[k] = nonce[attempt] /\ receipts[k] > 0

(* "Restore the previous metrics setting": after a cleanup the setting is  *)
(* what it was before the lab, unless it could not be saved, or step 5 was *)
(* repeated and has saved what the lab had set.                            *)
LeftAsFound ==
    qsStep = "clean" =>
        \/ metricsOn = original
        \/ saved = "bad"
        \/ attempt > 1 /\ saved = "on"
=============================================================================
