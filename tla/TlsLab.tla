--------------------------------- MODULE TlsLab ---------------------------------
(***************************************************************************)
(* fixtures/tls-lab.go serve and the experiment that "Verify another live  *)
(* request keeps its reservation" (admission-flow-control/tls-failures.md) *)
(* makes with it: a holder's request is held at the backend until a gate   *)
(* file exists, and while it is, a probe must be refused by the Gateway    *)
(* and leave no receipt.  The gate may be left from earlier; the receipt   *)
(* file may refuse a line at any time.  What the Gateway (external) does   *)
(* with a request is to forward it, at any time, or not, and to answer by  *)
(* itself, or not: the probe may come to the backend after its answer.     *)
(***************************************************************************)
EXTENDS Integers

VARIABLES gate,         \* <receipts>.gate exists
          tlReceipts,   \* nonces in the receipt file, of "holder" and "probe"
          holding,      \* the holder at the backend: "away", "held" or "answered"
          holderHttp,   \* the holder's client: "none", "open", "200" or "000"
          probeAt,      \* history: the probe is "unsent" or "asked", or came to the
                        \* backend "early", before the receipts were looked at, or "late"
          lost,         \* history: of which requests the receipt was refused
          liveAtProbe,  \* history: the holder was held when the probe was refused
          tlStep        \* the next thing to do

tlVars == <<gate, tlReceipts, holding, holderHttp, probeAt, lost, liveAtProbe, tlStep>>

Experiment == {"clear", "hold", "see", "probe", "asked", "look", "open", "end", "passed", "failed"}

TlInit ==
    /\ gate \in BOOLEAN
    /\ tlReceipts = {} /\ holding = "away" /\ holderHttp = "none"
    /\ probeAt = "unsent" /\ lost = {} /\ liveAtProbe = FALSE
    /\ tlStep = "clear"

----------------------------------------------------------------------------
(* cmdServe.  A request whose line is refused is handled all the same. *)

Receipt(n) ==
    \/ tlReceipts' = tlReceipts \cup {n} /\ UNCHANGED lost
    \/ lost' = lost \cup {n} /\ UNCHANGED tlReceipts

(* The first half of the handler. *)
HolderArrives ==
    /\ holding = "away" /\ holderHttp # "none"
    /\ Receipt("holder")
    /\ holding' = "held"
    /\ UNCHANGED <<gate, holderHttp, probeAt, liveAtProbe, tlStep>>

(* Seconds after which the handler stops looking for the gate, and after   *)
(* which the holder's client gives up, who began to count earlier.         *)
BriefLook == 30
LookSeconds == 60
HolderSeconds == 45

(* The second half: hold=1, and the answer. *)
HolderAnswered ==
    /\ holding = "held"
    /\ gate \/ holderHttp # "open" \/ LookSeconds < HolderSeconds
    /\ holding' = "answered"
    /\ holderHttp' = IF holderHttp = "open" THEN "200" ELSE holderHttp
    /\ UNCHANGED <<gate, tlReceipts, probeAt, lost, liveAtProbe, tlStep>>

HolderGivesUp ==
    /\ holderHttp = "open"
    /\ holderHttp' = "000"
    /\ UNCHANGED <<gate, tlReceipts, holding, probeAt, lost, liveAtProbe, tlStep>>

----------------------------------------------------------------------------
(* The experiment. *)

(* rm -f hold.txt.gate *)
GateStays == UNCHANGED gate
ClearGate == gate' = FALSE

Clear ==
    /\ tlStep = "clear"
    /\ ClearGate
    /\ tlStep' = "hold"
    /\ UNCHANGED <<tlReceipts, holding, holderHttp, probeAt, lost, liveAtProbe>>

Hold ==
    /\ tlStep = "hold"
    /\ holderHttp' = "open"
    /\ tlStep' = "see"
    /\ UNCHANGED <<gate, tlReceipts, holding, probeAt, lost, liveAtProbe>>

See ==
    /\ tlStep = "see"
    /\ tlStep' = IF "holder" \in tlReceipts THEN "probe" ELSE "failed"
    /\ UNCHANGED <<gate, tlReceipts, holding, holderHttp, probeAt, lost, liveAtProbe>>

(* curl sends the large request. *)
Probe ==
    /\ tlStep = "probe"
    /\ tlStep' = "asked"
    /\ probeAt' = "asked"
    /\ UNCHANGED <<gate, tlReceipts, holding, holderHttp, lost, liveAtProbe>>

(* The backend writes the receipt of a probe that was forwarded, whatever  *)
(* its client was answered, and whether the receipts were looked at or not. *)
ProbeArrives ==
    /\ probeAt = "asked"
    /\ probeAt' = IF tlStep \in {"asked", "look"} THEN "early" ELSE "late"
    /\ Receipt("probe")
    /\ UNCHANGED <<gate, holding, holderHttp, liveAtProbe, tlStep>>

(* The probe is answered 429, or with another status, or curl gives up     *)
(* after 10 s, which fails the experiment.                                 *)
ProbeAnswered ==
    /\ tlStep = "asked"
    /\ tlStep' \in {"look", "failed"}
    /\ liveAtProbe' = (holding = "held")
    /\ UNCHANGED <<gate, tlReceipts, holding, holderHttp, probeAt, lost>>

Look ==
    /\ tlStep = "look"
    /\ tlStep' = IF "probe" \in tlReceipts THEN "failed" ELSE "open"
    /\ UNCHANGED <<gate, tlReceipts, holding, holderHttp, probeAt, lost, liveAtProbe>>

OpenGate ==
    /\ tlStep = "open"
    /\ gate' = TRUE
    /\ tlStep' = "end"
    /\ UNCHANGED <<tlReceipts, holding, holderHttp, probeAt, lost, liveAtProbe>>

TlEnd ==
    /\ tlStep = "end" /\ holderHttp # "open"
    /\ tlStep' = IF holderHttp = "200" THEN "passed" ELSE "failed"
    /\ UNCHANGED <<gate, tlReceipts, holding, holderHttp, probeAt, lost, liveAtProbe>>

TlNext ==
    \/ HolderArrives \/ HolderAnswered \/ HolderGivesUp
    \/ Clear \/ Hold \/ See \/ Probe \/ ProbeArrives \/ ProbeAnswered
    \/ Look \/ OpenGate \/ TlEnd

TlSpec == TlInit /\ [][TlNext]_tlVars

----------------------------------------------------------------------------
TlTypeOK ==
    /\ gate \in BOOLEAN /\ liveAtProbe \in BOOLEAN
    /\ probeAt \in {"unsent", "asked", "early", "late"}
    /\ tlReceipts \subseteq {"holder", "probe"} /\ lost \subseteq {"holder", "probe"}
    /\ holding \in {"away", "held", "answered"}
    /\ holderHttp \in {"none", "open", "200", "000"}
    /\ tlStep \in Experiment

(* "While the holder is still running, C sends the large probe and         *)
(* requires 429/receipt0": an experiment that passes has shown it.  The    *)
(* holder was at the backend when the probe was refused, although its      *)
(* client and the backend each stop waiting by themselves, and the probe   *)
(* did not come there before the receipts were looked at, except where the *)
(* backend could not write that down.  Of a probe that comes later the     *)
(* experiment sees nothing.                                                *)
PassedProbeMetTheHolder ==
    tlStep = "passed" =>
        /\ liveAtProbe
        /\ probeAt = "early" => "probe" \in lost
=============================================================================
