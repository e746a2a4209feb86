------------------------------- MODULE LabProofs -------------------------------
(***************************************************************************)
(* Proofs about the analytics consent, the TLS lab, the Quickstart and the *)
(* scheduling lab, for any set of tabs and any bounds.                     *)
(***************************************************************************)
EXTENDS AnalyticsConsent, TlsLab, Quickstart, SchedulingLab, FiniteSetTheorems,
        WellFoundedInduction, TLAPS

----------------------------------------------------------------------------
(* Analytics consent.  Only an open page that nothing forbids is started,  *)
(* and a consent that is stored is the last choice, or one whose           *)
(* withdrawal storage refused.                                             *)

StartedPages ==
    \A t \in Tabs : tab[t].started => tab[t].open /\ ~tab[t].signal /\ ~tab[t].local

StoredConsent == stored = "granted" => lastChoice = "granted" \/ unstored

AnInv == AnTypeOK /\ StartedPages /\ StoredConsent /\ CollectorsHaveConsent

(* Types alone: what a page becomes is a page. *)
LEMMA AnStepType == AnTypeOK /\ [AnNext]_anVars => AnTypeOK'
<1> SUFFICES ASSUME AnTypeOK, [AnNext]_anVars PROVE AnTypeOK'
  OBVIOUS
<1> USE DEF AnTypeOK, Pages, Choices
<1>1. ASSUME NEW t \in Tabs, Load(t) PROVE AnTypeOK'
  <2> PICK local \in BOOLEAN, signal \in BOOLEAN, choice \in {stored, "none"} :
          tab' = [tab EXCEPT ![t] = Loaded(local, signal, choice)]
    BY <1>1 DEF Load
  <2>1. Loaded(local, signal, choice) \in Pages
    BY DEF Loaded, Started
  <2> QED
    BY <1>1, <2>1 DEF Load
<1>2. ASSUME NEW t \in Tabs, Close(t) PROVE AnTypeOK'
  BY <1>2 DEF Close, Closed
<1>3. ASSUME NEW t \in Tabs, OpenPanel(t) PROVE AnTypeOK'
  BY <1>3 DEF OpenPanel
<1>4. ASSUME NEW t \in Tabs, NEW value \in {"granted", "denied"}, Choose(t, value) PROVE AnTypeOK'
  <2>1. Chosen(tab[t], value) \in Pages
    BY DEF Chosen, Started
  <2> QED
    BY <1>4, <2>1 DEF Choose
<1>5. CASE UNCHANGED anVars
  BY <1>5 DEF anVars
<1> QED
  BY <1>1, <1>2, <1>3, <1>4, <1>5 DEF AnNext

LEMMA AnStepInv == AnInv /\ [AnNext]_anVars => AnInv'
<1> SUFFICES ASSUME AnInv, [AnNext]_anVars PROVE AnInv'
  OBVIOUS
<1> USE DEF AnInv
<1>0. AnTypeOK /\ AnTypeOK'
  BY AnStepType
<1> USE DEF StartedPages, StoredConsent, CollectorsHaveConsent, Collects
<1>1. ASSUME NEW t \in Tabs, Load(t) PROVE AnInv'
  <2> PICK local \in BOOLEAN, signal \in BOOLEAN, choice \in {stored, "none"} :
          tab' = [tab EXCEPT ![t] = Loaded(local, signal, choice)]
    BY <1>1 DEF Load
  <2>1. tab'[t] = Loaded(local, signal, choice) /\ \A u \in Tabs \ {t} : tab'[u] = tab[u]
    BY <1>0 DEF AnTypeOK
  <2>2. Loaded(local, signal, choice).started =>
            /\ stored = "granted" /\ ~signal /\ ~local
            /\ Loaded(local, signal, choice).open
            /\ ~Loaded(local, signal, choice).signal /\ ~Loaded(local, signal, choice).local
    BY DEF Loaded, Started
  <2> QED
    BY <1>0, <1>1, <2>1, <2>2 DEF Load
<1>2. ASSUME NEW t \in Tabs, Close(t) PROVE AnInv'
  BY <1>0, <1>2 DEF Close, Closed, AnTypeOK
<1>3. ASSUME NEW t \in Tabs, OpenPanel(t) PROVE AnInv'
  BY <1>0, <1>3 DEF OpenPanel, AnTypeOK, Pages
<1>4. ASSUME NEW t \in Tabs, NEW value \in {"granted", "denied"}, Choose(t, value) PROVE AnInv'
  <2>1. tab'[t] = Chosen(tab[t], value) /\ \A u \in Tabs \ {t} : tab'[u] = tab[u]
    BY <1>0, <1>4 DEF Choose, AnTypeOK
  <2>2. /\ Chosen(tab[t], value).started => /\ tab[t].open
                                            /\ Chosen(tab[t], value).open
                                            /\ ~Chosen(tab[t], value).signal
                                            /\ ~Chosen(tab[t], value).local
        /\ value = "denied" => ~Collects(Chosen(tab[t], value))
    BY <1>0, <1>4 DEF Chosen, Started, Choose, AnTypeOK, Pages
  <2>3. StartedPages'
    BY <2>1, <2>2
  <2>4. StoredConsent'
    BY <1>4 DEF Choose
  <2>5. CollectorsHaveConsent'
    BY <1>4, <2>1, <2>2, <2>3 DEF Choose
  <2> QED
    BY <1>0, <2>3, <2>4, <2>5
<1>5. CASE UNCHANGED anVars
  BY <1>0, <1>5 DEF anVars
<1> QED
  BY <1>1, <1>2, <1>3, <1>4, <1>5 DEF AnNext

LEMMA AnInvariant == AnSpec => []AnInv
<1>1. ASSUME AnInit PROVE AnInv
  <2>1. Closed \in Pages /\ ~Closed.started
    BY DEF Closed, Pages, Choices
  <2>2. \A t \in Tabs : tab[t] = Closed
    BY <1>1 DEF AnInit
  <2> QED
    BY <1>1, <2>1, <2>2 DEF AnInit, AnInv, AnTypeOK, StartedPages, StoredConsent,
                            CollectorsHaveConsent, Collects, Choices
<1> QED
  BY <1>1, AnStepInv, PTL DEF AnSpec

(* analytics.js: a page that collects has the reader's last choice, for    *)
(* any number of tabs, except those that were open when consent was        *)
(* withdrawn elsewhere and those opened after storage refused it.          *)
THEOREM ConsentHolds == AnSpec => []CollectorsHaveConsent
<1>1. AnInv => CollectorsHaveConsent
  BY DEF AnInv
<1> QED
  BY <1>1, AnInvariant, PTL

----------------------------------------------------------------------------
(* TLS lab.  Once the receipt was seen, and until the gate is opened, a    *)
(* holder that left the backend left it after its client had.              *)

Shut == tlStep \in {"hold", "see", "probe", "asked", "look", "open"} => ~gate

HolderIsHeld ==
    /\ holding # "away" => holderHttp # "none"
    /\ holderHttp = "200" => holding = "answered"
    /\ tlStep \in {"clear", "hold"} => holderHttp = "none"
    /\ "holder" \in tlReceipts => holding # "away"
    /\ tlStep \in {"probe", "asked", "look", "open", "end", "passed"} => holding # "away"
    /\ ~gate /\ holding = "answered" => holderHttp = "000"
    /\ tlStep \in {"look", "open", "end", "passed"} /\ ~liveAtProbe => holderHttp = "000"
    /\ tlStep = "passed" => holderHttp = "200"

ProbeIsKnown ==
    /\ tlStep \in {"clear", "hold", "see", "probe"} => probeAt = "unsent"
    /\ probeAt \in {"unsent", "asked"} => "probe" \notin tlReceipts
    /\ probeAt = "early" => "probe" \in tlReceipts \/ "probe" \in lost
    /\ tlStep \in {"open", "end", "passed"} /\ probeAt = "early" => "probe" \notin tlReceipts

TlInv == TlTypeOK /\ Shut /\ HolderIsHeld /\ ProbeIsKnown

LEMMA TlStepInv == TlInv /\ [TlNext]_tlVars => TlInv'
<1> SUFFICES ASSUME TlInv, [TlNext]_tlVars PROVE TlInv'
  OBVIOUS
<1> USE DEF TlInv, TlTypeOK, Shut, HolderIsHeld, ProbeIsKnown, Experiment
<1>1. CASE HolderArrives
  BY <1>1 DEF HolderArrives, Receipt
<1>2. CASE HolderAnswered
  BY <1>2 DEF HolderAnswered, LookSeconds, HolderSeconds
<1>3. CASE HolderGivesUp
  BY <1>3 DEF HolderGivesUp
<1>4. CASE Clear
  BY <1>4 DEF Clear, ClearGate
<1>5. CASE Hold
  BY <1>5 DEF Hold
<1>6. CASE See
  BY <1>6 DEF See
<1>7. CASE Probe
  BY <1>7 DEF Probe
<1>8. CASE ProbeArrives
  BY <1>8 DEF ProbeArrives, Receipt
<1>9. CASE ProbeAnswered
  <2>1. ~liveAtProbe' => holderHttp' = "000"
    <3>1. liveAtProbe' <=> holding = "held"
      BY <1>9 DEF ProbeAnswered
    <3>2. holding # "held" => holderHttp = "000"
      BY <1>9 DEF ProbeAnswered
    <3> QED
      BY <1>9, <3>1, <3>2 DEF ProbeAnswered
  <2>2. HolderIsHeld'
    BY <1>9, <2>1 DEF ProbeAnswered
  <2>3. liveAtProbe' \in BOOLEAN
    BY <1>9 DEF ProbeAnswered
  <2>4. TlTypeOK'
    BY <1>9, <2>3 DEF ProbeAnswered
  <2>5. Shut' /\ ProbeIsKnown'
    BY <1>9 DEF ProbeAnswered
  <2> QED
    BY <2>2, <2>4, <2>5
<1>10. CASE Look
  BY <1>10 DEF Look
<1>11. CASE OpenGate
  BY <1>11 DEF OpenGate
<1>12. CASE TlEnd
  BY <1>12 DEF TlEnd
<1>13. CASE UNCHANGED tlVars
  BY <1>13 DEF tlVars
<1> QED
  BY <1>1, <1>2, <1>3, <1>4, <1>5, <1>6, <1>7, <1>8, <1>9, <1>10, <1>11, <1>12, <1>13
     DEF TlNext

LEMMA TlInvariant == TlSpec => []TlInv
<1>1. TlInit => TlInv
  BY DEF TlInit, TlInv, TlTypeOK, Shut, HolderIsHeld, ProbeIsKnown, Experiment
<1> QED
  BY <1>1, TlStepInv, PTL DEF TlSpec

(* tls-lab.go serve: an experiment that passes had its holder at the       *)
(* backend when the probe was refused, and the probe did not come there    *)
(* before the receipts were looked at, unless its receipt was lost.        *)
THEOREM ProbeMetTheHolder == TlSpec => []PassedProbeMetTheHolder
<1>1. TlInv => PassedProbeMetTheHolder
  BY DEF TlInv, TlTypeOK, HolderIsHeld, ProbeIsKnown, PassedProbeMetTheHolder
<1> QED
  BY <1>1, TlInvariant, PTL

----------------------------------------------------------------------------
(* Quickstart.  The request of a client that got HTTP 200 has a line in    *)
(* the log or was answered where none is written; and what the first       *)
(* attempt saved is the original setting.                                  *)

QsTypes ==
    /\ metricsOn \in BOOLEAN /\ original \in BOOLEAN
    /\ saved \in {"absent", "on", "off", "bad"}
    /\ attempt \in 0..QsAttempts /\ (attempt = 0 => qsStep = "idle")
    /\ receiptsBefore \in Nat \cup {-1}
    /\ delivered \in [Attempts -> 0..QsCopies] /\ receipts \in [Attempts -> 0..QsCopies]
    /\ status \in [Attempts -> {"none", "open", "200", "000"}]
    /\ qsStep \in QsSteps

AnswersAreKnown == \A k \in Attempts : status[k] = "200" => receipts[k] > 0 \/ k \in unlogged

SavedIsOriginal ==
    /\ original => metricsOn /\ saved # "off"
    /\ attempt = 0 \/ (attempt = 1 /\ qsStep = "save") => metricsOn = original
    /\ saved = "absent" => attempt = 0 \/ (attempt = 1 /\ qsStep = "save")
    /\ saved = "on" /\ ~original => attempt > 1

QsInv == QsTypes /\ AnswersAreKnown /\ SavedIsOriginal /\ PassedTrafficIsOwn /\ LeftAsFound

(* A set that has 0 and the successor of each natural number in it has all *)
(* of them: its least missing number would have a missing predecessor.     *)
LEMMA AllNaturals ==
    ASSUME NEW T, 0 \in T, \A k \in Nat : k \in T => k + 1 \in T
    PROVE  \A k \in Nat : k \in T
<1>1. \A x, y \in Nat : y < x => <<y, x>> \in OpToRel(<, Nat)
  BY DEF OpToRel
<1>2. \E R : IsWellFoundedOn(R, Nat) /\ \A x, y \in Nat : y < x => <<y, x>> \in R
  BY <1>1, NatLessThanWellFounded, Zenon
<1>3. PICK R : IsWellFoundedOn(R, Nat) /\ \A x, y \in Nat : y < x => <<y, x>> \in R
  BY <1>2
<1> DEFINE S == Nat \ T
<1>4. S \subseteq Nat
  OBVIOUS
<1> SUFFICES ASSUME S # {} PROVE FALSE
  OBVIOUS
<1> HIDE DEF S
<1>5. PICK x \in S : \A y \in S : ~(<<y, x>> \in R)
  BY <1>3, <1>4, WFMin
<1>6. x \in Nat /\ x \notin T /\ x # 0
  BY DEF S
<1>7. x - 1 \in Nat /\ x - 1 < x
  BY <1>6
<1>8. x - 1 \in T
  BY <1>3, <1>5, <1>6, <1>7 DEF S
<1> QED
  BY <1>6, <1>7, <1>8

(* receipt_count: the number of lines with a nonce is the sum over the     *)
(* attempts, one attempt at a time.                                        *)
LEMMA LinesAreSummed ==
    ASSUME NEW n
    PROVE  \E sum : /\ Lines(n) = sum[QsAttempts]
                    /\ \A k \in 0..QsAttempts :
                          sum[k] = IF k = 0 THEN 0
                                   ELSE sum[k - 1] + (IF nonce[k] = n THEN receipts[k] ELSE 0)
<1>0. QsAttempts \in Nat \ {0} /\ QsCopies \in Nat
  BY QsAssumption
<1> DEFINE Def(f, k) == IF k = 0 THEN 0 ELSE f[k - 1] + (IF nonce[k] = n THEN receipts[k] ELSE 0)
<1> DEFINE Sums(m, f) == f = [k \in 0..m |-> f[k]] /\ \A k \in 0..m : f[k] = Def(f, k)
<1> DEFINE T == {m \in Nat : \E f : Sums(m, f)}
<1>1. 0 \in T
  <2>1. Sums(0, [k \in 0..0 |-> 0])
    OBVIOUS
  <2> QED
    BY <2>1
<1>2. ASSUME NEW m \in Nat, m \in T PROVE m + 1 \in T
  <2>1. PICK f : Sums(m, f)
    BY <1>2
  <2> DEFINE g == [k \in 0..(m + 1) |-> IF k <= m THEN f[k] ELSE Def(f, m + 1)]
  <2>2. ASSUME NEW k \in 0..m PROVE g[k] = Def(g, k)
    <3>1. g[k] = f[k] /\ (k # 0 => g[k - 1] = f[k - 1])
      OBVIOUS
    <3> HIDE DEF g
    <3>2. f[k] = Def(f, k)
      <4> HIDE DEF Def
      <4> QED
        BY <2>1
    <3> QED
      BY <3>1, <3>2
  <2>3. g[m + 1] = Def(g, m + 1)
    <3>1. g[m + 1] = Def(f, m + 1) /\ g[m] = f[m] /\ m + 1 # 0 /\ (m + 1) - 1 = m
      OBVIOUS
    <3> QED
      BY <3>1
  <2>4. g = [k \in 0..(m + 1) |-> g[k]]
    OBVIOUS
  <2> HIDE DEF g, Def
  <2>5. \A k \in 0..(m + 1) : g[k] = Def(g, k)
    BY <2>2, <2>3
  <2>6. Sums(m + 1, g)
    BY <2>4, <2>5
  <2>7. \E h : Sums(m + 1, h)
    BY <2>6, Zenon
  <2> HIDE DEF Sums
  <2> QED
    BY <2>7
<1>3. QsAttempts \in T
  <2> HIDE DEF T
  <2> QED
    BY <1>0, <1>1, <1>2, AllNaturals
<1>4. PICK f : Sums(QsAttempts, f)
  BY <1>3
<1>5. f = [k \in 0..QsAttempts |-> Def(f, k)]
  BY <1>4
<1> DEFINE lines == CHOOSE h : h = [k \in 0..QsAttempts |-> Def(h, k)]
<1>6. lines = [k \in 0..QsAttempts |-> Def(lines, k)]
  BY <1>5, Zenon
<1>7. Lines(n) = lines[QsAttempts]
  BY Zenon DEF Lines
<1> HIDE DEF lines
<1> QED
  BY <1>6, <1>7

(* They are no more than all attempts can have. *)
LEMMA LinesBounded ==
    ASSUME NEW n, receipts \in [Attempts -> 0..QsCopies]
    PROVE  Lines(n) \in 0..(QsAttempts * QsCopies)
<1>0. QsAttempts \in Nat \ {0} /\ QsCopies \in Nat
  BY QsAssumption
<1>1. PICK lines :
        /\ Lines(n) = lines[QsAttempts]
        /\ \A k \in 0..QsAttempts :
              lines[k] = IF k = 0 THEN 0
                         ELSE lines[k - 1] + (IF nonce[k] = n THEN receipts[k] ELSE 0)
  BY LinesAreSummed
<1> DEFINE B == {m \in Nat : m <= QsAttempts => lines[m] \in 0..(m * QsCopies)}
<1>8. 0 \in B
  BY <1>0, <1>1
<1>9. ASSUME NEW m \in Nat, m \in B PROVE m + 1 \in B
  <2> SUFFICES ASSUME m + 1 <= QsAttempts PROVE lines[m + 1] \in 0..((m + 1) * QsCopies)
    OBVIOUS
  <2> DEFINE add == IF nonce[m + 1] = n THEN receipts[m + 1] ELSE 0
  <2>1. add \in 0..QsCopies
    BY <1>0 DEF Attempts
  <2>2. lines[m] \in 0..(m * QsCopies)
    BY <1>0, <1>9
  <2>3. lines[m + 1] = lines[m] + add
    BY <1>0, <1>1
  <2>4. (m + 1) * QsCopies = m * QsCopies + QsCopies /\ m * QsCopies \in Nat
    BY <1>0
  <2> HIDE DEF add
  <2> QED
    BY <1>0, <2>1, <2>2, <2>3, <2>4
<1>10. QsAttempts \in B
  <2> HIDE DEF B
  <2> QED
    BY <1>0, <1>8, <1>9, AllNaturals
<1> QED
  BY <1>0, <1>1, <1>10

(* A nonce with lines has them of an attempt. *)
LEMMA LinesAreOfAttempts ==
    ASSUME NEW n, receipts \in [Attempts -> 0..QsCopies],
           \A k \in Attempts : nonce[k] = n => receipts[k] = 0
    PROVE  Lines(n) = 0
<1>0. QsAttempts \in Nat \ {0}
  BY QsAssumption
<1>1. PICK lines :
        /\ Lines(n) = lines[QsAttempts]
        /\ \A k \in 0..QsAttempts :
              lines[k] = IF k = 0 THEN 0
                         ELSE lines[k - 1] + (IF nonce[k] = n THEN receipts[k] ELSE 0)
  BY LinesAreSummed
<1> DEFINE B == {m \in Nat : m <= QsAttempts => lines[m] = 0}
<1>2. 0 \in B
  BY <1>0, <1>1
<1>3. ASSUME NEW m \in Nat, m \in B PROVE m + 1 \in B
  <2> SUFFICES ASSUME m + 1 <= QsAttempts PROVE lines[m + 1] = 0
    OBVIOUS
  <2>1. lines[m] = 0
    BY <1>0, <1>3
  <2>2. lines[m + 1] = lines[m] + (IF nonce[m + 1] = n THEN receipts[m + 1] ELSE 0)
    BY <1>0, <1>1
  <2>3. nonce[m + 1] = n => receipts[m + 1] = 0
    BY <1>0 DEF Attempts
  <2> QED
    BY <2>1, <2>2, <2>3
<1>4. QsAttempts \in B
  <2> HIDE DEF B
  <2> QED
    BY <1>0, <1>2, <1>3, AllNaturals
<1> QED
  BY <1>0, <1>1, <1>4

LEMMA QsStepInv == QsInv /\ [QsNext]_qsVars => QsInv'
<1> SUFFICES ASSUME QsInv, [QsNext]_qsVars PROVE QsInv'
  OBVIOUS
<1> USE QsAssumption DEF QsInv, QsTypes, AnswersAreKnown, SavedIsOriginal,
        PassedTrafficIsOwn, LeftAsFound, Attempts, QsSteps
<1>1. ASSUME NEW k \in Attempts, Deliver(k) PROVE QsInv'
  <2>1. QsTypes'
    BY <1>1 DEF Deliver, setting
  <2>2. AnswersAreKnown' /\ SavedIsOriginal' /\ PassedTrafficIsOwn' /\ LeftAsFound'
    BY <1>1 DEF Deliver, setting
  <2> QED
    BY <2>1, <2>2
<1>2. ASSUME NEW k \in Attempts, WriteReceipt(k) PROVE QsInv'
  <2>1. receipts' = [receipts EXCEPT ![k] = @ + 1] /\ receipts[k] + 1 \in 1..QsCopies
    BY <1>2 DEF WriteReceipt
  <2>2. \A j \in Attempts : receipts[j] > 0 => receipts'[j] > 0
    BY <2>1
  <2>3. QsTypes'
    BY <1>2, <2>1 DEF WriteReceipt, setting
  <2>4. AnswersAreKnown' /\ SavedIsOriginal' /\ LeftAsFound'
    BY <1>2, <2>2 DEF WriteReceipt, setting
  <2>5. PassedTrafficIsOwn'
    <3>1. UNCHANGED <<qsStep, attempt, unlogged, nonce>>
      BY <1>2 DEF WriteReceipt, setting
    <3>2. qsStep = "passed" => attempt \in Attempts
      OBVIOUS
    <3> QED
      BY <2>2, <3>1, <3>2
  <2> QED
    BY <2>3, <2>4, <2>5
<1>12. ASSUME NEW k \in Attempts, HandleUnlogged(k) PROVE QsInv'
  BY <1>12 DEF HandleUnlogged, setting
<1>3. ASSUME NEW k \in Attempts, QsAnswer(k) PROVE QsInv'
  <2>1. QsTypes'
    BY <1>3 DEF QsAnswer, setting
  <2>2. AnswersAreKnown'
    BY <1>3 DEF QsAnswer, MayAnswer
  <2>3. SavedIsOriginal' /\ PassedTrafficIsOwn' /\ LeftAsFound'
    BY <1>3 DEF QsAnswer, setting
  <2> QED
    BY <2>1, <2>2, <2>3
<1>4. CASE Step5
  BY <1>4 DEF Step5, traffic
<1>5. CASE SaveMetrics
  BY <1>5 DEF SaveMetrics, traffic
<1>6. CASE EnableMetrics
  BY <1>6 DEF EnableMetrics, traffic
<1>7. CASE CountBefore
  <2>1. PICK n : receiptsBefore' \in {Lines(n), -1}
    BY <1>7 DEF CountBefore
  <2>2. receiptsBefore' \in Nat \cup {-1}
    BY <2>1, LinesBounded
  <2> QED
    BY <1>7, <2>2 DEF CountBefore
<1>8. CASE SendTraffic
  BY <1>8 DEF SendTraffic, setting
<1>9. CASE ValidateTraffic
  <2>1. attempt \in Attempts
    BY <1>9 DEF ValidateTraffic
  <2>2. ASSUME status[attempt] = "200", receiptsBefore # -1, DeltaIsOne(nonce[attempt]),
               receipts[attempt] = 0
        PROVE  /\ attempt \in unlogged
               /\ \E k \in Attempts \ {attempt} :
                     nonce[k] = nonce[attempt] /\ receipts[k] > 0
    <3>1. receiptsBefore \in Nat /\ Lines(nonce[attempt]) \in Nat
      <4>1. Lines(nonce[attempt]) \in 0..(QsAttempts * QsCopies)
        BY LinesBounded
      <4> QED
        BY <2>2, <4>1
    <3>2. Lines(nonce[attempt]) # 0
      BY <2>2, <3>1 DEF DeltaIsOne
    <3>3. PICK k \in Attempts : nonce[k] = nonce[attempt] /\ receipts[k] # 0
      BY <3>2, LinesAreOfAttempts
    <3>4. k # attempt
      BY <2>2, <3>3
    <3>5. receipts[k] > 0
      <4>1. receipts[k] \in 0..QsCopies
        BY <3>3
      <4> QED
        BY <3>3, <4>1
    <3> QED
      BY <2>1, <2>2, <3>3, <3>4, <3>5
  <2>3. UNCHANGED <<metricsOn, original, saved, attempt, nonce, receiptsBefore,
                    delivered, unlogged, receipts, status>>
    BY <1>9 DEF ValidateTraffic, traffic
  <2>4. /\ qsStep' \in {"passed", "idle"}
        /\ qsStep' = "passed" => /\ status[attempt] = "200" /\ receiptsBefore # -1
                                 /\ DeltaIsOne(nonce[attempt])
    BY <1>9 DEF ValidateTraffic
  <2>5. PassedTrafficIsOwn'
    <3> SUFFICES ASSUME qsStep' = "passed"
                 PROVE  \/ receipts[attempt] > 0
                        \/ /\ attempt \in unlogged
                           /\ \E k \in Attempts \ {attempt} :
                                 nonce[k] = nonce[attempt] /\ receipts[k] > 0
      BY <2>3
    <3>1. receipts[attempt] \in Nat
      BY <2>1
    <3> QED
      BY <2>2, <2>4, <3>1
  <2>6. QsTypes'
    BY <2>1, <2>3, <2>4
  <2>7. AnswersAreKnown'
    BY <2>3
  <2>8. qsStep = "validate" /\ SavedIsOriginal' /\ LeftAsFound'
    BY <1>9, <2>1, <2>3, <2>4 DEF ValidateTraffic
  <2> QED
    BY <2>5, <2>6, <2>7, <2>8
<1>10. CASE CleanUp
  BY <1>10 DEF CleanUp, RestoreMetrics, traffic
<1>11. CASE UNCHANGED qsVars
  BY <1>11 DEF qsVars
<1> QED
  BY <1>1, <1>2, <1>3, <1>4, <1>5, <1>6, <1>7, <1>8, <1>9, <1>10, <1>11, <1>12 DEF QsNext

LEMMA QsInvariant == QsSpec => []QsInv
<1>1. QsInit => QsInv
  BY QsAssumption DEF QsInit, QsInv, QsTypes, AnswersAreKnown, SavedIsOriginal,
        PassedTrafficIsOwn, LeftAsFound, Attempts, QsSteps
<1> QED
  BY <1>1, QsStepInv, PTL DEF QsSpec

(* 05-traffic.md, step 5: a positive check that passes has its own line in *)
(* the backend's log, for any number of attempts and of deliveries, or its *)
(* request was answered where no line is written while another attempt had *)
(* the same nonce and a line.                                              *)
THEOREM TrafficIsOwn == QsSpec => []PassedTrafficIsOwn
<1>1. QsInv => PassedTrafficIsOwn
  BY DEF QsInv
<1> QED
  BY <1>1, QsInvariant, PTL

(* cleanup.md, step 7: the metrics setting is put back, however often step *)
(* 5 was done and wherever it was left, with the two exceptions stated.    *)
THEOREM SettingLeftAsFound == QsSpec => []LeftAsFound
<1>1. QsInv => LeftAsFound
  BY DEF QsInv
<1> QED
  BY <1>1, QsInvariant, PTL

(* Every reachable state of the Quickstart is well typed, within the bounds *)
(* that its counters have of themselves.                                   *)
LEMMA QsTypeCorrect == QsSpec => []QsTypeOK
<1> DEFINE Bounded == /\ nonce \in [Attempts -> 0..QsAttempts] /\ unlogged \subseteq Attempts
                      /\ receiptsBefore \in -1..(QsAttempts * QsCopies)
<1>0. QsAttempts \in Nat \ {0} /\ QsCopies \in Nat \ {0} /\ QsAttempts * QsCopies \in Nat
  BY QsAssumption
<1>1. QsInit => Bounded
  BY <1>0 DEF QsInit, Attempts
<1>2. QsInv /\ Bounded /\ [QsNext]_qsVars => Bounded'
  <2> SUFFICES ASSUME QsInv, Bounded, [QsNext]_qsVars PROVE Bounded'
    OBVIOUS
  <2>1. ASSUME NEW k \in Attempts, HandleUnlogged(k) PROVE Bounded'
    BY <2>1 DEF HandleUnlogged, setting
  <2>2. CASE CountBefore
    <3>1. attempt \in 1..QsAttempts
      BY <1>0, <2>2 DEF QsInv, QsTypes, CountBefore
    <3>2. PICK n \in {attempt, IF attempt > 1 THEN nonce[attempt - 1] ELSE 1} :
            nonce' = [nonce EXCEPT ![attempt] = n] /\ receiptsBefore' \in {Lines(n), -1}
      BY <2>2 DEF CountBefore
    <3>3. n \in 0..QsAttempts
      BY <1>0, <3>1, <3>2 DEF Attempts
    <3>4. receiptsBefore' \in -1..(QsAttempts * QsCopies)
      <4>1. Lines(n) \in 0..(QsAttempts * QsCopies)
        BY LinesBounded DEF QsInv, QsTypes
      <4> QED
        BY <1>0, <3>2, <4>1
    <3> QED
      BY <2>2, <3>2, <3>3, <3>4 DEF CountBefore
  <2>3. CASE UNCHANGED <<nonce, unlogged, receiptsBefore>>
    BY <2>3
  <2> QED
    BY <2>1, <2>2, <2>3 DEF QsNext, Step5, SaveMetrics, EnableMetrics, SendTraffic,
       ValidateTraffic, CleanUp, Deliver, WriteReceipt, QsAnswer, qsVars, traffic, setting
<1>3. QsInv /\ Bounded => QsTypeOK
  BY DEF QsInv, QsTypes, QsTypeOK
<1> QED
  BY <1>1, <1>2, <1>3, QsInvariant, PTL DEF QsSpec

----------------------------------------------------------------------------
(* Scheduling lab.  What the walkthrough has read of the counts, said of   *)
(* the order in which requests arrived.                                    *)

LabTypes ==
    /\ order \in Seq((1..LabRuns) \X LabNames)
    /\ client \in [1..LabRuns -> [LabNames -> {"none", "open", "200", "000"}]]
    /\ labRun \in 1..LabRuns
    /\ step \in 0..15

ClientsAreKnown ==
    /\ \A r \in 1..LabRuns, n \in LabNames : r > labRun => client[r][n] = "none"
    /\ \A i \in 1..Len(order) : client[order[i][1]][order[i][2]] # "none"
    /\ step \in 1..4 => client[labRun]["urgent"] = "none"
    /\ \A n \in LabNames : client[labRun][n] = "200" =>
          /\ n \in released
          /\ \E i \in 1..Len(order) : order[i][1] = labRun /\ order[i][2] = n

HolderBeforeUrgent(o, r) ==
    \E i \in 1..Len(o) :
        /\ o[i][2] = "holder"
        /\ \A j \in 1..Len(o) : o[j][1] = r /\ o[j][2] = "urgent" => i < j

UrgentBeforeBatch(o) ==
    \E i \in 1..Len(o) : /\ o[i][2] = "urgent"
                         /\ \A j \in 1..Len(o) : o[j][2] = "batch" => i < j

Urgent(o) == \E i \in 1..Len(o) : o[i][2] = "urgent"

First(n, o, r) ==
    \E i \in 1..Len(o) : /\ o[i][1] = r /\ o[i][2] = n
                         /\ \A j \in 1..(i - 1) : o[j][2] # n

CountsAreRead ==
    /\ step > 2 => HolderBeforeUrgent(order, labRun)
    /\ step > 7 => Urgent(order)
    /\ step > 8 => UrgentBeforeBatch(order)
    /\ step > 12 => First("holder", order, labRun)
    /\ step > 13 => First("urgent", order, labRun)
    /\ step > 14 => First("batch", order, labRun)

(* A request that was not held when its name was released has come in an   *)
(* earlier run, or its client has left.                                    *)
Old(n, o, r) == \E i \in 1..Len(o) : o[i][2] = n /\ o[i][1] # r

HeldOrKnown(n, s) ==
    /\ step > s => n \in heldTo \/ Old(n, order, labRun) \/ client[labRun][n] = "000"
    /\ step \in 1..s /\ n \in released => Old(n, order, labRun)

HoldsAreKnown ==
    /\ step > 1 => client[labRun]["holder"] # "none"
    /\ step > 3 => client[labRun]["batch"] # "none"
    /\ step > 4 => client[labRun]["urgent"] # "none"
    /\ step > 10 => \E i \in 1..Len(order) : order[i][2] = "batch"
    /\ \A n \in released : \E i \in 1..Len(order) : order[i][2] = n
    /\ HeldOrKnown("holder", 6) /\ HeldOrKnown("urgent", 9) /\ HeldOrKnown("batch", 11)
    /\ step > 12 => "holder" \in heldTo
    /\ step > 13 => "urgent" \in heldTo
    /\ step > 14 => "batch" \in heldTo

LabInv == LabTypes /\ ClientsAreKnown /\ CountsAreRead

(* The entries of the script. *)
LEMMA Script ==
    /\ Len(LabScript) = 14
    /\ \A s \in 1..14 :
          /\ LabScript[s].op = "send" => s \in {1, 3, 4}
          /\ LabScript[s].op = "release" => s \in {6, 9, 11}
          /\ LabScript[s].name \in LabNames
    /\ \A s \in {1, 3} : LabScript[s].name # "urgent"
    /\ LabScript[2] = Do("poll", "holder", 1) /\ LabScript[7] = Do("poll", "urgent", 1)
    /\ LabScript[8] = Do("check", "batch", 0)
    /\ LabScript[12] = Do("finish", "holder", 1)
    /\ LabScript[13] = Do("finish", "urgent", 1)
    /\ LabScript[14] = Do("finish", "batch", 1)
  BY DEF LabScript, Do, LabNames

(* A count of one is of one arrival, a count of zero of none. *)
LEMMA Counted ==
    ASSUME LabTypes, NEW n \in LabNames
    PROVE  /\ Count(n) = 1 =>
                 \E i \in 1..Len(order) : \A j \in 1..Len(order) : order[j][2] = n <=> j = i
           /\ Count(n) = 0 => \A j \in 1..Len(order) : order[j][2] # n
<1>1. DOMAIN order = 1..Len(order) /\ Len(order) \in Nat
  BY DEF LabTypes
<1>2. ArrivalsOf(n) \subseteq 1..Len(order)
  BY <1>1 DEF ArrivalsOf
<1>3. IsFiniteSet(ArrivalsOf(n))
  <2>1. IsFiniteSet(1..Len(order))
    BY <1>1, FS_Interval
  <2> QED
    BY <1>2, <2>1, FS_Subset
<1>4. Count(n) = 1 => \E i : ArrivalsOf(n) = {i}
  BY <1>3, FS_Singleton DEF Count
<1>5. Count(n) = 0 => ArrivalsOf(n) = {}
  BY <1>3, FS_EmptySet DEF Count
<1>6. \A j \in 1..Len(order) : order[j][2] = n <=> j \in ArrivalsOf(n)
  BY <1>1 DEF ArrivalsOf
<1>7. ASSUME Count(n) = 1
      PROVE  \E i \in 1..Len(order) : \A j \in 1..Len(order) : order[j][2] = n <=> j = i
  <2> PICK i : ArrivalsOf(n) = {i}
    BY <1>4, <1>7
  <2>1. i \in 1..Len(order)
    BY <1>2
  <2>2. \A j \in 1..Len(order) : order[j][2] = n <=> j = i
    BY <1>6
  <2> QED
    BY <2>1, <2>2
<1> QED
  BY <1>5, <1>6, <1>7

(* What arrives later changes nothing of what was first. *)
LEMMA Appended ==
    ASSUME NEW o \in Seq((1..LabRuns) \X LabNames), NEW e \in (1..LabRuns) \X LabNames, NEW r
    PROVE  LET q == Append(o, e) IN
           /\ HolderBeforeUrgent(o, r) => HolderBeforeUrgent(q, r)
           /\ Urgent(o) => Urgent(q)
           /\ UrgentBeforeBatch(o) => UrgentBeforeBatch(q)
           /\ \A n \in LabNames : First(n, o, r) => First(n, q, r)
<1> DEFINE q == Append(o, e)
<1>1. /\ Len(o) \in Nat /\ Len(q) = Len(o) + 1
      /\ \A i \in 1..Len(o) : q[i] = o[i]
  OBVIOUS
<1>0. 1..Len(q) = 1..Len(o) \cup {Len(o) + 1}
  BY <1>1
<1> HIDE DEF q
<1>2. HolderBeforeUrgent(o, r) => HolderBeforeUrgent(q, r)
  <2> HAVE HolderBeforeUrgent(o, r)
  <2> PICK i \in 1..Len(o) :
          o[i][2] = "holder" /\ \A j \in 1..Len(o) : o[j][1] = r /\ o[j][2] = "urgent" => i < j
    BY DEF HolderBeforeUrgent
  <2>1. i \in 1..Len(q) /\ q[i][2] = "holder"
    BY <1>0, <1>1
  <2>2. ASSUME NEW j \in 1..Len(q), q[j][1] = r /\ q[j][2] = "urgent" PROVE i < j
    <3>1. CASE j \in 1..Len(o)
      BY <1>1, <2>2, <3>1
    <3>2. CASE j = Len(o) + 1
      BY <1>1, <3>2
    <3> QED
      BY <1>0, <3>1, <3>2
  <2> QED
    BY <2>1, <2>2 DEF HolderBeforeUrgent
<1>3. Urgent(o) => Urgent(q)
  BY <1>1 DEF Urgent
<1>4. UrgentBeforeBatch(o) => UrgentBeforeBatch(q)
  <2> HAVE UrgentBeforeBatch(o)
  <2> PICK i \in 1..Len(o) :
          o[i][2] = "urgent" /\ \A j \in 1..Len(o) : o[j][2] = "batch" => i < j
    BY DEF UrgentBeforeBatch
  <2>1. i \in 1..Len(q) /\ q[i][2] = "urgent"
    BY <1>0, <1>1
  <2>2. ASSUME NEW j \in 1..Len(q), q[j][2] = "batch" PROVE i < j
    <3>1. CASE j \in 1..Len(o)
      BY <1>1, <2>2, <3>1
    <3>2. CASE j = Len(o) + 1
      BY <1>1, <3>2
    <3> QED
      BY <1>0, <3>1, <3>2
  <2> QED
    BY <2>1, <2>2 DEF UrgentBeforeBatch
<1>5. \A n \in LabNames : First(n, o, r) => First(n, q, r)
  <2> SUFFICES ASSUME NEW n \in LabNames, First(n, o, r) PROVE First(n, q, r)
    OBVIOUS
  <2> PICK i \in 1..Len(o) : /\ o[i][1] = r /\ o[i][2] = n
                             /\ \A j \in 1..(i - 1) : o[j][2] # n
    BY DEF First
  <2>1. i \in 1..Len(q) /\ q[i][1] = r /\ q[i][2] = n
    BY <1>0, <1>1
  <2>2. ASSUME NEW j \in 1..(i - 1) PROVE q[j][2] # n
    <3>1. j \in 1..Len(o)
      BY <1>1
    <3> QED
      BY <1>1, <3>1
  <2> QED
    BY <2>1, <2>2 DEF First
<1> QED
  BY <1>2, <1>3, <1>4, <1>5 DEF q

LEMMA ArriveInv ==
    ASSUME LabInv, NEW r \in 1..LabRuns, NEW n \in LabNames, Arrive(r, n)
    PROVE  LabInv'
<1> USE DEF LabInv, Arrive
<1>1. <<r, n>> \in (1..LabRuns) \X LabNames /\ order' = Append(order, <<r, n>>)
  OBVIOUS
<1>2. LabTypes'
  BY <1>1 DEF LabTypes
<1>3. ClientsAreKnown'
  <2>1. /\ Len(order') = Len(order) + 1 /\ Len(order) \in Nat
        /\ \A i \in 1..Len(order) : order'[i] = order[i]
        /\ order'[Len(order) + 1] = <<r, n>>
    BY <1>1 DEF LabTypes
  <2>2. \A i \in 1..Len(order') : client[order'[i][1]][order'[i][2]] # "none"
    BY <2>1 DEF ClientsAreKnown
  <2>3. \A m \in LabNames : client[labRun][m] = "200" =>
            \E i \in 1..Len(order') : order'[i][1] = labRun /\ order'[i][2] = m
    BY <2>1 DEF ClientsAreKnown
  <2> QED
    BY <2>2, <2>3 DEF ClientsAreKnown
<1>4. CountsAreRead'
  BY <1>1, Appended DEF CountsAreRead, LabTypes, LabNames
<1> QED
  BY <1>2, <1>3, <1>4

(* Where neither the arrivals nor the run change, nothing that was read    *)
(* is lost, and most steps read nothing new about the order.               *)
LEMMA ReadStays ==
    ASSUME CountsAreRead, UNCHANGED <<order, labRun>>, step \in 0..15,
           \/ step' \in 0..step
           \/ step \in {1, 3, 4, 5, 6, 9, 10, 11} /\ step' = step + 1
    PROVE  CountsAreRead'
  BY DEF CountsAreRead

LEMMA ReadInv == ASSUME LabInv, Read PROVE LabInv'
<1> USE Script DEF LabInv, Read, Running, Now, Advance
<1>1. step \in 1..14 /\ step' = step + 1 /\ UNCHANGED <<order, released, client, labRun>>
  OBVIOUS
<1>2. LabTypes'
  BY <1>1 DEF LabTypes
<1>3. step # 4
  BY DEF LabScript, Do
<1>4. ClientsAreKnown'
  BY <1>1, <1>3 DEF ClientsAreKnown
<1>5. Count(LabScript[step].name) = LabScript[step].n
  BY <1>1
<1>6. CASE step \in {1, 3, 4, 5, 6, 9, 10, 11}
  BY <1>1, <1>2, <1>4, <1>6, ReadStays
<1>7. CASE step = 2
  <2>1. PICK i \in 1..Len(order) : order[i][2] = "holder"
    BY <1>5, <1>7, Counted DEF Do, LabNames
  <2>2. \A j \in 1..Len(order) : ~(order[j][1] = labRun /\ order[j][2] = "urgent")
    BY <1>7 DEF ClientsAreKnown
  <2>3. HolderBeforeUrgent(order, labRun)
    BY <2>1, <2>2 DEF HolderBeforeUrgent
  <2> QED
    BY <1>1, <1>2, <1>4, <1>7, <2>3 DEF CountsAreRead
<1>8. CASE step = 7
  <2>1. Urgent(order)
    BY <1>5, <1>8, Counted DEF Do, LabNames, Urgent
  <2> QED
    BY <1>1, <1>2, <1>4, <1>8, <2>1 DEF CountsAreRead
<1>9. CASE step = 8
  <2>1. \A j \in 1..Len(order) : order[j][2] # "batch"
    BY <1>5, <1>9, Counted DEF Do, LabNames
  <2>2. UrgentBeforeBatch(order)
    BY <1>9, <2>1 DEF UrgentBeforeBatch, Urgent, CountsAreRead
  <2> QED
    BY <1>1, <1>2, <1>4, <1>9, <2>2 DEF CountsAreRead
<1>10. ASSUME NEW n \in LabNames, LabScript[step] = Do("finish", n, 1)
       PROVE  First(n, order, labRun)
  <2>1. Count(n) = 1
    BY <1>5, <1>10 DEF Do
  <2>2. PICK i \in 1..Len(order) : \A j \in 1..Len(order) : order[j][2] = n <=> j = i
    BY <2>1, Counted
  <2>3. client[labRun][n] = "200"
    BY <1>10 DEF Do
  <2>4. PICK k \in 1..Len(order) : order[k][1] = labRun /\ order[k][2] = n
    BY <2>3 DEF ClientsAreKnown
  <2>5. k = i
    BY <2>2, <2>4
  <2>6. Len(order) \in Nat
    BY DEF LabTypes
  <2>7. ASSUME NEW j \in 1..(i - 1) PROVE order[j][2] # n
    <3>1. j \in 1..Len(order) /\ j # i
      BY <2>6
    <3> QED
      BY <2>2, <3>1
  <2> QED
    BY <2>2, <2>4, <2>5, <2>7 DEF First
<1>11. CASE step \in {12, 13, 14}
  <2>1. /\ step = 12 => First("holder", order, labRun)
        /\ step = 13 => First("urgent", order, labRun)
        /\ step = 14 => First("batch", order, labRun)
    BY <1>10 DEF LabNames
  <2> QED
    BY <1>1, <1>2, <1>4, <1>11, <2>1 DEF CountsAreRead
<1> QED
  BY <1>1, <1>6, <1>7, <1>8, <1>9, <1>11

LEMMA LabStepInv == LabInv /\ [LabNext]_labVars => LabInv'
<1> SUFFICES ASSUME LabInv, [LabNext]_labVars PROVE LabInv'
  OBVIOUS
<1> USE DEF LabInv
<1>1. ASSUME NEW r \in 1..LabRuns, NEW n \in LabNames, Arrive(r, n) PROVE LabInv'
  BY <1>1, ArriveInv
<1>2. ASSUME NEW n \in LabNames, Reply(n) PROVE LabInv'
  <2>1. n \in released /\ \E i \in 1..Len(order) : order[i][1] = labRun /\ order[i][2] = n
    BY <1>2 DEF Reply, HoldSeconds, ClientSeconds, LabTypes
  <2>2. LabTypes' /\ ClientsAreKnown'
    BY <1>2, <2>1 DEF Reply, LabTypes, ClientsAreKnown
  <2>3. CountsAreRead'
    BY <1>2, ReadStays DEF Reply, LabTypes
  <2> QED
    BY <2>2, <2>3
<1>3. ASSUME NEW n \in LabNames, ClientFails(n) PROVE LabInv'
  <2>1. LabTypes' /\ ClientsAreKnown'
    BY <1>3 DEF ClientFails, LabTypes, ClientsAreKnown
  <2>2. CountsAreRead'
    BY <1>3, ReadStays DEF ClientFails, LabTypes
  <2> QED
    BY <2>1, <2>2
<1>4. CASE Send
  <2>1. /\ step \in {1, 3, 4} /\ step' = step + 1 /\ UNCHANGED <<order, released, labRun>>
        /\ LabScript[step].name \in LabNames
        /\ step \in {1, 3} => LabScript[step].name # "urgent"
        /\ client' = [client EXCEPT ![labRun][LabScript[step].name] = "open"]
    BY <1>4, Script DEF Send, Running, Now, Advance
  <2>2. LabTypes' /\ ClientsAreKnown'
    BY <2>1 DEF LabTypes, ClientsAreKnown, LabNames
  <2>3. CountsAreRead'
    BY <2>1, ReadStays
  <2> QED
    BY <2>2, <2>3
<1>5. CASE Release
  <2>1. /\ step \in {6, 9, 11} /\ step' = step + 1 /\ UNCHANGED <<order, client, labRun>>
        /\ released \subseteq released'
    BY <1>5, Script DEF Release, Running, Now, Advance
  <2>2. LabTypes' /\ ClientsAreKnown'
    BY <2>1 DEF LabTypes, ClientsAreKnown
  <2>3. CountsAreRead'
    BY <2>1, ReadStays
  <2> QED
    BY <2>2, <2>3
<1>6. CASE Read
  BY <1>6, ReadInv
<1>7. CASE LabFails
  <2>1. LabTypes' /\ ClientsAreKnown'
    BY <1>7 DEF LabFails, Failed, LabTypes, ClientsAreKnown
  <2>2. CountsAreRead'
    BY <1>7, ReadStays DEF LabFails, Failed, LabTypes
  <2> QED
    BY <2>1, <2>2
<1>8. CASE BeginAgain
  <2>1. /\ labRun' = labRun + 1 /\ labRun' \in 1..LabRuns /\ step' = 1
        /\ order' = order \/ order' = <<>>
        /\ \A r \in 1..LabRuns : r # labRun => client'[r] = client[r]
        /\ \A n \in LabNames : client'[labRun][n] = "none" <=> client[labRun][n] = "none"
    BY <1>8, LabAssumption DEF BeginAgain, LabTypes
  <2>2. LabTypes'
    <3> DEFINE left == [n \in LabNames |-> IF client[labRun][n] = "none" THEN "none" ELSE "000"]
    <3>1. left \in [LabNames -> {"none", "open", "200", "000"}]
      OBVIOUS
    <3>2. client' = [client EXCEPT ![labRun] = left]
      BY <1>8 DEF BeginAgain
    <3> HIDE DEF left
    <3>3. client' \in [1..LabRuns -> [LabNames -> {"none", "open", "200", "000"}]]
      BY <3>1, <3>2 DEF LabTypes
    <3>4. order' \in Seq((1..LabRuns) \X LabNames)
      <4>1. <<>> \in Seq((1..LabRuns) \X LabNames)
        OBVIOUS
      <4>2. order \in Seq((1..LabRuns) \X LabNames)
        BY DEF LabTypes
      <4> QED
        BY <2>1, <4>1, <4>2
    <3> QED
      BY <2>1, <3>3, <3>4 DEF LabTypes
  <2>3. \A n \in LabNames : client'[labRun'][n] = "none"
    BY <2>1 DEF LabTypes, ClientsAreKnown
  <2>4. \A i \in 1..Len(order') : client'[order'[i][1]][order'[i][2]] # "none"
    BY <2>1, <2>2 DEF LabTypes, ClientsAreKnown
  <2>5. ClientsAreKnown'
    BY <2>1, <2>3, <2>4 DEF LabTypes, ClientsAreKnown, LabNames
  <2>6. CountsAreRead'
    BY <2>1 DEF CountsAreRead
  <2> QED
    BY <2>2, <2>5, <2>6
<1>9. CASE UNCHANGED labVars
  BY <1>9 DEF labVars, LabTypes, ClientsAreKnown, CountsAreRead
<1> QED
  BY <1>1, <1>2, <1>3, <1>4, <1>5, <1>6, <1>7, <1>8, <1>9 DEF LabNext

LEMMA LabInvariant == LabSpec => []LabInv
<1>1. LabInit => LabInv
  BY LabAssumption, Script DEF LabInit, LabInv, LabTypes, ClientsAreKnown, CountsAreRead, LabNames
<1> QED
  BY <1>1, LabStepInv, PTL DEF LabSpec

(* scheduling.md, steps 2 to 9: what a walkthrough that passes concludes   *)
(* about the order in which the Gateway sent is so, for any number of      *)
(* earlier runs and of repeated or late requests, whatever the Gateway's   *)
(* policy.                                                                 *)
THEOREM StrictIsOrdered == LabSpec => []PassedStrictIsOrdered
<1>1. ASSUME LabInv PROVE PassedStrictIsOrdered
  <2> SUFFICES ASSUME step = 15
               PROVE  \E h, u, b \in DOMAIN order :
                         /\ FirstOf("holder", h) /\ FirstOf("urgent", u) /\ FirstOf("batch", b)
                         /\ h < u /\ u < b
    BY Script DEF PassedStrictIsOrdered, Passed
  <2> USE <1>1 DEF LabInv, CountsAreRead
  <2>1. DOMAIN order = 1..Len(order) /\ Len(order) \in Nat
    BY DEF LabTypes
  <2>2. PICK h \in 1..Len(order) :
            /\ order[h][1] = labRun /\ order[h][2] = "holder"
            /\ \A j \in 1..(h - 1) : order[j][2] # "holder"
    BY DEF First
  <2>3. PICK u \in 1..Len(order) :
            /\ order[u][1] = labRun /\ order[u][2] = "urgent"
            /\ \A j \in 1..(u - 1) : order[j][2] # "urgent"
    BY DEF First
  <2>4. PICK b \in 1..Len(order) :
            /\ order[b][1] = labRun /\ order[b][2] = "batch"
            /\ \A j \in 1..(b - 1) : order[j][2] # "batch"
    BY DEF First
  <2>5. PICK g \in 1..Len(order) : order[g][2] = "holder" /\ g < u
    BY <2>3 DEF HolderBeforeUrgent
  <2>6. PICK k \in 1..Len(order) : order[k][2] = "urgent" /\ k < b
    BY <2>4 DEF UrgentBeforeBatch
  <2>7. h < u /\ u < b
    BY <2>1, <2>2, <2>3, <2>5, <2>6
  <2> QED
    <3>1. \A i \in 1..Len(order) : order[i] = <<order[i][1], order[i][2]>>
      BY DEF LabTypes
    <3>2. FirstOf("holder", h) /\ FirstOf("urgent", u) /\ FirstOf("batch", b)
      BY <2>1, <2>2, <2>3, <2>4, <3>1 DEF FirstOf
    <3> QED
      BY <2>1, <2>7, <3>2
<1> QED
  BY <1>1, LabInvariant, PTL

(* The holds, step by step, over what is known of the counts. *)
LEMMA HoldsStepInv ==
    LabInv /\ LabInv' /\ HoldsAreKnown /\ [LabNext]_labVars => HoldsAreKnown'
<1> SUFFICES ASSUME LabInv, LabInv', HoldsAreKnown, [LabNext]_labVars PROVE HoldsAreKnown'
  OBVIOUS
<1> USE DEF LabInv
<1>0. /\ step \in 0..15 /\ Len(order) \in Nat /\ DOMAIN order = 1..Len(order)
      /\ labRun \in 1..LabRuns
      /\ \A r \in 1..LabRuns, n \in LabNames : client[r][n] \in {"none", "open", "200", "000"}
      /\ \A i \in 1..Len(order) : order[i] = <<order[i][1], order[i][2]>>
  <2>1. \A i \in 1..Len(order) : order[i] \in (1..LabRuns) \X LabNames
    BY DEF LabTypes
  <2>2. \A e \in (1..LabRuns) \X LabNames : e = <<e[1], e[2]>>
    OBVIOUS
  <2>3. \A i \in 1..Len(order) : order[i] = <<order[i][1], order[i][2]>>
    BY <2>1, <2>2
  <2>4. \A r \in 1..LabRuns, n \in LabNames : client[r][n] \in {"none", "open", "200", "000"}
    BY DEF LabTypes
  <2> QED
    BY <2>3, <2>4 DEF LabTypes
<1>1. ASSUME NEW r \in 1..LabRuns, NEW n \in LabNames, Arrive(r, n) PROVE HoldsAreKnown'
  <2>1. order' = Append(order, <<r, n>>) /\ UNCHANGED <<released, client, labRun, heldTo, step>>
    BY <1>1 DEF Arrive
  <2>2. /\ Len(order') = Len(order) + 1
        /\ \A i \in 1..Len(order) : order'[i] = order[i]
    BY <2>1 DEF LabTypes
  <2>3. \A m \in LabNames : Old(m, order, labRun) => Old(m, order', labRun)
    BY <1>0, <2>2 DEF Old
  <2>4. \A m : (\E i \in 1..Len(order) : order[i][2] = m) =>
                 \E i \in 1..Len(order') : order'[i][2] = m
    BY <1>0, <2>2
  <2> QED
    BY <2>1, <2>3, <2>4 DEF HoldsAreKnown, HeldOrKnown, LabNames
<1>2. ASSUME NEW n \in LabNames, Reply(n) PROVE HoldsAreKnown'
  <2>1. /\ \A m \in LabNames : client[labRun][m] = "000" => client'[labRun][m] = "000"
        /\ \A m \in LabNames : client[labRun][m] # "none" => client'[labRun][m] # "none"
        /\ UNCHANGED <<order, released, labRun, heldTo, step>>
    BY <1>0, <1>2 DEF Reply, LabTypes
  <2> QED
    BY <2>1 DEF HoldsAreKnown, HeldOrKnown, LabNames
<1>3. ASSUME NEW n \in LabNames, ClientFails(n) PROVE HoldsAreKnown'
  <2>1. /\ \A m \in LabNames : client[labRun][m] = "000" => client'[labRun][m] = "000"
        /\ \A m \in LabNames : client[labRun][m] # "none" => client'[labRun][m] # "none"
        /\ UNCHANGED <<order, released, labRun, heldTo, step>>
    BY <1>0, <1>3 DEF ClientFails, LabTypes
  <2> QED
    BY <2>1 DEF HoldsAreKnown, HeldOrKnown, LabNames
<1>4. CASE Send
  <2>1. /\ step \in {1, 3, 4} /\ step' = step + 1
        /\ UNCHANGED <<order, released, labRun, heldTo>>
        /\ client' = [client EXCEPT ![labRun][LabScript[step].name] = "open"]
    BY <1>4, Script DEF Send, Running, Now, Advance
  <2>2. /\ LabScript[step].name \in LabNames
        /\ step = 1 => LabScript[step].name = "holder"
        /\ step = 3 => LabScript[step].name = "batch"
        /\ step = 4 => LabScript[step].name = "urgent"
    BY <2>1, Script DEF LabScript, Do
  <2>3. /\ client'[labRun][LabScript[step].name] = "open"
        /\ \A m \in LabNames : m # LabScript[step].name => client'[labRun][m] = client[labRun][m]
    BY <1>0, <2>1, <2>2 DEF LabTypes
  <2> QED
    BY <2>1, <2>2, <2>3 DEF HoldsAreKnown, HeldOrKnown, LabNames
<1>5. CASE Release
  <2>1. /\ step \in {6, 9, 11} /\ step' = step + 1 /\ UNCHANGED <<order, client, labRun>>
        /\ released' = released \cup {LabScript[step].name}
        /\ heldTo' = IF Held(LabScript[step].name)
                     THEN heldTo \cup {LabScript[step].name} ELSE heldTo
    BY <1>5, Script DEF Release, Running, Now, Advance
  <2>2. /\ step = 6 => LabScript[step].name = "holder"
        /\ step = 9 => LabScript[step].name = "urgent"
        /\ step = 11 => LabScript[step].name = "batch"
    BY <2>1 DEF LabScript, Do
  <2>3. ASSUME NEW n \in LabNames, ~Held(n), client[labRun][n] # "none",
               \E i \in 1..Len(order) : order[i][2] = n,
               n \in released => Old(n, order, labRun)
        PROVE  Old(n, order, labRun) \/ client[labRun][n] = "000"
    <3>1. CASE n \in released
      BY <2>3, <3>1
    <3>2. CASE n \notin released
      <4>1. client[labRun][n] # "200"
        BY <1>0, <3>2 DEF ClientsAreKnown
      <4>2. CASE client[labRun][n] = "open"
        <5>1. \A i \in 1..Len(order) : order[i] # <<labRun, n>>
          BY <1>0, <2>3, <3>2, <4>2 DEF Held
        <5> QED
          BY <1>0, <2>3, <5>1 DEF Old
      <4> QED
        BY <1>0, <2>3, <4>1, <4>2
    <3> QED
      BY <3>1, <3>2
  <2>4. /\ \E i \in 1..Len(order) : order[i][2] = "holder"
        /\ step > 7 => \E i \in 1..Len(order) : order[i][2] = "urgent"
        /\ step > 10 => \E i \in 1..Len(order) : order[i][2] = "batch"
    BY <2>1 DEF CountsAreRead, HolderBeforeUrgent, Urgent, HoldsAreKnown
  <2>5. \A n \in released' : \E i \in 1..Len(order) : order[i][2] = n
    BY <2>1, <2>2, <2>4 DEF HoldsAreKnown
  <2>6. HeldOrKnown("holder", 6)'
    BY <2>1, <2>2, <2>3, <2>4 DEF HoldsAreKnown, HeldOrKnown, LabNames
  <2>7. HeldOrKnown("urgent", 9)'
    BY <2>1, <2>2, <2>3, <2>4 DEF HoldsAreKnown, HeldOrKnown, LabNames
  <2>8. HeldOrKnown("batch", 11)'
    BY <2>1, <2>2, <2>3, <2>4 DEF HoldsAreKnown, HeldOrKnown, LabNames
  <2> QED
    BY <2>1, <2>4, <2>5, <2>6, <2>7, <2>8 DEF HoldsAreKnown
<1>6. CASE Read
  <2>1. /\ step \in 1..14 /\ step' = step + 1
        /\ UNCHANGED <<order, released, client, labRun, heldTo>>
        /\ step \notin {1, 3, 4, 6, 9, 11}
        /\ Count(LabScript[step].name) = LabScript[step].n
    BY <1>6, Script DEF Read, Running, Now, Advance, LabScript, Do
  <2>2. step = 10 => \E i \in 1..Len(order) : order[i][2] = "batch"
    <3> SUFFICES ASSUME step = 10 PROVE \E i \in 1..Len(order) : order[i][2] = "batch"
      OBVIOUS
    <3>1. Count("batch") = 1
      BY <2>1 DEF LabScript, Do
    <3> QED
      BY <3>1, Counted DEF LabNames
  <2>3. ASSUME NEW n \in LabNames, LabScript[step] = Do("finish", n, 1)
        PROVE  client[labRun][n] = "200" /\ ~Old(n, order, labRun)
    <3>1. client[labRun][n] = "200" /\ Count(n) = 1
      BY <1>6, <2>1, <2>3 DEF Read, Now, Do
    <3>2. PICK i \in 1..Len(order) : \A j \in 1..Len(order) : order[j][2] = n <=> j = i
      BY <3>1, Counted
    <3>3. PICK k \in 1..Len(order) : order[k][1] = labRun /\ order[k][2] = n
      BY <1>0, <3>1 DEF ClientsAreKnown
    <3> QED
      BY <3>1, <3>2, <3>3 DEF Old
  <2>4. /\ step = 12 => "holder" \in heldTo
        /\ step = 13 => "urgent" \in heldTo
        /\ step = 14 => "batch" \in heldTo
    BY <2>3, Script DEF HoldsAreKnown, HeldOrKnown, LabNames
  <2> QED
    BY <2>1, <2>2, <2>4 DEF HoldsAreKnown, HeldOrKnown
<1>7. CASE LabFails
  <2>1. step' = 0 /\ UNCHANGED <<order, released>>
    BY <1>7 DEF LabFails, Failed
  <2> QED
    BY <2>1 DEF HoldsAreKnown, HeldOrKnown
<1>8. CASE BeginAgain
  <2>1. /\ labRun' = labRun + 1 /\ step' = 1
        /\ \/ UNCHANGED <<order, released>>
           \/ order' = <<>> /\ released' = {}
    BY <1>8 DEF BeginAgain
  <2>2. \A i \in 1..Len(order) : order[i][1] \in 1..LabRuns /\ order[i][1] # labRun + 1
    <3>1. \A i \in 1..Len(order) : order[i][1] \in 1..LabRuns /\ order[i][2] \in LabNames
      BY DEF LabTypes
    <3> QED
      BY <1>0, <3>1 DEF ClientsAreKnown
  <2>3. \A n \in released' : Old(n, order', labRun')
    BY <2>1, <2>2 DEF HoldsAreKnown, Old
  <2>4. \A n \in released' : \E i \in 1..Len(order') : order'[i][2] = n
    BY <2>3 DEF Old
  <2> QED
    BY <2>1, <2>3, <2>4 DEF HoldsAreKnown, HeldOrKnown
<1>9. CASE UNCHANGED labVars
  BY <1>9 DEF labVars, HoldsAreKnown, HeldOrKnown
<1> QED
  BY <1>1, <1>2, <1>3, <1>4, <1>5, <1>6, <1>7, <1>8, <1>9 DEF LabNext

(* scheduling.md and backend.py wait_for: a walkthrough that passes held   *)
(* each of its requests until it released it, and not until a timeout, a   *)
(* remembered release or its own arrival.                                  *)
THEOREM HeldUntilReleased == LabSpec => []PassedWereHeld
<1> DEFINE Names == heldTo \subseteq LabNames
<1>1. LabInit => HoldsAreKnown /\ Names
  BY LabAssumption DEF LabInit, HoldsAreKnown, HeldOrKnown
<1>2. LabInv /\ Names /\ [LabNext]_labVars => Names'
  <2> SUFFICES ASSUME LabInv, Names, [LabNext]_labVars PROVE Names'
    OBVIOUS
  <2>1. CASE Release
    BY <2>1, Script DEF Release, Running, Now
  <2> QED
    BY <2>1 DEF LabNext, Arrive, Reply, ClientFails, Send, Read, LabFails, BeginAgain, labVars
<1>3. LabInv /\ HoldsAreKnown /\ Names => PassedWereHeld
  <2>1. Passed = 15
    BY Script DEF Passed
  <2>2. ASSUME LabInv, HoldsAreKnown, step = 15 PROVE LabNames \subseteq heldTo
    BY <2>2 DEF HoldsAreKnown, LabNames
  <2> QED
    BY <2>1, <2>2 DEF PassedWereHeld
<1> QED
  BY <1>1, <1>2, <1>3, HoldsStepInv, LabInvariant, PTL DEF LabSpec

(* Every reachable state of the scheduling lab is well typed. *)
LEMMA LabTypeCorrect == LabSpec => []LabTypeOK
<1> DEFINE Names == released \subseteq LabNames /\ heldTo \subseteq LabNames
<1>1. LabInit => Names
  BY DEF LabInit
<1>2. LabInv /\ Names /\ [LabNext]_labVars => Names'
  <2> SUFFICES ASSUME LabInv, Names, [LabNext]_labVars PROVE Names'
    OBVIOUS
  <2>1. CASE Release
    BY <2>1, Script DEF Release, Running, Now
  <2> QED
    BY <2>1 DEF LabNext, Arrive, Reply, ClientFails, Send, Read, LabFails, BeginAgain, labVars
<1>3. LabInv /\ Names => LabTypeOK
  <2>1. Failed = 0 /\ Passed = 15
    BY Script DEF Failed, Passed
  <2> QED
    BY <2>1 DEF LabInv, LabTypes, LabTypeOK
<1> QED
  BY <1>1, <1>2, <1>3, LabInvariant, PTL DEF LabSpec
=============================================================================
