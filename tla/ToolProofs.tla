------------------------------ MODULE ToolProofs ------------------------------
(***************************************************************************)
(* Proofs about the evidence gate, the runtime probe and the body          *)
(* bindings, for any cases, runs, assets and versions; and about the       *)
(* behaviours in which they stand beside the parts of LabProofs.           *)
(***************************************************************************)
EXTENDS MCTools, LabProofs, SequenceTheorems

----------------------------------------------------------------------------
(* Evidence.  Whatever is edited, there is at most one summary, and a      *)
(* ledger is one that some run gives.                                      *)

EvInv ==
    /\ outcome \in [EvRuns -> [EvCases -> EvOutcomes]]
    /\ \A s, t \in summary : s = t
    /\ ledger \subseteq Ledgers

LEMMA EvStepInv == EvInv /\ [EvNext]_evVars => EvInv'
<1> SUFFICES ASSUME EvInv, [EvNext]_evVars PROVE EvInv'
  OBVIOUS
<1>0. outcome' = outcome /\ Ledgers' = Ledgers
  <2>1. outcome' = outcome
    BY DEF EvNext, EditStatus, EditVerdicts, EditSummary, EditLedger, EditPlan, evVars
  <2> QED
    BY <2>1 DEF Ledgers, Records
<1> USE DEF EvInv
<1>1. CASE UNCHANGED <<outcome, summary, ledger>>
  BY <1>0, <1>1
<1>2. CASE EditSummary
  BY <1>0, <1>2 DEF EditSummary
<1>3. CASE EditLedger
  BY <1>0, <1>3 DEF EditLedger
<1> QED
  BY <1>1, <1>2, <1>3 DEF EvNext, EditStatus, EditVerdicts, EditPlan, evVars

(* Where the ledger has records of a case that are all whole, the case was *)
(* run and the records are no more than it had.                            *)
LEMMA LedgerIsOfItsRun ==
    ASSUME EvInv, NEW l \in ledger, NEW c \in EvCases,
           l.rows[c].good, l.rows[c].main > 0
    PROVE  /\ l.run \in EvRuns
           /\ outcome[l.run][c].attempt = "run"
           /\ l.rows[c].main \in 1..outcome[l.run][c].whole
           /\ c = "exact" /\ l.rows[c].cold > 0 => outcome[l.run][c].cold = 1
<1> PICK run \in EvRuns, of \in SUBSET EvCases, all \in BOOLEAN :
        l = [run |-> run, rows |-> [d \in EvCases |->
               IF d \in of THEN Records(run, all, d) ELSE NoRecords]]
  <2>1. l \in Ledgers
    BY DEF EvInv
  <2> QED
    BY <2>1 DEF Ledgers
<1>1. l.run = run /\ l.rows[c] = IF c \in of THEN Records(run, all, c) ELSE NoRecords
  OBVIOUS
<1>2. l.rows[c] = Records(run, all, c)
  BY <1>1 DEF NoRecords
<1> DEFINE o == outcome[run][c]
<1>3. o.whole \in 0..EvMain /\ o.cold \in 0..1
  BY EvidenceAssumption DEF EvInv
<1> HIDE DEF o
<1>4. /\ o.attempt = "run"
      /\ all => l.rows[c].main = EvMain
      /\ ~all => l.rows[c].main = o.whole
      /\ all => o.whole = EvMain /\ (c = "exact" => o.cold = 1)
      /\ ~all /\ c = "exact" => l.rows[c].cold = o.cold
  <2>1. o.attempt = "run"
    BY <1>2 DEF Records, o
  <2> DEFINE good == all => o.whole = EvMain /\ (c = "exact" => o.cold = 1)
  <2>2. l.rows[c] = [main |-> IF all THEN EvMain ELSE o.whole,
                     cold |-> IF c = "rr" THEN 0 ELSE IF all THEN 1 ELSE o.cold,
                     good |-> good]
    BY <1>2, <2>1 DEF Records, o
  <2> HIDE DEF good
  <2>3. good
    BY <2>2
  <2>4. all => o.whole = EvMain /\ (c = "exact" => o.cold = 1)
    BY <2>3 DEF good
  <2>5. c = "exact" => c # "rr"
    OBVIOUS
  <2> QED
    BY <2>1, <2>2, <2>4, <2>5
<1> QED
  BY <1>1, <1>3, <1>4, EvidenceAssumption DEF o

(* validate_model_engine_evidence.py: an accepted package calls passed, or *)
(* proposes for the catalog, only what was run in the run of the ledger,   *)
(* for any runs, any number of samples and any editors.                    *)
THEOREM AcceptedPassIsReal == EvSpec => []PublishedPassIsReal
<1>1. EvInit => EvInv
  BY DEF EvInit, EvInv
<1>2. ASSUME EvInv PROVE PublishedPassIsReal
  <2> SUFFICES ASSUME PackageAccepted, NEW c \in EvCases,
                      matrix.verdict[c] = Pass \/ plan = "candidate"
               PROVE  \E s \in summary, l \in ledger :
                         LET o == outcome[l.run][c]
                         IN  /\ o.attempt = "run"
                             /\ s[c].normal \in 1..o.whole
                             /\ c = "exact" => o.cold = 1
    BY DEF PublishedPassIsReal
  <2>1. PublishedAccepted
    <3>1. CASE PendingAccepted
      <4>1. matrix.verdict[c] # Pass
        BY <3>1 DEF PendingAccepted, NotRun, Pass
      <4>2. summary # {}
        BY <4>1 DEF PackageAccepted, PlanAccepted
      <4> QED
        BY <3>1, <4>2 DEF PendingAccepted
    <3> QED
      BY <3>1 DEF PackageAccepted, EvidenceAccepted
  <2> PICK s \in summary, l \in ledger :
          /\ \A d \in EvCases : RowAccepted(s[d], d)
          /\ RecordsReconcile(s, l)
    BY <2>1 DEF PublishedAccepted
  <2>2. s[c].verdict = Pass
    <3>1. CASE matrix.verdict[c] = Pass
      BY <3>1 DEF RowAccepted
    <3>2. CASE plan = "candidate"
      <4>1. \E t \in summary : \A d \in EvCases : t[d].verdict = Pass
        BY <3>2 DEF PackageAccepted, PlanAccepted
      <4> QED
        BY <1>2, <4>1 DEF EvInv
    <3> QED
      BY <3>1, <3>2
  <2>3. s[c].normal > 0 /\ (c = "exact" => s[c].cold > 0)
    BY <2>2 DEF RowAccepted
  <2>4. /\ l.rows[c].good /\ l.rows[c].main = s[c].normal
        /\ c = "exact" => l.rows[c].cold = s[c].cold
    BY <2>2 DEF RecordsReconcile
  <2> QED
    BY <1>2, <2>3, <2>4, LedgerIsOfItsRun
<1> QED
  BY <1>1, <1>2, EvStepInv, PTL DEF EvSpec

LEMMA AtMostOne ==
    ASSUME NEW S, S = {} \/ \E x : S = {x}
    PROVE  Cardinality(S) \in 0..1
<1>1. Cardinality({}) = 0
  BY FS_EmptySet
<1>2. \A x : Cardinality({x}) = 1
  BY FS_Singleton
<1>3. Cardinality(S) = 0 \/ Cardinality(S) = 1
  BY <1>1, <1>2, Zenon
<1> QED
  BY <1>3

(* What the four files hold: a summary and a ledger at most, both taken    *)
(* from runs, and in the matrix what a summary said.                       *)
EvFiles ==
    /\ matrix \in [status : {"pending", "published"}, refers : BOOLEAN,
                   verdict : [EvCases -> Verdicts \cup {"not-run"}]]
    /\ summary = {} \/ \E s \in Summaries : summary = {s}
    /\ ledger = {} \/ \E l \in Ledgers : ledger = {l}
    /\ plan \in {"none", "candidate", "blocked"}

LEMMA RowsTyped ==
    ASSUME EvInv
    PROVE  /\ \A s \in Summaries :
                 s \in [EvCases -> [verdict : Verdicts, offered : 0..EvMain,
                                   normal : 0..EvMain, cold : 0..1]]
           /\ \A l \in Ledgers :
                 /\ l.run \in EvRuns
                 /\ l.rows \in [EvCases -> [main : 0..EvMain, cold : 0..1, good : BOOLEAN]]
<1>1. ASSUME NEW run \in EvRuns, NEW c \in EvCases
      PROVE  outcome[run][c].whole \in 0..EvMain /\ outcome[run][c].cold \in 0..1
  BY EvidenceAssumption DEF EvInv
<1>2. EvMain \in 0..EvMain
  BY EvidenceAssumption
<1>3. ASSUME NEW run \in EvRuns, NEW c \in EvCases, NEW claim
      PROVE  SummaryRow(run, claim, c) \in
                [verdict : Verdicts, offered : 0..EvMain, normal : 0..EvMain, cold : 0..1]
  BY <1>1, <1>2 DEF SummaryRow, Verdicts, Pass, Blocked
<1>4. ASSUME NEW run \in EvRuns, NEW c \in EvCases, NEW all \in BOOLEAN
      PROVE  Records(run, all, c) \in [main : 0..EvMain, cold : 0..1, good : BOOLEAN]
  <2>1. (all => outcome[run][c].whole = EvMain /\ (c = "exact" => outcome[run][c].cold = 1)) \in BOOLEAN
    OBVIOUS
  <2> HIDE DEF EvCases
  <2> DEFINE good == all => outcome[run][c].whole = EvMain /\ (c = "exact" => outcome[run][c].cold = 1)
  <2>2. Records(run, all, c) =
          IF outcome[run][c].attempt # "run" THEN [main |-> 0, cold |-> 0, good |-> TRUE]
          ELSE [main |-> IF all THEN EvMain ELSE outcome[run][c].whole,
                cold |-> IF c = "rr" THEN 0 ELSE IF all THEN 1 ELSE outcome[run][c].cold,
                good |-> good]
    BY DEF Records
  <2> HIDE DEF good
  <2>3. good \in BOOLEAN
    BY <2>1 DEF good
  <2> QED
    BY <1>1, <1>2, <2>2, <2>3
<1>5. NoRecords \in [main : 0..EvMain, cold : 0..1, good : BOOLEAN]
  BY <1>2 DEF NoRecords
<1> QED
  BY <1>3, <1>4, <1>5 DEF Summaries, Ledgers

LEMMA EvTypeCorrect == EvSpec => [](EvTypeOK /\ EvInv)
<1>1. EvInit => EvInv /\ EvFiles
  BY DEF EvInit, EvInv, EvFiles, NotRun, Verdicts
<1>2. EvInv /\ EvFiles /\ [EvNext]_evVars => EvFiles'
  <2> SUFFICES ASSUME EvInv, EvFiles, [EvNext]_evVars PROVE EvFiles'
    OBVIOUS
  <2>0. Ledgers' = Ledgers /\ Summaries' = Summaries
    <3>1. outcome' = outcome
      BY DEF EvNext, EditStatus, EditVerdicts, EditSummary, EditLedger, EditPlan, evVars
    <3> QED
      BY <3>1 DEF Ledgers, Records, Summaries, SummaryRow
  <2>1. CASE EditStatus
    BY <2>0, <2>1 DEF EditStatus, EvFiles
  <2>2. CASE EditVerdicts
    <3>1. matrix' \in [status : {"pending", "published"}, refers : BOOLEAN,
                      verdict : [EvCases -> Verdicts \cup {"not-run"}]]
      <4>1. CASE matrix' = [matrix EXCEPT !.verdict = NotRun, !.refers = FALSE]
        BY <4>1 DEF EvFiles, NotRun
      <4>2. ASSUME NEW s \in summary,
                   matrix' = [matrix EXCEPT !.verdict = [c \in EvCases |-> s[c].verdict], !.refers = TRUE]
            PROVE  <3>1!:
        <5>1. \A c \in EvCases : s[c].verdict \in Verdicts
          BY RowsTyped DEF EvFiles
        <5> QED
          BY <4>2, <5>1 DEF EvFiles
      <4> QED
        BY <2>2, <4>1, <4>2 DEF EditVerdicts
    <3> QED
      BY <2>0, <2>2, <3>1 DEF EditVerdicts, EvFiles
  <2>3. CASE EditSummary
    BY <2>0, <2>3 DEF EditSummary, EvFiles
  <2>4. CASE EditLedger
    BY <2>0, <2>4 DEF EditLedger, EvFiles
  <2>5. CASE EditPlan
    BY <2>0, <2>5 DEF EditPlan, EvFiles
  <2>6. CASE UNCHANGED evVars
    BY <2>0, <2>6 DEF evVars, EvFiles
  <2> QED
    BY <2>1, <2>2, <2>3, <2>4, <2>5, <2>6 DEF EvNext
<1>3. EvInv /\ EvFiles => EvTypeOK
  <2> SUFFICES ASSUME EvInv, EvFiles PROVE EvTypeOK
    OBVIOUS
  <2>1. (summary = {} \/ \E x : summary = {x}) /\ (ledger = {} \/ \E x : ledger = {x})
    BY DEF EvFiles
  <2>2. Cardinality(summary) \in 0..1 /\ Cardinality(ledger) \in 0..1
    BY <2>1, AtMostOne
  <2> QED
    BY <2>2, RowsTyped DEF EvInv, EvFiles, EvTypeOK
<1> QED
  BY <1>1, <1>2, <1>3, EvStepInv, PTL DEF EvSpec

----------------------------------------------------------------------------
(* Body bindings.  What is recorded is what document() once wrote, for     *)
(* some assets and some blocks, in all that the loader relies on: a file   *)
(* in which nothing but bodies and commands was edited by hand.            *)

Recorded(b) ==
    /\ b.asset = [a \in DOMAIN b.asset |-> b.asset[a]]
    /\ IsFiniteSet(DOMAIN b.asset) /\ Cardinality(DOMAIN b.asset) = BdCount
    /\ b.sum = [a \in DOMAIN b.asset |-> [p \in BdPages |-> BodyOf(p, b.asset[a], b.block)]]
    /\ b.named = BodyNamed

BdInv ==
    /\ DOMAIN assetFile \subseteq BdAssets
    /\ assetFile = [a \in DOMAIN assetFile |-> assetFile[a]]
    /\ hand \subseteq {"body", "command"} => \A b \in bindings : Recorded(b)

LEMMA AssetsAreFinite == BdInv => IsFiniteSet(DOMAIN assetFile)
  BY BindingAssumption, FS_Subset DEF BdInv

LEMMA DocumentIsRecorded == BdInv /\ DocumentSucceeds => Recorded(Document)
<1> SUFFICES ASSUME BdInv, DocumentSucceeds PROVE Recorded(Document)
  OBVIOUS
<1> DEFINE block == [p \in BdPages |-> CHOOSE v \in BdVersions : OneBlock(p, v)]
<1>1. /\ Document.asset = assetFile /\ Document.block = block /\ Document.named = BodyNamed
      /\ Document.sum = [a \in DOMAIN assetFile |-> [p \in BdPages |-> BodyOf(p, assetFile[a], block)]]
  BY DEF Document
<1>2. IsFiniteSet(DOMAIN assetFile) /\ Cardinality(DOMAIN assetFile) = BdCount
  BY AssetsAreFinite DEF DocumentSucceeds
<1> HIDE DEF block
<1> QED
  BY <1>1, <1>2 DEF Recorded, BdInv

LEMMA HandEditsKeep ==
    ASSUME NEW b, NEW kind \in {"body", "command"}, NEW d \in HandEdits(b, kind)
    PROVE  d.asset = b.asset /\ d.block = b.block /\ d.sum = b.sum /\ d.named = b.named
<1>1. CASE kind = "body"
  <2>1. PICK a \in DOMAIN b.asset, p \in BdPages : d = [b EXCEPT !.body[a][p].asset = "hand"]
    BY <1>1 DEF HandEdits, BodyEdits
  <2> QED
    BY <2>1
<1>2. CASE kind = "command"
  <2>1. PICK p \in BdPages : d = [b EXCEPT !.command[p] = "hand"]
    BY <1>2 DEF HandEdits, CommandEdits
  <2> QED
    BY <2>1
<1> QED
  BY <1>1, <1>2

LEMMA BdStepInv == BdInv /\ [BdNext]_bdVars => BdInv'
<1> SUFFICES ASSUME BdInv, [BdNext]_bdVars PROVE BdInv'
  OBVIOUS
<1> USE DEF BdInv
<1>1. CASE EditAsset
  BY <1>1 DEF EditAsset
<1>2. CASE RemoveAsset
  BY <1>2 DEF RemoveAsset
<1>3. CASE EditPage
  BY <1>3 DEF EditPage
<1>4. CASE EditBindings
  <2> PICK b \in bindings, kind \in HandKinds :
         /\ \E d \in HandEdits(b, kind) : bindings' = {d}
         /\ hand' = hand \cup {kind}
    BY <1>4 DEF EditBindings
  <2> PICK d \in HandEdits(b, kind) : bindings' = {d}
    OBVIOUS
  <2>1. ASSUME hand' \subseteq {"body", "command"} PROVE Recorded(d)
    <3>1. kind \in {"body", "command"} /\ Recorded(b)
      BY <2>1
    <3>2. d.asset = b.asset /\ d.block = b.block /\ d.sum = b.sum /\ d.named = b.named
      BY <3>1, HandEditsKeep
    <3> QED
      BY <3>1, <3>2 DEF Recorded
  <2> QED
    BY <1>4, <2>1 DEF EditBindings
<1>5. CASE LoseBindings
  BY <1>5 DEF LoseBindings
<1>6. CASE RefreshBindings
  <2>1. Recorded(Document) /\ bindings' = {Document} /\ UNCHANGED assetFile
    BY <1>6, DocumentIsRecorded DEF RefreshBindings
  <2> QED
    BY <2>1
<1>7. CASE UNCHANGED bdVars
  BY <1>7 DEF bdVars
<1> QED
  BY <1>1, <1>2, <1>3, <1>4, <1>5, <1>6, <1>7 DEF BdNext

(* A block that was recorded and is still on its page is the only one,     *)
(* where there is but one.                                                 *)
LEMMA PresentIsTheOne ==
    ASSUME DocumentSucceeds, NEW b, ProducerPresent(b), NEW p \in BdPages
    PROVE  b.block[p] = CHOOSE v \in BdVersions : OneBlock(p, v)
<1>1. PICK v \in BdVersions : OneBlock(p, v)
  BY DEF DocumentSucceeds
<1>2. ASSUME NEW w \in BdVersions, OneBlock(p, w) \/ producers[p][w] > 0 PROVE w = v
  <2>1. producers[p][w] = IF w = v THEN 1 ELSE 0
    BY <1>1 DEF OneBlock
  <2>2. CASE OneBlock(p, w)
    <3>1. producers[p][w] = 1
      BY <2>2 DEF OneBlock
    <3> QED
      BY <2>1, <3>1
  <2>3. CASE producers[p][w] > 0
    BY <2>1, <2>3
  <2> QED
    BY <1>2, <2>2, <2>3
<1>3. (CHOOSE w \in BdVersions : OneBlock(p, w)) = v
  <2> DEFINE u == CHOOSE w \in BdVersions : OneBlock(p, w)
  <2>1. u \in BdVersions /\ OneBlock(p, u)
    BY <1>1
  <2> HIDE DEF u
  <2>2. u = v
    BY <1>2, <2>1
  <2> QED
    BY <2>2 DEF u
<1>4. b.block[p] = v
  BY <1>2 DEF ProducerPresent
<1> QED
  BY <1>3, <1>4

(* refresh_body_bindings.py load_bound_bodies: the bodies it returns for a *)
(* reference, where the bindings could be generated at all, are those that *)
(* would be generated, for any number of assets and any contents, unless   *)
(* the file was edited by hand in more than its bodies and commands and is *)
(* not checked either.                                                     *)
THEOREM AcceptedBindingsAreCurrent == BdSpec => []LoadedIsCurrent
<1>1. BdInit => BdInv
  BY DEF BdInit, BdInv
<1>2. ASSUME BdInv PROVE LoadedIsCurrent
  <2> SUFFICES ASSUME NEW b \in bindings, NEW ref \in BdRefs,
                      LoadAccepts(b, ref), DocumentSucceeds,
                      hand \subseteq {"body", "command"} \/ CheckPasses
               PROVE  LoadedBodies(b, ref) = LoadedBodies(Document, ref)
    BY DEF LoadedIsCurrent
  <2>1. CASE CheckPasses
    BY <2>1 DEF CheckPasses
  <2>2. CASE hand \subseteq {"body", "command"}
    <3> DEFINE name  == BodyNamed[ref]
               block == [p \in BdPages |-> CHOOSE v \in BdVersions : OneBlock(p, v)]
    <3>1. Recorded(b)
      BY <1>2, <2>2 DEF BdInv
    <3>0. name \in BdPages
      BY DEF BodyNamed, BdRefs, BdPages
    <3> HIDE DEF name
    <3>2. /\ b.named[ref] = name
          /\ ProducerPresent(b)
          /\ \A a \in DOMAIN b.asset : /\ a \in DOMAIN assetFile /\ assetFile[a] = b.asset[a]
                                       /\ b.body[a][name] = b.sum[a][name]
      <4>1. b.named[ref] = name
        BY <3>1 DEF Recorded, name
      <4> QED
        BY <4>1 DEF LoadAccepts
    <3>3. DOMAIN b.asset = DOMAIN assetFile
      <4>1. IsFiniteSet(DOMAIN assetFile) /\ Cardinality(DOMAIN assetFile) = BdCount
        BY <1>2, AssetsAreFinite DEF DocumentSucceeds
      <4>2. DOMAIN b.asset \subseteq DOMAIN assetFile
        BY <3>2
      <4>3. Cardinality(DOMAIN b.asset) = BdCount
        BY <3>1 DEF Recorded
      <4> QED
        BY <4>1, <4>2, <4>3, FS_Subset
    <3>4. \A q \in BdPages : b.block[q] = block[q]
      BY <3>2, PresentIsTheOne
    <3>5. \A p \in BdPages : \A v : BodyOf(p, v, b.block) = BodyOf(p, v, block)
      <4>1. \A p \in BdPages : Inputs(p) \subseteq BdPages
        BY DEF Inputs, BdPages
      <4> HIDE DEF block
      <4> QED
        BY <3>4, <4>1 DEF BodyOf
    <3>6. /\ DOMAIN Document.asset = DOMAIN assetFile /\ Document.named[ref] = name
          /\ \A a \in DOMAIN assetFile : Document.body[a][name] = BodyOf(name, assetFile[a], block)
      BY <3>0 DEF Document, name
    <3>7. \A a \in DOMAIN assetFile : b.body[a][name] = BodyOf(name, assetFile[a], b.block)
      BY <3>0, <3>1, <3>2, <3>3 DEF Recorded
    <3> HIDE DEF block
    <3> QED
      BY <3>0, <3>2, <3>3, <3>5, <3>6, <3>7 DEF LoadedBodies
  <2> QED
    BY <2>1, <2>2
<1> QED
  BY <1>1, <1>2, BdStepInv, PTL DEF BdSpec

(* Every reachable state of assets, pages and bindings is well typed. *)
LEMMA BdTypeCorrect == BdSpec => []BdTypeOK
<1>1. ASSUME NEW f, f = [a \in DOMAIN f |-> f[a]]
      PROVE  f \in AssetFiles <=> DOMAIN f \subseteq BdAssets /\ \A a \in DOMAIN f : f[a] \in BdVersions
  BY <1>1 DEF AssetFiles
<1> DEFINE One == bindings = {} \/ \E b : bindings = {b}
<1> DEFINE Fields   == {"block", "command", "asset", "body", "sum", "named"}
           Typed(b) == DOMAIN b = Fields /\ b.asset \in AssetFiles
                       /\ b.named \in [BdRefs -> BdPages \cup {"none"}]
           Files    == /\ One /\ assetFile \in AssetFiles /\ \A b \in bindings : Typed(b)
                       /\ producers \in [BdPages -> [BdVersions -> 0..BdCopies]]
                       /\ hand \subseteq HandKinds
<1>2. BdInit => Files
  BY BindingAssumption DEF BdInit, AssetFiles
<1>3. Typed(Document) <=> assetFile \in AssetFiles
  BY DEF Document, BodyNamed, BdRefs, BdPages
<1>4. ASSUME NEW b, Typed(b), NEW kind \in HandKinds, NEW d \in HandEdits(b, kind)
      PROVE  Typed(d)
  <2>a. ASSUME NEW x \in BodyEdits(b)
        PROVE  x.asset = b.asset /\ x.named = b.named /\ DOMAIN x = Fields
    <3>1. PICK a \in DOMAIN b.asset, p \in BdPages : x = [b EXCEPT !.body[a][p].asset = "hand"]
      BY DEF BodyEdits
    <3> QED
      BY <1>4, <3>1
  <2>1. CASE kind = "body"
    <3>1. d \in BodyEdits(b)
      BY <2>1 DEF HandEdits
    <3> QED
      BY <1>4, <2>a, <3>1
  <2>2. CASE kind = "hashed body"
    <3>1. d \in HashedBodyEdits(b)
      BY <2>2 DEF HandEdits
    <3>2. PICK x \in BodyEdits(b) : d = [x EXCEPT !.sum = x.body]
      BY <3>1 DEF HashedBodyEdits
    <3> QED
      BY <1>4, <2>a, <3>2
  <2>3. CASE kind = "hash"
    <3>0. d \in HashEdits(b)
      BY <2>3 DEF HandEdits
    <3>1. CASE \E a \in DOMAIN b.asset, v \in BdVersions : d = [b EXCEPT !.asset[a] = v]
      <4> PICK a \in DOMAIN b.asset, v \in BdVersions : d = [b EXCEPT !.asset[a] = v]
        BY <3>1
      <4>1. d.asset = [b.asset EXCEPT ![a] = v] /\ d.named = b.named /\ DOMAIN d = Fields
        BY <1>4
      <4>2. [b.asset EXCEPT ![a] = v] \in AssetFiles
        BY <1>4 DEF AssetFiles
      <4> QED
        BY <1>4, <4>1, <4>2
    <3>2. CASE \E p \in BdPages, v \in BdVersions : d = [b EXCEPT !.block[p] = v]
      <4> PICK p \in BdPages, v \in BdVersions : d = [b EXCEPT !.block[p] = v]
        BY <3>2
      <4> QED
        BY <1>4
    <3> QED
      BY <3>0, <3>1, <3>2 DEF HashEdits
  <2>4. CASE kind = "record"
    <3>0. d \in RecordEdits(b)
      BY <2>4 DEF HandEdits
    <3>1. PICK a \in DOMAIN b.asset :
             d = [b EXCEPT !.asset = [x \in DOMAIN b.asset \ {a} |-> b.asset[x]]]
      BY <3>0 DEF RecordEdits
    <3>2. /\ d.asset = [x \in DOMAIN b.asset \ {a} |-> b.asset[x]]
          /\ d.named = b.named /\ DOMAIN d = Fields
      BY <1>4, <3>1
    <3>3. [x \in DOMAIN b.asset \ {a} |-> b.asset[x]] \in AssetFiles
      <4> DEFINE f == [x \in DOMAIN b.asset \ {a} |-> b.asset[x]]
      <4>1. DOMAIN b.asset \subseteq BdAssets /\ \A x \in DOMAIN b.asset : b.asset[x] \in BdVersions
        BY <1>4 DEF AssetFiles
      <4>2. DOMAIN f = DOMAIN b.asset \ {a} /\ f = [x \in DOMAIN f |-> f[x]]
        OBVIOUS
      <4>3. \A x \in DOMAIN f : f[x] = b.asset[x]
        OBVIOUS
      <4> HIDE DEF f
      <4>4. f \in AssetFiles
        BY <1>1, <4>1, <4>2, <4>3
      <4> QED
        BY <4>4 DEF f
    <3> QED
      BY <1>4, <3>2, <3>3
  <2>5. CASE kind = "reference"
    <3>1. PICK r \in BdRefs, n \in BdPages \cup {"none"} : d = [b EXCEPT !.named[r] = n]
      BY <1>4, <2>5 DEF HandEdits, ReferenceEdits
    <3>2. d.named = [b.named EXCEPT ![r] = n] /\ d.asset = b.asset /\ DOMAIN d = Fields
      BY <1>4, <3>1
    <3>3. [b.named EXCEPT ![r] = n] \in [BdRefs -> BdPages \cup {"none"}]
      BY <1>4
    <3> QED
      BY <1>4, <3>2, <3>3
  <2>6. CASE kind = "command"
    <3>1. PICK p \in BdPages : d = [b EXCEPT !.command[p] = "hand"]
      BY <1>4, <2>6 DEF HandEdits, CommandEdits
    <3> QED
      BY <1>4, <3>1
  <2> QED
    BY <2>1, <2>2, <2>3, <2>4, <2>5, <2>6 DEF HandKinds
<1> HIDE DEF Typed
<1>5. BdInv /\ Files /\ [BdNext]_bdVars => Files'
  <2> SUFFICES ASSUME BdInv, Files, [BdNext]_bdVars PROVE Files'
    OBVIOUS
  <2>0. /\ assetFile = [a \in DOMAIN assetFile |-> assetFile[a]]
        /\ DOMAIN assetFile \subseteq BdAssets
        /\ \A a \in DOMAIN assetFile : assetFile[a] \in BdVersions
    BY <1>1 DEF BdInv
  <2>1. CASE EditAsset
    <3> PICK a \in BdAssets, v \in BdVersions :
           assetFile' = [b \in DOMAIN assetFile \cup {a} |-> IF b = a THEN v ELSE assetFile[b]]
      BY <2>1 DEF EditAsset
    <3> DEFINE f == [b \in DOMAIN assetFile \cup {a} |-> IF b = a THEN v ELSE assetFile[b]]
    <3>1. f \in AssetFiles
      BY <1>1, <2>0
    <3> QED
      BY <2>1, <3>1 DEF EditAsset
  <2>2. CASE RemoveAsset
    <3> PICK a \in DOMAIN assetFile :
           assetFile' = [b \in DOMAIN assetFile \ {a} |-> assetFile[b]]
      BY <2>2 DEF RemoveAsset
    <3> DEFINE f == [b \in DOMAIN assetFile \ {a} |-> assetFile[b]]
    <3>1. f \in AssetFiles
      BY <1>1, <2>0
    <3> QED
      BY <2>2, <3>1 DEF RemoveAsset
  <2>3. CASE EditPage
    BY <2>3 DEF EditPage
  <2>4. CASE EditBindings
    <3> PICK b \in bindings, kind \in HandKinds :
           /\ \E d \in HandEdits(b, kind) : bindings' = {d}
           /\ hand' = hand \cup {kind}
      BY <2>4 DEF EditBindings
    <3> PICK d \in HandEdits(b, kind) : bindings' = {d}
      OBVIOUS
    <3>1. Typed(d)
      BY <1>4
    <3> QED
      BY <2>4, <3>1 DEF EditBindings
  <2>5. CASE LoseBindings
    BY <2>5 DEF LoseBindings
  <2>6. CASE RefreshBindings
    <3>1. Typed(Document)
      BY <1>3
    <3> HIDE DEF Typed
    <3> QED
      BY <2>6, <3>1 DEF RefreshBindings
  <2>7. CASE UNCHANGED bdVars
    BY <2>7 DEF bdVars
  <2> QED
    BY <2>1, <2>2, <2>3, <2>4, <2>5, <2>6, <2>7 DEF BdNext
<1>6. BdInv /\ Files => BdTypeOK
  <2> SUFFICES ASSUME BdInv, Files PROVE BdTypeOK
    OBVIOUS
  <2>1. Cardinality(bindings) \in 0..1
    BY AtMostOne
  <2> QED
    BY <2>1 DEF BdTypeOK, Typed
<1>7. BdInit => BdInv
  BY DEF BdInit, BdInv
<1> QED
  BY <1>2, <1>5, <1>6, <1>7, BdStepInv, PTL DEF BdSpec

----------------------------------------------------------------------------
(* Runtime probe.  First the course of the script: which verdicts there    *)
(* are, and what the files say.                                            *)

CliTypes ==
    /\ crun \in Nat
    /\ cpc \in {"off", "probe", "wait", "results", "summary", "exit"}
    /\ case \in Nat /\ before \in Nat
    /\ inflight \subseteq Nat /\ captures \in Seq(Nat)
    /\ verdicts \in Seq(BOOLEAN)

ScriptCourse ==
    /\ cpc \in {"probe", "wait"} => case \in 1..Len(CliCases) /\ Len(verdicts) = case - 1
    /\ cpc \in {"results", "summary", "exit"} => Len(verdicts) = Len(CliCases)
    /\ cpc \in {"summary", "exit"} => results = [run |-> crun, ok |-> AllPassed]
    /\ cpc = "exit" => summaryJson = [run |-> crun, ok |-> AllPassed]
    /\ exitCode = 0 => cpc = "off"

CourseInv == CliTypes /\ ScriptCourse /\ ExitZeroIsThisRun

LEMMA CliCasesKnown ==
    /\ Len(CliCases) \in Nat \ {0}
    /\ \A i \in 1..Len(CliCases) : CliCases[i].requests \in {0, 1}
<1>1. CliCases \in Seq([exit : Nat, requests : {0, 1}]) /\ CliCases # <<>>
  BY CliAssumption
<1>2. Len(CliCases) \in Nat /\ Len(CliCases) # 0
  BY <1>1, EmptySeq
<1>3. \A i \in 1..Len(CliCases) : CliCases[i] \in [exit : Nat, requests : {0, 1}]
  BY <1>1, ElementOfSeq
<1> QED
  BY <1>2, <1>3

LEMMA CourseStep == CourseInv /\ [CliNext]_cliVars => CourseInv'
<1> SUFFICES ASSUME CourseInv, [CliNext]_cliVars PROVE CourseInv'
  OBVIOUS
<1> USE CliCasesKnown DEF CourseInv, CliTypes, ScriptCourse, ExitZeroIsThisRun
<1>1. CASE StartScript
  BY <1>1 DEF StartScript
<1>2. CASE StartProbe
  BY <1>2 DEF StartProbe, serverVars, outputVars
<1>3. CASE JudgeProbe
  <2>1. PICK v \in BOOLEAN : verdicts' = Append(verdicts, v)
    BY <1>3 DEF JudgeProbe
  <2>2. verdicts' \in Seq(BOOLEAN) /\ Len(verdicts') = Len(verdicts) + 1
    BY <2>1
  <2> QED
    BY <1>3, <2>2 DEF JudgeProbe, serverVars, outputVars
<1>4. CASE ProbeTimeout
  BY <1>4 DEF ProbeTimeout, serverVars, outputVars, AllPassed
<1>5. CASE WriteResults
  <2>1. AllPassed' = AllPassed
    BY <1>5 DEF WriteResults, AllPassed
  <2> QED
    BY <1>5, <2>1 DEF WriteResults, serverVars
<1>6. CASE WriteSummary
  <2>1. AllPassed' = AllPassed
    BY <1>6 DEF WriteSummary, AllPassed
  <2> QED
    BY <1>6, <2>1 DEF WriteSummary, serverVars
<1>7. CASE ExitScript
  <2>1. AllPassed' = AllPassed
    BY <1>7 DEF ExitScript, AllPassed
  <2>2. summaryJson.ok => AllPassed /\ results = [run |-> crun, ok |-> TRUE]
                                    /\ summaryJson = [run |-> crun, ok |-> TRUE]
    BY <1>7 DEF ExitScript, AllPassed
  <2> QED
    BY <1>7, <2>1, <2>2 DEF ExitScript, serverVars
<1>8. CASE KillScript
  BY <1>8 DEF KillScript, serverVars, outputVars, AllPassed
<1>9. CASE CliSends
  <2>1. AllPassed' = AllPassed
    BY <1>9 DEF CliSends, AllPassed
  <2> QED
    BY <1>9, <2>1 DEF CliSends, outputVars
<1>10. CASE CliExitsNow
  <2>1. AllPassed' = AllPassed
    BY <1>10 DEF CliExitsNow, AllPassed
  <2> QED
    BY <1>10, <2>1 DEF CliExitsNow, serverVars, outputVars
<1>11. CASE HandleRequest
  <2>1. AllPassed' = AllPassed
    BY <1>11 DEF HandleRequest, AllPassed
  <2>2. captures' \in Seq(Nat)
    BY <1>11 DEF HandleRequest
  <2> QED
    BY <1>11, <2>1, <2>2 DEF HandleRequest, outputVars
<1>12. CASE CliStrays
  <2>1. AllPassed' = AllPassed
    BY <1>12 DEF CliStrays, AllPassed
  <2> QED
    BY <1>12, <2>1 DEF CliStrays, serverVars, outputVars
<1>13. CASE UNCHANGED cliVars
  <2>1. AllPassed' = AllPassed
    BY <1>13 DEF cliVars, AllPassed
  <2> QED
    BY <1>13, <2>1 DEF cliVars
<1> QED
  BY <1>1, <1>2, <1>3, <1>4, <1>5, <1>6, <1>7, <1>8, <1>9, <1>10, <1>11, <1>12, <1>13 DEF CliNext

(* validate_cli_runtime.py: exit code 0 is of a run that has left its own  *)
(* files, with every probe passed, for any probes and any number of runs   *)
(* that hung or were killed before.                                        *)
THEOREM ZeroIsThisRun == CliSpec => []ExitZeroIsThisRun
<1>1. CliInit => CourseInv
  BY CliCasesKnown DEF CliInit, CourseInv, CliTypes, ScriptCourse, ExitZeroIsThisRun
<1>2. CourseInv => ExitZeroIsThisRun
  BY DEF CourseInv
<1> QED
  BY <1>1, <1>2, CourseStep, PTL DEF CliSpec

(* As long as every CLI waited for its answer, what is in flight is the    *)
(* present probe's, and what was captured since it started is too.         *)
ProbeCourse ==
    /\ sentBy \subseteq 1..case /\ hasty \subseteq sentBy /\ strays \subseteq 1..case
    /\ cpc \in {"probe", "results", "summary", "exit"} => cli = "none"
    /\ cpc = "off" => cli = "none"
    /\ cpc = "wait" => cli \in {"running", "waiting", "exited"}
    /\ cpc = "probe" => case \notin sentBy
    /\ cli = "waiting" => case \in sentBy
    /\ hasty = {} /\ cpc # "off" => inflight = IF cli = "waiting" THEN {case} ELSE {}
    /\ hasty = {} /\ cpc = "wait" =>
          Len(captures) = before + (IF case \in sentBy /\ cli # "waiting" THEN 1 ELSE 0)

(* What the property says of the requests that are captured. *)
SentRight ==
    \A i \in DOMAIN verdicts :
        verdicts[i] /\ (\A j \in hasty : j > i) =>
            (CliCases[i].requests = 1) <=> (i \in sentBy)

ProbeInv == CourseInv /\ ProbeCourse /\ SentRight

LEMMA ProbeStep == ProbeInv /\ [CliNext]_cliVars => ProbeInv'
<1> SUFFICES ASSUME ProbeInv, [CliNext]_cliVars PROVE ProbeInv'
  OBVIOUS
<1>0. CourseInv /\ CourseInv'
  BY CourseStep DEF ProbeInv
<1>a. /\ cpc \in {"off", "probe", "wait", "results", "summary", "exit"}
      /\ cpc \in {"probe", "wait"} => case \in 1..Len(CliCases) /\ Len(verdicts) = case - 1
      /\ case \in Nat /\ before \in Nat /\ Len(captures) \in Nat /\ Len(CliCases) \in Nat
      /\ DOMAIN verdicts = 1..Len(verdicts)
  BY <1>0, CliCasesKnown DEF CourseInv, CliTypes, ScriptCourse
<1> SUFFICES ProbeCourse' /\ SentRight'
  BY <1>0 DEF ProbeInv
<1> USE <1>a DEF ProbeInv, ProbeCourse, SentRight
<1>1. CASE StartScript
  BY <1>1 DEF StartScript
<1>2. CASE StartProbe
  BY <1>2 DEF StartProbe, serverVars, outputVars
<1>3. CASE JudgeProbe
  <2>1. ProbeCourse'
    BY <1>3 DEF JudgeProbe, serverVars, outputVars
  <2>2. PICK v \in {cliExit = CliCases[case].exit /\ ProbeRequests = CliCases[case].requests, FALSE} :
            verdicts' = Append(verdicts, v)
    BY <1>3 DEF JudgeProbe
  <2>3. /\ DOMAIN verdicts' = 1..case /\ verdicts'[case] = v
        /\ \A i \in 1..(case - 1) : verdicts'[i] = verdicts[i]
    BY <1>0, <1>3, <2>2 DEF CourseInv, CliTypes, JudgeProbe
  <2>4. ASSUME v, \A j \in hasty : j > case
        PROVE  CliCases[case].requests = 1 <=> case \in sentBy
    <3>1. hasty = {}
      BY <2>4
    <3>2. ProbeRequests = CliCases[case].requests
      BY <2>2, <2>4, Zenon
    <3>3. Len(captures) - before = IF case \in sentBy THEN 1 ELSE 0
      BY <1>3, <3>1 DEF JudgeProbe
    <3> QED
      BY <3>2, <3>3 DEF ProbeRequests
  <2>5. SentRight'
    BY <1>3, <2>3, <2>4 DEF JudgeProbe, serverVars
  <2> QED
    BY <2>1, <2>5
<1>4. CASE ProbeTimeout
  BY <1>4 DEF ProbeTimeout, serverVars, outputVars
<1>5. CASE WriteResults
  BY <1>5 DEF WriteResults, serverVars
<1>6. CASE WriteSummary
  BY <1>6 DEF WriteSummary, serverVars
<1>7. CASE ExitScript
  BY <1>7 DEF ExitScript, serverVars
<1>8. CASE KillScript
  BY <1>8 DEF KillScript, serverVars, outputVars
<1>9. CASE CliSends
  <2>1. cpc = "wait"
    BY <1>9 DEF CliSends
  <2>2. ProbeCourse'
    <3>1. /\ sentBy' = sentBy \cup {case} /\ inflight' = inflight \cup {case}
          /\ cli = "running" /\ case \notin sentBy
          /\ UNCHANGED <<cpc, case, before, captures, strays>>
      BY <1>9 DEF CliSends
    <3>2. CASE cli' = "waiting" /\ hasty' = hasty
      BY <2>1, <3>1, <3>2
    <3>3. CASE cli' = cli /\ hasty' = hasty \cup {case}
      BY <2>1, <3>1, <3>3
    <3> QED
      BY <1>9, <3>2, <3>3 DEF CliSends
  <2>3. SentRight'
    BY <1>9, <2>1 DEF CliSends, outputVars
  <2> QED
    BY <2>2, <2>3
<1>10. CASE CliExitsNow
  BY <1>10 DEF CliExitsNow, serverVars, outputVars
<1>11. CASE HandleRequest
  <2>1. PICK c \in inflight : /\ captures' = Append(captures, c)
                              /\ inflight' = inflight \ {c}
                              /\ cli' = IF cli = "waiting" /\ c = case THEN "running" ELSE cli
    BY <1>11 DEF HandleRequest
  <2>2. Len(captures') = Len(captures) + 1
    BY <1>0, <2>1 DEF CourseInv, CliTypes
  <2>3. ProbeCourse'
    BY <1>11, <2>1, <2>2 DEF HandleRequest, outputVars
  <2>4. SentRight'
    BY <1>11 DEF HandleRequest, outputVars
  <2> QED
    BY <2>3, <2>4
<1>12. CASE CliStrays
  BY <1>12 DEF CliStrays, serverVars, outputVars
<1>13. CASE UNCHANGED cliVars
  BY <1>13 DEF cliVars
<1> QED
  BY <1>1, <1>2, <1>3, <1>4, <1>5, <1>6, <1>7, <1>8, <1>9, <1>10, <1>11, <1>12, <1>13 DEF CliNext

(* validate_cli_runtime.py probe: as long as every CLI waited for its      *)
(* answer, a probe that passed with a request captured sent it itself, and *)
(* one that passed with none sent at most what the server does not capture *)
(* (another method, a body that is not JSON), for any probes in any        *)
(* number, although server and CLI run side by side.                       *)
THEOREM ProbeSentAsExpected == CliSpec => []PassedProbeSentAsExpected
<1>1. CliInit => ProbeInv
  BY CliCasesKnown DEF CliInit, ProbeInv, CourseInv, CliTypes, ScriptCourse, ExitZeroIsThisRun,
        ProbeCourse, SentRight
<1>2. ProbeInv => PassedProbeSentAsExpected
  <2> SUFFICES ASSUME ProbeInv, NEW i \in DOMAIN verdicts, verdicts[i], \A j \in hasty : j > i
               PROVE  IF CliCases[i].requests = 1 THEN "captured" \in Sent(i)
                                                  ELSE Sent(i) \subseteq {"stray"}
    BY DEF PassedProbeSentAsExpected
  <2>1. (CliCases[i].requests = 1) <=> (i \in sentBy)
    BY DEF ProbeInv, SentRight
  <2> QED
    BY <2>1 DEF Sent
<1> QED
  BY <1>1, <1>2, ProbeStep, PTL DEF CliSpec

(* A CLI sends once, so that what was captured and what is in flight are   *)
(* as many requests as CLIs have sent: that bounds the captures.           *)
CliBounds ==
    /\ crun \in 0..CliRuns /\ case \in 0..Len(CliCases) /\ before \in 0..Len(CliCases)
    /\ captures \in Seq(1..Len(CliCases))
    /\ cliExit \in CliExits
    /\ results \in [run : 0..CliRuns, ok : BOOLEAN]
    /\ summaryJson \in [run : 0..CliRuns, ok : BOOLEAN]
    /\ exitCode \in {0, 1}
    /\ inflight \subseteq sentBy
    /\ Len(captures) + Cardinality(inflight) = Cardinality(sentBy)

LEMMA SentAreFew ==
    ASSUME ProbeInv, CliBounds
    PROVE  /\ sentBy \subseteq 1..Len(CliCases)
           /\ IsFiniteSet(sentBy) /\ IsFiniteSet(inflight)
           /\ Cardinality(sentBy) \in 0..Len(CliCases) /\ Cardinality(inflight) \in Nat
           /\ Len(captures) \in 0..Len(CliCases)
<1>1. Len(CliCases) \in Nat /\ Len(captures) \in Nat
  BY CliCasesKnown DEF CliBounds
<1>2. sentBy \subseteq 1..Len(CliCases)
  BY <1>1 DEF ProbeInv, ProbeCourse, CliBounds
<1>3. IsFiniteSet(1..Len(CliCases)) /\ Cardinality(1..Len(CliCases)) = Len(CliCases)
  <2>1. 1 \in Int /\ Len(CliCases) \in Int
    BY <1>1
  <2>2. /\ IsFiniteSet(1..Len(CliCases))
        /\ Cardinality(1..Len(CliCases)) = IF 1 > Len(CliCases) THEN 0 ELSE Len(CliCases) - 1 + 1
    BY ONLY <2>1, FS_Interval, Zenon
  <2> QED
    BY <1>1, <2>2
<1>4. IsFiniteSet(sentBy) /\ Cardinality(sentBy) <= Len(CliCases) /\ IsFiniteSet(inflight)
  BY <1>2, <1>3, FS_Subset DEF CliBounds
<1>5. Cardinality(sentBy) \in Nat /\ Cardinality(inflight) \in Nat
  BY <1>4, FS_CardinalityType
<1> QED
  BY <1>1, <1>2, <1>4, <1>5 DEF CliBounds

LEMMA CliTypeCorrect == CliSpec => []CliTypeOK
<1>1. CliInit => ProbeInv /\ CliBounds
  <2> SUFFICES ASSUME CliInit PROVE ProbeInv /\ CliBounds
    OBVIOUS
  <2>1. ProbeInv
    BY CliCasesKnown DEF CliInit, ProbeInv, CourseInv, CliTypes, ScriptCourse, ExitZeroIsThisRun,
       ProbeCourse, SentRight
  <2>2. Cardinality(sentBy) = 0 /\ Cardinality(inflight) = 0
    BY FS_EmptySet DEF CliInit
  <2> QED
    BY <2>1, <2>2, CliCasesKnown, CliAssumption DEF CliInit, CliBounds, CliExits
<1>2. ProbeInv /\ CliBounds /\ [CliNext]_cliVars => CliBounds'
  <2> SUFFICES ASSUME ProbeInv, CliBounds, [CliNext]_cliVars PROVE CliBounds'
    OBVIOUS
  <2>0. /\ Len(CliCases) \in Nat \ {0} /\ CliRuns \in Nat
        /\ Len(captures) \in 0..Len(CliCases) /\ IsFiniteSet(sentBy) /\ IsFiniteSet(inflight)
    BY SentAreFew, CliCasesKnown, CliAssumption
  <2> USE <2>0 DEF CliBounds
  <2>1. CASE StartScript
    <3>1. Cardinality(sentBy') = 0 /\ Cardinality(inflight') = 0
      BY <2>1, FS_EmptySet DEF StartScript
    <3> QED
      BY <2>1, <3>1 DEF StartScript
  <2>2. CASE StartProbe
    BY <2>2 DEF StartProbe, serverVars, outputVars
  <2>3. CASE JudgeProbe
    <3>1. case' \in 0..Len(CliCases)
      BY <2>3 DEF JudgeProbe
    <3> QED
      BY <2>3, <3>1 DEF JudgeProbe, serverVars, outputVars
  <2>4. CASE ProbeTimeout
    BY <2>4 DEF ProbeTimeout, serverVars, outputVars
  <2>5. CASE WriteResults
    BY <2>5 DEF WriteResults, serverVars, AllPassed
  <2>6. CASE WriteSummary
    BY <2>6 DEF WriteSummary, serverVars, AllPassed
  <2>7. CASE ExitScript
    BY <2>7 DEF ExitScript, serverVars
  <2>8. CASE KillScript
    BY <2>8 DEF KillScript, serverVars, outputVars
  <2>9. CASE CliSends
    <3>1. /\ case \notin sentBy /\ case \notin inflight
          /\ sentBy' = sentBy \cup {case} /\ inflight' = inflight \cup {case}
          /\ captures' = captures
      BY <2>9 DEF CliSends
    <3>2. Cardinality(sentBy') = Cardinality(sentBy) + 1 /\ Cardinality(inflight') = Cardinality(inflight) + 1
      BY <3>1, FS_AddElement
    <3>3. Cardinality(sentBy) \in Nat /\ Cardinality(inflight) \in Nat
      BY FS_CardinalityType
    <3> QED
      BY <2>9, <3>1, <3>2, <3>3 DEF CliSends, outputVars
  <2>10. CASE CliExitsNow
    BY <2>10 DEF CliExitsNow, serverVars, outputVars
  <2>11. CASE HandleRequest
    <3> PICK c \in inflight : captures' = Append(captures, c) /\ inflight' = inflight \ {c}
      BY <2>11 DEF HandleRequest
    <3>1. c \in 1..Len(CliCases)
      BY SentAreFew
    <3>2. captures' \in Seq(1..Len(CliCases)) /\ Len(captures') = Len(captures) + 1
      BY <3>1
    <3>3. Cardinality(inflight') = Cardinality(inflight) - 1
      BY FS_RemoveElement
    <3>4. Cardinality(inflight) \in Nat
      BY FS_CardinalityType
    <3> QED
      BY <2>11, <3>2, <3>3, <3>4 DEF HandleRequest, outputVars
  <2>12. CASE CliStrays
    BY <2>12 DEF CliStrays, serverVars, outputVars
  <2>13. CASE UNCHANGED cliVars
    BY <2>13 DEF cliVars
  <2> QED
    BY <2>1, <2>2, <2>3, <2>4, <2>5, <2>6, <2>7, <2>8, <2>9, <2>10, <2>11, <2>12, <2>13 DEF CliNext
<1>3. ProbeInv /\ CliBounds => CliTypeOK
  BY SentAreFew DEF ProbeInv, ProbeCourse, CourseInv, CliTypes, CliBounds, CliTypeOK
<1> QED
  BY <1>1, <1>2, <1>3, ProbeStep, PTL DEF CliSpec

----------------------------------------------------------------------------
(* The seven parts side by side.  A behaviour of MCTools is a behaviour of *)
(* each part, in which the steps of the others are stutters: what is       *)
(* proved of a part for its own specification holds there.                 *)
THEOREM PartsAreIndependent ==
    MCSpec => EvSpec /\ CliSpec /\ BdSpec /\ LabSpec /\ AnSpec /\ QsSpec /\ TlSpec
<1>1. MCInit => EvInit /\ CliInit /\ BdInit /\ LabInit /\ AnInit /\ QsInit /\ TlInit
  BY DEF MCInit
<1>2. [MCNext]_<<part, toolVars, labsVars>> =>
         [EvNext]_evVars /\ [CliNext]_cliVars /\ [BdNext]_bdVars
  BY DEF MCNext, toolVars, labsVars
<1>3. [MCNext]_<<part, toolVars, labsVars>> =>
         [LabNext]_labVars /\ [AnNext]_anVars /\ [QsNext]_qsVars /\ [TlNext]_tlVars
  BY DEF MCNext, toolVars, labsVars
<1> QED
  BY <1>1, <1>2, <1>3, PTL
     DEF MCSpec, EvSpec, CliSpec, BdSpec, LabSpec, AnSpec, QsSpec, TlSpec

(* Every reachable state of the seven parts is well typed, for any         *)
(* outcomes, probes, assets, tabs and bounds.                              *)
THEOREM ToolsTypeCorrect == MCSpec => []ToolsTypeOK
<1>1. AnInv => AnTypeOK
  BY DEF AnInv
<1>2. TlInv => TlTypeOK
  BY DEF TlInv
<1>3. EvTypeOK /\ CliTypeOK /\ BdTypeOK /\ LabTypeOK /\ AnTypeOK /\ QsTypeOK /\ TlTypeOK => ToolsTypeOK
  BY DEF ToolsTypeOK
<1> QED
  BY <1>1, <1>2, <1>3, PartsAreIndependent, EvTypeCorrect, CliTypeCorrect, BdTypeCorrect,
     LabTypeCorrect, AnInvariant, QsTypeCorrect, TlInvariant, PTL

(* What the run of MCTools checks of its small instance holds of any.      *)
THEOREM ToolsAreCorrect ==
    MCSpec => [](/\ PublishedPassIsReal /\ PassedProbeSentAsExpected /\ ExitZeroIsThisRun
                 /\ LoadedIsCurrent /\ PassedStrictIsOrdered /\ PassedWereHeld
                 /\ CollectorsHaveConsent /\ PassedTrafficIsOwn /\ LeftAsFound
                 /\ PassedProbeMetTheHolder)
BY PartsAreIndependent, AcceptedPassIsReal, ProbeSentAsExpected, ZeroIsThisRun,
   AcceptedBindingsAreCurrent, StrictIsOrdered, HeldUntilReleased, ConsentHolds, TrafficIsOwn,
   SettingLeftAsFound, ProbeMetTheHolder, PTL
=============================================================================
