# Verification of the LoxiLB inference gateway documentation tooling

The repository documents the LoxiLB inference gateway. Its program is not the
gateway (that is another repository) but what keeps the documentation true: tools
that freeze the API contract of a Gateway commit and check every published example
against it, workflows that run those tools, packagers and validators of evidence,
and fixtures that a reader runs to obtain that evidence. This directory holds TLA+
models of that program, TLC configurations that check them on small instances, and
proofs, checked by TLAPS, that what matters most holds for every instance.

- [Inventory](#inventory): the components, their state, how they interact, what is hard
- [Modules](#modules): what each module models, and its correspondence with the code
- [Runs](#runs): what each run checks, its bounds and the fairness it assumes
- [Theorems](#theorems): what is proved, from which assumptions, along which argument
- [Disagreements](#disagreements-between-texts-and-code) and [observations](#observations-without-a-run)
- [What is not modelled](#what-is-not-modelled) and the [plan](#plan)

To repeat a check: `tlc -config MCDriftGate.cfg MCContractDrift`; to repeat a
proof: `tlapm ContractDriftProofs.tla`. `PROJECT.json` lists every run with its
properties, and for each property one mutated form of a definition under which TLC
finds it violated; `PROJECT.json` "map" names the source lines of each definition.

## Inventory

### Contracts and checks of the documentation

| Component | State | Operations |
|---|---|---|
| Contract freezing, `tools/refresh_example_contracts.py`, `compare_gateway_contracts.py` | `gateway-api.json`, `cli.json`, each frozen from one commit | build a contract from `git show`, write one or both files, compare two contracts |
| Reference pages, `tools/render_metrics_reference.py`, `render_schema_reference.py` | `docs/reference/metrics.md`, `api-schema-models.md` | render from a contract, `--check` |
| Example inventory, `tools/refresh_example_inventory.py` | `example-inventory.json` | scan the pages, classify each block, write, `--check` |
| Example validator, `tools/validate_examples.py` | none | read blocks and commands, compare them with contracts and inventory |
| Coverage ledger, body bindings, `tools/refresh_coverage_ledger.py`, `refresh_body_bindings.py` | one generated file each | generate, `--check`, look a file body up |
| Documentation gate, `tools/validate_gateway_docs.py` | none | the whole static gate by hand |
| Contract drift workflow, `.github/workflows/gateway-contract-drift.yml` | runs, their resolved commits, outcomes of steps | check out, freeze a candidate, four checks, gate; cancel the run in progress |
| CI, deploy and secret-scan workflows | the published site | jobs per push, pull request and tag |

They interact through files. A contract is the input of both renderers, of the
ledger and of the validator; the pages are the input of the inventory, the ledger
and the bindings. Each generated file can be stale against each of its inputs, and
no single job compares all of them: what a green tree means follows from the
combination of the jobs, which is what `DocsChecks` and `ContractDrift` are about.
*Hard:* inputs that move while a run reads them (the Gateway's main branch, pushes,
runs that cancel each other), steps that fail without ending the job, files
refreshed one at a time. *Correct when* a passed run vouches for one triple of
commits, a failed one has a reason that the gate by hand reproduces, the newest
commit gets its verdict, and an inventory that is accepted is the inventory of the
pages as they are.

### Evidence

| Component | State | Operations |
|---|---|---|
| Receipt collectors, `receipt-collector.py`, `receipt-proxy.py` | `receipts.jsonl`; a thread, a client and an upstream connection per request | relay a request, hash what passes, append a receipt, answer |
| Download packager, `tools/package_model_engine_examples.py` | a source tree; `SHA256SUMS` and the ZIP | build (validate, read twice, publish both), `--check` |
| Model-engine evidence validator, existing-profile verifiers and input validator | none | reconcile published results with raw requests and receipts |
| CLI runtime probe, response contract validator | captured requests, results | run the CLI against a loopback server, compare with expectations |

*Hard:* threads that relay while clients give up and engines die, a ledger that is
read while it is written, a tree that is edited while it is packaged, builds that
overlap or are killed between two renames. *Correct when* a receipt and an answer
never contradict each other, no request is lost from the ledger, and a published
download is one state of the tree or is reported as failed.

### Fixtures and the site

| Component | State | Operations |
|---|---|---|
| TLS lab, `tls-lab.go` | receipt file, gate file, held requests | serve, hold, send a pair of requests around a gate |
| Endpoint-picker harness, `run.sh`, `rule.sh` | the rule on VIP:PORT, log level and replicas of the picker | verify and benchmark commands that change and restore them |
| Hold backend, `backend.py` | receipts, order, released names under one condition | hold, release, count |
| Quickstart, `receipt-backend.py` and its steps | receipt log and its copy, the metrics setting | count receipts, save and restore the setting |
| Metric delta, `metric-delta.py` | none | compare two scrapes |
| Site scripts, `analytics.js`, `legacy-anchors.js` | the stored choice, the page | start and stop collection; forward an anchor |

*Hard:* interruption between a change and its restoration, steps repeated after a
failure, timeouts shorter than a hold, tabs that share one stored choice.
*Correct when* what a command changed is as it was afterwards, and a count or a
measurement is attributed to the case that caused it.

Every component is listed with its status in `PROJECT.json`, and the hazards at
their lines, each with the property that would catch it or the reason why none does.

## Modules

| Module | Models | Runs and proofs |
|---|---|---|
| `ModelEnginePackage` | the download packager | `MCModelEnginePackage`, `ModelEnginePackageProofs` |
| `SnapshotPublisher` | what the packager promises (abstract) | refined by `ModelEnginePackage` |
| `ReceiptCollector` | both receipt collectors, their clients and engines | `MCReceiptCollector`, `ReceiptCollectorProofs` |
| `ReceiptLog` | what a collector promises its clients and its log (abstract) | refined by `ReceiptCollector` |
| `ResultExport` | what becomes of the proxy's ledger: an export and its three verifiers | `MCResultExport`, `ResultExportProofs` |
| `DocsChecks` | contracts, generated files and the checks, as predicates of a tree | used by `ContractDrift` |
| `ContractDrift` | the drift workflow, maintainers and the moving Gateway branch | `MCContractDrift`, `ContractDriftProofs` |
| `GateVerdicts` | what the workflow promises: one run at a time, judged as the gate by hand would (abstract) | refined by `ContractDrift` |
| `ExampleCommands` | how the validator reads blocks and commands | used by `ExampleInventory` |
| `ExampleInventory` | the inventory, its refresh and its validation | `MCExampleInventory`, `ExampleInventoryProofs` |
| `EppHarness` | the endpoint-picker harness and the operator's rule script | `MCEppHarness`, `EppHarnessProofs` |
| `EvidencePublication` | the model-engine evidence gate over files edited by hand | `MCTools`, `ToolProofs` |
| `CliProbe` | the CLI runtime probe | `MCTools`, `ToolProofs` |
| `BodyBindings` | the body bindings | `MCTools`, `ToolProofs` |
| `SchedulingLab` | the hold backend, read by the strict-bands walkthrough | `MCTools`, `LabProofs` |
| `AnalyticsConsent` | the consent script, in several tabs | `MCTools`, `LabProofs` |
| `Quickstart` | the receipt backend, the traffic check and the metrics setting | `MCTools`, `LabProofs` |
| `TlsLab` | the TLS backend and the holder experiment | `MCTools`, `LabProofs` |

`ResultExport` composes with `ReceiptCollector` (it extends it: the exporter works
beside the threads and clients), `ContractDrift` with `DocsChecks`,
`ExampleInventory` with `ExampleCommands`. The last seven share no state, which is
why one MC module holds them, of which a behaviour runs one part.

### ModelEnginePackage

Any number of builds and `--check` runs work on one directory while people edit it.
`files()` lists the directory and reads it file by file (`ScanRead`, `RescanRead`),
so that what an invocation holds need not be any state the directory was in. An
invocation goes `validate` (validate_package, in its own order of files) → `scan` →
for a build `rescan`, `Compare` (line 41), `ReplaceSums` and `ReplaceZip` (two
renames) → for both `CheckSums`, `CheckZip` (lines 47-54). `ReadFails` is a file that
an editor takes away, or replaces by a symlink, while it is read; `Crash` is a kill or
Ctrl-C between any two steps; both lose what the invocation held (`Forget`). A file's
content is a version number; `SHA256SUMS` and the ZIP are the tree they describe,
because the hash and the deterministic ZIP writer are injective here. `MayRevert`
(false in the runs) says whether editors may restore earlier content. The temporary
directory of a build is private and not modelled.

### ReceiptCollector

One thread, one client and one upstream connection per request. `ReadBody`,
`Connect`, `Relay` (read1, hash, write), `EndOfBody`, `UpstreamError`,
`AppendReceipt` (the finally clause) and `Close` are the handler's steps;
`Except` is its except clause. A body is a number of pieces, delimited by a length,
by chunks or by the end of the connection: `http.client` notices a cut only in the
second, so that `EndOfBody` is enabled before the last piece in the other two. `ForwardsLength` selects the
collector: the older one answers over HTTP/1.0, where only the end of the connection
ends a body; the newer forwards the length or chunks, so that a client can have its
whole answer before the receipt is written. `Kill` is Ctrl-C; threads are daemons.
Clients (external) send, read, see the end that HTTP shows them (`SeesEnd`), or give
up at any time. Request identities, the JSON of a receipt and hashing are left out;
`recorded` stands for the hashed bytes.

### DocsChecks and ContractDrift

`DocsChecks` describes a tree of the repository by what its files were generated
from: a contract is a commit with its Swagger, manifest and evidence, a page is what
it was rendered from. Commits and texts are abstract, and constants say which of
their parts are the same. `ValidateExamples`, `Drifted`, `MetricsCurrent`,
`SchemasCurrent`, `CIPasses` and `ValidateGatewayDocs` are the checks as predicates.
`TestsPass` is what the unit tests add to `ci.yml`: the commits of the tracked
contracts are the ones `verification-status.md` (`tuple`) and the tests themselves
(`pins`) name.

`ContractDrift` runs the workflow over such trees. `Start` (by `Push`, `Schedule`,
`Dispatch`) cancels the run in progress (the concurrency group). A run goes
`Checkout` (a ref becomes a commit) → `FreezeCandidate` (with the `cmp` of
`cli.json`) → four `Check` steps with continue-on-error → `Gate`, which runs always
and requires the outcome success of each check. Maintainers refresh one file at a
time, in any order, from the tracked or another contract (`RefreshContracts`,
`RefreshGenerated`, `EditByHand`) and push whatever they have; the Gateway's branch
moves (`GatewayMoves`). Which commands people run, and when, is external.

### ExampleCommands and ExampleInventory

A page is a sequence of lines: an opening fence with or without a language, a
closing fence, a status or workflow marker, a command, headings, plain text.
`MarkdownBlocks` is the scan of `markdown_blocks` with its pairing of fences;
`Hidden`, `Method`, `ManagementRoute` are the reading of a curl command, joined
options such as `--data=` included; `CommandPath` and `PathAfterOptions` are the two
readings of a `loxicmd` command, one of the inventory and one of the validator, and
`CliAccepted` the validator's verdict on its availability (main or release), options
and enum values. `Classify`, `Entry` and `Document` are the inventory, where
`Contracted` searches the text, comments included, as the code does (`Mentions` says
what a line contains); `InventoryErrors` and `Validates` are the validator;
`CIPasses` adds `--check`. Authors insert and delete lines, exclude a page from the
site, or change the status or the mode of an entry by hand (`EditEntry`); `Refresh`
writes the inventory anew. An identity
is the tuple that the code hashes. Wording of an entry, the evidence class, request
bodies, PromQL and shell quoting are left out.

### ResultExport

Beside the threads of `receipt-proxy.py` an exporter (external) retains one row for
each request once its client is done (`ExportRows`), with the receipt the ledger has
by then, and later the ledger itself (`ExportLedger`). A row has what the verifiers
read: status, `timeout`, the client's body, `upstreamPartialResponse` and the receipt.
`IncompleteAccepts`, `ConvergedAccepts` and `SettingsAccept` are
`verify-incomplete-results.py`, `verify-converged.py` and `verify-results.py`. Each
has a predicate of its own for a normal answer (`Normal`): the first wants keywords,
the second does not, the third wants them and a usage within the context, but asks one
profile less for its reasoning. The text of a whole answer is therefore the set of
verifiers that find it normal (`Contents`), and a cut one is normal for none. The
flag that an exporter writes is the one the verifier computes and is left out.
Pieces are numbered, so that equal numbers stand for equal hashes and lengths;
`ErrorPage` is the body of the proxy's own 502. `NativeStatus` is the receipt's
`httpStatus`, which is none where the proxy had no answer from upstream. Counts,
settings, phases, timing and workers are left out.

### EvidencePublication

`EditStatus`, `EditVerdicts`, `EditSummary`, `EditLedger` and `EditPlan` change one of
the four files by hand, in any order and from any of several runs of the traffic;
the summary may be honest, claim more than the run showed, or drop failures from what
was offered, and the ledger may leave records out. `EvidenceAccepted`, `PlanAccepted`
and `PackageAccepted` are the three functions of `validate_model_engine_evidence.py`.
A record is a copy of what client and collector saw; hashes, digests, versions and
identities are left out.

### CliProbe

The script (`StartScript`, `StartProbe`, `JudgeProbe`, `ProbeTimeout`,
`WriteResults`, `WriteSummary`, `ExitScript`, `KillScript`), the server's thread for
each request (`HandleRequest`) and the CLI (external: `CliSends`, `CliStrays`,
`CliExitsNow`), which may send or not, wait for the answer or not, exit with any code
or hang. Only GET, POST and DELETE with a JSON body or none are captured; a stray is a
request with another method (501) or with a body that is not JSON (the handler fails
at its append). A capture belongs to the probe in whose window it is appended, which
need not be the one that sent it. The output directory may hold files of an earlier run.

### BodyBindings

`EditAsset`, `RemoveAsset` and `EditPage` are authors of assets and pages; a page has
any number of blocks that produce its body, of which `document()` wants exactly one.
`EditBindings` is the file edited by hand: a body, a body with its hash, the hash of an
asset or a block, a record taken out, a reference bound to another body or to none, a
command (`HandEdits`); `LoseBindings` deletes it. `RefreshBindings` writes what
`document()` returns, when it returns (`DocumentSucceeds`). `CheckPasses` is `--check`;
`LoadAccepts` and `LoadedBodies` are `load_bound_bodies` for one reference, which looks
only at what was recorded and not at the command. A body is what it was made from: the
asset and the blocks, two for the body of `verify.md`, whose command reads the file that
the producer of `configure.md` makes. A hash is what it is the hash of.

### SchedulingLab

`LabScript` is the strict-bands walkthrough of `scheduling.md` as data, walked by
`Send`, `Release` and `Read`; `LabFails` gives up, `BeginAgain` repeats it with the
same names. The backend counts and orders what arrives (`Arrive`), answers when a
name is released or after 60 seconds (`Reply`), of which a client with its 55 seconds
sees nothing. The Gateway is given no policy at all: requests arrive in any order,
again, or late, so that the conclusion drawn from the counts rests on the backend
alone. `heldTo` is history: of which requests the walkthrough itself ended the hold.
That the client's 55 seconds begin before the backend's 60 is the order in which the
two waits can run out, which is how `Reply` and `ClientFails` have them.

### AnalyticsConsent

`Load`, `Close`, `Choose` and `OpenPanel` per tab, over one stored choice; every read
and write of the storage may be refused. `started` and `disabled` are the script's
variables. Cookies and what is sent to Google are left out.

### Quickstart

Step 5 (`Step5`, `SaveMetrics`, `EnableMetrics`, `CountBefore`, `SendTraffic`,
`ValidateTraffic`) and step 7 (`CleanUp`), pasted into a shell in which a failed
command does not stop the next; step 5 may be repeated, with the same nonce within a
second. `Deliver`, `WriteReceipt`, `HandleUnlogged` and `QsAnswer` are the Gateway
(external) and `receipt-backend.py`, which answers a request without a nonce that it
accepts with the marker and writes no line (line 26).

### TlsLab

`Clear`, `Hold`, `See`, `Probe`, `Look`, `OpenGate` and `TlEnd` are the experiment of
`tls-failures.md`; `HolderArrives` and `HolderAnswered` the two halves of the serve
handler, which holds the request until the gate file exists or 60 seconds passed, and
`HolderGivesUp` the holder's client, after 45 seconds. The probe is sent (`Probe`),
answered (`ProbeAnswered`) and forwarded (`ProbeArrives`) in steps of their own: the
Gateway may answer 429 and forward too, before or after the receipts are looked at. The
receipt file may refuse any line, and the request is handled all the same. The gate may be left from earlier; the
receipts start empty.

### EppHarness

A command (`VerifyPath`, `VerifyDecides`, `VerifyVllm`, `VerifyFailmode`, `Bench`) is
a sequence of steps by `pc`, made of the helpers of `run.sh`: `NeedPods`, `MkRule`,
`DelRule`, `SetLevel`, `ReadReplicas`, `ScaleTo`, `WaitDown`, `WaitUp`, `Measure`. A
call may fail and the command goes on, as the script does; `Interrupt` ends it at any
step and may leave the background loop of verify-vllm running (`orphan`). `Hang` is a
call that does not return: kubectl, guidellm and some calls of curl have no limit, and
`Limited` names the steps without one. The EPP is up, down by the harness, or lost by
itself (`epp`): `SetLevel` patches the Deployment and does not read whether the
rollout ended, `EppLost` takes a pod away at any time. `Reconcile` is the rest of the
cluster, `RuleSh` the operator's `rule.sh`. What is measured is
abstracted to the circumstances of the measurement (`row`); `blame` and `now` record
what went wrong, ever and during the present command.

## Runs
Every run ends by exhausting its state space. Deadlock is checked in `epp_harness`,
where a command can always be given. Elsewhere it is not: each system may stop
(traffic drains, runs and edits are bounded, nothing is left to refresh). All bounds
are constants or sets in the `.cfg` files and MC modules and appear in guards.

| Run | Shows | Bounds, and why they are enough |
|---|---|---|
| `package` | two builds and a `--check`, editors that never restore content, kills: `PublishesOneSnapshot`, `TornDownloadIsReported`, `UndisturbedIsExact`, `ImplementsSnapshotPublisher`, `TypeOK` | two files and three versions of each: a torn read needs two files, an undetected one a file read before and another after an edit, and a third version a second edit between the two reads, which is why there are two edits; a torn download needs two builds with two renames each, and the `--check` may come after a kill between them |
| `package_stale` | violation: an edit after the second read is published stale with PASS | one build, one edit |
| `collector` | the older collector, which may be killed at any time: `ImplementsReceiptLog`, `EveryRequestIsRecorded`, `TypeOK` | two requests share only the ledger; bodies of 0 to 2 pieces: empty, cut and whole |
| `proxy` | the newer, which may be killed at any time, with its export: `ChunkedCompleteIsWhole`, `AnswerAgreesWithReceipt`, `HonestExportIsAccepted`, `AnsweredExportIsAccepted` | two contents: one that two of the verifiers find normal and one for the third; otherwise as before: one request may end normally and the other not, and the kill may cost either its receipt |
| `collector_truncated` | violation: a cut body with a length is recorded as complete | one request |
| `drift_gate` | one run over any tree that four file changes lead to: `PassedIsValid`, `FailedIsInvalid`, `PagesAgreeWithContract`, `LedgerCoversCandidate`, `TypeOK` | three commits, of which one differs in the metric manifest and one in the Swagger files; two texts, of which one is accepted with the last only; four changes are a contract, both pages and the text, or a contract and the ledger with its inventory |
| `drift_runs` | two runs that overlap while both upstreams move: `ImplementsGateVerdicts`, `NewestIsJudged` | a second run is enough to cancel the first; the second commit cannot be classified and the second text moves headings, so that both verdicts occur |
| `drift_green_pages` | violation: a push that ci.yml accepts leaves pages stale that were current | two commits that differ in the Swagger files; four changes: the contract, its ledger and the two places that name its commit |
| `inventory` | two changes by hand of two pages or of the inventory, refreshes in between: `ValidatedIsCurrent`, `VerifiedMutationHasWorkflow`, `RefreshSettles`, `TypeOK` | the quickstart and a page that reads or holds a fragment; a vocabulary with every kind of line; two changes open and close a fence, or move a marker and a command |
| `inventory_label` | violation: a new mutation takes the page's label and ci.yml passes | one new line, before a refresh |
| `epp_harness` | any number of harness invocations, each of which fails or is cut off anywhere: `RestoredUnlessBlamed`, `MeasuredUnderItsRule`, `PickerAsExpected`, `CommandsEnd`, `EppTypeOK` | no bound on invocations; the plans are verify-all in its order, verify-failmode alone and two benchmarks with all three modes; replicas are one or none, so that the number read differs from both 0 and "nothing read"; the EPP may be lost and any call may hang, at any time |
| `tools` | seven parts, one property or two of each (below), and their types `ToolsTypeOK` | below |

The parts of `tools`:

| Part | Properties | Bounds, and why they are enough |
|---|---|---|
| evidence | `PublishedPassIsReal` | two runs, so that matrix, summary and ledger can be of different ones; two main samples, so that a case can be answered whole, in part or never |
| CLI probe | `PassedProbeSentAsExpected`, `ExitZeroIsThisRun` | three probes: refused, served with an error, refused again after a request that may arrive late; strays in any of them; two runs, so that the second meets files of the first |
| bindings | `LoadedIsCurrent` | two names of which one makes a document, so that it can be removed or exchanged and another added; two contents, up to two equal producers; one kind of hand edit at a time, of which each fails only with its own exemption |
| scheduling | `PassedStrictIsOrdered`, `PassedWereHeld` | two walkthroughs over one backend; five arrivals: the three of the present one and two late or repeated |
| consent | `CollectorsHaveConsent` | two tabs: one that withdraws and one that is not aware of it |
| quickstart | `PassedTrafficIsOwn`, `LeftAsFound` | two attempts with or without the same nonce, two deliveries of each request, answers without a line |
| TLS | `PassedProbeMetTheHolder` | one experiment; its state is finite |

Symmetry is used in `package` for builds and in `proxy` for requests, which nothing
orders or selects; what `package` checks besides invariants is a refinement, in which
no build is told from another and no liveness is claimed.

**Fairness.** `ReceiptCollector!FairSpec` is weak fairness of each thread (threads
are scheduled, and every blocking call is bounded: the upstream connection has a
timeout of 180 s) and of the client giving up (curl is called with a time limit; a
client in the middle of its request either sends the rest or goes away). It does not
assume that a client reads its answer or that an engine answers.
`ContractDrift!FairSpec` is weak fairness of the steps of a job: a job that started
gets a runner and each of its steps ends or times out. Nothing is assumed of
maintainers, of the Gateway branch or of the starting of runs.
`EppHarness!EppFairSpec` is weak fairness of the script while no call holds it: it
runs, its loops are counted, and some of its curl calls have a limit (`Limited`). The
others may hang for ever (`Hang`), so that `CommandsEnd` says no more than that a
command ends or hangs in a call. The cluster owes it nothing: an EPP that never goes
down or never comes up only costs the command its waits.

## Theorems

| Theorem | Statement | Assumes |
|---|---|---|
| `ModelEnginePackageProofs!TypeCorrect` | `Spec => []TypeOK` | |
| `...!SnapshotPublished` | `Spec => []PublishesOneSnapshot` | `MayRevert = FALSE` |
| `...!TornIsReported` | `Spec => []TornDownloadIsReported` | |
| `...!UndisturbedExact` | `Spec => []UndisturbedIsExact` | |
| `...!PackagerRefines` | `Spec => ImplementsSnapshotPublisher` | `MayRevert = FALSE` |
| `ReceiptCollectorProofs!CollectorTypes` | `Spec => []TypeOK` | |
| `...!ReceiptBeforeAnswer` | `Spec => []AnsweredHasReceipt` | `ForwardsLength = FALSE`, `MayBeKilled = FALSE` |
| `...!CollectorRefines` | `Spec => ImplementsReceiptLog` | |
| `...!ReceiptAgrees` | `Spec => []AnswerAgreesWithReceipt` | |
| `...!ChunkedWhole` | `Spec => []ChunkedCompleteIsWhole` | |
| `...!ThreadsAreShort` | a thread has at most `MaxPieces + 5` steps, of which each leaves fewer, and nobody adds to them | |
| `ResultExportProofs!HonestAccepted` | `ExportSpec => []HonestExportIsAccepted` | |
| `...!AnsweredAccepted` | `ExportSpec => []AnsweredExportIsAccepted` | |
| `...!ExportOnlyWatches` | `ExportSpec => Spec` of the collectors | |
| `...!ExportedTrafficAgrees` | `ExportSpec` implies the refinement and the invariants of the collectors | |
| `ContractDriftProofs!TypeCorrect` | `Spec => []TypeOK` | |
| `...!PassedRunsAreValid` | `Spec => []PassedIsValid` | |
| `...!FailedRunsAreInvalid` | `Spec => []FailedIsInvalid` | |
| `...!PassedPagesAgree` | `Spec => []PagesAgreeWithContract` | |
| `...!LedgerCovers` | `Spec => []LedgerCoversCandidate` | |
| `...!WorkflowRefines` | `Spec => ImplementsGateVerdicts` | |
| `...!JobsAdvance` | each step of a job leaves fewer of at most seven, nobody sets a run back, and the newest run is in progress or judged | |
| `ExampleInventoryProofs!TypeCorrect` | `Spec => []TypeOK` | |
| `...!ValidatedCurrent` | `Spec => []ValidatedIsCurrent` | |
| `...!VerifiedHasWorkflow` | `Spec => []VerifiedMutationHasWorkflow` | |
| `...!SettledByRefresh` | `Spec => []RefreshSettles` | |
| `...!BlocksAreFenced` | `MarkdownBlocks` of any sequence of lines: from fence to fence, disjoint, and none missed | |
| `EppHarnessProofs!EppTypes` | `EppSpec => []EppTypeOK` | |
| `...!RestoresUnlessBlamed` | `EppSpec => []RestoredUnlessBlamed` | |
| `...!MeasuresUnderItsRule` | `EppSpec => []MeasuredUnderItsRule` | |
| `...!PickerIsAsExpected` | `EppSpec => []PickerAsExpected` | |
| `...!CommandsAreShort` | each step of the script ends a command or leaves fewer of at most `11 + 4 * Len(MODES)` | |
| `ToolProofs!AcceptedPassIsReal` | `EvSpec => []PublishedPassIsReal` | |
| `...!AcceptedBindingsAreCurrent` | `BdSpec => []LoadedIsCurrent` | |
| `...!ZeroIsThisRun` | `CliSpec => []ExitZeroIsThisRun` | |
| `...!ProbeSentAsExpected` | `CliSpec => []PassedProbeSentAsExpected` | |
| `...!PartsAreIndependent` | `MCSpec` implies the specification of each of the seven parts | |
| `...!ToolsTypeCorrect` | `MCSpec => []ToolsTypeOK` | |
| `...!ToolsAreCorrect` | `MCSpec => []` of the ten invariants of the run `tools` | |
| `LabProofs!ConsentHolds` | `AnSpec => []CollectorsHaveConsent` | |
| `...!ProbeMetTheHolder` | `TlSpec => []PassedProbeMetTheHolder` | |
| `...!TrafficIsOwn` | `QsSpec => []PassedTrafficIsOwn` | |
| `...!SettingLeftAsFound` | `QsSpec => []LeftAsFound` | |
| `...!StrictIsOrdered` | `LabSpec => []PassedStrictIsOrdered` | |
| `...!HeldUntilReleased` | `LabSpec => []PassedWereHeld` | |

Besides what the last column says, each proof uses only the named assumptions on
constants of its modules (`PackageAssumption`, `CollectorAssumption`,
`ContentsAssumption`, `ProxyAssumption`, `DocsAssumption`, `DriftAssumption`, `CommandsAssumption`,
`InventoryAssumption`, `PagesAssumption`, `EppAssumption`, `EvidenceAssumption`,
`CliAssumption`, `BindingAssumption`, `LabAssumption`, `QsAssumption`), which TLC
evaluates in the runs. The number of builds, files, requests, pieces, commits, runs,
pages, lines, probes, assets, tabs and attempts is arbitrary.

**The packager.** `PublishesOneSnapshot` is not inductive: it speaks of the two reads
after they were compared. `SnapshotInv` says what each partial read means while it
is made. During the first read no version that was read is newer than the one on
disk; when the second read starts, `snap` records the tree, and from then on the
first read is at most the snapshot, the snapshot at most the directory, and every
file already read again at least the snapshot. If both reads agree, the snapshot lies
between equal values. This is where versions must not decrease, that is
`MayRevert = FALSE`. `TornInv` needs no such assumption: while `SHA256SUMS` and the
ZIP differ, some build is `Noticing`: it has its second rename or its comparison of
`SHA256SUMS` to make, or will find another ZIP than its own, or has ended badly. The refinement maps `snaps` to the snapshots taken so far; renames become
`PublishSums` and `PublishZip` because the published value is a snapshot by
`SnapshotInv`, and every other step is an edit, a snapshot or a stutter.

**The collectors.** `ThreadInv` relates the counters of one request to the program
counter of its thread and to the state of its client: the counters are ordered, and
until the client gives up everything recorded was also written; the connection of a
live collector is closed only when its thread is done; a client has an answer only
where it sees an end. `LedgerInv` says that the ledger has exactly the receipts of
the threads past `AppendReceipt`, with their final values. Steps of one request leave
the invariant of the others alone, which is one lemma.

`ReceiptLog` has no threads: a log, the answers of the clients, and that both grow by
one entry for each request which agrees with what the other has of it. `AppendReceipt`
maps to `Append`, a client that takes what it got for its whole answer to `Answer`,
Ctrl-C to `Drain` or `Kill`, every other step to a stutter. Agreement holds in both
orders because of `ThreadInv`; that the older collector logs first, because its body
has no length: its client sees an end only of a closed connection, and the connection
is closed after the receipt or by the kill. `ReceiptBeforeAnswer` is what this gives
where nothing is killed. For `EveryRequestIsRecorded` the proof system gives the half
without fairness: `StepsLeft` counts what a thread has still to do, `ThreadsAreShort`.

**The drift workflow.** `RunInv` says of each run what it has established so far: the
candidate was prepared before any check, an outcome success is the truth of its check
about the documentation and the commits of the run, which do not change any more, and
a verdict passed is drawn from four successes. `PassedIsValid` follows at the gate.
`PagesAgreeWithContract` and `LedgerCoversCandidate` are consequences of
`PassedIsValid`.

That a *failed* run has a reason needs more: a run could fail because a check was
skipped. `FailInv` records which checks a run must have made at each step (`Taken`);
once the first was made, none is skipped, and each of their outcomes is the truth.

`GateVerdicts` is the workflow without jobs, checks and outcomes: the run in progress
settles one subject and later gets the verdict of the gate by hand on it. The run
settles when its candidate is prepared, which is the last time it reads anything that
others change; its verdict is `Judge` by `RunInv` and `FailInv`, or `GiveUp` where no
check was made. That an active run is the newest (`OnlyNewest`) makes the start of a
run the end of the one before, and of it alone. `JobsAdvance` is the half of
`NewestIsJudged` that needs no fairness: `Ahead` counts the steps a job has left, and
only an older run than the newest can be cancelled.

**An undisturbed invocation** of the packager is exact by `ExactInv`: while nobody
edits, builds or is killed beside it, what it has read so far is the tree, what it
has compared is equal, and what it has published is the tree.

**The inventory.** `ValidatedIsCurrent` and `VerifiedMutationHasWorkflow` need only that the inventory's entries have the fields
of an entry (`InventoryShape`, which authors and `Refresh` keep). `RefreshSettles`
rests on `IdentityIsUnique`: two blocks of a page with the same language and text
have different ordinals, by counting the occurrences up to a line; so `Document` has
one entry for each block, and it is that block's. `BlocksAreFenced` says what those blocks
are: the loop of `markdown_blocks` is a function from line numbers to being inside a
block or not, and by induction on the line a line is inside just when an opening line
is above it without a closing line since (`Fences`).

**The export.** On top of the collector's invariant, `EndInv` says how a client ends
(unsent, broken off, rejected) and `RowInv` what a retained row still says of its
request although the threads go on: its receipt is in the ledger and does not change,
and its body is what the client had; `FileInv` that a ledger exported later still has
it. For `AnsweredExportIsAccepted` the ledger has one record of a request (`OneRecord`),
and what an answered client has is complete and equal to it. The exporter changes nothing of the traffic
(`ExportOnlyWatches`), so everything proved of the collectors holds beside it.

**The harness.** `EppSafe` has five parts: what is still to be put back at each step
(`ToPutBack`), that a rule and a loop of the harness exist only while a command runs
(`OnlyWhileRunning`), the rule and the EPP as they must be before each measurement
(`RuleBeforeRow`, `PickerBeforeRow`), and the last measurement (`RowIsKnown`); each
up to the causes that the property names; an EPP is down by the harness only where
replicas are 0 or a rollout was slow, and a lost one is told from it. `OnCourse` says that the step the script is
at is one of its present command; `Ahead` is how many are left of it.

**The tools.** `EvInv`: whatever is edited, a ledger is one that some run gives; the
gate compares counts with it, so that a claim cannot exceed it. `BdInv`: what is
recorded is what `document()` once wrote, for some assets and blocks, in all that was
not edited by hand since; two sets of the same size, of which one contains the other,
are equal, and where a page has exactly one producer and the recorded one is among its
blocks, it is that one (`PresentIsTheOne`). `CourseInv` is the course
of the script; `ProbeCourse` says of every captured request that it was sent, and of a
CLI that waited that its request is captured when it exits, and that what it sent
besides are strays. The bound on captured
requests in the CLI's type is a count: each was sent by another probe (`SentAreFew`).

**The seven parts.** They share no variable: a behaviour of `MCTools` is one of each
part in which the steps of the others are stutters (`PartsAreIndependent`). So the type
of the whole, and the ten invariants together, follow from the theorems about the parts.

**The labs.** `AnInv`: a started page has no signal and is not local, and the stored
choice is the last one or storage refused. `TlInv`: from `See` on, the holder is held
while the gate is shut, unless the 60 seconds passed, which its client does not
outlive; and a probe that reached the backend before the receipts were looked at is in
the file or was refused by it. `QsInv`: what was answered was logged or left no line,
the delta of one is of some attempt with this nonce, and what was saved is what was found unless step 5 was
begun twice. `LabInv` turns each count that was read into a fact about the order of
arrival, and keeps it under late arrivals, which are appended (`HolderBeforeUrgent`,
`UrgentBeforeBatch`); the final counts of 1 exclude earlier requests of the same name
(`FirstOf`). `PassedWereHeld` has an invariant of its own (`HoldsStepInv`): a name of the
script is not released before its entry, since an earlier release that the backend
remembers would come with an earlier arrival, which the counts exclude.

Only model-checked: the liveness properties `EveryRequestIsRecorded`, `NewestIsJudged`
and `CommandsEnd`, because the proof system has no rule for fairness and `ENABLED`.
`ThreadsAreShort`, `JobsAdvance` and `CommandsAreShort` prove the part of each that is
about steps: there are at most so many, and none is undone. Every other property of a
passing run is a theorem. Induction over data is out of reach as far as it is stated
with an operator parameter; over the natural numbers it is derived here from the
well-foundedness of `<` (`AllNaturals`, `OneByOne`), for sets instead of predicates,
which is enough for a loop over lines and for counting. What `Leading` and `Hidden` in
`ExampleCommands` compute of a command's tokens is not stated as a theorem.

## Disagreements between texts and code

Each of these is a run in which TLC shows the code doing other than a text says.

- `package_stale`: the comment at `tools/package_model_engine_examples.py:40` says a
  concurrent edit causes an error instead of a stale download. The tree is compared
  once, before the renames; a later edit is not noticed.
- `collector_truncated`: `verification/README.md:23` says `upstreamComplete` proves
  transport read completion. For a body with a length, `read1` returns nothing at a
  cut as at the end, and the flag is set.
- `drift_green_pages`: `community/contributing.md:25` says CI runs the checks it
  lists. No job of `ci.yml` runs the two renderers, and the drift workflow renders
  the candidate and not the tracked contract. In the run the pages are current, then the
  contract is refreshed with all that `ci.yml` compares, and the pages stay behind.
- `inventory_label`: `reference/example-quality-contract.md:18` says a new mutation
  cannot silently inherit a page-level label. It can, with an option before the command
  path, which the validator accepts (`validate_examples.py:337-352`) and
  `mutation_operations` does not read (line 711); `PathAfterOptions` and `CommandPath`
  are these two readings. `VerifiedMutationHasWorkflow` holds of every other mutation.

## Observations without a run

- A Gateway commit that changes nothing frozen still fails the drift gate, because
  the reference pages name the commit they were rendered from.
- Events on main share one concurrency group: a push cancels a dispatched run, whose
  commit is then never judged. `NewestIsJudged` is therefore about the newest run.
- The gate by hand compares `cli.json` as a value, the workflow by its bytes. A
  reformatted file passes the first and fails the second, before its checks.
- The packaged tree is the validated one only when nobody edits in between
  (`UndisturbedIsExact`); nothing in the repository promises more.
- A client that times out at the last write can have a receipt with other bytes and
  `upstreamComplete`; `verify-incomplete-results.py` rejects such evidence.
- `reference/example-inventory.md:3` says every fenced example has one status. A fence
  with a title is rendered and is not seen (`validate_examples.py:123`).
- The log level of the EPP is put back to `normal`, not to what it was (`run.sh:116`
  against `repro/README.md:51-53`), and Ctrl-C leaves the load loop of verify-vllm
  running; `RestoredUnlessBlamed` says what holds instead.
- An honest export with a request that was cut, or with the proxy's own 502, is
  rejected by every verifier (`HonestExportIsAccepted` names the cases), and one whose
  rows were read before their receipts were written by the two stricter ones
  (`AnsweredExportIsAccepted`). The three have three ideas of a normal answer.
- `offered` in the published matrix is declared by its author: failures dropped from
  both the summary and the ledger are not detected.
- `privacy.md` says withdrawing consent disables further collection. It does in the
  tab where it is withdrawn and on pages opened later, unless storage refuses; tabs
  already open go on.
- The holder experiment is not safe to repeat under the same `RUN`: a receipt of the
  earlier try satisfies `See`, and an earlier probe's fails `Look`. The pair client
  second request after 60 s even without the gate. A probe that the Gateway forwards
  after the receipts were looked at goes unnoticed (`probeAt = "late"`).
- A probe of the CLI that must send nothing passes although it sends a PUT, or a body
  that is not JSON: the server captures neither. The comment at
  `validate_cli_runtime.py:118-119` requires rejection without any management request.
- `load_bound_bodies` accepts a file of which a record was taken out, or in which a body
  was changed with its hash, and ignores the recorded command; `--check`, which CI runs
  first, does not.
- A positive Quickstart check can pass on another attempt's line: step 5 repeated within
  a second has the same nonce, and an answer need not have left a line
  (`PassedTrafficIsOwn` names this case).
- A metric delta hides a reset that the counter has outgrown since.
- Two deployments, of main and of a tag, push one branch without a concurrency group,
  and "latest" is both a version and an alias; what comes of it is decided by mike.

## What is not modelled

- *Contract freezing* is a function of a commit, atomic per file: how a Swagger file
  is compacted and metric labels are extracted is a translation of one text into
  another, and a write that is cut short leaves a file that no check accepts as JSON.
- *Example validator*: the JSON schema, `bash -n`, `jq` and `yq` are external programs;
  request bodies and PromQL are compared text by text with a frozen contract, without
  state; quoting is a matter of characters.
- *CI workflow*: the hygiene, build and link jobs are external tools. *Deploy* and
  *secret scan* are calls of external ones.
- *Existing-profile verifiers*: the numeric decisions (percentiles, medians, floating
  point), launch arguments, phases and routing reviews. The *input validator* makes
  one pass over an archive in a directory of its own, and the *response contract
  validator* compares one observation per case: neither keeps state nor meets another
  actor.
- *TLS lab*: the pair client, which reports two requests and gives no verdict, and the
  certificates, which are cryptography.
- *Quickstart*: the wrong-model check and the rule of step 4, which one identical key
  creates and deletes.
- *Metric delta* (two sums and a subtraction) and *legacy anchors* (a table of
  redirects) have no state.
- The pages and recorded data are text; the repository's tests hold no state; the
  Gateway, the CLI and the endpoint picker are programs of other repositories and
  enter as far as the tools observe them.

## Plan

What could still be added, in this order:

1. The pair client of `tls-lab.go` beside `serve`, if a page comes to draw a verdict
   from it.
2. Pure algorithms against reference definitions over bounded inputs: the conditional
   fields of a request body (`validate_examples.py:468`), `metric-delta.py`, the
   comparison of two contracts.
