--------------------------- MODULE ContractDrift ---------------------------
(***************************************************************************)
(* The workflow "Gateway contract drift" (gateway-contract-drift.yml): a   *)
(* run checks out the documentation and a Gateway and a CLI commit,        *)
(* freezes a candidate contract from them, makes four checks that may fail *)
(* without ending the job, and ends with a gate over their outcomes.       *)
(*                                                                         *)
(* Meanwhile the Gateway's main branch moves, maintainers change files of  *)
(* the documentation one at a time with the refresh tools and push, and a  *)
(* new run on main cancels the one in progress.  Runs of pull requests are *)
(* groups of their own and behave alike.                                   *)
(***************************************************************************)
EXTENDS DocsChecks, Integers

CONSTANTS DefaultCli,   \* the CLI commit the workflow names
          MaxRuns,      \* bound: runs
          MaxEdits,     \* bound: changes of single files in the working tree
          Main          \* the ref of a run that does not select a commit

ASSUME DriftAssumption ==
    /\ DefaultCli \in CliCommits
    /\ MaxRuns \in Nat
    /\ MaxEdits \in Nat
    /\ Main \notin Commits

VARIABLES head,         \* head of the Gateway's main branch
          tree,         \* working tree of the maintainers
          main,         \* tree of the documentation's main branch
          edits,        \* changes of the working tree so far
          started,      \* runs so far
          wanted,       \* run -> ref of the Gateway to validate
          cli,          \* run -> CLI commit to validate
          docs,         \* run -> checked out documentation
          sha,          \* run -> resolved Gateway commit
          step,         \* run -> its next step
          outcome,      \* run -> check -> outcome of the step
          verdict       \* run -> "none", "passed", "failed", "cancelled"

repoVars == <<head, tree, main, edits>>
jobVars == <<docs, sha, step, outcome, verdict>>
vars == <<repoVars, started, wanted, cli, jobVars>>

Runs == 1..MaxRuns
Checks == {"examples", "metrics", "schemas", "drift"}
Steps == {"idle", "checkout", "candidate", "gate", "done"} \cup Checks
Outcomes == {"skipped", "success", "failure"}
Verdicts == {"none", "passed", "failed", "cancelled"}
NoOutcome == [c \in Checks |-> "skipped"]

Init ==
    /\ head \in Commits
    /\ \E g \in Buildable \cap Classified, t \in Texts :
          /\ <<t, g, DefaultCli>> \in Accepted
          /\ main = FreshTree(g, DefaultCli, t)
    /\ tree = main
    /\ edits = 0
    /\ started = 0
    /\ wanted = [i \in Runs |-> Main]
    /\ cli = [i \in Runs |-> DefaultCli]
    /\ docs = [i \in Runs |-> main]
    /\ sha = [i \in Runs |-> head]
    /\ step = [i \in Runs |-> "idle"]
    /\ outcome = [i \in Runs |-> NoOutcome]
    /\ verdict = [i \in Runs |-> "none"]

Active(i) == step[i] \notin {"idle", "done"}
Candidate(i) == GatewayContract(sha[i])

(* What the command of a check's step finds. *)
Holds(c, i) ==
    CASE c = "examples" -> ValidateExamples(docs[i], sha[i], cli[i])
      [] c = "metrics"  -> MetricsCurrent(docs[i], Candidate(i))
      [] c = "schemas"  -> SchemasCurrent(docs[i], Candidate(i))
      [] c = "drift"    -> ~Drifted(docs[i].gateway, Candidate(i))

----------------------------------------------------------------------------
(* Maintainers (external: which commands they run, and when they push). *)

Edit(t) ==
    /\ edits < MaxEdits /\ t # tree
    /\ edits' = edits + 1
    /\ tree' = t
    /\ UNCHANGED <<head, main, started, wanted, cli, jobVars>>

(* refresh_example_contracts.py writes gateway-api.json and then cli.json; *)
(* --only, or a failure in between, leaves one of them as it was.          *)
RefreshContracts ==
    \E g \in Buildable, k \in CliCommits :
        \/ Edit([tree EXCEPT !.gateway = GatewayContract(g)])
        \/ Edit([tree EXCEPT !.gateway = GatewayContract(g), !.cli = CliContract(k)])
        \/ Edit([tree EXCEPT !.cli = CliContract(k)])

(* The other tools: each writes one file from the tracked contract and     *)
(* text; the two renderers also take --contract.                           *)
RefreshGenerated ==
    \/ \E c \in {tree.gateway} \cup {GatewayContract(g) : g \in Buildable} :
          \/ Edit([tree EXCEPT !.metrics = RenderMetrics(c)])
          \/ c.commit \in Classified /\ Edit([tree EXCEPT !.schemas = RenderSchemas(c)])
    \/ Edit([tree EXCEPT !.inventory = InventoryOf(tree.text)])
    \/ Edit([tree EXCEPT !.bindings = Producers[tree.text]])
    \/ Edit([tree EXCEPT !.ledger = LedgerOf(tree)])

(* Edits by hand: the pages, the commits that verification-status.md and   *)
(* the unit tests name, and the layout of cli.json.                        *)
EditByHand ==
    \/ \E t \in Texts : Edit([tree EXCEPT !.text = t])
    \/ Edit([tree EXCEPT !.tuple = <<tree.gateway.commit, tree.cli.main_commit>>])
    \/ Edit([tree EXCEPT !.pins = <<tree.gateway.commit, tree.cli.main_commit>>])
    \/ Edit([tree EXCEPT !.cli.reformatted = TRUE])

(* Commits land on the Gateway's main branch. *)
GatewayMoves ==
    /\ head' \in Commits \ {head}
    /\ UNCHANGED <<tree, main, edits, started, wanted, cli, jobVars>>

----------------------------------------------------------------------------
(* The workflow. *)

(* Mutated form of the next action: without cancel-in-progress. *)
StartBeside(ref, k, d) ==
    /\ started < MaxRuns
    /\ started' = started + 1
    /\ wanted' = [wanted EXCEPT ![started'] = ref]
    /\ cli' = [cli EXCEPT ![started'] = k]
    /\ docs' = [docs EXCEPT ![started'] = d]
    /\ step' = [step EXCEPT ![started'] = "checkout"]
    /\ UNCHANGED <<head, tree, edits, sha, outcome, verdict>>

(* An event starts a run.  The concurrency group of all events on main is  *)
(* the same, and cancel-in-progress ends the run there is.                 *)
Start(ref, k, d) ==
    /\ started < MaxRuns
    /\ started' = started + 1
    /\ wanted' = [wanted EXCEPT ![started'] = ref]
    /\ cli' = [cli EXCEPT ![started'] = k]
    /\ docs' = [docs EXCEPT ![started'] = d]
    /\ step' = [i \in Runs |-> IF i = started' THEN "checkout"
                               ELSE IF Active(i) THEN "done" ELSE step[i]]
    /\ verdict' = [i \in Runs |-> IF Active(i) THEN "cancelled" ELSE verdict[i]]
    /\ UNCHANGED <<head, tree, edits, sha, outcome>>

Push == tree # main /\ main' = tree /\ Start(Main, DefaultCli, tree)

Schedule == Start(Main, DefaultCli, main) /\ UNCHANGED main

(* repository_dispatch and workflow_dispatch select commits. *)
Dispatch ==
    /\ \E g \in Commits, k \in CliCommits : Start(g, k, main)
    /\ UNCHANGED main

(* Mutated form of the next action: the ref itself in place of the commit  *)
(* it resolves to.                                                         *)
CheckoutRef(i) ==
    /\ step[i] = "checkout"
    /\ sha' = [sha EXCEPT ![i] = wanted[i]]
    /\ step' = [step EXCEPT ![i] = "candidate"]
    /\ UNCHANGED <<repoVars, started, wanted, cli, docs, outcome, verdict>>

(* The two upstream checkouts; a checkout or pip install may fail.         *)
Checkout(i) ==
    /\ step[i] = "checkout"
    /\ \/ /\ sha' = [sha EXCEPT ![i] = IF wanted[i] = Main THEN head ELSE wanted[i]]
          /\ step' = [step EXCEPT ![i] = "candidate"]
       \/ step' = [step EXCEPT ![i] = "gate"] /\ UNCHANGED sha
    /\ UNCHANGED <<repoVars, started, wanted, cli, docs, outcome, verdict>>

(* What the candidate step requires: a contract can be frozen at the       *)
(* commit, and its cli.json has the bytes of the tracked one (cmp).        *)
Prepared(i) == sha[i] \in Buildable /\ docs[i].cli = CliContract(cli[i])

(* Mutated form of the next action: the gate is skipped after a failure.   *)
FreezeOrStop(i) ==
    /\ step[i] = "candidate"
    /\ step' = [step EXCEPT ![i] = IF Prepared(i) THEN "examples" ELSE "done"]
    /\ UNCHANGED <<repoVars, started, wanted, cli, docs, sha, outcome, verdict>>

(* The candidate is frozen; a failure here skips the checks. *)
FreezeCandidate(i) ==
    /\ step[i] = "candidate"
    /\ step' = [step EXCEPT ![i] = IF Prepared(i) THEN "examples" ELSE "gate"]
    /\ UNCHANGED <<repoVars, started, wanted, cli, docs, sha, outcome, verdict>>

(* Mutated form of the next definition: the job without the schema step,   *)
(* whose outcome the gate still reads.                                     *)
AfterWithoutSchemas(c) ==
    CASE c = "examples" -> "metrics"
      [] c = "metrics"  -> "drift"
      [] c = "schemas"  -> "drift"
      [] c = "drift"    -> "gate"

After(c) ==
    CASE c = "examples" -> "metrics"
      [] c = "metrics"  -> "schemas"
      [] c = "schemas"  -> "drift"
      [] c = "drift"    -> "gate"

(* Mutated form of the next action: the metrics step without its --check,  *)
(* which then succeeds whatever the page holds.                            *)
CheckWithoutMetrics(i) ==
    /\ step[i] \in Checks
    /\ outcome' = [outcome EXCEPT ![i][step[i]] =
                     IF step[i] = "metrics" \/ Holds(step[i], i) THEN "success" ELSE "failure"]
    /\ step' = [step EXCEPT ![i] = After(step[i])]
    /\ UNCHANGED <<repoVars, started, wanted, cli, docs, sha, verdict>>

(* One of the four checks; continue-on-error. *)
Check(i) ==
    /\ step[i] \in Checks
    /\ outcome' = [outcome EXCEPT ![i][step[i]] =
                     IF Holds(step[i], i) THEN "success" ELSE "failure"]
    /\ step' = [step EXCEPT ![i] = After(step[i])]
    /\ UNCHANGED <<repoVars, started, wanted, cli, docs, sha, verdict>>

(* Mutated form of the next action: the gate looks for failures, so that a *)
(* skipped check does not count.                                           *)
GateOnFailure(i) ==
    /\ step[i] = "gate"
    /\ verdict' = [verdict EXCEPT ![i] =
                     IF \E c \in Checks : outcome[i][c] = "failure" THEN "failed" ELSE "passed"]
    /\ step' = [step EXCEPT ![i] = "done"]
    /\ UNCHANGED <<repoVars, started, wanted, cli, docs, sha, outcome>>

(* The gate runs whatever happened before it (if: always()), and requires  *)
(* the outcome success of each check.                                      *)
Gate(i) ==
    /\ step[i] = "gate"
    /\ verdict' = [verdict EXCEPT ![i] =
                     IF \A c \in Checks : outcome[i][c] = "success" THEN "passed" ELSE "failed"]
    /\ step' = [step EXCEPT ![i] = "done"]
    /\ UNCHANGED <<repoVars, started, wanted, cli, docs, sha, outcome>>

Job(i) == Checkout(i) \/ FreezeCandidate(i) \/ Check(i) \/ Gate(i)

Next ==
    \/ RefreshContracts \/ RefreshGenerated \/ EditByHand
    \/ GatewayMoves
    \/ Push \/ Schedule \/ Dispatch
    \/ \E i \in Runs : Job(i)

Spec == Init /\ [][Next]_vars

(* A job that was started gets a runner and each of its steps ends. *)
FairSpec == Spec /\ \A i \in Runs : WF_vars(Job(i))

----------------------------------------------------------------------------
TypeOK ==
    /\ head \in Commits
    /\ tree \in Trees /\ main \in Trees
    /\ edits \in 0..MaxEdits
    /\ started \in 0..MaxRuns
    /\ wanted \in [Runs -> Commits \cup {Main}]
    /\ cli \in [Runs -> CliCommits]
    /\ docs \in [Runs -> Trees]
    /\ sha \in [Runs -> Commits]
    /\ step \in [Runs -> Steps]
    /\ outcome \in [Runs -> [Checks -> Outcomes]]
    /\ verdict \in [Runs -> Verdicts]

Checked(i) == outcome[i].examples # "skipped"

(* A run that passed vouches for one Gateway commit, however main, the     *)
(* documentation and other runs moved while it ran: the static gate run by *)
(* hand (validate_gateway_docs.py) on the same three commits passes too.   *)
PassedIsValid ==
    \A i \in Runs : verdict[i] = "passed" => ValidateGatewayDocs(docs[i], sha[i], cli[i])

(* Neither workflow compares the reference pages with the tracked          *)
(* contract; a passed run still says that they describe the same metrics   *)
(* and definitions, through the candidate both are compared with.          *)
PagesAgreeWithContract ==
    \A i \in Runs : verdict[i] = "passed" =>
        /\ docs[i].metrics.manifest = docs[i].gateway.manifest
        /\ docs[i].schemas.swagger = docs[i].gateway.swagger

(* The coverage ledger is checked against the tracked contract by ci.yml   *)
(* only.  When both workflows accept a tree, the ledger lists the          *)
(* operations of the Gateway commit that the drift run resolved.           *)
LedgerCoversCandidate ==
    \A i \in Runs : verdict[i] = "passed" /\ CIPasses(docs[i]) =>
        docs[i].ledger.operations = Swagger[sha[i]]

(* At most one run of the group is in progress. *)
OneRunAtATime ==
    \A i, j \in Runs : Active(i) /\ Active(j) => i = j

(* A run that got as far as its checks fails only where the gate run by    *)
(* hand fails too.                                                         *)
FailedIsInvalid ==
    \A i \in Runs : verdict[i] = "failed" /\ Checked(i) =>
        ~ValidateGatewayDocs(docs[i], sha[i], cli[i])

(* The newest run is judged (or fails to start), unless a newer one comes. *)
NewestIsJudged ==
    \A i \in Runs : (started = i) ~> (verdict[i] \in {"passed", "failed"} \/ started # i)

----------------------------------------------------------------------------
(* What the workflow promises (GateVerdicts).  A run settles what it is    *)
(* about when its candidate is prepared: the checked-out documentation and *)
(* the two commits, on which the gate run by hand decides.                 *)
Settled(i) == verdict[i] # "cancelled" /\ (step[i] \in Checks \/ Checked(i))

Promise == INSTANCE GateVerdicts WITH
    Subjects  <- Trees \X Commits \X CliCommits,
    Valid     <- {s \in Trees \X Commits \X CliCommits : ValidateGatewayDocs(s[1], s[2], s[3])},
    NoSubject <- <<>>,
    active    <- {i \in Runs : Active(i)},
    subject   <- [i \in Runs |-> IF Settled(i) THEN <<docs[i], sha[i], cli[i]>> ELSE <<>>]

(* However main, the Gateway and the documentation move and runs overlap,  *)
(* one run at a time is in progress, and its verdict is that of the gate   *)
(* run by hand on the one subject it settled when its checks began.        *)
ImplementsGateVerdicts == Promise!Spec

----------------------------------------------------------------------------
(* contributing.md:25, "Make sure the strict build passes (this is what CI *)
(* runs)", lists both renderers with --check.  Then a push that CI accepts *)
(* and that leaves two current pages alone would leave them current.       *)
(* ci.yml does not run the renderers.                                      *)
PagesCurrent(d) == MetricsCurrent(d, d.gateway) /\ SchemasCurrent(d, d.gateway)

GreenPagesStayCurrent ==
    [][/\ CIPasses(main) /\ PagesCurrent(main)
       /\ CIPasses(main') /\ main'.metrics = main.metrics /\ main'.schemas = main.schemas
       => PagesCurrent(main')]_vars
=============================================================================
