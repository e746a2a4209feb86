------------------------ MODULE ContractDriftProofs ------------------------
(***************************************************************************)
(* Proofs about ContractDrift, for any commits and texts, whatever they    *)
(* contain, and any number of runs and changes.                            *)
(***************************************************************************)
EXTENDS ContractDrift, TLAPS

USE DocsAssumption, DriftAssumption

----------------------------------------------------------------------------
(* A tree generated from the same sources is a tree. *)
LEMMA FreshIsTree ==
    ASSUME NEW g \in Commits, NEW k \in CliCommits, NEW t \in Texts
    PROVE  FreshTree(g, k, t) \in Trees
<1>1. GatewayContract(g) \in GatewayContracts
  BY DEF GatewayContracts
<1>2. GatewayContract(g).swagger = Swagger[g]
  BY DEF GatewayContract
<1>3. CliContract(k) \in CliContracts
  BY DEF CliContract, CliContracts
<1> HIDE DEF GatewayContract
<1> QED
  BY <1>1, <1>2, <1>3 DEF FreshTree, Trees

(* So is a tree in which a maintainer changed one file with a tool. *)
LEMMA EditIsTree ==
    ASSUME NEW d \in Trees, NEW g \in Commits, NEW k \in CliCommits, NEW t \in Texts,
           NEW c \in GatewayContracts
    PROVE  /\ [d EXCEPT !.gateway = GatewayContract(g)] \in Trees
           /\ [d EXCEPT !.gateway = GatewayContract(g), !.cli = CliContract(k)] \in Trees
           /\ [d EXCEPT !.cli = CliContract(k)] \in Trees
           /\ [d EXCEPT !.metrics = RenderMetrics(c)] \in Trees
           /\ [d EXCEPT !.schemas = RenderSchemas(c)] \in Trees
           /\ [d EXCEPT !.inventory = InventoryOf(d.text)] \in Trees
           /\ [d EXCEPT !.bindings = Producers[d.text]] \in Trees
           /\ [d EXCEPT !.ledger = LedgerOf(d)] \in Trees
           /\ [d EXCEPT !.text = t] \in Trees
           /\ [d EXCEPT !.tuple = <<d.gateway.commit, d.cli.main_commit>>] \in Trees
           /\ [d EXCEPT !.pins = <<d.gateway.commit, d.cli.main_commit>>] \in Trees
           /\ [d EXCEPT !.cli.reformatted = TRUE] \in Trees
<1>1. GatewayContract(g) \in GatewayContracts
  BY DEF GatewayContracts
<1>2. CliContract(k) \in CliContracts
  BY DEF CliContract, CliContracts
<1>3. /\ d.gateway \in GatewayContracts
      /\ d.cli \in CliContracts
      /\ d.text \in Texts
  BY DEF Trees
<1>4. d.gateway.commit \in Commits /\ d.gateway.swagger \in {Swagger[x] : x \in Commits}
  BY <1>3 DEF GatewayContracts, GatewayContract
<1>5. d.cli.main_commit \in CliCommits
  BY <1>3 DEF CliContracts
<1>6. [d.cli EXCEPT !.reformatted = TRUE] \in CliContracts
  BY <1>3 DEF CliContracts
<1>7. LedgerOf(d) \in [blocks : {Blocks[x] : x \in Texts}, operations : {Swagger[x] : x \in Commits},
                       gateway_commit : Commits, cli_commit : CliCommits]
  BY <1>3, <1>4, <1>5 DEF LedgerOf
<1> HIDE DEF GatewayContract, GatewayContracts, CliContract, CliContracts, LedgerOf,
             RenderMetrics, RenderSchemas, InventoryOf
<1> QED
  BY <1>1, <1>2, <1>3, <1>4, <1>5, <1>6, <1>7 DEF Trees

----------------------------------------------------------------------------
(* Types are preserved by maintainers, events and jobs. *)
LEMMA StartType ==
    ASSUME TypeOK, NEW ref \in Commits \cup {Main}, NEW k \in CliCommits,
           NEW d \in Trees, Start(ref, k, d), main' \in Trees
    PROVE  TypeOK'
<1>1. started' \in 0..MaxRuns /\ started' \in Runs
  BY DEF TypeOK, Start, Runs
<1>2. /\ wanted' \in [Runs -> Commits \cup {Main}]
      /\ cli' \in [Runs -> CliCommits]
      /\ docs' \in [Runs -> Trees]
  BY <1>1 DEF TypeOK, Start
<1>3. step' \in [Runs -> Steps] /\ verdict' \in [Runs -> Verdicts]
  BY DEF TypeOK, Start, Steps, Verdicts
<1> QED
  BY <1>1, <1>2, <1>3 DEF TypeOK, Start

LEMMA StepType == TypeOK /\ [Next]_vars => TypeOK'
<1> SUFFICES ASSUME TypeOK, [Next]_vars PROVE TypeOK'
  OBVIOUS
<1>0. CASE UNCHANGED vars
  BY <1>0 DEF vars, repoVars, jobVars, TypeOK
<1>e. ASSUME NEW t \in Trees, Edit(t) PROVE TypeOK'
  BY <1>e DEF Edit, TypeOK, jobVars
<1>1. CASE RefreshContracts
  <2> PICK g \in Buildable, k \in CliCommits :
        \/ Edit([tree EXCEPT !.gateway = GatewayContract(g)])
        \/ Edit([tree EXCEPT !.gateway = GatewayContract(g), !.cli = CliContract(k)])
        \/ Edit([tree EXCEPT !.cli = CliContract(k)])
    BY <1>1 DEF RefreshContracts
  <2>1. tree \in Trees /\ tree.text \in Texts /\ tree.gateway \in GatewayContracts
    BY DEF TypeOK, Trees
  <2> QED
    BY <1>e, <2>1, EditIsTree
<1>2. CASE RefreshGenerated
  <2>1. tree \in Trees /\ tree.text \in Texts /\ tree.gateway \in GatewayContracts
    BY DEF TypeOK, Trees
  <2>2. PICK k \in CliCommits : TRUE
    OBVIOUS
  <2>3. PICK g \in Commits : TRUE
    BY DEF TypeOK
  <2>4. ASSUME NEW c \in {tree.gateway} \cup {GatewayContract(x) : x \in Buildable}
        PROVE  c \in GatewayContracts
    BY <2>1 DEF GatewayContracts
  <2> QED
    BY <1>2, <1>e, <2>1, <2>2, <2>3, <2>4, EditIsTree DEF RefreshGenerated
<1>3. CASE EditByHand
  <2>1. tree \in Trees /\ tree.text \in Texts /\ tree.gateway \in GatewayContracts
    BY DEF TypeOK, Trees
  <2>2. PICK k \in CliCommits : TRUE
    OBVIOUS
  <2>3. PICK g \in Commits : TRUE
    BY DEF TypeOK
  <2> QED
    BY <1>3, <1>e, <2>1, <2>2, <2>3, EditIsTree DEF EditByHand
<1>4. CASE GatewayMoves
  BY <1>4 DEF GatewayMoves, TypeOK, jobVars
<1>5. CASE Push
  BY <1>5, StartType DEF Push, TypeOK
<1>6. CASE Schedule
  BY <1>6, StartType DEF Schedule, TypeOK
<1>7. CASE Dispatch
  BY <1>7, StartType DEF Dispatch, TypeOK
<1>8. ASSUME NEW i \in Runs, Job(i) PROVE TypeOK'
  <2>1. CASE Checkout(i)
    BY <2>1 DEF Checkout, TypeOK, repoVars, Steps
  <2>2. CASE FreezeCandidate(i)
    BY <2>2 DEF FreezeCandidate, TypeOK, repoVars, Steps, Checks
  <2>3. CASE Check(i)
    <3>1. outcome' \in [Runs -> [Checks -> Outcomes]]
      BY <2>3 DEF Check, TypeOK, Outcomes
    <3>2. After(step[i]) \in Steps
      BY <2>3 DEF Check, After, Checks, Steps
    <3> QED
      BY <2>3, <3>1, <3>2 DEF Check, TypeOK, repoVars
  <2>4. CASE Gate(i)
    BY <2>4 DEF Gate, TypeOK, repoVars, Steps, Verdicts
  <2> QED
    BY <1>8, <2>1, <2>2, <2>3, <2>4 DEF Job
<1> QED
  BY <1>0, <1>1, <1>2, <1>3, <1>4, <1>5, <1>6, <1>7, <1>8 DEF Next

(* Every reachable state of the workflow and its repositories is well      *)
(* typed.                                                                  *)
THEOREM TypeCorrect == Spec => []TypeOK
<1>1. Init => TypeOK
  <2> SUFFICES ASSUME Init PROVE TypeOK
    OBVIOUS
  <2>1. main \in Trees
    BY FreshIsTree DEF Init
  <2> QED
    BY <2>1 DEF Init, TypeOK, NoOutcome, Outcomes, Steps, Verdicts
<1> QED
  BY <1>1, StepType, PTL DEF Spec

----------------------------------------------------------------------------
(* What ties the outcomes of a run to what it checked out: an outcome      *)
(* success is true of the run's documentation and commits, which do not    *)
(* change once a check has run, and a verdict is drawn from outcomes that  *)
(* do not change any more.                                                 *)
OutcomeTrue(i) ==
    \A c \in Checks : outcome[i][c] = "success" => Prepared(i) /\ Holds(c, i)
RunInv(i) ==
    /\ i > started => step[i] = "idle"
    /\ step[i] = "idle" => verdict[i] = "none"
    /\ step[i] \in {"idle", "checkout", "candidate"} => outcome[i] = NoOutcome
    /\ step[i] \in Checks => Prepared(i)
    /\ OutcomeTrue(i)
    /\ verdict[i] = "passed" => step[i] = "done" /\ \A c \in Checks : outcome[i][c] = "success"
DriftInv == TypeOK /\ \A i \in Runs : RunInv(i)

(* A run that keeps its variables keeps its invariant. *)
LEMMA RunUntouched ==
    ASSUME NEW i \in Runs, RunInv(i),
           docs'[i] = docs[i], sha'[i] = sha[i], cli'[i] = cli[i], step'[i] = step[i],
           outcome'[i] = outcome[i], verdict'[i] = verdict[i],
           i > started' => i > started
    PROVE  RunInv(i)'
<1>1. Prepared(i)' = Prepared(i)
  BY DEF Prepared
<1>2. ASSUME NEW c \in Checks PROVE Holds(c, i)' = Holds(c, i)
  BY DEF Holds, Candidate
<1> QED
  BY <1>1, <1>2 DEF RunInv, OutcomeTrue

LEMMA StartInv ==
    ASSUME DriftInv, NEW b, NEW ref, NEW k, NEW d, Start(ref, k, d), NEW i \in Runs
    PROVE  RunInv(i)'
<1>1. started \in Nat /\ started' = started + 1 /\ started' \in Runs
  BY DEF DriftInv, TypeOK, Start, Runs
<1>2. RunInv(i)
  BY DEF DriftInv
<1>3. outcome' = outcome /\ sha' = sha
  BY DEF Start
<1>4. CASE i = started'
  <2>1. step[i] = "idle" /\ verdict[i] = "none" /\ outcome[i] = NoOutcome
    BY <1>1, <1>2, <1>4 DEF RunInv
  <2>2. step'[i] = "checkout" /\ verdict'[i] = "none"
    BY <1>4, <2>1 DEF Start, Active
  <2> QED
    BY <1>1, <1>3, <1>4, <2>1, <2>2 DEF RunInv, OutcomeTrue, NoOutcome, Checks
<1>5. CASE i # started'
  <2>1. docs'[i] = docs[i] /\ cli'[i] = cli[i]
    BY <1>1, <1>5 DEF Start, DriftInv, TypeOK
  <2>2. i > started' => i > started
    BY <1>1 DEF Runs
  <2>3. CASE ~Active(i)
    <3>1. step'[i] = step[i] /\ verdict'[i] = verdict[i]
      BY <1>5, <2>3 DEF Start
    <3> QED
      BY <1>2, <1>3, <2>1, <2>2, <3>1, RunUntouched
  <2>4. CASE Active(i)
    <3>1. step'[i] = "done" /\ verdict'[i] = "cancelled"
      BY <1>5, <2>4 DEF Start
    <3>2. OutcomeTrue(i)'
      BY <1>2, <1>3, <2>1 DEF RunInv, OutcomeTrue, Prepared, Holds, Candidate
    <3>3. ~(i > started')
      BY <1>1, <1>2, <2>2, <2>4 DEF RunInv, Active
    <3> QED
      BY <3>1, <3>2, <3>3 DEF RunInv, Checks
  <2> QED
    BY <2>3, <2>4
<1> QED
  BY <1>4, <1>5

(* A step of a job touches the variables of its own run only. *)
LEMMA JobInv ==
    ASSUME DriftInv, NEW j \in Runs, Job(j), NEW i \in Runs
    PROVE  RunInv(i)'
<1>1. RunInv(i)
  BY DEF DriftInv
<1>2. started' = started /\ cli' = cli /\ docs' = docs
  BY DEF Job, Checkout, FreezeCandidate, Check, Gate
<1>3. CASE i # j
  <2>1. /\ sha'[i] = sha[i] /\ step'[i] = step[i]
        /\ outcome'[i] = outcome[i] /\ verdict'[i] = verdict[i]
    BY <1>3 DEF DriftInv, TypeOK, Job, Checkout, FreezeCandidate, Check, Gate
  <2> QED
    BY <1>1, <1>2, <2>1, RunUntouched
<1>4. CASE i = j
  <2>0. /\ step \in [Runs -> Steps] /\ outcome \in [Runs -> [Checks -> Outcomes]]
        /\ verdict \in [Runs -> Verdicts] /\ sha \in [Runs -> Commits]
    BY DEF DriftInv, TypeOK
  <2>1. CASE Checkout(i)
    <3>1. outcome' = outcome /\ verdict' = verdict /\ outcome[i] = NoOutcome
      BY <1>1, <2>1 DEF Checkout, RunInv
    <3>2. step'[i] \in {"candidate", "gate"} /\ step[i] = "checkout"
      BY <2>0, <2>1 DEF Checkout
    <3> QED
      BY <1>1, <1>2, <3>1, <3>2 DEF RunInv, OutcomeTrue, NoOutcome, Checks
  <2>2. CASE FreezeCandidate(i)
    <3>1. outcome' = outcome /\ verdict' = verdict /\ sha' = sha /\ step[i] = "candidate"
      BY <2>2 DEF FreezeCandidate
    <3>2. step'[i] = IF Prepared(i) THEN "examples" ELSE "gate"
      BY <2>0, <2>2 DEF FreezeCandidate
    <3>3. Prepared(i)' = Prepared(i)
      BY <1>2, <3>1 DEF Prepared
    <3>4. OutcomeTrue(i)'
      BY <1>1, <3>1 DEF RunInv, OutcomeTrue, NoOutcome
    <3> QED
      BY <1>1, <1>2, <3>1, <3>2, <3>3, <3>4 DEF RunInv, Checks
  <2>3. CASE Check(i)
    <3>1. verdict' = verdict /\ sha' = sha /\ step[i] \in Checks /\ Prepared(i)
      BY <1>1, <2>3 DEF Check, RunInv
    <3>2. step'[i] = After(step[i])
      BY <2>0, <2>3 DEF Check
    <3>3. step'[i] \in Checks \cup {"gate"}
      BY <3>1, <3>2 DEF After, Checks
    <3>4. Prepared(i)'
      BY <1>2, <3>1 DEF Prepared
    <3>5. ASSUME NEW c \in Checks PROVE Holds(c, i)' = Holds(c, i)
      BY <1>2, <3>1 DEF Holds, Candidate
    <3>6. outcome'[i] = [outcome[i] EXCEPT ![step[i]] =
                           IF Holds(step[i], i) THEN "success" ELSE "failure"]
      BY <2>0, <2>3 DEF Check
    <3>7. OutcomeTrue(i)'
      <4> SUFFICES ASSUME NEW c \in Checks, outcome'[i][c] = "success"
                   PROVE  Holds(c, i)
        BY <3>4, <3>5 DEF OutcomeTrue
      <4>1. CASE c = step[i]
        BY <2>0, <3>6, <4>1
      <4>2. CASE c # step[i]
        BY <1>1, <2>0, <3>6, <4>2 DEF RunInv, OutcomeTrue
      <4> QED
        BY <4>1, <4>2
    <3>8. verdict[i] # "passed" /\ i <= started
      BY <1>1, <3>1 DEF RunInv, Checks, DriftInv, TypeOK, Runs
    <3> QED
      BY <1>1, <1>2, <3>1, <3>3, <3>4, <3>7, <3>8 DEF RunInv, Checks
  <2>4. CASE Gate(i)
    <3>1. outcome' = outcome /\ sha' = sha /\ step[i] = "gate"
      BY <2>4 DEF Gate
    <3>2. step'[i] = "done"
      BY <2>0, <2>4 DEF Gate
    <3>3. verdict'[i] = IF \A c \in Checks : outcome[i][c] = "success" THEN "passed" ELSE "failed"
      BY <2>0, <2>4 DEF Gate
    <3>4. OutcomeTrue(i)'
      BY <1>1, <1>2, <3>1 DEF RunInv, OutcomeTrue, Prepared, Holds, Candidate
    <3>5. i <= started
      BY <1>1, <3>1 DEF RunInv, DriftInv, TypeOK, Runs
    <3> QED
      BY <1>2, <3>1, <3>2, <3>3, <3>4, <3>5 DEF RunInv, Checks, Runs, DriftInv, TypeOK
  <2> QED
    BY <1>4, <2>1, <2>2, <2>3, <2>4 DEF Job
<1> QED
  BY <1>3, <1>4

LEMMA DriftInductive == DriftInv /\ [Next]_vars => DriftInv'
<1> SUFFICES ASSUME DriftInv, [Next]_vars, NEW i \in Runs PROVE RunInv(i)'
  BY StepType DEF DriftInv
<1>u. ASSUME UNCHANGED <<started, cli, jobVars>> PROVE RunInv(i)'
  BY <1>u, RunUntouched DEF DriftInv, jobVars
<1>0. CASE UNCHANGED vars
  BY <1>0, <1>u DEF vars
<1>1. CASE RefreshContracts
  BY <1>1, <1>u DEF RefreshContracts, Edit
<1>2. CASE RefreshGenerated
  BY <1>2, <1>u DEF RefreshGenerated, Edit
<1>3. CASE EditByHand
  BY <1>3, <1>u DEF EditByHand, Edit
<1>4. CASE GatewayMoves
  BY <1>4, <1>u DEF GatewayMoves
<1>5. CASE Push
  BY <1>5, StartInv DEF Push
<1>6. CASE Schedule
  BY <1>6, StartInv DEF Schedule
<1>7. CASE Dispatch
  BY <1>7, StartInv DEF Dispatch
<1>8. ASSUME NEW j \in Runs, Job(j) PROVE RunInv(i)'
  BY <1>8, JobInv
<1> QED
  BY <1>0, <1>1, <1>2, <1>3, <1>4, <1>5, <1>6, <1>7, <1>8 DEF Next

LEMMA DriftInvariant == Spec => []DriftInv
<1>1. Init => \A i \in Runs : RunInv(i)
  BY DEF Init, RunInv, OutcomeTrue, NoOutcome, Checks
<1>2. Init /\ TypeOK => DriftInv
  BY <1>1 DEF DriftInv
<1> QED
  BY <1>2, DriftInductive, TypeCorrect, PTL DEF Spec

----------------------------------------------------------------------------
(* A run that passed vouches for the one Gateway commit it resolved: the   *)
(* static gate run by hand on the same commits passes too, whatever moved  *)
(* while the run was in progress.                                          *)
THEOREM PassedRunsAreValid == Spec => []PassedIsValid
<1>1. DriftInv => PassedIsValid
  <2> SUFFICES ASSUME DriftInv, NEW i \in Runs, verdict[i] = "passed"
               PROVE  ValidateGatewayDocs(docs[i], sha[i], cli[i])
    BY DEF PassedIsValid
  <2>1. \A c \in Checks : Prepared(i) /\ Holds(c, i)
    BY DEF DriftInv, RunInv, OutcomeTrue
  <2>2. sha[i] \in Buildable /\ docs[i].cli.main_commit = cli[i]
    BY <2>1 DEF Prepared, CliContract, Checks
  <2> QED
    BY <2>1, <2>2 DEF Holds, Candidate, Checks, ValidateGatewayDocs
<1> QED
  BY <1>1, DriftInvariant, PTL

(* A passed run says that the reference pages and the tracked contract     *)
(* describe the same metrics and definitions, which no job compares.       *)
THEOREM PassedPagesAgree == Spec => []PagesAgreeWithContract
<1>1. PassedIsValid => PagesAgreeWithContract
  <2> SUFFICES ASSUME PassedIsValid, NEW i \in Runs, verdict[i] = "passed"
               PROVE  /\ docs[i].metrics.manifest = docs[i].gateway.manifest
                      /\ docs[i].schemas.swagger = docs[i].gateway.swagger
    BY DEF PagesAgreeWithContract
  <2> DEFINE c == GatewayContract(sha[i])
  <2>1. ~Drifted(docs[i].gateway, c) /\ MetricsCurrent(docs[i], c) /\ SchemasCurrent(docs[i], c)
    BY DEF PassedIsValid, ValidateGatewayDocs
  <2>2. docs[i].metrics.manifest = c.manifest
    BY <2>1 DEF MetricsCurrent, RenderMetrics
  <2>3. docs[i].schemas.swagger = c.swagger
    BY <2>1 DEF SchemasCurrent, RenderSchemas
  <2> QED
    BY <2>1, <2>2, <2>3 DEF Drifted
<1> QED
  BY <1>1, PassedRunsAreValid, PTL

(* When both workflows accept a tree, the coverage ledger lists the        *)
(* operations of the Gateway commit the drift run resolved.                *)
THEOREM LedgerCovers == Spec => []LedgerCoversCandidate
<1>1. PassedIsValid => LedgerCoversCandidate
  <2> SUFFICES ASSUME PassedIsValid, NEW i \in Runs, verdict[i] = "passed", CIPasses(docs[i])
               PROVE  docs[i].ledger.operations = Swagger[sha[i]]
    BY DEF LedgerCoversCandidate
  <2>1. docs[i].gateway.swagger = Swagger[sha[i]]
    BY DEF PassedIsValid, ValidateGatewayDocs, Drifted, GatewayContract
  <2>2. docs[i].ledger.operations = docs[i].gateway.swagger
    BY DEF CIPasses, LedgerOf
  <2> QED
    BY <2>1, <2>2
<1> QED
  BY <1>1, PassedRunsAreValid, PTL

----------------------------------------------------------------------------
(* The run in progress is the one started last: starting a run ends the    *)
(* others and a job only moves a run on.                                   *)
OnlyNewest == \A i \in Runs : Active(i) => i = started

LEMMA NewestInvariant == Spec => []OnlyNewest
<1>1. Init => OnlyNewest
  BY DEF Init, OnlyNewest, Active
<1>2. TypeOK /\ OnlyNewest /\ [Next]_vars => OnlyNewest'
  <2> SUFFICES ASSUME TypeOK, OnlyNewest, [Next]_vars, NEW i \in Runs, Active(i)'
               PROVE  i = started'
    BY DEF OnlyNewest
  <2>u. ASSUME UNCHANGED <<started, step>> PROVE i = started'
    BY <2>u DEF Active, OnlyNewest
  <2>s. ASSUME NEW ref, NEW k, NEW d, Start(ref, k, d) PROVE i = started'
    BY <2>s DEF Start, Active
  <2>1. CASE UNCHANGED vars
    BY <2>1, <2>u DEF vars, jobVars
  <2>2. CASE RefreshContracts \/ RefreshGenerated \/ EditByHand \/ GatewayMoves
    BY <2>2, <2>u DEF RefreshContracts, RefreshGenerated, EditByHand, GatewayMoves, Edit, jobVars
  <2>3. CASE Push \/ Schedule \/ Dispatch
    BY <2>3, <2>s DEF Push, Schedule, Dispatch
  <2>4. ASSUME NEW j \in Runs, Job(j) PROVE i = started'
    <3>1. started' = started /\ Active(j)
      BY <2>4 DEF Job, Checkout, FreezeCandidate, Check, Gate, Active, Checks
    <3>2. i # j => step'[i] = step[i]
      BY <2>4 DEF TypeOK, Job, Checkout, FreezeCandidate, Check, Gate
    <3> QED
      BY <3>1, <3>2 DEF Active, OnlyNewest
  <2> QED
    BY <2>1, <2>2, <2>3, <2>4 DEF Next
<1> QED
  BY <1>1, <1>2, TypeCorrect, PTL DEF Spec

(* At most one run of the group is in progress. *)
THEOREM SingleRun == Spec => []OneRunAtATime
<1>1. OnlyNewest => OneRunAtATime
  BY DEF OnlyNewest, OneRunAtATime
<1> QED
  BY <1>1, NewestInvariant, PTL

----------------------------------------------------------------------------
(* The other direction.  An outcome failure is true of the run as well, and *)
(* a run that made its first check makes them all before the gate: only a   *)
(* run that was not prepared gets there with checks skipped.                *)
Taken(i) ==
    {c \in Checks : \/ step[i] = "metrics" /\ c = "examples"
                    \/ step[i] = "schemas" /\ c \in {"examples", "metrics"}
                    \/ step[i] = "drift" /\ c # "drift"
                    \/ (step[i] = "gate" \/ verdict[i] = "failed") /\ Checked(i)}
FailInv(i) ==
    /\ step[i] # "done" => verdict[i] = "none"
    /\ \A c \in Checks : outcome[i][c] = "failure" => ~Holds(c, i)
    /\ \A c \in Taken(i) : outcome[i][c] # "skipped"
    /\ verdict[i] = "failed" => \E c \in Checks : outcome[i][c] # "success"

LEMMA FailUntouched ==
    ASSUME NEW i \in Runs, FailInv(i),
           docs'[i] = docs[i], sha'[i] = sha[i], cli'[i] = cli[i], step'[i] = step[i],
           outcome'[i] = outcome[i], verdict'[i] = verdict[i]
    PROVE  FailInv(i)'
<1>1. ASSUME NEW c \in Checks PROVE Holds(c, i)' = Holds(c, i)
  BY DEF Holds, Candidate
<1>2. Taken(i)' = Taken(i)
  BY DEF Taken, Checked
<1> QED
  BY <1>1, <1>2 DEF FailInv

LEMMA StartFail ==
    ASSUME DriftInv, NEW ref, NEW k, NEW d, Start(ref, k, d), NEW i \in Runs, FailInv(i)
    PROVE  FailInv(i)'
<1>1. started \in Nat /\ started' = started + 1 /\ started' \in Runs
  BY DEF DriftInv, TypeOK, Start, Runs
<1>2. RunInv(i)
  BY DEF DriftInv
<1>3. outcome' = outcome /\ sha' = sha
  BY DEF Start
<1>4. CASE i = started'
  <2>1. step[i] = "idle" /\ verdict[i] = "none" /\ outcome[i] = NoOutcome
    BY <1>1, <1>2, <1>4 DEF RunInv
  <2>2. step'[i] = "checkout" /\ verdict'[i] = "none"
    BY <1>4, <2>1 DEF Start, Active
  <2>3. Taken(i)' = {}
    BY <2>2 DEF Taken
  <2> QED
    BY <1>3, <2>1, <2>2, <2>3 DEF FailInv, NoOutcome
<1>5. CASE i # started'
  <2>1. docs'[i] = docs[i] /\ cli'[i] = cli[i]
    BY <1>1, <1>5 DEF Start, DriftInv, TypeOK
  <2>2. CASE ~Active(i)
    <3>1. step'[i] = step[i] /\ verdict'[i] = verdict[i]
      BY <1>5, <2>2 DEF Start
    <3> QED
      BY <1>3, <2>1, <3>1, FailUntouched
  <2>3. CASE Active(i)
    <3>1. step'[i] = "done" /\ verdict'[i] = "cancelled"
      BY <1>5, <2>3 DEF Start
    <3>2. Taken(i)' = {}
      BY <3>1 DEF Taken
    <3>3. ASSUME NEW c \in Checks PROVE Holds(c, i)' = Holds(c, i)
      BY <1>3, <2>1 DEF Holds, Candidate
    <3> QED
      BY <1>3, <3>1, <3>2, <3>3 DEF FailInv
  <2> QED
    BY <2>2, <2>3
<1> QED
  BY <1>4, <1>5

LEMMA JobFail ==
    ASSUME DriftInv, NEW j \in Runs, Job(j), NEW i \in Runs, FailInv(i)
    PROVE  FailInv(i)'
<1>1. RunInv(i)
  BY DEF DriftInv
<1>2. cli' = cli /\ docs' = docs
  BY DEF Job, Checkout, FreezeCandidate, Check, Gate
<1>3. CASE i # j
  <2>1. /\ sha'[i] = sha[i] /\ step'[i] = step[i]
        /\ outcome'[i] = outcome[i] /\ verdict'[i] = verdict[i]
    BY <1>3 DEF DriftInv, TypeOK, Job, Checkout, FreezeCandidate, Check, Gate
  <2> QED
    BY <1>2, <2>1, FailUntouched
<1>4. CASE i = j
  <2>0. /\ step \in [Runs -> Steps] /\ outcome \in [Runs -> [Checks -> Outcomes]]
        /\ verdict \in [Runs -> Verdicts]
    BY DEF DriftInv, TypeOK
  <2>1. CASE Checkout(i) \/ FreezeCandidate(i)
    <3>1. outcome' = outcome /\ verdict' = verdict /\ outcome[i] = NoOutcome
      BY <1>1, <2>1 DEF Checkout, FreezeCandidate, RunInv
    <3>2. step'[i] \in {"candidate", "gate", "examples"} /\ step[i] \in {"checkout", "candidate"}
      BY <2>0, <2>1 DEF Checkout, FreezeCandidate
    <3>3. verdict[i] = "none"
      BY <3>2 DEF FailInv
    <3>4. Taken(i)' = {}
      BY <3>1, <3>2, <3>3 DEF Taken, Checked, NoOutcome, Checks
    <3> QED
      BY <3>1, <3>2, <3>3, <3>4 DEF FailInv, NoOutcome
  <2>2. CASE Check(i)
    <3>1. verdict' = verdict /\ sha' = sha /\ step[i] \in Checks /\ verdict[i] = "none"
      BY <2>2 DEF Check, FailInv, Checks
    <3>2. step'[i] = After(step[i])
      BY <2>0, <2>2 DEF Check
    <3>3. ASSUME NEW c \in Checks PROVE Holds(c, i)' = Holds(c, i)
      BY <1>2, <3>1 DEF Holds, Candidate
    <3>4. outcome'[i] = [outcome[i] EXCEPT ![step[i]] =
                           IF Holds(step[i], i) THEN "success" ELSE "failure"]
      BY <2>0, <2>2 DEF Check
    <3>5. ASSUME NEW c \in Checks, outcome'[i][c] = "failure" PROVE ~Holds(c, i)
      <4>1. CASE c = step[i]
        BY <2>0, <3>4, <3>5, <4>1
      <4>2. CASE c # step[i]
        BY <2>0, <3>4, <3>5, <4>2 DEF FailInv
      <4> QED
        BY <4>1, <4>2
    <3>6. Taken(i)' \subseteq Taken(i) \cup {step[i]}
      <4>1. CASE step[i] = "examples"
        <5>1. step'[i] = "metrics"
          BY <3>2, <4>1 DEF After
        <5> QED
          BY <3>1, <4>1, <5>1 DEF Taken
      <4>2. CASE step[i] = "metrics"
        <5>1. step'[i] = "schemas"
          BY <3>2, <4>2 DEF After
        <5> QED
          BY <3>1, <4>2, <5>1 DEF Taken
      <4>3. CASE step[i] = "schemas"
        <5>1. step'[i] = "drift"
          BY <3>2, <4>3 DEF After
        <5> QED
          BY <3>1, <4>3, <5>1 DEF Taken, Checks
      <4>4. CASE step[i] = "drift"
        <5>1. step'[i] = "gate"
          BY <3>2, <4>4 DEF After
        <5>2. Taken(i) = {"examples", "metrics", "schemas"}
          BY <3>1, <4>4 DEF Taken, Checks
        <5>3. Taken(i)' \subseteq Checks
          BY <5>1 DEF Taken
        <5> QED
          BY <4>4, <5>2, <5>3 DEF Checks
      <4> QED
        BY <3>1, <4>1, <4>2, <4>3, <4>4 DEF Checks
    <3>7. Taken(i) \subseteq Checks
      BY DEF Taken, Checks
    <3>8. ASSUME NEW c \in Taken(i)' PROVE outcome'[i][c] # "skipped"
      <4>1. CASE c = step[i]
        BY <2>0, <3>1, <3>4, <4>1
      <4>2. CASE c # step[i]
        BY <2>0, <3>4, <3>6, <3>7, <3>8, <4>2 DEF FailInv
      <4> QED
        BY <4>1, <4>2
    <3> QED
      BY <3>1, <3>3, <3>5, <3>8 DEF FailInv
  <2>3. CASE Gate(i)
    <3>1. outcome' = outcome /\ sha' = sha /\ step[i] = "gate"
      BY <2>3 DEF Gate
    <3>2. step'[i] = "done"
      BY <2>0, <2>3 DEF Gate
    <3>3. Taken(i)' \subseteq Taken(i)
      BY <3>1, <3>2 DEF Taken, Checked
    <3>4. ASSUME NEW c \in Checks PROVE Holds(c, i)' = Holds(c, i)
      BY <1>2, <3>1 DEF Holds, Candidate
    <3>5. verdict'[i] = "failed" => \E c \in Checks : outcome[i][c] # "success"
      BY <2>0, <2>3 DEF Gate
    <3> QED
      BY <3>1, <3>2, <3>3, <3>4, <3>5 DEF FailInv
  <2> QED
    BY <1>4, <2>1, <2>2, <2>3 DEF Job
<1> QED
  BY <1>3, <1>4

AllFail == \A i \in Runs : FailInv(i)

LEMMA FailInvariant == Spec => []AllFail
<1>1. Init => AllFail
  BY DEF Init, AllFail, FailInv, NoOutcome, Taken, Checked, Checks
<1>2. DriftInv /\ AllFail /\ [Next]_vars => AllFail'
  <2> SUFFICES ASSUME DriftInv, AllFail, [Next]_vars, NEW i \in Runs PROVE FailInv(i)'
    BY DEF AllFail
  <2>u. ASSUME UNCHANGED <<cli, jobVars>> PROVE FailInv(i)'
    BY <2>u, FailUntouched DEF jobVars, AllFail
  <2>1. CASE UNCHANGED vars
    BY <2>1, <2>u DEF vars
  <2>2. CASE RefreshContracts \/ RefreshGenerated \/ EditByHand \/ GatewayMoves
    BY <2>2, <2>u DEF RefreshContracts, RefreshGenerated, EditByHand, GatewayMoves, Edit
  <2>3. CASE Push \/ Schedule \/ Dispatch
    BY <2>3, StartFail DEF AllFail, Push, Schedule, Dispatch
  <2>4. ASSUME NEW j \in Runs, Job(j) PROVE FailInv(i)'
    BY <2>4, JobFail DEF AllFail
  <2> QED
    BY <2>1, <2>2, <2>3, <2>4 DEF Next
<1> QED
  BY <1>1, <1>2, DriftInvariant, PTL DEF Spec

(* A run that got as far as its checks and failed failed for a reason: the *)
(* gate run by hand on the same documentation and commits fails too.       *)
THEOREM FailedRunsAreInvalid == Spec => []FailedIsInvalid
<1>1. DriftInv /\ AllFail => FailedIsInvalid
  <2> SUFFICES ASSUME DriftInv, AllFail, NEW i \in Runs, verdict[i] = "failed", Checked(i)
               PROVE  ~ValidateGatewayDocs(docs[i], sha[i], cli[i])
    BY DEF FailedIsInvalid
  <2>1. Taken(i) = Checks
    BY DEF AllFail, FailInv, Taken
  <2>2. PICK c \in Checks : outcome[i][c] = "failure"
    BY <2>1 DEF AllFail, FailInv, DriftInv, TypeOK, Outcomes
  <2>3. ~Holds(c, i)
    BY <2>2 DEF AllFail, FailInv
  <2> QED
    BY <2>3 DEF Holds, Candidate, Checks, ValidateGatewayDocs
<1> QED
  BY <1>1, FailInvariant, DriftInvariant, PTL
----------------------------------------------------------------------------
(* The workflow implements GateVerdicts.  A run is undecided while it is in *)
(* progress, and has settled its subject when its checks begin: before that *)
(* no outcome is there, after it Checked stays true.                       *)
Observed(i) == IF Settled(i) THEN <<docs[i], sha[i], cli[i]>> ELSE <<>>
Promised == DriftInv /\ AllFail /\ OnlyNewest

LEMMA PromisedInvariant == Spec => []Promised
BY DriftInvariant, FailInvariant, NewestInvariant, PTL DEF Promised

(* An event starts a run on nothing yet, and takes the subject and the     *)
(* verdict of the run in progress from it.                                 *)
LEMMA StartRefines ==
    ASSUME Promised, NEW ref, NEW k, NEW d, Start(ref, k, d)
    PROVE  \E i \in Runs : Promise!Start(i)
<1>1. started \in Nat /\ started' = started + 1 /\ started' \in Runs
  BY DEF Promised, DriftInv, TypeOK, Start, Runs
<1>2. step[started'] = "idle" /\ verdict[started'] = "none" /\ outcome[started'] = NoOutcome
  BY <1>1 DEF Promised, DriftInv, RunInv
<1>3. \A i \in Runs : Active(i)' <=> i = started'
  BY <1>1 DEF Start, Active
<1>4. ASSUME NEW i \in Runs
      PROVE  Observed(i)' = IF Active(i) THEN <<>> ELSE Observed(i)
  <2>1. CASE Active(i)
    BY <2>1 DEF Start, Observed, Settled
  <2>2. CASE i = started'
    BY <1>2, <2>2 DEF Start, Observed, Settled, Checked, NoOutcome, Checks, Active
  <2>3. CASE ~Active(i) /\ i # started'
    <3>1. /\ docs'[i] = docs[i] /\ cli'[i] = cli[i] /\ sha'[i] = sha[i]
          /\ step'[i] = step[i] /\ verdict'[i] = verdict[i] /\ outcome'[i] = outcome[i]
      BY <1>1, <2>3 DEF Start, Promised, DriftInv, TypeOK
    <3> QED
      BY <2>3, <3>1 DEF Observed, Settled, Checked
  <2> QED
    BY <2>1, <2>2, <2>3
<1>5. verdict' = [i \in Runs |-> IF Active(i) THEN "cancelled" ELSE verdict[i]]
  BY DEF Start
<1>6. PICK n \in Runs : n = started'
  BY <1>1
<1>7. Promise!Start(n)
  BY <1>2, <1>3, <1>4, <1>5, <1>6 DEF Promise!Start, Observed, Active
<1> QED
  BY <1>7

(* What keeps the runs as they are is a stutter of the promise. *)
LEMMA QuietRefines ==
    ASSUME verdict' = verdict, \A i \in Runs : (Active(i)' <=> Active(i)) /\ Observed(i)' = Observed(i)
    PROVE  UNCHANGED Promise!vars
BY DEF Promise!vars, Observed

(* Where a job stands: it is the run in progress, and undecided. *)
LEMMA InProgress ==
    ASSUME Promised, NEW i \in Runs, Job(i)
    PROVE  /\ Active(i) /\ verdict[i] = "none"
           /\ {j \in Runs : Active(j)} = {i}
           /\ \A j \in Runs \ {i} : /\ Active(j)' <=> Active(j)
                                    /\ Observed(j)' = Observed(j)
<1>1. Active(i)
  BY DEF Job, Checkout, FreezeCandidate, Check, Gate, Active, Checks
<1>2. verdict[i] = "none"
  BY <1>1 DEF Promised, AllFail, FailInv, Active
<1>3. {j \in Runs : Active(j)} = {i}
  BY <1>1 DEF Promised, OnlyNewest
<1>4. ASSUME NEW j \in Runs \ {i}
      PROVE  (Active(j)' <=> Active(j)) /\ Observed(j)' = Observed(j)
  <2>1. /\ docs'[j] = docs[j] /\ cli'[j] = cli[j] /\ sha'[j] = sha[j]
        /\ step'[j] = step[j] /\ verdict'[j] = verdict[j] /\ outcome'[j] = outcome[j]
    BY DEF Promised, DriftInv, TypeOK, Job, Checkout, FreezeCandidate, Check, Gate
  <2> QED
    BY <2>1 DEF Active, Observed, Settled, Checked
<1> QED
  BY <1>1, <1>2, <1>3, <1>4

(* The step of a prepared candidate settles; an unprepared one does not. *)
LEMMA FreezeRefines ==
    ASSUME Promised, NEW i \in Runs, FreezeCandidate(i)
    PROVE  [Promise!Next]_(Promise!vars)
<1>0. /\ docs \in [Runs -> Trees] /\ sha \in [Runs -> Commits] /\ cli \in [Runs -> CliCommits]
      /\ step \in [Runs -> Steps]
  BY DEF Promised, DriftInv, TypeOK
<1>1. Job(i)
  BY DEF Job
<1>2. /\ Active(i) /\ verdict[i] = "none" /\ {j \in Runs : Active(j)} = {i}
      /\ \A j \in Runs \ {i} : (Active(j)' <=> Active(j)) /\ Observed(j)' = Observed(j)
  BY <1>1, InProgress
<1>3. /\ step[i] = "candidate" /\ outcome[i] = NoOutcome
      /\ UNCHANGED <<docs, sha, cli, outcome, verdict>>
  BY DEF FreezeCandidate, Promised, DriftInv, RunInv
<1>4. Observed(i) = <<>>
  BY <1>3 DEF Observed, Settled, Checked, NoOutcome, Checks
<1>5. CASE Prepared(i)
  <2>1. step'[i] = "examples"
    BY <1>0, <1>5 DEF FreezeCandidate
  <2>2. Observed(i)' = <<docs[i], sha[i], cli[i]>> /\ Active(i)'
    BY <1>2, <1>3, <2>1 DEF Observed, Settled, Checks, Active
  <2>3. {j \in Runs : Active(j)}' = {j \in Runs : Active(j)}
    BY <1>2, <2>2
  <2>4. Promise!Settle(i)
    BY <1>0, <1>2, <1>3, <1>4, <2>2, <2>3 DEF Promise!Settle, Observed
  <2> QED
    BY <2>4 DEF Promise!Next
<1>6. CASE ~Prepared(i)
  <2>1. step'[i] = "gate"
    BY <1>0, <1>6 DEF FreezeCandidate
  <2>2. Observed(i)' = <<>> /\ Active(i)'
    BY <1>3, <2>1 DEF Observed, Settled, Checked, NoOutcome, Checks, Active
  <2> QED
    BY <1>2, <1>3, <1>4, <2>2, QuietRefines
<1> QED
  BY <1>5, <1>6

(* Until it settles, a run that checks out is a run about nothing; from its *)
(* first check on it stays about what it settled.                          *)
LEMMA CheckRefines ==
    ASSUME Promised, NEW i \in Runs, Checkout(i) \/ Check(i)
    PROVE  UNCHANGED Promise!vars
<1>0. /\ step \in [Runs -> Steps] /\ outcome \in [Runs -> [Checks -> Outcomes]]
      /\ sha \in [Runs -> Commits]
  BY DEF Promised, DriftInv, TypeOK
<1>1. Job(i)
  BY DEF Job
<1>2. /\ Active(i) /\ verdict[i] = "none"
      /\ \A j \in Runs \ {i} : (Active(j)' <=> Active(j)) /\ Observed(j)' = Observed(j)
  BY <1>1, InProgress
<1>3. CASE Checkout(i)
  <2>1. outcome[i] = NoOutcome /\ step[i] = "checkout" /\ outcome' = outcome /\ verdict' = verdict
    BY <1>3 DEF Checkout, Promised, DriftInv, RunInv
  <2>2. step'[i] \in {"candidate", "gate"}
    BY <1>0, <1>3 DEF Checkout
  <2>3. Observed(i) = <<>> /\ Observed(i)' = <<>> /\ Active(i)'
    BY <2>1, <2>2 DEF Observed, Settled, Checked, NoOutcome, Checks, Active
  <2> QED
    BY <1>2, <2>1, <2>3, QuietRefines
<1>4. CASE Check(i)
  <2>1. step[i] \in Checks /\ verdict' = verdict /\ UNCHANGED <<docs, sha, cli>>
    BY <1>4 DEF Check
  <2>2. step'[i] = After(step[i])
    BY <1>0, <1>4 DEF Check
  <2>3. step'[i] \in Checks \cup {"gate"}
    BY <2>1, <2>2 DEF After, Checks
  <2>4. step'[i] = "gate" => step[i] = "drift"
    BY <2>1, <2>2 DEF After, Checks
  <2>5. step[i] = "drift" => Checked(i)
    BY DEF Promised, AllFail, FailInv, Taken, Checked, Checks
  <2>6. step[i] = "drift" => outcome'[i].examples = outcome[i].examples
    BY <1>0, <1>4 DEF Check, Checks
  <2>7. Settled(i) /\ Settled(i)' /\ Active(i)'
    BY <1>2, <2>1, <2>3, <2>4, <2>5, <2>6 DEF Settled, Checked, Active, Checks
  <2>8. Observed(i)' = Observed(i)
    BY <2>1, <2>7 DEF Observed
  <2> QED
    BY <1>2, <2>1, <2>7, <2>8, QuietRefines
<1> QED
  BY <1>3, <1>4

(* The gate of a run that made its checks gives the verdict of the gate run *)
(* by hand on what the run settled; of another run, it gives up.           *)
LEMMA GateRefines ==
    ASSUME Promised, NEW i \in Runs, Gate(i)
    PROVE  Promise!Next
<1>0. /\ docs \in [Runs -> Trees] /\ sha \in [Runs -> Commits] /\ cli \in [Runs -> CliCommits]
      /\ step \in [Runs -> Steps] /\ outcome \in [Runs -> [Checks -> Outcomes]]
      /\ verdict \in [Runs -> Verdicts]
  BY DEF Promised, DriftInv, TypeOK
<1>1. Job(i)
  BY DEF Job
<1>2. /\ Active(i) /\ verdict[i] = "none" /\ {j \in Runs : Active(j)} = {i}
      /\ \A j \in Runs \ {i} : (Active(j)' <=> Active(j)) /\ Observed(j)' = Observed(j)
  BY <1>1, InProgress
<1>3. step[i] = "gate" /\ UNCHANGED <<docs, sha, cli, outcome>>
  BY DEF Gate
<1>4. step'[i] = "done"
  BY <1>0 DEF Gate
<1> DEFINE v == IF \A c \in Checks : outcome[i][c] = "success" THEN "passed" ELSE "failed"
<1>5. verdict' = [verdict EXCEPT ![i] = v]
  BY DEF Gate
<1>6. Settled(i) <=> Checked(i)
  BY <1>2, <1>3 DEF Settled, Checks
<1>7. Settled(i)' <=> Checked(i)
  BY <1>0, <1>3, <1>4, <1>5 DEF Settled, Checked, Checks
<1>8. Observed(i)' = Observed(i)
  BY <1>3, <1>6, <1>7 DEF Observed
<1>9. {j \in Runs : Active(j)}' = {}
  BY <1>2, <1>4 DEF Active
<1>10. CASE Checked(i)
  <2>1. Observed(i) = <<docs[i], sha[i], cli[i]>>
    BY <1>6, <1>10 DEF Observed
  <2>2. v = IF ValidateGatewayDocs(docs[i], sha[i], cli[i]) THEN "passed" ELSE "failed"
    <3>1. CASE \A c \in Checks : outcome[i][c] = "success"
      <4>1. \A c \in Checks : Prepared(i) /\ Holds(c, i)
        BY <3>1 DEF Promised, DriftInv, RunInv, OutcomeTrue
      <4>2. sha[i] \in Buildable /\ docs[i].cli.main_commit = cli[i]
        BY <4>1 DEF Prepared, CliContract, Checks
      <4>3. ValidateGatewayDocs(docs[i], sha[i], cli[i])
        BY <4>1, <4>2 DEF Holds, Candidate, Checks, ValidateGatewayDocs
      <4> QED
        BY <3>1, <4>3
    <3>2. ASSUME NEW c \in Checks, outcome[i][c] # "success"
          PROVE  ~ValidateGatewayDocs(docs[i], sha[i], cli[i])
      <4>1. outcome[i][c] # "skipped"
        BY <1>3, <1>10 DEF Promised, AllFail, FailInv, Taken
      <4>2. outcome[i][c] = "failure"
        BY <1>0, <3>2, <4>1 DEF Outcomes
      <4>3. ~Holds(c, i)
        BY <4>2 DEF Promised, AllFail, FailInv
      <4> QED
        BY <4>3 DEF Holds, Candidate, Checks, ValidateGatewayDocs
    <3> QED
      BY <3>1, <3>2
  <2>3. <<docs[i], sha[i], cli[i]>> \in Trees \X Commits \X CliCommits
    BY <1>0
  <2> HIDE DEF v
  <2>4. Promise!Judge(i)
    BY <1>2, <1>5, <1>8, <1>9, <2>1, <2>2, <2>3 DEF Promise!Judge, Observed
  <2> QED
    BY <2>4 DEF Promise!Next
<1>11. CASE ~Checked(i)
  <2>1. Observed(i) = <<>>
    BY <1>6, <1>11 DEF Observed
  <2>2. v = "failed"
    BY <1>11 DEF Checked, Checks
  <2>3. Promise!GiveUp(i)
    BY <1>2, <1>5, <1>8, <1>9, <2>1, <2>2 DEF Promise!GiveUp, Observed
  <2> QED
    BY <2>3 DEF Promise!Next
<1> QED
  BY <1>10, <1>11

(* The workflow implements its promise: one run at a time is in progress,  *)
(* and its verdict is that of the gate run by hand on the one subject it   *)
(* settled when its checks began, for any contents of the commits and      *)
(* texts and any interleaving of runs, edits, pushes and Gateway commits.  *)
THEOREM WorkflowRefines == Spec => ImplementsGateVerdicts
<1>1. Init => Promise!Init
  BY DEF Init, Promise!Init, Active, Settled, Checked, NoOutcome, Checks
<1>2. Promised /\ [Next]_vars => [Promise!Next]_(Promise!vars)
  <2> SUFFICES ASSUME Promised, [Next]_vars PROVE [Promise!Next]_(Promise!vars)
    OBVIOUS
  <2>u. ASSUME UNCHANGED <<started, cli, jobVars>> PROVE UNCHANGED Promise!vars
    BY <2>u, QuietRefines DEF jobVars, Active, Observed, Settled, Checked
  <2>s. ASSUME NEW ref, NEW k, NEW d, Start(ref, k, d) PROVE Promise!Next
    BY <2>s, StartRefines DEF Promise!Next
  <2>1. CASE UNCHANGED vars
    BY <2>1, <2>u DEF vars
  <2>2. CASE RefreshContracts \/ RefreshGenerated \/ EditByHand \/ GatewayMoves
    BY <2>2, <2>u DEF RefreshContracts, RefreshGenerated, EditByHand, GatewayMoves, Edit
  <2>3. CASE Push \/ Schedule \/ Dispatch
    BY <2>3, <2>s DEF Push, Schedule, Dispatch
  <2>4. ASSUME NEW j \in Runs, Job(j) PROVE [Promise!Next]_(Promise!vars)
    BY <2>4, CheckRefines, FreezeRefines, GateRefines DEF Job
  <2> QED
    BY <2>1, <2>2, <2>3, <2>4 DEF Next
<1> QED
  BY <1>1, <1>2, PromisedInvariant, PTL DEF Spec, ImplementsGateVerdicts, Promise!Spec

----------------------------------------------------------------------------
(* What can be proved of NewestIsJudged without its fairness: the newest   *)
(* run is in progress or judged, and its job has at most seven steps.      *)
Rank(s) ==
    CASE s = "idle"      -> 8
      [] s = "checkout"  -> 7
      [] s = "candidate" -> 6
      [] s = "examples"  -> 5
      [] s = "metrics"   -> 4
      [] s = "schemas"   -> 3
      [] s = "drift"     -> 2
      [] s = "gate"      -> 1
      [] s = "done"      -> 0

Ahead(i) == Rank(step[i])

LEMMA Ranks ==
    /\ Rank("idle") = 8 /\ Rank("checkout") = 7 /\ Rank("candidate") = 6 /\ Rank("examples") = 5
    /\ Rank("metrics") = 4 /\ Rank("schemas") = 3 /\ Rank("drift") = 2 /\ Rank("gate") = 1
    /\ Rank("done") = 0
    /\ \A s \in Steps \ {"idle", "done"} : Rank(s) \in 1..7
    /\ \A s \in Steps : Rank(s) \in 0..8
BY DEF Rank, Steps, Checks

EndInv(i) ==
    /\ (i <= started) <=> (step[i] # "idle")
    /\ (step[i] = "done") <=> (verdict[i] # "none")
    /\ verdict[i] = "cancelled" => i < started

AllEnd == \A i \in Runs : EndInv(i)

LEMMA StartAdvances ==
    ASSUME TypeOK, AllEnd, NEW ref, NEW k, NEW d, Start(ref, k, d), NEW i \in Runs
    PROVE  EndInv(i)' /\ Ahead(i)' <= Ahead(i)
<1>1. /\ started \in Nat /\ started' = started + 1 /\ started' \in Runs /\ i \in Nat
      /\ step[i] \in Steps /\ EndInv(i) /\ EndInv(started')
  BY DEF TypeOK, Start, Runs, AllEnd
<1>2. /\ step'[i] = IF i = started' THEN "checkout" ELSE IF Active(i) THEN "done" ELSE step[i]
      /\ verdict'[i] = IF Active(i) THEN "cancelled" ELSE verdict[i]
  BY DEF Start
<1>3. step[started'] = "idle"
  BY <1>1 DEF EndInv
<1>4. CASE i = started'
  BY Ranks, <1>1, <1>2, <1>3, <1>4 DEF EndInv, Ahead, Active
<1>5. CASE i # started' /\ Active(i)
  BY Ranks, <1>1, <1>2, <1>5 DEF EndInv, Ahead, Active, Steps, Checks
<1>6. CASE i # started' /\ ~Active(i)
  BY Ranks, <1>1, <1>2, <1>6 DEF EndInv, Ahead, Active
<1> QED
  BY <1>4, <1>5, <1>6

LEMMA JobAdvances ==
    ASSUME TypeOK, AllEnd, NEW j \in Runs, Job(j), NEW i \in Runs
    PROVE  EndInv(i)' /\ Ahead(i)' <= Ahead(i) /\ (i = j => Ahead(i)' < Ahead(i))
<1>1. EndInv(i) /\ step[i] \in Steps /\ UNCHANGED started
  BY DEF TypeOK, AllEnd, Job, Checkout, FreezeCandidate, Check, Gate
<1>2. CASE i # j
  <2>1. step'[i] = step[i] /\ verdict'[i] = verdict[i]
    BY <1>2 DEF TypeOK, Job, Checkout, FreezeCandidate, Check, Gate
  <2> QED
    BY Ranks, <1>1, <1>2, <2>1 DEF EndInv, Ahead, Steps, Checks
<1>3. CASE i = j
  <2> USE Ranks, <1>1, <1>3 DEF EndInv, Ahead
  <2>1. CASE Checkout(j)
    <3>1. step[i] = "checkout" /\ step'[i] \in {"candidate", "gate"} /\ verdict' = verdict
      BY <2>1 DEF Checkout, TypeOK
    <3> QED
      BY <3>1
  <2>2. CASE FreezeCandidate(j)
    <3>1. step[i] = "candidate" /\ step'[i] \in {"examples", "gate"} /\ verdict' = verdict
      BY <2>2 DEF FreezeCandidate, TypeOK
    <3> QED
      BY <3>1
  <2>3. CASE Check(j)
    <3>1. step[i] \in Checks /\ step'[i] = After(step[i]) /\ verdict' = verdict
      BY <2>3 DEF Check, TypeOK
    <3> QED
      BY <3>1 DEF Checks, After
  <2>4. CASE Gate(j)
    <3>1. step[i] = "gate" /\ step'[i] = "done" /\ verdict'[i] \in {"passed", "failed"}
      BY <2>4 DEF Gate, TypeOK
    <3> QED
      BY <3>1
  <2> QED
    BY <2>1, <2>2, <2>3, <2>4 DEF Job
<1> QED
  BY <1>2, <1>3

LEMMA RunsAdvance ==
    TypeOK /\ AllEnd /\ [Next]_vars =>
        /\ AllEnd'
        /\ \A i \in Runs : /\ Ahead(i)' <= Ahead(i)
                           /\ (Job(i) => Ahead(i)' < Ahead(i))
<1> SUFFICES ASSUME TypeOK, AllEnd, [Next]_vars, NEW i \in Runs
             PROVE  EndInv(i)' /\ Ahead(i)' <= Ahead(i) /\ (Job(i) => Ahead(i)' < Ahead(i))
  BY DEF AllEnd
<1>1. ASSUME NEW j \in Runs, Job(j) PROVE EndInv(i)' /\ Ahead(i)' <= Ahead(i)
  BY <1>1, JobAdvances
<1>2. Job(i) => Ahead(i)' < Ahead(i)
  BY JobAdvances
<1>3. ASSUME Push \/ Schedule \/ Dispatch PROVE EndInv(i)' /\ Ahead(i)' <= Ahead(i)
  BY <1>3, StartAdvances DEF Push, Schedule, Dispatch
<1>4. ASSUME UNCHANGED <<started, jobVars>> PROVE EndInv(i)' /\ Ahead(i)' <= Ahead(i)
  <2>1. EndInv(i) /\ step[i] \in Steps
    BY DEF AllEnd, TypeOK
  <2> QED
    BY Ranks, <1>4, <2>1 DEF EndInv, Ahead, jobVars, Steps, Checks
<1>5. ASSUME RefreshContracts \/ RefreshGenerated \/ EditByHand \/ GatewayMoves \/ UNCHANGED vars
      PROVE  EndInv(i)' /\ Ahead(i)' <= Ahead(i)
  BY <1>4, <1>5 DEF RefreshContracts, RefreshGenerated, EditByHand, GatewayMoves, Edit, vars
<1> QED
  BY Ranks, <1>1, <1>2, <1>3, <1>5 DEF Next

(* gateway-contract-drift.yml: a job has at most seven steps, and nothing  *)
(* that maintainers, the Gateway or other runs do sets a run back; the     *)
(* newest run is in progress or was judged, for only older ones are        *)
(* cancelled.                                                              *)
THEOREM JobsAdvance ==
    Spec => /\ [][\A i \in Runs : /\ Ahead(i)' <= Ahead(i)
                                  /\ (Job(i) => Ahead(i)' < Ahead(i))]_vars
            /\ [](\A i \in Runs : (i = started) => \/ (Active(i) /\ Ahead(i) \in 1..7)
                                                 \/ verdict[i] \in {"passed", "failed"})
<1>1. Init => AllEnd
  BY DEF Init, AllEnd, EndInv, Runs
<1>2. TypeOK /\ AllEnd =>
        \A i \in Runs : (i = started) => \/ (Active(i) /\ Ahead(i) \in 1..7)
                                      \/ verdict[i] \in {"passed", "failed"}
  <2> SUFFICES ASSUME TypeOK, AllEnd, NEW i \in Runs, i = started
               PROVE  (Active(i) /\ Ahead(i) \in 1..7) \/ verdict[i] \in {"passed", "failed"}
    OBVIOUS
  <2>1. EndInv(i) /\ step[i] \in Steps /\ verdict[i] \in Verdicts /\ i \in Int
    BY DEF TypeOK, AllEnd, Runs
  <2>2. CASE step[i] = "done"
    BY <2>1, <2>2 DEF EndInv, Verdicts
  <2>3. CASE step[i] # "done"
    BY Ranks, <2>1, <2>3 DEF EndInv, Active, Ahead, Steps, Checks
  <2> QED
    BY <2>2, <2>3
<1> QED
  BY <1>1, <1>2, RunsAdvance, TypeCorrect, PTL DEF Spec
=============================================================================
