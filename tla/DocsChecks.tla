----------------------------- MODULE DocsChecks -----------------------------
(***************************************************************************)
(* The static checks of the documentation, as predicates of a tree of the  *)
(* documentation repository and of the contract it is checked against.     *)
(*                                                                         *)
(* A contract is frozen from one commit of the Gateway repository or of    *)
(* the CLI repository (refresh_example_contracts.py).  From it, from the   *)
(* public pages and from the example assets the tools generate further     *)
(* files: docs/reference/metrics.md and api-schema-models.md, the example  *)
(* inventory, the coverage ledger and the file-body bindings.  A --check   *)
(* generates a file again and compares.                                    *)
(*                                                                         *)
(* What a commit or a text contains is abstract: the constants below say   *)
(* which parts of two commits, or of two texts, are the same.              *)
(***************************************************************************)

CONSTANTS Commits,      \* commits of the Gateway repository
          CliCommits,   \* commits of the CLI repository
          Texts,        \* versions of the public pages and the example assets
          Swagger,      \* Gateway commit -> both Swagger files
          Manifest,     \* Gateway commit -> metric manifest and recorder labels
          Evidence,     \* Gateway commit -> catalog, claims, scenarios, eBPF pin
          Buildable,    \* Gateway commits a contract can be frozen at
          Classified,   \* Gateway commits with a note for each added definition
          Blocks,       \* text -> its fenced blocks with path and line
          Headings,     \* text -> its headings and status markers
          Producers,    \* text -> its jq producers and the assets they read
          Accepted      \* <<text, Gateway commit, CLI commit>> without errors

ASSUME DocsAssumption ==
    /\ Buildable \subseteq Commits
    /\ Classified \subseteq Commits
    /\ Accepted \subseteq Texts \X Commits \X CliCommits

----------------------------------------------------------------------------
(* build_gateway_contract: every file is read from the one resolved commit *)
(* (git show).  It raises outside Buildable.                               *)
GatewayContract(g) ==
    [commit |-> g, swagger |-> Swagger[g], manifest |-> Manifest[g], evidence |-> Evidence[g]]

(* build_cli_contract, as the bytes that write_json writes.  A file that   *)
(* was reformatted holds the same value in other bytes.                    *)
CliContract(k) == [main_commit |-> k, reformatted |-> FALSE]

(* The rendered pages name the commit they were rendered from. *)
RenderMetrics(c) == [commit |-> c.commit, manifest |-> c.manifest]
RenderSchemas(c) == [commit |-> c.commit, swagger |-> c.swagger]

InventoryOf(t) == [blocks |-> Blocks[t], headings |-> Headings[t]]

LedgerOf(d) == [blocks |-> Blocks[d.text], operations |-> d.gateway.swagger,
                gateway_commit |-> d.gateway.commit, cli_commit |-> d.cli.main_commit]

GatewayContracts == {GatewayContract(g) : g \in Commits}
CliContracts == [main_commit : CliCommits, reformatted : BOOLEAN]

(* A tree of the documentation repository. *)
Trees == [gateway   : GatewayContracts,
          cli       : CliContracts,
          text      : Texts,
          metrics   : {RenderMetrics(c) : c \in GatewayContracts},
          schemas   : {RenderSchemas(c) : c \in GatewayContracts},
          inventory : {InventoryOf(t) : t \in Texts},
          bindings  : {Producers[t] : t \in Texts},
          ledger    : [blocks : {Blocks[t] : t \in Texts}, operations : {Swagger[g] : g \in Commits},
                       gateway_commit : Commits, cli_commit : CliCommits],
          tuple     : Commits \X CliCommits,
          pins      : Commits \X CliCommits]

(* A tree in which everything was generated from the same sources. *)
FreshTree(g, k, t) ==
    LET c == GatewayContract(g) IN
    [gateway |-> c, cli |-> CliContract(k), text |-> t,
     metrics |-> RenderMetrics(c), schemas |-> RenderSchemas(c),
     inventory |-> InventoryOf(t), bindings |-> Producers[t],
     ledger |-> [blocks |-> Blocks[t], operations |-> c.swagger,
                 gateway_commit |-> g, cli_commit |-> k],
     tuple |-> <<g, k>>, pins |-> <<g, k>>]

----------------------------------------------------------------------------
(* Mutated form of the next definition: compare_contracts without the      *)
(* comparison of the metric manifests.                                     *)
DriftedNotManifest(b, c) == b.swagger # c.swagger \/ b.evidence # c.evidence

(* compare_contracts: every part but the commit itself is compared. *)
Drifted(b, c) == b.swagger # c.swagger \/ b.manifest # c.manifest \/ b.evidence # c.evidence

(* validate_repository with the contracts of Gateway commit g and CLI      *)
(* commit k: the inventory lists the blocks of the text where they are,    *)
(* each file body is bound to its producer, and nothing in the blocks is   *)
(* rejected.  The inventory's other columns are not compared here.         *)
ValidateExamples(d, g, k) ==
    /\ d.inventory.blocks = Blocks[d.text]
    /\ d.bindings = Producers[d.text]
    /\ <<d.text, g, k>> \in Accepted

(* render_metrics_reference.py --check and render_schema_reference.py      *)
(* --check; the latter raises for a definition without a note.             *)
MetricsCurrent(d, c) == d.metrics = RenderMetrics(c)
SchemasCurrent(d, c) == c.commit \in Classified /\ d.schemas = RenderSchemas(c)

(* The unit tests: the commits of the tracked contracts are the ones that  *)
(* verification-status.md names and the ones that the tests name           *)
(* themselves.  What else they pin (the eBPF and release commits, counts   *)
(* of pages and families) varies in no tree here.                          *)
TestsPass(d) ==
    /\ d.tuple = <<d.gateway.commit, d.cli.main_commit>>
    /\ d.pins = <<d.gateway.commit, d.cli.main_commit>>

(* Mutated form of the next definition: the job without the ledger check. *)
CIWithoutLedger(d) ==
    /\ d.bindings = Producers[d.text]
    /\ ValidateExamples(d, d.gateway.commit, d.cli.main_commit)
    /\ d.inventory = InventoryOf(d.text)
    /\ TestsPass(d)

(* The "examples" job of ci.yml.                                           *)
CIPasses(d) ==
    /\ d.bindings = Producers[d.text]
    /\ d.ledger = LedgerOf(d)
    /\ ValidateExamples(d, d.gateway.commit, d.cli.main_commit)
    /\ d.inventory = InventoryOf(d.text)
    /\ TestsPass(d)

(* validate_gateway_docs.py: the same gate run by hand.  It compares the   *)
(* CLI contract as a value.                                                *)
ValidateGatewayDocs(d, g, k) ==
    /\ g \in Buildable
    /\ d.cli.main_commit = k
    /\ ValidateExamples(d, g, k)
    /\ ~Drifted(d.gateway, GatewayContract(g))
    /\ MetricsCurrent(d, GatewayContract(g))
    /\ SchemasCurrent(d, GatewayContract(g))
=============================================================================
