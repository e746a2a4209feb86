-------------------------- MODULE ExampleInventory --------------------------
(***************************************************************************)
(* The inventory of the public examples: refresh_example_inventory.py      *)
(* classifies every fenced block of the pages, validate_examples.py        *)
(* compares the inventory with the pages, and ci.yml runs both.            *)
(*                                                                         *)
(* Authors insert and delete lines, exclude a page from the site or change *)
(* the recorded status of a block; the inventory stays as it is until it   *)
(* is refreshed.  Its identities are <<path, language, text, ordinal>> (a  *)
(* hash of these in the code), and so do not move with the lines.          *)
(***************************************************************************)
EXTENDS ExampleCommands

CONSTANTS Paths,        \* pages
          Quickstart,   \* the page of the canonical mutation workflow
          Cleanup,      \* commands with the text of a removal
          Vocabulary,   \* bound: lines an author may insert
          Templates,    \* bound: pages to begin with
          MaxEdits      \* bound: changes by hand

ASSUME InventoryAssumption ==
    /\ Quickstart \in Paths
    /\ Cleanup \subseteq Commands
    /\ MaxEdits \in Nat

VARIABLES pages,        \* path -> its lines
          public,       \* paths that exclude_docs leaves in
          inventory,    \* identity -> entry
          edits         \* changes by hand so far

vars == <<pages, public, inventory, edits>>

Statuses == {"verified", "blocked", "illustrative-only"}

(* Status markers, as they are written, and the other lines with a meaning *)
(* of their own.  One line stands for all headings of the quality contract *)
(* and one for the names of the receipts and state files of the workflow.  *)
Markers == {"status verified", "status Verified", "status blocked", "status illustrative-only"}
Written(marker) ==
    CASE marker = "status verified" -> "verified"
      [] marker = "status Verified" -> "Verified"
      [] marker = "status blocked" -> "blocked"
      [] marker = "status illustrative-only" -> "illustrative-only"
Lower(status) == IF status = "Verified" THEN "verified" ELSE status
Workflows == {"workflow quickstart-model-route", "workflow other"}
Canonical == "workflow quickstart-model-route"
Headings == "headings"
Oracle == "oracle"
Lines == Commands \cup Openings \cup Markers \cup Workflows
            \cup {"fence bash title", Headings, Oracle, Comment, MainOnly, "text"}

ASSUME PagesAssumption ==
    /\ Vocabulary \subseteq Lines
    /\ Templates \subseteq [Paths -> Seq(Lines)]

----------------------------------------------------------------------------
(* collect_public_blocks, in the order of the pages; a block that occurs   *)
(* again on its page has the next ordinal.                                 *)
CollectedOf(p) ==
    LET blocks == MarkdownBlocks(pages[p])
        ordinal(b) == Cardinality({c \in blocks : /\ c.language = b.language
                                                  /\ c.text = b.text
                                                  /\ c.line <= b.line})
    IN  {[id |-> <<p, b.language, b.text, ordinal(b)>>,
          path |-> p, line |-> b.line, language |-> b.language, text |-> b.text] : b \in blocks}

Collected == UNION {CollectedOf(p) : p \in public}

(* The last line of the page before the block that is in S, as a set. *)
LastAbove(b, S) ==
    LET above == {i \in 1..(b.line - 1) : pages[b.path][i] \in S}
    IN  {pages[b.path][i] : i \in {i \in above : \A j \in above : j <= i}}

(* Mutated form of the next definition: without lower(). *)
ExplicitStatusAsWritten(b) == {Written(m) : m \in LastAbove(b, Markers)}

ExplicitStatus(b) == {Lower(Written(m)) : m \in LastAbove(b, Markers)}

(* Mutated form of the next definition: a marker anywhere on the page. *)
InWorkflowAnywhere(b) == Canonical \in Range(pages[b.path])

InWorkflow(b) == Canonical \in LastAbove(b, Workflows)

(* canonical_mutation_requirements: each is looked for in the sources of   *)
(* the quickstart, wherever the block is.                                  *)
Requirements ==
    [oracle  |-> Oracle \in Range(pages[Quickstart]),
     cleanup |-> Cleanup \cap Range(pages[Quickstart]) # {}]

Quality(b) == b.language = "bash" /\ Headings \in Range(pages[b.path])

(* Does the text, its comments included, name a command the contracts are  *)
(* about?  For curl these are /netlox/v1 and $CONTROL_API, not the third   *)
(* spelling that _management_route knows, $GATEWAY_API.                    *)
Names(text, word) ==
    \E l \in Range(text) : l \in DOMAIN Mentions /\ word \in Mentions[l]

Contracted(text) ==
    Names(text, "loxicmd") \/ (Names(text, "curl") /\ Names(text, "control API"))

(* Mutated form of the next definition: the markers come first. *)
ClassifyMarkerFirst(b) ==
    CASE ExplicitStatus(b) # {} -> CHOOSE s \in ExplicitStatus(b) : TRUE
      [] ExplicitStatus(b) = {} /\ MutationOperations(b.text) # {} /\ ~InWorkflow(b) -> "illustrative-only"
      [] OTHER -> IF Contracted(b.text) /\ Quality(b) THEN "verified" ELSE "illustrative-only"

(* classify: a mutation outside the canonical workflow is a fragment,      *)
(* whatever the page says of its examples.                                 *)
Classify(b) ==
    CASE MutationOperations(b.text) # {} /\ ~InWorkflow(b) -> "illustrative-only"
      [] (MutationOperations(b.text) = {} \/ InWorkflow(b)) /\ ExplicitStatus(b) # {} ->
            CHOOSE s \in ExplicitStatus(b) : TRUE
      [] OTHER -> IF Contracted(b.text) /\ Quality(b) THEN "verified" ELSE "illustrative-only"

NoContract == [mode |-> "none", operations |-> {}, oracle |-> FALSE, cleanup |-> FALSE]

Entry(b) ==
    LET operations == MutationOperations(b.text) IN
    [line |-> b.line, status |-> Classify(b), quality |-> Quality(b),
     mutation |-> IF operations = {} THEN NoContract
                  ELSE [mode |-> IF InWorkflow(b) THEN "standalone-workflow"
                                 ELSE "illustrative-fragment",
                        operations |-> operations,
                        oracle |-> Requirements.oracle, cleanup |-> Requirements.cleanup]]

(* refresh_example_inventory.py: the whole document is generated anew. *)
Document ==
    LET blocks == Collected
    IN  [id \in {b.id : b \in blocks} |-> Entry(CHOOSE b \in blocks : b.id = id)]

----------------------------------------------------------------------------
(* validate_examples.py *)

(* validate_inventory, over the collected blocks: first the identities. *)
StaleErrors(blocks) ==
    LET ids == {b.id : b \in blocks}
    IN  {<<"stale", id>> : id \in DOMAIN inventory \ ids}
            \cup {<<"not classified", id>> : id \in ids \ DOMAIN inventory}

(* Mutated form of the next definition: the line is not compared. *)
PlaceErrorsNone(b) == FALSE

PlaceErrors(b) == inventory[b.id].line # b.line

(* The same text twice, on whatever pages and in whatever language. *)
DuplicateErrors(blocks) ==
    {<<"duplicate", b.id>> : b \in {b \in blocks : \E c \in blocks : c # b /\ c.text = b.text}}

QualityErrors(b) == inventory[b.id].status = "verified" /\ ~inventory[b.id].quality

(* The mode and the status of a mutation belong together. *)
ModeErrors(entry) ==
    \/ entry.mutation.mode = "standalone-workflow" /\ entry.status # "verified"
    \/ entry.mutation.mode = "illustrative-fragment" /\ entry.status # "illustrative-only"
    \/ entry.mutation.mode = "none"

(* The contract of a mutation is complete, and only a mutation has one.    *)
MutationErrors(b) ==
    LET operations == MutationOperations(b.text)
        entry == inventory[b.id]
        contract == entry.mutation
    IN  IF operations = {} THEN IF contract = NoContract THEN {} ELSE {"no mutation"}
        ELSE {e \in {"operations", "mode", "requirements"} :
                \/ e = "operations" /\ contract.operations # operations
                \/ e = "mode" /\ ModeErrors(entry)
                \/ e = "requirements" /\ ~(contract.oracle /\ contract.cleanup)}

EntryErrors(b) ==
    {<<e, b.id>> : e \in MutationErrors(b) \cup {e \in {"line", "quality"} :
                            \/ e = "line" /\ PlaceErrors(b)
                            \/ e = "quality" /\ QualityErrors(b)}}

InventoryErrors(blocks) ==
    StaleErrors(blocks) \cup DuplicateErrors(blocks)
        \cup UNION {EntryErrors(b) : b \in {b \in blocks : b.id \in DOMAIN inventory}}

(* validate_repository of the commands in a block. *)
CommandsAccepted(b) ==
    /\ \A t \in ShellCommands(b.text, "loxicmd") : CliAccepted(Args(t), b.text)
    /\ \A t \in ShellCommands(b.text, "curl") : CurlAccepted(t)

(* validate_examples.py passes; ci.yml also generates the inventory anew.  *)
Validates(blocks) == InventoryErrors(blocks) = {} /\ \A b \in blocks : CommandsAccepted(b)
CIPasses(blocks) == Validates(blocks) /\ inventory = Document

----------------------------------------------------------------------------
Init ==
    /\ pages \in Templates
    /\ public = Paths
    /\ inventory = Document
    /\ edits = 0

ByHand == edits < MaxEdits /\ edits' = edits + 1

InsertLine ==
    /\ ByHand
    /\ \E p \in Paths : \E i \in 0..Len(pages[p]), l \in Vocabulary :
          pages' = [pages EXCEPT ![p] = InsertAt(@, i + 1, l)]
    /\ UNCHANGED <<public, inventory>>

DeleteLine ==
    /\ ByHand
    /\ \E p \in Paths : \E i \in 1..Len(pages[p]) :
          pages' = [pages EXCEPT ![p] = RemoveAt(@, i)]
    /\ UNCHANGED <<public, inventory>>

(* exclude_docs of mkdocs.yml; snippets are always scanned. *)
Exclude ==
    /\ ByHand
    /\ \E p \in public \ {Quickstart} : public' = public \ {p}
    /\ UNCHANGED <<pages, inventory>>

(* An entry of the tracked file is given another status, or its mutation   *)
(* the mode of a workflow or of a fragment.                                *)
Modes == {"standalone-workflow", "illustrative-fragment"}

EditEntry ==
    /\ ByHand
    /\ \E id \in DOMAIN inventory :
          \/ \E status \in Statuses : inventory' = [inventory EXCEPT ![id].status = status]
          \/ /\ inventory[id].mutation # NoContract
             /\ \E mode \in Modes : inventory' = [inventory EXCEPT ![id].mutation.mode = mode]
    /\ inventory' # inventory
    /\ UNCHANGED <<pages, public>>

Refresh ==
    /\ inventory # Document
    /\ inventory' = Document
    /\ UNCHANGED <<pages, public, edits>>

Next == InsertLine \/ DeleteLine \/ Exclude \/ EditEntry \/ Refresh

Spec == Init /\ [][Next]_vars

----------------------------------------------------------------------------
TypeOK ==
    /\ pages \in [Paths -> Seq(Lines)]
    /\ public \subseteq Paths
    /\ \A id \in DOMAIN inventory : inventory[id].status \in Statuses
    /\ edits \in 0..MaxEdits

(* An inventory that is not refreshed after blocks were added, removed,    *)
(* moved or changed is rejected by validate_examples.py alone, which is    *)
(* all that the drift workflow runs: what it accepts has one entry for     *)
(* each block, with the line where it is and the mutations in it.          *)
ValidatedIsCurrent ==
    LET blocks == Collected IN
    Validates(blocks) =>
        /\ DOMAIN inventory = {b.id : b \in blocks}
        /\ \A b, c \in blocks : b.text = c.text => b = c
        /\ \A b \in blocks : /\ inventory[b.id].line = b.line
                             /\ inventory[b.id].mutation.operations = MutationOperations(b.text)

(* The mutations written in a text, as validate_cli_command and a shell    *)
(* read it: a persistent option may precede the path of a command.         *)
Mutations(text) ==
    {t \in ShellCommands(text, "curl") :
        Method(t) \in MutatingMethods /\ ManagementRoute(t) # NoRoute}
    \cup {t \in ShellCommands(text, "loxicmd") :
        \E p \in PathAfterOptions(Args(t)) : Mutates(p)}

OptionFirst(t) == t[1] = "loxicmd" /\ Leading(Args(t)) # 0

BelowWorkflowMarker(b) == \E i \in 1..(b.line - 1) : pages[b.path][i] = Canonical

(* When ci.yml passes, a block with a mutation is verified only below the  *)
(* marker of the canonical workflow, and that workflow still has its       *)
(* oracle and its cleanup, although they are on another page that is       *)
(* edited without it.  The one gap is named: a block whose only mutations  *)
(* have an option before their path, which mutation_operations does not    *)
(* see.                                                                    *)
VerifiedMutationHasWorkflow ==
    LET blocks == Collected IN
    CIPasses(blocks) => \A b \in blocks :
        \/ \A t \in Mutations(b.text) : OptionFirst(t)
        \/ /\ Oracle \in Range(pages[Quickstart])
           /\ \E l \in Cleanup : l \in Range(pages[Quickstart])
           /\ inventory[b.id].status = "verified" => BelowWorkflowMarker(b)

(* What docs/reference/example-quality-contract.md:18-19 says: "The        *)
(* documentation gate discovers these commands from their syntax. A new    *)
(* mutation cannot silently inherit a page-level `verified` label."  It    *)
(* does not hold of a mutation with an option before its path.             *)
NoMutationInheritsVerified ==
    LET blocks == Collected IN
    CIPasses(blocks) => \A b \in blocks :
        Mutations(b.text) # {} /\ inventory[b.id].status = "verified" => BelowWorkflowMarker(b)

(* Refreshing settles every difference between the pages and the           *)
(* inventory: what is left is about the content of the pages, and no       *)
(* fragment is left with a status that the validator refuses.              *)
RefreshSettles ==
    inventory = Document =>
        LET blocks == Collected IN
        \A e \in InventoryErrors(blocks) :
            \/ e[1] \in {"duplicate", "quality", "requirements"}
            \/ e[1] = "mode" /\ \E b \in blocks : b.id = e[2] /\ Canonical \in Range(pages[b.path])
=============================================================================
