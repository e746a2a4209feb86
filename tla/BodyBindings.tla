---------------------------- MODULE BodyBindings ----------------------------
(***************************************************************************)
(* tools/refresh_body_bindings.py: which body a documented                 *)
(* `-d @file` stands for.  document() runs the two jq commands it finds on *)
(* the pages over every input asset and records hashes and bodies;         *)
(* load_bound_bodies(), which the example validator calls, trusts that     *)
(* file as long as what it recorded is still there.  Authors edit assets   *)
(* and pages, and the file itself, at any time.                            *)
(*                                                                         *)
(* Contents are versions.  A body is what it was made from: the asset and  *)
(* the block of every command that had a part in it.  A hash is the thing  *)
(* it is the hash of.                                                      *)
(***************************************************************************)
EXTENDS Integers, FiniteSets

CONSTANTS BdAssets,     \* names of matrix-configurations/*.json
          BdCount,      \* the number of assets that document() insists on
          BdVersions,   \* contents of a file or of a block
          BdCopies,     \* bound: equal producer blocks on a page
          BdHandEdits   \* bound: kinds of edits of the file between two refreshes

BdPages == {"configure", "verify"}              \* the pages with a producer
BdRefs  == BdPages \cup {"lifecycle"}           \* the pages that refer to a body

ASSUME BindingAssumption ==
    /\ BdCount \in Nat /\ BdCopies \in Nat \ {0} /\ BdHandEdits \in Nat
    /\ IsFiniteSet(BdAssets)

VARIABLES assetFile,    \* name -> version, of the assets that exist
          producers,    \* per page and version, how many blocks produce its body
          bindings,     \* body-bindings.json: {} when missing, else one record
          hand          \* history: kinds of edits of the file since it was written

bdVars == <<assetFile, producers, bindings, hand>>

AssetFiles == UNION {[names -> BdVersions] : names \in SUBSET BdAssets}

(* The body of configure.md is an input of the command of verify.md.       *)
Inputs(p) == IF p = "configure" THEN {"configure"} ELSE BdPages

BodyOf(p, version, block) == [asset |-> version, blocks |-> [q \in Inputs(p) |-> block[q]]]

(* "bindings" of document(): which body each reference stands for. *)
BodyNamed == [r \in BdRefs |-> IF r = "lifecycle" THEN "configure" ELSE r]

OneBlock(p, v) == producers[p] = [w \in BdVersions |-> IF w = v THEN 1 ELSE 0]

Document ==
    LET block == [p \in BdPages |-> CHOOSE v \in BdVersions : OneBlock(p, v)]
        body  == [a \in DOMAIN assetFile |-> [p \in BdPages |-> BodyOf(p, assetFile[a], block)]]
    IN  [block |-> block, command |-> block, asset |-> assetFile,
         body |-> body, sum |-> body, named |-> BodyNamed]

(* Mutated forms, to see that the property can fail. *)
DocumentAnyCount == \A p \in BdPages : \E v \in BdVersions : OneBlock(p, v)

(* One jq producer on each page, and all 30 assets. *)
DocumentSucceeds ==
    /\ \A p \in BdPages : \E v \in BdVersions : OneBlock(p, v)
    /\ Cardinality(DOMAIN assetFile) = BdCount

BdInit ==
    /\ \E v \in BdVersions, names \in SUBSET BdAssets :
          /\ Cardinality(names) = BdCount
          /\ assetFile = [a \in names |-> v]
          /\ producers = [p \in BdPages |-> [w \in BdVersions |-> IF w = v THEN 1 ELSE 0]]
    /\ bindings = {}
    /\ hand = {}

EditAsset ==
    /\ \E a \in BdAssets, v \in BdVersions :
          assetFile' = [b \in DOMAIN assetFile \cup {a} |-> IF b = a THEN v ELSE assetFile[b]]
    /\ UNCHANGED <<producers, bindings, hand>>

RemoveAsset ==
    /\ \E a \in DOMAIN assetFile :
          assetFile' = [b \in DOMAIN assetFile \ {a} |-> assetFile[b]]
    /\ UNCHANGED <<producers, bindings, hand>>

EditPage ==
    /\ \E p \in BdPages, counts \in [BdVersions -> 0..BdCopies] :
          producers' = [producers EXCEPT ![p] = counts]
    /\ UNCHANGED <<assetFile, bindings, hand>>

(* The file is edited by hand: a body, or a body and its hash; the hash of *)
(* an asset or of a block; a record is taken out; a reference is bound to  *)
(* another body, or to none; a command.                                    *)
BodyEdits(b) == {[b EXCEPT !.body[a][p].asset = "hand"] : a \in DOMAIN b.asset, p \in BdPages}

HashedBodyEdits(b) == {[d EXCEPT !.sum = d.body] : d \in BodyEdits(b)}

HashEdits(b) ==
    {[b EXCEPT !.asset[a] = v] : a \in DOMAIN b.asset, v \in BdVersions}
    \cup {[b EXCEPT !.block[p] = v] : p \in BdPages, v \in BdVersions}

RecordEdits(b) ==
    {[b EXCEPT !.asset = [x \in DOMAIN b.asset \ {a} |-> b.asset[x]]] : a \in DOMAIN b.asset}

ReferenceEdits(b) == {[b EXCEPT !.named[r] = n] : r \in BdRefs, n \in BdPages \cup {"none"}}

CommandEdits(b) == {[b EXCEPT !.command[p] = "hand"] : p \in BdPages}

HandEdits(b, kind) ==
    CASE kind = "body"        -> BodyEdits(b)
      [] kind = "hashed body" -> HashedBodyEdits(b)
      [] kind = "hash"        -> HashEdits(b)
      [] kind = "record"      -> RecordEdits(b)
      [] kind = "reference"   -> ReferenceEdits(b)
      [] kind = "command"     -> CommandEdits(b)

HandKinds == {"body", "hashed body", "hash", "record", "reference", "command"}

EditBindings ==
    /\ Cardinality(hand) < BdHandEdits
    /\ \E b \in bindings, kind \in HandKinds :
          /\ \E d \in HandEdits(b, kind) : bindings' = {d}
          /\ hand' = hand \cup {kind}
    /\ UNCHANGED <<assetFile, producers>>

LoseBindings ==
    /\ bindings' = {} /\ hand' = {}
    /\ UNCHANGED <<assetFile, producers>>

RefreshAppends ==
    /\ DocumentSucceeds
    /\ bindings' = bindings \cup {Document}
    /\ hand' = {}
    /\ UNCHANGED <<assetFile, producers>>

RefreshBindings ==
    /\ DocumentSucceeds
    /\ bindings' = {Document}
    /\ hand' = {}
    /\ UNCHANGED <<assetFile, producers>>

BdNext ==
    \/ EditAsset \/ RemoveAsset \/ EditPage
    \/ EditBindings \/ LoseBindings \/ RefreshBindings

BdSpec == BdInit /\ [][BdNext]_bdVars

----------------------------------------------------------------------------
CheckPasses == DocumentSucceeds /\ bindings = {Document}

(* Some block of the page is still the one that was recorded. *)
ProducerPresent(recorded) ==
    \A p \in BdPages : recorded.block[p] \in BdVersions /\ producers[p][recorded.block[p]] > 0

(* What load_bound_bodies returns for a reference, when it accepts the     *)
(* file.  It never looks at the recorded command.                          *)
LoadAccepts(recorded, ref) ==
    LET name == recorded.named[ref]
    IN  /\ name # "none"
        /\ ProducerPresent(recorded)
        /\ \A a \in DOMAIN recorded.asset :
              /\ a \in DOMAIN assetFile /\ assetFile[a] = recorded.asset[a]
              /\ recorded.body[a][name] = recorded.sum[a][name]

LoadedBodies(recorded, ref) ==
    [a \in DOMAIN recorded.asset |-> recorded.body[a][recorded.named[ref]]]

----------------------------------------------------------------------------
BdTypeOK ==
    /\ assetFile \in AssetFiles
    /\ producers \in [BdPages -> [BdVersions -> 0..BdCopies]]
    /\ Cardinality(bindings) \in 0..1
    /\ hand \subseteq HandKinds
    /\ \A b \in bindings :
          /\ b.asset \in AssetFiles
          /\ b.named \in [BdRefs -> BdPages \cup {"none"}]

(* load_bound_bodies compares only what was recorded: an asset or a block  *)
(* added since is not noticed, and the command is not read.  Yet whenever  *)
(* the bindings could be generated at all, what it returns for a reference *)
(* is what would be generated: adding an asset makes too many, adding a    *)
(* producer makes two, and replacing one removes what was recorded.  That  *)
(* holds for a file in which nothing but bodies and commands was edited by *)
(* hand, and for any file that --check accepts: a record taken out, a      *)
(* reference bound to another body, a body edited with its hash or a hash  *)
(* alone can pass here, and it takes --check to notice.                    *)
LoadedIsCurrent ==
    \A b \in bindings, ref \in BdRefs :
        LoadAccepts(b, ref) /\ DocumentSucceeds
        /\ (hand \subseteq {"body", "command"} \/ CheckPasses)
        => LoadedBodies(b, ref) = LoadedBodies(Document, ref)
=============================================================================
