------------------------- MODULE ModelEnginePackage -------------------------
(***************************************************************************)
(* tools/package_model_engine_examples.py: any number of invocations       *)
(* (builds and --check runs) work on one docs/assets directory while       *)
(* people and other tools edit it.  An invocation reads the directory file *)
(* by file, so what it holds in memory need not be any state the directory *)
(* was ever in; a build reads it twice and gives up when the two reads     *)
(* differ, then renames SHA256SUMS and the ZIP into place one after the    *)
(* other, and every invocation ends by comparing both with what it read.   *)
(*                                                                         *)
(* The content of a file is a version number, 0 for a file that does not   *)
(* exist.  SHA256SUMS and the ZIP are modelled by the tree they describe   *)
(* (SHA-256 and the deterministic ZIP writer are injective here).          *)
(***************************************************************************)
EXTENDS Integers, FiniteSets

CONSTANTS Builds,       \* invocations without --check
          Checks,       \* invocations with --check
          NFiles,       \* number of file names, in sorted order 1..NFiles
          MaxVersion,   \* bound: versions a file can have
          MaxEdits,     \* bound: edits of single files
          MayRevert,    \* can an edit bring back earlier content of a file?
          ValidTrees,   \* trees that validate_package accepts, without symlinks
          NoPackage     \* nothing is published

Files    == 1..NFiles
Versions == 0..MaxVersion
Trees    == [Files -> Versions]
Runs     == Builds \cup Checks
Empty    == [f \in Files |-> 0]

ASSUME PackageAssumption ==
    /\ NFiles \in Nat
    /\ MaxVersion \in Nat
    /\ MaxEdits \in Nat
    /\ MayRevert \in BOOLEAN
    /\ ValidTrees \subseteq Trees
    /\ NoPackage \notin Trees
    /\ Builds \cap Checks = {}

VARIABLES tree,         \* the source files on disk
          edits,        \* edits so far
          sums,         \* the tree the published SHA256SUMS lists
          zip,          \* the tree the published ZIP holds
          pc,           \* next step of each invocation
          todo,         \* files its present pass over the directory has yet to read
          seen,         \* what validate_package, then the first files(), read
          again,        \* what the second files() read
          snap,         \* history: the directory when the second files() listed it
          disturbed     \* history: another actor wrote since the invocation began

vars == <<tree, edits, sums, zip, pc, todo, seen, again, snap, disturbed>>

(* The running states, in program order, and the three ways to end. *)
Running  == {"validate", "scan", "rescan", "replaceSums", "replaceZip",
             "checkSums", "checkZip"}
Finished == {"passed", "failed", "crashed"}

Init ==
    /\ tree \in Trees
    /\ edits = 0
    /\ sums \in {NoPackage, tree}
    /\ zip = sums
    /\ pc = [p \in Runs |-> "idle"]
    /\ todo = [p \in Runs |-> {}]
    /\ seen = [p \in Runs |-> Empty]
    /\ again = [p \in Runs |-> Empty]
    /\ snap = [p \in Runs |-> NoPackage]
    /\ disturbed = [p \in Runs |-> FALSE]

Goto(p, step) == pc' = [pc EXCEPT ![p] = step]

(* What an invocation held that is cut short by a kill or an exception. *)
Forget(p) ==
    /\ todo' = [todo EXCEPT ![p] = {}]
    /\ seen' = [seen EXCEPT ![p] = Empty]
    /\ again' = [again EXCEPT ![p] = Empty]

(* Files whose names a directory listing returns.  The mutated form does   *)
(* not leave out SHA256SUMS, which is not a source file.                   *)
ListedWithSums == {f \in Files : tree[f] # 0} \cup {NFiles + 1}
Listed == {f \in Files : tree[f] # 0}

(* The next name in sorted order, and in the reverse order, as a set that  *)
(* is empty when S is.                                                     *)
First(S) == {f \in S : \A g \in S : f <= g}
Last(S)  == {f \in S : \A g \in S : g <= f}

(* Everything written to the directory by someone else is a disturbance to *)
(* the invocations that have begun.                                        *)
Disturb(others) ==
    disturbed' = [p \in Runs |-> disturbed[p] \/ (p \in others /\ pc[p] # "idle")]

----------------------------------------------------------------------------
(* Mutated forms of steps below, to see that the properties can fail. *)

(* The second read goes through the first listing. *)
StageAndRescanOldListing(p) ==
    /\ pc[p] = "scan"
    /\ todo[p] = {}
    /\ p \in Builds
    /\ Goto(p, "rescan")
    /\ todo' = [todo EXCEPT ![p] = {f \in Files : seen[p][f] # 0}]
    /\ again' = [again EXCEPT ![p] = Empty]
    /\ snap' = [snap EXCEPT ![p] = tree]
    /\ UNCHANGED <<tree, edits, sums, zip, seen, disturbed>>

(* The two reads are not compared. *)
CompareNothing(p) ==
    /\ pc[p] = "rescan"
    /\ todo[p] = {}
    /\ Goto(p, "replaceSums")
    /\ UNCHANGED <<tree, edits, sums, zip, todo, seen, again, snap, disturbed>>

(* The build trusts the SHA256SUMS it has just renamed into place. *)
CheckSumsNever(p) ==
    /\ pc[p] = "checkSums"
    /\ Goto(p, "checkZip")
    /\ UNCHANGED <<tree, edits, sums, zip, todo, seen, again, snap, disturbed>>

(* The verdict of validate_package is not acted on. *)
ValidatedAlways(p) ==
    /\ pc[p] = "validate"
    /\ todo[p] = {}
    /\ Goto(p, "scan")
    /\ todo' = [todo EXCEPT ![p] = {f \in Files : tree[f] # 0}]
    /\ seen' = [seen EXCEPT ![p] = Empty]
    /\ UNCHANGED <<tree, edits, sums, zip, again, snap, disturbed>>

(* The members of the ZIP are not compared. *)
CheckZipNever(p) ==
    /\ pc[p] = "checkZip"
    /\ Goto(p, "passed")
    /\ UNCHANGED <<tree, edits, sums, zip, todo, seen, again, snap, disturbed>>

----------------------------------------------------------------------------
(* A person, git or another tool writes one file.  Without MayRevert an    *)
(* edit always leaves content the file never had before.                   *)
Edit(f) ==
    /\ edits < MaxEdits /\ edits' = edits + 1
    /\ \E v \in Versions : /\ v # tree[f]
                           /\ ~MayRevert => v > tree[f]
                           /\ tree' = [tree EXCEPT ![f] = v]
    /\ Disturb(Runs)
    /\ UNCHANGED <<sums, zip, pc, todo, seen, again, snap>>

(* package() calls validate_package first. *)
Start(p) ==
    /\ pc[p] = "idle"
    /\ Goto(p, "validate")
    /\ todo' = [todo EXCEPT ![p] = Files]
    /\ UNCHANGED <<tree, edits, sums, zip, seen, again, snap, disturbed>>

(* validate_package opens the matrix, then the results, then the ledger:   *)
(* the reverse of their sorted names.                                      *)
ValidateRead(p) ==
    /\ pc[p] = "validate"
    /\ \E f \in Last(todo[p]) :
          /\ seen' = [seen EXCEPT ![p][f] = tree[f]]
          /\ todo' = [todo EXCEPT ![p] = @ \ {f}]
    /\ UNCHANGED <<tree, edits, sums, zip, pc, again, snap, disturbed>>

(* A rejected tree ends the invocation; an accepted one is forgotten: the  *)
(* first files() lists the directory afresh and starts an empty dict.      *)
Validated(p) ==
    /\ pc[p] = "validate"
    /\ todo[p] = {}
    /\ \/ /\ seen[p] \notin ValidTrees
          /\ Goto(p, "failed")
          /\ UNCHANGED <<todo, seen>>
       \/ /\ seen[p] \in ValidTrees
          /\ Goto(p, "scan")
          /\ todo' = [todo EXCEPT ![p] = Listed]
          /\ seen' = [seen EXCEPT ![p] = Empty]
    /\ UNCHANGED <<tree, edits, sums, zip, again, snap, disturbed>>

(* files() reads the listed names in sorted order; a name that has gone is *)
(* skipped (is_file is false).  A tree with a symlink is one that the      *)
(* invocation refuses, see Validated.                                      *)
ScanRead(p) ==
    /\ pc[p] = "scan"
    /\ \E f \in First(todo[p]) :
          /\ seen' = [seen EXCEPT ![p][f] = tree[f]]
          /\ todo' = [todo EXCEPT ![p] = @ \ {f}]
    /\ UNCHANGED <<tree, edits, sums, zip, pc, again, snap, disturbed>>

(* A build writes the staged ZIP in its own temporary directory, which no  *)
(* one else sees, and lists the directory a second time.                   *)
StageAndRescan(p) ==
    /\ pc[p] = "scan"
    /\ todo[p] = {}
    /\ p \in Builds
    /\ Goto(p, "rescan")
    /\ todo' = [todo EXCEPT ![p] = Listed]
    /\ again' = [again EXCEPT ![p] = Empty]
    /\ snap' = [snap EXCEPT ![p] = tree]
    /\ UNCHANGED <<tree, edits, sums, zip, seen, disturbed>>

(* --check goes straight to the comparison. *)
CheckOnly(p) ==
    /\ pc[p] = "scan"
    /\ todo[p] = {}
    /\ p \in Checks
    /\ Goto(p, "checkSums")
    /\ UNCHANGED <<tree, edits, sums, zip, todo, seen, again, snap, disturbed>>

RescanRead(p) ==
    /\ pc[p] = "rescan"
    /\ \E f \in First(todo[p]) :
          /\ again' = [again EXCEPT ![p][f] = tree[f]]
          /\ todo' = [todo EXCEPT ![p] = @ \ {f}]
    /\ UNCHANGED <<tree, edits, sums, zip, pc, seen, snap, disturbed>>

(* An editor may take a file away between is_file and read_bytes, for as   *)
(* long as it writes it (OSError), or put a symlink in its place.          *)
ReadFails(p) ==
    /\ pc[p] \in {"validate", "scan", "rescan"}
    /\ todo[p] # {}
    /\ disturbed[p]
    /\ Goto(p, "failed")
    /\ Forget(p)
    /\ UNCHANGED <<tree, edits, sums, zip, snap, disturbed>>

(* "package sources changed during build; retry on a stable tree" *)
Compare(p) ==
    /\ pc[p] = "rescan"
    /\ todo[p] = {}
    /\ Goto(p, IF again[p] = seen[p] THEN "replaceSums" ELSE "failed")
    /\ UNCHANGED <<tree, edits, sums, zip, todo, seen, again, snap, disturbed>>

ReplaceSums(p) ==
    /\ pc[p] = "replaceSums"
    /\ sums' = seen[p]
    /\ Goto(p, "replaceZip")
    /\ Disturb(Runs \ {p})
    /\ UNCHANGED <<tree, edits, zip, todo, seen, again, snap>>

ReplaceZip(p) ==
    /\ pc[p] = "replaceZip"
    /\ zip' = seen[p]
    /\ Goto(p, "checkSums")
    /\ Disturb(Runs \ {p})
    /\ UNCHANGED <<tree, edits, sums, todo, seen, again, snap>>

(* A missing SHA256SUMS (OSError) fails like a different one. *)
CheckSums(p) ==
    /\ pc[p] = "checkSums"
    /\ Goto(p, IF sums = seen[p] THEN "checkZip" ELSE "failed")
    /\ UNCHANGED <<tree, edits, sums, zip, todo, seen, again, snap, disturbed>>

(* Opening the ZIP pins one archive: a rename does not change what is read. *)
CheckZip(p) ==
    /\ pc[p] = "checkZip"
    /\ Goto(p, IF zip = seen[p] THEN "passed" ELSE "failed")
    /\ UNCHANGED <<tree, edits, sums, zip, todo, seen, again, snap, disturbed>>

(* A kill, or Ctrl-C (KeyboardInterrupt is not among the exceptions that   *)
(* are reported as FAIL), between any two steps.                           *)
Crash(p) ==
    /\ pc[p] \in Running
    /\ Goto(p, "crashed")
    /\ Forget(p)
    /\ UNCHANGED <<tree, edits, sums, zip, snap, disturbed>>

Next ==
    \/ \E f \in Files : Edit(f)
    \/ \E p \in Runs : \/ Start(p)
                       \/ ValidateRead(p)
                       \/ Validated(p)
                       \/ ScanRead(p)
                       \/ StageAndRescan(p)
                       \/ CheckOnly(p)
                       \/ RescanRead(p)
                       \/ ReadFails(p)
                       \/ Compare(p)
                       \/ ReplaceSums(p)
                       \/ ReplaceZip(p)
                       \/ CheckSums(p)
                       \/ CheckZip(p)
                       \/ Crash(p)

Spec == Init /\ [][Next]_vars

----------------------------------------------------------------------------
(* Types, and the part of the control state that later steps rely on. *)
TypeOK ==
    /\ tree \in Trees
    /\ edits \in 0..MaxEdits
    /\ sums \in Trees \cup {NoPackage}
    /\ zip \in Trees \cup {NoPackage}
    /\ pc \in [Runs -> Running \cup Finished \cup {"idle"}]
    /\ todo \in [Runs -> SUBSET Files]
    /\ seen \in [Runs -> Trees]
    /\ again \in [Runs -> Trees]
    /\ snap \in [Runs -> Trees \cup {NoPackage}]
    /\ disturbed \in [Runs -> BOOLEAN]

(* Although a build reads the directory file by file while editors write,  *)
(* what it publishes is one state of the directory: the one on disk when   *)
(* its second files() listed it.  Needs edits that do not restore earlier  *)
(* content (MayRevert = FALSE); comparing the two reads is what gives it   *)
(* (package_model_engine_examples.py:41).                                  *)
PublishesOneSnapshot ==
    \A p \in Builds :
        pc[p] \in {"replaceSums", "replaceZip", "passed"} => seen[p] = snap[p]

(* Builds that overlap can leave a SHA256SUMS of one tree beside a ZIP of  *)
(* another; the closing comparison (lines 47-54) makes sure that this      *)
(* never happens silently: once every build has ended, a torn download     *)
(* means that at least one of them reported FAIL or was killed.            *)
TornDownloadIsReported ==
    (sums # zip /\ \A p \in Builds : pc[p] \in Finished \cup {"idle"})
        => \E p \in Builds : pc[p] \in {"failed", "crashed"}

(* An invocation that no one disturbs is exact: PASS means that the tree   *)
(* is valid and both artifacts describe it, and FAIL means there was a     *)
(* reason, for a build an invalid tree and for --check an invalid tree or  *)
(* an artifact that does not describe it.                                  *)
UndisturbedIsExact ==
    \A p \in Runs : ~disturbed[p] =>
        /\ pc[p] = "passed" => tree \in ValidTrees /\ sums = tree /\ zip = tree
        /\ pc[p] = "failed" =>
              \/ tree \notin ValidTrees
              \/ p \in Checks /\ (sums # tree \/ zip # tree)

(* What the comment at line 40 says: a source edit made while a build runs *)
(* makes that build fail, so no build reports PASS for a download that is  *)
(* already stale.  It does not hold: an edit after the second files() has  *)
(* read the file goes unnoticed.                                           *)
ConcurrentEditIsAnError ==
    [][\A p \in Builds :
         (pc[p] = "checkZip" /\ pc'[p] = "passed") => seen[p] = tree]_vars

(* The two artifacts are only ever overwritten by snapshots of the whole   *)
(* tree: the packager implements SnapshotPublisher.                        *)
Abstract == INSTANCE SnapshotPublisher
    WITH snaps <- {snap[p] : p \in Builds} \ {NoPackage}
ImplementsSnapshotPublisher == Abstract!Spec
=============================================================================
