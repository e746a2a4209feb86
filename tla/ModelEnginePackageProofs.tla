---------------------- MODULE ModelEnginePackageProofs ----------------------
(***************************************************************************)
(* Proofs about ModelEnginePackage, for any sets of builds and checks, any *)
(* number of files and versions.                                           *)
(***************************************************************************)
EXTENDS ModelEnginePackage, TLAPS

----------------------------------------------------------------------------
(* An empty dict is the tree of a directory without files. *)
LEMMA EmptyIsTree == Empty \in Trees
BY PackageAssumption DEF Empty, Trees, Versions

----------------------------------------------------------------------------
(* Types are preserved by every step of every invocation and editor. *)
LEMMA StepType == TypeOK /\ [Next]_vars => TypeOK'
<1> SUFFICES ASSUME TypeOK, [Next]_vars PROVE TypeOK'
  OBVIOUS
<1> USE PackageAssumption, EmptyIsTree
    DEF TypeOK, Running, Finished, Goto, Disturb
<1>0. CASE UNCHANGED vars
  BY <1>0 DEF vars
<1>1. ASSUME NEW f \in Files, Edit(f) PROVE TypeOK'
  BY <1>1 DEF Edit, Trees
<1>2. ASSUME NEW p \in Runs, Start(p) PROVE TypeOK'
  BY <1>2 DEF Start
<1>3. ASSUME NEW p \in Runs, ValidateRead(p) PROVE TypeOK'
  BY <1>3 DEF ValidateRead, Last, Trees
<1>4. ASSUME NEW p \in Runs, Validated(p) PROVE TypeOK'
  BY <1>4 DEF Validated, Listed
<1>5. ASSUME NEW p \in Runs, ScanRead(p) PROVE TypeOK'
  BY <1>5 DEF ScanRead, First, Trees
<1>6. ASSUME NEW p \in Runs, StageAndRescan(p) PROVE TypeOK'
  BY <1>6 DEF StageAndRescan, Listed
<1>7. ASSUME NEW p \in Runs, CheckOnly(p) PROVE TypeOK'
  BY <1>7 DEF CheckOnly
<1>8. ASSUME NEW p \in Runs, RescanRead(p) PROVE TypeOK'
  BY <1>8 DEF RescanRead, First, Trees
<1>9. ASSUME NEW p \in Runs, Compare(p) PROVE TypeOK'
  BY <1>9 DEF Compare
<1>10. ASSUME NEW p \in Runs, ReplaceSums(p) PROVE TypeOK'
  BY <1>10 DEF ReplaceSums
<1>11. ASSUME NEW p \in Runs, ReplaceZip(p) PROVE TypeOK'
  BY <1>11 DEF ReplaceZip
<1>12. ASSUME NEW p \in Runs, CheckSums(p) PROVE TypeOK'
  BY <1>12 DEF CheckSums
<1>13. ASSUME NEW p \in Runs, CheckZip(p) PROVE TypeOK'
  BY <1>13 DEF CheckZip
<1>14. ASSUME NEW p \in Runs, Crash(p) PROVE TypeOK'
  BY <1>14 DEF Crash, Forget
<1>15. ASSUME NEW p \in Runs, ReadFails(p) PROVE TypeOK'
  BY <1>15 DEF ReadFails, Forget
<1> QED
  BY <1>0, <1>1, <1>2, <1>3, <1>4, <1>5, <1>6, <1>7, <1>8, <1>9, <1>10,
     <1>11, <1>12, <1>13, <1>14, <1>15 DEF Next

(* Every reachable state of the packager is well typed. *)
THEOREM TypeCorrect == Spec => []TypeOK
<1>1. Init => TypeOK
  BY PackageAssumption, EmptyIsTree DEF Init, TypeOK, Running, Finished
<1> QED
  BY <1>1, StepType, PTL DEF Spec

----------------------------------------------------------------------------
(* The double read.  While the first read is under way nothing it has read *)
(* is newer than the directory; while the second is, the snapshot lies     *)
(* between the first read and the directory, and what has been read again  *)
(* is at least as new as the snapshot.  So when the two reads agree, both  *)
(* are the snapshot.  Versions only grow: this is where MayRevert = FALSE  *)
(* is needed.                                                              *)
Collecting(p) ==
    pc[p] = "scan" => \A f \in Files : seen[p][f] <= tree[f]

Recollecting(p) ==
    pc[p] = "rescan" =>
        /\ snap[p] \in Trees
        /\ \A f \in Files : seen[p][f] <= snap[p][f] /\ snap[p][f] <= tree[f]
        /\ \A f \in Files \ todo[p] : snap[p][f] <= again[p][f]

Publishing(p) ==
    pc[p] \in {"replaceSums", "replaceZip", "checkSums", "checkZip", "passed"}
        => snap[p] \in Trees /\ seen[p] = snap[p]

SnapshotInv ==
    \A p \in Builds : Collecting(p) /\ Recollecting(p) /\ Publishing(p)

LEMMA InitSnapshot == Init => SnapshotInv
BY DEF Init, SnapshotInv, Collecting, Recollecting, Publishing, Runs

LEMMA StepSnapshot ==
    ASSUME MayRevert = FALSE, TypeOK, SnapshotInv, [Next]_vars
    PROVE  SnapshotInv'
<1> USE PackageAssumption DEF TypeOK, Trees, Versions, Files, Goto
<1> DEFINE InvOf(q) == Collecting(q) /\ Recollecting(q) /\ Publishing(q)
<1> SUFFICES ASSUME NEW q \in Builds PROVE InvOf(q)'
  BY DEF SnapshotInv
<1>q. InvOf(q) /\ q \in Runs
  BY DEF SnapshotInv, Runs
<1> USE DEF Collecting, Recollecting, Publishing
<1>0. CASE UNCHANGED vars
  BY <1>0, <1>q DEF vars
<1>1. ASSUME NEW f \in Files, Edit(f) PROVE InvOf(q)'
  <2>1. \A g \in Files : tree[g] <= tree'[g]
    BY <1>1 DEF Edit
  <2>2. tree' \in Trees /\ UNCHANGED <<pc, todo, seen, again, snap>>
    BY <1>1 DEF Edit
  <2>3. Collecting(q)'
    BY <1>q, <2>1, <2>2
  <2>4. Recollecting(q)'
    BY <1>q, <2>1, <2>2
  <2>5. Publishing(q)'
    BY <1>q, <2>2
  <2> QED
    BY <2>3, <2>4, <2>5
<1>2. ASSUME NEW p \in Runs, Start(p) PROVE InvOf(q)'
  BY <1>2, <1>q DEF Start
<1>3. ASSUME NEW p \in Runs, ValidateRead(p) PROVE InvOf(q)'
  BY <1>3, <1>q DEF ValidateRead, Last
<1>4. ASSUME NEW p \in Runs, Validated(p) PROVE InvOf(q)'
  <2>1. CASE p # q
    BY <1>4, <1>q, <2>1 DEF Validated
  <2>2. CASE p = q /\ pc'[q] = "failed"
    BY <1>4, <1>q, <2>2 DEF Validated
  <2>3. CASE p = q /\ pc'[q] = "scan"
    <3>1. seen'[q] = Empty /\ tree' = tree
      BY <1>4, <1>q, <2>3 DEF Validated
    <3>2. \A f \in Files : Empty[f] = 0 /\ 0 <= tree[f]
      BY DEF Empty
    <3> QED
      BY <2>3, <3>1, <3>2
  <2>4. pc'[p] \in {"failed", "scan"}
    BY <1>4 DEF Validated
  <2> QED
    BY <2>1, <2>2, <2>3, <2>4
<1>5. ASSUME NEW p \in Runs, ScanRead(p) PROVE InvOf(q)'
  <2>1. CASE p # q
    BY <1>5, <1>q, <2>1 DEF ScanRead
  <2>2. CASE p = q
    <3>1. PICK g \in Files : seen' = [seen EXCEPT ![q][g] = tree[g]]
      BY <1>5, <1>q, <2>2 DEF ScanRead, First
    <3>2. \A f \in Files : seen'[q][f] = IF f = g THEN tree[g] ELSE seen[q][f]
      BY <1>q, <3>1
    <3>3. pc[q] = "scan" /\ UNCHANGED <<pc, tree>>
      BY <1>5, <2>2 DEF ScanRead
    <3>4. \A f \in Files : seen[q][f] <= tree[f] /\ tree[f] <= tree[f]
      BY <1>q, <3>3
    <3>5. Collecting(q)'
      BY <3>2, <3>3, <3>4
    <3> QED
      BY <3>3, <3>5
  <2> QED
    BY <2>1, <2>2
<1>6. ASSUME NEW p \in Runs, StageAndRescan(p) PROVE InvOf(q)'
  <2>1. CASE p # q
    BY <1>6, <1>q, <2>1 DEF StageAndRescan
  <2>2. CASE p = q
    <3>1. /\ pc[q] = "scan" /\ pc'[q] = "rescan"
          /\ snap'[q] = tree /\ again'[q] = Empty /\ todo'[q] = Listed
          /\ UNCHANGED <<tree, seen>>
      BY <1>6, <1>q, <2>2 DEF StageAndRescan
    <3>2. \A f \in Files : seen[q][f] <= tree[f] /\ tree[f] <= tree[f]
      BY <1>q, <3>1
    <3>3. \A f \in Files \ Listed : tree[f] <= Empty[f]
      BY DEF Listed, Empty
    <3>4. Recollecting(q)'
      BY <3>1, <3>2, <3>3
    <3> QED
      BY <3>1, <3>4
  <2> QED
    BY <2>1, <2>2
<1>7. ASSUME NEW p \in Runs, CheckOnly(p) PROVE InvOf(q)'
  BY <1>7, <1>q DEF CheckOnly
<1>8. ASSUME NEW p \in Runs, RescanRead(p) PROVE InvOf(q)'
  <2>1. CASE p # q
    BY <1>8, <1>q, <2>1 DEF RescanRead
  <2>2. CASE p = q
    <3>1. PICK g \in Files : /\ again' = [again EXCEPT ![q][g] = tree[g]]
                             /\ todo' = [todo EXCEPT ![q] = @ \ {g}]
      BY <1>8, <1>q, <2>2 DEF RescanRead, First
    <3>2. \A f \in Files : again'[q][f] = IF f = g THEN tree[g] ELSE again[q][f]
      BY <1>q, <3>1
    <3>3. pc[q] = "rescan" /\ UNCHANGED <<pc, tree, seen, snap>>
      BY <1>8, <2>2 DEF RescanRead
    <3>4. \A f \in Files \ todo'[q] : f = g \/ f \in Files \ todo[q]
      BY <1>q, <3>1
    <3>5. \A f \in Files \ todo'[q] : snap[q][f] <= again'[q][f]
      BY <1>q, <3>2, <3>3, <3>4
    <3> QED
      BY <1>q, <3>3, <3>5
  <2> QED
    BY <2>1, <2>2
<1>9. ASSUME NEW p \in Runs, Compare(p) PROVE InvOf(q)'
  <2>1. CASE p # q
    BY <1>9, <1>q, <2>1 DEF Compare
  <2>2. CASE p = q /\ again[q] # seen[q]
    BY <1>9, <1>q, <2>2 DEF Compare
  <2>3. CASE p = q /\ again[q] = seen[q]
    <3>1. \A f \in Files : seen[q][f] <= snap[q][f] /\ snap[q][f] <= seen[q][f]
      BY <1>9, <1>q, <2>3 DEF Compare
    <3>2. seen[q] = snap[q]
      BY <1>9, <1>q, <2>3, <3>1 DEF Compare
    <3> QED
      BY <1>9, <1>q, <2>3, <3>2 DEF Compare
  <2> QED
    BY <2>1, <2>2, <2>3
<1>10. ASSUME NEW p \in Runs, ReplaceSums(p) PROVE InvOf(q)'
  BY <1>10, <1>q DEF ReplaceSums
<1>11. ASSUME NEW p \in Runs, ReplaceZip(p) PROVE InvOf(q)'
  BY <1>11, <1>q DEF ReplaceZip
<1>12. ASSUME NEW p \in Runs, CheckSums(p) PROVE InvOf(q)'
  BY <1>12, <1>q DEF CheckSums
<1>13. ASSUME NEW p \in Runs, CheckZip(p) PROVE InvOf(q)'
  BY <1>13, <1>q DEF CheckZip
<1>14. ASSUME NEW p \in Runs, Crash(p) PROVE InvOf(q)'
  BY <1>14, <1>q DEF Crash, Forget, Running
<1>15. ASSUME NEW p \in Runs, ReadFails(p) PROVE InvOf(q)'
  BY <1>15, <1>q DEF ReadFails, Forget
<1> QED
  BY <1>0, <1>1, <1>2, <1>3, <1>4, <1>5, <1>6, <1>7, <1>8, <1>9, <1>10,
     <1>11, <1>12, <1>13, <1>14, <1>15 DEF Next

(* When edits never restore earlier content, every build that gets past    *)
(* its second read publishes one state of the whole directory.             *)
THEOREM SnapshotPublished ==
    ASSUME MayRevert = FALSE
    PROVE  Spec => []PublishesOneSnapshot
<1>1. SnapshotInv => PublishesOneSnapshot
  BY DEF SnapshotInv, Publishing, PublishesOneSnapshot
<1>2. TypeOK /\ SnapshotInv /\ [Next]_vars => SnapshotInv'
  BY StepSnapshot
<1> QED
  BY <1>1, <1>2, InitSnapshot, TypeCorrect, PTL DEF Spec

----------------------------------------------------------------------------
(* Torn downloads.  Only builds get as far as the renames.                 *)
BuildsOnly ==
    \A p \in Runs : pc[p] \in {"rescan", "replaceSums", "replaceZip"} => p \in Builds

(* While the artifacts disagree there is a build that will notice: it has  *)
(* yet to make its second rename or its first comparison, or it has passed *)
(* the first comparison and will fail the second, or it has ended badly.   *)
Noticing(p) ==
    \/ pc[p] \in {"replaceZip", "checkSums", "failed", "crashed"}
    \/ pc[p] = "checkZip" /\ zip # seen[p]

TornInv == BuildsOnly /\ (sums # zip => \E p \in Builds : Noticing(p))

LEMMA InitTorn == Init => TornInv
BY DEF Init, TornInv, BuildsOnly, Noticing

LEMMA StepBuildsOnly == TypeOK /\ BuildsOnly /\ [Next]_vars => BuildsOnly'
<1> SUFFICES ASSUME TypeOK, BuildsOnly, [Next]_vars, NEW q \in Runs
             PROVE  pc'[q] \in {"rescan", "replaceSums", "replaceZip"} => q \in Builds
  BY DEF BuildsOnly
<1>1. CASE pc' = pc
  BY <1>1 DEF BuildsOnly
<1>2. ASSUME NEW p \in Runs, StageAndRescan(p) PROVE pc' = [pc EXCEPT ![p] = "rescan"] /\ p \in Builds
  BY <1>2 DEF StageAndRescan, Goto
<1>3. ASSUME NEW p \in Runs, Compare(p)
      PROVE  p \in Builds /\ \E s \in {"replaceSums", "failed"} : pc' = [pc EXCEPT ![p] = s]
  BY <1>3 DEF Compare, Goto, BuildsOnly
<1>4. ASSUME NEW p \in Runs, ReplaceSums(p)
      PROVE  p \in Builds /\ pc' = [pc EXCEPT ![p] = "replaceZip"]
  BY <1>4 DEF ReplaceSums, Goto, BuildsOnly
<1>5. ASSUME NEW p \in Runs,
             \/ Start(p) \/ Validated(p) \/ CheckOnly(p) \/ ReplaceZip(p)
             \/ CheckSums(p) \/ CheckZip(p) \/ Crash(p) \/ ReadFails(p)
      PROVE  \E s \in {"validate", "scan", "failed", "checkSums", "checkZip",
                       "passed", "crashed"} : pc' = [pc EXCEPT ![p] = s]
  BY <1>5 DEF Start, Validated, CheckOnly, ReplaceZip, CheckSums, CheckZip, Crash,
     ReadFails, Goto
<1>6. ASSUME NEW p \in Runs, ValidateRead(p) \/ ScanRead(p) \/ RescanRead(p) PROVE pc' = pc
  BY <1>6 DEF ValidateRead, ScanRead, RescanRead
<1>7. ASSUME NEW f \in Files, Edit(f) PROVE pc' = pc
  BY <1>7 DEF Edit
<1>8. ASSUME NEW p \in Runs, NEW s, pc' = [pc EXCEPT ![p] = s],
             s \in {"rescan", "replaceSums", "replaceZip"} => p \in Builds
      PROVE  pc'[q] \in {"rescan", "replaceSums", "replaceZip"} => q \in Builds
  BY <1>8 DEF BuildsOnly, TypeOK
<1>9. CASE UNCHANGED vars
  BY <1>1, <1>9 DEF vars
<1> QED
  BY <1>1, <1>2, <1>3, <1>4, <1>5, <1>6, <1>7, <1>8, <1>9 DEF Next

LEMMA StepTorn == TypeOK /\ TornInv /\ [Next]_vars => TornInv'
<1> SUFFICES ASSUME TypeOK, TornInv, [Next]_vars, sums' # zip'
             PROVE  \E p \in Builds : Noticing(p)'
  BY StepBuildsOnly DEF TornInv
<1> USE DEF TypeOK, Noticing, Goto
<1>a. BuildsOnly /\ Builds \subseteq Runs
  BY DEF TornInv, Runs
<1>1. ASSUME NEW p \in Runs, ReplaceSums(p) PROVE \E b \in Builds : Noticing(b)'
  BY <1>1, <1>a DEF ReplaceSums, BuildsOnly
<1>2. ASSUME NEW p \in Runs, ReplaceZip(p) PROVE \E b \in Builds : Noticing(b)'
  BY <1>2, <1>a DEF ReplaceZip, BuildsOnly
<1>3. CASE UNCHANGED <<sums, zip>>
  <2>1. PICK b \in Builds : Noticing(b)
    BY <1>3 DEF TornInv
  <2>b. b \in Runs
    BY <1>a
  <2>2. CASE UNCHANGED vars
    BY <1>3, <2>1, <2>2 DEF vars
  <2>3. ASSUME NEW f \in Files, Edit(f) PROVE Noticing(b)'
    BY <2>1, <2>3 DEF Edit
  <2>4. ASSUME NEW p \in Runs, Start(p) PROVE Noticing(b)'
    BY <2>1, <2>b, <2>4 DEF Start
  <2>5. ASSUME NEW p \in Runs, ValidateRead(p) PROVE Noticing(b)'
    BY <2>1, <2>b, <2>5 DEF ValidateRead
  <2>6. ASSUME NEW p \in Runs, Validated(p) PROVE Noticing(b)'
    BY <2>1, <2>b, <2>6 DEF Validated
  <2>7. ASSUME NEW p \in Runs, ScanRead(p) PROVE Noticing(b)'
    BY <2>1, <2>b, <2>7 DEF ScanRead
  <2>8. ASSUME NEW p \in Runs, StageAndRescan(p) PROVE Noticing(b)'
    BY <2>1, <2>b, <2>8 DEF StageAndRescan
  <2>9. ASSUME NEW p \in Runs, CheckOnly(p) PROVE Noticing(b)'
    BY <2>1, <2>b, <2>9 DEF CheckOnly
  <2>10. ASSUME NEW p \in Runs, RescanRead(p) PROVE Noticing(b)'
    BY <2>1, <2>b, <2>10 DEF RescanRead
  <2>11. ASSUME NEW p \in Runs, Compare(p) PROVE Noticing(b)'
    BY <2>1, <2>b, <2>11 DEF Compare
  <2>12. ASSUME NEW p \in Runs, CheckSums(p) PROVE Noticing(b)'
    BY <1>3, <2>1, <2>b, <2>12 DEF CheckSums
  <2>13. ASSUME NEW p \in Runs, CheckZip(p) PROVE Noticing(b)'
    BY <2>1, <2>b, <2>13 DEF CheckZip
  <2>14. ASSUME NEW p \in Runs, Crash(p) PROVE Noticing(b)'
    BY <2>1, <2>b, <2>14 DEF Crash, Forget
  <2>15. ASSUME NEW p \in Runs, ReadFails(p) PROVE Noticing(b)'
    BY <2>1, <2>b, <2>15 DEF ReadFails, Forget
  <2> QED
    BY <1>1, <1>2, <2>2, <2>3, <2>4, <2>5, <2>6, <2>7, <2>8, <2>9, <2>10,
       <2>11, <2>12, <2>13, <2>14, <2>15 DEF Next
<1>4. ASSUME ~UNCHANGED <<sums, zip>>
      PROVE  \E p \in Runs : ReplaceSums(p) \/ ReplaceZip(p)
  BY <1>4 DEF Next, vars, Edit, Start, ValidateRead, Validated, ScanRead,
     StageAndRescan, CheckOnly, RescanRead, Compare, CheckSums, CheckZip, Crash,
     ReadFails
<1> QED
  BY <1>1, <1>2, <1>3, <1>4

(* However builds, checks, editors and kills overlap, a SHA256SUMS and a   *)
(* ZIP of different trees are left behind only with a FAIL or a kill.      *)
THEOREM TornIsReported == Spec => []TornDownloadIsReported
<1>1. TypeOK /\ TornInv => TornDownloadIsReported
  BY DEF TypeOK, TornInv, Noticing, TornDownloadIsReported, Finished
<1> QED
  BY <1>1, InitTorn, StepTorn, TypeCorrect, PTL DEF Spec

----------------------------------------------------------------------------
(* Refinement.  A build takes at most one snapshot, and what it renames    *)
(* into place afterwards is that snapshot.                                 *)
NoSnapshotYet ==
    \A p \in Runs : pc[p] \in {"idle", "validate", "scan"} => snap[p] = NoPackage

LEMMA StepNoSnapshotYet == TypeOK /\ NoSnapshotYet /\ [Next]_vars => NoSnapshotYet'
<1> SUFFICES ASSUME TypeOK, NoSnapshotYet, [Next]_vars, NEW q \in Runs,
                    pc'[q] \in {"idle", "validate", "scan"}
             PROVE  snap'[q] = NoPackage
  BY DEF NoSnapshotYet
<1> USE DEF TypeOK, Goto
<1>1. pc[q] \in {"idle", "validate", "scan"}
  BY DEF Next, vars, Edit, Start, ValidateRead, Validated, ScanRead,
     StageAndRescan, CheckOnly, RescanRead, Compare, ReplaceSums, ReplaceZip,
     CheckSums, CheckZip, Crash, ReadFails
<1>2. snap'[q] = snap[q]
  BY <1>1 DEF Next, vars, Edit, Start, ValidateRead, Validated, ScanRead,
     StageAndRescan, CheckOnly, RescanRead, Compare, ReplaceSums, ReplaceZip,
     CheckSums, CheckZip, Crash, ReadFails
<1> QED
  BY <1>1, <1>2 DEF NoSnapshotYet

SnapsBar == {snap[p] : p \in Builds} \ {NoPackage}

LEMMA StepRefines ==
    ASSUME TypeOK, SnapshotInv, BuildsOnly, NoSnapshotYet, TypeOK', [Next]_vars
    PROVE  [Abstract!Next]_(Abstract!vars)
<1> USE PackageAssumption DEF TypeOK, Abstract!Next, Abstract!vars
<1>a. Builds \subseteq Runs
  BY DEF Runs
<1>1. ASSUME NEW f \in Files, Edit(f) PROVE Abstract!Edit
  BY <1>1 DEF Edit, Abstract!Edit
<1>2. ASSUME NEW p \in Runs, StageAndRescan(p) PROVE Abstract!Snap
  <2>1. p \in Builds /\ snap[p] = NoPackage /\ snap' = [snap EXCEPT ![p] = tree]
    BY <1>2 DEF StageAndRescan, NoSnapshotYet
  <2>2. SnapsBar' = SnapsBar \cup {tree}
    BY <1>a, <2>1 DEF SnapsBar
  <2> QED
    BY <1>2, <2>2 DEF StageAndRescan, Abstract!Snap, SnapsBar
<1>3. ASSUME NEW p \in Runs, ReplaceSums(p) PROVE Abstract!PublishSums
  <2>1. p \in Builds /\ seen[p] = snap[p] /\ snap[p] \in Trees
    BY <1>3 DEF ReplaceSums, BuildsOnly, SnapshotInv, Publishing
  <2> QED
    BY <1>3, <2>1 DEF ReplaceSums, Abstract!PublishSums
<1>4. ASSUME NEW p \in Runs, ReplaceZip(p) PROVE Abstract!PublishZip
  <2>1. p \in Builds /\ seen[p] = snap[p] /\ snap[p] \in Trees
    BY <1>4 DEF ReplaceZip, BuildsOnly, SnapshotInv, Publishing
  <2> QED
    BY <1>4, <2>1 DEF ReplaceZip, Abstract!PublishZip
<1>5. CASE UNCHANGED <<tree, sums, zip, snap>>
  BY <1>5
<1>6. ASSUME ~UNCHANGED <<tree, sums, zip, snap>>
      PROVE  \/ \E f \in Files : Edit(f)
             \/ \E p \in Runs : StageAndRescan(p) \/ ReplaceSums(p) \/ ReplaceZip(p)
  BY <1>6 DEF Next, vars, Edit, Start, ValidateRead, Validated, ScanRead,
     CheckOnly, RescanRead, Compare, CheckSums, CheckZip, Crash, ReadFails
<1> QED
  BY <1>1, <1>2, <1>3, <1>4, <1>5, <1>6

(* When edits never restore earlier content, each published artifact is    *)
(* only ever overwritten by a snapshot of the whole source tree.           *)
THEOREM PackagerRefines ==
    ASSUME MayRevert = FALSE
    PROVE  Spec => ImplementsSnapshotPublisher
<1>1. Init => Abstract!Init
  BY DEF Init, Abstract!Init, Runs
<1>2. Init => NoSnapshotYet /\ BuildsOnly
  BY DEF Init, NoSnapshotYet, BuildsOnly
<1>3. TypeOK /\ SnapshotInv /\ BuildsOnly /\ NoSnapshotYet /\ TypeOK' /\ [Next]_vars
        => [Abstract!Next]_(Abstract!vars)
  BY StepRefines
<1>4. TypeOK /\ SnapshotInv /\ [Next]_vars => SnapshotInv'
  BY StepSnapshot
<1> QED
  BY <1>1, <1>2, <1>3, <1>4, InitSnapshot, StepBuildsOnly, StepNoSnapshotYet,
     TypeCorrect, PTL DEF Spec, ImplementsSnapshotPublisher, Abstract!Spec

----------------------------------------------------------------------------
(* An invocation that nobody disturbs.  What it has read of the directory  *)
(* is the directory, and what it has published is too.                     *)
Past == {"rescan", "replaceSums", "replaceZip", "checkSums", "checkZip", "passed"}

ReadIsTree(p) ==
    /\ pc[p] \in {"validate", "scan"} => \A f \in Files \ todo[p] : seen[p][f] = tree[f]
    /\ pc[p] \in Past => seen[p] = tree
    /\ pc[p] \in {"scan"} \cup Past => tree \in ValidTrees
    /\ pc[p] = "rescan" => \A f \in Files \ todo[p] : again[p][f] = tree[f]

PublishedIsTree(p) ==
    /\ pc[p] = "replaceZip" => sums = tree
    /\ pc[p] \in {"checkSums", "checkZip"} /\ p \in Builds => sums = tree /\ zip = tree
    /\ pc[p] = "checkZip" => sums = tree
    /\ pc[p] = "passed" => sums = tree /\ zip = tree
    /\ pc[p] = "failed" => \/ tree \notin ValidTrees
                           \/ p \in Checks /\ (sums # tree \/ zip # tree)

Exact(p) == ReadIsTree(p) /\ PublishedIsTree(p)
ExactInv == \A p \in Runs : ~disturbed[p] => Exact(p)

(* A step that leaves the invocation and the directory as they were.       *)
LEMMA ExactUntouched ==
    ASSUME NEW q \in Runs, Exact(q), UNCHANGED <<tree, sums, zip>>,
           pc'[q] = pc[q], todo'[q] = todo[q], seen'[q] = seen[q], again'[q] = again[q]
    PROVE  Exact(q)'
BY DEF Exact, ReadIsTree, PublishedIsTree

(* A step of an invocation itself. *)
LEMMA ExactOwn ==
    ASSUME TypeOK, BuildsOnly, NEW q \in Runs, Exact(q),
           \/ Start(q) \/ ValidateRead(q) \/ Validated(q) \/ ScanRead(q)
           \/ StageAndRescan(q) \/ CheckOnly(q) \/ RescanRead(q) \/ Compare(q)
           \/ ReplaceSums(q) \/ ReplaceZip(q) \/ CheckSums(q) \/ CheckZip(q) \/ Crash(q)
    PROVE  Exact(q)'
<1> USE PackageAssumption DEF TypeOK, Goto, Exact, ReadIsTree, PublishedIsTree, Past
<1>1. CASE Start(q)
  BY <1>1 DEF Start
<1>2. CASE ValidateRead(q)
  <2>1. PICK g \in Files : /\ seen' = [seen EXCEPT ![q][g] = tree[g]]
                           /\ todo' = [todo EXCEPT ![q] = @ \ {g}]
    BY <1>2 DEF ValidateRead, Last
  <2>2. \A f \in Files : seen'[q][f] = IF f = g THEN tree[g] ELSE seen[q][f]
    BY <2>1 DEF Trees
  <2>3. pc[q] = "validate" /\ pc' = pc /\ tree' = tree
    BY <1>2 DEF ValidateRead
  <2>4. \A f \in Files \ todo'[q] : f = g \/ f \in Files \ todo[q]
    BY <2>1
  <2> QED
    BY <2>2, <2>3, <2>4
<1>3. CASE Validated(q)
  <2>1. pc[q] = "validate" /\ seen[q] = tree /\ UNCHANGED <<tree, sums, zip>>
    BY <1>3 DEF Validated, Trees
  <2>2. CASE pc'[q] = "failed" /\ seen[q] \notin ValidTrees
    BY <2>1, <2>2
  <2>3. CASE pc'[q] = "scan" /\ seen[q] \in ValidTrees /\ todo'[q] = Listed /\ seen'[q] = Empty
    <3>1. \A f \in Files \ Listed : tree[f] = 0 /\ Empty[f] = 0
      BY DEF Listed, Empty
    <3> QED
      BY <2>1, <2>3, <3>1
  <2> QED
    BY <1>3, <2>2, <2>3 DEF Validated
<1>4. CASE ScanRead(q)
  <2>1. PICK g \in Files : /\ seen' = [seen EXCEPT ![q][g] = tree[g]]
                           /\ todo' = [todo EXCEPT ![q] = @ \ {g}]
    BY <1>4 DEF ScanRead, First
  <2>2. \A f \in Files : seen'[q][f] = IF f = g THEN tree[g] ELSE seen[q][f]
    BY <2>1 DEF Trees
  <2>3. pc[q] = "scan" /\ pc' = pc /\ tree' = tree
    BY <1>4 DEF ScanRead
  <2>4. \A f \in Files \ todo'[q] : f = g \/ f \in Files \ todo[q]
    BY <2>1
  <2> QED
    BY <2>2, <2>3, <2>4
<1>5. CASE StageAndRescan(q)
  <2>1. seen[q] = tree /\ pc[q] = "scan" /\ pc'[q] = "rescan" /\ UNCHANGED <<tree, seen>>
    BY <1>5 DEF StageAndRescan, Trees
  <2>2. \A f \in Files \ todo'[q] : again'[q][f] = tree[f]
    BY <1>5 DEF StageAndRescan, Listed, Empty
  <2> QED
    BY <2>1, <2>2
<1>6. CASE CheckOnly(q)
  <2>1. seen[q] = tree /\ pc[q] = "scan" /\ pc'[q] = "checkSums" /\ q \notin Builds
    BY <1>6 DEF CheckOnly, Trees
  <2> QED
    BY <1>6, <2>1 DEF CheckOnly
<1>7. CASE RescanRead(q)
  <2>1. PICK g \in Files : /\ again' = [again EXCEPT ![q][g] = tree[g]]
                           /\ todo' = [todo EXCEPT ![q] = @ \ {g}]
    BY <1>7 DEF RescanRead, First
  <2>2. \A f \in Files : again'[q][f] = IF f = g THEN tree[g] ELSE again[q][f]
    BY <2>1 DEF Trees
  <2>3. pc[q] = "rescan" /\ UNCHANGED <<pc, tree, seen>>
    BY <1>7 DEF RescanRead
  <2>4. \A f \in Files \ todo'[q] : f = g \/ f \in Files \ todo[q]
    BY <2>1
  <2> QED
    BY <2>2, <2>3, <2>4
<1>8. CASE Compare(q)
  <2>1. seen[q] = tree /\ again[q] = tree /\ pc[q] = "rescan"
    BY <1>8 DEF Compare, Trees
  <2> QED
    BY <1>8, <2>1 DEF Compare
<1>9. CASE ReplaceSums(q)
  BY <1>9 DEF ReplaceSums
<1>10. CASE ReplaceZip(q)
  BY <1>10 DEF ReplaceZip
<1>11. CASE CheckSums(q)
  <2>1. q \in Builds \/ q \in Checks
    BY DEF Runs
  <2> QED
    BY <1>11, <2>1 DEF CheckSums
<1>12. CASE CheckZip(q)
  <2>1. q \in Builds \/ q \in Checks
    BY DEF Runs
  <2> QED
    BY <1>12, <2>1 DEF CheckZip
<1>13. CASE Crash(q)
  BY <1>13 DEF Crash
<1> QED
  BY <1>1, <1>2, <1>3, <1>4, <1>5, <1>6, <1>7, <1>8, <1>9, <1>10, <1>11, <1>12, <1>13

LEMMA StepExact == TypeOK /\ BuildsOnly /\ ExactInv /\ [Next]_vars => ExactInv'
<1> SUFFICES ASSUME TypeOK, BuildsOnly, ExactInv, [Next]_vars, NEW q \in Runs, ~disturbed'[q]
             PROVE  Exact(q)'
  BY DEF ExactInv
<1>1. CASE UNCHANGED vars
  BY <1>1, ExactUntouched DEF vars, ExactInv
<1>2. ASSUME NEW f \in Files, Edit(f) PROVE Exact(q)'
  BY <1>2 DEF Edit, Disturb, Exact, ReadIsTree, PublishedIsTree, Past
<1>3. ASSUME NEW p \in Runs, p # q,
             \/ Start(p) \/ ValidateRead(p) \/ Validated(p) \/ ScanRead(p)
             \/ StageAndRescan(p) \/ CheckOnly(p) \/ RescanRead(p) \/ Compare(p)
             \/ CheckSums(p) \/ CheckZip(p) \/ Crash(p) \/ ReadFails(p)
      PROVE  Exact(q)'
  <2>1. /\ UNCHANGED <<tree, sums, zip, disturbed>>
        /\ pc'[q] = pc[q] /\ todo'[q] = todo[q] /\ seen'[q] = seen[q] /\ again'[q] = again[q]
    BY <1>3 DEF TypeOK, Goto, Start, ValidateRead, Validated, ScanRead, StageAndRescan,
       CheckOnly, RescanRead, Compare, CheckSums, CheckZip, Crash, ReadFails, Forget
  <2> QED
    BY <2>1, ExactUntouched DEF ExactInv
<1>4. ASSUME NEW p \in Runs, p # q, ReplaceSums(p) \/ ReplaceZip(p) PROVE Exact(q)'
  <2>1. pc[q] = "idle" /\ pc'[q] = "idle"
    BY <1>4 DEF TypeOK, Goto, ReplaceSums, ReplaceZip, Disturb
  <2> QED
    BY <2>1 DEF Exact, ReadIsTree, PublishedIsTree, Past
<1>5. ASSUME \/ Start(q) \/ ValidateRead(q) \/ Validated(q) \/ ScanRead(q)
             \/ StageAndRescan(q) \/ CheckOnly(q) \/ RescanRead(q) \/ Compare(q)
             \/ ReplaceSums(q) \/ ReplaceZip(q) \/ CheckSums(q) \/ CheckZip(q) \/ Crash(q)
      PROVE  Exact(q)'
  <2>1. ~disturbed[q]
    BY <1>5 DEF TypeOK, Disturb, Start, ValidateRead, Validated, ScanRead, StageAndRescan,
       CheckOnly, RescanRead, Compare, ReplaceSums, ReplaceZip, CheckSums, CheckZip, Crash
  <2> QED
    BY <1>5, <2>1, ExactOwn DEF ExactInv
<1>6. ASSUME ReadFails(q) PROVE FALSE
  BY <1>6 DEF ReadFails
<1> QED
  BY <1>1, <1>2, <1>3, <1>4, <1>5, <1>6 DEF Next

(* An invocation that no one disturbs reports what is there: PASS of a     *)
(* valid tree that both artifacts describe, FAIL with a reason.            *)
THEOREM UndisturbedExact == Spec => []UndisturbedIsExact
<1>1. Init => ExactInv /\ BuildsOnly
  BY DEF Init, ExactInv, Exact, ReadIsTree, PublishedIsTree, Past, BuildsOnly
<1>2. ExactInv => UndisturbedIsExact
  <2> SUFFICES ASSUME ExactInv, NEW p \in Runs, ~disturbed[p]
               PROVE  /\ pc[p] = "passed" => tree \in ValidTrees /\ sums = tree /\ zip = tree
                      /\ pc[p] = "failed" => \/ tree \notin ValidTrees
                                             \/ p \in Checks /\ (sums # tree \/ zip # tree)
    BY DEF UndisturbedIsExact
  <2> QED
    BY DEF ExactInv, Exact, ReadIsTree, PublishedIsTree, Past
<1> QED
  BY <1>1, <1>2, StepExact, StepBuildsOnly, TypeCorrect, PTL DEF Spec
=============================================================================
