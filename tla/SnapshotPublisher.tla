------------------------- MODULE SnapshotPublisher -------------------------
(***************************************************************************)
(* What the download packager promises, without how it does it: a source   *)
(* tree changes under it at any time, and each of the two published        *)
(* artifacts (SHA256SUMS and the ZIP) is only ever overwritten, in one     *)
(* step, by a snapshot: a value the whole tree had at one instant.         *)
(***************************************************************************)
CONSTANTS Trees,        \* the contents a source tree can have
          NoPackage     \* what is published before the first build

VARIABLES tree,         \* the source tree on disk
          sums,         \* the tree SHA256SUMS lists
          zip,          \* the tree the ZIP holds
          snaps         \* snapshots taken so far

vars == <<tree, sums, zip, snaps>>

Init == /\ tree \in Trees
        /\ sums \in {NoPackage, tree}
        /\ zip = sums
        /\ snaps = {}

Edit == /\ tree' \in Trees
        /\ UNCHANGED <<sums, zip, snaps>>

Snap == /\ snaps' = snaps \cup {tree}
        /\ UNCHANGED <<tree, sums, zip>>

PublishSums == /\ sums' \in snaps
               /\ UNCHANGED <<tree, zip, snaps>>

PublishZip == /\ zip' \in snaps
              /\ UNCHANGED <<tree, sums, snaps>>

Next == Edit \/ Snap \/ PublishSums \/ PublishZip

Spec == Init /\ [][Next]_vars
=============================================================================
