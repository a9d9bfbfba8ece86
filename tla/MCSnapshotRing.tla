--------------------------- MODULE MCSnapshotRing ---------------------------
(* SnapshotRing for TLC; the configurations give the constants.            *)
EXTENDS SnapshotRing, TLC

\* The readers are alike, and no run of this module checks liveness.
ReaderSymmetry == Permutations(Readers)

=============================================================================
