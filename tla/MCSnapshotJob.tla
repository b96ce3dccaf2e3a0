--------------------------- MODULE MCSnapshotJob ---------------------------
EXTENDS SnapshotJob, TLC

Symmetry == Permutations(Instances) \cup Permutations(Commits)
=============================================================================
