---------------------------- MODULE MCSnapshots ----------------------------
(* Instances of Snapshots for TLC: two values for each part of the spec,   *)
(* the first of which is the initial one.                                  *)
EXTENDS Snapshots

OneValue  == {1}
TwoValues == {1, 2}

=============================================================================
