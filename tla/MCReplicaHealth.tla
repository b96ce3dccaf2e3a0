--------------------------- MODULE MCReplicaHealth ---------------------------
(* The instance of ReplicaHealth for TLC: its .cfg has the values.         *)
EXTENDS ReplicaHealth
=============================================================================
