---------------------------- MODULE MCReconciler ----------------------------
(* Values for the constants of Reconciler that a .cfg cannot write.        *)
EXTENDS Reconciler

\* spec.highAvailability.preferredMain is not set.
NoPreference == NoPod
=============================================================================
