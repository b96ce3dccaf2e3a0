---------------------------- MODULE MCValidation ----------------------------
EXTENDS Validation, TLC

PodSymmetry == Permutations(Instances)
=============================================================================
