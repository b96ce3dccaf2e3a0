SPECIFICATION Spec
CONSTANTS
    Instances = {p1, p2}
    NoPod = NoPod
    Commits = {c1}
    Truncated = Truncated
SYMMETRY Symmetry
INVARIANT TypeOK
INVARIANT JobInv
INVARIANT BackupHoldsWhatTheMainHad
