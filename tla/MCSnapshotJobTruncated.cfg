SPECIFICATION Spec
CONSTANTS
    Instances = {p1}
    NoPod = NoPod
    Commits = {c1}
    Truncated = Truncated
INVARIANT CompletedBackupIsUsable
