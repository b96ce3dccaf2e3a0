SPECIFICATION DataSpec
CONSTANTS
    Instances = {p1, p2}
    JobPods = {}
    NoPod = NoPod
    NoService = NoService
    MaxCommits = 1
    MaxRestarts = 1
INVARIANT ReplicationIsReestablished
CHECK_DEADLOCK FALSE
