SPECIFICATION Spec
CONSTANTS
    Instances = {p1, p2}
    JobPods = {}
    NoPod = NoPod
    NoService = NoService
    MaxCommits = 1
    MaxRestarts = 0
PROPERTY PassedMeansReplicated
