SPECIFICATION Spec
CONSTANTS
    Instances = {p1, p2}
    JobPods = {}
    NoPod = NoPod
    NoService = NoService
    MaxCommits = 2
    MaxRestarts = 1
SYMMETRY PodSymmetry
INVARIANT TypeOK
PROPERTY PassedMeansMainAcceptsWrites
