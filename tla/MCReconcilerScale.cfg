SPECIFICATION Spec
CONSTANTS
    MaxReplicas = 3
    NumJobPods = 0
    ReplicaCounts = {2, 3}
    PreferredMain = 2
    MaxFaults = 0
    MaxEdits = 1
PROPERTY Converges
