SPECIFICATION Spec
CONSTANTS
    MaxReplicas = 2
    NumJobPods = 0
    ReplicaCounts = {1, 2}
    PreferredMain <- NoPreference
    MaxFaults = 0
    MaxEdits = 1
PROPERTY ReadyMainIsMain
