SPECIFICATION Spec
CONSTANTS
    MaxReplicas = 2
    NumJobPods = 0
    ReplicaCounts = {2}
    PreferredMain <- NoPreference
    MaxFaults = 1
    MaxEdits = 0
PROPERTY KeepsReportedReadyMain
