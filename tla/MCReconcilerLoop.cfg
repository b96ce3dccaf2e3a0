SPECIFICATION Spec
CONSTANTS
    MaxReplicas = 2
    NumJobPods = 1
    ReplicaCounts = {2}
    PreferredMain = 1
    MaxFaults = 1
    MaxEdits = 1
INVARIANT TypeOK
INVARIANT ReconcileInv
PROPERTY KeepsReadyMain
PROPERTY DemotesReportedMainOnlyWhenOutdated
PROPERTY DemotesOnlyUnderAMain
PROPERTY KeepsALiveMain
PROPERTY ImplementsElection
PROPERTY WriteServiceStaysPinned
PROPERTY SettledIsStable
PROPERTY Converges
PROPERTY DeletionCompletes
