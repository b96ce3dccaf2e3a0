SPECIFICATION Spec
CONSTANTS
    Schedules <- OneValue
    Targets <- TwoValues
    Credentials <- OneValue
    HistoryLimit = 1
    MaxJobs = 2
    MaxEdits = 2
    MaxFaults = 1
INVARIANT TypeOK
INVARIANT RecreatedOnlyOnDemand
INVARIANT JobsInv
PROPERTY LastSnapshotTimeAdvances
PROPERTY NewestSuccessIsPublished
PROPERTY InSyncIsStable
PROPERTY CronJobFollowsSpec
PROPERTY WritesStop
PROPERTY JobsEnd
