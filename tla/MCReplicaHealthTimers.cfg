SPECIFICATION Spec
CONSTANTS
    Replicas = {r0}
    Databases = {d0, d1}
    Lags = {0, 1}
    GracePeriod = 1
    BehindThreshold = 2
    MaxRestarts = 1
INVARIANT TypeOK
INVARIANT LoopOrderDoesNotMatter
INVARIANT GaugesAgreeWithVerdict
INVARIANT NoFalseChannelAlarm
INVARIANT NoFalseLagAlarm
PROPERTY DeadChannelIsReported
PROPERTY LastingLagIsReported
