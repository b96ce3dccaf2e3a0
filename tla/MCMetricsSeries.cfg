SPECIFICATION Spec
CONSTANTS
    Instances = {p1, p2}
    NoPod = NoPod
INVARIANT TypeOK
INVARIANT SweptClusterHasNoSeries
PROPERTY SeriesGoWithCluster
PROPERTY DroppedReplicaDisappears
