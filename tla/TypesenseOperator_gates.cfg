CONSTANTS
    MaxPods = 3
    Targets = {3}
    Incremental = FALSE
    WriteLagThreshold = 1
    QueuedWritesRange = {0, 1, 2}
    ProbeStates = {"Leader", "Candidate", "UnreachableState"}
    ProbeHealths = {"Ok", "NotOk"}
    ArbitraryProbes = TRUE
    MaxDisruptions = 1
    MaxFailures = 0
SPECIFICATION Spec
INVARIANT GatesFollowOwnHealth
