CONSTANTS
    MaxPods = 3
    Targets = {1, 3}
    Incremental = TRUE
    WriteLagThreshold = 1
    QueuedWritesRange = {0, 1, 2}
    ProbeStates = {"Leader", "Candidate", "UnreachableState"}
    ProbeHealths = {"Ok"}
    ArbitraryProbes = TRUE
    MaxDisruptions = 1
    MaxFailures = 0
SPECIFICATION Spec
PROPERTY ScaleNeverExceedsTarget
