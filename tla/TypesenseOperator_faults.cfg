CONSTANTS
    MaxPods = 3
    Targets = {1, 3}
    Incremental = FALSE
    WriteLagThreshold = 1
    QueuedWritesRange = {0}
    ProbeStates = {"Leader", "Candidate", "UnreachableState"}
    ProbeHealths = {"Ok"}
    ArbitraryProbes = TRUE
    MaxDisruptions = 0
    MaxFailures = 1
SPECIFICATION Spec
INVARIANT ResizeRecorded
VIEW ViewWithoutStatus
