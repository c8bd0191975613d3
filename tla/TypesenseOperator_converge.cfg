CONSTANTS
    MaxPods = 3
    Targets = {1, 3}
    Incremental = FALSE
    WriteLagThreshold = 1
    QueuedWritesRange = {0}
    ProbeStates = {"Leader", "Follower"}
    ProbeHealths = {"Ok"}
    ArbitraryProbes = FALSE
    MaxDisruptions = 1
    MaxFailures = 1
SPECIFICATION FairSpec
PROPERTY ScaleConverges
PROPERTY MembershipConverges
PROPERTY GatesConverge
