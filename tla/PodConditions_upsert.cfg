CONSTANTS
    GateType = "RaftQuorumReady"
    KubeletTypes = {"Ready"}
    Statuses = {"True", "False"}
    MaxForeignLen = 3
SPECIFICATION Spec
INVARIANT UpsertMatchesReference
