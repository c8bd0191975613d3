CONSTANTS
    GateType = "RaftQuorumReady"
    KubeletTypes = {"Ready", "ContainersReady"}
    Statuses = {"True", "False"}
    MaxForeignLen = 0
SPECIFICATION Spec
INVARIANT KubeletConditionsKept
