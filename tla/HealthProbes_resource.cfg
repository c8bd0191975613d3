CONSTANTS
    Nodes = {n1, n2, n3}
INIT Init
NEXT ProbeRound
INVARIANT ResourceErrorIsNotRecoverable
