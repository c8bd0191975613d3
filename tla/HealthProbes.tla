----------------------------- MODULE HealthProbes -----------------------------
(***************************************************************************)
(* The answers of the health probes of one ReconcileQuorum tick, from      *)
(* the typesense nodes' /health endpoint: every snapshot of answers        *)
(* can occur; each step is the probing round of a new tick.                *)
(***************************************************************************)
EXTENDS QuorumHealth

CONSTANTS Nodes        \* the pods listed for the quorum (model values)

VARIABLE health  \* per node, the answer of its health probe

TypeOK == health \in [Nodes -> Healths]

Init == health \in [Nodes -> Healths]

\* The next tick probes again; the nodes may answer anything.
ProbeRound == health' \in [Nodes -> Healths]

Spec == Init /\ [][ProbeRound]_health

-----------------------------------------------------------------------------
\* A node whose health probe reports OutOfMemory or OutOfDisk gets the
\* NodeNotRecoverable gate, which is what makes ReconcileQuorum stop with
\* QuorumNeedsAttentionMemoryOrDiskIssue instead of resizing the cluster
\* (spec 4.5 step 4, testable scenario C).
ResourceErrorIsNotRecoverable ==
    \A n \in Nodes :
        health[n] \in {"OutOfMemory", "OutOfDisk"} =>
            GateReason(health[n]) = "NodeNotRecoverable"

=============================================================================
