---------------------------- MODULE QuorumHealth ----------------------------
(***************************************************************************)
(* The per-tick classification done by the quorum reconciler: the         *)
(* majority size, the cluster status synthesised from the nodes' raft      *)
(* roles, and the readiness-gate condition derived from one node's health  *)
(* probe (calculatePodReadinessGate).                                     *)
(***************************************************************************)
EXTENDS Integers, FiniteSets, FiniteSetsExt

\* Raft roles a status probe can report; a failed probe yields the
\* unreachable state (getNodeStatus).
NodeStates == {"Leader", "Follower", "Candidate", "ErrorState", "UnreachableState"}

\* Outcomes of the health probe: ok, not ok without a resource error,
\* not ok with a resource error, or the HTTP call failing.
Healths == {"Ok", "NotOk", "OutOfMemory", "OutOfDisk", "ProbeError"}

ClusterStatuses == {"OK", "NotReady", "SplitBrain", "ElectionDeadlock"}

GateReasons == {"NodeHealthy", "NodeNotHealthy", "NodeNotRecoverable"}

\* Majority of the currently available nodes (getMinimumRequiredNodes).
MinRequiredNodes(available) == available \div 2 + 1

\* getClusterStatus: one leader is OK, several are a split brain; without a
\* leader, a majority stuck as candidates is an election deadlock, anything
\* else is NotReady.
ClusterStatusOf(st) ==
    LET N          == DOMAIN st
        leaders    == Quantify(N, LAMBDA n : st[n] = "Leader")
        candidates == Quantify(N, LAMBDA n : st[n] = "Candidate")
    IN  CASE leaders > 1 -> "SplitBrain"
          [] leaders = 1 -> "OK"
          [] Cardinality(N) > 1 /\ candidates >= MinRequiredNodes(Cardinality(N))
                         -> "ElectionDeadlock"
          [] OTHER       -> "NotReady"

\* calculatePodReadinessGate: a failed probe or a not-ok answer gives
\* NodeNotHealthy.  The OutOfMemory/OutOfDisk branch first sets
\* NodeNotRecoverable, but the assignments after it in the same "!health.Ok"
\* block overwrite the reason with NodeNotHealthy, so that is what is
\* returned for a resource error too.
GateReason(h) == IF h = "Ok" THEN "NodeHealthy" ELSE "NodeNotHealthy"

\* The gate condition's status, read back with strconv.ParseBool.
GateHealthy(h) == GateReason(h) = "NodeHealthy"

=============================================================================
