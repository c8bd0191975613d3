-------------------------- MODULE TypesenseOperator --------------------------
(***************************************************************************)
(* One TypesenseCluster supervised by the operator.  A reconciliation tick *)
(* runs ReconcileConfigMap, ReconcileStatefulSet and ReconcileQuorum in    *)
(* that order; each is one action, and the Kubernetes controllers (the     *)
(* statefulset controller, the endpoint-slice controller, the kubelet) and *)
(* the user act between them.  Pods are identified by their ordinal; the   *)
(* membership ConfigMap stores its "nodes" list as a set of entries,      *)
(* either bootstrap DNS names <<"dns", o>> or discovered IPs <<"ip", o>>,  *)
(* and its "fallback" list by its length (it is always the bootstrap list *)
(* of that many ordinals).                                                 *)
(***************************************************************************)
EXTENDS Integers, FiniteSets, FiniteSetsExt, SequencesExt, QuorumHealth

CONSTANTS
    MaxPods,            \* pod ordinals modelled: 0 .. MaxPods-1
    Targets,            \* values the user may give spec.replicas
    Incremental,        \* spec.incrementalQuorumRecovery
    WriteLagThreshold,  \* getHealthyWriteLagThreshold
    QueuedWritesRange,  \* queued-write backlogs a status probe may report
    ProbeStates,        \* raft roles the probes may report in this model
    ProbeHealths,       \* health answers the probes may give in this model
    MaxDisruptions,     \* bound on evictions, user edits, deletions and
                        \* (without ArbitraryProbes) unhealthy probe rounds
    MaxFailures,        \* bound on API writes that fail (conflict, timeout)
    ArbitraryProbes     \* TRUE: any answer; FALSE: the nodes are healthy
                        \* but for MaxDisruptions rounds of any answer

ASSUME /\ MaxPods \in Nat \ {0}
       /\ Targets \subseteq 1 .. MaxPods
       /\ Incremental \in BOOLEAN
       /\ QueuedWritesRange \subseteq Nat /\ 0 \in QueuedWritesRange
       /\ ProbeStates \subseteq NodeStates /\ ProbeHealths \subseteq Healths
       /\ MaxDisruptions \in Nat
       /\ MaxFailures \in Nat
       /\ ArbitraryProbes \in BOOLEAN

Ord == 0 .. MaxPods - 1

PodPhases == {"Absent", "Running"}

Entry == ({"dns", "ip"} \X Ord)

Reasons == {"None", "QuorumReady", "QuorumNotReady", "QuorumNotReadyWaitATerm",
            "QuorumDowngraded", "QuorumUpgraded", "QuorumQueuedWrites",
            "QuorumNeedsAttentionMemoryOrDiskIssue",
            "QuorumNeedsAttentionClusterIsLagging"}

\* What the quorum reconciler observed and did, kept in the state its step
\* leads to (every other step resets it), so that properties can relate
\* what was observed to what was done.
NoTick == [op |-> "none"]
Results == Reasons \cup {"error"}
Ticks  == [op : {"none", "purge", "downgrade", "upgrade"}, nodes : SUBSET Ord,
           health : UNION {[N -> Healths] : N \in SUBSET Ord},
           states : UNION {[N -> NodeStates] : N \in SUBSET Ord},
           leaders : Nat, gated : BOOLEAN, result : Results]

VARIABLES
    target,     \* ts.Spec.Replicas
    stsExists,  \* the StatefulSet object exists
    stsSpec,    \* sts.Spec.Replicas
    stsStatus,  \* sts.Status.Replicas, written by the sts controller
    pod,        \* pod phase per ordinal
    gate,       \* RaftQuorumReady condition reason on each pod ("None": unset)
    eps,        \* ordinals with an endpoint in the headless service's slice
    cm,         \* the nodes ConfigMap: [exists, nodes, fallback]
    reason,     \* reason of the cluster's Ready condition
    phase,      \* the next step of the current tick
    stale,      \* pods started from a template older than the StatefulSet's
    tick,       \* NoTick, or what the ReconcileQuorum step just taken observed and did
    disruptions,\* evictions, edits, deletions, bad probe rounds so far
    failures    \* API writes of the operator that failed so far (bounded)

opVars  == <<stsExists, stsSpec, cm, reason, phase, failures>>
envVars == <<target, stsStatus, pod, gate, eps, stale, disruptions>>
vars    == <<target, stsExists, stsSpec, stsStatus, pod, gate, eps, stale, cm, reason, phase,
            tick, disruptions, failures>>

TypeOK ==
    /\ target \in Targets
    /\ stsExists \in BOOLEAN
    /\ stsSpec \in 0 .. MaxPods + 1
    /\ stsStatus \in 0 .. MaxPods
    /\ pod \in [Ord -> PodPhases]
    /\ gate \in [Ord -> {"None"} \cup GateReasons]
    /\ eps \subseteq Ord
    /\ stale \subseteq Ord
    /\ cm \in [exists : BOOLEAN, nodes : SUBSET Entry, fallback : 0 .. MaxPods + 1]
    /\ reason \in Reasons
    /\ phase \in {"ConfigMap", "StatefulSet", "Quorum"}
    /\ tick = NoTick \/ tick \in Ticks
    /\ disruptions \in 0 .. MaxDisruptions
    /\ failures \in 0 .. MaxFailures

Init ==
    /\ target \in Targets
    /\ stsExists = FALSE
    /\ stsSpec = 0
    /\ stsStatus = 0
    /\ pod = [o \in Ord |-> "Absent"]
    /\ gate = [o \in Ord |-> "None"]
    /\ eps = {}
    /\ stale = {}
    /\ cm = [exists |-> FALSE, nodes |-> {}, fallback |-> 0]
    /\ reason = "None"
    /\ phase = "ConfigMap"
    /\ tick = NoTick
    /\ disruptions = 0
    /\ failures = 0

-----------------------------------------------------------------------------
(* Node discovery and the membership store                                *)

\* Mutant: the bootstrap loop runs one ordinal too far.
BootstrapNodesPastEnd(replicas) == {<<"dns", o>> : o \in 0 .. replicas}

\* getNodes(bootstrapping = true): <cluster>-sts-<i>.<cluster>-sts-svc for
\* every ordinal below the replica count.
BootstrapNodes(replicas) == {<<"dns", o>> : o \in 0 .. replicas - 1}

\* getEndpointSlicesForStatefulSet keeps the slice when at least one of its
\* endpoints has the IP of a live pod (running or pending, not terminating);
\* getNodes then emits every endpoint of a kept slice.  The headless
\* service has one slice.
LiveNodes ==
    IF \E o \in eps : pod[o] = "Running"
    THEN {<<"ip", o>> : o \in eps}
    ELSE {}

\* updateConfigMap(replicas, resizeOp) when the StatefulSet exists: the
\* desired record, or an error when discovery finds no node.
ConfigMapFor(replicas) ==
    [exists |-> TRUE, nodes |-> LiveNodes, fallback |-> replicas]

EmptyQuorum == LiveNodes = {}

\* Mutant: only a changed fallback list triggers the write.
UpdateConfigMapFallbackOnly(replicas) ==
    /\ ~EmptyQuorum
    /\ cm' = IF cm.fallback # replicas THEN ConfigMapFor(replicas) ELSE cm

\* The write of updateConfigMap: the record is replaced only when "nodes"
\* or "fallback" changed, so an unchanged discovery writes nothing.
UpdateConfigMap(replicas) ==
    /\ ~EmptyQuorum
    /\ cm' = IF cm.nodes # LiveNodes \/ cm.fallback # replicas
             THEN ConfigMapFor(replicas) ELSE cm

\* A write to the API server fails (a conflict with a concurrent update, a
\* timeout): the call returns the error and nothing is written.
WriteFails ==
    /\ failures < MaxFailures
    /\ failures' = failures + 1

\* updateConfigMap reaches r.Update (a list changed) and the update fails.
ConfigMapWriteFails(replicas) ==
    /\ ~EmptyQuorum
    /\ cm.nodes # LiveNodes \/ cm.fallback # replicas
    /\ WriteFails
    /\ UNCHANGED cm

-----------------------------------------------------------------------------
(* ReconcileConfigMap                                                      *)

\* The ConfigMap is absent: createConfigMap writes the bootstrap list to
\* both fields.
CreateConfigMap ==
    /\ phase = "ConfigMap"
    /\ ~cm.exists
    /\ cm' = [exists |-> TRUE, nodes |-> BootstrapNodes(target), fallback |-> target]
    /\ phase' = "StatefulSet"
    /\ tick' = NoTick
    /\ UNCHANGED <<envVars, stsExists, stsSpec, reason, failures>>

\* updateConfigMap(nil, false): replicas default to sts.Spec.Replicas.  An
\* empty discovery aborts the whole tick.
SyncConfigMap ==
    /\ phase = "ConfigMap"
    /\ cm.exists /\ stsExists
    /\ tick' = NoTick
    /\ \/ /\ UpdateConfigMap(stsSpec)
          /\ phase' = "StatefulSet"
       \/ /\ EmptyQuorum
          /\ UNCHANGED <<cm, phase>>
    /\ UNCHANGED <<envVars, stsExists, stsSpec, reason, failures>>

\* updateConfigMap finds no StatefulSet: the ConfigMap is deleted and the
\* NotFound error aborts the tick.
DeleteOrphanConfigMap ==
    /\ phase = "ConfigMap"
    /\ cm.exists /\ ~stsExists
    /\ cm' = [exists |-> FALSE, nodes |-> {}, fallback |-> 0]
    /\ tick' = NoTick
    /\ UNCHANGED <<envVars, stsExists, stsSpec, reason, phase, failures>>

\* The write of ReconcileConfigMap fails: createConfigMap, the update of
\* updateConfigMap, or deleteConfigMap of an orphan; the tick ends with the
\* error.
ReconcileConfigMapFails ==
    /\ phase = "ConfigMap"
    /\ \/ ~cm.exists /\ WriteFails
       \/ cm.exists /\ stsExists /\ ConfigMapWriteFails(stsSpec)
       \/ cm.exists /\ ~stsExists /\ WriteFails
    /\ tick' = NoTick
    /\ UNCHANGED <<envVars, stsExists, stsSpec, cm, reason, phase>>

-----------------------------------------------------------------------------
(* ReconcileStatefulSet                                                    *)

\* Mutant: a Ready cluster is also left alone.
SkipReasonsWithReady == {"QuorumReady", "QuorumDowngraded", "QuorumUpgraded",
                         "QuorumNeedsAttentionMemoryOrDiskIssue", "QuorumNotReady",
                         "StatefulSetNotReady", "ReconciliationInProgress",
                         "QuorumNotReadyWaitATerm"}

\* Condition reasons under which ReconcileStatefulSet leaves an existing
\* StatefulSet alone.
SkipReasons == {"QuorumDowngraded", "QuorumUpgraded",
                "QuorumNeedsAttentionMemoryOrDiskIssue", "QuorumNotReady",
                "StatefulSetNotReady", "ReconciliationInProgress",
                "QuorumNotReadyWaitATerm"}

\* shouldUpdateStatefulSet: the replica test is guarded by
\* "reason != Downgraded || reason != QueuedWrites", which is always true.
ShouldUpdateStatefulSet == stsSpec # target

\* updateStatefulSet stamps the restart annotation with the current time on
\* every update, so the new template differs from the one every running
\* pod was started from.
RestartPods == stale' = {o \in Ord : pod[o] = "Running"}

CreateStatefulSet ==
    /\ phase = "StatefulSet"
    /\ ~stsExists
    /\ stsExists' = TRUE
    /\ stsSpec' = target
    /\ phase' = "Quorum"
    /\ tick' = NoTick
    /\ UNCHANGED <<envVars, cm, reason, failures>>

\* The spec is rewritten to the desired one (replicas = target), then the
\* ConfigMap is resized to it; an error of that update is only logged.
UpdateStatefulSet ==
    /\ phase = "StatefulSet"
    /\ stsExists
    /\ reason \notin SkipReasons
    /\ ShouldUpdateStatefulSet
    /\ stsSpec' = target
    /\ RestartPods
    /\ \/ UpdateConfigMap(target) /\ UNCHANGED failures
       \/ EmptyQuorum /\ UNCHANGED <<cm, failures>>
       \/ ConfigMapWriteFails(target)
    /\ phase' = "Quorum"
    /\ tick' = NoTick
    /\ UNCHANGED <<target, stsStatus, pod, gate, eps, disruptions, stsExists, reason>>

KeepStatefulSet ==
    /\ phase = "StatefulSet"
    /\ stsExists
    /\ reason \in SkipReasons \/ ~ShouldUpdateStatefulSet
    /\ phase' = "Quorum"
    /\ tick' = NoTick
    /\ UNCHANGED <<envVars, stsExists, stsSpec, cm, reason, failures>>

\* createStatefulSet or updateStatefulSet fails: the tick ends with the
\* error.
ReconcileStatefulSetFails ==
    /\ phase = "StatefulSet"
    /\ \/ ~stsExists
       \/ stsExists /\ reason \notin SkipReasons /\ ShouldUpdateStatefulSet
    /\ WriteFails
    /\ phase' = "ConfigMap"
    /\ tick' = NoTick
    /\ UNCHANGED <<envVars, stsExists, stsSpec, cm, reason>>

-----------------------------------------------------------------------------
(* ReconcileQuorum                                                         *)

\* getQuorum: the StatefulSet's pods, keyed by pod name.
QuorumNodes == {o \in Ord : pod[o] # "Absent"}

\* ScaleStatefulSet: a no-op when the replicas already match.
ScaleStatefulSet(n) == stsSpec' = n

\* ... and its r.Client.Update fails; nothing is written when the replicas
\* already match.
ScaleFails(n) ==
    /\ stsSpec # n
    /\ WriteFails
    /\ UNCHANGED stsSpec

\* PurgeStatefulSetPods deletes every pod of the StatefulSet.
PurgeStatefulSetPods ==
    pod' = [o \in Ord |-> "Absent"]

\* The delete of the first pod fails and the purge returns the error.  A
\* purge is only reached with one pod, so nothing is deleted.
PurgeFails ==
    /\ WriteFails
    /\ UNCHANGED pod

\* The purge of ReconcileQuorum, whose result r is QuorumNotReady or the
\* purge's error.
Purge(r) ==
    \/ PurgeStatefulSetPods /\ reason' = "QuorumNotReady" /\ r = "QuorumNotReady"
       /\ UNCHANGED failures
    \/ PurgeFails /\ UNCHANGED reason /\ r = "error"

\* updateConfigMap(n) after a scale: on success the tick's result is ok; an
\* empty discovery or a failed write returns the error with the condition
\* left as it was.
ResizeConfigMap(n, ok, r) ==
    \/ UpdateConfigMap(n) /\ reason' = ok /\ r = ok /\ UNCHANGED failures
    \/ EmptyQuorum /\ UNCHANGED <<cm, reason, failures>> /\ r = "error"
    \/ ConfigMapWriteFails(n) /\ UNCHANGED reason /\ r = "error"

\* A deleted pod loses its conditions: it is recreated without the gate.
ClearGates(g) == [o \in Ord |-> IF pod'[o] = "Absent" THEN "None" ELSE g[o]]

\* sts.Status.ReadyReplicas: running pods whose RaftQuorumReady gate is true
\* (read as of the tick; the lag of this count is not modelled).
ReadyReplicas == Quantify(Ord, LAMBDA o : pod[o] = "Running" /\ gate[o] = "NodeHealthy")

\* upgradeQuorum's new size.
UpgradeSize == IF Incremental THEN stsStatus + 1 ELSE target

\* nodeKeys: the quorum's pod names in sort.Strings order, which below ten
\* pods is the order of their ordinals.
NodeKeys(N) ==
    [i \in 1 .. Cardinality(N) |-> CHOOSE n \in N : Quantify(N, LAMBDA m : m < n) = i - 1]

\* Mutant: the loop stops one key short.
PatchedGatesShort(keys, h, upto) ==
    [o \in Ord |-> IF o < upto /\ o < Len(keys) - 1 /\ pod[o] # "Absent"
                   THEN GateReason(h[keys[o + 1]]) ELSE gate[o]]

\* The readiness gates: nodeKeys is sorted, and the gate computed for the
\* o-th key is patched onto pod <cluster>-sts-<o>; a pod that cannot be
\* fetched is skipped.
PatchedGates(keys, h, upto) ==
    [o \in Ord |-> IF o < upto /\ o < Len(keys) /\ pod[o] # "Absent"
                   THEN GateReason(h[keys[o + 1]]) ELSE gate[o]]

\* The branch ReconcileQuorum takes once the gates are written, as
\* <<reason, operation>>.
QuorumDecision(st, h, qw) ==
    LET N         == DOMAIN st
        available == Cardinality(N)
        minReq    == MinRequiredNodes(available)
        healthy   == available - Quantify(N, LAMBDA n : ~GateHealthy(h[n]))
        cs        == ClusterStatusOf(st)
        attention == \E n \in N : GateReason(h[n]) = "NodeNotRecoverable"
        \* nodesStatus[<cluster>-sts-0]: the zero NodeStatus when absent
        state0    == IF 0 \in N THEN st[0] ELSE "None"
    IN  CASE attention -> <<"QuorumNeedsAttentionMemoryOrDiskIssue", "none">>
          [] qw > WriteLagThreshold -> <<"QuorumNeedsAttentionClusterIsLagging", "none">>
          [] cs = "ElectionDeadlock" -> <<"", "downgrade">>
          [] cs = "NotReady" /\ available = 1 /\ state0 \in {"ErrorState", "UnreachableState"}
                -> <<"QuorumNotReady", "purge">>
          [] cs = "NotReady" /\ available = 1 -> <<"QuorumNotReadyWaitATerm", "none">>
          [] cs = "NotReady" /\ minReq > healthy -> <<"QuorumNotReadyWaitATerm", "none">>
          [] cs = "OK" /\ stsSpec < target /\ qw > 0 -> <<"QuorumQueuedWrites", "none">>
          [] cs = "OK" /\ stsSpec < target -> <<"", "upgrade">>
          [] healthy < minReq -> <<"QuorumNotReady", "none">>
          [] OTHER -> <<"QuorumReady", "none">>

\* Mutant: downgradeQuorum purges on a zero healthy count alone.
DowngradePurgeOnZeroHealthy(healthyNodes, minRequired, r) ==
    IF healthyNodes = 0
    THEN Purge(r) /\ UNCHANGED <<stsSpec, cm>>
    ELSE /\ UNCHANGED pod
         /\ \/ ScaleFails(1) /\ UNCHANGED <<cm, reason>> /\ r = "error"
            \/ ScaleStatefulSet(1) /\ ResizeConfigMap(1, "QuorumDowngraded", r)

\* downgradeQuorum(healthyNodes, minRequiredNodes): purge when nothing is
\* healthy in a one-node quorum, otherwise scale to one replica and resize
\* the ConfigMap; an error of either returns it with the condition as it
\* was.  r is the tick's result.
\* Both callers (split brain, election deadlock) have at least two nodes, so
\* minRequired >= 2 and the purge branch is never taken.
Downgrade(healthyNodes, minRequired, r) ==
    IF healthyNodes = 0 /\ minRequired = 1
    THEN Purge(r) /\ UNCHANGED <<stsSpec, cm>>
    ELSE /\ UNCHANGED pod
         /\ \/ ScaleFails(1) /\ UNCHANGED <<cm, reason>> /\ r = "error"
            \/ ScaleStatefulSet(1) /\ ResizeConfigMap(1, "QuorumDowngraded", r)

\* Mutant: upgradeQuorum only logs an error of the ConfigMap resize, as
\* ReconcileStatefulSet does, and reports the upgrade.
UpgradeResizeErrorIgnored(r) ==
    /\ UNCHANGED pod
    /\ \/ ScaleFails(UpgradeSize) /\ UNCHANGED <<cm, reason>> /\ r = "error"
       \/ /\ ScaleStatefulSet(UpgradeSize)
          /\ \/ UpdateConfigMap(UpgradeSize) /\ UNCHANGED failures
             \/ EmptyQuorum /\ UNCHANGED <<cm, failures>>
             \/ ConfigMapWriteFails(UpgradeSize)
          /\ reason' = "QuorumUpgraded" /\ r = "QuorumUpgraded"

\* upgradeQuorum: scale, then resize the ConfigMap to the new size; an
\* error of either is returned.
Upgrade(r) ==
    /\ UNCHANGED pod
    /\ \/ ScaleFails(UpgradeSize) /\ UNCHANGED <<cm, reason>> /\ r = "error"
       \/ ScaleStatefulSet(UpgradeSize) /\ ResizeConfigMap(UpgradeSize, "QuorumUpgraded", r)

\* What the tick saw and did; result is the reason it set or "error".
TickRecord(op, st, h, gated, r) ==
    [op |-> op, nodes |-> DOMAIN st, health |-> h, states |-> st, gated |-> gated,
     result |-> r,
     leaders |-> Quantify(DOMAIN st, LAMBDA n : st[n] = "Leader")]

\* GetFreshStatefulSet or getQuorum fails: the tick ends with an error.
QuorumUnavailable ==
    /\ phase = "Quorum"
    /\ ~stsExists \/ ~cm.exists
    /\ phase' = "ConfigMap"
    /\ tick' = NoTick
    /\ UNCHANGED <<envVars, stsExists, stsSpec, cm, reason, failures>>

\* More than one leader: downgrade with the StatefulSet's ready replicas as
\* the healthy count.  The early return for a "nodeslist" entry naming the
\* StatefulSet never fires: no code writes a "nodeslist" key.
QuorumSplitBrain(st, h) ==
    /\ ClusterStatusOf(st) = "SplitBrain"
    /\ \E r \in {"QuorumNotReady", "QuorumDowngraded", "error"} :
          /\ Downgrade(ReadyReplicas, MinRequiredNodes(Cardinality(DOMAIN st)), r)
          /\ tick' = TickRecord(IF pod' # pod THEN "purge" ELSE "downgrade", st, h, FALSE, r)
    /\ gate' = ClearGates(gate)

\* Otherwise the gates are written, then the decision is carried out.  The
\* patch of the k-th gate may fail: the earlier gates are written and the
\* tick ends with the error.
QuorumGated(st, h, qw) ==
    LET N        == DOMAIN st
        keys     == NodeKeys(N)
        healthy  == Cardinality(N) - Quantify(N, LAMBDA n : ~GateHealthy(h[n]))
        decision == QuorumDecision(st, h, qw)
        Done(op, r) == tick' = TickRecord(op, st, h, TRUE, r)
    IN  /\ ClusterStatusOf(st) # "SplitBrain"
        /\ \/ /\ WriteFails
              /\ \E k \in 0 .. Len(keys) - 1 :
                    pod[k] # "Absent" /\ gate' = PatchedGates(keys, h, k)
              /\ UNCHANGED <<stsSpec, pod, cm, reason>>
              /\ tick' = TickRecord("none", st, h, FALSE, "error")
           \/ /\ \/ /\ decision[2] = "none"
                    /\ reason' = decision[1]
                    /\ UNCHANGED <<stsSpec, pod, cm, failures>>
                    /\ Done("none", decision[1])
                 \/ /\ decision[2] = "purge"
                    /\ UNCHANGED <<stsSpec, cm>>
                    /\ \E r \in {"QuorumNotReady", "error"} : Purge(r) /\ Done("purge", r)
                 \/ /\ decision[2] = "downgrade"
                    /\ \E r \in {"QuorumNotReady", "QuorumDowngraded", "error"} :
                          /\ Downgrade(healthy, MinRequiredNodes(Cardinality(N)), r)
                          /\ Done(IF pod' # pod THEN "purge" ELSE "downgrade", r)
                 \/ /\ decision[2] = "upgrade"
                    /\ \E r \in {"QuorumUpgraded", "error"} : Upgrade(r) /\ Done("upgrade", r)
              /\ gate' = ClearGates(PatchedGates(keys, h, Len(keys)))

\* The answers of getNodeStatus (role, queued writes) and getNodeHealth for
\* the listed pods.  A healthy raft cluster answers with one leader, the
\* other nodes following, every node ok and nothing queued.
HealthyAnswer ==
    <<[n \in QuorumNodes |-> IF n = Min(QuorumNodes) THEN "Leader" ELSE "Follower"],
      [n \in QuorumNodes |-> "Ok"], 0>>

AnyAnswer ==
    [QuorumNodes -> ProbeStates] \X [QuorumNodes -> ProbeHealths] \X QueuedWritesRange

\* The answers a tick may get, and the disruptions that counts: with
\* ArbitraryProbes any answer at any time, otherwise the healthy one, or,
\* as a disruption, any other (a split brain, a lost leader).
ProbeAnswers ==
    IF ArbitraryProbes
    THEN AnyAnswer \X {disruptions}
    ELSE ({HealthyAnswer} \X {disruptions})
         \cup (IF disruptions < MaxDisruptions
               THEN (AnyAnswer \ {HealthyAnswer}) \X {disruptions + 1} ELSE {})

ReconcileQuorum ==
    /\ phase = "Quorum"
    /\ stsExists /\ cm.exists
    /\ phase' = "ConfigMap"
    /\ \E <<a, d>> \in ProbeAnswers :
          LET backlog == IF QuorumNodes = {} THEN 0 ELSE a[3]
          IN  /\ disruptions' = d
              /\ \/ QuorumSplitBrain(a[1], a[2])
                 \/ QuorumGated(a[1], a[2], backlog)
    /\ UNCHANGED <<target, stsExists, stsStatus, eps, stale>>

-----------------------------------------------------------------------------
(* The environment                                                         *)

\* The statefulset controller (parallel pod management) creates a missing
\* pod below the replica count, in any order.
CreatePod(o) ==
    /\ stsExists /\ o < stsSpec /\ pod[o] = "Absent"
    /\ pod' = [pod EXCEPT ![o] = "Running"]
    /\ stale' = stale \ {o}
    /\ tick' = NoTick
    /\ UNCHANGED <<opVars, target, stsStatus, gate, eps, disruptions>>

\* ... and deletes a pod at or above the replica count (every pod once the
\* StatefulSet is gone: its pods are garbage collected).  A deleted pod is
\* recreated without the gate.
DeletePod(o) ==
    /\ pod[o] = "Running"
    /\ o >= stsSpec
    /\ pod' = [pod EXCEPT ![o] = "Absent"]
    /\ gate' = [gate EXCEPT ![o] = "None"]
    /\ stale' = stale \ {o}
    /\ tick' = NoTick
    /\ UNCHANGED <<opVars, target, stsStatus, eps, disruptions>>

\* Pods started from an older template that still run.
Outdated == {o \in stale : pod[o] = "Running"}

\* The rolling update: once every pod below the replica count runs and is
\* ready (its RaftQuorumReady gate true), the highest outdated pod is
\* deleted, to be recreated from the new template.
RollPod(o) ==
    /\ stsExists
    /\ o \in Outdated /\ o = Max(Outdated)
    /\ \A p \in 0 .. stsSpec - 1 : pod[p] = "Running" /\ gate[p] = "NodeHealthy"
    /\ pod' = [pod EXCEPT ![o] = "Absent"]
    /\ gate' = [gate EXCEPT ![o] = "None"]
    /\ stale' = stale \ {o}
    /\ tick' = NoTick
    /\ UNCHANGED <<opVars, target, stsStatus, eps, disruptions>>

\* A pod is evicted or crashes out of its node.
EvictPod(o) ==
    /\ disruptions < MaxDisruptions
    /\ pod[o] = "Running"
    /\ pod' = [pod EXCEPT ![o] = "Absent"]
    /\ gate' = [gate EXCEPT ![o] = "None"]
    /\ stale' = stale \ {o}
    /\ disruptions' = disruptions + 1
    /\ tick' = NoTick
    /\ UNCHANGED <<opVars, target, stsStatus, eps>>

\* The statefulset controller refreshes sts.Status.Replicas.
SyncStatus ==
    /\ stsStatus # Cardinality(QuorumNodes)
    /\ stsStatus' = Cardinality(QuorumNodes)
    /\ tick' = NoTick
    /\ UNCHANGED <<opVars, target, pod, gate, eps, stale, disruptions>>

\* The endpoint-slice controller adds a running pod's endpoint and drops
\* the endpoint of a pod that is no longer running.
SyncEndpoint(o) ==
    /\ \/ pod[o] = "Running" /\ o \notin eps /\ eps' = eps \cup {o}
       \/ pod[o] # "Running" /\ o \in eps /\ eps' = eps \ {o}
    /\ tick' = NoTick
    /\ UNCHANGED <<opVars, target, stsStatus, pod, gate, stale, disruptions>>

\* The user changes spec.replicas.
SetReplicas(t) ==
    /\ disruptions < MaxDisruptions
    /\ t # target
    /\ target' = t
    /\ disruptions' = disruptions + 1
    /\ tick' = NoTick
    /\ UNCHANGED <<opVars, stsStatus, pod, gate, eps, stale>>

\* The user deletes the StatefulSet.
DeleteStatefulSet ==
    /\ disruptions < MaxDisruptions
    /\ stsExists
    /\ stsExists' = FALSE
    /\ stsSpec' = 0
    /\ disruptions' = disruptions + 1
    /\ tick' = NoTick
    /\ UNCHANGED <<target, stsStatus, pod, gate, eps, stale, cm, reason, phase, failures>>

Operator ==
    \/ CreateConfigMap \/ SyncConfigMap \/ DeleteOrphanConfigMap
    \/ CreateStatefulSet \/ UpdateStatefulSet \/ KeepStatefulSet
    \/ QuorumUnavailable \/ ReconcileQuorum
    \/ ReconcileConfigMapFails \/ ReconcileStatefulSetFails

Environment ==
    \/ \E o \in Ord : CreatePod(o) \/ DeletePod(o) \/ EvictPod(o) \/ RollPod(o)
                      \/ SyncEndpoint(o)
    \/ SyncStatus
    \/ \E t \in Targets : SetReplicas(t)
    \/ DeleteStatefulSet

Next == Operator \/ Environment

Spec == Init /\ [][Next]_vars

\* The controller requeues the cluster, so a reconcile step that can run
\* eventually runs; the statefulset and endpoint-slice controllers
\* eventually act on what they observe.  Evictions, user edits and
\* deletions are not fair: they may never happen.
Fairness ==
    /\ WF_vars(Operator)
    /\ WF_vars(SyncStatus)
    /\ \A o \in Ord : /\ WF_vars(CreatePod(o)) /\ WF_vars(DeletePod(o))
                     /\ WF_vars(RollPod(o)) /\ WF_vars(SyncEndpoint(o))

FairSpec == Spec /\ Fairness

\* Without incremental recovery nothing but SyncStatus reads stsStatus
\* (UpgradeSize uses it only when Incremental holds), and a mark in stale
\* matters only while its pod runs (Outdated): a recreated pod is
\* unmarked.  States that agree on the rest have the same futures, so runs
\* with Incremental = FALSE may identify them.
ViewWithoutStatus ==
    <<target, stsExists, stsSpec, pod, gate, eps, Outdated, cm, reason, phase, tick, disruptions,
     failures>>

-----------------------------------------------------------------------------
(* Properties                                                              *)

\* No step of the operator scales the StatefulSet above the user's
\* spec.replicas: neither ReconcileStatefulSet nor upgradeQuorum.
ScaleNeverExceedsTarget ==
    [][stsSpec' > stsSpec => stsSpec' <= target]_vars

\* ReconcileQuorum deletes every pod (PurgeStatefulSetPods, from
\* downgradeQuorum or the one-node NotReady branch) only in a tick in
\* which no node reported itself leader.
PurgeOnlyWithoutLeader ==
    tick.op = "purge" => tick.leaders = 0

\* After ReconcileQuorum patched the readiness gates, the gate on each
\* probed pod that still carries one is the one computed from that pod's
\* own health probe.
GatesFollowOwnHealth ==
    tick # NoTick /\ tick.gated =>
        \A o \in tick.nodes : gate[o] # "None" => gate[o] = GateReason(tick.health[o])

\* While the last quorum condition is QuorumQueuedWrites (growth deferred
\* until the backlog drains), ReconcileStatefulSet does not grow the
\* StatefulSet (the guard of shouldUpdateStatefulSet).
QueuedWritesHoldGrowth ==
    [][phase = "StatefulSet" /\ reason = "QuorumQueuedWrites" => stsSpec' <= stsSpec]_vars

\* When the only pod of the quorum reports ErrorState or UnreachableState
\* (and the tick is not stopped by a resource error or write lag), the
\* NotReady branch of ReconcileQuorum purges the pods (spec 4.5 step 8).
LoneUnreachableNodeIsPurged ==
    (/\ tick # NoTick /\ tick.gated /\ Cardinality(tick.nodes) = 1
     /\ reason \notin {"QuorumNeedsAttentionMemoryOrDiskIssue",
                       "QuorumNeedsAttentionClusterIsLagging"}
     /\ \A n \in tick.nodes : tick.states[n] \in {"ErrorState", "UnreachableState"})
    => tick.op = "purge"

\* With healthy nodes, once the disruptions stop the operator brings the
\* StatefulSet to spec.replicas and keeps it there with the cluster Ready:
\* no skip condition, aborted tick or downgrade/upgrade cycle holds it
\* away forever (ReconcileStatefulSet and ReconcileQuorum together).
ScaleConverges ==
    <>[](stsExists /\ stsSpec = target /\ reason = "QuorumReady")

\* ... and the ConfigMap ends up listing exactly the IPs of the pods of that
\* size, with a fallback of that size, even where a resize of the ConfigMap
\* failed after a scale (updateConfigMap's errors in ReconcileStatefulSet
\* are only logged).
MembershipConverges ==
    <>[](cm.exists /\ cm.fallback = target /\ cm.nodes = {<<"ip", o>> : o \in 0 .. target - 1})

\* A tick of ReconcileQuorum that reports QuorumDowngraded or QuorumUpgraded
\* has recorded the new size in the ConfigMap too (spec, scenario D: the
\* Membership Store reflects the new size).  The scale and the ConfigMap
\* resize are two writes; downgradeQuorum and upgradeQuorum return the
\* resize's error instead of the condition.
ResizeRecorded ==
    tick # NoTick /\ tick.result \in {"QuorumDowngraded", "QuorumUpgraded"}
        => cm.exists /\ cm.fallback = stsSpec

\* Once the faults and disruptions stop, every pod of spec.replicas ends
\* up with a true readiness gate, even where a gate patch failed after the
\* gates of the earlier pods were written (the loop of ReconcileQuorum).
GatesConverge ==
    <>[](\A o \in 0 .. target - 1 : gate[o] = "NodeHealthy")

=============================================================================
