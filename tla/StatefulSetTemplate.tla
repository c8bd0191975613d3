------------------------- MODULE StatefulSetTemplate -------------------------
(***************************************************************************)
(* The template path of ReconcileStatefulSet: buildStatefulSet renders the *)
(* pod template from the TypesenseCluster and records a content hash of    *)
(* it and of the data of the ConfigMap named by                            *)
(* additionalServerConfiguration; an existing StatefulSet is updated when  *)
(* its replica count or its hash differs, and every update stamps the      *)
(* restart annotation, so the statefulset controller rolls every pod.      *)
(* The pods read the ConfigMap's data (EnvFrom) when their container       *)
(* starts.  ReconcileQuorum is reduced to the condition reason it sets,    *)
(* which ReconcileStatefulSet reads through skipConditions.                *)
(*                                                                         *)
(* The hash is modelled by what it distinguishes: two renderings have the  *)
(* same hash exactly when template and data are equal (sha256 over the     *)
(* concatenated hashstructure hashes), so the hash is the pair itself.     *)
(* The pod annotations (lag thresholds, spec.podAnnotations) are part of   *)
(* the template value: a change of them, like a change of the pod spec,   *)
(* makes the StatefulSet differ from the rendering.                        *)
(***************************************************************************)
EXTENDS Naturals, FiniteSets, FiniteSetsExt, QuorumHealth

CONSTANTS
    MaxPods,        \* pod ordinals modelled: 0 .. MaxPods-1
    Targets,        \* values the user may give spec.replicas
    Templates,      \* pod templates the TypesenseCluster may render to
    Broken,         \* templates whose server never becomes ready
    Datas,          \* contents the extra-configuration ConfigMap may hold
    MayDeleteExtra, \* the user may delete the extra-configuration ConfigMap
    MaxEdits,       \* bound on the user's edits
    MaxRestarts     \* bound on container restarts (crash, OOM kill)

ASSUME /\ MaxPods \in Nat \ {0}
       /\ Targets \subseteq 1 .. MaxPods
       /\ Broken \subseteq Templates
       /\ MayDeleteExtra \in BOOLEAN
       /\ MaxEdits \in Nat /\ MaxRestarts \in Nat

Ord == 0 .. MaxPods - 1

\* The ConfigMap is absent; a container that needs it cannot start.
Missing == "Missing"

\* No pod of that ordinal.
Absent == [tmpl |-> "none", data |-> "none"]

NoSts == [exists |-> FALSE]
Stss  == [exists : {TRUE}, replicas : Targets, template : Templates,
          hash : Templates \X Datas]
Pods  == [tmpl : Templates, data : Datas \cup {Missing}]

Reasons == {"None", "QuorumReady", "QuorumNotReady", "QuorumNotReadyWaitATerm"}

VARIABLES
    crTemplate, \* what the TypesenseCluster's spec renders the pod template to
    crReplicas, \* ts.Spec.Replicas
    extra,      \* data of the extra-configuration ConfigMap, or Missing
    sts,        \* the StatefulSet: replicas, pod template, hash annotation
    pod,        \* per ordinal: Absent, or the template and data it runs
    stale,      \* pods started before the last update of the StatefulSet
    reason,     \* reason of the cluster's Ready condition
    phase,      \* the next step of the current tick
    result,     \* how the last ReconcileStatefulSet ended
    edits,      \* user edits so far (bounded)
    restarts    \* container restarts so far (bounded)

vars == <<crTemplate, crReplicas, extra, sts, pod, stale, reason, phase, result, edits,
          restarts>>

TypeOK ==
    /\ crTemplate \in Templates
    /\ crReplicas \in Targets
    /\ extra \in Datas \cup {Missing}
    /\ sts = NoSts \/ sts \in Stss
    /\ pod \in [Ord -> Pods \cup {Absent}]
    /\ stale \subseteq Ord
    /\ reason \in Reasons
    /\ phase \in {"StatefulSet", "Quorum"}
    /\ result \in {"none", "created", "updated", "kept", "error", "panic"}
    /\ edits \in 0 .. MaxEdits
    /\ restarts \in 0 .. MaxRestarts

Init ==
    /\ crTemplate \in Templates \ Broken
    /\ crReplicas \in Targets
    /\ extra \in Datas
    /\ sts = NoSts
    /\ pod = [o \in Ord |-> Absent]
    /\ stale = {}
    /\ reason = "None"
    /\ phase = "StatefulSet"
    /\ result = "none"
    /\ edits = 0
    /\ restarts = 0

-----------------------------------------------------------------------------
(* ReconcileStatefulSet                                                    *)

SkipReasons ==
    {"QuorumDowngraded", "QuorumUpgraded", "QuorumNeedsAttentionMemoryOrDiskIssue",
     "QuorumNotReady", "StatefulSetNotReady", "ReconciliationInProgress",
     "QuorumNotReadyWaitATerm"}

\* buildStatefulSet fails when the Get of the referenced ConfigMap fails.
BuildFails == extra = Missing

\* buildStatefulSet: the rendered template and its hash annotation, over
\* the pod template and the data of the referenced ConfigMap.
BuildStatefulSet ==
    [exists |-> TRUE, replicas |-> crReplicas, template |-> crTemplate,
     hash |-> <<crTemplate, extra>>]

\* Mutant: the replica counts are not compared.
ShouldUpdateHashOnly(desired) ==
    \/ sts.hash # desired.hash
    \/ sts.template # desired.template

\* shouldUpdateStatefulSet, or template annotations that differ.  The
\* reason test on the replica count is always true.
ShouldUpdateStatefulSet(desired) ==
    \/ sts.replicas # crReplicas
    \/ sts.hash # desired.hash
    \/ sts.template # desired.template

\* The StatefulSet is absent: createStatefulSet builds and creates it.
CreateStatefulSet ==
    /\ phase = "StatefulSet"
    /\ ~sts.exists
    /\ ~BuildFails
    /\ sts' = BuildStatefulSet
    /\ result' = "created"
    /\ phase' = "Quorum"
    /\ UNCHANGED <<crTemplate, crReplicas, extra, pod, stale, reason, edits, restarts>>

\* createStatefulSet returns the error of buildStatefulSet: the tick ends.
CreateStatefulSetFails ==
    /\ phase = "StatefulSet"
    /\ ~sts.exists
    /\ BuildFails
    /\ result' = "error"
    /\ UNCHANGED <<crTemplate, crReplicas, extra, sts, pod, stale, reason, phase, edits,
                   restarts>>

\* The build error is only logged; desiredSts is nil and the next use of
\* it (shouldUpdateStatefulSet, or updateStatefulSet when the replica
\* counts differ) dereferences it.  The panic ends the tick.
BuildFailsPanics ==
    /\ phase = "StatefulSet"
    /\ sts.exists
    /\ reason \notin SkipReasons
    /\ BuildFails
    /\ result' = "panic"
    /\ UNCHANGED <<crTemplate, crReplicas, extra, sts, pod, stale, reason, phase, edits,
                   restarts>>

\* The restart annotation (time.Now) changes the pod template: every pod
\* that exists was started from an older template.
RestartPods == stale' = {o \in Ord : pod[o] # Absent}

\* updateStatefulSet patches the spec of the rendering in, with a fresh
\* restart annotation and the rendering's hash.
UpdateStatefulSet ==
    /\ phase = "StatefulSet"
    /\ sts.exists
    /\ reason \notin SkipReasons
    /\ ~BuildFails
    /\ ShouldUpdateStatefulSet(BuildStatefulSet)
    /\ sts' = BuildStatefulSet
    /\ RestartPods
    /\ result' = "updated"
    /\ phase' = "Quorum"
    /\ UNCHANGED <<crTemplate, crReplicas, extra, pod, reason, edits, restarts>>

\* A skip reason, or nothing to update: the StatefulSet is kept.
KeepStatefulSet ==
    /\ phase = "StatefulSet"
    /\ sts.exists
    /\ \/ reason \in SkipReasons
       \/ ~BuildFails /\ ~ShouldUpdateStatefulSet(BuildStatefulSet)
    /\ result' = "kept"
    /\ phase' = "Quorum"
    /\ UNCHANGED <<crTemplate, crReplicas, extra, sts, pod, stale, reason, edits, restarts>>

-----------------------------------------------------------------------------
(* ReconcileQuorum, reduced to the reason it sets                          *)

\* The server of a pod answers healthy when its template works and its
\* container could start with the ConfigMap's data.
Ready(o) == pod[o] # Absent /\ pod[o].tmpl \notin Broken /\ pod[o].data # Missing

\* The reason ReconcileQuorum sets from the pods it finds: a lone unhealthy
\* pod <sts>-0 is purged; fewer healthy pods than a majority wait a term;
\* no pod at all is the empty-quorum error, which leaves the reason.
ReconcileQuorum ==
    LET N       == {o \in Ord : pod[o] # Absent}
        healthy == {o \in N : Ready(o)}
    IN  /\ phase = "Quorum"
        /\ CASE N = {} -> UNCHANGED <<reason, pod, stale>>
             [] N = {0} /\ healthy = {} ->
                    /\ reason' = "QuorumNotReady"
                    /\ pod' = [o \in Ord |-> Absent]
                    /\ stale' = {}
             [] Cardinality(healthy) < MinRequiredNodes(Cardinality(N)) ->
                    reason' = "QuorumNotReadyWaitATerm" /\ UNCHANGED <<pod, stale>>
             [] OTHER -> reason' = "QuorumReady" /\ UNCHANGED <<pod, stale>>
        /\ phase' = "StatefulSet"
        /\ UNCHANGED <<crTemplate, crReplicas, extra, sts, result, edits, restarts>>

-----------------------------------------------------------------------------
(* The statefulset controller, the kubelet and the user                   *)

\* The statefulset controller creates a missing pod below the replica
\* count (Parallel pod management: in any order) from the current
\* template; its container reads the ConfigMap's data as it starts.
CreatePod(o) ==
    /\ sts.exists
    /\ o < sts.replicas
    /\ pod[o] = Absent
    /\ pod' = [pod EXCEPT ![o] = [tmpl |-> sts.template, data |-> extra]]
    /\ UNCHANGED <<crTemplate, crReplicas, extra, sts, stale, reason, phase, result, edits,
                   restarts>>

\* ... deletes a pod at or above the replica count ...
DeletePod(o) ==
    /\ sts.exists
    /\ o >= sts.replicas
    /\ pod[o] # Absent
    /\ pod' = [pod EXCEPT ![o] = Absent]
    /\ stale' = stale \ {o}
    /\ UNCHANGED <<crTemplate, crReplicas, extra, sts, reason, phase, result, edits, restarts>>

\* ... and rolls the update out from the highest ordinal down: the highest
\* pod started from an older template is deleted, to be recreated from the
\* new one, once the pods above it are ready.  Under the Parallel pod
\* management the StatefulSet asks for, an unready pod below it does not
\* hold the rollout back.
RollPod(o) ==
    /\ stale # {}
    /\ o = Max(stale)
    /\ \A p \in o + 1 .. sts.replicas - 1 : Ready(p)
    /\ pod' = [pod EXCEPT ![o] = Absent]
    /\ stale' = stale \ {o}
    /\ UNCHANGED <<crTemplate, crReplicas, extra, sts, reason, phase, result, edits, restarts>>

\* The kubelet retries a container that could not start for want of the
\* ConfigMap, and starts it once the ConfigMap is back.
StartContainer(o) ==
    /\ pod[o] # Absent
    /\ pod[o].data = Missing
    /\ extra # Missing
    /\ pod' = [pod EXCEPT ![o].data = extra]
    /\ UNCHANGED <<crTemplate, crReplicas, extra, sts, stale, reason, phase, result, edits,
                   restarts>>

\* The server's container crashes or is OOM-killed and is restarted in the
\* same pod; the new container reads the ConfigMap's data again.
RestartContainer(o) ==
    /\ restarts < MaxRestarts
    /\ pod[o] # Absent
    /\ pod' = [pod EXCEPT ![o].data = extra]
    /\ restarts' = restarts + 1
    /\ UNCHANGED <<crTemplate, crReplicas, extra, sts, stale, reason, phase, result, edits>>

\* The user edits the TypesenseCluster's pod template (image, resources,
\* pod annotations, ...), its spec.replicas, or the extra-configuration
\* ConfigMap.
EditTemplate(t) ==
    /\ edits < MaxEdits
    /\ t # crTemplate
    /\ crTemplate' = t
    /\ edits' = edits + 1
    /\ UNCHANGED <<crReplicas, extra, sts, pod, stale, reason, phase, result, restarts>>

EditReplicas(n) ==
    /\ edits < MaxEdits
    /\ n # crReplicas
    /\ crReplicas' = n
    /\ edits' = edits + 1
    /\ UNCHANGED <<crTemplate, extra, sts, pod, stale, reason, phase, result, restarts>>

EditExtra(d) ==
    /\ edits < MaxEdits
    /\ d # extra
    /\ extra' = d
    /\ edits' = edits + 1
    /\ UNCHANGED <<crTemplate, crReplicas, sts, pod, stale, reason, phase, result, restarts>>

ExtraValues == Datas \cup (IF MayDeleteExtra THEN {Missing} ELSE {})

Operator ==
    \/ CreateStatefulSet \/ CreateStatefulSetFails \/ BuildFailsPanics
    \/ UpdateStatefulSet \/ KeepStatefulSet \/ ReconcileQuorum

Controllers ==
    \E o \in Ord : CreatePod(o) \/ DeletePod(o) \/ RollPod(o) \/ StartContainer(o)

User ==
    \/ \E t \in Templates : EditTemplate(t)
    \/ \E n \in Targets : EditReplicas(n)
    \/ \E d \in ExtraValues : EditExtra(d)
    \/ \E o \in Ord : RestartContainer(o)

Next == Operator \/ Controllers \/ User

Spec == Init /\ [][Next]_vars

\* The cluster is requeued, so a reconcile step that can run eventually
\* runs, and the statefulset controller and the kubelet eventually act on
\* what they observe.  The user's edits and container crashes are not fair.
Fairness ==
    /\ WF_vars(Operator)
    /\ \A o \in Ord : /\ WF_vars(CreatePod(o)) /\ WF_vars(DeletePod(o))
                     /\ WF_vars(RollPod(o)) /\ WF_vars(StartContainer(o))

FairSpec == Spec /\ Fairness

-----------------------------------------------------------------------------
(* Properties                                                              *)

\* Once the user stops editing, with the ConfigMap present and a template
\* whose server works, the StatefulSet carries the replica count and the
\* rendering the user asked for, and every pod runs that template: an edit
\* made while the ConfigMap was missing (a panicking tick), while a rollout
\* was under way, or to repair a template whose pods never became ready,
\* is rolled out in the end.
TemplateRolledOut ==
    <>[](extra # Missing /\ crTemplate \notin Broken) =>
        <>[](/\ sts.exists /\ sts.replicas = crReplicas
             /\ sts.hash = <<crTemplate, extra>>
             /\ stale = {}
             /\ \A o \in Ord : IF o < crReplicas THEN pod[o] # Absent /\ pod[o].tmpl = crTemplate
                                                 ELSE pod[o] = Absent)

=============================================================================
