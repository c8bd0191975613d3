# TLA+ models of the typesense operator's quorum supervision

These modules model the part of the operator that keeps a typesense raft
cluster's membership consistent with its StatefulSet. That part lives in
`src/internal/controller/typesensecluster_{configmap,statefulset,quorum}.go`.
The properties are checked with TLC. `PROJECT.json` lists the components, the
runs, the mutants, the source lines each definition models, the findings and
the hazards.

## 1. The system

For each TypesenseCluster, a reconciliation tick runs three steps in order
(spec section 5; the driver `Reconcile` is not under `src/`):

1. **ReconcileConfigMap** (`configmap.go:25-60`). If the membership ConfigMap
   is absent, `createConfigMap` writes the bootstrap list (DNS names of
   ordinals `0..replicas-1`) into both `nodes` and `fallback`. Otherwise
   `updateConfigMap` runs:
   - It deletes the ConfigMap when the StatefulSet is gone, and the tick ends
     with an error.
   - Otherwise it recomputes `nodes` by live discovery (`getNodes`,
     `getEndpointSlicesForStatefulSet`: the endpoints of every slice that has
     at least one live pod IP) and `fallback` by bootstrap discovery.
   - It fails with "empty quorum configuration" when live discovery is empty,
     which ends the tick.
   - It writes only when a field changed.
2. **ReconcileStatefulSet** (`statefulset.go:35-135`). It creates the
   StatefulSet if it is absent. Otherwise, unless the cluster's Ready reason
   is in `skipConditions`, it updates the StatefulSet when
   `shouldUpdateStatefulSet` says so, and then resizes the ConfigMap. An error
   from that resize is only logged.
3. **ReconcileQuorum** (`quorum.go:26-195`). It reads the pods (`getQuorum`)
   and probes each node's raft status and health. Then:
   - It synthesises a cluster status (`getClusterStatus`).
   - On split brain it downgrades.
   - Otherwise it patches a `RaftQuorumReady` readiness gate per pod and walks
     the decision list: needs attention, lagging, election deadlock
     (downgrade), NotReady (purge or wait a term), queued writes, upgrade,
     NotReady, Ready.
   - `downgradeQuorum` scales to 1 and resizes the ConfigMap, or purges all
     pods. `upgradeQuorum` scales to the target, or to `status.replicas + 1`
     when incremental recovery is on, and resizes the ConfigMap.

Between these steps, other actors change the cluster:
- The statefulset controller creates and deletes pods with Parallel pod
  management, in any order, and refreshes `status.replicas` late.
- The endpoint-slice controller adds and drops endpoints late.
- Pods are evicted.
- The user edits `spec.replicas` or deletes the StatefulSet.
- The kubelet writes its own conditions (`Ready`, `ContainersReady`) into
  the same pod status the readiness gate is patched into.
- Any write of the operator can fail (a conflict, a timeout). The tick then
  returns the error and is retried with backoff; nothing it wrote before is
  undone.

These actors, and the probes' answers, are what make the operator hard to
test.

ReconcileStatefulSet also carries the pod template. `buildStatefulSet`
renders it from the TypesenseCluster and stores a content hash of the pod
spec, its resources and the data of the ConfigMap named by
`additionalServerConfiguration` in a template annotation
(`statefulset.go:455-500`). An existing StatefulSet is updated when its
replica count, that hash or the template annotations differ. Every update
also writes a fresh `restartedAt` annotation, so the statefulset controller
rolls every pod. A pod's container reads the ConfigMap (EnvFrom) when it
starts.

## 2. Inventory

| Component | State | Operations (code) | Module |
|---|---|---|---|
| Node Discovery | none (reads slices, pods) | `getNodes` bootstrap / live, `getEndpointSlicesForStatefulSet` | `TypesenseOperator`: `BootstrapNodes`, `LiveNodes` |
| Membership Store | ConfigMap `nodes`, `fallback` | `ReconcileConfigMap`, `createConfigMap`, `updateConfigMap`, `deleteConfigMap` | `TypesenseOperator`: `cm`, `CreateConfigMap`, `SyncConfigMap`, `DeleteOrphanConfigMap`, `UpdateConfigMap`, `ReconcileConfigMapFails` |
| Prober / Classifier | none (remote answers) | `getNodeStatus`, `getNodeHealth` (not under `src/`) | nondeterministic `st`, `h`, `qw` in `ReconcileQuorum`; `HealthProbes` |
| Cluster Status Synthesizer | none | `getClusterStatus`, `getMinimumRequiredNodes` (not under `src/`) | `QuorumHealth`: `ClusterStatusOf`, `MinRequiredNodes` |
| Readiness Gate Updater | pod condition `RaftQuorumReady` | `calculatePodReadinessGate`, `updatePodReadinessGate` | `QuorumHealth`: `GateReason`; `TypesenseOperator`: `gate`, `PatchedGates`; `PodConditions`: `GetPod`, `UpsertCondition`, `PatchStatus` |
| Quorum Reconciler | cluster Ready reason | `ReconcileQuorum`, `downgradeQuorum`, `upgradeQuorum` | `TypesenseOperator`: `QuorumSplitBrain`, `QuorumGated`, `QuorumDecision`, `Downgrade`, `Upgrade` |
| StatefulSet reconciler | `sts.spec.replicas`, pod template, hash annotation | `ReconcileStatefulSet`, `createStatefulSet`, `updateStatefulSet`, `shouldUpdateStatefulSet`, `ScaleStatefulSet`, `PurgeStatefulSetPods` | `TypesenseOperator`: `CreateStatefulSet`, `UpdateStatefulSet` with `RestartPods`, `KeepStatefulSet`, `ScaleStatefulSet`, `PurgeStatefulSetPods`, and the failures `ReconcileStatefulSetFails`, `ScaleFails`, `PurgeFails`; `StatefulSetTemplate`: `CreateStatefulSet`, `CreateStatefulSetFails`, `BuildFailsPanics`, `UpdateStatefulSet`, `KeepStatefulSet` |
| Kubernetes and user | pods, endpoints, `status.replicas`, `spec.replicas` | (external) | `TypesenseOperator`: `CreatePod`, `DeletePod`, `RollPod`, `EvictPod`, `SyncStatus`, `SyncEndpoint`, `SetReplicas`, `DeleteStatefulSet` |
| StatefulSet template | rendered template, hash | `buildStatefulSet` | `StatefulSetTemplate`: `BuildStatefulSet`, `BuildFails` (template as one value, hash as the pair of template and data) |
| Ingress, metrics, scrapers, `normalizeVolumes` | object specs | (not under `src/`, or never called) | not modelled |

## 3. Modules

- **`QuorumHealth`** has only pure operators: the node-state and health
  domains, `MinRequiredNodes`, `ClusterStatusOf` and `GateReason`.
  - `getClusterStatus` and `getMinimumRequiredNodes` are not under `src/`.
    Their definitions follow spec sections 4.4 and 4.5 step 1 and are marked
    `spec_modelled`.
  - `GateReason` translates `calculatePodReadinessGate` as written. The
    `NodeNotRecoverable` assignment is overwritten by the `NodeNotHealthy`
    assignment that follows it (`quorum.go:296`).
- **`HealthProbes`** is a state machine of one tick's probe answers for a set
  of model-value nodes. It checks what the readiness-gate computation makes of
  every answer.
- **`TypesenseOperator`** is the operator together with its environment.
  - Its state: `target` (spec.replicas), `stsExists`, `stsSpec`, `stsStatus`,
    `pod[o]` (Absent or Running), `gate[o]`, `eps` (ordinals with an
    endpoint), `cm` (`nodes` as a set of `<<"dns"|"ip", ordinal>>`, `fallback`
    by its length), `reason` (the Ready condition's reason), `phase` (the
    next step of the tick), and `stale` (pods started from an older pod
    template).
  - `updateStatefulSet` stamps the restart annotation with `time.Now()` on
    every update (`statefulset.go:177`). Every update therefore changes the
    template, and every running pod becomes outdated (`RestartPods`). The
    statefulset controller's rolling update (`RollPod`) then deletes the
    highest outdated pod, but only once every pod below the replica count is
    running with its `RaftQuorumReady` gate true (stricter than the
    controller under Parallel management, which waits only for the pods
    above it; `StatefulSetTemplate` has the exact rule). `CreatePod` recreates it
    from the new template.
  - `tick` records what a ReconcileQuorum step observed and did. It is kept
    only in the state that step leads to; every other step resets it to
    `NoTick`. The invariants read it right after the step.
  - `disruptions` bounds evictions, user edits and deletions. With
    `ArbitraryProbes = FALSE` the probes answer as a healthy raft cluster,
    and a round with any other answer (a split brain, a lost leader) is a
    disruption too (`ProbeAnswers`).
  - Each reconcile step is one action, with every call it makes that changes
    state, including the ConfigMap resize after a scale.
  - A tick that ends with an error returns `phase` to `ConfigMap`. The retry
    with backoff is simply the next tick.
  - Fault model. Any write to the API server may fail (a conflict on the
    optimistic-concurrency token, a timeout), at most `MaxFailures` times
    per behaviour (`WriteFails`, counted in `failures`). A failed write
    changes nothing and ends the tick with the error, keeping the Ready
    condition as it was (spec 7). The failing writes are:
    - the ConfigMap create, update or delete of `ReconcileConfigMap`
      (`ReconcileConfigMapFails`);
    - the StatefulSet create or update (`ReconcileStatefulSetFails`);
    - the ConfigMap resize after an update, which the code only logs;
    - the scale of `downgradeQuorum`/`upgradeQuorum` (`ScaleFails`, only
      when the size changes: `ScaleStatefulSet` writes nothing otherwise);
    - their ConfigMap resize after a successful scale (`ResizeConfigMap`);
    - the status patch of the k-th gate, after the gates before it were
      written (the failure disjunct of `QuorumGated`);
    - the purge (`PurgeFails`). The purge is reached only with one pod, so
      a failed purge deletes nothing.
  - `tick.result` is what ReconcileQuorum returned: the reason it set, or
    `"error"`.
- **`PodConditions`** models `updatePodReadinessGate` on one pod, with the
  kubelet and the statefulset controller acting on the same pod.
  - Its state: the pod's stored `conditions` (a sequence of type/status
    records), `exists`, and the operator's `pc`, `fetched` copy and `want`ed
    gate condition, plus `kubelet`, what the pod's kubelet last wrote per
    type.
  - `GetPod` is the `r.Get`. `PatchStatus` is the condition loop followed by
    `Status().Patch` with `client.MergeFrom`. That patch is a JSON merge
    patch without resourceVersion or UID, so a changed list replaces the
    stored one, and it applies to a pod recreated under the same name.
  - The loop is the recursive operator `Upsert`. It is checked against
    `UpsertIsReplace`, a declarative reference built from `SelectSeq` and
    `SelectInSeq`.
  - The kubelet (`KubeletWrite`, a strategic merge keyed by type),
    `DeletePod`, `RecreatePod` and `ForeignPatch` are the environment.
    `ForeignPatch` is another writer of the pod's status (kubectl, an earlier
    operator version, a second replica of the operator) that replaces the
    list with one of up to `MaxForeignLen` conditions. The API server does
    not reject repeated types, so this is how a list with several gate
    conditions reaches the loop's drop-duplicates branch.

- **`StatefulSetTemplate`** is the template path of ReconcileStatefulSet,
  against the statefulset controller, the kubelet and the user.
  - Its state: the TypesenseCluster's rendered template `crTemplate` and
    `crReplicas`, the extra-configuration ConfigMap `extra` (its data, or
    `Missing`), the StatefulSet `sts` (replicas, template, hash), `pod[o]`
    (the template and the data its container started with), `stale` (pods
    started before the last update), `reason`, `phase` (StatefulSet, then
    Quorum), and `result`, how the last ReconcileStatefulSet ended.
  - The rendered template is one value of the small set `Templates`. It
    stands for the pod spec and the template annotations together, since
    both comparisons at `statefulset.go:91` and `513` lead to the same
    update. The hash is the pair `<<template, data>>`: sha256 over the
    concatenated hashes is equal exactly when the inputs are. An empty data
    map prints as `map[]`, which is not blank, so the data is always
    hashed.
  - ReconcileStatefulSet is five actions, one per way it ends:
    `CreateStatefulSet`, `CreateStatefulSetFails` (the build error
    `createStatefulSet` returns), `BuildFailsPanics` (the build error
    logged, then the nil rendering used), `UpdateStatefulSet` (with
    `RestartPods`) and `KeepStatefulSet` (a skip reason, or nothing to
    update).
  - `ReconcileQuorum` is reduced to the reason it sets from the pods: a lone
    unready `sts-0` is purged (`QuorumNotReady`), fewer ready pods than a
    majority wait a term, otherwise `QuorumReady`. A pod is ready when its
    template is not in `Broken` and its container could read the
    ConfigMap. The probes and gates are modelled in `TypesenseOperator`.
  - Environment: `CreatePod` (Parallel: any missing ordinal),
    `DeletePod`, `RollPod` (the highest stale pod once the pods above it,
    up to the replica count, are ready, as the statefulset controller does
    under Parallel management), `StartContainer` (the kubelet retries a
    container whose ConfigMap was missing), `RestartContainer` (a crash,
    bounded by `MaxRestarts`), and the user's `EditTemplate`,
    `EditReplicas` and `EditExtra` (bounded by `MaxEdits`; deletion of the
    ConfigMap when `MayDeleteExtra`).

Pods are identified by ordinal. An IP entry `<<"ip", o>>` stands for the
address pod `o` had when its endpoint was published. A recreated pod
therefore keeps its address: an endpoint or ConfigMap entry left from the
pod's predecessor cannot be told apart from the new pod's. A fresh address
per incarnation would multiply the states of `eps` and `cm` by the
incarnations and does not fit the runs' budget.

## 4. Runs

| Run | Expect | Checks | What it shows |
|---|---|---|---|
| `safety` | pass | `TypeOK`, `PurgeOnlyWithoutLeader` | Under pod churn, rolling restarts, endpoint lag, one disruption and arbitrary raft roles, no purge happens in a tick in which a node reported itself leader. |
| `converge` | pass | `ScaleConverges`, `MembershipConverges`, `GatesConverge` | Under fairness, with healthy raft answers but for one round of any answer (a split brain that downgrades the cluster to one node, a lost leader), the StatefulSet eventually stays at `spec.replicas` with `QuorumReady`, the ConfigMap eventually lists exactly the IPs of pods `0 .. target-1`, and every one of those pods ends with a true gate. This holds despite that round or a user edit, a deletion or an eviction, one failed API write anywhere, and the restart every update causes. |
| `faults` | pass | `ResizeRecorded` | With arbitrary raft answers and one failed write, a tick that reports `QuorumDowngraded` or `QuorumUpgraded` has recorded the new size in the ConfigMap. A failed resize returns the error instead. |
| `rollout` | pass | `TemplateRolledOut` | With up to three edits of the template, `spec.replicas` or the extra ConfigMap (deleted and recreated included) and one container restart, the StatefulSet and every pod end on the template and replica count asked for, once the ConfigMap is back and the template works. Edits during a rollout and during panicking ticks are picked up. |
| `upsert` | pass | `UpsertMatchesReference` | The condition loop of `updatePodReadinessGate` replaces the first gate condition, drops later duplicates and appends when there is none, on every list the pod can hold, lists with up to three conditions written by another status writer included. |
| `lostupdate` | violation | `KubeletConditionsKept` | The operator fetches the pod, the kubelet sets `Ready`, and the merge patch writes back the fetched list without it (`quorum.go:321`). |
| `lone` | violation | `LoneUnreachableNodeIsPurged` | A NotReady quorum of one unreachable pod `sts-1` waits a term (`QuorumNotReadyWaitATerm`) instead of being purged, because the code reads the status of `sts-0` (`quorum.go:160`). |
| `gates` | violation | `GatesFollowOwnHealth` | When pods 1 and 2 exist before pod 0, the gate computed for `sts-2` is patched onto `sts-1` (`quorum.go:119`). |
| `queued` | violation | `QueuedWritesHoldGrowth` | After a `QuorumQueuedWrites` tick, ReconcileStatefulSet scales 1 to 3 anyway. The guard at `statefulset.go:509` is a tautology, and the reason is missing from the skip list. |
| `overshoot` | violation | `ScaleNeverExceedsTarget` | With incremental recovery, after a downgrade to 1 while `status.replicas` is still 3, upgradeQuorum scales to 4 > target 3. |
| `badtemplate` | violation | `TemplateRolledOut` | The user sets a template whose server never becomes ready and then repairs it; the lone pod is purged and recreated from the broken template forever, because `QuorumNotReady` is a skip reason (`statefulset.go:71-82`). |
| `resource` | violation | `ResourceErrorIsNotRecoverable` | An OutOfDisk/OutOfMemory node gets `NodeNotHealthy`, so the needs-attention branch never fires. |

Each property of the passing run has a mutant, listed in `PROJECT.json`,
that TLC must catch:
- bootstrap loop one ordinal too far;
- purge on zero healthy alone;
- `QuorumReady` added to the skip reasons (`ScaleConverges`: a retarget is
  never applied);
- a ConfigMap update that only rewrites a changed fallback
  (`MembershipConverges`: the nodes list keeps the DNS bootstrap entries);
- `upgradeQuorum` only logging a failed ConfigMap resize, as
  `ReconcileStatefulSet` does (`ResizeRecorded`);
- the gate loop stopping one key short (`GatesConverge`);
- the condition loop replacing every gate condition instead of the first
  (`UpsertMatchesReference`: a list with two gate conditions keeps two);
- `shouldUpdateStatefulSet` without the replica comparison
  (`TemplateRolledOut`: a replica edit is never applied).

`ScaleNeverExceedsTarget` is checked only in `overshoot`. Without
incremental recovery, every scale-up in the code goes to `spec.replicas` in a
single step, so the property cannot fail there. The interesting case is the
incremental one, where the property is violated.

### Bounds

- `MaxPods = 3` ordinals. With `Targets = {3}` in `safety` and
  `Targets = {1, 3}` in the other runs, majority 2 of 3, split brain, election
  deadlock, the 1 → 3 upgrade and (in `converge`) user edits between 1 and 3
  are all reachable. In `safety`, a downgrade still takes the size to 1 and
  the upgrade back to 3.
- `QueuedWritesRange = {0, 1, 2}` with `WriteLagThreshold = 1` gives each of
  the three backlog branches: none, queued and lagging. `safety` uses
  `{0, 1}` (none and queued). The lagging branch only sets a reason that no
  safety property reads, and leaving it out keeps the run small.
- `ProbeStates = {Leader, Candidate, UnreachableState}` gives every cluster
  status.
- In the passing run, `ProbeHealths = {Ok}`. Unhealthy answers come from
  unreachable states via the NotReady branches. The `gates` run adds
  `NotOk`.
- `MaxDisruptions = 1`: one eviction, user edit or StatefulSet deletion per
  behaviour. That is enough for every violation found.
- The safety run declares `VIEW ViewWithoutStatus`, which leaves out
  `stsStatus`. With `Incremental = FALSE`, only `SyncStatus` reads
  `stsStatus`, so states that differ only in it have the same futures. The
  view also replaces the set `stale` by `Outdated`, its running members.
  A stale absent pod behaves like a fresh one, because every pod action
  removes its ordinal from `stale`. The run has about 342 k distinct states
  and takes about 75 s. It has `MaxFailures = 0`: the faults have a run of
  their own.
- `faults` has `MaxFailures = 1`, `MaxDisruptions = 0`, `Targets = {1, 3}`,
  `ProbeStates = {Leader, Candidate, UnreachableState}` and no backlog.
  Split brain and election deadlock give the downgrade, the following tick
  the upgrade, a lone unreachable `sts-0` the purge, and the one failure can
  hit any write of any of them. About 506 k states, about 60 s.
- `converge` has `MaxFailures = 1` too.
- `converge` answers probe rounds as a healthy raft cluster
  (`ArbitraryProbes = FALSE`: the lowest pod leads, every node is ok, and
  nothing is queued), but the one disruption of `MaxDisruptions = 1` may be
  a round of any answer over `{Leader, Follower}`: two leaders give the
  split-brain downgrade to one node, and the liveness properties then
  require the regrowth to `spec.replicas`. With `MaxFailures = 1` it has
  about 247 k states and takes about 50 s.
- `upsert` has one kubelet type and `MaxForeignLen = 3`: lists of up to
  three conditions over two types and two statuses, so two gate conditions
  around a kubelet one occur. About 129 k states.
- Adding `NotOk` to the safety run's `ProbeHealths` takes TLC more than
  10 minutes, so `NotOk` appears only in the `gates` run.
- `StatefulSetTemplate` runs use three ordinals, `Targets = {1, 3}`, two
  templates and two ConfigMap contents. `rollout` has `MaxEdits = 3`,
  `MayDeleteExtra = TRUE` and `MaxRestarts = 1`. That is enough for a delete,
  a panicking tick, a recreate with new data and a replica edit, in any
  order against the rollout. It has about 333 k states and takes about 30 s.
  `badtemplate` adds `Broken = {"t2"}`, with no deletion and no restart.

The passing runs together fire every action and every disjunct, except one. The purge
branch of `downgradeQuorum` (`healthyNodes == 0 && minRequiredNodes == 1`) is
an `IF` branch that no state reaches: both callers have at least two nodes.

### Fairness

`FairSpec` adds weak fairness, and only where the code or Kubernetes makes
something happen when it stays possible:
- `Operator`: a failed tick returns an error and controller-runtime requeues
  it with backoff, and a successful one is requeued by the resync period.
  Failed writes are bounded by `MaxFailures`, so the retries eventually
  succeed; an API server that refuses every write forever is not assumed
  away by fairness but by that bound.
- `SyncStatus`: the statefulset controller publishes `status.replicas`.
- `CreatePod(o)`, `DeletePod(o)` and `RollPod(o)` for each ordinal: the
  statefulset controller reconciles pods towards `spec.replicas` and rolls
  outdated pods.
- `SyncEndpoint(o)`: the endpoint-slice controller follows the pods.
- In `StatefulSetTemplate`, the same reasoning gives fairness to `Operator`
  and to `CreatePod`, `DeletePod`, `RollPod` and `StartContainer` (the
  kubelet retries a container whose ConfigMap is missing). User edits and
  container crashes are not fair.

`EvictPod`, `SetReplicas` and `DeleteStatefulSet` have no fairness: they are
faults and user actions that may never happen. The liveness properties are
stated with `<>[]`, so they hold only if the disruptions stop, and the
`disruptions` bound makes them stop.

Liveness needs the raft answers to become healthy. With arbitrary answers
forever, a cluster can report split brain forever and is downgraded
forever; `converge` therefore bounds the unhealthy rounds by the
disruption budget, which is the assumption that the raft cluster heals.

## 5. Findings

1. `calculatePodReadinessGate` never returns `NodeNotRecoverable`
   (`quorum.go:296`). Spec scenario C cannot happen.
2. The readiness gate goes to pod `<sts>-<sorted index>`, not to the probed
   pod (`quorum.go:119`).
3. `QuorumQueuedWrites` backpressure is bypassed by ReconcileStatefulSet
   (`statefulset.go:71-80`, `509`).
4. Incremental upgrade uses the stale `status.replicas` and can exceed the
   target (`quorum.go:250`).
5. A lone unreachable pod is never purged unless it is `sts-0`: the NotReady
   branch with one available node reads `nodesStatus["<sts>-0"]`
   (`quorum.go:160`). Spec 4.5 step 8 says it is purged.
6. `updatePodReadinessGate` patches the pod's whole condition list with a
   JSON merge patch computed against the copy it fetched, with no
   resourceVersion or UID (`quorum.go:321`). A kubelet condition written
   after the Get is lost, and a pod recreated under the same name receives
   its predecessor's conditions. Spec 4.6 says the other condition types
   are preserved.

7. A template whose pods never become ready cannot be repaired through the
   TypesenseCluster (`badtemplate`). Such pods make ReconcileQuorum report
   `QuorumNotReady` (a lone pod is purged and recreated from the same
   template) or `QuorumNotReadyWaitATerm`. Both are skip conditions, so
   ReconcileStatefulSet never applies the repaired template
   (`statefulset.go:71-82`), and the cluster stays down until the
   StatefulSet is edited by hand.

Observed in the code and the models, without a run of their own:
- Live discovery writes every endpoint of a kept slice, so the endpoint of a
  deleted pod can be written next to a live one (`configmap.go:233-242`).
  `converge` shows that it is dropped once the endpoint-slice controller
  catches up (`MembershipConverges`).
- Every `updateStatefulSet` stamps a fresh restart annotation
  (`statefulset.go:178`), so a pure replica change restarts every pod,
  although spec 9 keeps a content hash to avoid spurious restarts.
  `converge` shows that the cluster still converges.
- A failed `buildStatefulSet` (the Get of the extra ConfigMap fails) is only
  logged, and the nil rendering is then dereferenced (`statefulset.go:84`).
  `createStatefulSet` returns the same error. controller-runtime turns the
  panic into an error, so the tick ends as it would with the error; `rollout`
  shows that the cluster converges once the ConfigMap is back.
- The hash records the ConfigMap data at reconcile time, and a container
  reads it when it starts (`statefulset.go:476`). The data can change, a pod
  can start, and the data can change back before the next non-skipped tick.
  The hash then matches, and that pod keeps the intermediate data.

Dead code:
- The `nodeslist` split-brain wait (`quorum.go:93-96`, `150-153`) never fires,
  because no code writes that key.
- The downgrade purge branch (`quorum.go:211-219`) is never reached.

## 6. Plan for the next sittings

1. **Bootstrap naming.** Model `getNodes` bootstrap naming as a pure operator
   over name lengths, and check it against the spec's NameTooLong
   all-or-nothing contract. Add the `MinRequiredNodes` table check.
2. **Probes within a tick.** Let pods change between a pod's status probe and
   its gate patch.
3. **Liveness with faults.** `converge` has one unhealthy round; more
   rounds, and unhealthy health answers, need a smaller model.
4. **Composition.** Drive `PodConditions` from the gate loop of
   `TypesenseOperator`, so that a lost gate condition feeds back into
   `ReadyReplicas`.
5. **Template and quorum together.** Replace the reduced ReconcileQuorum of
   `StatefulSetTemplate` by the probe-driven one of `TypesenseOperator`, so
   that a downgrade's scale and a template update meet in one model.

## 7. Not modelled

- The fields of the rendered template (containers, probes, volumes, the
  sidecars). They are constructed from the spec without reading state, and
  only their equality matters to ReconcileStatefulSet. `needsSync*` and
  `normalizeVolume*` (`utils.go:130-178`) are not called by any code under
  `src/`.
- In `StatefulSetTemplate`, the membership ConfigMap and the scale of
  ReconcileQuorum: `TypesenseOperator` models them with the replica part of
  the same update.
- Ingress, metrics, scrapers and secrets: outside raft membership.
- `forcePodsConfigMapUpdate`: not called from the modelled reconcilers.
- Formatting of `host:port:port` strings: membership entries are symbolic.
- Probe timeouts: folded into the unreachable or error answers.
- A partial purge. `PurgeStatefulSetPods` lists the pods again by label; a
  pod created between `getQuorum` and that List would be deleted too, and a
  failure midway would leave part of the pods deleted. A tick is one step of
  the model, so the list always holds the one pod `getQuorum` saw.
- A failed `Get` (of the ConfigMap, StatefulSet or pod) other than NotFound:
  it ends the tick before any write, like a failed first write.
