---------------------------- MODULE PodConditions ----------------------------
(***************************************************************************)
(* updatePodReadinessGate on one pod, with the kubelet and the statefulset *)
(* controller acting on the same pod.  The operator fetches the pod, builds *)
(* the new condition list (the RaftQuorumReady condition replaced, or      *)
(* appended) and sends it as a JSON merge patch computed against the       *)
(* fetched copy.  Such a patch carries no resourceVersion and no UID: when *)
(* the list changed it replaces the pod's whole condition list, whatever   *)
(* was written in between, and it applies to a pod recreated under the     *)
(* same name.  The kubelet writes its own condition types with a strategic *)
(* merge patch keyed by type.  A condition is a record of type and status; *)
(* reasons and messages travel with the status and are left out.          *)
(***************************************************************************)
EXTENDS Integers, Sequences, SequencesExt

CONSTANTS
    GateType,       \* the readiness gate's condition type, RaftQuorumReady
    KubeletTypes,   \* condition types the kubelet owns (Ready, ...)
    Statuses,       \* condition statuses
    MaxForeignLen   \* longest list another status writer patches in, 0: none

ASSUME GateType \notin KubeletTypes

Types == {GateType} \cup KubeletTypes
Cond  == [type : Types, status : Statuses]
GateConds == {c \in Cond : c.type = GateType}

VARIABLES
    conditions, \* pod.Status.Conditions as stored by the API server
    exists,     \* a pod of that name exists
    pc,         \* "idle" or "fetched": where updatePodReadinessGate is
    fetched,    \* the conditions of the pod the operator fetched
    want,       \* the condition updatePodReadinessGate was called with
    kubelet     \* per kubelet type, the status this pod's kubelet last wrote

vars == <<conditions, exists, pc, fetched, want, kubelet>>

TypeOK ==
    /\ conditions \in Seq(Cond)
    /\ exists \in BOOLEAN
    /\ pc \in {"idle", "fetched"}
    /\ fetched \in Seq(Cond)
    /\ want \in GateConds
    /\ kubelet \in [KubeletTypes -> Statuses \cup {"Unset"}]

Init ==
    /\ conditions = <<>>
    /\ exists = TRUE
    /\ pc = "idle"
    /\ fetched = <<>>
    /\ want \in GateConds
    /\ kubelet = [t \in KubeletTypes |-> "Unset"]

-----------------------------------------------------------------------------

\* Mutant: the "if !found" test is dropped, so every condition of the
\* gate's type is replaced instead of only the first.
RECURSIVE UpsertReplacesAll(_, _, _)
UpsertReplacesAll(cs, c, found) ==
    IF cs = <<>> THEN (IF found THEN <<>> ELSE <<c>>)
    ELSE IF Head(cs).type = c.type
         THEN <<c>> \o UpsertReplacesAll(Tail(cs), c, TRUE)
         ELSE <<Head(cs)>> \o UpsertReplacesAll(Tail(cs), c, found)

\* The loop over pod.Status.Conditions: the first condition of the gate's
\* type is replaced by the new one, later ones of that type are dropped,
\* the others kept in order; the new condition is appended when none was
\* found.
RECURSIVE Upsert(_, _, _)
Upsert(cs, c, found) ==
    IF cs = <<>> THEN (IF found THEN <<>> ELSE <<c>>)
    ELSE IF Head(cs).type = c.type
         THEN (IF found THEN <<>> ELSE <<c>>) \o Upsert(Tail(cs), c, TRUE)
         ELSE <<Head(cs)>> \o Upsert(Tail(cs), c, found)

UpsertCondition(cs, c) == Upsert(cs, c, FALSE)

\* r.Get of the pod: a missing pod is logged and the call returns nil, a
\* stuttering step; otherwise the operator holds a copy of its conditions.
GetPod ==
    /\ pc = "idle"
    /\ exists
    /\ \E c \in GateConds : want' = c
    /\ fetched' = conditions
    /\ pc' = "fetched"
    /\ UNCHANGED <<conditions, exists, kubelet>>

\* r.Status().Patch with client.MergeFrom(fetched copy): an unchanged list
\* sends no conditions; a changed one replaces the stored list; a deleted
\* pod makes the patch fail with NotFound.
PatchStatus ==
    LET new == UpsertCondition(fetched, want)
    IN  /\ pc = "fetched"
        /\ conditions' = IF exists /\ new # fetched THEN new ELSE conditions
        /\ pc' = "idle"
        /\ UNCHANGED <<exists, fetched, want, kubelet>>

-----------------------------------------------------------------------------
(* The kubelet and the statefulset controller                              *)

\* The API server's strategic merge of a condition keyed by its type.
MergeByType(cs, c) ==
    LET i == SelectInSeq(cs, LAMBDA x : x.type = c.type)
    IN  IF i = 0 THEN Append(cs, c) ELSE [cs EXCEPT ![i] = c]

KubeletWrite(t, s) ==
    /\ exists
    /\ conditions' = MergeByType(conditions, [type |-> t, status |-> s])
    /\ kubelet' = [kubelet EXCEPT ![t] = s]
    /\ UNCHANGED <<exists, pc, fetched, want>>

DeletePod ==
    /\ exists
    /\ exists' = FALSE
    /\ conditions' = <<>>
    /\ UNCHANGED <<pc, fetched, want, kubelet>>

\* Another writer of the pod's status (kubectl, an earlier operator
\* version, a second operator replica during a leader handover) replaces
\* the whole condition list with a merge patch of its own.  Nothing on the
\* API server keeps such a list free of repeated types, so it may hold
\* several conditions of the gate's type for the loop to collapse.
ForeignPatch ==
    /\ MaxForeignLen > 0
    /\ exists
    /\ conditions' \in BoundedSeq(Cond, MaxForeignLen)
    /\ UNCHANGED <<exists, pc, fetched, want, kubelet>>

\* The pod is recreated under the same name with an empty status.
RecreatePod ==
    /\ ~exists
    /\ exists' = TRUE
    /\ kubelet' = [t \in KubeletTypes |-> "Unset"]
    /\ UNCHANGED <<conditions, pc, fetched, want>>

Next ==
    \/ GetPod
    \/ PatchStatus
    \/ \E t \in KubeletTypes, s \in Statuses : KubeletWrite(t, s)
    \/ ForeignPatch
    \/ DeletePod
    \/ RecreatePod

Spec == Init /\ [][Next]_vars

-----------------------------------------------------------------------------
(* Properties                                                              *)

\* Spec 4.6, as a reference for the loop of updatePodReadinessGate: the
\* result holds exactly one condition of the gate's type, the new one; the
\* other conditions are those of the input in their order; and the new
\* condition sits where the input's first gate condition was (after all of
\* them when there was none).  Checked on every list the operator can
\* fetch, whatever the kubelet, earlier patches and other writers wrote
\* before, repeated gate conditions included: the loop keeps the first
\* one's position and must drop the rest.
UpsertIsReplace(cs, c, r) ==
    LET Same(x)  == x.type = c.type
        Other(x) == x.type # c.type
        OthersBefore(s, i) == Len(SelectSeq(SubSeq(s, 1, i - 1), Other))
        first == SelectInSeq(cs, Same)
    IN  /\ SelectSeq(r, Same) = <<c>>
        /\ SelectSeq(r, Other) = SelectSeq(cs, Other)
        /\ OthersBefore(r, SelectInSeq(r, Same))
             = IF first = 0 THEN Len(SelectSeq(cs, Other)) ELSE OthersBefore(cs, first)

UpsertMatchesReference ==
    pc = "fetched" => UpsertIsReplace(fetched, want, UpsertCondition(fetched, want))

\* Spec 4.6 says the gate update preserves every other condition type: the
\* pod's kubelet-owned conditions are always the ones its kubelet last
\* wrote.  The merge patch of updatePodReadinessGate sends the list fetched
\* before the kubelet's write, or fetched from the pod's predecessor.
KubeletConditionsKept ==
    exists =>
        \A t \in KubeletTypes :
            SelectSeq(conditions, LAMBDA x : x.type = t)
              = IF kubelet[t] = "Unset" THEN <<>>
                ELSE <<[type |-> t, status |-> kubelet[t]]>>

=============================================================================
