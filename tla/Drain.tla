------------------------------- MODULE Drain -------------------------------
(***************************************************************************)
(* Stopping the runner manager of an object that is being deleted.         *)
(*                                                                         *)
(* Before a pass deregisters the object's runners it deletes the manager   *)
(* Deployment and waits for its pods, which finish their jobs within their *)
(* grace period.  Pods stuck on a lost node are given up once the grace    *)
(* period and a margin are over.  Meanwhile the garbage collector removes  *)
(* the ReplicaSet, which until then replaces the pods that are stopped.    *)
(*                                                                         *)
(* Written from drainManager, isManagerPod and finalizeDeletion in         *)
(* internal/controller/shared.go, ManagerPodLabels in                      *)
(* internal/validate/validate.go and ChildName in api/v1beta2.             *)
(*                                                                         *)
(* Abstractions: time passes in ticks; a pod that terminates counts down   *)
(* the ticks until its deadline plus drainMargin is over, so there is no   *)
(* clock and a run has no horizon.  A name is the sequence of its parts    *)
(* between dashes, so that the prefix test of a name and a dash compares   *)
(* parts.  Nobody but the drain stops the pods of other workloads.         *)
(***************************************************************************)
EXTENDS Naturals, Sequences

CONSTANTS
  Objects,      \* the Runners and MultiRunners of the namespace, each a kind and a name
  Self,         \* the one that is being deleted
  Pods,         \* the pods of the namespace, those not created yet included
  ManagerOf,    \* the object whose manager a pod is, None for a pod of another workload
  Label,        \* the value of a pod's label "deployment"
  Owners,       \* a pod's ownerReferences, each a kind and a name
  None,         \* no object
  Grace,        \* termination grace period, in ticks
  Margin        \* drainMargin, in ticks

ManagerPods == {p \in Pods : ManagerOf[p] = Self}

\* Pods that the drain must leave alone: those of the managers of other objects, and
\* those of workloads that are not Deployments, whatever their name and label.
OtherPods ==
  {p \in Pods : \/ ManagerOf[p] \in Objects \ {Self}
                \/ \A ref \in Owners[p] : ref.kind # "ReplicaSet"}

\* The name of an object's Deployment.
ChildName(o) == <<"gitlab", o.kind>> \o o.name

\* Its name and a dash are a prefix of this name.
NamedAfter(name, deployment) ==
  /\ Len(deployment) < Len(name)
  /\ \A k \in 1 .. Len(deployment) : name[k] = deployment[k]

ASSUME ObjectsAssumption ==
  /\ Objects \subseteq [kind : {"runner", "mrunner"}, name : Seq(STRING)]
  /\ Self \in Objects /\ None \notin Objects
ASSUME PodsAssumption ==
  /\ ManagerOf \in [Pods -> Objects \cup {None}]
  /\ Label \in [Pods -> Seq(STRING)]
  /\ Owners \in [Pods -> SUBSET [kind : STRING, name : Seq(STRING)]]
\* A manager pod has the labels of its Deployment's template, and its ReplicaSet is
\* named after the Deployment, with one more part.
ASSUME ManagersAssumption ==
  \A p \in Pods, o \in Objects :
    ManagerOf[p] = o =>
      /\ Label[p] = o.name
      /\ Owners[p] # {}
      /\ \A ref \in Owners[p] : /\ ref.kind = "ReplicaSet"
                               /\ Len(ref.name) = Len(ChildName(o)) + 1
                               /\ NamedAfter(ref.name, ChildName(o))
ASSUME TicksAssumption == Grace \in Nat /\ Margin \in Nat \ {0}

VARIABLES
  deployment,   \* the manager Deployment exists
  replicaSet,   \* so does its ReplicaSet
  phase,        \* of each pod
  left,         \* ticks until a terminating pod is past its deadline and the margin
  lost,         \* pods whose node is lost
  pc,           \* the step of the pass: "idle" between passes, "done" after deregistration
  overdue,      \* pods past deadline and margin when the pass read the clock
  listed,       \* manager pods the pass listed
  pending,      \* those not being deleted yet
  todo,         \* those of them it has still to delete
  late          \* manager pods created after the list of the pass

podVars == <<phase, left, lost>>
passVars == <<overdue, listed, pending, todo>>
vars == <<deployment, replicaSet, podVars, pc, passVars, late>>

Budget == Grace + Margin
Present == {p \in Pods : phase[p] \in {"running", "terminating"}}

TypeOK ==
  /\ deployment \in BOOLEAN /\ replicaSet \in BOOLEAN
  /\ phase \in [Pods -> {"unused", "running", "terminating", "gone"}]
  /\ left \in [Pods -> 0 .. Budget]
  /\ lost \in SUBSET Pods
  /\ pc \in {"idle", "stop", "list", "delete", "drained", "done"}
  /\ overdue \in SUBSET Pods /\ listed \in SUBSET Pods
  /\ pending \in SUBSET listed /\ todo \in SUBSET pending
  /\ late \in SUBSET ManagerPods

-----------------------------------------------------------------------------

\* A deletion may come at any time, in the middle of a rollout or before the
\* first pod exists.
Init ==
  /\ deployment = TRUE /\ replicaSet = TRUE
  /\ phase \in {f \in [Pods -> {"unused", "running", "terminating"}] :
                  \A p \in Pods \ ManagerPods : f[p] = "running"}
  /\ left = [p \in Pods |-> IF phase[p] = "terminating" THEN Budget ELSE 0]
  /\ lost = {}
  /\ pc = "idle" /\ overdue = {} /\ listed = {} /\ pending = {} /\ todo = {} /\ late = {}

StopTwice(p) ==  \* bug: the margin is counted twice
  /\ phase' = [phase EXCEPT ![p] = "terminating"]
  /\ left' = [left EXCEPT ![p] = Budget + Margin]
  /\ UNCHANGED lost

\* A pod is deleted: its clock starts.
Stop(p) ==
  /\ phase' = [phase EXCEPT ![p] = "terminating"]
  /\ left' = [left EXCEPT ![p] = Budget]
  /\ UNCHANGED lost

-----------------------------------------------------------------------------
(* A pass: drainManager, called by finalizeDeletion.                       *)

OverdueAtDeadline == {p \in Pods : phase[p] = "terminating" /\ left[p] <= Margin}  \* bug: no margin
Overdue == {p \in Pods : phase[p] = "terminating" /\ left[p] = 0}

BeginDrain ==
  /\ pc = "idle"
  /\ pc' = "stop" /\ overdue' = Overdue
  /\ UNCHANGED <<deployment, replicaSet, podVars, listed, pending, todo, late>>

DeleteDeployment ==
  /\ pc = "stop"
  /\ pc' = "list" /\ deployment' = FALSE
  /\ UNCHANGED <<replicaSet, podVars, passVars, late>>

\* ManagerPodLabels: the list is by the object's name, whatever its kind.
AnyLabel(p) == TRUE  \* bug: the list is by namespace only
Labelled(p) == Label[p] = Self.name

\* isManagerPod: the label alone does not make a pod one of the manager's.
AnyReplicaSet(p) == \E ref \in Owners[p] : ref.kind = "ReplicaSet"  \* bug: whatever its name
AnyKind(p) == \E ref \in Owners[p] : NamedAfter(ref.name, ChildName(Self))  \* bug: the owner may be a Job
IsManagerPod(p) ==
  \E ref \in Owners[p] : ref.kind = "ReplicaSet" /\ NamedAfter(ref.name, ChildName(Self))

ListPods ==
  /\ pc = "list"
  /\ pc' = "delete"
  /\ listed' = {p \in Present : Labelled(p) /\ IsManagerPod(p)}
  /\ pending' = {p \in listed' : phase[p] = "running"}
  /\ todo' = pending' /\ late' = {}
  /\ UNCHANGED <<deployment, replicaSet, podVars, overdue>>

\* A pod that is not being deleted is, unless someone else did it meanwhile.
DeletePod(p) ==
  /\ pc = "delete" /\ p \in todo
  /\ todo' = todo \ {p}
  /\ IF phase[p] = "running" THEN Stop(p) ELSE UNCHANGED podVars
  /\ UNCHANGED <<deployment, replicaSet, pc, overdue, listed, pending, late>>

\* No pod is left, or all that are left are past their deadline.
WaitsForAll == listed = {}  \* bug: a pod on a lost node is waited for
Drained == listed = {} \/ (pending = {} /\ listed \subseteq overdue)

Judge ==
  /\ pc = "delete" /\ todo = {}
  /\ pc' = IF Drained THEN "drained" ELSE "idle"
  /\ UNCHANGED <<deployment, replicaSet, podVars, passVars, late>>

\* removeManagedRunners: the runners are gone from GitLab.
Deregister ==
  /\ pc = "drained"
  /\ pc' = "done"
  /\ UNCHANGED <<deployment, replicaSet, podVars, passVars, late>>

\* A call fails, or the operator restarts: the next pass starts again.
Abort ==
  /\ pc \notin {"idle", "done"}
  /\ pc' = "idle"
  /\ UNCHANGED <<deployment, replicaSet, podVars, passVars, late>>

-----------------------------------------------------------------------------
(* The cluster.                                                            *)

\* The ReplicaSet replaces a pod that is gone or being stopped.
CreatePod(p) ==
  /\ replicaSet /\ phase[p] = "unused"
  /\ \A q \in ManagerPods : phase[q] # "running"
  /\ phase' = [phase EXCEPT ![p] = "running"]
  /\ late' = late \cup {p}
  /\ UNCHANGED <<deployment, replicaSet, left, lost, pc, passVars>>

CollectReplicaSet ==
  /\ ~deployment /\ replicaSet
  /\ replicaSet' = FALSE
  /\ UNCHANGED <<deployment, podVars, pc, passVars, late>>

\* A pod is stopped: evicted, rolled, or collected after its ReplicaSet.
StopPod(p) ==
  /\ phase[p] = "running"
  /\ Stop(p)
  /\ UNCHANGED <<deployment, replicaSet, pc, passVars, late>>

PodExits(p) ==
  /\ phase[p] = "terminating" /\ p \notin lost
  /\ phase' = [phase EXCEPT ![p] = "gone"]
  /\ UNCHANGED <<deployment, replicaSet, left, lost, pc, passVars, late>>

LoseNode(p) ==
  /\ p \in Present \ lost
  /\ lost' = lost \cup {p}
  /\ UNCHANGED <<deployment, replicaSet, phase, left, pc, passVars, late>>

\* The kubelet kills a pod at its deadline, if late then within the margin.
Tick ==
  /\ \A p \in Pods \ lost : phase[p] = "terminating" => left[p] > 1
  /\ left' = [p \in Pods |-> IF left[p] = 0 THEN 0 ELSE left[p] - 1]
  /\ UNCHANGED <<deployment, replicaSet, phase, lost, pc, passVars, late>>

-----------------------------------------------------------------------------

Pass ==
  \/ BeginDrain \/ DeleteDeployment \/ ListPods \/ (\E p \in Pods : DeletePod(p))
  \/ Judge \/ Deregister

Cluster ==
  \/ \E p \in ManagerPods : CreatePod(p) \/ StopPod(p) \/ LoseNode(p)
  \/ \E p \in Pods : PodExits(p)
  \/ CollectReplicaSet \/ Tick

Next == Pass \/ Abort \/ Cluster

Spec == Init /\ [][Next]_vars

\* Passes are retried, and every call succeeds in the end.  The garbage collector
\* does its work, and time passes.
FairSpec ==
  /\ Spec
  /\ WF_vars(BeginDrain) /\ SF_vars(DeleteDeployment) /\ SF_vars(ListPods)
  /\ SF_vars(\E p \in Pods : DeletePod(p))
  /\ SF_vars(Judge) /\ SF_vars(Deregister)
  /\ WF_vars(CollectReplicaSet) /\ WF_vars(Tick)
  /\ WF_vars(~replicaSet /\ \E p \in ManagerPods : StopPod(p))
  /\ WF_vars(\E p \in Pods : PodExits(p))

-----------------------------------------------------------------------------

\* A runner is deregistered only when its manager can finish no more jobs: every
\* manager pod that existed when the pass listed them is gone or on a lost node,
\* however evictions, rollouts, failed passes and slow kubelets interleave.  (One
\* that the ReplicaSet still creates after the list is missed: late.)
JobsFinish == pc = "drained" => \A p \in ManagerPods \cap Present : p \in lost \cup late

\* The drain stops no pod of another object's manager, though the other object may have
\* the same name and with it the label, or a name that extends this one's and with it
\* the prefix; nor a labelled pod of a Job or StatefulSet, whatever its name.
OthersUntouched == \A p \in OtherPods : phase[p] = "running"

\* The finalizer goes on in the end: no pod, be it on a lost node, created late or
\* of another object, holds it forever.
DrainEnds == <>(pc = "done")
=============================================================================
