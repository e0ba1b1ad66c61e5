---------------------------- MODULE DrainProofs ----------------------------
(***************************************************************************)
(* Draining is safe for every number of pods, grace period and margin.     *)
(*                                                                         *)
(* JobsFinish is not inductive.  A pass decides by what it read earlier:   *)
(* the pods it listed and those that were overdue when it read the clock.  *)
(* IInv says what that still tells about the pods of now: an overdue pod   *)
(* cannot come back, a kubelet that is alive never leaves a pod overdue,   *)
(* and a manager pod that the list lacks was created after it.             *)
(*                                                                         *)
(* That the list holds the right pods is a matter of names: those of the   *)
(* manager bear label and prefix, and no pod of another object has both.   *)
(***************************************************************************)
EXTENDS Drain, TLAPS

OverdueStay == \A p \in overdue : phase[p] = "gone" \/ (phase[p] = "terminating" /\ left[p] = 0)
OverdueAreLost == \A p \in Pods : phase[p] = "terminating" /\ left[p] = 0 => p \in lost
ListIsComplete == pc \in {"delete", "drained"} => ManagerPods \cap Present \subseteq listed \cup late
ListIsOverdue == pc = "drained" => listed \subseteq overdue
ListLacksOthers == \A p \in listed : p \notin OtherPods

IInv ==
  /\ TypeOK
  /\ OverdueStay /\ OverdueAreLost
  /\ ListIsComplete /\ ListIsOverdue /\ ListLacksOthers
  /\ OthersUntouched

\* A deadline with its margin is at least one tick away from the deletion of a pod.
LEMMA BudgetIsPositive == Budget \in Nat \ {0}
BY TicksAssumption DEF Budget

\* The second part of the name of an object's Deployment tells its kind.
LEMMA ChildNameParts ==
  ASSUME NEW o \in Objects
  PROVE  Len(ChildName(o)) \in Nat /\ Len(ChildName(o)) >= 2 /\ ChildName(o)[2] = o.kind
BY ObjectsAssumption DEF ChildName

\* Two objects of one name in a namespace are of different kinds.
LEMMA NameAndKind ==
  ASSUME NEW o \in Objects, o # Self, o.name = Self.name
  PROVE  o.kind # Self.kind
BY ObjectsAssumption

\* The drain takes every pod of the manager for one of the manager's.
LEMMA ManagersAreFound == \A p \in ManagerPods : Labelled(p) /\ IsManagerPod(p)
<1> SUFFICES ASSUME NEW p \in ManagerPods PROVE Labelled(p) /\ IsManagerPod(p)
  OBVIOUS
<1>1. p \in Pods /\ ManagerOf[p] = Self /\ Self \in Objects
  BY ObjectsAssumption DEF ManagerPods
<1>2. /\ Label[p] = Self.name /\ Owners[p] # {}
      /\ \A ref \in Owners[p] : ref.kind = "ReplicaSet" /\ NamedAfter(ref.name, ChildName(Self))
  BY <1>1, ManagersAssumption
<1> QED BY <1>2 DEF Labelled, IsManagerPod

\* It takes none of the others for one: a manager of the same name is of the other kind,
\* which its ReplicaSet's name tells, and one of another name does not bear the label.
LEMMA OthersAreToldApart == \A p \in OtherPods : ~(Labelled(p) /\ IsManagerPod(p))
<1> SUFFICES ASSUME NEW p \in OtherPods, Labelled(p), IsManagerPod(p) PROVE FALSE
  OBVIOUS
<1>1. PICK ref \in Owners[p] : ref.kind = "ReplicaSet" /\ NamedAfter(ref.name, ChildName(Self))
  BY DEF IsManagerPod
<1>2. p \in Pods /\ ManagerOf[p] \in Objects \ {Self}
  BY <1>1 DEF OtherPods
<1> DEFINE other == ManagerOf[p]
<1>3. Label[p] = other.name /\ NamedAfter(ref.name, ChildName(other))
  BY <1>1, <1>2, ManagersAssumption
<1>4. other.kind # Self.kind
  BY <1>2, <1>3, NameAndKind DEF Labelled
<1>5. \A o \in Objects : NamedAfter(ref.name, ChildName(o)) => ref.name[2] = o.kind
  BY ChildNameParts DEF NamedAfter
<1> QED BY <1>1, <1>2, <1>3, <1>4, <1>5, ObjectsAssumption

\* The initial states satisfy the invariant.
LEMMA InitIInv == Init => IInv
<1> SUFFICES ASSUME Init PROVE IInv
  OBVIOUS
<1> USE BudgetIsPositive DEF Init, ManagerPods
<1>1. TypeOK
  BY DEF TypeOK
<1>2. OverdueStay /\ OverdueAreLost
  BY DEF OverdueStay, OverdueAreLost
<1>3. ListIsComplete /\ ListIsOverdue /\ ListLacksOthers
  BY DEF ListIsComplete, ListIsOverdue, ListLacksOthers
<1>4. OthersUntouched
  BY ManagersAreFound, OthersAreToldApart DEF OthersUntouched, OtherPods
<1> QED BY <1>1, <1>2, <1>3, <1>4 DEF IInv

\* Others and managers are pods, and no pod is of both.
LEMMA OthersArePods ==
  OtherPods \subseteq Pods /\ ManagerPods \subseteq Pods /\ \A p \in ManagerPods : p \notin OtherPods
BY ManagersAreFound, OthersAreToldApart DEF OtherPods, ManagerPods

\* Every step preserves the invariant.
LEMMA IInvStep == IInv /\ [Next]_vars => IInv'
<1> SUFFICES ASSUME IInv, [Next]_vars PROVE IInv'
  OBVIOUS
<1> USE BudgetIsPositive, TicksAssumption, OthersArePods
<1> USE DEF IInv, TypeOK, OverdueStay, OverdueAreLost, ListIsComplete, ListIsOverdue, ListLacksOthers,
        OthersUntouched, Present, podVars, passVars
<1>1. CASE BeginDrain
  BY <1>1 DEF BeginDrain, Overdue
<1>2. CASE DeleteDeployment
  BY <1>2 DEF DeleteDeployment
<1>3. CASE ListPods
  BY <1>3, ManagersAreFound, OthersAreToldApart DEF ListPods
<1>4. ASSUME NEW p \in Pods, DeletePod(p) PROVE IInv'
  <2>1. CASE phase[p] = "running"
    BY <1>4, <2>1 DEF DeletePod, Stop
  <2>2. CASE phase[p] # "running"
    BY <1>4, <2>2 DEF DeletePod
  <2> QED BY <2>1, <2>2
<1>5. CASE Judge
  BY <1>5 DEF Judge, Drained
<1>6. CASE Deregister
  BY <1>6 DEF Deregister
<1>7. CASE Abort
  BY <1>7 DEF Abort
<1>8. ASSUME NEW p \in ManagerPods, CreatePod(p) PROVE IInv'
  BY <1>8 DEF CreatePod
<1>9. ASSUME NEW p \in ManagerPods, StopPod(p) PROVE IInv'
  BY <1>9 DEF StopPod, Stop
<1>10. ASSUME NEW p \in Pods, PodExits(p) PROVE IInv'
  BY <1>10 DEF PodExits
<1>11. ASSUME NEW p \in ManagerPods, LoseNode(p) PROVE IInv'
  BY <1>11 DEF LoseNode
<1>12. CASE CollectReplicaSet
  BY <1>12 DEF CollectReplicaSet
<1>13. CASE Tick
  BY <1>13 DEF Tick
<1>14. CASE UNCHANGED vars
  BY <1>14 DEF vars
<1> QED BY <1>1, <1>2, <1>3, <1>4, <1>5, <1>6, <1>7, <1>8, <1>9, <1>10, <1>11, <1>12, <1>13, <1>14
        DEF Next, Pass, Cluster

\* The invariant that the theorems below follow from.
THEOREM DrainInvariant == Spec => []IInv
BY InitIInv, IInvStep, PTL DEF Spec

\* The variables of the drain keep their types: the counts of pods and the clock stay
\* within their bounds.
THEOREM TypeCorrect == Spec => []TypeOK
<1>1. IInv => TypeOK
  BY DEF IInv
<1> QED BY <1>1, DrainInvariant, PTL

\* A runner is deregistered only when its manager can finish no more jobs: whatever
\* the number of pods, the grace period and the margin, drainManager reports a drained
\* manager only when every pod it could list is gone or on a lost node.
THEOREM DrainedIsSafe == Spec => []JobsFinish
<1>1. IInv => JobsFinish
  BY DEF IInv, OverdueStay, OverdueAreLost, ListIsComplete, ListIsOverdue, JobsFinish, Present, ManagerPods
<1> QED BY <1>1, DrainInvariant, PTL

\* The drain stops no pod of another object's manager, however the Runners and
\* MultiRunners of the namespace are named, and no pod of a Job or StatefulSet: the label
\* of the list tells objects of different names apart and the prefix that isManagerPod
\* tests those of one name; neither would do alone.
THEOREM OthersAreSafe == Spec => []OthersUntouched
<1>1. IInv => OthersUntouched
  BY DEF IInv
<1> QED BY <1>1, DrainInvariant, PTL
=============================================================================
