----------------------------- MODULE RbacProofs -----------------------------
(***************************************************************************)
(* Rbac keeps its types and grants no more and no less than it should, for *)
(* any number of objects, kinds and namespaces.                            *)
(***************************************************************************)
EXTENDS Rbac, TLAPS

USE DEF clusterVars, cacheVars

Provisioning == {"pdbRole", "writePdb", "baseExists", "account", "bind", "rebind", "baseRole",
                 "writeBase"}
Pruning == {"list", "prune", "release"}

Pass == [pc : Provisioning \cup Pruning \cup {"finalizer"}, at : Objects, hand : Object,
         todo : SUBSET Keys, key : Keys \cup {None}, seen : Rules]

-----------------------------------------------------------------------------
(* Types.                                                                  *)

\* A pass works on an object of its controller's kind.
PassInv ==
  /\ worker \in [Kinds -> Pass \cup {Idle}]
  /\ \A k \in Kinds : worker[k] # Idle =>
       /\ Kind[worker[k].at] = k
       /\ worker[k].pc = "rebind" => worker[k].key \in Keys

TypeInv == TypeOK /\ PassInv

\* What the worker that takes a step has in its hands.
LEMMA Working ==
  ASSUME PassInv, NEW k \in Kinds, worker[k].pc # "idle"
  PROVE  worker[k] \in Pass /\ Kind[worker[k].at] = k
         /\ (worker[k].pc = "rebind" => worker[k].key \in Keys)
  BY DEF PassInv, Idle

\* An idle worker has no pass in hand.
LEMMA IdleIsNoPass == Idle \notin Pass
  BY DEF Idle, Pass, Provisioning, Pruning

\* The bindings an object asks for are bindings the model has.
LEMMA Desired ==
  ASSUME NEW o \in Objects, NEW s \in Requests
  PROVE  /\ DesiredBindings(o, s, s.targets) \subseteq Keys
         /\ \A namespaces \in SUBSET s.targets : DesiredBindings(o, s, namespaces) \subseteq Keys
  BY RequestsAssumption DEF DesiredBindings, Keys, Grants

\* The initial states have the types.
LEMMA TypeInit == Init => TypeInv
<1> SUFFICES ASSUME Init PROVE TypeInv
  OBVIOUS
<1>1. PICK bound \in SUBSET Objects, old \in {"legacy", "base"} :
       /\ object \in {f \in [Objects -> [phase : {"new", "held"}, spec : Requests]] :
                        \A o \in Objects : f[o].phase = "held" <=> o \in bound}
       /\ bindings = [b \in Keys |->
            IF \E o \in bound : b = <<Home[o], Name[o], "base">>
              THEN [by |-> CHOOSE o \in bound : Home[o] = b[1] /\ Name[o] = b[2], role |-> old]
              ELSE None]
       /\ accounts = bound
  BY DEF Init
<1>2. object \in [Objects -> Object]
  BY <1>1 DEF Object
<1>3. bindings \in BindingMap
  <2> SUFFICES ASSUME NEW b \in Keys
               PROVE  bindings[b] \in Binding \cup {None}
    BY <1>1 DEF BindingMap
  <2>1. CASE \E o \in bound : b = <<Home[o], Name[o], "base">>
    <3>1. \E o \in bound : Home[o] = b[1] /\ Name[o] = b[2]
      BY <2>1
    <3>2. (CHOOSE o \in bound : Home[o] = b[1] /\ Name[o] = b[2]) \in Objects
      BY <3>1
    <3> QED
      BY <1>1, <2>1, <3>2 DEF Binding, Grants
  <2> QED
    BY <1>1, <2>1
<1>4. PassInv
  BY DEF Init, PassInv
<1> QED
  BY <1>1, <1>2, <1>3, <1>4 DEF Init, TypeInv, TypeOK, Rules

\* The types of what passes write.
LEMMA CreatedType ==
  ASSUME TypeOK, NEW o \in Objects, NEW b \in Keys
  PROVE  Created(o, b) \in BindingMap
  BY DEF TypeOK, Created, BindingMap, Binding, Keys

\* The informers have something to deliver for objects only.
LEMMA NoticesType ==
  ASSUME TypeOK, accounts' \in SUBSET Objects, Notices
  PROVE  unseen' \in [{"bindings", "accounts"} -> SUBSET Objects]
  BY DEF TypeOK, Notices, OwnsAt

\* A pass of a worker that does its next step, or ends.
LEMMA StepType ==
  ASSUME PassInv, NEW k \in Kinds, NEW w, worker' = [worker EXCEPT ![k] = w],
         w = Idle \/ (w \in Pass /\ Kind[w.at] = k /\ (w.pc = "rebind" => w.key \in Keys))
  PROVE  PassInv'
  BY DEF PassInv

\* A pass that goes on to another call.
LEMMA GoType ==
  ASSUME PassInv, NEW k \in Kinds, worker[k].pc # "idle", NEW pc,
         pc \in (Provisioning \cup Pruning) \ {"rebind"}, Go(k, pc)
  PROVE  PassInv'
<1>1. worker[k] \in Pass /\ Kind[worker[k].at] = k
  BY Working
<1>2. [worker[k] EXCEPT !.pc = pc] \in Pass
  BY <1>1 DEF Pass
<1>3. worker' = [worker EXCEPT ![k] = [worker[k] EXCEPT !.pc = pc]]
  BY DEF Go
<1>4. [worker[k] EXCEPT !.pc = pc].pc = pc /\ [worker[k] EXCEPT !.pc = pc].at = worker[k].at
  BY <1>1 DEF Pass
<1> QED
  BY <1>1, <1>2, <1>3, <1>4, StepType

\* A pass that goes on with other bindings to do.
LEMMA GoWithType ==
  ASSUME PassInv, NEW k \in Kinds, worker[k].pc # "idle", NEW pc,
         pc \in (Provisioning \cup Pruning) \ {"rebind"}, NEW todo \in SUBSET Keys, GoWith(k, pc, todo)
  PROVE  PassInv'
<1> DEFINE w == [worker[k] EXCEPT !.pc = pc, !.todo = todo]
<1>1. worker[k] \in Pass /\ Kind[worker[k].at] = k
  BY Working
<1>2. w \in Pass
  BY <1>1 DEF Pass
<1>3. worker' = [worker EXCEPT ![k] = w]
  BY DEF GoWith
<1>4. w.pc = pc /\ w.at = worker[k].at
  BY <1>1 DEF Pass
<1> QED
  BY <1>1, <1>2, <1>3, <1>4, StepType

\* Every step keeps the types.
LEMMA TypeStep ==
  ASSUME TypeInv, [Next]_vars
  PROVE  TypeInv'
<1> USE DEF TypeInv
<1> DEFINE OK(k, w) == w = Idle \/ (w \in Pass /\ Kind[w.at] = k /\ (w.pc = "rebind" => w.key \in Keys))
<1> USE DEF PassUnchanged
<1>0. ASSUME PassInv', object' \in [Objects -> Object], objectCache' \in [Objects -> Object],
             roles' \in [Grants -> Rules], bindings' \in BindingMap, bindingCache' \in BindingMap,
             accounts' \in SUBSET Objects, accountCache' \in SUBSET Objects,
             unseen' \in [{"bindings", "accounts"} -> SUBSET Objects],
             queued' \in SUBSET Objects, allowed' \in AllowLists
      PROVE  TypeInv'
  <2>1. \A k \in Kinds : worker'[k] = Idle \/ (worker'[k] \in Pass /\ Kind[worker'[k].at] = k)
    BY <1>0 DEF PassInv
  <2> QED
    BY <1>0, <2>1 DEF TypeOK, Pass, Provisioning, Pruning
<1>1. ASSUME NEW k \in Kinds, NEW o \in Objects, Begin(k, o)
      PROVE  TypeInv'
  <2> DEFINE copy == objectCache[o]
             pass(pc) == [pc |-> pc, at |-> o, hand |-> copy, todo |-> {}, key |-> None,
                          seen |-> "absent"]
  <2>1. \A pc \in Provisioning \cup Pruning \cup {"finalizer"} : pass(pc) \in Pass /\ pass(pc).at = o
    BY <1>1 DEF TypeOK, Pass, Rules
  <2> DEFINE w == CASE copy.phase = "gone" -> Idle
                    [] copy.phase = "new" -> pass("finalizer")
                    [] copy.phase = "deleting" -> pass("list")
                    [] copy.phase = "held" -> pass(IF Refused(o, copy.spec) THEN "list" ELSE "pdbRole")
  <2>2. worker' = [worker EXCEPT ![k] = w]
    BY <1>1 DEF Begin
  <2>3. w = Idle \/ \E pc \in {"finalizer", "list", "pdbRole"} : w = pass(pc)
    <3>1. copy.phase \in {"new", "held", "deleting", "gone"}
      BY <1>1 DEF TypeOK, Object
    <3> QED
      BY <3>1
  <2>5. OK(k, w)
    <3> HIDE DEF w
    <3> QED
      BY <1>1, <2>1, <2>3 DEF Begin, Provisioning, Pruning
  <2>4. PassInv'
    BY <2>2, <2>5, StepType
  <2> QED
    BY <1>0, <1>1, <2>4, NoticesType DEF Begin, TypeOK
<1>2. ASSUME NEW k \in Kinds, Fail(k)
      PROVE  TypeInv'
  <2>1. worker[k].at \in Objects /\ PassInv'
    BY <1>2, Working, StepType DEF Fail, At, Pass
  <2> QED
    BY <1>0, <1>2, <2>1, NoticesType DEF Fail, TypeOK
<1>3. ASSUME NEW k \in Kinds, AddFinalizer(k)
      PROVE  TypeInv'
  <2>1. worker[k].at \in Objects /\ PassInv'
    BY <1>3, Working, StepType DEF AddFinalizer, At, Pass
  <2>2. object' \in [Objects -> Object]
    BY <1>3, <2>1 DEF AddFinalizer, TypeOK, Object
  <2> QED
    BY <1>0, <1>3, <2>1, <2>2, NoticesType DEF AddFinalizer, TypeOK
<1>4. ASSUME NEW k \in Kinds, NEW pc, NEW role \in Grants, NEW write, NEW next,
             ReadRole(k, pc, role, write, next), pc # "idle",
             write \in {"never", "writePdb", "writeBase"}, next \in {"baseExists", "account", "list"}
      PROVE  TypeInv'
  <2> DEFINE w == [worker[k] EXCEPT !.pc = write, !.seen = roles[role]]
  <2>1. worker[k].pc # "idle" /\ worker[k] \in Pass /\ Kind[worker[k].at] = k
    BY <1>4, Working DEF ReadRole, At
  <2>2. ASSUME worker' = [worker EXCEPT ![k].pc = write, ![k].seen = roles[role]], write # "never"
        PROVE  PassInv'
    <3>1. roles[role] \in Rules
      BY DEF TypeOK
    <3>2. w \in Pass /\ w.at = worker[k].at /\ w.pc # "rebind"
      BY <1>4, <2>1, <2>2, <3>1 DEF Pass, Provisioning
    <3>3. worker' = [worker EXCEPT ![k] = w]
      BY <2>2
    <3> QED
      BY <2>1, <3>2, <3>3, StepType
  <2>3. ASSUME Go(k, next)
        PROVE  PassInv'
    BY <1>4, <2>1, <2>3, GoType DEF Provisioning, Pruning
  <2>4. PassInv'
    BY <1>4, <2>2, <2>3 DEF ReadRole
  <2> QED
    BY <1>0, <1>4, <2>4, NoticesType DEF ReadRole, TypeOK, Rules
<1>5. ASSUME NEW k \in Kinds, NEW pc, NEW role \in Grants, NEW next, WriteRole(k, pc, role, next),
             pc # "idle", next \in {"baseExists", "list"}
      PROVE  TypeInv'
  <2>1. PassInv'
    BY <1>5, GoType DEF WriteRole, At, Provisioning, Pruning
  <2> QED
    BY <1>0, <1>5, <2>1, NoticesType DEF WriteRole, TypeOK, Rules
<1>6. ASSUME NEW k \in Kinds, CreateSaIfMissing(k)
      PROVE  TypeInv'
  <2>1. worker[k] \in Pass /\ Kind[worker[k].at] = k
    BY <1>6, Working DEF CreateSaIfMissing, At
  <2>2. DesiredBindings(worker[k].at, worker[k].hand.spec, worker[k].hand.spec.targets) \subseteq Keys
    BY <2>1, Desired DEF Pass, Object
  <2>3. PassInv'
    BY <1>6, <2>1, <2>2, StepType, GoWithType DEF CreateSaIfMissing, At, Provisioning
  <2>4. accounts' \in SUBSET Objects /\ queued' \in SUBSET Objects
    BY <1>6, <2>1 DEF CreateSaIfMissing, TypeOK, Pass
  <2> QED
    BY <1>0, <1>6, <2>3, <2>4, NoticesType DEF CreateSaIfMissing, TypeOK
<1>7. ASSUME NEW k \in Kinds, NEW b \in Keys, ReconcileRoleBinding(k, b)
      PROVE  TypeInv'
  <2>1. worker[k] \in Pass /\ Kind[worker[k].at] = k
    BY <1>7, Working DEF ReconcileRoleBinding, At
  <2>2. bindings' \in BindingMap
    <3>1. Created(worker[k].at, b) \in BindingMap /\ [bindings EXCEPT ![b] = None] \in BindingMap
      BY <2>1, CreatedType DEF TypeOK, BindingMap, Pass
    <3> QED
      BY <1>7, <3>1 DEF ReconcileRoleBinding, TypeOK
  <2>3. PassInv'
    <3> DEFINE w == [worker[k] EXCEPT !.pc = "rebind", !.key = b]
    <3>1. CASE worker' = [worker EXCEPT ![k].pc = "rebind", ![k].key = b]
      <4>1. w \in Pass /\ w.at = worker[k].at /\ w.key = b
        BY <2>1 DEF Pass, Provisioning
      <4>2. worker' = [worker EXCEPT ![k] = w]
        BY <3>1
      <4> QED
        BY <2>1, <4>1, <4>2, StepType
    <3>2. CASE GoWith(k, "bind", worker[k].todo \ {b})
      <4>1. worker[k].todo \ {b} \in SUBSET Keys
        BY <2>1 DEF Pass
      <4> QED
        BY <1>7, <3>2, <4>1, GoWithType DEF ReconcileRoleBinding, At, Provisioning
    <3> QED
      BY <1>7, <3>1, <3>2 DEF ReconcileRoleBinding
  <2> QED
    BY <1>0, <1>7, <2>2, <2>3, NoticesType DEF ReconcileRoleBinding, TypeOK
<1>8. ASSUME NEW k \in Kinds, Rebind(k)
      PROVE  TypeInv'
  <2>1. worker[k] \in Pass /\ Kind[worker[k].at] = k /\ worker[k].key \in Keys
    BY <1>8, Working DEF Rebind, At
  <2>2. bindings' \in BindingMap
    BY <1>8, <2>1, CreatedType DEF Rebind, Pass
  <2>3. PassInv'
    <3> DEFINE w == [worker[k] EXCEPT !.pc = "bind", !.todo = @ \ {worker[k].key}, !.key = None]
    <3>1. w \in Pass /\ w.at = worker[k].at /\ w.pc = "bind"
      BY <2>1 DEF Pass, Provisioning
    <3>2. worker' = [worker EXCEPT ![k] = w]
      BY <1>8 DEF Rebind
    <3> QED
      BY <2>1, <3>1, <3>2, StepType
  <2> QED
    BY <1>0, <1>8, <2>2, <2>3, NoticesType DEF Rebind, TypeOK
<1>9. ASSUME NEW k \in Kinds, BindingsDone(k)
      PROVE  TypeInv'
  <2>1. PassInv'
    BY <1>9, GoType DEF BindingsDone, At, Provisioning
  <2> QED
    BY <1>0, <1>9, <2>1, NoticesType DEF BindingsDone, TypeOK
<1>10. ASSUME NEW k \in Kinds, ListBindings(k)
       PROVE  TypeInv'
  <2>1. PassInv'
    BY <1>10, GoWithType DEF ListBindings, At, Pruning, Labelled
  <2> QED
    BY <1>0, <1>10, <2>1, NoticesType DEF ListBindings, TypeOK
<1>11. ASSUME NEW k \in Kinds, NEW b \in Keys, Prune(k, b)
       PROVE  TypeInv'
  <2>1. bindings' \in BindingMap
    BY <1>11 DEF Prune, TypeOK, BindingMap
  <2>2. PassInv'
    <3>1. worker[k].pc # "idle" /\ worker[k].todo \ {b} \in SUBSET Keys
      BY <1>11, Working DEF Prune, At, Pass
    <3> QED
      BY <1>11, <3>1, GoWithType DEF Prune, Pruning
  <2> QED
    BY <1>0, <1>11, <2>1, <2>2, NoticesType DEF Prune, TypeOK
<1>12. ASSUME NEW k \in Kinds, PruneDone(k)
       PROVE  TypeInv'
  <2>1. PassInv'
    BY <1>12, GoType, StepType DEF PruneDone, At, Pruning
  <2> QED
    BY <1>0, <1>12, <2>1, NoticesType DEF PruneDone, TypeOK
<1>13. ASSUME NEW k \in Kinds, Release(k)
       PROVE  TypeInv'
  <2>1. worker[k].at \in Objects /\ PassInv'
    BY <1>13, Working, StepType DEF Release, At, Pass
  <2>2. object' \in [Objects -> Object]
    BY <1>13, <2>1 DEF Release, TypeOK, Object
  <2> QED
    BY <1>0, <1>13, <2>1, <2>2, NoticesType DEF Release, TypeOK
<1>14. ASSUME NEW o \in Objects, SyncObject(o)
       PROVE  TypeInv'
  BY <1>0, <1>14 DEF SyncObject, TypeOK, PassInv
<1>15. CASE SyncBindings
  BY <1>0, <1>15 DEF SyncBindings, TypeOK, PassInv
<1>16. CASE SyncAccounts
  BY <1>0, <1>16 DEF SyncAccounts, TypeOK, PassInv
<1>17. ASSUME NEW o \in Objects, DeleteObject(o)
       PROVE  TypeInv'
  BY <1>0, <1>17 DEF DeleteObject, TypeOK, PassInv, Object
<1>18. ASSUME NEW o \in Objects, CollectGarbage(o)
       PROVE  TypeInv'
  BY <1>0, <1>18, NoticesType DEF CollectGarbage, TypeOK, PassInv, BindingMap
<1>19. ASSUME NEW o \in Objects, Edit(o)
       PROVE  TypeInv'
  BY <1>0, <1>19 DEF Edit, TypeOK, PassInv, Object
<1>20. ASSUME NEW o \in Objects, DeleteOwned(o)
       PROVE  TypeInv'
  BY <1>0, <1>20, NoticesType DEF DeleteOwned, TypeOK, PassInv, BindingMap, Labelled
<1>21. CASE Restart
  BY <1>0, <1>21 DEF Restart, TypeOK, PassInv
<1>22. CASE UNCHANGED vars
  BY <1>0, <1>22 DEF vars, TypeOK, PassInv
<1> QED
  <2>1. ASSUME NEW k \in Kinds, Provision(k)
        PROVE  TypeInv'
    BY <2>1, <1>4, <1>5, <1>6, <1>7, <1>8, <1>9
    DEF Provision, EnsureOptionalClusterRoles, EnsureClusterRoleExists, EnsureBaseClusterRole, Grants
  <2>2. ASSUME NEW k \in Kinds, DeleteRBACExcept(k)
        PROVE  TypeInv'
    BY <2>2, <1>10, <1>11, <1>12 DEF DeleteRBACExcept
  <2> QED
    BY <1>1, <1>2, <1>3, <1>13, <1>14, <1>15, <1>16, <1>17, <1>18, <1>19, <1>20, <1>21, <1>22,
       <2>1, <2>2
    DEF Next, Work, Step, Caches

\* Every reachable state has the types of TypeOK.
THEOREM TypeCorrect == Spec => []TypeOK
<1>1. TypeInv /\ [Next]_vars => TypeInv'
  BY TypeStep
<1>2. TypeInv => TypeOK
  BY DEF TypeInv
<1> QED
  BY TypeInit, <1>1, <1>2, PTL DEF Spec

-----------------------------------------------------------------------------
(* What an action does to the passes.                                      *)

\* The worker of an object's kind, and whether its pass is over the object.
Hand(o) == worker[Kind[o]]
InHand(o) == Hand(o).at = o

\* The pass of k is over p, and no pass over another object is touched.
Only(k, p) ==
  /\ p \in Objects /\ Kind[p] = k /\ Hand(p) = worker[k] /\ worker[k] \in Pass /\ worker[k].at = p
  /\ \A o \in Objects \ {p} : (InHand(o)' <=> InHand(o)) /\ (InHand(o) => Hand(o)' = Hand(o))

\* The pass over p goes on to pc, or ends.
Onward(p, pc) == /\ Hand(p)' \in Pass /\ Hand(p)'.at = p
                 /\ Hand(p)'.hand = Hand(p).hand /\ Hand(p)'.pc = pc
Over(p) == Hand(p)' = Idle /\ ~InHand(p)'

\* A worker that steps changes its own pass and no other.
LEMMA StepOnly ==
  ASSUME TypeInv, NEW k \in Kinds, worker[k].pc # "idle", NEW p, p = worker[k].at, NEW w,
         worker' = [worker EXCEPT ![k] = w],
         w = Idle \/ (w \in Pass /\ w.at = p)
  PROVE  /\ Only(k, p) /\ Hand(p)' = w
         /\ w = Idle => Over(p)
<1>1. worker[k] \in Pass /\ Kind[p] = k /\ p \in Objects
  BY Working DEF TypeInv, Pass
<1>2. w = Idle => w.at = None
  BY DEF Idle
<1>3. Hand(p)' = w /\ Hand(p) = worker[k]
  BY <1>1 DEF TypeInv, PassInv, Hand
<1>4. ASSUME NEW o \in Objects \ {p}
      PROVE  (InHand(o)' <=> InHand(o)) /\ (InHand(o) => Hand(o)' = Hand(o))
  <2>1. CASE Kind[o] = k
    BY <1>1, <1>2, <1>3, <1>4, <2>1, NoneAssumption DEF Hand, InHand
  <2>2. CASE Kind[o] # k
    BY <1>4, <2>2 DEF Hand, InHand, TypeInv, PassInv, Kinds
  <2> QED
    BY <2>1, <2>2
<1> QED
  BY <1>1, <1>2, <1>3, <1>4, NoneAssumption DEF Only, Over, InHand

\* A pass that goes on keeps what it had to do.
LEMMA GoDoes ==
  ASSUME TypeInv, NEW k \in Kinds, worker[k].pc # "idle", NEW p, p = worker[k].at,
         NEW pc \in Provisioning \cup Pruning, Go(k, pc)
  PROVE  /\ Only(k, p) /\ Onward(p, pc)
         /\ Hand(p)'.todo = worker[k].todo
         /\ Hand(p)'.key = worker[k].key
         /\ Hand(p)'.seen = worker[k].seen
<1> DEFINE w == [worker[k] EXCEPT !.pc = pc]
<1>1. worker[k] \in Pass
  BY Working DEF TypeInv
<1>2. /\ w \in Pass /\ w.pc = pc /\ w.at = p /\ w.hand = worker[k].hand
      /\ w.todo = worker[k].todo /\ w.key = worker[k].key /\ w.seen = worker[k].seen
  BY <1>1 DEF Pass
<1>3. worker' = [worker EXCEPT ![k] = w]
  BY DEF Go
<1>4. Only(k, p) /\ Hand(p)' = w
  BY <1>2, <1>3, StepOnly
<1> QED
  BY <1>2, <1>4 DEF Onward, Only

\* A pass that goes on with new things to do.
LEMMA GoWithDoes ==
  ASSUME TypeInv, NEW k \in Kinds, worker[k].pc # "idle", NEW p, p = worker[k].at,
         NEW pc \in Provisioning \cup Pruning, NEW todo \in SUBSET Keys, GoWith(k, pc, todo)
  PROVE  /\ Only(k, p) /\ Onward(p, pc)
         /\ Hand(p)'.todo = todo
         /\ Hand(p)'.key = worker[k].key
<1> DEFINE w == [worker[k] EXCEPT !.pc = pc, !.todo = todo]
<1>1. worker[k] \in Pass
  BY Working DEF TypeInv
<1>2. /\ w \in Pass /\ w.pc = pc /\ w.at = p /\ w.hand = worker[k].hand
      /\ w.todo = todo /\ w.key = worker[k].key
  BY <1>1 DEF Pass
<1>3. worker' = [worker EXCEPT ![k] = w]
  BY DEF GoWith
<1>4. Only(k, p) /\ Hand(p)' = w
  BY <1>2, <1>3, StepOnly
<1> QED
  BY <1>2, <1>4 DEF Onward, Only

\* A pass begins with the cache's copy, or finds nothing to do.
LEMMA BeginDoes ==
  ASSUME TypeInv, NEW k \in Kinds, NEW o \in Objects, Begin(k, o)
  PROVE  /\ Kind[o] = k /\ ~InHand(o) /\ queued' = queued \ {o}
         /\ \A p \in Objects \ {o} : (InHand(p)' <=> InHand(p)) /\ (InHand(p) => Hand(p)' = Hand(p))
         /\ objectCache[o].phase = "gone" => Over(o)
         /\ objectCache[o].phase # "gone" =>
              /\ InHand(o)' /\ Hand(o)' \in Pass /\ Hand(o)'.hand = objectCache[o]
              /\ objectCache[o].phase = "new" => Hand(o)'.pc = "finalizer"
              /\ objectCache[o].phase = "deleting" => Hand(o)'.pc = "list"
              /\ objectCache[o].phase = "held" =>
                   Hand(o)'.pc = IF Refused(o, objectCache[o].spec) THEN "list" ELSE "pdbRole"
              /\ Hand(o)'.todo = {} /\ Hand(o)'.key = None
<1> DEFINE copy == objectCache[o]
           pass(pc) == [pc |-> pc, at |-> o, hand |-> copy, todo |-> {}, key |-> None,
                        seen |-> "absent"]
           pc0 == IF copy.phase = "new" THEN "finalizer"
                  ELSE IF copy.phase = "held" /\ ~Refused(o, copy.spec) THEN "pdbRole" ELSE "list"
           w == IF copy.phase = "gone" THEN Idle ELSE pass(pc0)
<1>1. worker' = [worker EXCEPT ![k] = w]
  <2>1. copy.phase \in {"new", "held", "deleting", "gone"}
    BY DEF TypeInv, TypeOK, Object
  <2> QED
    BY <2>1 DEF Begin
<1>2. worker[k] = Idle /\ Kind[o] = k /\ queued' = queued \ {o}
  BY DEF Begin, At, TypeInv, PassInv, Pass, Provisioning, Pruning
<1>3. pc0 \in {"finalizer", "list", "pdbRole"}
  OBVIOUS
<1>4. pass(pc0) \in Pass
  BY <1>3 DEF TypeInv, TypeOK, Pass, Rules, Provisioning, Pruning
<1>5. Hand(o)' = w /\ ~InHand(o) /\ Idle.at = None /\ None \notin Objects
  BY <1>1, <1>2, NoneAssumption DEF TypeInv, PassInv, Hand, InHand, Idle
<1>6. ASSUME NEW p \in Objects \ {o}
      PROVE  (InHand(p)' <=> InHand(p)) /\ (InHand(p) => Hand(p)' = Hand(p))
  <2>1. CASE Kind[p] = k
    <3>1. ~InHand(p) /\ Hand(p)' = w
      BY <1>1, <1>2, <1>5, <2>1 DEF Hand, InHand, TypeInv, PassInv
    <3>2. w.at \in {o, None}
      BY <1>5
    <3> QED
      BY <1>5, <3>1, <3>2 DEF InHand
  <2>2. CASE Kind[p] # k
    BY <1>1, <2>2 DEF Hand, InHand, TypeInv, PassInv, Kinds
  <2> QED
    BY <2>1, <2>2
<1>7. CASE copy.phase = "gone"
  BY <1>2, <1>5, <1>6, <1>7 DEF Over, InHand
<1>8. CASE copy.phase # "gone"
  <2>1. Hand(o)' = pass(pc0)
    BY <1>5, <1>8
  <2> QED
    BY <1>2, <1>4, <1>5, <1>6, <1>8, <2>1 DEF InHand
<1> QED
  BY <1>7, <1>8

\* A cluster role is read: the pass goes on to write it or to what follows.
LEMMA ReadRoleDoes ==
  ASSUME TypeInv, NEW k \in Kinds, NEW pc, NEW role \in Grants, NEW write, NEW next,
         ReadRole(k, pc, role, write, next), pc # "idle",
         write \in {"never", "writePdb", "writeBase"}, next \in {"baseExists", "account", "list"},
         NEW p, p = worker[k].at
  PROVE  /\ Only(k, p) /\ Hand(p).pc = pc
         /\ Hand(p)'.todo = Hand(p).todo /\ Hand(p)'.key = Hand(p).key
         /\ IF roles[role] = "wide" /\ write # "never"
              THEN Onward(p, write) /\ Hand(p)'.seen = "wide"
              ELSE Onward(p, next)
<1>1. worker[k].pc = pc /\ worker[k] \in Pass
  BY Working DEF ReadRole, At, TypeInv
<1>2. CASE roles[role] = "wide" /\ write # "never"
  <2> DEFINE w == [worker[k] EXCEPT !.pc = write, !.seen = roles[role]]
  <2>1. /\ w \in Pass /\ w.pc = write /\ w.at = p /\ w.hand = worker[k].hand /\ w.seen = "wide"
        /\ w.todo = worker[k].todo /\ w.key = worker[k].key
    BY <1>1, <1>2 DEF Pass, Provisioning, Rules
  <2>2. worker' = [worker EXCEPT ![k] = w]
    BY <1>2 DEF ReadRole
  <2>3. Only(k, p) /\ Hand(p)' = w
    BY <1>1, <2>1, <2>2, StepOnly
  <2> QED
    BY <1>1, <1>2, <2>1, <2>3 DEF Onward, Only
<1>3. CASE ~(roles[role] = "wide" /\ write # "never")
  <2>1. Go(k, next) /\ next \in Provisioning \cup Pruning
    BY <1>3 DEF ReadRole, Provisioning, Pruning
  <2> QED
    BY <1>1, <1>3, <2>1, GoDoes DEF Only
<1> QED
  BY <1>2, <1>3

\* A cluster role is written: the pass goes on.
LEMMA WriteRoleDoes ==
  ASSUME TypeInv, NEW k \in Kinds, NEW pc, NEW role \in Grants, NEW next, WriteRole(k, pc, role, next),
         pc # "idle", next \in {"baseExists", "list"}, NEW p, p = worker[k].at
  PROVE  /\ Only(k, p) /\ Hand(p).pc = pc /\ Onward(p, next)
         /\ Hand(p)'.todo = Hand(p).todo /\ Hand(p)'.key = Hand(p).key
<1>1. worker[k].pc = pc /\ Go(k, next) /\ next \in Provisioning \cup Pruning
  BY DEF WriteRole, At, Provisioning, Pruning
<1> QED
  BY <1>1, GoDoes DEF Only

\* The service account is seen to: the pass goes on to the bindings asked for, or ends.
LEMMA CreateSaDoes ==
  ASSUME TypeInv, NEW k \in Kinds, CreateSaIfMissing(k), NEW p, p = worker[k].at
  PROVE  /\ Only(k, p) /\ Hand(p).pc = "account"
         /\ \/ Over(p) /\ queued' = queued \cup {p} /\ accounts' = accounts
            \/ /\ Onward(p, "bind") /\ Hand(p)'.key = Hand(p).key
               /\ Hand(p)'.todo = DesiredBindings(p, Hand(p).hand.spec, Hand(p).hand.spec.targets)
               /\ queued' = queued /\ accounts' = accounts \cup ({p} \ accountCache)
<1>1. worker[k].pc = "account" /\ worker[k] \in Pass
  BY Working DEF CreateSaIfMissing, At, TypeInv
<1>2. CASE p \in accountCache \/ p \notin accounts
  <2> DEFINE todo == DesiredBindings(p, worker[k].hand.spec, worker[k].hand.spec.targets)
  <2>1. GoWith(k, "bind", todo) /\ queued' = queued /\ accounts' = accounts \cup ({p} \ accountCache)
    BY <1>2 DEF CreateSaIfMissing
  <2>2. todo \in SUBSET Keys
    BY <1>1, Desired DEF Pass, Object
  <2>3. Only(k, p) /\ Onward(p, "bind") /\ Hand(p)'.todo = todo /\ Hand(p)'.key = worker[k].key
    BY <1>1, <2>1, <2>2, GoWithDoes DEF Provisioning
  <2> QED
    BY <1>1, <2>1, <2>3 DEF Only
<1>3. CASE ~(p \in accountCache \/ p \notin accounts)
  BY <1>1, <1>3, StepOnly DEF CreateSaIfMissing, Only
<1> QED
  BY <1>2, <1>3

\* A binding is seen to, or removed because its role differs.
LEMMA ReconcileDoes ==
  ASSUME TypeInv, NEW k \in Kinds, NEW b \in Keys, ReconcileRoleBinding(k, b), NEW p, p = worker[k].at
  PROVE  /\ Only(k, p) /\ Hand(p).pc = "bind" /\ b \in Hand(p).todo
         /\ IF RoleRefDiffers(b, bindingCache[b])
              THEN Onward(p, "rebind") /\ Hand(p)'.todo = Hand(p).todo /\ Hand(p)'.key = b
              ELSE Onward(p, "bind") /\ Hand(p)'.todo = Hand(p).todo \ {b} /\ Hand(p)'.key = Hand(p).key
<1>1. worker[k].pc = "bind" /\ worker[k] \in Pass /\ b \in worker[k].todo
  BY Working DEF ReconcileRoleBinding, At, TypeInv
<1>2. CASE RoleRefDiffers(b, bindingCache[b])
  <2> DEFINE w == [worker[k] EXCEPT !.pc = "rebind", !.key = b]
  <2>1. /\ w \in Pass /\ w.pc = "rebind" /\ w.at = p /\ w.hand = worker[k].hand
        /\ w.todo = worker[k].todo /\ w.key = b
    BY <1>1 DEF Pass, Provisioning
  <2>2. worker' = [worker EXCEPT ![k] = w]
    BY <1>2 DEF ReconcileRoleBinding
  <2>3. Only(k, p) /\ Hand(p)' = w
    BY <1>1, <2>1, <2>2, StepOnly
  <2> QED
    BY <1>1, <1>2, <2>1, <2>3 DEF Onward, Only
<1>3. CASE ~RoleRefDiffers(b, bindingCache[b])
  <2>1. GoWith(k, "bind", worker[k].todo \ {b}) /\ worker[k].todo \ {b} \in SUBSET Keys
    BY <1>1, <1>3 DEF ReconcileRoleBinding, Pass
  <2>2. /\ Only(k, p) /\ Onward(p, "bind") /\ Hand(p)'.todo = worker[k].todo \ {b}
        /\ Hand(p)'.key = worker[k].key
    BY <1>1, <2>1, GoWithDoes DEF Provisioning
  <2> QED
    BY <1>1, <1>3, <2>2 DEF Only
<1> QED
  BY <1>2, <1>3

\* The binding that was removed is created again.
LEMMA RebindDoes ==
  ASSUME TypeInv, NEW k \in Kinds, Rebind(k), NEW p, p = worker[k].at
  PROVE  /\ Only(k, p) /\ Hand(p).pc = "rebind" /\ Hand(p).key \in Keys
         /\ bindings' = Created(p, Hand(p).key)
         /\ Onward(p, "bind") /\ Hand(p)'.todo = Hand(p).todo \ {Hand(p).key} /\ Hand(p)'.key = None
<1> DEFINE w == [worker[k] EXCEPT !.pc = "bind", !.todo = @ \ {worker[k].key}, !.key = None]
<1>1. worker[k].pc = "rebind" /\ worker[k] \in Pass /\ worker[k].key \in Keys
  BY Working DEF Rebind, At, TypeInv
<1>2. /\ w \in Pass /\ w.pc = "bind" /\ w.at = p /\ w.hand = worker[k].hand
      /\ w.todo = worker[k].todo \ {worker[k].key} /\ w.key = None
  BY <1>1 DEF Pass, Provisioning
<1>3. worker' = [worker EXCEPT ![k] = w] /\ bindings' = Created(p, worker[k].key)
  BY DEF Rebind
<1>4. Only(k, p) /\ Hand(p)' = w
  BY <1>1, <1>2, <1>3, StepOnly
<1> QED
  BY <1>1, <1>2, <1>3, <1>4 DEF Onward, Only

\* Every binding has been seen to.
LEMMA BindingsDoneDoes ==
  ASSUME TypeInv, NEW k \in Kinds, BindingsDone(k), NEW p, p = worker[k].at
  PROVE  /\ Only(k, p) /\ Hand(p).pc = "bind" /\ Hand(p).todo = {}
         /\ Onward(p, "baseRole") /\ Hand(p)'.todo = {} /\ Hand(p)'.key = Hand(p).key
<1>1. worker[k].pc = "bind" /\ worker[k].todo = {} /\ Go(k, "baseRole")
  BY DEF BindingsDone, At
<1> QED
  BY <1>1, GoDoes DEF Only, Provisioning

\* The list holds what is labelled and not to be kept.
LEMMA ListDoes ==
  ASSUME TypeInv, NEW k \in Kinds, ListBindings(k), NEW p, p = worker[k].at
  PROVE  /\ Only(k, p) /\ Hand(p).pc = "list" /\ Onward(p, "prune")
         /\ Hand(p)'.todo = Labelled(p) \ Keep(p, Hand(p).hand) /\ Hand(p)'.key = Hand(p).key
<1> DEFINE todo == Labelled(p) \ Keep(p, worker[k].hand)
<1>1. worker[k].pc = "list" /\ GoWith(k, "prune", todo) /\ todo \in SUBSET Keys
  BY DEF ListBindings, At, Labelled
<1>2. Only(k, p) /\ Onward(p, "prune") /\ Hand(p)'.todo = todo /\ Hand(p)'.key = worker[k].key
  BY <1>1, GoWithDoes DEF Pruning
<1> QED
  BY <1>1, <1>2 DEF Only

\* One binding of the list is removed.
LEMMA PruneDoes ==
  ASSUME TypeInv, NEW k \in Kinds, NEW b \in Keys, Prune(k, b), NEW p, p = worker[k].at
  PROVE  /\ Only(k, p) /\ Hand(p).pc = "prune" /\ b \in Hand(p).todo /\ Onward(p, "prune")
         /\ Hand(p)'.todo = Hand(p).todo \ {b} /\ Hand(p)'.key = Hand(p).key
<1>1. /\ worker[k].pc = "prune" /\ b \in worker[k].todo
      /\ GoWith(k, "prune", worker[k].todo \ {b}) /\ worker[k].todo \ {b} \in SUBSET Keys
  BY Working DEF Prune, At, TypeInv, Pass
<1>2. /\ Only(k, p) /\ Onward(p, "prune") /\ Hand(p)'.todo = worker[k].todo \ {b}
      /\ Hand(p)'.key = worker[k].key
  BY <1>1, GoWithDoes DEF Pruning
<1> QED
  BY <1>1, <1>2 DEF Only

\* The list is done: the finalizer may go, or the pass ends.
LEMMA PruneDoneDoes ==
  ASSUME TypeInv, NEW k \in Kinds, PruneDone(k), NEW p, p = worker[k].at
  PROVE  /\ Only(k, p) /\ Hand(p).pc = "prune" /\ Hand(p).todo = {}
         /\ IF Hand(p).hand.phase = "deleting"
              THEN Onward(p, "release") /\ Hand(p)'.todo = {} /\ Hand(p)'.key = Hand(p).key
              ELSE Over(p)
<1>1. worker[k].pc = "prune" /\ worker[k].todo = {}
  BY DEF PruneDone, At
<1>2. CASE worker[k].hand.phase = "deleting"
  <2>1. Go(k, "release")
    BY <1>2 DEF PruneDone
  <2>2. /\ Only(k, p) /\ Onward(p, "release") /\ Hand(p)'.todo = worker[k].todo
        /\ Hand(p)'.key = worker[k].key
    BY <1>1, <2>1, GoDoes DEF Pruning
  <2> QED
    BY <1>1, <1>2, <2>2 DEF Only
<1>3. CASE worker[k].hand.phase # "deleting"
  <2>1. worker' = [worker EXCEPT ![k] = Idle]
    BY <1>3 DEF PruneDone
  <2>2. Only(k, p) /\ Over(p)
    BY <1>1, <2>1, StepOnly
  <2> QED
    BY <1>1, <1>3, <2>2 DEF Only
<1> QED
  BY <1>2, <1>3

\* A call of CreateRBACIfMissing leads to the next, or to the end of a pass that will be
\* followed by another.
LEMMA ProvisionDoes ==
  ASSUME TypeInv, NEW k \in Kinds, Provision(k), NEW p, p = worker[k].at
  PROVE  /\ Only(k, p) /\ Hand(p).pc \in Provisioning /\ UNCHANGED <<object, objectCache, allowed>>
         /\ \/ Over(p) /\ queued' = queued \cup {p}
            \/ \E pc \in Provisioning \cup {"list"} : Onward(p, pc) /\ queued' = queued
<1> DEFINE Goal == /\ Only(k, p) /\ Hand(p).pc \in Provisioning
                   /\ UNCHANGED <<object, objectCache, allowed>>
                   /\ \/ Over(p) /\ queued' = queued \cup {p}
                      \/ \E pc \in Provisioning \cup {"list"} : Onward(p, pc) /\ queued' = queued
<1> USE DEF PassUnchanged
<1>1. ASSUME NEW pc \in Provisioning, NEW role \in Grants, NEW write, NEW next,
             ReadRole(k, pc, role, write, next),
             write \in {"never", "writePdb", "writeBase"}, next \in {"baseExists", "account", "list"}
      PROVE  Goal
  <2>1. pc # "idle" /\ UNCHANGED <<object, objectCache, allowed, queued>>
    BY <1>1 DEF ReadRole, Provisioning
  <2>2. Only(k, p) /\ Hand(p).pc = pc
    BY <1>1, <2>1, ReadRoleDoes
  <2>3. Onward(p, next) \/ (Onward(p, write) /\ write # "never")
    BY <1>1, <2>1, ReadRoleDoes
  <2> QED
    BY <1>1, <2>1, <2>2, <2>3 DEF Provisioning
<1>2. ASSUME NEW pc \in Provisioning, NEW role \in Grants, NEW next,
             WriteRole(k, pc, role, next), next \in {"baseExists", "list"}
      PROVE  Goal
  <2>1. pc # "idle" /\ UNCHANGED <<object, objectCache, allowed, queued>>
    BY <1>2 DEF WriteRole, Provisioning
  <2> QED
    BY <1>2, <2>1, WriteRoleDoes DEF Provisioning
<1>3. ASSUME CreateSaIfMissing(k)
      PROVE  Goal
  <2>1. UNCHANGED <<object, objectCache, allowed>>
    BY <1>3 DEF CreateSaIfMissing
  <2> QED
    BY <1>3, <2>1, CreateSaDoes DEF Provisioning
<1>4. ASSUME NEW b \in Keys, ReconcileRoleBinding(k, b)
      PROVE  Goal
  <2>1. UNCHANGED <<object, objectCache, allowed, queued>>
    BY <1>4 DEF ReconcileRoleBinding
  <2>2. Only(k, p) /\ Hand(p).pc = "bind" /\ \E pc \in {"bind", "rebind"} : Onward(p, pc)
    BY <1>4, ReconcileDoes
  <2> QED
    BY <2>1, <2>2 DEF Provisioning
<1>5. ASSUME Rebind(k)
      PROVE  Goal
  <2>1. UNCHANGED <<object, objectCache, allowed, queued>>
    BY <1>5 DEF Rebind
  <2> QED
    BY <1>5, <2>1, RebindDoes DEF Provisioning
<1>6. ASSUME BindingsDone(k)
      PROVE  Goal
  <2>1. UNCHANGED <<object, objectCache, allowed, queued>>
    BY <1>6 DEF BindingsDone
  <2> QED
    BY <1>6, <2>1, BindingsDoneDoes DEF Provisioning
<1> QED
  BY <1>1, <1>2, <1>3, <1>4, <1>5, <1>6
  DEF Provision, EnsureOptionalClusterRoles, EnsureClusterRoleExists, EnsureBaseClusterRole, Grants,
      Provisioning

\* A pass that fails, or has written to the object, ends and is followed by another.
LEMMA EndDoes ==
  ASSUME TypeInv, NEW k \in Kinds, Fail(k) \/ AddFinalizer(k) \/ Release(k), NEW p, p = worker[k].at
  PROVE  Only(k, p) /\ Over(p) /\ queued' = queued \cup {p}
<1>1. worker[k].pc # "idle" /\ worker' = [worker EXCEPT ![k] = Idle] /\ queued' = queued \cup {p}
  BY DEF Fail, AddFinalizer, Release, At
<1> QED
  BY <1>1, StepOnly

\* The other actions leave the passes alone, but for a restart, which ends them all.
LEMMA RestartDoes ==
  ASSUME TypeInv, Restart, NEW o \in Objects
  PROVE  ~InHand(o)'
  BY NoneAssumption DEF Restart, InHand, Hand, Kinds, Idle


-----------------------------------------------------------------------------
(* The phases of an object, in the API server, in the cache and in hand.   *)


\* What a pass does fits its copy.  The one that removes the finalizer has seen the
\* deletion, and so has the cache: no later pass takes the object for one that is held.
PassFits(o) ==
  /\ Hand(o).pc = "finalizer" => Hand(o).hand.phase = "new"
  /\ Hand(o).pc \in Provisioning => Hand(o).hand.phase = "held"
  /\ Hand(o).pc \in Pruning => Hand(o).hand.phase \in {"held", "deleting"}
  /\ Hand(o).pc = "release" => Hand(o).hand.phase = "deleting"
  /\ Hand(o).hand.phase = "held" => object[o].phase \in {"held", "deleting"}
  /\ Hand(o).hand.phase = "deleting" =>
       object[o].phase \in {"deleting", "gone"} /\ objectCache[o].phase \in {"deleting", "gone"}

\* A copy is never ahead of the object.
CopyFits(o) ==
  /\ object[o].phase = "new" => objectCache[o].phase = "new"
  /\ objectCache[o].phase = "held" => object[o].phase \in {"held", "deleting"}
  /\ objectCache[o].phase = "deleting" => object[o].phase \in {"deleting", "gone"}
  /\ objectCache[o].phase = "gone" => object[o].phase = "gone"

PhaseInv == \A o \in Objects : CopyFits(o) /\ (InHand(o) => PassFits(o))

\* Copies and passes fit the objects initially.
LEMMA PhaseInit == Init => PhaseInv
<1> SUFFICES ASSUME Init, NEW o \in Objects PROVE CopyFits(o) /\ ~InHand(o)
  BY DEF PhaseInv
<1>1. objectCache = object /\ object[o].phase \in {"new", "held"}
  BY DEF Init
<1>2. ~InHand(o)
  BY NoneAssumption DEF Init, InHand, Hand, Idle, Kinds
<1> QED
  BY <1>1, <1>2 DEF CopyFits

\* A pass that goes on keeps to its copy.
LEMMA OnwardFits ==
  ASSUME TypeInv, PhaseInv, NEW k \in Kinds, NEW p, Only(k, p), UNCHANGED <<object, objectCache>>,
         NEW pc \in Provisioning \cup Pruning, Onward(p, pc),
         IF pc \in Provisioning THEN Hand(p).pc \in Provisioning
                                ELSE Hand(p).pc \in Provisioning \cup Pruning,
         pc = "release" => Hand(p).hand.phase = "deleting"
  PROVE  PhaseInv'
<1>1. PassFits(p)'
  BY DEF Only, Onward, PhaseInv, PassFits, InHand, Provisioning, Pruning
<1>2. ASSUME NEW o \in Objects \ {p} PROVE InHand(o)' => PassFits(o)'
  BY <1>2 DEF Only, PhaseInv, PassFits
<1> QED
  BY <1>1, <1>2 DEF PhaseInv, CopyFits

\* So does one that ends.
LEMMA OverFits ==
  ASSUME TypeInv, PhaseInv, NEW k \in Kinds, NEW p, Only(k, p), Over(p), UNCHANGED <<object, objectCache>>
  PROVE  PhaseInv'
  BY DEF Only, Over, PhaseInv, PassFits, CopyFits

\* Copies and passes go on fitting the objects they are of.
LEMMA PhaseStep ==
  ASSUME TypeInv, PhaseInv, [Next]_vars
  PROVE  PhaseInv'
<1> USE DEF PassUnchanged
<1>1. ASSUME NEW k \in Kinds, NEW o \in Objects, Begin(k, o)
      PROVE  PhaseInv'
  <2>1. UNCHANGED <<object, objectCache>>
    BY <1>1 DEF Begin
  <2>2. ASSUME NEW p \in Objects, InHand(p)' PROVE PassFits(p)'
    <3>1. CASE p = o
      <4>1. objectCache[o].phase \in {"new", "held", "deleting"} /\ Hand(o)'.hand = objectCache[o]
        BY <1>1, <2>2, <3>1, BeginDoes DEF Over, TypeInv, TypeOK, Object
      <4>2. Hand(o)'.pc \in {"finalizer", "list", "pdbRole"}
            /\ (Hand(o)'.pc = "finalizer" => objectCache[o].phase = "new")
            /\ (Hand(o)'.pc = "pdbRole" => objectCache[o].phase = "held")
            /\ (Hand(o)'.pc = "list" => objectCache[o].phase \in {"held", "deleting"})
        BY <1>1, <4>1, BeginDoes
      <4> QED
        BY <2>1, <3>1, <4>1, <4>2 DEF PhaseInv, CopyFits, PassFits, Provisioning, Pruning
    <3>2. CASE p # o
      BY <1>1, <2>1, <2>2, <3>2, BeginDoes DEF PhaseInv, PassFits
    <3> QED
      BY <3>1, <3>2
  <2> QED
    BY <2>1, <2>2 DEF PhaseInv, CopyFits
<1>2. ASSUME NEW k \in Kinds, Fail(k)
      PROVE  PhaseInv'
  BY <1>2, EndDoes, OverFits DEF Fail
<1>3. ASSUME NEW k \in Kinds, AddFinalizer(k)
      PROVE  PhaseInv'
  <2>1. PICK p : p = worker[k].at
    OBVIOUS
  <2>2. Only(k, p) /\ Over(p)
    BY <1>3, <2>1, EndDoes
  <2>3. Hand(p).pc = "finalizer" /\ UNCHANGED objectCache
        /\ object' = IF object[p] = Hand(p).hand THEN [object EXCEPT ![p].phase = "held"] ELSE object
    BY <1>3, <2>1, <2>2 DEF AddFinalizer, At, Only
  <2>4. ASSUME NEW o \in Objects, object'[o].phase # object[o].phase
        PROVE  o = p /\ object[o].phase = "new" /\ object'[o].phase = "held"
    BY <2>2, <2>3, <2>4 DEF PhaseInv, PassFits, InHand, Only, TypeInv, TypeOK, Object
  <2> QED
    BY <2>2, <2>3, <2>4 DEF PhaseInv, PassFits, CopyFits, Only, Over
<1>4. ASSUME NEW k \in Kinds, Release(k)
      PROVE  PhaseInv'
  <2>1. PICK p : p = worker[k].at
    OBVIOUS
  <2>2. Only(k, p) /\ Over(p)
    BY <1>4, <2>1, EndDoes
  <2>3. Hand(p).pc = "release" /\ UNCHANGED objectCache /\ object' = [object EXCEPT ![p].phase = "gone"]
    BY <1>4, <2>1, <2>2 DEF Release, At, Only
  <2>4. objectCache[p].phase \in {"deleting", "gone"}
    BY <2>2, <2>3 DEF PhaseInv, PassFits, InHand, Only
  <2>5. \A o \in Objects : object'[o].phase # object[o].phase => o = p /\ object'[o].phase = "gone"
    BY <2>2, <2>3 DEF Only, TypeInv, TypeOK, Object
  <2> QED
    BY <2>2, <2>3, <2>4, <2>5 DEF PhaseInv, PassFits, CopyFits, Only, Over
<1>5. ASSUME NEW k \in Kinds, Provision(k)
      PROVE  PhaseInv'
  <2>1. PICK p : p = worker[k].at
    OBVIOUS
  <2>2. Only(k, p) /\ Hand(p).pc \in Provisioning /\ UNCHANGED <<object, objectCache>>
    BY <1>5, <2>1, ProvisionDoes
  <2>3. Over(p) \/ \E pc \in Provisioning \cup {"list"} : Onward(p, pc)
    BY <1>5, <2>1, ProvisionDoes
  <2>4. "list" \in Pruning /\ "list" \notin Provisioning /\ "release" \notin Provisioning
    BY DEF Provisioning, Pruning
  <2> QED
    BY <2>2, <2>3, <2>4, OnwardFits, OverFits
<1>6. ASSUME NEW k \in Kinds, ListBindings(k)
       PROVE  PhaseInv'
  <2>1. UNCHANGED <<object, objectCache>>
    BY <1>6 DEF ListBindings
  <2> QED
    BY <1>6, <2>1, ListDoes, OnwardFits DEF Provisioning, Pruning
<1>7. ASSUME NEW k \in Kinds, NEW b \in Keys, Prune(k, b)
       PROVE  PhaseInv'
  <2>1. UNCHANGED <<object, objectCache>>
    BY <1>7 DEF Prune
  <2> QED
    BY <1>7, <2>1, PruneDoes, OnwardFits DEF Provisioning, Pruning
<1>8. ASSUME NEW k \in Kinds, PruneDone(k)
       PROVE  PhaseInv'
  <2>1. UNCHANGED <<object, objectCache>>
    BY <1>8 DEF PruneDone
  <2> QED
    BY <1>8, <2>1, PruneDoneDoes, OnwardFits, OverFits DEF Provisioning, Pruning
<1>9. ASSUME NEW o \in Objects, SyncObject(o)
       PROVE  PhaseInv'
  <2>1. UNCHANGED <<object, worker>> /\ objectCache' = [objectCache EXCEPT ![o] = object[o]]
    BY <1>9 DEF SyncObject
  <2>2. objectCache \in [Objects -> Object]
    BY DEF TypeInv, TypeOK
  <2> QED
    BY <2>1, <2>2 DEF PhaseInv, PassFits, CopyFits, InHand, Hand
<1>10. ASSUME NEW o \in Objects, DeleteObject(o)
       PROVE  PhaseInv'
  <2>1. /\ UNCHANGED <<objectCache, worker>> /\ object \in [Objects -> Object]
        /\ object' = [object EXCEPT ![o].phase = IF @ = "held" THEN "deleting" ELSE "gone"]
        /\ object[o].phase \in {"new", "held"}
    BY <1>10 DEF DeleteObject, TypeInv, TypeOK
  <2>2. /\ \A p \in Objects \ {o} : object'[p] = object[p]
        /\ object'[o].phase = IF object[o].phase = "held" THEN "deleting" ELSE "gone"
    BY <2>1 DEF Object
  <2> QED
    BY <2>1, <2>2 DEF PhaseInv, PassFits, CopyFits, InHand, Hand
<1>11. ASSUME NEW o \in Objects, Edit(o)
       PROVE  PhaseInv'
  <2>1. /\ UNCHANGED <<objectCache, worker>>
        /\ \A p \in Objects : object'[p].phase = object[p].phase
    BY <1>11 DEF Edit, TypeInv, TypeOK, Object
  <2> QED
    BY <2>1 DEF PhaseInv, PassFits, CopyFits, InHand, Hand
<1>12. CASE Restart
  <2>1. objectCache' = object /\ object' = object
    BY <1>12 DEF Restart
  <2> QED
    BY <1>12, <2>1, RestartDoes DEF PhaseInv, CopyFits
<1>13. CASE \/ SyncBindings \/ SyncAccounts \/ UNCHANGED vars
            \/ \E o \in Objects : CollectGarbage(o) \/ DeleteOwned(o)
  <2>1. UNCHANGED <<object, objectCache, worker>>
    BY <1>13 DEF SyncBindings, SyncAccounts, CollectGarbage, DeleteOwned, vars
  <2> QED
    BY <2>1 DEF PhaseInv, PassFits, CopyFits, InHand, Hand
<1> QED
  BY <1>1, <1>2, <1>3, <1>4, <1>5, <1>6, <1>7, <1>8, <1>9, <1>10, <1>11, <1>12, <1>13
  DEF Next, Work, Step, Caches, DeleteRBACExcept

-----------------------------------------------------------------------------
(* How bindings come and go.                                               *)

\* A binding bears the name of the object it was made for; one of an older version is in
\* the object's own namespace.
Proper(b, binding) ==
  binding # None =>
    /\ Name[binding.by] = b[2]
    /\ binding.role \in {b[3], "legacy"}
    /\ binding.role = "legacy" => b[1] = Home[binding.by] /\ b[3] = "base"

\* So does what a pass has to do.
TodoProper(o) ==
  \A b \in Keys :
    b \in Hand(o).todo \/ (Hand(o).pc = "rebind" /\ b = Hand(o).key) => b[2] = Name[o]

BindingInv ==
  /\ \A b \in Keys : Proper(b, bindings[b]) /\ Proper(b, bindingCache[b])
  /\ \A o \in Objects : InHand(o) => TodoProper(o)

\* A pass over p grants b.
IsGranted(p, b) ==
  /\ InHand(p) /\ Hand(p).hand.phase = "held"
  /\ \/ Hand(p).pc = "bind" /\ b \in Hand(p).todo
     \/ Hand(p).pc = "rebind" /\ b = Hand(p).key
  /\ bindings[b] = None /\ bindings'[b] = [by |-> p, role |-> b[3]]
  /\ Hand(p)' # Hand(p)

\* A binding is left, deleted, or created by a pass over an object that is held.
LEMMA BindingsChange ==
  ASSUME TypeInv, PhaseInv, [Next]_vars, NEW b \in Keys
  PROVE  bindings'[b] \in {bindings[b], None} \/ \E p \in Objects : IsGranted(p, b)
<1> DEFINE Goal == bindings'[b] \in {bindings[b], None} \/ \E p \in Objects : IsGranted(p, b)
<1>0. bindings \in [Keys -> Binding \cup {None}]
  BY DEF TypeInv, TypeOK, BindingMap
<1>1. ASSUME NEW k \in Kinds, NEW c \in Keys, ReconcileRoleBinding(k, c)
      PROVE  Goal
  <2>1. PICK p : p = worker[k].at
    OBVIOUS
  <2>2. /\ Only(k, p) /\ Hand(p).pc = "bind" /\ c \in Hand(p).todo
        /\ Hand(p)'.pc = "rebind" \/ c \notin Hand(p)'.todo
    BY <1>1, <2>1, ReconcileDoes DEF Onward
  <2>3. InHand(p) /\ Hand(p).hand.phase = "held"
    BY <2>2 DEF Only, InHand, PhaseInv, PassFits, Provisioning
  <2>4. bindings' \in {[bindings EXCEPT ![c] = None], Created(p, c), bindings}
    BY <1>1, <2>1 DEF ReconcileRoleBinding
  <2> QED
    BY <1>0, <2>2, <2>3, <2>4 DEF Created, IsGranted, Only
<1>2. ASSUME NEW k \in Kinds, Rebind(k)
      PROVE  Goal
  <2>1. PICK p : p = worker[k].at
    OBVIOUS
  <2>2. /\ Only(k, p) /\ Hand(p).pc = "rebind" /\ Hand(p).key \in Keys
        /\ bindings' = Created(p, Hand(p).key) /\ Hand(p)'.pc = "bind"
    BY <1>2, <2>1, RebindDoes DEF Onward
  <2>3. InHand(p) /\ Hand(p).hand.phase = "held"
    BY <2>2 DEF Only, InHand, PhaseInv, PassFits, Provisioning
  <2> QED
    BY <1>0, <2>2, <2>3 DEF Created, IsGranted, Only
<1>3. ASSUME NEW k \in Kinds, NEW c \in Keys, Prune(k, c)
      PROVE  Goal
  BY <1>0, <1>3 DEF Prune
<1>4. ASSUME NEW o \in Objects, CollectGarbage(o)
      PROVE  Goal
  BY <1>0, <1>4 DEF CollectGarbage
<1>5. ASSUME NEW o \in Objects, DeleteOwned(o)
      PROVE  Goal
  BY <1>0, <1>5 DEF DeleteOwned, Labelled
<1>6. ASSUME NEW k \in Kinds, \/ \E o \in Objects : Begin(k, o)
                              \/ Fail(k) \/ AddFinalizer(k) \/ Release(k)
                              \/ EnsureOptionalClusterRoles(k) \/ EnsureClusterRoleExists(k)
                              \/ CreateSaIfMissing(k) \/ BindingsDone(k) \/ EnsureBaseClusterRole(k)
                              \/ ListBindings(k) \/ PruneDone(k)
      PROVE  Goal
  BY <1>6 DEF Begin, Fail, AddFinalizer, Release, EnsureOptionalClusterRoles, EnsureClusterRoleExists,
              CreateSaIfMissing, BindingsDone, EnsureBaseClusterRole, ListBindings, PruneDone,
              ReadRole, WriteRole
<1>7. CASE Caches \/ Restart \/ UNCHANGED vars \/ \E o \in Objects : DeleteObject(o) \/ Edit(o)
  BY <1>7 DEF Caches, SyncBindings, SyncAccounts, SyncObject, Restart, vars, DeleteObject, Edit
<1> QED
  BY <1>1, <1>2, <1>3, <1>4, <1>5, <1>6, <1>7
  DEF Next, Work, Step, Provision, DeleteRBACExcept

\* The initial bindings bear the names of their objects.
LEMMA BindingInit == Init => BindingInv
<1> SUFFICES ASSUME Init PROVE BindingInv
  OBVIOUS
<1>1. PICK bound \in SUBSET Objects, old \in {"legacy", "base"} :
        bindings = [b \in Keys |->
            IF \E o \in bound : b = <<Home[o], Name[o], "base">>
              THEN [by |-> CHOOSE o \in bound : Home[o] = b[1] /\ Name[o] = b[2], role |-> old]
              ELSE None]
  BY DEF Init
<1>2. ASSUME NEW b \in Keys PROVE Proper(b, bindings[b])
  <2>1. CASE \E o \in bound : b = <<Home[o], Name[o], "base">>
    <3>1. \E o \in bound : Home[o] = b[1] /\ Name[o] = b[2]
      BY <2>1
    <3>2. PICK p : /\ p = CHOOSE o \in bound : Home[o] = b[1] /\ Name[o] = b[2]
                   /\ Home[p] = b[1] /\ Name[p] = b[2]
      BY <3>1
    <3>3. bindings[b] = [by |-> p, role |-> old]
      BY <1>1, <2>1, <3>2
    <3>4. b[3] = "base"
      BY <2>1
    <3> QED
      BY <3>2, <3>3, <3>4 DEF Proper
  <2>2. CASE ~\E o \in bound : b = <<Home[o], Name[o], "base">>
    BY <1>1, <2>2 DEF Proper
  <2> QED
    BY <2>1, <2>2
<1>3. \A o \in Objects : ~InHand(o)
  BY NoneAssumption DEF Init, InHand, Hand, Idle, Kinds
<1> QED
  BY <1>2, <1>3 DEF Init, BindingInv

\* A step of a pass leaves the caches alone, and the informers notice what it does.
LEMMA PassesAreNoticed ==
  ASSUME NEW k \in Kinds, Step(k) \/ Fail(k) \/ \E o \in Objects : Begin(k, o)
  PROVE  PassUnchanged
<1>1. EnsureOptionalClusterRoles(k) \/ EnsureClusterRoleExists(k) \/ EnsureBaseClusterRole(k) => PassUnchanged
  BY DEF EnsureOptionalClusterRoles, EnsureClusterRoleExists, EnsureBaseClusterRole, ReadRole, WriteRole
<1>2. CreateSaIfMissing(k) \/ (\E b \in Keys : ReconcileRoleBinding(k, b)) \/ Rebind(k) \/ BindingsDone(k)
        => PassUnchanged
  BY DEF CreateSaIfMissing, ReconcileRoleBinding, Rebind, BindingsDone
<1>3. DeleteRBACExcept(k) \/ AddFinalizer(k) \/ Release(k) \/ Fail(k) => PassUnchanged
  BY DEF DeleteRBACExcept, Fail, AddFinalizer, Release, ListBindings, Prune, PruneDone
<1>4. (\E o \in Objects : Begin(k, o)) => PassUnchanged
  BY DEF Begin
<1> QED
  BY <1>1, <1>2, <1>3, <1>4 DEF Step, Provision

\* Bindings go on bearing the name of the object that created them.
LEMMA BindingStep ==
  ASSUME TypeInv, PhaseInv, BindingInv, [Next]_vars
  PROVE  BindingInv'
<1> DEFINE Todos == \A o \in Objects : InHand(o) => TodoProper(o)
<1>1. ASSUME NEW b \in Keys PROVE Proper(b, bindings'[b])
  <2>1. CASE bindings'[b] \in {bindings[b], None}
    BY <2>1 DEF BindingInv, Proper
  <2>2. CASE \E p \in Objects : IsGranted(p, b)
    BY <2>2 DEF IsGranted, BindingInv, TodoProper, Proper, Keys, Grants
  <2> QED
    BY <2>1, <2>2, BindingsChange
<1>2. ASSUME NEW b \in Keys PROVE Proper(b, bindingCache'[b])
  <2>1. bindingCache' \in {bindingCache, bindings}
    <3>1. ASSUME NEW k \in Kinds, Step(k) \/ Fail(k) PROVE bindingCache' = bindingCache
      BY <3>1, PassesAreNoticed DEF PassUnchanged, cacheVars
    <3>2. ASSUME NEW k \in Kinds, NEW o \in Objects, Begin(k, o) PROVE bindingCache' = bindingCache
      BY <3>2, PassesAreNoticed DEF PassUnchanged, cacheVars
    <3>3. ASSUME NEW o \in Objects,
                 SyncObject(o) \/ DeleteObject(o) \/ CollectGarbage(o) \/ Edit(o) \/ DeleteOwned(o)
          PROVE  bindingCache' = bindingCache
      BY <3>3 DEF SyncObject, DeleteObject, Edit, CollectGarbage, DeleteOwned
    <3>4. CASE SyncBindings \/ SyncAccounts \/ Restart \/ UNCHANGED vars
      BY <3>4 DEF SyncBindings, SyncAccounts, Restart, vars
    <3> QED
      BY <3>1, <3>2, <3>3, <3>4 DEF Next, Work, Caches
  <2> QED
    BY <2>1 DEF BindingInv
<1>3. ASSUME NEW k \in Kinds, NEW p, Only(k, p), Over(p) \/ TodoProper(p)'
      PROVE  Todos'
  BY <1>3 DEF Only, Over, BindingInv, TodoProper
<1>4. ASSUME NEW k \in Kinds, NEW o \in Objects, Begin(k, o)
      PROVE  Todos'
  <2>1. InHand(o)' => TodoProper(o)'
    <3>1. InHand(o)' => Hand(o)'.todo = {} /\ Hand(o)'.pc # "rebind"
      BY <1>4, BeginDoes DEF Over, TypeInv, TypeOK, Object
    <3> QED
      BY <3>1 DEF TodoProper
  <2> QED
    BY <1>4, <2>1, BeginDoes DEF BindingInv, TodoProper
<1>5. ASSUME NEW k \in Kinds, Fail(k) \/ AddFinalizer(k) \/ Release(k)
      PROVE  Todos'
  BY <1>3, <1>5, EndDoes
<1>6. ASSUME NEW k \in Kinds, NEW pc \in Provisioning, NEW role \in Grants, NEW write, NEW next,
             ReadRole(k, pc, role, write, next),
             write \in {"never", "writePdb", "writeBase"}, next \in {"baseExists", "account", "list"}
      PROVE  Todos'
  <2>1. PICK p : p = worker[k].at
    OBVIOUS
  <2>2. pc # "idle"
    BY DEF Provisioning
  <2>3. Only(k, p) /\ Hand(p)'.todo = Hand(p).todo /\ Hand(p)'.pc # "rebind"
    BY <1>6, <2>1, <2>2, ReadRoleDoes DEF Onward
  <2> QED
    BY <1>3, <2>3 DEF BindingInv, TodoProper, Only, InHand
<1>7. ASSUME NEW k \in Kinds, NEW pc \in Provisioning, NEW role \in Grants, NEW next,
             WriteRole(k, pc, role, next), next \in {"baseExists", "list"}
      PROVE  Todos'
  <2>1. PICK p : p = worker[k].at
    OBVIOUS
  <2>2. pc # "idle"
    BY DEF Provisioning
  <2>3. Only(k, p) /\ Hand(p)'.todo = Hand(p).todo /\ Hand(p)'.pc # "rebind"
    BY <1>7, <2>1, <2>2, WriteRoleDoes DEF Onward
  <2> QED
    BY <1>3, <2>3 DEF BindingInv, TodoProper, Only, InHand
<1>8. ASSUME NEW k \in Kinds, CreateSaIfMissing(k)
      PROVE  Todos'
  <2>1. PICK p : p = worker[k].at
    OBVIOUS
  <2>2. \/ Over(p)
        \/ /\ Hand(p)'.todo = DesiredBindings(p, Hand(p).hand.spec, Hand(p).hand.spec.targets)
           /\ Hand(p)'.pc = "bind"
    BY <1>8, <2>1, CreateSaDoes DEF Onward
  <2>3. Only(k, p)
    BY <1>8, <2>1, CreateSaDoes
  <2> QED
    BY <1>3, <2>2, <2>3 DEF TodoProper, DesiredBindings
<1>9. ASSUME NEW k \in Kinds, NEW b \in Keys, ReconcileRoleBinding(k, b)
      PROVE  Todos'
  <2>1. PICK p : p = worker[k].at
    OBVIOUS
  <2>2. /\ Only(k, p) /\ Hand(p)'.todo \subseteq Hand(p).todo /\ b \in Hand(p).todo
        /\ Hand(p)'.pc = "rebind" => Hand(p)'.key = b
    BY <1>9, <2>1, ReconcileDoes DEF Onward
  <2> QED
    BY <1>3, <2>2 DEF BindingInv, TodoProper, Only, InHand
<1>10. ASSUME NEW k \in Kinds, Rebind(k)
       PROVE  Todos'
  <2>1. PICK p : p = worker[k].at
    OBVIOUS
  <2>2. Only(k, p) /\ Hand(p)'.todo \subseteq Hand(p).todo /\ Hand(p)'.pc = "bind"
    BY <1>10, <2>1, RebindDoes DEF Onward
  <2> QED
    BY <1>3, <2>2 DEF BindingInv, TodoProper, Only, InHand
<1>11. ASSUME NEW k \in Kinds, BindingsDone(k)
       PROVE  Todos'
  BY <1>3, <1>11, BindingsDoneDoes DEF TodoProper, Onward
<1>12. ASSUME NEW k \in Kinds, ListBindings(k)
       PROVE  Todos'
  <2>1. PICK p : p = worker[k].at
    OBVIOUS
  <2>2. Only(k, p) /\ Hand(p)'.todo \subseteq Labelled(p) /\ Hand(p)'.pc = "prune"
    BY <1>12, <2>1, ListDoes DEF Onward
  <2> QED
    BY <1>3, <2>2 DEF BindingInv, Proper, TodoProper, Labelled
<1>13. ASSUME NEW k \in Kinds, NEW b \in Keys, Prune(k, b)
       PROVE  Todos'
  <2>1. PICK p : p = worker[k].at
    OBVIOUS
  <2>2. Only(k, p) /\ Hand(p)'.todo \subseteq Hand(p).todo /\ Hand(p)'.pc = "prune"
    BY <1>13, <2>1, PruneDoes DEF Onward
  <2> QED
    BY <1>3, <2>2 DEF BindingInv, TodoProper, Only, InHand
<1>14. ASSUME NEW k \in Kinds, PruneDone(k)
       PROVE  Todos'
  BY <1>3, <1>14, PruneDoneDoes DEF TodoProper, Onward
<1>15. ASSUME Restart
       PROVE  Todos'
  BY <1>15, RestartDoes
<1>16. ASSUME \/ Caches \/ UNCHANGED vars
              \/ \E o \in Objects : DeleteObject(o) \/ CollectGarbage(o) \/ Edit(o) \/ DeleteOwned(o)
       PROVE  Todos'
  <2>1. worker' = worker
    BY <1>16 DEF Caches, SyncBindings, SyncAccounts, SyncObject, vars, DeleteObject, CollectGarbage,
                 Edit, DeleteOwned
  <2> QED
    BY <2>1 DEF BindingInv, TodoProper, InHand, Hand
<1>17. Todos'
  <2>1. ASSUME NEW k \in Kinds, Provision(k)
        PROVE  Todos'
    BY <2>1, <1>6, <1>7, <1>8, <1>9, <1>10, <1>11
    DEF Provision, EnsureOptionalClusterRoles, EnsureClusterRoleExists, EnsureBaseClusterRole, Grants,
        Provisioning
  <2>2. ASSUME NEW k \in Kinds, DeleteRBACExcept(k)
        PROVE  Todos'
    BY <2>2, <1>12, <1>13, <1>14 DEF DeleteRBACExcept
  <2> QED
    BY <1>4, <1>5, <1>15, <1>16, <2>1, <2>2 DEF Next, Work, Step
<1> QED
  BY <1>1, <1>2, <1>17 DEF BindingInv

-----------------------------------------------------------------------------
(* No grant is leaked.                                                     *)

\* What the garbage collector would not find.
Outside(o) == {b \in HeldBy(o) : b[1] # Home[o]}

\* What the finalizer has listed and not deleted yet is all there is: nobody grants
\* anything to an object that is being deleted.
Covered(o) ==
  Hand(o).hand.phase = "deleting" =>
    /\ Hand(o).pc = "prune" => Outside(o) \subseteq Hand(o).todo
    /\ Hand(o).pc = "release" => Outside(o) = {}

OutsideInv ==
  \A o \in Objects :
    /\ object[o].phase \in {"new", "gone"} => Outside(o) = {}
    /\ InHand(o) => Covered(o)

\* Initially no object has bindings outside its namespace that are not accounted for.
LEMMA OutsideInit == Init => OutsideInv
<1> SUFFICES ASSUME Init, NEW o \in Objects PROVE ~InHand(o) /\ Outside(o) = {}
  BY DEF OutsideInv
<1>1. ~InHand(o)
  BY NoneAssumption DEF Init, InHand, Hand, Idle, Kinds
<1>2. ASSUME NEW b \in Keys, bindings[b] # None, bindings[b].by = o PROVE b[1] = Home[o]
  <2>1. PICK bound \in SUBSET Objects, old \in {"legacy", "base"} :
        bindings = [c \in Keys |->
            IF \E p \in bound : c = <<Home[p], Name[p], "base">>
              THEN [by |-> CHOOSE p \in bound : Home[p] = c[1] /\ Name[p] = c[2], role |-> old]
              ELSE None]
    BY DEF Init
  <2>2. \E p \in bound : b = <<Home[p], Name[p], "base">>
    BY <1>2, <2>1
  <2>3. \E p \in bound : Home[p] = b[1] /\ Name[p] = b[2]
    BY <2>2
  <2>4. PICK p : /\ p = CHOOSE q \in bound : Home[q] = b[1] /\ Name[q] = b[2]
                 /\ Home[p] = b[1] /\ Name[p] = b[2]
    BY <2>3
  <2>5. bindings[b] = [by |-> p, role |-> old]
    BY <2>1, <2>2, <2>4
  <2>6. bindings[b].by = p
    BY <2>5
  <2> QED
    BY <1>2, <2>4, <2>6
<1> QED
  BY <1>1, <1>2 DEF Outside, HeldBy

\* Only a pass over an object that is held grants anything to it.
LEMMA OutsideShrinks ==
  ASSUME TypeInv, PhaseInv, [Next]_vars,
         NEW o \in Objects, ~(InHand(o) /\ Hand(o).hand.phase = "held")
  PROVE  Outside(o)' \subseteq Outside(o)
<1> SUFFICES ASSUME NEW b \in Outside(o)' PROVE b \in Outside(o)
  OBVIOUS
<1>1. b \in Keys /\ bindings'[b] # None /\ bindings'[b].by = o /\ b[1] # Home[o]
  BY DEF Outside, HeldBy
<1>2. ASSUME NEW p \in Objects, IsGranted(p, b) PROVE FALSE
  <2>1. bindings'[b].by = p
    BY <1>2 DEF IsGranted
  <2> QED
    BY <1>1, <1>2, <2>1 DEF IsGranted
<1>3. bindings'[b] = bindings[b]
  BY <1>1, <1>2, BindingsChange
<1> QED
  BY <1>1, <1>3 DEF Outside, HeldBy

\* An object ends by its finalizer, unless no pass has seen it.
LEMMA Ends ==
  ASSUME TypeInv, PhaseInv, [Next]_vars, NEW o \in Objects, object'[o].phase \in {"new", "gone"}
  PROVE  object[o].phase \in {"new", "gone"} \/ \E k \in Kinds : Release(k) /\ worker[k].at = o
<1> DEFINE Goal == object[o].phase \in {"new", "gone"} \/ \E k \in Kinds : Release(k) /\ worker[k].at = o
<1>0. object \in [Objects -> Object]
  BY DEF TypeInv, TypeOK
<1>1. ASSUME NEW k \in Kinds, Release(k)
      PROVE  Goal
  <2>1. PICK p : p = worker[k].at
    OBVIOUS
  <2>2. object' = [object EXCEPT ![p].phase = "gone"]
    BY <1>1, <2>1 DEF Release
  <2> QED
    BY <1>0, <1>1, <2>1, <2>2
<1>2. ASSUME NEW k \in Kinds, AddFinalizer(k)
      PROVE  Goal
  <2>1. object' = object \/ object' = [object EXCEPT ![worker[k].at].phase = "held"]
    BY <1>2 DEF AddFinalizer
  <2> QED
    BY <1>0, <2>1 DEF Object
<1>3. ASSUME NEW p \in Objects, DeleteObject(p)
      PROVE  Goal
  <2>1. object' = [object EXCEPT ![p].phase = IF @ = "held" THEN "deleting" ELSE "gone"]
        /\ object[p].phase \in {"new", "held"}
    BY <1>3 DEF DeleteObject
  <2> QED
    BY <1>0, <2>1 DEF Object
<1>4. ASSUME NEW p \in Objects, Edit(p)
      PROVE  Goal
  BY <1>0, <1>4 DEF Edit, Object
<1>5. CASE UNCHANGED object
  BY <1>5
<1>6. \/ UNCHANGED object
      \/ \E k \in Kinds : Release(k) \/ AddFinalizer(k)
      \/ \E p \in Objects : DeleteObject(p) \/ Edit(p)
  BY DEF Next, Work, Step, Provision, DeleteRBACExcept, Caches, Begin, Fail,
         EnsureOptionalClusterRoles, EnsureClusterRoleExists, CreateSaIfMissing, ReconcileRoleBinding,
         Rebind, BindingsDone, EnsureBaseClusterRole, ListBindings, Prune, PruneDone, ReadRole,
         WriteRole, SyncBindings, SyncAccounts, SyncObject, Restart, vars, CollectGarbage, DeleteOwned
<1> QED
  BY <1>1, <1>2, <1>3, <1>4, <1>5, <1>6

\* What an object has outside its namespace stays accounted for until it is gone.
LEMMA OutsideStep ==
  ASSUME TypeInv, PhaseInv, BindingInv, OutsideInv, [Next]_vars
  PROVE  OutsideInv'
<1>1. ASSUME NEW o \in Objects, object'[o].phase \in {"new", "gone"}
      PROVE  Outside(o)' = {}
  <2>1. CASE object[o].phase \in {"new", "gone"}
    BY <2>1, OutsideShrinks DEF OutsideInv, PhaseInv, PassFits
  <2>2. ASSUME NEW k \in Kinds, Release(k), worker[k].at = o
        PROVE  Outside(o)' = {}
    <3>1. Only(k, o) /\ Hand(o).pc = "release"
      BY <2>2, EndDoes DEF Release, At, Only
    <3>2. InHand(o) /\ Hand(o).hand.phase = "deleting"
      BY <3>1 DEF Only, InHand, PhaseInv, PassFits
    <3> QED
      BY <3>1, <3>2, OutsideShrinks DEF OutsideInv, Covered
  <2> QED
    BY <1>1, <2>1, <2>2, Ends
<1> DEFINE Goal == \A o \in Objects : InHand(o) => Covered(o)
<1>2. ASSUME NEW o \in Objects, InHand(o), Hand(o)' = Hand(o)
      PROVE  Covered(o)'
  BY <1>2, OutsideShrinks DEF OutsideInv, Covered
<1>3. ASSUME NEW k \in Kinds, NEW p, Only(k, p), Over(p) \/ Covered(p)'
      PROVE  Goal'
  BY <1>2, <1>3 DEF Only, Over
<1>4. ASSUME NEW k \in Kinds, NEW o \in Objects, Begin(k, o)
      PROVE  Goal'
  <2>1. InHand(o)' => Covered(o)'
    <3>1. InHand(o)' => Hand(o)'.pc \notin {"prune", "release"}
      BY <1>4, BeginDoes DEF Over, TypeInv, TypeOK, Object
    <3> QED
      BY <3>1 DEF Covered
  <2> QED
    BY <1>2, <1>4, <2>1, BeginDoes
<1>5. ASSUME NEW k \in Kinds, Fail(k) \/ AddFinalizer(k) \/ Release(k)
      PROVE  Goal'
  BY <1>3, <1>5, EndDoes
<1>6. ASSUME NEW k \in Kinds, Provision(k)
      PROVE  Goal'
  <2>1. PICK p : Only(k, p) /\ (Over(p) \/ Hand(p)'.pc \notin {"prune", "release"})
    BY <1>6, ProvisionDoes DEF Onward, Provisioning
  <2> QED
    BY <1>3, <2>1 DEF Covered
<1>7. ASSUME NEW k \in Kinds, ListBindings(k)
      PROVE  Goal'
  <2>1. PICK p : p = worker[k].at
    OBVIOUS
  <2>2. Only(k, p) /\ Hand(p)'.pc = "prune" /\ Hand(p)'.hand = Hand(p).hand
        /\ Hand(p)'.todo = Labelled(p) \ Keep(p, Hand(p).hand)
    BY <1>7, <2>1, ListDoes DEF Onward
  <2>3. CASE Hand(p).hand.phase = "deleting"
    <3>1. Outside(p)' \subseteq Outside(p)
      BY <2>2, <2>3, OutsideShrinks DEF Only
    <3>2. Outside(p) \subseteq Labelled(p) \ AllBindingsIn(p, Home[p])
      BY DEF Outside, HeldBy, Labelled, BindingInv, Proper, AllBindingsIn, Keys
    <3>3. Covered(p)'
      BY <2>2, <2>3, <3>1, <3>2 DEF Covered, Keep
    <3> QED
      BY <1>3, <2>2, <3>3
  <2>4. CASE Hand(p).hand.phase # "deleting"
    BY <1>3, <2>2, <2>4 DEF Covered
  <2> QED
    BY <2>3, <2>4
<1>8. ASSUME NEW k \in Kinds, NEW b \in Keys, Prune(k, b)
      PROVE  Goal'
  <2>1. PICK p : p = worker[k].at
    OBVIOUS
  <2>2. Only(k, p) /\ Hand(p).pc = "prune" /\ Hand(p)'.pc = "prune" /\ Hand(p)'.hand = Hand(p).hand
        /\ Hand(p)'.todo = Hand(p).todo \ {b}
    BY <1>8, <2>1, PruneDoes DEF Onward
  <2>3. bindings' = [bindings EXCEPT ![b] = None] /\ bindings \in [Keys -> Binding \cup {None}]
    BY <1>8 DEF Prune, TypeInv, TypeOK, BindingMap
  <2>4. b \notin Outside(p)'
    BY <2>3 DEF Outside, HeldBy
  <2>5. Hand(p).hand.phase = "deleting" => Outside(p)' \subseteq Hand(p).todo
    BY <2>2, OutsideShrinks DEF Only, OutsideInv, Covered, InHand
  <2> QED
    BY <1>3, <2>2, <2>4, <2>5 DEF Covered
<1>9. ASSUME NEW k \in Kinds, PruneDone(k)
      PROVE  Goal'
  <2>1. PICK p : p = worker[k].at
    OBVIOUS
  <2>2. Only(k, p) /\ Hand(p).pc = "prune" /\ Hand(p).todo = {}
        /\ \/ Over(p)
           \/ /\ Hand(p)'.pc = "release" /\ Hand(p)'.hand = Hand(p).hand
              /\ Hand(p).hand.phase = "deleting"
    BY <1>9, <2>1, PruneDoneDoes DEF Onward
  <2>3. Hand(p).hand.phase = "deleting" => Outside(p)' = {}
    BY <2>2, OutsideShrinks DEF Only, OutsideInv, Covered, InHand
  <2> QED
    BY <1>3, <2>2, <2>3 DEF Covered
<1>10. ASSUME Restart
       PROVE  Goal'
  BY <1>10, RestartDoes
<1>11. ASSUME \/ Caches \/ UNCHANGED vars
              \/ \E o \in Objects : DeleteObject(o) \/ CollectGarbage(o) \/ Edit(o) \/ DeleteOwned(o)
       PROVE  Goal'
  <2>1. worker' = worker
    BY <1>11 DEF Caches, SyncBindings, SyncAccounts, SyncObject, vars, DeleteObject, CollectGarbage,
                 Edit, DeleteOwned
  <2> QED
    BY <1>2, <2>1 DEF InHand, Hand
<1>12. Goal'
  BY <1>4, <1>5, <1>6, <1>7, <1>8, <1>9, <1>10, <1>11 DEF Next, Work, Step, DeleteRBACExcept
<1> QED
  BY <1>1, <1>12 DEF OutsideInv

\* What a reachable state satisfies, whatever events there are.
RbacInv == TypeInv /\ PhaseInv /\ BindingInv /\ OutsideInv

\* Every reachable state satisfies it, whatever the events.
THEOREM Invariant == Spec => []RbacInv
<1>1. Init => RbacInv
  BY TypeInit, PhaseInit, BindingInit, OutsideInit DEF RbacInv
<1>2. RbacInv /\ [Next]_vars => RbacInv'
  BY TypeStep, PhaseStep, BindingStep, OutsideStep DEF RbacInv
<1> QED
  BY <1>1, <1>2, PTL DEF Spec

\* An object that is gone holds no grant outside its namespace.
THEOREM NothingLeaks == Spec => []NoLeakedGrant
<1>1. RbacInv => NoLeakedGrant
  BY DEF RbacInv, OutsideInv, Outside, NoLeakedGrant
<1> QED
  BY <1>1, Invariant, PTL

-----------------------------------------------------------------------------
(* No grant is left that is not asked for.                                 *)

Asked(o, spec) == DesiredBindings(o, spec, Permitted(o, spec))

\* A pass that works on an old spec will be followed by another, and what it has not
\* pruned yet is on its list.
PassExtra(o) ==
  /\ Hand(o).hand.spec # objectCache[o].spec => o \in queued
  /\ Hand(o).pc = "prune" /\ Hand(o).hand.phase = "held" =>
       Labelled(o) \subseteq Asked(o, Hand(o).hand.spec) \cup Hand(o).todo

\* When no pass is to come, the last one has left what the cached spec asks for.
RestExtra(o) == object[o].phase = "held" /\ o \notin queued =>
                  Labelled(o) \subseteq Asked(o, objectCache[o].spec)

ExtraFor(o) == IF InHand(o) THEN PassExtra(o) ELSE RestExtra(o)
ExtraInv == \A o \in Objects : ExtraFor(o)

\* Initially every object will be looked at.
LEMMA ExtraInit == Init => ExtraInv
<1> SUFFICES ASSUME Init, NEW o \in Objects PROVE ~InHand(o) /\ o \in queued
  BY DEF ExtraInv, ExtraFor, RestExtra
<1> QED
  BY NoneAssumption DEF Init, InHand, Hand, Idle, Kinds

\* Only a pass that binds adds to what an object holds.
LEMMA LabelledShrinks ==
  ASSUME TypeInv, PhaseInv, [Next]_vars, NEW o \in Objects,
         ~(InHand(o) /\ Hand(o).pc \in {"bind", "rebind"})
  PROVE  Labelled(o)' \subseteq Labelled(o)
<1> SUFFICES ASSUME NEW b \in Labelled(o)' PROVE b \in Labelled(o)
  OBVIOUS
<1>1. b \in Keys /\ bindings'[b] # None /\ bindings'[b].by = o /\ bindings'[b].role # "legacy"
  BY DEF Labelled
<1>2. ASSUME NEW p \in Objects, IsGranted(p, b) PROVE FALSE
  <2>1. bindings'[b].by = p
    BY <1>2 DEF IsGranted
  <2> QED
    BY <1>1, <1>2, <2>1 DEF IsGranted
<1>3. bindings'[b] = bindings[b]
  BY <1>1, <1>2, BindingsChange
<1> QED
  BY <1>1, <1>3 DEF Labelled

\* What an object asks for depends on what is allowed only.
LEMMA AskedSame ==
  ASSUME allowed' = allowed, NEW o, NEW spec
  PROVE  Asked(o, spec)' = Asked(o, spec) /\ (Refused(o, spec)' <=> Refused(o, spec))
  BY DEF Asked, DesiredBindings, Permitted, Refused, BuildNamespaceAllowed

\* What a step does to an object that it does not touch.
LEMMA ExtraFrame ==
  ASSUME TypeInv, PhaseInv, ExtraInv, [Next]_vars, NEW o \in Objects,
         object'[o].phase = "held" => object[o].phase = "held",
         objectCache'[o].spec = objectCache[o].spec, allowed' = allowed, o \in queued => o \in queued',
         InHand(o)' <=> InHand(o), InHand(o) => Hand(o)' = Hand(o)
  PROVE  ExtraFor(o)'
<1>1. CASE InHand(o)
  <2>1. PassExtra(o)
    BY <1>1 DEF ExtraInv, ExtraFor
  <2>2. Hand(o).pc = "prune" => Labelled(o)' \subseteq Labelled(o)
    BY LabelledShrinks
  <2>3. PassExtra(o)'
    BY <1>1, <2>1, <2>2, AskedSame DEF PassExtra
  <2> QED
    BY <1>1, <2>3 DEF ExtraFor
<1>2. CASE ~InHand(o)
  <2>1. RestExtra(o) /\ Labelled(o)' \subseteq Labelled(o)
    BY <1>2, LabelledShrinks DEF ExtraInv, ExtraFor
  <2>2. RestExtra(o)'
    BY <2>1, AskedSame DEF RestExtra
  <2> QED
    BY <1>2, <2>2 DEF ExtraFor
<1> QED
  BY <1>1, <1>2

\* Bindings no longer asked for stay in the sight of a pass, now or later.
LEMMA ExtraStep ==
  ASSUME TypeInv, PhaseInv, BindingInv, ExtraInv, [Next]_vars
  PROVE  ExtraInv'
<1> USE DEF PassUnchanged
<1>0. ASSUME NEW k \in Kinds, NEW p, Only(k, p), UNCHANGED <<objectCache, allowed>>,
             \A o \in Objects \ {p} : object'[o] = object[o], queued \subseteq queued', ExtraFor(p)'
      PROVE  ExtraInv'
  BY <1>0, ExtraFrame DEF Only, ExtraInv
<1>1. ASSUME NEW k \in Kinds, NEW o \in Objects, Begin(k, o)
      PROVE  ExtraInv'
  <2>1. UNCHANGED <<object, objectCache, allowed>> /\ queued' = queued \ {o}
    BY <1>1 DEF Begin
  <2>2. ASSUME NEW p \in Objects \ {o} PROVE ExtraFor(p)'
    BY <1>1, <2>1, BeginDoes, ExtraFrame
  <2>3. CASE objectCache[o].phase = "gone"
    <3>1. object'[o].phase # "held" /\ ~InHand(o)'
      BY <1>1, <2>1, <2>3, BeginDoes DEF PhaseInv, CopyFits, Over
    <3> QED
      BY <2>2, <3>1 DEF ExtraInv, ExtraFor, RestExtra
  <2>4. CASE objectCache[o].phase # "gone"
    <3>1. InHand(o)' /\ Hand(o)'.hand = objectCache[o] /\ Hand(o)'.pc # "prune"
      BY <1>1, <2>4, BeginDoes DEF TypeInv, TypeOK, Object
    <3> QED
      BY <2>1, <2>2, <3>1 DEF ExtraInv, ExtraFor, PassExtra
  <2> QED
    BY <2>3, <2>4
<1>2. ASSUME NEW k \in Kinds, Fail(k) \/ AddFinalizer(k) \/ Release(k)
      PROVE  ExtraInv'
  <2>1. PICK p : p = worker[k].at
    OBVIOUS
  <2>2. Only(k, p) /\ Over(p) /\ queued' = queued \cup {p}
    BY <1>2, <2>1, EndDoes
  <2>3. UNCHANGED <<objectCache, allowed>> /\ \A o \in Objects \ {p} : object'[o] = object[o]
    BY <1>2, <2>1 DEF Fail, AddFinalizer, Release, TypeInv, TypeOK
  <2>4. ExtraFor(p)'
    BY <2>2 DEF ExtraFor, RestExtra, Over
  <2> QED
    BY <1>0, <2>2, <2>3, <2>4
<1>3. ASSUME NEW k \in Kinds, Provision(k)
      PROVE  ExtraInv'
  <2>1. PICK p : p = worker[k].at
    OBVIOUS
  <2>2. Only(k, p) /\ Hand(p).pc \in Provisioning /\ UNCHANGED <<object, objectCache, allowed>>
    BY <1>3, <2>1, ProvisionDoes
  <2>3. CASE Over(p) /\ queued' = queued \cup {p}
    BY <1>0, <2>2, <2>3 DEF ExtraFor, RestExtra, Over
  <2>4. CASE \E pc \in Provisioning \cup {"list"} : Onward(p, pc) /\ queued' = queued
    <3>1. Hand(p)'.pc # "prune" /\ Hand(p)'.hand = Hand(p).hand /\ InHand(p)' /\ queued' = queued
      BY <2>4 DEF Onward, Provisioning, InHand
    <3>2. ExtraFor(p)'
      BY <2>2, <3>1 DEF ExtraInv, ExtraFor, PassExtra, Only, InHand
    <3> QED
      BY <1>0, <2>2, <3>1, <3>2
  <2> QED
    BY <1>3, <2>1, <2>3, <2>4, ProvisionDoes
<1>4. ASSUME NEW k \in Kinds, ListBindings(k)
      PROVE  ExtraInv'
  <2>1. PICK p : p = worker[k].at
    OBVIOUS
  <2>2. Only(k, p) /\ InHand(p) /\ InHand(p)' /\ Hand(p)'.hand = Hand(p).hand
        /\ Hand(p)'.todo = Labelled(p) \ Keep(p, Hand(p).hand)
    BY <1>4, <2>1, ListDoes DEF Onward, InHand, Only
  <2>3. UNCHANGED <<object, objectCache, allowed, bindings, queued>>
    BY <1>4 DEF ListBindings
  <2>4. Labelled(p)' = Labelled(p)
    BY <2>3 DEF Labelled
  <2>5. Hand(p).hand.phase = "held" => Keep(p, Hand(p).hand) = Asked(p, Hand(p).hand.spec)
    BY DEF Keep, Asked
  <2>6. PassExtra(p)'
    BY <2>2, <2>3, <2>4, <2>5, AskedSame DEF ExtraInv, ExtraFor, PassExtra, Only
  <2> QED
    BY <1>0, <2>2, <2>3, <2>6 DEF ExtraFor
<1>5. ASSUME NEW k \in Kinds, NEW b \in Keys, Prune(k, b)
      PROVE  ExtraInv'
  <2>1. PICK p : p = worker[k].at
    OBVIOUS
  <2>2. Only(k, p) /\ InHand(p) /\ InHand(p)' /\ Hand(p)'.hand = Hand(p).hand /\ Hand(p).pc = "prune"
        /\ Hand(p)'.todo = Hand(p).todo \ {b}
    BY <1>5, <2>1, PruneDoes DEF Onward, InHand, Only
  <2>3. UNCHANGED <<object, objectCache, allowed, queued>> /\ bindings' = [bindings EXCEPT ![b] = None]
    BY <1>5 DEF Prune
  <2>4. Labelled(p)' \subseteq Labelled(p) \ {b}
    BY <2>3 DEF Labelled, TypeInv, TypeOK, BindingMap
  <2>5. PassExtra(p)'
    BY <2>2, <2>3, <2>4, AskedSame DEF ExtraInv, ExtraFor, PassExtra, Only
  <2> QED
    BY <1>0, <2>2, <2>3, <2>5 DEF ExtraFor
<1>6. ASSUME NEW k \in Kinds, PruneDone(k)
      PROVE  ExtraInv'
  <2>1. PICK p : p = worker[k].at
    OBVIOUS
  <2>2. Only(k, p) /\ InHand(p) /\ Hand(p).pc = "prune" /\ Hand(p).todo = {}
    BY <1>6, <2>1, PruneDoneDoes DEF InHand, Only
  <2>3. UNCHANGED <<object, objectCache, allowed, bindings, queued>>
    BY <1>6 DEF PruneDone
  <2>4. CASE Hand(p).hand.phase = "deleting"
    <3>1. Onward(p, "release")
      BY <1>6, <2>1, <2>4, PruneDoneDoes
    <3>2. ExtraFor(p)'
      BY <2>2, <2>3, <3>1 DEF ExtraInv, ExtraFor, PassExtra, Onward, InHand, Only
    <3> QED
      BY <1>0, <2>2, <2>3, <3>2
  <2>5. CASE Hand(p).hand.phase # "deleting"
    <3>1. Over(p)
      BY <1>6, <2>1, <2>5, PruneDoneDoes
    <3>2. Labelled(p) \subseteq Asked(p, Hand(p).hand.spec) /\ PassExtra(p) /\ Labelled(p)' = Labelled(p)
      BY <2>2, <2>3, <2>5 DEF ExtraInv, ExtraFor, PassExtra, PhaseInv, PassFits, Pruning, Only, Labelled
    <3>3. ExtraFor(p)'
      BY <2>2, <2>3, <3>1, <3>2, AskedSame DEF ExtraFor, RestExtra, PassExtra, Over
    <3> QED
      BY <1>0, <2>2, <2>3, <3>3
  <2> QED
    BY <2>4, <2>5
<1>7. ASSUME NEW o \in Objects, SyncObject(o)
      PROVE  ExtraInv'
  <2>1. UNCHANGED <<object, worker, allowed, bindings>> /\ objectCache' = [objectCache EXCEPT ![o] = object[o]]
        /\ queued' = IF object[o].spec # objectCache[o].spec \/ object[o].phase = "deleting"
                       THEN queued \cup {o} ELSE queued
    BY <1>7 DEF SyncObject
  <2>2. objectCache'[o] = object[o] /\ \A p \in Objects \ {o} : objectCache'[p] = objectCache[p]
    BY <2>1 DEF TypeInv, TypeOK
  <2>3. ASSUME NEW p \in Objects PROVE (InHand(p)' <=> InHand(p)) /\ Hand(p)' = Hand(p)
    BY <2>1 DEF InHand, Hand
  <2>4. ASSUME NEW p \in Objects, objectCache'[p].spec = objectCache[p].spec PROVE ExtraFor(p)'
    BY <2>1, <2>3, <2>4, ExtraFrame
  <2>5. ASSUME objectCache'[o].spec # objectCache[o].spec PROVE ExtraFor(o)'
    <3>1. o \in queued' /\ Labelled(o)' = Labelled(o)
      BY <2>1, <2>2, <2>5 DEF Labelled
    <3> QED
      BY <2>1, <2>3, <3>1, AskedSame DEF ExtraInv, ExtraFor, PassExtra, RestExtra
  <2> QED
    BY <2>2, <2>4, <2>5 DEF ExtraInv
<1>8. ASSUME NEW o \in Objects, DeleteObject(o) \/ Edit(o)
      PROVE  ExtraInv'
  <2>1. UNCHANGED <<objectCache, worker, allowed, queued>>
        /\ \A p \in Objects : object'[p].phase = "held" => object[p].phase = "held"
    BY <1>8 DEF DeleteObject, Edit, TypeInv, TypeOK, Object
  <2> QED
    BY <2>1, ExtraFrame DEF ExtraInv, InHand, Hand
<1>9. ASSUME \/ SyncBindings \/ SyncAccounts \/ UNCHANGED vars
             \/ \E o \in Objects : CollectGarbage(o) \/ DeleteOwned(o)
      PROVE  ExtraInv'
  <2>1. UNCHANGED <<object, objectCache, worker, allowed>> /\ queued \subseteq queued'
    BY <1>9 DEF SyncBindings, SyncAccounts, CollectGarbage, DeleteOwned, vars
  <2> QED
    BY <2>1, ExtraFrame DEF ExtraInv, InHand, Hand
<1>10. CASE Restart
  <2>1. \A o \in Objects : object'[o].phase = "held" => o \in queued'
    BY <1>10 DEF Restart
  <2> QED
    BY <1>10, <2>1, RestartDoes DEF ExtraInv, ExtraFor, RestExtra
<1> QED
  BY <1>1, <1>2, <1>3, <1>4, <1>5, <1>6, <1>7, <1>8, <1>9, <1>10
  DEF Next, Work, Step, Caches, DeleteRBACExcept

\* When all is quiet no object holds a grant that it does not ask for or may not have.
THEOREM NothingExtra == Spec => []NoExtraGrant
<1>1. Init => RbacInv /\ ExtraInv
  BY TypeInit, PhaseInit, BindingInit, OutsideInit, ExtraInit DEF RbacInv
<1>2. RbacInv /\ ExtraInv /\ [Next]_vars => (RbacInv /\ ExtraInv)'
  BY TypeStep, PhaseStep, BindingStep, OutsideStep, ExtraStep DEF RbacInv
<1>3. RbacInv /\ ExtraInv => NoExtraGrant
  <2> SUFFICES ASSUME ExtraInv, Quiet, NEW o \in Objects, object[o].phase = "held"
               PROVE  Labelled(o) \subseteq Wanted(o)
    BY DEF NoExtraGrant
  <2>1. ~InHand(o) /\ o \notin queued /\ object[o] = objectCache[o]
    BY NoneAssumption DEF Quiet, InHand, Hand, Idle, Kinds
  <2> QED
    BY <2>1 DEF ExtraInv, ExtraFor, RestExtra, Asked, Wanted
<1> QED
  BY <1>1, <1>2, <1>3, PTL DEF Spec

-----------------------------------------------------------------------------
(* No grant is made that is not asked for.                                 *)

\* A pass that provisions works on a spec that is not refused, and binds what that asks for.
PassAsks(o) ==
  LET spec == Hand(o).hand.spec
      desired == DesiredBindings(o, spec, spec.targets)
  IN  /\ Hand(o).pc \in Provisioning => ~Refused(o, spec)
      /\ Hand(o).pc \in {"bind", "rebind"} => Hand(o).todo \subseteq desired
      /\ Hand(o).pc = "rebind" => Hand(o).key \in desired

AskInv == \A o \in Objects : InHand(o) => PassAsks(o)

\* A step of a pass that goes on provisioning is on the spec the pass began with.
LEMMA StillAsks ==
  ASSUME AskInv, NEW k \in Kinds, NEW p, Only(k, p), allowed' = allowed,
         \/ Over(p)
         \/ \E pc \in Pruning : Onward(p, pc)
         \/ /\ Hand(p).pc \in Provisioning
            /\ \E pc \in Provisioning : Onward(p, pc)
            /\ Hand(p)'.pc \in {"bind", "rebind"} =>
                 Hand(p)'.todo \subseteq
                   DesiredBindings(p, Hand(p).hand.spec, Hand(p).hand.spec.targets)
            /\ Hand(p)'.pc = "rebind" =>
                 Hand(p)'.key \in DesiredBindings(p, Hand(p).hand.spec, Hand(p).hand.spec.targets)
  PROVE  AskInv'
<1>1. ASSUME NEW o \in Objects \ {p}, InHand(o)' PROVE PassAsks(o)'
  <2>1. InHand(o) /\ Hand(o)' = Hand(o) /\ PassAsks(o)
    BY <1>1 DEF Only, AskInv
  <2>2. Refused(o, Hand(o).hand.spec)' <=> Refused(o, Hand(o).hand.spec)
    BY <2>1 DEF Refused, BuildNamespaceAllowed
  <2> QED
    BY <2>1, <2>2 DEF PassAsks
<1>2. ASSUME NEW pc \in Pruning, Onward(p, pc) PROVE PassAsks(p)'
  BY <1>2 DEF Onward, PassAsks, Pruning, Provisioning
<1>3. ASSUME Hand(p).pc \in Provisioning, NEW pc \in Provisioning, Onward(p, pc),
             pc \in {"bind", "rebind"} =>
               Hand(p)'.todo \subseteq DesiredBindings(p, Hand(p).hand.spec, Hand(p).hand.spec.targets),
             pc = "rebind" =>
               Hand(p)'.key \in DesiredBindings(p, Hand(p).hand.spec, Hand(p).hand.spec.targets)
      PROVE  PassAsks(p)'
  <2>1. ~Refused(p, Hand(p).hand.spec)
    BY <1>3 DEF Only, AskInv, InHand, PassAsks
  <2>2. Hand(p)'.hand = Hand(p).hand /\ Hand(p)'.pc = pc
    BY <1>3 DEF Onward
  <2>3. ~Refused(p, Hand(p).hand.spec)'
    BY <2>1, <2>2 DEF Refused, BuildNamespaceAllowed
  <2> QED
    BY <1>3, <2>2, <2>3 DEF PassAsks
<1>4. Over(p) \/ PassAsks(p)'
  BY <1>2, <1>3 DEF Onward
<1> QED
  BY <1>1, <1>4 DEF AskInv, Only, Over

\* No step leaves a pass with bindings to make that its spec does not ask for.
LEMMA AskStep ==
  ASSUME TypeInv, AskInv, [Next]_vars
  PROVE  AskInv'
<1> USE DEF PassUnchanged
<1>1. ASSUME NEW k \in Kinds, NEW o \in Objects, Begin(k, o)
      PROVE  AskInv'
  <2>1. allowed' = allowed
    BY <1>1 DEF Begin
  <2>2. ASSUME NEW p \in Objects \ {o}, InHand(p)' PROVE PassAsks(p)'
    <3>1. InHand(p) /\ Hand(p)' = Hand(p) /\ PassAsks(p)
      BY <1>1, <2>2, BeginDoes DEF AskInv
    <3> QED
      BY <2>1, <3>1 DEF PassAsks, Refused, BuildNamespaceAllowed
  <2>3. ASSUME InHand(o)' PROVE PassAsks(o)'
    <3>1. PICK copy : copy = objectCache[o]
      OBVIOUS
    <3>2. Hand(o)'.hand = copy /\ copy.phase \in {"new", "held", "deleting"}
      BY <1>1, <2>3, <3>1, BeginDoes DEF Over, TypeInv, TypeOK, Object
    <3>3. /\ Hand(o)'.pc \in {"finalizer", "list", "pdbRole"}
          /\ Hand(o)'.pc = "pdbRole" => ~Refused(o, copy.spec)
      BY <1>1, <3>1, <3>2, BeginDoes
    <3> QED
      BY <2>1, <3>2, <3>3 DEF PassAsks, Refused, BuildNamespaceAllowed, Provisioning
  <2> QED
    BY <2>2, <2>3 DEF AskInv
<1>2. ASSUME NEW k \in Kinds, Fail(k) \/ AddFinalizer(k) \/ Release(k)
      PROVE  AskInv'
  <2>1. allowed' = allowed
    BY <1>2, PassesAreNoticed DEF Step
  <2> QED
    BY <1>2, <2>1, EndDoes, StillAsks
<1>3. ASSUME NEW k \in Kinds, NEW pc \in Provisioning, NEW role \in Grants, NEW write, NEW next,
             ReadRole(k, pc, role, write, next),
             write \in {"never", "writePdb", "writeBase"}, next \in {"baseExists", "account", "list"}
      PROVE  AskInv'
  <2>1. pc # "idle" /\ allowed' = allowed
    BY <1>3 DEF ReadRole, Provisioning
  <2>2. PICK p : p = worker[k].at
    OBVIOUS
  <2>3. Only(k, p) /\ Hand(p).pc \in Provisioning
    BY <1>3, <2>1, <2>2, ReadRoleDoes
  <2>4. \E to \in {"writePdb", "writeBase", "baseExists", "account", "list"} : Onward(p, to)
    BY <1>3, <2>1, <2>2, ReadRoleDoes
  <2> QED
    BY <2>1, <2>3, <2>4, StillAsks DEF Onward, Provisioning, Pruning
<1>4. ASSUME NEW k \in Kinds, NEW pc \in Provisioning, NEW role \in Grants, NEW next,
             WriteRole(k, pc, role, next), next \in {"baseExists", "list"}
      PROVE  AskInv'
  <2>1. pc # "idle" /\ allowed' = allowed
    BY <1>4 DEF WriteRole, Provisioning
  <2>2. PICK p : p = worker[k].at
    OBVIOUS
  <2>3. Only(k, p) /\ Hand(p).pc \in Provisioning /\ Onward(p, next)
    BY <1>4, <2>1, <2>2, WriteRoleDoes
  <2> QED
    BY <1>4, <2>1, <2>3, StillAsks DEF Onward, Provisioning, Pruning
<1>5. ASSUME NEW k \in Kinds, CreateSaIfMissing(k)
      PROVE  AskInv'
  <2>1. allowed' = allowed
    BY <1>5 DEF CreateSaIfMissing
  <2>2. PICK p : p = worker[k].at
    OBVIOUS
  <2>3. Only(k, p) /\ Hand(p).pc = "account"
    BY <1>5, <2>2, CreateSaDoes
  <2>4. \/ Over(p)
        \/ /\ Onward(p, "bind")
           /\ Hand(p)'.todo = DesiredBindings(p, Hand(p).hand.spec, Hand(p).hand.spec.targets)
    BY <1>5, <2>2, CreateSaDoes
  <2> QED
    BY <2>1, <2>3, <2>4, StillAsks DEF Onward, Provisioning
<1>6. ASSUME NEW k \in Kinds, NEW b \in Keys, ReconcileRoleBinding(k, b)
      PROVE  AskInv'
  <2>1. allowed' = allowed
    BY <1>6 DEF ReconcileRoleBinding
  <2>2. PICK p : p = worker[k].at
    OBVIOUS
  <2>3. Only(k, p) /\ Hand(p).pc = "bind" /\ b \in Hand(p).todo
    BY <1>6, <2>2, ReconcileDoes
  <2>4. /\ Hand(p)'.todo \subseteq Hand(p).todo
        /\ Onward(p, "bind") \/ (Onward(p, "rebind") /\ Hand(p)'.key = b)
    BY <1>6, <2>2, ReconcileDoes
  <2>5. Hand(p).todo \subseteq DesiredBindings(p, Hand(p).hand.spec, Hand(p).hand.spec.targets)
    BY <2>3 DEF Only, AskInv, InHand, PassAsks
  <2> QED
    BY <2>1, <2>3, <2>4, <2>5, StillAsks DEF Onward, Provisioning
<1>7. ASSUME NEW k \in Kinds, Rebind(k)
      PROVE  AskInv'
  <2>1. allowed' = allowed
    BY <1>7 DEF Rebind
  <2>2. PICK p : p = worker[k].at
    OBVIOUS
  <2>3. /\ Only(k, p) /\ Hand(p).pc = "rebind" /\ Onward(p, "bind")
        /\ Hand(p)'.todo \subseteq Hand(p).todo
    BY <1>7, <2>2, RebindDoes
  <2>4. Hand(p).todo \subseteq DesiredBindings(p, Hand(p).hand.spec, Hand(p).hand.spec.targets)
    BY <2>3 DEF Only, AskInv, InHand, PassAsks
  <2> QED
    BY <2>1, <2>3, <2>4, StillAsks DEF Onward, Provisioning
<1>8. ASSUME NEW k \in Kinds, BindingsDone(k)
      PROVE  AskInv'
  <2>1. allowed' = allowed
    BY <1>8 DEF BindingsDone
  <2> QED
    BY <1>8, <2>1, BindingsDoneDoes, StillAsks DEF Onward, Provisioning
<1>9. ASSUME NEW k \in Kinds, DeleteRBACExcept(k)
      PROVE  AskInv'
  <2>1. allowed' = allowed
    BY <1>9, PassesAreNoticed DEF Step
  <2>2. PICK p : p = worker[k].at
    OBVIOUS
  <2>3. Only(k, p) /\ (Over(p) \/ \E pc \in {"prune", "release"} : Onward(p, pc))
    BY <1>9, <2>2, ListDoes, PruneDoes, PruneDoneDoes DEF DeleteRBACExcept
  <2> QED
    BY <2>1, <2>3, StillAsks DEF Pruning
<1>10. CASE Restart
  BY <1>10, RestartDoes DEF AskInv
<1>11. CASE \/ Caches \/ UNCHANGED vars
            \/ \E o \in Objects : DeleteObject(o) \/ CollectGarbage(o) \/ Edit(o) \/ DeleteOwned(o)
  <2>1. UNCHANGED <<worker, allowed>>
    BY <1>11 DEF Caches, SyncBindings, SyncAccounts, SyncObject, vars, DeleteObject, CollectGarbage,
                 Edit, DeleteOwned
  <2> QED
    BY <2>1 DEF AskInv, PassAsks, InHand, Hand, Refused, BuildNamespaceAllowed
<1>12. ASSUME NEW k \in Kinds, Provision(k)
       PROVE  AskInv'
  BY <1>3, <1>4, <1>5, <1>6, <1>7, <1>8, <1>12
  DEF Provision, EnsureOptionalClusterRoles, EnsureClusterRoleExists, EnsureBaseClusterRole, Grants,
      Provisioning
<1> QED
  BY <1>1, <1>2, <1>9, <1>10, <1>11, <1>12 DEF Next, Work, Step

\* Whatever happens, a grant is made to an object that exists, and for a spec that the
\* operator's allow-list permits.
THEOREM GrantedAsAsked == Spec => GrantsAsAsked
<1> DEFINE IInv == RbacInv /\ AskInv
           AsAsked == \A b \in Keys : bindings'[b] \notin {bindings[b], None} =>
             \E k \in Kinds :
               LET o == worker[k].at
                   spec == worker[k].hand.spec
               IN  /\ bindings'[b].by = o /\ object[o].phase \in {"held", "deleting"}
                   /\ \A ns \in spec.targets : BuildNamespaceAllowed(o, ns)
                   /\ b \in DesiredBindings(o, spec, spec.targets)
<1>1. Init => IInv
  <2>1. Init => AskInv
    BY NoneAssumption DEF Init, AskInv, InHand, Hand, Idle, Kinds
  <2> QED
    BY <2>1, TypeInit, PhaseInit, BindingInit, OutsideInit DEF RbacInv
<1>2. IInv /\ [Next]_vars => IInv'
  BY TypeStep, PhaseStep, BindingStep, OutsideStep, AskStep DEF RbacInv
<1>3. IInv /\ [Next]_vars => [AsAsked]_vars
  <2> SUFFICES ASSUME IInv, [Next]_vars, NEW b \in Keys, bindings'[b] \notin {bindings[b], None},
                      NEW p \in Objects, IsGranted(p, b)
               PROVE  \E k \in Kinds :
                        LET o == worker[k].at
                            spec == worker[k].hand.spec
                        IN  /\ bindings'[b].by = o /\ object[o].phase \in {"held", "deleting"}
                            /\ \A ns \in spec.targets : BuildNamespaceAllowed(o, ns)
                            /\ b \in DesiredBindings(o, spec, spec.targets)
    BY BindingsChange DEF RbacInv
  <2>1. InHand(p) /\ Hand(p).hand.phase = "held" /\ bindings'[b].by = p
    BY DEF IsGranted
  <2>2. object[p].phase \in {"held", "deleting"}
    BY <2>1 DEF RbacInv, PhaseInv, PassFits
  <2>3. /\ ~Refused(p, Hand(p).hand.spec)
        /\ b \in DesiredBindings(p, Hand(p).hand.spec, Hand(p).hand.spec.targets)
    BY <2>1 DEF AskInv, PassAsks, IsGranted, Provisioning
  <2>4. Kind[p] \in Kinds /\ worker[Kind[p]] = Hand(p) /\ worker[Kind[p]].at = p
    BY <2>1 DEF InHand, Hand, Kinds
  <2> QED
    BY <2>1, <2>2, <2>3, <2>4 DEF Refused
<1> HIDE DEF IInv
<1> QED
  BY <1>1, <1>2, <1>3, PTL DEF Spec, GrantsAsAsked

-----------------------------------------------------------------------------
(* Every grant at home exists.                                             *)

\* No two objects have bindings of one name.  (Runners of one name in two namespaces
\* that build in a common one would: the second takes the first's for its own.)
NamesDiffer == \A o, p \in Objects : Name[o] = Name[p] => o = p

\* What the caches do not show at home will bring the owner back.
CacheFits(o) ==
  /\ \A b \in Keys : b[1] = Home[o] /\ b[2] = Name[o] /\ bindingCache[b] # bindings[b] =>
       o \in unseen.bindings
  /\ o \in accountCache /\ o \notin accounts => o \in unseen.accounts

CacheInv == \A o \in Objects : CacheFits(o)

\* The caches fit the cluster initially.
LEMMA CacheInit == Init => CacheInv
  BY DEF Init, CacheInv, CacheFits

\* What the informers will deliver: what changed at home, and what they had to deliver.
LEMMA Noticed ==
  ASSUME TypeInv, Notices, NEW o \in Objects
  PROVE  /\ o \in unseen.bindings => o \in unseen'.bindings
         /\ o \in unseen.accounts => o \in unseen'.accounts
         /\ \A b \in Keys : bindings'[b] # bindings[b] /\ o \in OwnsAt(bindings, b) \cup OwnsAt(bindings', b) =>
              o \in unseen'.bindings
         /\ (o \in accounts <=> o \in accounts') \/ o \in unseen'.accounts
  BY DEF Notices

\* A step that changes bindings or accounts is noticed.
LEMMA StepsAreNoticed ==
  ASSUME [Next]_vars
  PROVE  \/ Notices /\ UNCHANGED <<bindingCache, accountCache>>
         \/ UNCHANGED <<clusterVars, bindingCache, accountCache, unseen>>
         \/ SyncBindings \/ SyncAccounts \/ Restart
<1> DEFINE Seen == Notices /\ UNCHANGED <<bindingCache, accountCache>>
           Idles == UNCHANGED <<clusterVars, bindingCache, accountCache, unseen>>
<1>1. ASSUME NEW k \in Kinds, Step(k) \/ Fail(k) \/ \E o \in Objects : Begin(k, o) PROVE Seen
  BY <1>1, PassesAreNoticed DEF PassUnchanged, cacheVars
<1>2. ASSUME NEW o \in Objects,
             SyncObject(o) \/ DeleteObject(o) \/ CollectGarbage(o) \/ Edit(o) \/ DeleteOwned(o)
      PROVE  Seen \/ Idles
  BY <1>2 DEF SyncObject, DeleteObject, Edit, CollectGarbage, DeleteOwned
<1>3. UNCHANGED vars => Idles
  BY DEF vars
<1> QED
  BY <1>1, <1>2, <1>3 DEF Next, Work, Caches

\* A cache that is behind still has a notice to deliver.
LEMMA CacheStep ==
  ASSUME NamesDiffer, TypeInv, PhaseInv, BindingInv, CacheInv, [Next]_vars
  PROVE  CacheInv'
<1> SUFFICES ASSUME NEW o \in Objects PROVE CacheFits(o)'
  BY DEF CacheInv
<1>1. CASE Notices /\ UNCHANGED <<bindingCache, accountCache>>
  <2>1. ASSUME NEW b \in Keys, b[1] = Home[o], b[2] = Name[o], bindings'[b] # bindings[b]
        PROVE  o \in unseen'.bindings
    <3>1. Proper(b, bindings[b]) /\ Proper(b, bindings'[b])
      BY BindingStep DEF BindingInv
    <3>2. bindings[b] \in Binding \cup {None} /\ bindings'[b] \in Binding \cup {None}
      BY TypeStep DEF TypeInv, TypeOK, BindingMap
    <3>3. o \in OwnsAt(bindings, b) \cup OwnsAt(bindings', b)
      BY <2>1, <3>1, <3>2 DEF OwnsAt, Proper, NamesDiffer, Binding
    <3> QED
      BY <1>1, <2>1, <3>3, Noticed
  <2> QED
    BY <1>1, <2>1, Noticed DEF CacheInv, CacheFits
<1>2. CASE UNCHANGED <<clusterVars, bindingCache, accountCache, unseen>>
  BY <1>2 DEF CacheInv, CacheFits
<1>3. CASE SyncBindings
  BY <1>3 DEF SyncBindings, CacheInv, CacheFits, TypeInv, TypeOK
<1>4. CASE SyncAccounts
  BY <1>4 DEF SyncAccounts, CacheInv, CacheFits, TypeInv, TypeOK
<1>5. CASE Restart
  BY <1>5 DEF Restart, CacheFits
<1> QED
  BY <1>1, <1>2, <1>3, <1>4, <1>5, StepsAreNoticed

\* What a pass has provided, unless another pass is to come.
Served(o) == o \in accounts \cup unseen.accounts \cup queued
Bound(o, b) == b \in Labelled(o) \/ o \in unseen.bindings \cup queued
AllBound(o, spec) == \A b \in Asked(o, spec) : b[1] = Home[o] => Bound(o, b)

RolesExact == roles["base"] = "exact" /\ roles["pdb"] = "exact"

\* An account that is there, or will be, remains so.
LEMMA ServedStays ==
  ASSUME TypeInv, [Next]_vars, ~Restart, NEW o \in Objects, o \in queued => o \in queued', Served(o)
  PROVE  Served(o)'
<1>1. CASE Notices
  BY <1>1, Noticed DEF Served
<1>2. CASE SyncBindings \/ SyncAccounts
  BY <1>2 DEF SyncBindings, SyncAccounts, Served, TypeInv, TypeOK
<1>3. CASE UNCHANGED <<clusterVars, unseen>>
  BY <1>3 DEF Served
<1> QED
  BY <1>1, <1>2, <1>3, StepsAreNoticed

\* So does a binding in the namespace of its object.
LEMMA BoundStays ==
  ASSUME TypeInv, [Next]_vars, ~Restart, NEW o \in Objects, o \in queued => o \in queued',
         NEW b \in Keys, b[1] = Home[o], Bound(o, b)
  PROVE  Bound(o, b)'
<1>1. CASE Notices
  <2>1. CASE b \in Labelled(o)
    <3>1. bindings[b] # None /\ bindings[b].by = o
      BY <2>1 DEF Labelled
    <3>2. o \in OwnsAt(bindings, b)
      BY <3>1 DEF OwnsAt
    <3>3. bindings'[b] = bindings[b] \/ o \in unseen'.bindings
      BY <1>1, <3>2, Noticed
    <3> QED
      BY <2>1, <3>3 DEF Labelled, Bound
  <2>2. CASE o \in unseen.bindings \cup queued
    BY <1>1, <2>2, Noticed DEF Bound
  <2> QED
    BY <2>1, <2>2 DEF Bound
<1>2. CASE SyncBindings \/ SyncAccounts
  BY <1>2 DEF SyncBindings, SyncAccounts, Bound, Labelled, TypeInv, TypeOK
<1>3. CASE UNCHANGED <<clusterVars, unseen>>
  BY <1>3 DEF Bound, Labelled
<1> QED
  BY <1>1, <1>2, <1>3, StepsAreNoticed

\* What a pass that grants has done, by how far it is.
PassComplete(o) ==
  LET pc == Hand(o).pc
      spec == Hand(o).hand.spec
  IN  /\ pc \in Provisioning => ~Refused(o, spec)
      /\ pc = "writePdb" => roles["pdb"] # "absent" /\ Hand(o).seen = "wide"
      /\ pc \in Provisioning \ {"pdbRole", "writePdb"} => roles["pdb"] = "exact"
      /\ pc = "writeBase" => roles["base"] # "absent" /\ Hand(o).seen = "wide"
      /\ pc \in {"bind", "rebind", "baseRole", "writeBase"} => Served(o)
      /\ pc \in {"bind", "rebind"} =>
           \A b \in Asked(o, spec) \ Hand(o).todo : b[1] = Home[o] => Bound(o, b)
      /\ pc = "rebind" => Hand(o).key \in Hand(o).todo /\ bindings[Hand(o).key] = None
      /\ pc \in {"baseRole", "writeBase"} => AllBound(o, spec)
      /\ pc \in Pruning /\ ~Refused(o, spec) => RolesExact /\ Served(o) /\ AllBound(o, spec)

\* What the last pass has left, when no pass is to come.
RestComplete(o) ==
  object[o].phase = "held" /\ o \notin queued /\ ~Refused(o, objectCache[o].spec) =>
    RolesExact /\ Served(o) /\ AllBound(o, objectCache[o].spec)

CompleteFor(o) ==
  IF InHand(o) THEN Hand(o).hand.phase = "held" => PassComplete(o) ELSE RestComplete(o)

CompleteInv == \A o \in Objects : CompleteFor(o)

\* Initially every object will be looked at.
LEMMA CompleteInit == Init => CompleteInv
<1> SUFFICES ASSUME Init, NEW o \in Objects PROVE ~InHand(o) /\ o \in queued
  BY DEF CompleteInv, CompleteFor, RestComplete
<1> QED
  BY NoneAssumption DEF Init, InHand, Hand, Idle, Kinds

\* A role that is there stays, and is not widened.
LEMMA RolesStay ==
  ASSUME TypeInv, [Next]_vars, NEW g \in Grants
  PROVE  /\ roles[g] # "absent" => roles'[g] # "absent"
         /\ roles[g] = "exact" => roles'[g] = "exact"
<1>1. \/ UNCHANGED roles
      \/ \E k \in Kinds : EnsureOptionalClusterRoles(k) \/ EnsureClusterRoleExists(k) \/ EnsureBaseClusterRole(k)
  BY DEF Next, Work, Step, Provision, DeleteRBACExcept, Caches, Begin, Fail, AddFinalizer, Release,
         CreateSaIfMissing, ReconcileRoleBinding, Rebind, BindingsDone, ListBindings, Prune, PruneDone,
         SyncBindings, SyncAccounts, SyncObject, vars, DeleteObject, Edit, CollectGarbage, DeleteOwned,
         Restart
<1>2. \/ UNCHANGED roles
      \/ \E role \in Grants : roles' = [roles EXCEPT ![role] = "exact"]
  BY <1>1 DEF EnsureOptionalClusterRoles, EnsureClusterRoleExists, EnsureBaseClusterRole, ReadRole,
              WriteRole, Grants
<1> QED
  BY <1>2 DEF TypeInv, TypeOK

\* The bindings that a spec asks for are of the model.
LEMMA AskedType ==
  ASSUME TypeInv, NEW o \in Objects, NEW spec \in Requests
  PROVE  /\ Asked(o, spec) \subseteq Keys
         /\ Asked(o, spec) \subseteq DesiredBindings(o, spec, spec.targets)
         /\ \A b \in Asked(o, spec) : b[2] = Name[o] /\ b[3] \in Grants
  BY Desired DEF Asked, Permitted, DesiredBindings, Grants

\* All of them remain.
LEMMA AllBoundStays ==
  ASSUME TypeInv, [Next]_vars, ~Restart, allowed' = allowed,
         NEW o \in Objects, o \in queued => o \in queued', NEW spec \in Requests, NEW todo
  PROVE  /\ AllBound(o, spec) => AllBound(o, spec)'
         /\ (\A b \in Asked(o, spec) \ todo : b[1] = Home[o] => Bound(o, b)) =>
              (\A b \in Asked(o, spec)' \ todo : b[1] = Home[o] => Bound(o, b)')
<1>1. Asked(o, spec)' = Asked(o, spec) /\ Asked(o, spec) \subseteq Keys
  BY AskedSame, AskedType
<1>2. \A b \in Keys : b[1] = Home[o] /\ Bound(o, b) => Bound(o, b)'
  BY BoundStays
<1> QED
  BY <1>1, <1>2 DEF AllBound

\* What has been established stays so until the next pass.
LEMMA CompleteFrame ==
  ASSUME NamesDiffer, TypeInv, PhaseInv, BindingInv, CompleteInv, [Next]_vars, ~Restart, NEW o \in Objects,
         object'[o].phase = "held" => object[o].phase = "held",
         InHand(o) \/ objectCache'[o].spec = objectCache[o].spec,
         allowed' = allowed, o \in queued => o \in queued',
         InHand(o)' <=> InHand(o), InHand(o) => Hand(o)' = Hand(o)
  PROVE  CompleteFor(o)'
<1>0. RolesExact => RolesExact'
  BY RolesStay DEF RolesExact, Grants
<1>1. CASE InHand(o) /\ Hand(o).hand.phase = "held"
  <2>1. /\ Hand(o)' = Hand(o) /\ PassComplete(o) /\ Hand(o).hand.spec \in Requests
        /\ Hand(o).pc = "rebind" => Hand(o).key \in Keys
    BY <1>1, NoneAssumption DEF CompleteInv, CompleteFor, InHand, Hand, TypeInv, PassInv, Pass, Object,
                                Kinds, Idle
  <2>2. PICK spec, todo : spec \in Requests /\ spec = Hand(o).hand.spec /\ todo = Hand(o).todo
    BY <2>1
  <2>3. /\ AllBound(o, spec) => AllBound(o, spec)'
        /\ (\A b \in Asked(o, spec) \ todo : b[1] = Home[o] => Bound(o, b)) =>
             (\A b \in Asked(o, spec)' \ todo : b[1] = Home[o] => Bound(o, b)')
    BY <2>2, AllBoundStays
  <2>4. Served(o) => Served(o)'
    BY ServedStays
  <2>5. Refused(o, spec)' <=> Refused(o, spec)
    BY AskedSame
  <2>6. ASSUME Hand(o).pc = "rebind" PROVE bindings'[Hand(o).key] = None
    <3>1. PICK key \in Keys : key = Hand(o).key
      BY <2>1, <2>6
    <3>2. bindings[key] = None /\ key[2] = Name[o]
      BY <1>1, <2>1, <2>6, <3>1 DEF PassComplete, BindingInv, TodoProper
    <3>3. ASSUME NEW q \in Objects, IsGranted(q, key) PROVE FALSE
      <4>1. key[2] = Name[q]
        BY <3>3 DEF IsGranted, BindingInv, TodoProper
      <4> QED
        BY <2>1, <3>2, <3>3, <4>1 DEF NamesDiffer, IsGranted
    <3> QED
      BY <3>1, <3>2, <3>3, BindingsChange
  <2>7. PassComplete(o)'
    BY <1>0, <2>1, <2>2, <2>3, <2>4, <2>5, <2>6, RolesStay DEF PassComplete, Grants
  <2> QED
    BY <1>1, <2>7 DEF CompleteFor
<1>2. CASE InHand(o) /\ Hand(o).hand.phase # "held"
  BY <1>2 DEF CompleteFor
<1>3. CASE ~InHand(o)
  <2>1. RestComplete(o) /\ objectCache[o].spec \in Requests
    BY <1>3 DEF CompleteInv, CompleteFor, TypeInv, TypeOK, Object
  <2> PICK spec \in Requests : spec = objectCache[o].spec
    BY <2>1
  <2>2. AllBound(o, spec) => AllBound(o, spec)'
    BY <2>1, AllBoundStays
  <2>3. RestComplete(o)'
    BY <1>0, <1>3, <2>1, <2>2, ServedStays, AskedSame DEF RestComplete
  <2> QED
    BY <1>3, <2>3 DEF CompleteFor
<1> QED
  BY <1>1, <1>2, <1>3

\* What a pass has to go on from, and what a step keeps of it.
LEMMA PassGoesOn ==
  ASSUME NamesDiffer, TypeInv, PhaseInv, CompleteInv, [Next]_vars, ~Restart, allowed' = allowed,
         NEW k \in Kinds, NEW p, Only(k, p), Hand(p).hand.phase = "held", queued \subseteq queued',
         NEW spec, spec = Hand(p).hand.spec, NEW todo
  PROVE  /\ PassComplete(p) /\ spec \in Requests /\ Asked(p, spec)' = Asked(p, spec)
         /\ Refused(p, spec)' <=> Refused(p, spec)
         /\ Served(p) => Served(p)'
         /\ AllBound(p, spec) => AllBound(p, spec)'
         /\ (\A b \in Asked(p, spec) \ todo : b[1] = Home[p] => Bound(p, b)) =>
              (\A b \in Asked(p, spec) \ todo : b[1] = Home[p] => Bound(p, b)')
         /\ roles["pdb"] # "absent" => roles'["pdb"] # "absent"
         /\ roles["pdb"] = "exact" => roles'["pdb"] = "exact"
         /\ RolesExact => RolesExact'
<1>1. PassComplete(p) /\ spec \in Requests /\ p \in Objects
  BY DEF Only, CompleteInv, CompleteFor, InHand, Pass, Object
<1>2. Asked(p, spec)' = Asked(p, spec) /\ (Refused(p, spec)' <=> Refused(p, spec))
  BY AskedSame
<1>3. Served(p) => Served(p)'
  BY <1>1, ServedStays
<1>4. /\ AllBound(p, spec) => AllBound(p, spec)'
      /\ (\A b \in Asked(p, spec) \ todo : b[1] = Home[p] => Bound(p, b)) =>
           (\A b \in Asked(p, spec)' \ todo : b[1] = Home[p] => Bound(p, b)')
  BY <1>1, AllBoundStays
<1> QED
  BY <1>1, <1>2, <1>3, <1>4, RolesStay DEF RolesExact, Grants

\* Grants asked for are there, or a pass will see to them.
LEMMA CompleteStep ==
  ASSUME NamesDiffer, TypeInv, PhaseInv, BindingInv, ExtraInv, CacheInv, CompleteInv, [Next]_vars
  PROVE  CompleteInv'
<1> USE DEF PassUnchanged
<1>0. ASSUME ~Restart, NEW k \in Kinds, NEW p, Only(k, p), UNCHANGED <<objectCache, allowed>>,
             \A o \in Objects \ {p} : object'[o] = object[o], queued \subseteq queued', CompleteFor(p)'
      PROVE  CompleteInv'
  BY <1>0, CompleteFrame DEF Only, CompleteInv
<1>g. ASSUME ~Restart, NEW k \in Kinds, NEW p, Only(k, p),
             UNCHANGED <<object, objectCache, allowed, queued>>, Hand(p)'.at = p, PassComplete(p)'
      PROVE  CompleteInv'
  <2>1. CompleteFor(p)'
    BY <1>g DEF CompleteFor, InHand
  <2> QED
    BY <1>0, <1>g, <2>1
<1>b. ASSUME NEW p, NEW spec, spec = Hand(p).hand.spec, NEW b, NEW todo, Onward(p, "bind"),
             ~Refused(p, spec)', roles'["pdb"] = "exact", Served(p)', Hand(p)'.todo = todo \ {b},
             \A c \in Asked(p, spec)' \ todo : c[1] = Home[p] => Bound(p, c)',
             b[1] = Home[p] => Bound(p, b)'
      PROVE  PassComplete(p)'
  BY <1>b DEF PassComplete, Onward, Provisioning, Pruning
<1>1. ASSUME ~Restart, NEW k \in Kinds, NEW o \in Objects, Begin(k, o)
      PROVE  CompleteInv'
  <2>1. UNCHANGED <<object, objectCache, allowed>> /\ queued' = queued \ {o}
    BY <1>1 DEF Begin
  <2>2. ASSUME NEW p \in Objects \ {o} PROVE CompleteFor(p)'
    BY <1>1, <2>1, BeginDoes, CompleteFrame
  <2>3. CASE objectCache[o].phase = "gone"
    <3>1. object'[o].phase # "held" /\ ~InHand(o)'
      BY <1>1, <2>1, <2>3, BeginDoes DEF PhaseInv, CopyFits, Over
    <3> QED
      BY <2>2, <3>1 DEF CompleteInv, CompleteFor, RestComplete
  <2>4. CASE objectCache[o].phase # "gone"
    <3>1. InHand(o)' /\ Hand(o)'.hand = objectCache[o]
      BY <1>1, <2>4, BeginDoes
    <3>2. objectCache[o].phase = "held" =>
            Hand(o)'.pc = IF Refused(o, objectCache[o].spec) THEN "list" ELSE "pdbRole"
      BY <1>1, <2>4, BeginDoes
    <3>3. Refused(o, objectCache[o].spec)' <=> Refused(o, objectCache[o].spec)
      BY <2>1, AskedSame
    <3>4. Hand(o)'.hand.phase = "held" => PassComplete(o)'
      BY <2>1, <3>1, <3>2, <3>3 DEF PassComplete, Provisioning, Pruning
    <3> QED
      BY <2>2, <3>1, <3>4 DEF CompleteInv, CompleteFor
  <2> QED
    BY <2>3, <2>4
<1>2. ASSUME ~Restart, NEW k \in Kinds, Fail(k) \/ AddFinalizer(k) \/ Release(k)
      PROVE  CompleteInv'
  <2>1. PICK p : p = worker[k].at
    OBVIOUS
  <2>2. Only(k, p) /\ Over(p) /\ queued' = queued \cup {p}
    BY <1>2, <2>1, EndDoes
  <2>3. UNCHANGED <<objectCache, allowed>> /\ \A o \in Objects \ {p} : object'[o] = object[o]
    BY <1>2, <2>1 DEF Fail, AddFinalizer, Release, TypeInv, TypeOK
  <2>4. CompleteFor(p)'
    BY <2>2 DEF CompleteFor, RestComplete, Over
  <2> QED
    BY <1>0, <1>2, <2>2, <2>3, <2>4
<1>3. ASSUME ~Restart, NEW k \in Kinds, ReadRole(k, "pdbRole", "pdb", "writePdb", "baseExists")
      PROVE  CompleteInv'
  <2>1. PICK p, spec : p = worker[k].at /\ spec = Hand(p).hand.spec
    OBVIOUS
  <2>2. UNCHANGED <<object, objectCache, allowed, queued>>
        /\ roles' = IF roles["pdb"] = "absent" THEN [roles EXCEPT !["pdb"] = "exact"] ELSE roles
    BY <1>3 DEF ReadRole
  <2>3. /\ Only(k, p) /\ Hand(p).pc = "pdbRole"
        /\ roles["pdb"] = "wide" => Onward(p, "writePdb") /\ Hand(p)'.seen = "wide"
        /\ roles["pdb"] # "wide" => Onward(p, "baseExists")
    <3>1. "pdb" \in Grants /\ "pdbRole" # "idle" /\ "writePdb" # "never"
      BY DEF Grants
    <3> QED
      BY <1>3, <2>1, <3>1, ReadRoleDoes
  <2>4. Hand(p).hand.phase = "held"
    BY <2>3 DEF Only, InHand, PhaseInv, PassFits, Provisioning
  <2>5. PassComplete(p) /\ (Refused(p, spec)' <=> Refused(p, spec))
    BY <1>3, <2>1, <2>2, <2>3, <2>4, PassGoesOn
  <2>6. roles["pdb"] # "wide" => roles'["pdb"] = "exact"
    BY <2>2 DEF TypeInv, TypeOK, Rules, Grants
  <2>7. PassComplete(p)'
    BY <2>1, <2>2, <2>3, <2>5, <2>6 DEF PassComplete, Onward, Provisioning, Pruning
  <2> QED
    BY <1>g, <1>3, <2>2, <2>3, <2>7 DEF Onward
<1>4. ASSUME ~Restart, NEW k \in Kinds, WriteRole(k, "writePdb", "pdb", "baseExists")
      PROVE  CompleteInv'
  <2>1. PICK p, spec : p = worker[k].at /\ spec = Hand(p).hand.spec
    OBVIOUS
  <2>2. UNCHANGED <<object, objectCache, allowed, queued>>
        /\ roles' = IF roles["pdb"] = worker[k].seen THEN [roles EXCEPT !["pdb"] = "exact"] ELSE roles
    BY <1>4 DEF WriteRole
  <2>3. Only(k, p) /\ Hand(p).pc = "writePdb" /\ Onward(p, "baseExists")
    BY <1>4, <2>1, WriteRoleDoes DEF Grants
  <2>4. Hand(p).hand.phase = "held"
    BY <2>3 DEF Only, InHand, PhaseInv, PassFits, Provisioning
  <2>5. PassComplete(p) /\ (Refused(p, spec)' <=> Refused(p, spec))
    BY <1>4, <2>1, <2>2, <2>3, <2>4, PassGoesOn
  <2>6. roles'["pdb"] = "exact"
    BY <2>2, <2>3, <2>5 DEF PassComplete, Only, TypeInv, TypeOK, Rules, Grants
  <2>7. PassComplete(p)'
    BY <2>1, <2>2, <2>3, <2>5, <2>6 DEF PassComplete, Onward, Provisioning, Pruning
  <2> QED
    BY <1>g, <1>4, <2>2, <2>3, <2>7 DEF Onward
<1>5. ASSUME ~Restart, NEW k \in Kinds, ReadRole(k, "baseExists", "base", "never", "account")
      PROVE  CompleteInv'
  <2>1. PICK p, spec : p = worker[k].at /\ spec = Hand(p).hand.spec
    OBVIOUS
  <2>2. UNCHANGED <<object, objectCache, allowed, queued>>
    BY <1>5 DEF ReadRole
  <2>3. Only(k, p) /\ Hand(p).pc = "baseExists" /\ Onward(p, "account")
    <3>1. "base" \in Grants /\ "baseExists" # "idle"
      BY DEF Grants
    <3> QED
      BY <1>5, <2>1, <3>1, ReadRoleDoes
  <2>4. Hand(p).hand.phase = "held"
    BY <2>3 DEF Only, InHand, PhaseInv, PassFits, Provisioning
  <2>5. /\ PassComplete(p) /\ (Refused(p, spec)' <=> Refused(p, spec))
        /\ roles["pdb"] = "exact" => roles'["pdb"] = "exact"
    BY <1>5, <2>1, <2>2, <2>3, <2>4, PassGoesOn
  <2>7. PassComplete(p)'
    BY <2>1, <2>2, <2>3, <2>5 DEF PassComplete, Onward, Provisioning, Pruning
  <2> QED
    BY <1>g, <1>5, <2>2, <2>3, <2>7 DEF Onward
<1>6. ASSUME ~Restart, NEW k \in Kinds, CreateSaIfMissing(k)
      PROVE  CompleteInv'
  <2>1. PICK p, spec : p = worker[k].at /\ spec = Hand(p).hand.spec
    OBVIOUS
  <2>2. UNCHANGED <<object, objectCache, allowed, roles>>
    BY <1>6 DEF CreateSaIfMissing
  <2>3. Only(k, p) /\ Hand(p).pc = "account"
    BY <1>6, <2>1, CreateSaDoes
  <2>4. CASE Over(p) /\ queued' = queued \cup {p}
    BY <1>0, <1>6, <2>2, <2>3, <2>4 DEF CompleteFor, RestComplete, Over
  <2>5. CASE /\ Onward(p, "bind") /\ Hand(p)'.todo = DesiredBindings(p, spec, spec.targets)
             /\ queued' = queued /\ accounts' = accounts \cup ({p} \ accountCache)
    <3>1. Hand(p).hand.phase = "held"
      BY <2>3 DEF Only, InHand, PhaseInv, PassFits, Provisioning
    <3>2. /\ PassComplete(p) /\ (Refused(p, spec)' <=> Refused(p, spec))
          /\ spec \in Requests /\ Asked(p, spec)' = Asked(p, spec)
      BY <1>6, <2>1, <2>2, <2>3, <2>5, <3>1, PassGoesOn
    <3>3. Asked(p, spec) \subseteq Hand(p)'.todo
      BY <2>3, <2>5, <3>2, AskedType DEF Only
    <3>4. Served(p)'
      BY <2>3, <2>5, CacheStep, <1>6 DEF Served, CacheInv, CacheFits, Only, CreateSaIfMissing
    <3>5. PassComplete(p)'
      BY <2>1, <2>2, <2>3, <2>5, <3>2, <3>3, <3>4 DEF PassComplete, Onward, Provisioning, Pruning
    <3> QED
      BY <1>g, <1>6, <2>2, <2>3, <2>5, <3>5 DEF Onward
  <2> QED
    BY <1>6, <2>1, <2>4, <2>5, CreateSaDoes
<1>7. ASSUME ~Restart, NEW k \in Kinds, NEW b \in Keys, ReconcileRoleBinding(k, b)
      PROVE  CompleteInv'
  <2>1. PICK p, spec : p = worker[k].at /\ spec = Hand(p).hand.spec
    OBVIOUS
  <2>2. UNCHANGED <<object, objectCache, allowed, roles, queued>>
    BY <1>7 DEF ReconcileRoleBinding
  <2>3. Only(k, p) /\ Hand(p).pc = "bind" /\ b \in Hand(p).todo
    BY <1>7, <2>1, ReconcileDoes
  <2>4. Hand(p).hand.phase = "held"
    BY <2>3 DEF Only, InHand, PhaseInv, PassFits, Provisioning
  <2>5. PICK todo : todo = Hand(p).todo
    OBVIOUS
  <2>6. /\ PassComplete(p) /\ spec \in Requests /\ Asked(p, spec)' = Asked(p, spec)
        /\ Refused(p, spec)' <=> Refused(p, spec)
        /\ Served(p) => Served(p)'
        /\ (\A c \in Asked(p, spec) \ todo : c[1] = Home[p] => Bound(p, c)) =>
              (\A c \in Asked(p, spec) \ todo : c[1] = Home[p] => Bound(p, c)')
    BY <1>7, <2>1, <2>2, <2>3, <2>4, PassGoesOn
  <2>7. CASE RoleRefDiffers(b, bindingCache[b])
    <3>1. Onward(p, "rebind") /\ Hand(p)'.todo = todo /\ Hand(p)'.key = b
      BY <1>7, <2>1, <2>5, <2>7, ReconcileDoes
    <3>2. bindings'[b] = None
      BY <1>7, <2>7 DEF ReconcileRoleBinding, TypeInv, TypeOK, BindingMap
    <3>3. PassComplete(p)'
      BY <2>1, <2>2, <2>3, <2>5, <2>6, <3>1, <3>2 DEF PassComplete, Onward, Provisioning, Pruning
    <3> QED
      BY <1>g, <1>7, <2>2, <2>3, <3>1, <3>3 DEF Onward
  <2>8. CASE ~RoleRefDiffers(b, bindingCache[b])
    <3>1. Onward(p, "bind") /\ Hand(p)'.todo = todo \ {b}
      BY <1>7, <2>1, <2>5, <2>8, ReconcileDoes
    <3>2. ASSUME b[1] = Home[p] PROVE Bound(p, b)'
      <4>1. b[2] = Name[p] /\ b[3] \in Grants
        BY <2>3 DEF BindingInv, TodoProper, Only, InHand, Keys
      <4>2. bindings[b] \in Binding \cup {None} /\ Proper(b, bindings[b])
        BY DEF TypeInv, TypeOK, BindingMap, BindingInv
      <4>3. CASE bindingCache[b] = None /\ bindings[b] = None
        <5>1. bindings' = [bindings EXCEPT ![b] = [by |-> p, role |-> b[3]]]
          BY <1>7, <2>1, <2>8, <4>3 DEF ReconcileRoleBinding, Created
        <5>2. bindings'[b] = [by |-> p, role |-> b[3]]
          BY <5>1 DEF TypeInv, TypeOK, BindingMap
        <5>3. bindings'[b] # None
          BY <2>3, <4>1, <5>2, NoneAssumption DEF Only, Grants
        <5> QED
          BY <4>1, <5>2, <5>3 DEF Bound, Labelled, Grants
      <4>4. ASSUME ~(bindingCache[b] = None /\ bindings[b] = None) PROVE Bound(p, b)
        <5>1. CASE bindingCache[b] # bindings[b]
          BY <2>3, <3>2, <4>1, <5>1 DEF CacheInv, CacheFits, Bound, Only
        <5>2. CASE bindingCache[b] = bindings[b]
          BY <2>3, <2>8, <4>1, <4>2, <4>4, <5>2
          DEF RoleRefDiffers, Proper, Binding, NamesDiffer, Bound, Labelled, Only, Grants
        <5> QED
          BY <5>1, <5>2
      <4>5. Bound(p, b) => Bound(p, b)'
        BY <1>7, <2>2, <2>3, <3>2, BoundStays DEF Only
      <4> QED
        BY <4>3, <4>4, <4>5
    <3>3. PassComplete(p)'
      <4>1. /\ ~Refused(p, spec)' /\ roles'["pdb"] = "exact" /\ Served(p)'
            /\ \A c \in Asked(p, spec)' \ todo : c[1] = Home[p] => Bound(p, c)'
        BY <2>1, <2>2, <2>3, <2>5, <2>6 DEF PassComplete, Provisioning
      <4> QED
        BY <1>b, <2>1, <3>1, <3>2, <4>1
    <3> QED
      BY <1>g, <1>7, <2>2, <2>3, <3>1, <3>3 DEF Onward
  <2> QED
    BY <2>7, <2>8
<1>8. ASSUME ~Restart, NEW k \in Kinds, Rebind(k)
      PROVE  CompleteInv'
  <2>1. PICK p, spec, todo : p = worker[k].at /\ spec = Hand(p).hand.spec /\ todo = Hand(p).todo
    OBVIOUS
  <2>2. UNCHANGED <<object, objectCache, allowed, roles, queued>>
    BY <1>8 DEF Rebind
  <2>3. PICK b \in Keys : /\ b = Hand(p).key
                          /\ Only(k, p) /\ Hand(p).pc = "rebind" /\ Onward(p, "bind")
                          /\ Hand(p)'.todo = todo \ {b} /\ bindings' = Created(p, b)
    BY <1>8, <2>1, RebindDoes
  <2>4. Hand(p).hand.phase = "held"
    BY <2>3 DEF Only, InHand, PhaseInv, PassFits, Provisioning
  <2>5. /\ PassComplete(p) /\ spec \in Requests /\ Asked(p, spec)' = Asked(p, spec)
        /\ Refused(p, spec)' <=> Refused(p, spec)
        /\ Served(p) => Served(p)'
        /\ (\A c \in Asked(p, spec) \ todo : c[1] = Home[p] => Bound(p, c)) =>
              (\A c \in Asked(p, spec) \ todo : c[1] = Home[p] => Bound(p, c)')
    BY <1>8, <2>1, <2>2, <2>3, <2>4, PassGoesOn
  <2>6. Bound(p, b)'
    <3>1. bindings[b] = None /\ bindings' = [bindings EXCEPT ![b] = [by |-> p, role |-> b[3]]]
      BY <2>3, <2>5 DEF PassComplete, Created
    <3>2. bindings'[b] = [by |-> p, role |-> b[3]] /\ b[3] \in Grants
      BY <3>1 DEF TypeInv, TypeOK, BindingMap, Keys
    <3>3. bindings'[b] # None
      BY <2>3, <3>2, NoneAssumption DEF Only, Grants
    <3> QED
      BY <3>2, <3>3 DEF Bound, Labelled, Grants
  <2>7. PassComplete(p)'
    <3>1. /\ ~Refused(p, spec)' /\ roles'["pdb"] = "exact" /\ Served(p)'
          /\ \A c \in Asked(p, spec)' \ todo : c[1] = Home[p] => Bound(p, c)'
      BY <2>1, <2>2, <2>3, <2>5 DEF PassComplete, Provisioning
    <3> QED
      BY <1>b, <2>1, <2>3, <2>6, <3>1
  <2> QED
    BY <1>g, <1>8, <2>2, <2>3, <2>7 DEF Onward
<1>9. ASSUME ~Restart, NEW k \in Kinds, BindingsDone(k)
      PROVE  CompleteInv'
  <2>1. PICK p, spec, todo : p = worker[k].at /\ spec = Hand(p).hand.spec /\ todo = Hand(p).todo
    OBVIOUS
  <2>2. UNCHANGED <<object, objectCache, allowed, roles, queued>>
    BY <1>9 DEF BindingsDone
  <2>3. Only(k, p) /\ Hand(p).pc = "bind" /\ Hand(p).todo = {} /\ Onward(p, "baseRole")
    BY <1>9, <2>1, BindingsDoneDoes
  <2>4. Hand(p).hand.phase = "held"
    BY <2>3 DEF Only, InHand, PhaseInv, PassFits, Provisioning
  <2>5. /\ PassComplete(p) /\ spec \in Requests /\ Asked(p, spec)' = Asked(p, spec)
        /\ Refused(p, spec)' <=> Refused(p, spec)
        /\ Served(p) => Served(p)'
        /\ AllBound(p, spec) => AllBound(p, spec)'
    BY <1>9, <2>1, <2>2, <2>3, <2>4, PassGoesOn
  <2>6. AllBound(p, spec)
    BY <2>1, <2>3, <2>5 DEF PassComplete, AllBound
  <2>7. PassComplete(p)'
    BY <2>1, <2>2, <2>3, <2>5, <2>6 DEF PassComplete, Onward, Provisioning, Pruning
  <2> QED
    BY <1>g, <1>9, <2>2, <2>3, <2>7 DEF Onward
<1>10. ASSUME ~Restart, NEW k \in Kinds, ReadRole(k, "baseRole", "base", "writeBase", "list")
       PROVE  CompleteInv'
  <2>1. PICK p, spec : p = worker[k].at /\ spec = Hand(p).hand.spec
    OBVIOUS
  <2>2. UNCHANGED <<object, objectCache, allowed, queued>>
        /\ roles' = IF roles["base"] = "absent" THEN [roles EXCEPT !["base"] = "exact"] ELSE roles
    BY <1>10 DEF ReadRole
  <2>3. /\ Only(k, p) /\ Hand(p).pc = "baseRole"
        /\ roles["base"] = "wide" => Onward(p, "writeBase") /\ Hand(p)'.seen = "wide"
        /\ roles["base"] # "wide" => Onward(p, "list")
    <3>1. "base" \in Grants /\ "baseRole" # "idle" /\ "writeBase" # "never"
      BY DEF Grants
    <3> QED
      BY <1>10, <2>1, <3>1, ReadRoleDoes
  <2>4. Hand(p).hand.phase = "held"
    BY <2>3 DEF Only, InHand, PhaseInv, PassFits, Provisioning
  <2>5. /\ PassComplete(p) /\ spec \in Requests /\ (Refused(p, spec)' <=> Refused(p, spec))
        /\ Served(p) => Served(p)'
        /\ AllBound(p, spec) => AllBound(p, spec)'
        /\ roles["pdb"] = "exact" => roles'["pdb"] = "exact"
    BY <1>10, <2>1, <2>2, <2>3, <2>4, PassGoesOn
  <2>6. roles["base"] # "wide" => roles'["base"] = "exact"
    BY <2>2 DEF TypeInv, TypeOK, Rules, Grants
  <2>7. PassComplete(p)'
    BY <2>1, <2>2, <2>3, <2>5, <2>6 DEF PassComplete, Onward, Provisioning, Pruning, RolesExact
  <2> QED
    BY <1>g, <1>10, <2>2, <2>3, <2>7 DEF Onward
<1>11. ASSUME ~Restart, NEW k \in Kinds, WriteRole(k, "writeBase", "base", "list")
       PROVE  CompleteInv'
  <2>1. PICK p, spec : p = worker[k].at /\ spec = Hand(p).hand.spec
    OBVIOUS
  <2>2. UNCHANGED <<object, objectCache, allowed, queued>>
        /\ roles' = IF roles["base"] = worker[k].seen THEN [roles EXCEPT !["base"] = "exact"] ELSE roles
    BY <1>11 DEF WriteRole
  <2>3. Only(k, p) /\ Hand(p).pc = "writeBase" /\ Onward(p, "list")
    BY <1>11, <2>1, WriteRoleDoes DEF Grants
  <2>4. Hand(p).hand.phase = "held"
    BY <2>3 DEF Only, InHand, PhaseInv, PassFits, Provisioning
  <2>5. /\ PassComplete(p) /\ spec \in Requests /\ (Refused(p, spec)' <=> Refused(p, spec))
        /\ Served(p) => Served(p)'
        /\ AllBound(p, spec) => AllBound(p, spec)'
        /\ roles["pdb"] = "exact" => roles'["pdb"] = "exact"
    BY <1>11, <2>1, <2>2, <2>3, <2>4, PassGoesOn
  <2>6. roles'["base"] = "exact"
    BY <2>2, <2>3, <2>5 DEF PassComplete, Only, TypeInv, TypeOK, Rules, Grants
  <2>7. PassComplete(p)'
    BY <2>1, <2>2, <2>3, <2>5, <2>6 DEF PassComplete, Onward, Provisioning, Pruning, RolesExact
  <2> QED
    BY <1>g, <1>11, <2>2, <2>3, <2>7 DEF Onward
<1>12. ASSUME ~Restart, NEW k \in Kinds, NEW p, p = worker[k].at, Only(k, p),
              Hand(p).pc \in {"list", "prune"}, \E pc \in {"prune", "release"} : Onward(p, pc),
              UNCHANGED <<object, objectCache, allowed, queued>>
       PROVE  CompleteInv'
  <2>1. PICK spec : spec = Hand(p).hand.spec
    OBVIOUS
  <2>2. CASE Hand(p).hand.phase = "held"
    <3>1. /\ PassComplete(p) /\ spec \in Requests /\ (Refused(p, spec)' <=> Refused(p, spec))
          /\ Served(p) => Served(p)'
          /\ AllBound(p, spec) => AllBound(p, spec)'
          /\ RolesExact => RolesExact'
      BY <1>12, <2>1, <2>2, PassGoesOn
    <3>2. PassComplete(p)'
      BY <1>12, <2>1, <3>1 DEF PassComplete, Onward, Provisioning, Pruning
    <3> QED
      BY <1>g, <1>12, <3>2 DEF Onward
  <2>3. CASE Hand(p).hand.phase # "held"
    BY <1>0, <1>12, <2>3 DEF CompleteFor, Onward, InHand
  <2> QED
    BY <2>2, <2>3
<1>13. ASSUME ~Restart, NEW k \in Kinds, ListBindings(k)
       PROVE  CompleteInv'
  <2>1. UNCHANGED <<object, objectCache, allowed, queued>>
    BY <1>13 DEF ListBindings
  <2> QED
    BY <1>12, <1>13, <2>1, ListDoes
<1>14. ASSUME ~Restart, NEW k \in Kinds, NEW b \in Keys, Prune(k, b)
       PROVE  CompleteInv'
  <2>1. UNCHANGED <<object, objectCache, allowed, queued>>
    BY <1>14 DEF Prune
  <2> QED
    BY <1>12, <1>14, <2>1, PruneDoes
<1>15. ASSUME ~Restart, NEW k \in Kinds, PruneDone(k)
       PROVE  CompleteInv'
  <2>1. PICK p, spec : p = worker[k].at /\ spec = Hand(p).hand.spec
    OBVIOUS
  <2>2. UNCHANGED <<object, objectCache, allowed, queued>>
    BY <1>15 DEF PruneDone
  <2>3. Only(k, p) /\ Hand(p).pc = "prune"
    BY <1>15, <2>1, PruneDoneDoes
  <2>4. CASE Hand(p).hand.phase = "deleting"
    BY <1>12, <1>15, <2>1, <2>2, <2>3, <2>4, PruneDoneDoes
  <2>5. CASE Hand(p).hand.phase # "deleting"
    <3>1. Over(p)
      BY <1>15, <2>1, <2>5, PruneDoneDoes
    <3>2. Hand(p).hand.phase = "held"
      BY <2>3, <2>5 DEF Only, InHand, PhaseInv, PassFits, Pruning
    <3>3. /\ PassComplete(p) /\ spec \in Requests /\ (Refused(p, spec)' <=> Refused(p, spec))
          /\ Served(p) => Served(p)'
          /\ AllBound(p, spec) => AllBound(p, spec)'
          /\ RolesExact => RolesExact'
      BY <1>15, <2>1, <2>2, <2>3, <3>2, PassGoesOn
    <3>4. p \in queued \/ spec = objectCache[p].spec
      BY <2>1, <2>3 DEF ExtraInv, ExtraFor, PassExtra, Only, InHand
    <3>5. RestComplete(p)'
      BY <2>1, <2>2, <2>3, <3>3, <3>4 DEF PassComplete, RestComplete, Pruning
    <3> QED
      BY <1>0, <1>15, <2>2, <2>3, <3>1, <3>5 DEF CompleteFor, Over
  <2> QED
    BY <2>4, <2>5
<1>16. ASSUME ~Restart, NEW o \in Objects, SyncObject(o)
       PROVE  CompleteInv'
  <2>1. UNCHANGED <<object, worker, allowed>> /\ objectCache' = [objectCache EXCEPT ![o] = object[o]]
        /\ queued' = IF object[o].spec # objectCache[o].spec \/ object[o].phase = "deleting"
                       THEN queued \cup {o} ELSE queued
    BY <1>16 DEF SyncObject
  <2>2. objectCache'[o] = object[o] /\ \A p \in Objects \ {o} : objectCache'[p] = objectCache[p]
    BY <2>1 DEF TypeInv, TypeOK
  <2>3. ASSUME NEW p \in Objects PROVE (InHand(p)' <=> InHand(p)) /\ Hand(p)' = Hand(p)
    BY <2>1 DEF InHand, Hand
  <2>4. ASSUME NEW p \in Objects, objectCache'[p].spec = objectCache[p].spec PROVE CompleteFor(p)'
    BY <1>16, <2>1, <2>3, <2>4, CompleteFrame
  <2>5. ASSUME objectCache'[o].spec # objectCache[o].spec PROVE CompleteFor(o)'
    <3>1. o \in queued'
      BY <2>1, <2>2, <2>5
    <3>2. CASE ~InHand(o)
      BY <2>3, <3>1, <3>2 DEF CompleteFor, RestComplete
    <3>3. CASE InHand(o)
      BY <1>16, <2>1, <2>3, <3>1, <3>3, CompleteFrame
    <3> QED
      BY <3>2, <3>3
  <2> QED
    BY <2>2, <2>4, <2>5 DEF CompleteInv
<1>17. ASSUME ~Restart, NEW o \in Objects, DeleteObject(o) \/ Edit(o)
       PROVE  CompleteInv'
  <2>1. UNCHANGED <<objectCache, worker, allowed, queued>>
    BY <1>17 DEF DeleteObject, Edit
  <2>2. ASSUME NEW p \in Objects, object'[p].phase = "held" PROVE object[p].phase = "held"
    <3>1. CASE p # o
      BY <1>17, <2>2, <3>1 DEF DeleteObject, Edit, TypeInv, TypeOK
    <3>2. CASE p = o /\ DeleteObject(o)
      BY <2>2, <3>2 DEF DeleteObject, TypeInv, TypeOK, Object
    <3>3. CASE p = o /\ Edit(o)
      BY <2>2, <3>3 DEF Edit, TypeInv, TypeOK, Object
    <3> QED
      BY <1>17, <3>1, <3>2, <3>3
  <2> QED
    BY <1>17, <2>1, <2>2, CompleteFrame DEF CompleteInv, InHand, Hand
<1>18. ASSUME ~Restart, \/ SyncBindings \/ SyncAccounts \/ UNCHANGED vars
                        \/ \E o \in Objects : CollectGarbage(o) \/ DeleteOwned(o)
       PROVE  CompleteInv'
  <2>1. UNCHANGED <<object, objectCache, worker, allowed>> /\ queued \subseteq queued'
    BY <1>18 DEF SyncBindings, SyncAccounts, CollectGarbage, DeleteOwned, vars
  <2> QED
    BY <1>18, <2>1, CompleteFrame DEF CompleteInv, InHand, Hand
<1>19. CASE Restart
  <2>1. \A o \in Objects : object'[o].phase = "held" => o \in queued'
    BY <1>19 DEF Restart
  <2> QED
    BY <1>19, <2>1, RestartDoes DEF CompleteInv, CompleteFor, RestComplete
<1> QED
  BY <1>1, <1>2, <1>3, <1>4, <1>5, <1>6, <1>7, <1>8, <1>9, <1>10, <1>11, <1>13, <1>14, <1>15, <1>16, <1>17,
     <1>18, <1>19
  DEF Next, Work, Step, Caches, Provision, DeleteRBACExcept, EnsureOptionalClusterRoles,
      EnsureClusterRoleExists, EnsureBaseClusterRole

\* When all is quiet every object that is not refused has all it asks for at home, when
\* no two objects have bindings of one name.
THEOREM GrantsAreComplete == NamesDiffer => (Spec => []GrantsComplete)
<1> SUFFICES ASSUME NamesDiffer PROVE Spec => []GrantsComplete
  OBVIOUS
<1> DEFINE IInv == RbacInv /\ ExtraInv /\ CacheInv /\ CompleteInv
<1>1. Init => IInv
  BY TypeInit, PhaseInit, BindingInit, OutsideInit, ExtraInit, CacheInit, CompleteInit DEF RbacInv
<1>2. IInv /\ [Next]_vars => IInv'
  BY TypeStep, PhaseStep, BindingStep, OutsideStep, ExtraStep, CacheStep, CompleteStep DEF RbacInv
<1>3. IInv => GrantsComplete
  <2> SUFFICES ASSUME IInv, Quiet, NEW o \in Objects,
                      object[o].phase = "held", ~Refused(o, object[o].spec)
               PROVE  /\ o \in accounts
                      /\ Wanted(o) \cap AllBindingsIn(o, Home[o]) \subseteq Labelled(o)
                      /\ \A g \in Grants : roles[g] = "exact"
    BY DEF GrantsComplete
  <2>1. ~InHand(o) /\ o \notin queued /\ object[o] = objectCache[o]
    BY NoneAssumption DEF Quiet, InHand, Hand, Idle, Kinds
  <2>2. unseen.bindings = {} /\ unseen.accounts = {} /\ queued = {}
    BY DEF Quiet, RbacInv, TypeInv, TypeOK
  <2>3. RolesExact /\ Served(o) /\ AllBound(o, object[o].spec)
    BY <2>1 DEF CompleteInv, CompleteFor, RestComplete
  <2>4. o \in accounts /\ \A b \in Wanted(o) : b[1] = Home[o] => b \in Labelled(o)
    BY <2>2, <2>3 DEF Served, AllBound, Bound, Asked, Wanted
  <2> QED
    BY <2>3, <2>4 DEF AllBindingsIn, RolesExact, Grants
<1> HIDE DEF IInv
<1> QED
  BY <1>1, <1>2, <1>3, PTL DEF Spec

-----------------------------------------------------------------------------
(* A pass grants before it revokes.                                        *)

\* A pass over p deletes b.
IsRevoked(p, b) ==
  /\ InHand(p) /\ b \in Hand(p).todo
  /\ \/ Hand(p).pc = "prune"
     \/ Hand(p).pc = "bind" /\ RoleRefDiffers(b, bindingCache[b]) /\ Fresh(bindingCache = bindings)

\* A binding that changes is deleted by a pass, or with its owner.
LEMMA Revoked ==
  ASSUME TypeInv, [Next]_vars, "tamper" \notin Events, NEW b \in Keys, bindings[b] # None,
         bindings'[b] # bindings[b]
  PROVE  \/ \E p \in Objects : IsRevoked(p, b)
         \/ \E p \in Objects : object[p].phase = "gone" /\ bindings[b].by = p
<1> DEFINE Goal == \/ \E p \in Objects : IsRevoked(p, b)
                   \/ \E p \in Objects : object[p].phase = "gone" /\ bindings[b].by = p
<1>0. bindings \in [Keys -> Binding \cup {None}]
  BY DEF TypeInv, TypeOK, BindingMap
<1>1. ASSUME NEW k \in Kinds, NEW c \in Keys, ReconcileRoleBinding(k, c)
      PROVE  Goal
  <2>1. PICK p : p = worker[k].at
    OBVIOUS
  <2>2. Only(k, p) /\ Hand(p).pc = "bind" /\ c \in Hand(p).todo /\ Fresh(bindingCache = bindings)
    BY <1>1, <2>1, ReconcileDoes DEF ReconcileRoleBinding
  <2>3. CASE RoleRefDiffers(c, bindingCache[c])
    <3>1. bindings' = [bindings EXCEPT ![c] = None]
      BY <1>1, <2>3 DEF ReconcileRoleBinding
    <3>2. b = c
      BY <1>0, <3>1
    <3> QED
      BY <2>2, <2>3, <3>2 DEF IsRevoked, Only, InHand
  <2>4. CASE ~RoleRefDiffers(c, bindingCache[c])
    BY <1>0, <1>1, <2>1, <2>4 DEF ReconcileRoleBinding, Created
  <2> QED
    BY <2>3, <2>4
<1>2. ASSUME NEW k \in Kinds, Rebind(k)
      PROVE  Goal
  BY <1>0, <1>2 DEF Rebind, Created
<1>3. ASSUME NEW k \in Kinds, NEW c \in Keys, Prune(k, c)
      PROVE  Goal
  <2>1. PICK p : p = worker[k].at
    OBVIOUS
  <2>2. Only(k, p) /\ Hand(p).pc = "prune" /\ c \in Hand(p).todo /\ bindings' = [bindings EXCEPT ![c] = None]
    BY <1>3, <2>1, PruneDoes DEF Prune
  <2>3. b = c
    BY <1>0, <2>2
  <2> QED
    BY <2>2, <2>3 DEF IsRevoked, Only, InHand
<1>4. ASSUME NEW o \in Objects, CollectGarbage(o)
      PROVE  Goal
  BY <1>0, <1>4 DEF CollectGarbage
<1>5. ASSUME NEW k \in Kinds, \/ \E o \in Objects : Begin(k, o)
                              \/ Fail(k) \/ AddFinalizer(k) \/ Release(k)
                              \/ EnsureOptionalClusterRoles(k) \/ EnsureClusterRoleExists(k)
                              \/ CreateSaIfMissing(k) \/ BindingsDone(k) \/ EnsureBaseClusterRole(k)
                              \/ ListBindings(k) \/ PruneDone(k)
      PROVE  UNCHANGED bindings
  BY <1>5 DEF Begin, Fail, AddFinalizer, Release, EnsureOptionalClusterRoles, EnsureClusterRoleExists,
              CreateSaIfMissing, BindingsDone, EnsureBaseClusterRole, ListBindings, PruneDone,
              ReadRole, WriteRole
<1>6. ASSUME Caches \/ Restart \/ UNCHANGED vars \/ \E o \in Objects : DeleteObject(o) \/ Edit(o)
      PROVE  UNCHANGED bindings
  BY <1>6 DEF Caches, SyncBindings, SyncAccounts, SyncObject, Restart, vars, DeleteObject, Edit
<1> QED
  BY <1>1, <1>2, <1>3, <1>4, <1>5, <1>6
  DEF Next, Work, Step, Provision, DeleteRBACExcept, DeleteOwned

\* What an object holds it keeps, but for what the pass over it prunes: when names differ,
\* nobody else deletes, and no cache is behind.
LEMMA LabelledStays ==
  ASSUME TypeInv, BindingInv, [Next]_vars, NamesDiffer, "stale" \notin Events, "tamper" \notin Events,
         NEW o \in Objects, object[o].phase # "gone", NEW b \in Labelled(o),
         ~(InHand(o) /\ Hand(o).pc = "prune" /\ b \in Hand(o).todo)
  PROVE  b \in Labelled(o)'
<1>1. b \in Keys /\ bindings[b] # None /\ bindings[b].by = o /\ bindings[b].role # "legacy"
  BY DEF Labelled
<1>2. b[2] = Name[o] /\ bindings[b].role = b[3]
  BY <1>1 DEF BindingInv, Proper
<1>3. ASSUME NEW p \in Objects, IsRevoked(p, b) PROVE FALSE
  <2>1. b[2] = Name[p]
    BY <1>1, <1>3 DEF IsRevoked, BindingInv, TodoProper
  <2>2. p = o
    BY <1>2, <2>1 DEF NamesDiffer
  <2> QED
    BY <1>2, <1>3, <2>2 DEF IsRevoked, Fresh, RoleRefDiffers
<1>4. bindings'[b] = bindings[b]
  BY <1>1, <1>3, Revoked
<1> QED
  BY <1>1, <1>4 DEF Labelled

\* What a pass has bound, and what it will not prune.
PassKeeps(o) ==
  /\ Hand(o).pc \in {"bind", "rebind"} => Asked(o, Hand(o).hand.spec) \ Hand(o).todo \subseteq Labelled(o)
  /\ Hand(o).pc \in {"baseRole", "writeBase"} => Asked(o, Hand(o).hand.spec) \subseteq Labelled(o)
  /\ Hand(o).pc = "prune" => Asked(o, Hand(o).hand.spec) \cap Hand(o).todo = {}

KeepInv == \A o \in Objects : InHand(o) /\ Hand(o).hand.phase = "held" => PassKeeps(o)

\* What a pass is at when it starts, which nothing has been done for.
Harmless(o) == Hand(o).pc \notin {"bind", "rebind", "baseRole", "writeBase", "prune"}

\* A pass keeps the bindings that it has seen to.
LEMMA KeepStep ==
  ASSUME NamesDiffer, "stale" \notin Events, "tamper" \notin Events,
         TypeInv, PhaseInv, BindingInv, CompleteInv, KeepInv, [Next]_vars
  PROVE  KeepInv'
<1> USE DEF PassUnchanged
<1> DEFINE KeepFor(o) == InHand(o) /\ Hand(o).hand.phase = "held" => PassKeeps(o)
<1>0. ASSUME NEW o \in Objects, InHand(o), Hand(o).hand.phase = "held", NEW b \in Labelled(o),
             Hand(o).pc = "prune" => b \notin Hand(o).todo
      PROVE  b \in Labelled(o)'
  BY <1>0, LabelledStays DEF PhaseInv, PassFits
<1>1. ASSUME NEW o \in Objects, allowed' = allowed, InHand(o)' <=> InHand(o), InHand(o) => Hand(o)' = Hand(o)
      PROVE  KeepFor(o)'
  <2> SUFFICES ASSUME InHand(o)', Hand(o)'.hand.phase = "held" PROVE PassKeeps(o)'
    OBVIOUS
  <2>1. InHand(o) /\ Hand(o)' = Hand(o) /\ PassKeeps(o)
    BY <1>1 DEF KeepInv
  <2>2. PICK spec : spec = Hand(o).hand.spec
    OBVIOUS
  <2>3. Asked(o, spec)' = Asked(o, spec) /\ (Hand(o).pc # "prune" => Labelled(o) \subseteq Labelled(o)')
    BY <1>0, <1>1, <2>1, AskedSame
  <2> QED
    BY <2>1, <2>2, <2>3 DEF PassKeeps
<1>2. ASSUME NEW k \in Kinds, NEW p, Only(k, p), allowed' = allowed, KeepFor(p)'
      PROVE  KeepInv'
  BY <1>1, <1>2 DEF Only, KeepInv
<1>3. ASSUME NEW k \in Kinds, NEW p, Only(k, p), allowed' = allowed, InHand(p)' => Harmless(p)'
      PROVE  KeepInv'
  BY <1>2, <1>3 DEF Harmless, PassKeeps
<1>4. ASSUME NEW k \in Kinds, NEW o \in Objects, Begin(k, o)
      PROVE  KeepInv'
  <2>1. allowed' = allowed /\ \A p \in Objects \ {o} : KeepFor(p)'
    BY <1>1, <1>4, BeginDoes DEF Begin
  <2>2. InHand(o)' => Harmless(o)'
    <3>1. CASE objectCache[o].phase = "gone"
      BY <1>4, <3>1, BeginDoes DEF Over
    <3>2. CASE objectCache[o].phase # "gone"
      BY <1>4, <3>2, BeginDoes DEF Harmless, TypeInv, TypeOK, Object
    <3> QED
      BY <3>1, <3>2
  <2> QED
    BY <2>1, <2>2 DEF KeepInv, Harmless, PassKeeps
<1>5. ASSUME NEW k \in Kinds, Fail(k) \/ AddFinalizer(k) \/ Release(k)
      PROVE  KeepInv'
  <2>1. PICK p : p = worker[k].at
    OBVIOUS
  <2> QED
    BY <1>3, <1>5, <2>1, EndDoes DEF Over, Fail, AddFinalizer, Release
<1>6. ASSUME NEW k \in Kinds, NEW role \in Grants, NEW next \in {"baseExists", "account", "list"},
             \/ ReadRole(k, "pdbRole", role, "writePdb", next)
             \/ WriteRole(k, "writePdb", role, next) /\ next = "baseExists"
             \/ ReadRole(k, "baseExists", role, "never", next)
             \/ WriteRole(k, "writeBase", role, "list")
      PROVE  KeepInv'
  <2>1. PICK p : p = worker[k].at
    OBVIOUS
  <2>2. ASSUME NEW pc \in {"pdbRole", "baseExists"}, NEW write \in {"writePdb", "never"},
               ReadRole(k, pc, role, write, next)
        PROVE  Only(k, p) /\ (Onward(p, next) \/ (Onward(p, write) /\ write # "never"))
    <3>1. pc # "idle" /\ write \in {"never", "writePdb", "writeBase"}
      OBVIOUS
    <3> QED
      BY <2>1, <2>2, <3>1, ReadRoleDoes
  <2>3. ASSUME NEW pc \in {"writePdb", "writeBase"}, NEW then \in {"baseExists", "list"},
               WriteRole(k, pc, role, then)
        PROVE  Only(k, p) /\ Onward(p, then)
    BY <2>1, <2>3, WriteRoleDoes
  <2>4. Only(k, p) /\ \E pc \in {"writePdb", "baseExists", "account", "list"} : Onward(p, pc)
    BY <1>6, <2>2, <2>3
  <2> QED
    BY <1>3, <1>6, <2>4 DEF Harmless, Onward, ReadRole, WriteRole
<1>7. ASSUME NEW k \in Kinds, CreateSaIfMissing(k)
      PROVE  KeepInv'
  <2>1. PICK p, spec : p = worker[k].at /\ spec = Hand(p).hand.spec
    OBVIOUS
  <2>2. Only(k, p) /\ allowed' = allowed /\ spec \in Requests
    BY <1>7, <2>1, CreateSaDoes DEF CreateSaIfMissing, Only, Pass, Object
  <2>3. CASE Over(p)
    BY <1>3, <2>2, <2>3 DEF Over
  <2>4. CASE Onward(p, "bind") /\ Hand(p)'.todo = DesiredBindings(p, spec, spec.targets)
    <3>1. Asked(p, spec)' \subseteq Hand(p)'.todo
      BY <2>2, <2>4, AskedType, AskedSame DEF Only
    <3> QED
      BY <1>2, <2>1, <2>2, <2>4, <3>1 DEF PassKeeps, Onward
  <2> QED
    BY <1>7, <2>1, <2>3, <2>4, CreateSaDoes
<1>8. ASSUME NEW k \in Kinds, NEW b \in Keys, ReconcileRoleBinding(k, b)
      PROVE  KeepInv'
  <2>1. PICK p, spec, todo : p = worker[k].at /\ spec = Hand(p).hand.spec /\ todo = Hand(p).todo
    OBVIOUS
  <2>2. Only(k, p) /\ Hand(p).pc = "bind" /\ allowed' = allowed /\ b \in Hand(p).todo
    BY <1>8, <2>1, ReconcileDoes DEF ReconcileRoleBinding
  <2>3. InHand(p) /\ Hand(p).hand.phase = "held"
    BY <2>2 DEF Only, InHand, PhaseInv, PassFits, Provisioning
  <2>4. Asked(p, spec)' \ todo \subseteq Labelled(p)'
    <3>1. Asked(p, spec) \ todo \subseteq Labelled(p)
      BY <2>1, <2>2, <2>3 DEF KeepInv, PassKeeps, Only
    <3>2. Labelled(p) \subseteq Labelled(p)'
      BY <1>0, <2>2, <2>3 DEF Only
    <3> QED
      BY <2>2, <3>1, <3>2, AskedSame
  <2>5. CASE RoleRefDiffers(b, bindingCache[b])
    <3>1. Onward(p, "rebind") /\ Hand(p)'.todo = todo
      BY <1>8, <2>1, <2>5, ReconcileDoes
    <3> QED
      BY <1>2, <2>1, <2>2, <2>4, <3>1 DEF PassKeeps, Onward
  <2>6. CASE ~RoleRefDiffers(b, bindingCache[b])
    <3>1. Onward(p, "bind") /\ Hand(p)'.todo = todo \ {b}
      BY <1>8, <2>1, <2>6, ReconcileDoes
    <3>2. b \in Labelled(p)'
      <4>1. /\ b[2] = Name[p] /\ b[3] \in Grants /\ bindingCache = bindings /\ p \in Objects
            /\ bindings[b] \in Binding \cup {None} /\ Proper(b, bindings[b])
        BY <1>8, <2>2, <2>3
        DEF BindingInv, TodoProper, Only, Keys, ReconcileRoleBinding, Fresh, TypeInv, TypeOK, BindingMap
      <4>2. CASE bindings[b] = None
        <5>1. bindings'[b] = [by |-> p, role |-> b[3]]
          BY <1>8, <2>1, <2>6, <4>1, <4>2 DEF ReconcileRoleBinding, Created, TypeInv, TypeOK, BindingMap
        <5>2. bindings'[b] # None
          BY <4>1, <5>1, NoneAssumption DEF Grants
        <5> QED
          BY <4>1, <5>1, <5>2 DEF Labelled, Grants
      <4>3. CASE bindings[b] # None
        <5>1. b \in Labelled(p)
          BY <2>6, <4>1, <4>3 DEF RoleRefDiffers, Proper, Binding, NamesDiffer, Labelled, Grants
        <5> QED
          BY <1>0, <2>2, <2>3, <4>1, <5>1
      <4> QED
        BY <4>2, <4>3
    <3> QED
      BY <1>2, <2>1, <2>2, <2>4, <3>1, <3>2 DEF PassKeeps, Onward
  <2> QED
    BY <2>5, <2>6
<1>9. ASSUME NEW k \in Kinds, Rebind(k)
      PROVE  KeepInv'
  <2>1. PICK p, spec, todo : p = worker[k].at /\ spec = Hand(p).hand.spec /\ todo = Hand(p).todo
    OBVIOUS
  <2>2. PICK b \in Keys : /\ b = Hand(p).key /\ allowed' = allowed
                          /\ Only(k, p) /\ Hand(p).pc = "rebind" /\ Onward(p, "bind")
                          /\ Hand(p)'.todo = todo \ {b} /\ bindings' = Created(p, b)
    BY <1>9, <2>1, RebindDoes DEF Rebind
  <2>3. InHand(p) /\ Hand(p).hand.phase = "held"
    BY <2>2 DEF Only, InHand, PhaseInv, PassFits, Provisioning
  <2>4. Asked(p, spec)' \ todo \subseteq Labelled(p)'
    <3>1. Asked(p, spec) \ todo \subseteq Labelled(p)
      BY <2>1, <2>2, <2>3 DEF KeepInv, PassKeeps, Only
    <3>2. Labelled(p) \subseteq Labelled(p)'
      BY <1>0, <2>2, <2>3 DEF Only
    <3> QED
      BY <2>2, <3>1, <3>2, AskedSame
  <2>5. b \in Labelled(p)'
    <3>1. bindings[b] = None
      BY <2>2, <2>3 DEF CompleteInv, CompleteFor, PassComplete, Only
    <3>2. bindings'[b] = [by |-> p, role |-> b[3]] /\ b[3] \in Grants
      BY <2>2, <3>1 DEF TypeInv, TypeOK, BindingMap, Keys, Created
    <3>3. bindings'[b] # None
      BY <2>2, <3>2, NoneAssumption DEF Only, Grants
    <3> QED
      BY <3>2, <3>3 DEF Labelled, Grants
  <2> QED
    BY <1>2, <2>1, <2>2, <2>4, <2>5 DEF PassKeeps, Onward
<1>10. ASSUME NEW k \in Kinds, NEW p, p = worker[k].at, Only(k, p), allowed' = allowed,
              (Hand(p).pc = "bind" /\ Hand(p).todo = {}) \/ Hand(p).pc = "baseRole",
              \E pc \in {"baseRole", "writeBase", "list"} : Onward(p, pc)
       PROVE  KeepInv'
  <2>1. PICK spec : spec = Hand(p).hand.spec
    OBVIOUS
  <2>2. InHand(p) /\ Hand(p).hand.phase = "held"
    BY <1>10 DEF Only, InHand, PhaseInv, PassFits, Provisioning
  <2>3. Asked(p, spec) \subseteq Labelled(p) /\ Labelled(p) \subseteq Labelled(p)'
    BY <1>0, <1>10, <2>1, <2>2 DEF KeepInv, PassKeeps, Only
  <2>4. Asked(p, spec)' \subseteq Labelled(p)'
    BY <1>10, <2>3, AskedSame
  <2> QED
    BY <1>2, <1>10, <2>1, <2>4 DEF PassKeeps, Onward
<1>11. ASSUME NEW k \in Kinds, BindingsDone(k)
       PROVE  KeepInv'
  <2>1. allowed' = allowed
    BY <1>11 DEF BindingsDone
  <2> QED
    BY <1>10, <1>11, <2>1, BindingsDoneDoes
<1>12. ASSUME NEW k \in Kinds, ReadRole(k, "baseRole", "base", "writeBase", "list")
       PROVE  KeepInv'
  <2>1. allowed' = allowed /\ "base" \in Grants /\ "baseRole" # "idle"
    BY <1>12 DEF ReadRole, Grants
  <2>2. PICK p : p = worker[k].at
    OBVIOUS
  <2>3. Only(k, p) /\ Hand(p).pc = "baseRole" /\ (Onward(p, "writeBase") \/ Onward(p, "list"))
    BY <1>12, <2>1, <2>2, ReadRoleDoes
  <2> QED
    BY <1>10, <2>1, <2>2, <2>3
<1>13. ASSUME NEW k \in Kinds, ListBindings(k)
       PROVE  KeepInv'
  <2>1. PICK p, spec : p = worker[k].at /\ spec = Hand(p).hand.spec
    OBVIOUS
  <2>2. /\ Only(k, p) /\ Onward(p, "prune") /\ allowed' = allowed
        /\ Hand(p)'.todo = Labelled(p) \ Keep(p, Hand(p).hand)
    BY <1>13, <2>1, ListDoes DEF ListBindings
  <2>3. CASE Hand(p).hand.phase = "held"
    <3>1. Asked(p, spec)' \cap Hand(p)'.todo = {}
      BY <2>1, <2>2, <2>3, AskedSame DEF Keep, Asked
    <3> QED
      BY <1>2, <2>1, <2>2, <3>1 DEF PassKeeps, Onward
  <2>4. CASE Hand(p).hand.phase # "held"
    BY <1>2, <2>2, <2>4 DEF Onward
  <2> QED
    BY <2>3, <2>4
<1>14. ASSUME NEW k \in Kinds, NEW b \in Keys, Prune(k, b)
       PROVE  KeepInv'
  <2>1. PICK p, spec, todo : p = worker[k].at /\ spec = Hand(p).hand.spec /\ todo = Hand(p).todo
    OBVIOUS
  <2>2. /\ Only(k, p) /\ Hand(p).pc = "prune" /\ Onward(p, "prune") /\ allowed' = allowed
        /\ Hand(p)'.todo = todo \ {b}
    BY <1>14, <2>1, PruneDoes DEF Prune
  <2>3. CASE Hand(p).hand.phase = "held"
    <3>1. Asked(p, spec)' \cap todo = {}
      BY <2>1, <2>2, <2>3, AskedSame DEF KeepInv, PassKeeps, Only, InHand
    <3> QED
      BY <1>2, <2>1, <2>2, <3>1 DEF PassKeeps, Onward
  <2>4. CASE Hand(p).hand.phase # "held"
    BY <1>2, <2>2, <2>4 DEF Onward
  <2> QED
    BY <2>3, <2>4
<1>15. ASSUME NEW k \in Kinds, PruneDone(k)
       PROVE  KeepInv'
  <2>1. PICK p : p = worker[k].at
    OBVIOUS
  <2>2. Only(k, p) /\ (Onward(p, "release") \/ Over(p)) /\ allowed' = allowed
    BY <1>15, <2>1, PruneDoneDoes DEF PruneDone
  <2> QED
    BY <1>3, <2>2 DEF Onward, Over, Harmless
<1>16. ASSUME UNCHANGED <<worker, allowed>>
       PROVE  KeepInv'
  BY <1>1, <1>16 DEF KeepInv, InHand, Hand
<1>17. CASE Restart
  BY <1>17, RestartDoes DEF KeepInv
<1> QED
  BY <1>4, <1>5, <1>6, <1>7, <1>8, <1>9, <1>11, <1>12, <1>13, <1>14, <1>15, <1>16, <1>17
  DEF Next, Work, Step, Caches, Provision, DeleteRBACExcept, EnsureOptionalClusterRoles, Grants,
      EnsureClusterRoleExists, EnsureBaseClusterRole, SyncObject, SyncBindings, SyncAccounts, vars,
      DeleteObject, Edit, CollectGarbage, DeleteOwned

\* The base role is narrowed by a pass that has bound all it will bind.
LEMMA Narrowed ==
  ASSUME TypeInv, [Next]_vars, roles["base"] = "wide", roles'["base"] # "wide"
  PROVE  \E k \in Kinds : worker[k].pc = "writeBase" /\ \A j \in Kinds \ {k} : worker'[j] = worker[j]
<1>1. \E k \in Kinds : EnsureOptionalClusterRoles(k) \/ EnsureClusterRoleExists(k) \/ EnsureBaseClusterRole(k)
  BY DEF Next, Work, Step, Provision, DeleteRBACExcept, Caches, Begin, Fail, AddFinalizer, Release,
         CreateSaIfMissing, ReconcileRoleBinding, Rebind, BindingsDone, ListBindings, Prune, PruneDone,
         SyncBindings, SyncAccounts, SyncObject, vars, DeleteObject, Edit, CollectGarbage, DeleteOwned,
         Restart
<1>2. PICK k \in Kinds : WriteRole(k, "writeBase", "base", "list")
  BY <1>1 DEF EnsureOptionalClusterRoles, EnsureClusterRoleExists, EnsureBaseClusterRole, ReadRole,
              WriteRole, TypeInv, TypeOK, Grants
<1> QED
  BY <1>2 DEF WriteRole, At, Go, TypeInv, PassInv

\* A pass never takes the budget grant from an object that asks for it, when names differ,
\* nobody else deletes bindings, and no pass reads a cache that is behind.
THEOREM GrantedThroughout ==
  NamesDiffer /\ "stale" \notin Events /\ "tamper" \notin Events => (Spec => GrantsBeforeItRevokes)
<1> SUFFICES ASSUME NamesDiffer, "stale" \notin Events, "tamper" \notin Events
             PROVE  Spec => GrantsBeforeItRevokes
  OBVIOUS
<1> DEFINE IInv == RbacInv /\ ExtraInv /\ CacheInv /\ CompleteInv /\ KeepInv
           Keeps == \A k \in Kinds, o \in Objects :
                      worker[k].at = o /\ worker[k].hand.phase = "held" /\ worker'[k] # worker[k] =>
                        \A ns \in Permitted(o, worker[k].hand.spec) \cap worker[k].hand.spec.pdb :
                          MayUsePdb(o, ns) => MayUsePdb(o, ns)'
<1>1. Init => IInv
  <2>1. Init => KeepInv
    BY NoneAssumption DEF Init, KeepInv, InHand, Hand, Idle, Kinds
  <2> QED
    BY <2>1, TypeInit, PhaseInit, BindingInit, OutsideInit, ExtraInit, CacheInit, CompleteInit DEF RbacInv
<1>2. IInv /\ [Next]_vars => IInv'
  BY TypeStep, PhaseStep, BindingStep, OutsideStep, ExtraStep, CacheStep, CompleteStep, KeepStep
  DEF RbacInv
<1>3. IInv /\ [Next]_vars => [Keeps]_vars
  <2> SUFFICES ASSUME IInv, [Next]_vars, NEW k \in Kinds, NEW o \in Objects,
                      worker[k].at = o, worker[k].hand.phase = "held", worker'[k] # worker[k],
                      NEW spec, spec = worker[k].hand.spec, NEW ns \in Permitted(o, spec) \cap spec.pdb,
                      MayUsePdb(o, ns)
               PROVE  MayUsePdb(o, ns)'
    OBVIOUS
  <2>1. worker[k] \in Pass /\ Kind[o] = k /\ Hand(o) = worker[k] /\ InHand(o) /\ spec \in Requests
    BY NoneAssumption DEF RbacInv, TypeInv, PassInv, Idle, Pass, Object, Hand, InHand
  <2>2. object[o].phase # "gone" /\ PassKeeps(o) /\ PassComplete(o)
    BY <2>1 DEF RbacInv, PhaseInv, PassFits, KeepInv, CompleteInv, CompleteFor
  <2>3. <<ns, Name[o], "pdb">> \in Asked(o, spec) /\ <<ns, Name[o], "base">> \in Asked(o, spec)
    BY DEF Asked, DesiredBindings
  <2>4. ASSUME NEW b \in Labelled(o) \cap Asked(o, spec) PROVE b \in Labelled(o)'
    BY <2>1, <2>2, <2>4, LabelledStays DEF RbacInv, PassKeeps
  <2>5. CASE <<ns, Name[o], "pdb">> \in HeldBy(o) /\ roles["pdb"] # "absent"
    <3>1. <<ns, Name[o], "pdb">> \in Labelled(o)
      BY <2>5 DEF HeldBy, Labelled, RbacInv, BindingInv, Proper
    <3>2. <<ns, Name[o], "pdb">> \in Labelled(o)' /\ roles'["pdb"] # "absent"
      BY <2>3, <2>4, <2>5, <3>1, RolesStay DEF RbacInv, Grants
    <3> QED
      BY <3>2 DEF MayUsePdb, HeldBy, Labelled
  <2>6. CASE <<ns, Name[o], "base">> \in Labelled(o) /\ roles["base"] = "wide"
    <3>1. CASE roles'["base"] = "wide"
      BY <2>3, <2>4, <2>6, <3>1 DEF MayUsePdb
    <3>2. CASE roles'["base"] # "wide"
      <4>1. Hand(o).pc = "writeBase"
        BY <2>1, <2>6, <3>2, Narrowed DEF RbacInv
      <4>2. <<ns, Name[o], "pdb">> \in Labelled(o)' /\ roles["pdb"] = "exact"
        BY <2>1, <2>2, <2>3, <2>4, <4>1 DEF PassKeeps, PassComplete, Provisioning
      <4>3. roles'["pdb"] # "absent"
        BY <4>2, RolesStay DEF RbacInv, Grants
      <4> QED
        BY <4>2, <4>3 DEF MayUsePdb, HeldBy, Labelled
    <3> QED
      BY <3>1, <3>2
  <2> QED
    BY <2>5, <2>6 DEF MayUsePdb
<1> HIDE DEF IInv
<1> QED
  BY <1>1, <1>2, <1>3, PTL DEF Spec, GrantsBeforeItRevokes
=============================================================================
