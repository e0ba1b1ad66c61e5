--------------------------- MODULE ProvisionProofs ---------------------------
(***************************************************************************)
(* That an object that is left alone is provisioned, and says so, proved   *)
(* for all specs, bundles, ways of storing a shape and kinds of events.    *)
(*                                                                         *)
(* What rests was left by a pass that found nothing to write.  The         *)
(* inductive invariant says what such a pass has established by each of    *)
(* its steps, unless another pass is to come, and that an informer which   *)
(* has not caught up with what matters will bring one.                     *)
(***************************************************************************)
EXTENDS Provision, TLAPS

-----------------------------------------------------------------------------
(* Types.                                                                  *)

\* The pass works on an object, and has rendered a config for it.
PassInv ==
  /\ pc # "idle" => hand \in Object
  /\ pc \in {"secret", "deployment"} =>
       /\ config \in Configs /\ hand.version = config
       /\ config.options = hand.spec.options /\ (config.ca # None <=> hand.spec.ca)

TypeInv == TypeOK /\ PassInv

\* What a pass wants is a Deployment, once stored.
LEMMA WantedType ==
  ASSUME TypeInv, pc = "deployment"
  PROVE  /\ Wanted.version = config /\ Wanted.systemId /\ Wanted.shape \in Shapes
         /\ Manager(Stored[Wanted.shape]) \in Deployment
         /\ Manager(Stored[Wanted.shape]) =
              [version |-> config, systemId |-> TRUE, shape |-> Stored[hand.spec.shape]]
<1>1. hand \in Object /\ config \in Configs /\ hand.version = config
  BY DEF TypeInv, PassInv
<1>2. hand.spec.shape \in Shapes
  BY <1>1 DEF Object, Shapes
<1>3. Stored[hand.spec.shape] \in StoredShapes
  BY <1>2 DEF StoredShapes
<1> QED
  BY <1>1, <1>2, <1>3 DEF Wanted, Manager, Deployment

\* An event or a routine step counts within the bound.
LEMMA Counts ==
  ASSUME TypeOK, Routine \/ \E kind : Event(kind)
  PROVE  happened' \in 0 .. MaxEvents
  BY EventsAssumption DEF TypeOK, Routine, Event

\* The initial states have the types.
LEMMA TypeInit == Init => TypeInv
<1> SUFFICES ASSUME Init PROVE TypeInv
  OBVIOUS
<1>1. obj \in Object
  BY DEF Init, Object, Versions
<1>2. cache \in [object : Object, secret : Configs \cup {None}, deployment : Deployments]
  BY <1>1 DEF Init, Deployments
<1> QED
  BY <1>1, <1>2, EventsAssumption DEF Init, TypeInv, TypeOK, PassInv, Deployments

\* Every step keeps the types.
LEMMA TypeStep == TypeInv /\ [Next]_vars => TypeInv'
<1> SUFFICES ASSUME TypeInv, [Next]_vars PROVE TypeInv'
  OBVIOUS
<1> USE DEF TypeInv, TypeOK, apiVars, informerVars, passVars
<1>1. ASSUME happened' \in 0 .. MaxEvents, behind' \subseteq Kinds, news' \subseteq behind',
             cache' \in [object : Object, secret : Configs \cup {None}, deployment : Deployments],
             obj' \in Object, source' \in Bundles \cup {Missing}, secret' \in Configs \cup {None},
             deployment' \in Deployments, queued' \in BOOLEAN, UNCHANGED passVars
      PROVE  TypeInv'
  BY <1>1 DEF PassInv
<1>2. ASSUME NEW kind \in Kinds, NEW notify \in BOOLEAN, Change(kind, notify)
      PROVE  news' \subseteq behind' /\ behind' \subseteq Kinds /\ cache' = cache
  BY <1>2 DEF Change
<1>3. "object" \in Kinds /\ "secret" \in Kinds /\ "deployment" \in Kinds
  BY DEF Kinds
<1>4. CASE Users
  <2>1. happened' \in 0 .. MaxEvents
    <3>1. \E kind : Event(kind)
      BY <1>4 DEF Users, Edit, ChangeSource, DeleteSecret, DeleteDeployment, EditTemplate, Resync
    <3> QED
      BY <3>1, Counts
  <2>2. CASE Edit
    <3>1. obj' \in Object
      BY <2>2 DEF Edit, Object
    <3> QED
      BY <1>1, <1>2, <1>3, <2>1, <2>2, <3>1 DEF Edit
  <2>3. CASE ChangeSource \/ Resync
    BY <1>1, <2>1, <2>3 DEF ChangeSource, Resync
  <2>4. CASE DeleteSecret
    BY <1>1, <1>2, <1>3, <2>1, <2>4 DEF DeleteSecret
  <2>5. CASE DeleteDeployment
    BY <1>1, <1>2, <1>3, <2>1, <2>5 DEF DeleteDeployment, Deployments
  <2>6. CASE EditTemplate
    <3>1. deployment' \in Deployments
      BY <2>6 DEF EditTemplate, Deployments, Deployment
    <3> QED
      BY <1>1, <1>2, <1>3, <2>1, <2>6, <3>1 DEF EditTemplate
  <2> QED
    BY <1>4, <2>2, <2>3, <2>4, <2>5, <2>6 DEF Users
<1>5. ASSUME NEW kind \in Kinds, Sync(kind)
      PROVE  TypeInv'
  <2>1. cache' \in [object : Object, secret : Configs \cup {None}, deployment : Deployments]
    BY <1>5 DEF Sync, Live, Kinds
  <2> QED
    BY <1>1, <1>5, <2>1 DEF Sync, Routine
<1>6. CASE Restart
  BY <1>6, EventsAssumption DEF Restart, Live, Event, PassInv
<1>7. CASE Fail
  <2>1. happened' \in 0 .. MaxEvents
    BY <1>7, EventsAssumption DEF Fail, Event
  <2> QED
    BY <1>7, <2>1 DEF Fail, ReturnUnready, Return, PassInv
<1>8. CASE Routine /\ Begin
  <2>1. hand' \in Object
    BY <1>8 DEF Begin, Object
  <2> QED
    BY <1>8, <2>1, NoneAssumption DEF Begin, Routine, PassInv
<1>9. CASE Routine /\ Render
  <2>1. CASE CanRender(hand.spec)
    <3>1. hand \in Object /\ hand.spec \in Specs /\ hand.spec.ca \in BOOLEAN
      BY <1>9, SpecsAssumption DEF Render, PassInv, Object
    <3>2. config' = Rendered(hand.spec) /\ hand' = [hand EXCEPT !.version = config'] /\ pc' = "secret"
      BY <1>9, <2>1 DEF Render, ConfigMapVersion
    <3>3. /\ config' \in Configs /\ config'.options = hand.spec.options
          /\ config'.ca # None <=> hand.spec.ca
      BY <2>1, <3>1, <3>2, NoneAssumption DEF Rendered, CanRender, Configs
    <3>4. hand' \in Object /\ hand'.version = config' /\ hand'.spec = hand.spec
      BY <3>1, <3>2, <3>3 DEF Object, Versions
    <3> QED
      BY <1>9, <2>1, <3>2, <3>3, <3>4, NoneAssumption DEF Render, Routine, PassInv
  <2>2. CASE ~CanRender(hand.spec)
    BY <1>9, <2>2 DEF Render, Return, Routine, PassInv
  <2> QED
    BY <2>1, <2>2
<1>10. CASE Routine /\ ValidateSecret
  <2>1. CASE cache.secret = config
    BY <1>10, <2>1 DEF ValidateSecret, Routine, PassInv
  <2>2. CASE cache.secret # config
    <3>1. UNCHANGED <<secret, informerVars>> \/ (secret' = config /\ Change("secret", TRUE))
      BY <1>10, <2>2 DEF ValidateSecret
    <3>2. news' \subseteq behind' /\ behind' \subseteq Kinds /\ cache' = cache /\ secret' \in Configs \cup {None}
      BY <1>2, <1>3, <1>10, <3>1 DEF ValidateSecret, PassInv
    <3> QED
      BY <1>10, <2>2, <3>2 DEF ValidateSecret, Return, Routine, PassInv
  <2> QED
    BY <2>1, <2>2
<1>11. CASE Routine /\ (CreateDeployment \/ UpdateDeployment \/ DeploymentUpToDate)
  <2>1. pc = "deployment" /\ hand \in Object /\ pc' = "status" /\ queued' \in BOOLEAN /\ config' = config
    BY <1>11 DEF CreateDeployment, UpdateDeployment, DeploymentUpToDate, ReportReady, ReturnUnready,
                 Return, PassInv
  <2>2. hand' \in Object /\ UNCHANGED <<obj, source, secret, happened>>
    BY <1>11, <2>1
    DEF CreateDeployment, UpdateDeployment, DeploymentUpToDate, ReportReady, ReturnUnready, Object, Routine
  <2>3. StoreDeployment \/ UNCHANGED <<deployment, informerVars>>
    BY <1>11 DEF CreateDeployment, UpdateDeployment, DeploymentUpToDate
  <2>4. news' \subseteq behind' /\ behind' \subseteq Kinds /\ cache' = cache /\ deployment' \in Deployments
    BY <1>2, <1>3, <2>1, <2>3, WantedType DEF StoreDeployment, Deployments
  <2> QED
    BY <2>1, <2>2, <2>4, NoneAssumption DEF PassInv
<1>12. CASE Routine /\ DeferredStatus
  <2>1. obj' \in Object
    BY <1>12 DEF DeferredStatus, PassInv, Object
  <2>2. news' \subseteq behind' /\ behind' \subseteq Kinds /\ cache' = cache
    BY <1>2, <1>3, <1>12 DEF DeferredStatus
  <2> QED
    BY <1>12, <2>1, <2>2 DEF DeferredStatus, Routine, PassInv
<1>13. CASE UNCHANGED vars
  BY <1>1, <1>13 DEF vars
<1> QED
  BY <1>4, <1>5, <1>6, <1>7, <1>8, <1>9, <1>10, <1>11, <1>12, <1>13 DEF Next, Pass

\* Every reachable state has the types of TypeOK.
THEOREM TypeCorrect == Spec => []TypeOK
<1>1. TypeInv => TypeOK
  BY DEF TypeInv
<1> QED
  BY TypeInit, TypeStep, <1>1, PTL DEF Spec

-----------------------------------------------------------------------------
(* What a pass establishes.                                                *)

\* An informer shows what is there, or will bring the object back.  (Of the object only
\* the spec matters: a status that is written brings nothing back.)
InformedInv ==
  /\ \A kind \in Kinds \ behind : cache[kind] = Live[kind]
  /\ "object" \notin news => cache.object.spec = obj.spec
  /\ "secret" \notin news => cache.secret = secret
  /\ "deployment" \notin news => cache.deployment = deployment

\* Another pass is to come.
Pending == queued \/ news # {}

\* The Secret and the Deployment are what the spec asks for.
Provisioned ==
  /\ secret # None /\ deployment # None
  /\ secret.options = obj.spec.options /\ (secret.ca # None <=> obj.spec.ca)
  /\ deployment = [version |-> secret, systemId |-> TRUE, shape |-> Stored[obj.spec.shape]]

\* A status that reports so.
Reports(o) == o.ready /\ o.observed = obj.spec /\ o.version = secret

WorkInv ==
  /\ pc # "idle" => hand.observed = hand.spec
  /\ ~Pending =>
       /\ pc \in {"render", "secret", "deployment"} => hand.spec = obj.spec
       /\ pc = "deployment" => secret = config
       /\ pc \in {"status", "idle"} => Provisioned
       /\ pc = "status" => Reports(hand)

\* The status that the last pass has left, when it was written.
StatusInv == pc = "idle" /\ ~Pending => Reports(obj)

\* Initially the object is queued: nothing has been done yet.
LEMMA WorkInit == Init => InformedInv /\ WorkInv /\ StatusInv
  BY DEF Init, InformedInv, WorkInv, StatusInv, Pending, Kinds, Live

\* What changes is watched.
LEMMA Informs ==
  ASSUME TypeInv, InformedInv, NEW kind \in Kinds, cache' = cache, behind' = behind \cup {kind},
         news \subseteq news', kind \in news' \/ (kind = "object" /\ obj'.spec = obj.spec),
         kind # "object" => obj' = obj,
         kind # "secret" => secret' = secret,
         kind # "deployment" => deployment' = deployment
  PROVE  InformedInv'
<1>1. ASSUME NEW other \in Kinds \ behind' PROVE cache'[other] = Live'[other]
  BY <1>1 DEF InformedInv, Live, Kinds
<1>2. ("object" \notin news' => cache'.object.spec = obj'.spec)
  BY DEF InformedInv
<1>3. ("secret" \notin news' => cache'.secret = secret')
  BY DEF InformedInv
<1>4. ("deployment" \notin news' => cache'.deployment = deployment')
  BY DEF InformedInv
<1> QED
  BY <1>1, <1>2, <1>3, <1>4 DEF InformedInv

\* No change of what the controller watches goes without news of it.
LEMMA InformedStep == TypeInv /\ InformedInv /\ [Next]_vars => InformedInv'
<1> SUFFICES ASSUME TypeInv, InformedInv, [Next]_vars PROVE InformedInv'
  OBVIOUS
<1> USE DEF apiVars, informerVars, passVars
<1>0. "object" \in Kinds /\ "secret" \in Kinds /\ "deployment" \in Kinds
  BY DEF Kinds
<1>1. CASE UNCHANGED <<obj, secret, deployment, informerVars>>
  BY <1>1 DEF InformedInv, Live
<1>2. CASE Change("object", TRUE) /\ UNCHANGED <<secret, deployment>>
  BY <1>0, <1>2, Informs DEF Change
<1>3. CASE Change("object", FALSE) /\ obj'.spec = obj.spec /\ UNCHANGED <<secret, deployment>>
  BY <1>0, <1>3, Informs DEF Change
<1>4. CASE Change("secret", TRUE) /\ UNCHANGED <<obj, deployment>>
  BY <1>0, <1>4, Informs DEF Change
<1>5. CASE Change("deployment", TRUE) /\ UNCHANGED <<obj, secret>>
  BY <1>0, <1>5, Informs DEF Change
<1>6. ASSUME NEW kind \in Kinds, Sync(kind)
      PROVE  InformedInv'
  <2>1. /\ cache' = [cache EXCEPT ![kind] = Live[kind]] /\ UNCHANGED <<obj, secret, deployment>>
        /\ behind' = behind \ {kind} /\ news' = news \ {kind}
    BY <1>6 DEF Sync
  <2> QED
    BY <2>1 DEF InformedInv, Live, Kinds, TypeInv, TypeOK
<1>7. CASE Restart
  BY <1>7 DEF Restart, InformedInv, Live, Kinds
<1>8. CASE DeferredStatus
  <2>1. [hand EXCEPT !.spec = obj.spec].spec = obj.spec
    BY <1>8 DEF DeferredStatus, TypeInv, PassInv, Object
  <2> QED
    BY <1>1, <1>3, <1>8, <2>1 DEF DeferredStatus
<1> QED
  BY <1>1, <1>2, <1>4, <1>5, <1>6, <1>7, <1>8
  DEF Next, Pass, Users, Edit, ChangeSource, DeleteSecret, DeleteDeployment, EditTemplate, Resync, Fail,
      Begin, Render, ValidateSecret, CreateDeployment, UpdateDeployment, DeploymentUpToDate,
      StoreDeployment, vars

\* What a pass finds right is right, unless another pass is to come: a Deployment that is
\* as the pass wants it is as the cluster stores it.
LEMMA FoundRight ==
  ASSUME TypeInv, InformedInv, WorkInv, ~Pending, pc = "deployment",
         \/ cache.deployment # None /\ ~Differs(cache.deployment)
         \/ deployment = Manager(Stored[Wanted.shape])
  PROVE  Provisioned
<1>1. /\ hand.spec = obj.spec /\ secret = config /\ config \in Configs /\ hand \in Object
      /\ cache.deployment = deployment /\ deployment \in Deployments /\ obj.spec \in Specs
      /\ config.options = hand.spec.options /\ (config.ca # None <=> hand.spec.ca)
  BY DEF WorkInv, Pending, InformedInv, TypeInv, TypeOK, PassInv, Object
<1>2. deployment = [version |-> config, systemId |-> TRUE, shape |-> Stored[hand.spec.shape]]
  <2>1. CASE cache.deployment # None /\ ~Differs(cache.deployment)
    <3>1. /\ deployment \in Deployment /\ deployment.version = config /\ deployment.systemId
          /\ deployment.shape = hand.spec.shape /\ hand.spec.shape \in Shapes
      BY <1>1, <2>1, WantedType DEF Differs, Deployments, Deployment, Wanted, Manager
    <3>2. PICK s \in Shapes : deployment.shape = Stored[s]
      BY <3>1 DEF Deployment, StoredShapes
    <3>3. Stored[hand.spec.shape] = hand.spec.shape
      BY <3>1, <3>2, IdempotenceAssumption
    <3> QED
      BY <3>1, <3>3 DEF Deployment
  <2> QED
    BY <2>1, WantedType
<1>3. deployment # None /\ secret # None
  BY <1>1, <1>2, WantedType, NoneAssumption
<1> QED
  BY <1>1, <1>2, <1>3 DEF Provisioned

\* What a pass has seen to stays so, or something brings the object back.
LEMMA WorkStep == TypeInv /\ InformedInv /\ WorkInv /\ [Next]_vars => WorkInv'
<1> SUFFICES ASSUME TypeInv, InformedInv, WorkInv, [Next]_vars PROVE WorkInv'
  OBVIOUS
<1> USE DEF apiVars, informerVars, passVars
<1>0. ASSUME NEW kind, Change(kind, TRUE) PROVE Pending'
  BY <1>0 DEF Change, Pending
<1>1. CASE Users \/ Fail
  <2>1. (pc' # "idle" => hand'.observed = hand'.spec)
    BY <1>1 DEF WorkInv, Users, Edit, ChangeSource, DeleteSecret, DeleteDeployment, EditTemplate, Resync,
                Fail, ReturnUnready, Return
  <2>2. Pending' \/ UNCHANGED <<obj, secret, deployment, news, queued, passVars>>
    BY <1>0, <1>1 DEF Users, Edit, ChangeSource, DeleteSecret, DeleteDeployment, EditTemplate, Resync, Fail,
                ReturnUnready, Return, Pending
  <2> QED
    BY <2>1, <2>2 DEF WorkInv, Pending, Provisioned, Reports
<1>2. ASSUME NEW kind \in Kinds, Sync(kind)
      PROVE  WorkInv'
  <2>1. (Pending => Pending') /\ UNCHANGED <<obj, secret, deployment, passVars>>
    BY <1>2 DEF Sync, Pending
  <2> QED
    BY <2>1 DEF WorkInv, Provisioned, Reports
<1>3. CASE Restart
  BY <1>3 DEF Restart, WorkInv, Pending
<1>4. CASE Begin
  <2>1. hand'.observed = hand'.spec /\ hand'.spec = cache.object.spec /\ pc' = "render"
    BY <1>4 DEF Begin, TypeInv, TypeOK, Object
  <2>2. news' = {} => cache.object.spec = obj'.spec
    BY <1>4 DEF Begin, InformedInv
  <2> QED
    BY <2>1, <2>2 DEF WorkInv, Pending
<1>5. CASE Render
  <2>1. hand \in Object
    BY <1>5 DEF Render, TypeInv, PassInv
  <2>2. /\ hand'.spec = hand.spec /\ hand'.observed = hand.observed
        /\ (pc' = "secret" /\ UNCHANGED queued) \/ (pc' = "status" /\ queued')
    BY <1>5, <2>1 DEF Render, Return, Object
  <2> QED
    BY <1>5, <2>2 DEF Render, WorkInv, Pending
<1>6. CASE ValidateSecret
  <2>1. CASE cache.secret = config
    <3>1. pc' = "deployment" /\ UNCHANGED <<obj, secret, news, queued, hand, config>>
      BY <1>6, <2>1 DEF ValidateSecret
    <3>2. ~Pending => secret = config
      BY <2>1 DEF InformedInv, Pending
    <3> QED
      BY <1>6, <3>1, <3>2 DEF ValidateSecret, WorkInv, Pending
  <2>2. CASE cache.secret # config
    BY <1>6, <2>2 DEF ValidateSecret, Return, WorkInv, Pending
  <2> QED
    BY <2>1, <2>2
<1>7. CASE CreateDeployment \/ UpdateDeployment \/ DeploymentUpToDate
  <2>1. /\ pc = "deployment" /\ pc' = "status" /\ UNCHANGED <<obj, secret>>
        /\ hand'.spec = hand.spec /\ hand'.observed = hand.observed /\ hand'.version = hand.version
        /\ hand.version = config
    BY <1>7 DEF CreateDeployment, UpdateDeployment, DeploymentUpToDate, ReportReady, ReturnUnready, Return,
                TypeInv, PassInv, Object
  <2> SUFFICES ASSUME ~Pending' PROVE Provisioned' /\ Reports(hand)'
    BY <2>1 DEF WorkInv
  <2>2. ~ReturnUnready
    BY DEF ReturnUnready, Return, Pending
  <2>3. ReportReady /\ (DeploymentUpToDate \/ (UpdateDeployment /\ StoreDeployment))
    BY <1>7, <2>2 DEF CreateDeployment, UpdateDeployment, DeploymentUpToDate
  <2>4. hand'.ready /\ queued' = queued
    BY <2>1, <2>3 DEF ReportReady, Return, TypeInv, TypeOK, PassInv, Object
  <2>5. UNCHANGED <<deployment, informerVars>>
        /\ \/ cache.deployment # None /\ ~Differs(cache.deployment)
           \/ deployment = Manager(Stored[Wanted.shape])
    BY <1>0, <2>3 DEF DeploymentUpToDate, StoreDeployment
  <2>6. ~Pending
    BY <2>4, <2>5 DEF Pending
  <2>7. Provisioned /\ secret = config /\ hand.spec = obj.spec /\ hand.observed = hand.spec
    BY <2>1, <2>5, <2>6, FoundRight DEF WorkInv
  <2> QED
    BY <2>1, <2>4, <2>5, <2>7 DEF Provisioned, Reports
<1>8. CASE DeferredStatus
  <2>1. /\ pc = "status" /\ pc' = "idle" /\ UNCHANGED <<secret, deployment, queued>> /\ obj'.spec = obj.spec
        /\ news' = news
    BY <1>8 DEF DeferredStatus, TypeInv, PassInv, Object, Change
  <2> QED
    BY <2>1 DEF WorkInv, Pending, Provisioned
<1>9. CASE UNCHANGED vars
  BY <1>9 DEF vars, WorkInv, Pending, Provisioned, Reports
<1> QED
  BY <1>1, <1>2, <1>3, <1>4, <1>5, <1>6, <1>7, <1>8, <1>9 DEF Next, Pass

ProvisionInv == TypeInv /\ InformedInv /\ WorkInv

\* The inductive invariant: what each step of a pass has established, unless another pass
\* is to come.
THEOREM Invariant == Spec => []ProvisionInv
<1>1. Init => ProvisionInv
  BY TypeInit, WorkInit DEF ProvisionInv
<1>2. ProvisionInv /\ [Next]_vars => ProvisionInv'
  BY TypeStep, InformedStep, WorkStep DEF ProvisionInv
<1> QED
  BY <1>1, <1>2, PTL DEF Spec

\* When all is quiet the Secret and the Deployment are what the spec asks for.
THEOREM Provisions == Spec => []RestsProvisioned
<1>1. ProvisionInv => RestsProvisioned
  BY DEF ProvisionInv, WorkInv, Pending, Provisioned, RestsProvisioned, Quiet, TypeInv, TypeOK
<1> QED
  BY <1>1, Invariant, PTL

\* When all is quiet the status reports it, if every status is written by a pass whose copy
\* of the object is the latest.
THEOREM SaysSo == "staleStatus" \notin Events /\ "givesUp" \notin Events => (Spec => []RestsReady)
<1> SUFFICES ASSUME "staleStatus" \notin Events, "givesUp" \notin Events PROVE Spec => []RestsReady
  OBVIOUS
<1>1. ProvisionInv /\ StatusInv /\ [Next]_vars => StatusInv'
  <2> SUFFICES ASSUME ProvisionInv, StatusInv, [Next]_vars, pc' = "idle", ~Pending' PROVE Reports(obj)'
    BY DEF StatusInv
  <2> USE DEF apiVars, informerVars, passVars
  <2>1. CASE DeferredStatus
    <3>1. /\ pc = "status" /\ ~Pending /\ hand \in Object /\ Current("object")
          /\ UNCHANGED <<secret, news, queued>>
      BY <2>1 DEF DeferredStatus, Pending, Change, ProvisionInv, TypeInv, PassInv
    <3>2. Reports(hand) /\ cache.object = obj
      BY <3>1 DEF ProvisionInv, WorkInv, InformedInv, Current, Kinds, Live
    <3>3. CASE NothingToWrite
      BY <2>1, <3>1, <3>2, <3>3 DEF DeferredStatus, NothingToWrite, Reports, Object
    <3>4. CASE ~NothingToWrite
      BY <2>1, <3>1, <3>2, <3>4 DEF DeferredStatus, Reports, Object
    <3> QED
      BY <3>3, <3>4
  <2>2. ASSUME NEW kind \in Kinds, Sync(kind) PROVE Reports(obj)'
    <3>1. (Pending => Pending') /\ UNCHANGED <<obj, secret, pc>>
      BY <2>2 DEF Sync, Pending
    <3> QED
      BY <3>1 DEF StatusInv, Reports
  <2>3. CASE Users
    <3>1. Pending' \/ UNCHANGED <<obj, secret, news, queued, pc>>
      BY <2>3 DEF Users, Edit, ChangeSource, DeleteSecret, DeleteDeployment, EditTemplate, Resync, Change,
                  Pending
    <3> QED
      BY <3>1 DEF StatusInv, Reports, Pending
  <2>4. CASE UNCHANGED vars
    BY <2>4 DEF vars, StatusInv, Reports, Pending
  <2>5. Restart => Pending'
    BY DEF Restart, Pending
  <2>6. ASSUME \/ Begin \/ Render \/ ValidateSecret \/ Fail
               \/ CreateDeployment \/ UpdateDeployment \/ DeploymentUpToDate
        PROVE  pc' # "idle"
    BY <2>6 DEF Begin, Render, ValidateSecret, Fail, CreateDeployment, UpdateDeployment, DeploymentUpToDate,
                ReportReady, ReturnUnready, Return
  <2> QED
    BY <2>1, <2>2, <2>3, <2>4, <2>5, <2>6 DEF Next, Pass
<1>2. ProvisionInv /\ StatusInv => RestsReady
  BY DEF ProvisionInv, StatusInv, TypeInv, TypeOK, Pending, RestsReady, Quiet, Reports
<1>3. Init => StatusInv
  BY WorkInit
<1> QED
  BY <1>1, <1>2, <1>3, Invariant, PTL DEF Spec
=============================================================================
