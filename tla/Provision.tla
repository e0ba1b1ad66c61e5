------------------------------ MODULE Provision ------------------------------
(***************************************************************************)
(* From a spec to a running manager: the config Secret, the manager        *)
(* Deployment and the status of one object whose runners are registered.   *)
(*                                                                         *)
(* A pass renders config.toml, compares it with the Secret, then the       *)
(* Deployment with what it wants, and writes at most one of the two before *)
(* it asks for the next pass; the pass that finds nothing to write reports *)
(* the object ready.  All reads come from informers that lag behind the    *)
(* API server each at its own pace, while users edit the object, change    *)
(* what the operator wrote, or rotate the CA bundle.                       *)
(*                                                                         *)
(* Written from Secret, Deployment and ManagerPodShape in                  *)
(* internal/validate, internal/generate/config.go, resolveCABundle in      *)
(* internal/controller/shared.go, and Reconcile and SetupWithManager.      *)
(*                                                                         *)
(* Abstractions: a spec is the options that config.toml is rendered from,  *)
(* whether it names a CA bundle, and the shape of the manager pod;         *)
(* a generation is identified with the spec it stands for; a               *)
(* resourceVersion is the latest unless the informer is behind.            *)
(***************************************************************************)
EXTENDS Naturals

CONSTANTS
  Specs,    \* the specs users write: [options, ca, shape]
  Bundles,  \* contents of the CA bundle that a spec may name
  Stored,   \* the shape the cluster stores for the shape it is sent
  Events,   \* the kinds of events a run may contain
  MaxEvents,\* how many of them: a bound of the model
  None,     \* no bundle, Secret, Deployment, version
  Missing   \* the bundle that a spec names cannot be read

Shapes == {s.shape : s \in Specs}
StoredShapes == {Stored[s] : s \in Shapes}

ASSUME SpecsAssumption == \A s \in Specs : s.ca \in BOOLEAN
ASSUME StoredAssumption == Shapes \subseteq DOMAIN Stored
ASSUME EventsAssumption == MaxEvents \in Nat
\* What the cluster has stored it stores as it is.
ASSUME IdempotenceAssumption == \A s \in Shapes : Stored[s] \in Shapes => Stored[Stored[s]] = Stored[s]

VARIABLES
  obj,         \* the object in the API server: its spec and its status
  source,      \* the CA bundle in its ConfigMap or Secret, which nothing watches
  secret,      \* the content of the config Secret
  deployment,  \* the manager Deployment
  cache,       \* the informers' copies of obj, secret and deployment
  behind,      \* the informers that are not up to date
  news,        \* those whose undelivered changes bring the object back
  queued,      \* the object waits for a pass
  pc,          \* the step of the pass, "idle" between passes
  hand,        \* the object the pass works on
  config,      \* the content it rendered
  happened     \* how many events happened so far

apiVars == <<obj, source, secret, deployment>>
informerVars == <<cache, behind, news>>
passVars == <<pc, hand, config>>
vars == <<apiVars, informerVars, queued, passVars, happened>>

Kinds == {"object", "secret", "deployment"}

\* config.toml by the options it is rendered from, with the bundle beside it.
Configs == [options : {s.options : s \in Specs}, ca : Bundles \cup {None}]
Versions == Configs \cup {None}

\* observed: the generation the status speaks of; version: its config hash.
Object == [spec : Specs, observed : Specs \cup {None}, version : Versions, ready : BOOLEAN]

\* version: the annotation of the Deployment; systemId: that of its pod template.
Deployment == [version : Configs, systemId : BOOLEAN, shape : StoredShapes]
Deployments == Deployment \cup {None}

ASSUME NoneAssumption ==
  /\ None \notin Bundles /\ None \notin Configs /\ None \notin Object /\ None \notin Deployment
  /\ Missing \notin Bundles \cup {None}

TypeOK ==
  /\ obj \in Object /\ hand \in Object \cup {None}
  /\ pc # "idle" => hand # None
  /\ source \in Bundles \cup {Missing}
  /\ secret \in Configs \cup {None} /\ config \in Configs \cup {None}
  /\ deployment \in Deployments
  /\ cache \in [object : Object, secret : Configs \cup {None}, deployment : Deployments]
  /\ news \subseteq behind /\ behind \subseteq Kinds
  /\ queued \in BOOLEAN /\ happened \in 0 .. MaxEvents
  /\ pc \in {"idle", "render", "secret", "deployment", "status"}

-----------------------------------------------------------------------------

Init ==
  /\ obj \in [spec : Specs, observed : {None}, version : {None}, ready : {FALSE}]
  /\ source \in Bundles
  /\ secret = None /\ deployment = None
  /\ cache = [object |-> obj, secret |-> None, deployment |-> None]
  /\ behind = {} /\ news = {} /\ queued = TRUE
  /\ pc = "idle" /\ hand = None /\ config = None /\ happened = 0

\* An event of a kind that the run may contain; every other step is routine.
Event(kind) == kind \in Events /\ happened < MaxEvents /\ happened' = happened + 1
Routine == UNCHANGED happened

\* kind changed in the API server; notify: the watch brings the object back for it.
Change(kind, notify) ==
  /\ behind' = behind \cup {kind}
  /\ news' = IF notify THEN news \cup {kind} ELSE news
  /\ UNCHANGED cache

-----------------------------------------------------------------------------
(* Users, the cluster and the informers.                                   *)

Edit ==
  /\ Event("edit")
  /\ \E s \in Specs \ {obj.spec} : obj' = [obj EXCEPT !.spec = s]
  /\ Change("object", TRUE)
  /\ UNCHANGED <<source, secret, deployment, queued, passVars>>

\* The CA bundle is rotated, removed or put back.
ChangeSource ==
  /\ Event("source")
  /\ source' \in (Bundles \cup {Missing}) \ {source}
  /\ UNCHANGED <<obj, secret, deployment, informerVars, queued, passVars>>

DeleteSecret ==
  /\ Event("tamper") /\ secret # None
  /\ secret' = None
  /\ Change("secret", TRUE)
  /\ UNCHANGED <<obj, source, deployment, queued, passVars>>

DeleteDeployment ==
  /\ Event("tamper") /\ deployment # None
  /\ deployment' = None
  /\ Change("deployment", TRUE)
  /\ UNCHANGED <<obj, source, secret, queued, passVars>>

\* Somebody edits the pod template, or rolls it back to one that has no system id.
EditTemplate ==
  /\ Event("tamper") /\ deployment # None
  /\ \E s \in StoredShapes, id \in BOOLEAN :
       deployment' = [deployment EXCEPT !.shape = s, !.systemId = id]
  /\ deployment' # deployment
  /\ Change("deployment", TRUE)
  /\ UNCHANGED <<obj, source, secret, queued, passVars>>

Live == [object |-> obj, secret |-> secret, deployment |-> deployment]

Sync(kind) ==
  /\ kind \in behind /\ Routine
  /\ cache' = [cache EXCEPT ![kind] = Live[kind]]
  /\ behind' = behind \ {kind} /\ news' = news \ {kind}
  /\ queued' = (queued \/ kind \in news)
  /\ UNCHANGED <<apiVars, passVars>>

\* The operator restarts and lists everything.
Restart ==
  /\ Event("restart")
  /\ cache' = Live /\ behind' = {} /\ news' = {} /\ queued' = TRUE
  /\ pc' = "idle" /\ hand' = None /\ config' = None
  /\ UNCHANGED apiVars

\* A pass for another reason: the expiry of a token, or another object the operator owns.
Resync ==
  /\ Event("resync")
  /\ queued' = TRUE
  /\ UNCHANGED <<apiVars, informerVars, passVars>>

-----------------------------------------------------------------------------
(* A pass: Reconcile, from the CA bundle to the status.                    *)

Begin ==
  /\ pc = "idle" /\ queued
  /\ pc' = "render" /\ queued' = FALSE
  /\ hand' = [cache.object EXCEPT !.ready = FALSE, !.observed = cache.object.spec]
  /\ UNCHANGED <<apiVars, informerVars, config>>

\* The pass returns, with or without asking for another one.
Return(again) == pc' = "status" /\ queued' = (queued \/ again) /\ UNCHANGED config

RenderedAnyway(spec) == TRUE  \* bug: a bundle that is missing is rendered
\* resolveCABundle
CanRender(spec) == spec.ca => source # Missing

\* TomlConfig
Rendered(spec) == [options |-> spec.options, ca |-> IF spec.ca THEN source ELSE None]

\* The version is derived from what was just rendered, bundle included.
VersionOfStatus(content) ==  \* bug: the version the cached status has, if it has one
  IF hand.version = None THEN content ELSE hand.version
ConfigMapVersion(content) == content

Render ==
  /\ pc = "render"
  /\ IF CanRender(hand.spec)
       THEN /\ pc' = "secret" /\ config' = Rendered(hand.spec)
            /\ hand' = [hand EXCEPT !.version = ConfigMapVersion(config')]
            /\ UNCHANGED queued
       ELSE Return(TRUE) /\ UNCHANGED hand
  /\ UNCHANGED <<apiVars, informerVars>>

\* A write is applied unless the informer's copy, by which the pass decided, is old.
Current(kind) == kind \notin behind

\* validate.Secret: a create or an update, applied or refused, ends the pass.
ValidateSecret ==
  /\ pc = "secret"
  /\ IF cache.secret = config
       THEN pc' = "deployment" /\ UNCHANGED <<secret, informerVars, queued, config>>
       ELSE /\ Return(TRUE)
            /\ IF Current("secret") \/ (cache.secret = None /\ secret = None)
                 THEN secret' = config /\ Change("secret", TRUE)
                 ELSE UNCHANGED <<secret, informerVars>>
  /\ UNCHANGED <<obj, source, deployment, hand>>

\* A Deployment for the config in hand, with pods of a shape.
Manager(shape) == [version |-> hand.version, systemId |-> TRUE, shape |-> shape]
Wanted == Manager(hand.spec.shape)

ConfigDiffers(known) == known.version # Wanted.version \/ ~known.systemId  \* bug: the shape is not compared
\* The compare names what it compares: version, system id and ManagerPodShape.
Differs(known) == known.version # Wanted.version \/ ~known.systemId \/ known.shape # Wanted.shape

NeverSettled == FALSE  \* bug: an update that the cluster changes is repeated forever
\* The cluster did not store the shape as it was sent.
Settled == Stored[Wanted.shape] # Wanted.shape

StoreDeployment ==
  /\ deployment' = Manager(Stored[Wanted.shape])
  /\ IF deployment' = deployment THEN UNCHANGED informerVars ELSE Change("deployment", TRUE)

ReportReady == hand' = [hand EXCEPT !.ready = TRUE] /\ Return(FALSE)
ReturnUnready == UNCHANGED hand /\ Return(TRUE)

CreateDeployment ==
  /\ pc = "deployment" /\ cache.deployment = None
  /\ IF deployment = None THEN StoreDeployment ELSE UNCHANGED <<deployment, informerVars>>
  /\ ReturnUnready
  /\ UNCHANGED <<obj, source, secret>>

UpdateDeployment ==
  /\ pc = "deployment" /\ cache.deployment # None /\ Differs(cache.deployment)
  /\ IF Current("deployment")
       THEN StoreDeployment /\ IF Settled THEN ReportReady ELSE ReturnUnready
       ELSE UNCHANGED <<deployment, informerVars>> /\ ReturnUnready
  /\ UNCHANGED <<obj, source, secret>>

DeploymentUpToDate ==
  /\ pc = "deployment" /\ cache.deployment # None /\ ~Differs(cache.deployment)
  /\ ReportReady
  /\ UNCHANGED <<apiVars, informerVars>>

\* A call fails: the pass is tried again.
Fail ==
  /\ Event("fail") /\ pc \in {"render", "secret", "deployment"}
  /\ ReturnUnready
  /\ UNCHANGED <<apiVars, informerVars>>

\* The deferred function compares with the cached status, and retries on a conflict.
\* While the cache is behind it may find nothing to do, or give up.
NothingToWrite == [hand EXCEPT !.spec = cache.object.spec] = cache.object

DeferredStatus ==
  /\ pc = "status" /\ pc' = "idle"
  /\ Current("object") \/ ("staleStatus" \in Events /\ NothingToWrite) \/ "givesUp" \in Events
  /\ IF Current("object") /\ ~NothingToWrite
       THEN obj' = [hand EXCEPT !.spec = obj.spec] /\ Change("object", FALSE)
       ELSE UNCHANGED <<obj, informerVars>>
  /\ hand' = None /\ config' = None
  /\ UNCHANGED <<source, secret, deployment, queued>>

-----------------------------------------------------------------------------

Pass ==
  /\ Routine
  /\ \/ Begin \/ Render \/ ValidateSecret
     \/ CreateDeployment \/ UpdateDeployment \/ DeploymentUpToDate \/ DeferredStatus

Users == \/ Edit \/ ChangeSource \/ DeleteSecret \/ DeleteDeployment \/ EditTemplate \/ Resync

Next == \/ Pass \/ Fail \/ Users \/ Restart
        \/ \E kind \in Kinds : Sync(kind)

Spec == Init /\ [][Next]_vars

\* Passes go on and informers catch up.
FairSpec ==
  /\ Spec
  /\ WF_vars(Pass) /\ \A kind \in Kinds : WF_vars(Sync(kind))

-----------------------------------------------------------------------------
(* Properties.                                                             *)

\* No pass will look at the object again until something happens.
Quiet == pc = "idle" /\ ~queued /\ behind = {}

\* When all is quiet the Secret holds the options of the spec and a bundle if it
\* names one, and the Deployment was rolled for that very content, with the system
\* id and the shape of the spec as the cluster stores it: whatever edits, repairs,
\* conflicts and lagging informers came in between.
RestsProvisioned ==
  Quiet => /\ secret # None /\ deployment # None
           /\ secret.options = obj.spec.options /\ (secret.ca # None <=> obj.spec.ca)
           /\ deployment = [version |-> secret, systemId |-> TRUE, shape |-> Stored[obj.spec.shape]]

\* When all is quiet the status says so: ready, for this spec, at this version.
RestsReady == Quiet => obj.ready /\ obj.observed = obj.spec /\ obj.version = secret

\* Once users are done the operator comes to rest, unless the bundle is missing:
\* neither its own writes nor what the cluster makes of them keep it busy.
Settles == <>[](Quiet \/ ~CanRender(obj.spec))
=============================================================================
