--------------------------- MODULE ManagedRunner ---------------------------
(***************************************************************************)
(* The life of one Runner or MultiRunner object and of the runners that    *)
(* the operator registers on GitLab for it.                                *)
(*                                                                         *)
(* One reconcile worker handles the object: a pass reads the object from   *)
(* the informer cache, recovers the tokens from the config Secret, makes   *)
(* sure that each unit (the one runner of a Runner, each entry of a        *)
(* MultiRunner) has a runner on GitLab, writes the tokens back into the    *)
(* config Secret and, when it returns, the object's status.  Every call to *)
(* GitLab or to the API server is a step of its own, and a user, GitLab    *)
(* and the caches take their steps in between.  Once the object is being   *)
(* deleted a pass deregisters its runners and drops the finalizer.         *)
(*                                                                         *)
(* Written from internal/controller/shared.go, runner_controller.go and    *)
(* multirunner_controller.go, internal/crud/crud.go,                       *)
(* internal/validate/validate.go and internal/api/gitlab.go.               *)
(*                                                                         *)
(* Abstractions: a runner's authentication token is identified with the    *)
(* runner; a resourceVersion is replaced by a flag that says whether a     *)
(* copy is the latest version; a status holds only the registration fields *)
(* (id and hash; a token's expiry belongs to the runner it was issued      *)
(* for).  The drain of the manager pods before deregistration is module    *)
(* Drain, the objects of RBAC are module Rbac.                             *)
(***************************************************************************)
EXTENDS Naturals, FiniteSets

CONSTANTS
  Entries,       \* names of the runner units: one for a Runner, the entries of a MultiRunner
  Opts,          \* create_options, up to their hash
  Ids,           \* the runners GitLab can create in a run: a bound of the model
  ByoRunner,     \* a runner the user registered; its token is given to the object
  BringYourOwn,  \* spec of a unit that uses the user's own token
  Absent,        \* spec of an entry the user removed
  None,          \* no runner, no token, no hash
  ApiScope,      \* the operator's access token may delete a runner by its id
  MaxAttempts,   \* maxDeleteAttempts
  MaxFaults,     \* how many faults a run may contain: a bound of the model
  Events         \* the kinds of events and faults a run may contain

ASSUME SentinelsAssumption ==
  /\ None \notin Ids \cup Opts \cup Entries \cup {ByoRunner, BringYourOwn, Absent}
  /\ ByoRunner \notin Ids
  /\ {BringYourOwn, Absent} \cap Opts = {} /\ BringYourOwn # Absent
ASSUME EntriesAssumption == IsFiniteSet(Entries)
ASSUME ScopeAssumption == ApiScope \in BOOLEAN
ASSUME AttemptsAssumption == MaxAttempts \in Nat \ {0}
ASSUME FaultsAssumption == MaxFaults \in Nat

VARIABLES
  obj,            \* the object in the API server
  cache,          \* the informer's copy of it
  cacheCurrent,   \* cache is the latest version
  secret,         \* the config Secret in the API server: the token of each unit
  secretCache,    \* the informer's copy of it
  secretCurrent,  \* secretCache is the latest version
  registered,     \* runners that exist on GitLab
  accepted,       \* those whose token GitLab still accepts
  expiring,       \* those whose token is within tokenRefreshThreshold of its expiry
  owner,          \* the unit each runner was created for, None for an id not used yet
  pc,             \* the step of the pass in progress, "idle" between passes
  hand,           \* the object the pass works on
  handCurrent,    \* hand has the latest resourceVersion
  found,          \* the tokens the pass recovered from the Secret
  tokens,         \* the tokens it resolved so far
  todo,           \* the units it has still to handle
  unit,           \* the unit whose runner it is creating
  created,        \* the runner GitLab just created for unit
  failed,         \* a deregistration failed in this pass
  faults          \* how many faults happened so far

apiVars == <<obj, cache, cacheCurrent>>
secretVars == <<secret, secretCache, secretCurrent>>
gitlabVars == <<registered, accepted, expiring, owner>>
localVars == <<found, tokens, todo, unit, created, failed>>
passVars == <<pc, hand, handCurrent, localVars>>
vars == <<apiVars, secretVars, gitlabVars, passVars, faults>>

Specs == Opts \cup {BringYourOwn, Absent}
Runners == Ids \cup {ByoRunner}
TokenMap == [Entries -> Runners \cup {None}]

Object == [exists : BOOLEAN, spec : [Entries -> Specs],
           id : [Entries -> Ids \cup {None}], hash : [Entries -> Opts \cup {None}],
           deleting : BOOLEAN, finalizer : BOOLEAN, attempts : 0 .. MaxAttempts]
ConfigSecret == [exists : BOOLEAN, tokens : TokenMap]
Steps == {"idle", "finalizer", "read", "ensure", "deleteOld", "create", "persist", "provision",
          "deferred", "recover", "deregister", "release"}

NoTokens == [e \in Entries |-> None]
NoSecret == [exists |-> FALSE, tokens |-> NoTokens]
NoObject == [exists |-> FALSE, spec |-> [e \in Entries |-> Absent],
             id |-> [e \in Entries |-> None], hash |-> [e \in Entries |-> None],
             deleting |-> FALSE, finalizer |-> FALSE, attempts |-> 0]

ApiType ==
  /\ obj \in Object /\ cache \in Object /\ cacheCurrent \in BOOLEAN
  /\ secret \in ConfigSecret /\ secretCache \in ConfigSecret /\ secretCurrent \in BOOLEAN
GitlabType ==
  /\ registered \in SUBSET Runners /\ accepted \in SUBSET registered
  /\ expiring \in SUBSET Ids
  /\ owner \in [Ids -> Entries \cup {None}]
PassType ==
  /\ pc \in Steps
  /\ hand \in Object /\ handCurrent \in BOOLEAN
  /\ found \in TokenMap /\ tokens \in TokenMap
  /\ todo \in SUBSET Entries
  /\ unit \in Entries \cup {None} /\ created \in Ids \cup {None}
  /\ pc \in {"deleteOld", "create", "persist"} => unit \in Entries /\ hand.spec[unit] \in Opts
  /\ pc = "persist" => created \in Ids
  /\ failed \in BOOLEAN

TypeOK == ApiType /\ GitlabType /\ PassType /\ faults \in 0 .. MaxFaults + 1

-----------------------------------------------------------------------------
(* Helpers.                                                                *)

Calm == faults' = faults
Fault(kind) == kind \in Events /\ faults < MaxFaults /\ faults' = faults + 1

\* A read from a cache: one that is behind the API server is a fault of the run.
CacheRead(current) == \/ current /\ Calm
                      \/ ~current /\ Fault("staleCache")

\* A write with the resourceVersion in hand is applied, or refused: on a
\* conflict (or because the object is gone), or because the API server fails.
\* A write whose response is lost ends the pass as a refused one does, and the
\* object then reads as after an applied one, so it adds no step of its own.
Applied(current) == current /\ Calm
Refused(current) == \/ ~current /\ Calm
                    \/ current /\ Fault("kubeError")

\* IsManaged of the unit's authentication: its spec holds create_options.
IsManaged(o, e) == o.spec[e] \in Opts

\* The runners GitLab holds for a unit.
RunnersOf(e) == {i \in Ids : i \in registered /\ owner[i] = e}

\* The outcomes of a call that removes runners from GitLab: what is gone, what
\* the call reports, and the fault that disturbed it, "none" if none did.
DeleteOutcomes(removed, allowed) ==
  LET effect == IF allowed THEN removed ELSE {}
  IN  {[gone |-> effect, ok |-> allowed, kind |-> "none"],
       [gone |-> {}, ok |-> FALSE, kind |-> "gitlabError"],
       [gone |-> effect, ok |-> FALSE, kind |-> "gitlabLost"]}

\* DeleteRunner: GitLab answers 403 or 404 to a token it does not accept, which
\* the operator takes for a runner that is already gone.
DeleteByToken(t) == DeleteOutcomes({t} \cap accepted, TRUE)

\* DeleteRunnerByID: refused without the api scope; 404 means already gone.
DeleteById(i) == DeleteOutcomes({i} \cap registered, ApiScope)

\* One outage may disturb two calls; it counts as a lost answer if it was one for either.
Worse(k, l) == IF "gitlabLost" \in {k, l} THEN "gitlabLost" ELSE k

\* A deregistration: by token when the pass has one; by id when it has none or
\* when the call by token failed.
Deregister(t, i) ==
  IF t = None THEN DeleteById(i)
  ELSE {r \in DeleteByToken(t) : r.ok}
         \cup {[gone |-> p[1].gone \cup p[2].gone, ok |-> p[2].ok,
                kind |-> Worse(p[1].kind, p[2].kind)] :
                 p \in {q \in DeleteByToken(t) \X DeleteById(i) : ~q[1].ok}}

\* Bug: the token outlives its runner.
TakeEffectOnce(r) ==
  /\ registered' = registered \ r.gone
  /\ UNCHANGED <<accepted, expiring, owner>>
  /\ IF r.kind = "none" THEN Calm ELSE Fault(r.kind)

\* The outcome r of a deregistration takes effect.
TakeEffect(r) ==
  /\ registered' = registered \ r.gone
  /\ accepted' = accepted \ r.gone
  /\ UNCHANGED <<expiring, owner>>
  /\ IF r.kind = "none" THEN Calm ELSE Fault(r.kind)

\* The pass returns: its local state is dropped.
EndPass ==
  /\ pc' = "idle"
  /\ hand' = NoObject /\ handCurrent' = FALSE
  /\ found' = NoTokens /\ tokens' = NoTokens
  /\ todo' = {} /\ unit' = None /\ created' = None /\ failed' = FALSE

\* The pass fails or is done: the deferred status update comes next.
ToDeferred == pc' = "deferred" /\ UNCHANGED <<handCurrent, localVars>>

\* A write by this pass: the copy in hand stays the latest, the cache lags.
WriteObject(o) == obj' = o /\ cacheCurrent' = FALSE /\ UNCHANGED cache

-----------------------------------------------------------------------------
(* The object at creation.                                                 *)

Init ==
  /\ obj \in {[NoObject EXCEPT !.exists = TRUE, !.spec = s] :
                s \in [Entries -> Opts \cup {BringYourOwn}]}
  /\ cache = obj /\ cacheCurrent = TRUE
  /\ secret = NoSecret /\ secretCache = NoSecret /\ secretCurrent = TRUE
  /\ registered = {ByoRunner} /\ accepted = {ByoRunner} /\ expiring = {}
  /\ owner = [i \in Ids |-> None]
  /\ pc = "idle" /\ hand = NoObject /\ handCurrent = FALSE
  /\ found = NoTokens /\ tokens = NoTokens /\ todo = {} /\ unit = None /\ created = None
  /\ failed = FALSE /\ faults = 0

-----------------------------------------------------------------------------
(* Users, GitLab and the caches.                                           *)

\* Someone else writes the object: no copy of it is the latest any more.
Overwrite(o) == obj' = o /\ cacheCurrent' = FALSE /\ handCurrent' = FALSE /\ UNCHANGED cache

\* In the normal course users act between passes; in the middle of one is a fault.
UserActs == \/ pc = "idle" /\ Calm
            \/ pc # "idle" /\ Fault("midPassEdit")

UserUnchanged == UNCHANGED <<secretVars, gitlabVars, pc, hand, localVars>>

\* A user changes the create_options of a managed unit.
EditOptions(e) ==
  /\ "editOptions" \in Events /\ UserActs
  /\ obj.exists /\ IsManaged(obj, e)
  /\ obj.deleting => pc # "idle"
  /\ \E s \in Opts \ {obj.spec[e]} : Overwrite([obj EXCEPT !.spec[e] = s])
  /\ UserUnchanged

\* A user replaces create_options by a token of their own, or the other way round.
SwitchMode(e) ==
  /\ Fault("modeSwitch")
  /\ obj.exists /\ ~obj.deleting /\ obj.spec[e] # Absent
  /\ \E s \in Opts \cup {BringYourOwn} :
       /\ (s \in Opts) # IsManaged(obj, e)
       /\ Overwrite([obj EXCEPT !.spec[e] = s])
  /\ UserUnchanged

\* A user removes an entry from a MultiRunner, which keeps at least one.
RemoveEntry(e) ==
  /\ Fault("entryRemoved")
  /\ obj.exists /\ ~obj.deleting /\ obj.spec[e] # Absent
  /\ \E f \in Entries \ {e} : obj.spec[f] # Absent
  /\ Overwrite([obj EXCEPT !.spec[e] = Absent])
  /\ UserUnchanged

\* A user deletes the object; without the finalizer it is gone at once.
DeleteObject ==
  /\ "delete" \in Events /\ UserActs
  /\ obj.exists /\ ~obj.deleting
  /\ Overwrite(IF obj.finalizer THEN [obj EXCEPT !.deleting = TRUE]
                                ELSE [obj EXCEPT !.exists = FALSE])
  /\ UserUnchanged

\* The config Secret is deleted: by hand, or by a foreground cascade.
DeleteSecret ==
  /\ Fault("secretDeleted")
  /\ secret.exists
  /\ secret' = NoSecret /\ secretCurrent' = FALSE
  /\ UNCHANGED <<secretCache, apiVars, gitlabVars, passVars>>

\* A user deletes a runner in GitLab.
UiDelete(i) ==
  /\ "uiDelete" \in Events /\ Calm
  /\ i \in registered
  /\ registered' = registered \ {i} /\ accepted' = accepted \ {i}
  /\ UNCHANGED <<expiring, owner, apiVars, secretVars, passVars>>

\* GitLab stops accepting the token of a runner that stays registered: the
\* token is reset or it expires.
Revoke(i) ==
  /\ Fault("revoke")
  /\ i \in accepted
  /\ accepted' = accepted \ {i}
  /\ UNCHANGED <<registered, expiring, owner, apiVars, secretVars, passVars>>

\* The token of a runner comes within tokenRefreshThreshold of its expiry.
NearExpiry(i) ==
  /\ "expiry" \in Events /\ Calm
  /\ i \in registered \ expiring
  /\ expiring' = expiring \cup {i}
  /\ UNCHANGED <<registered, accepted, owner, apiVars, secretVars, passVars>>

\* The informers catch up with the API server.
SyncObject ==
  /\ ~cacheCurrent /\ Calm
  /\ cache' = obj /\ cacheCurrent' = TRUE
  /\ UNCHANGED <<obj, secretVars, gitlabVars, passVars>>

SyncSecret ==
  /\ ~secretCurrent /\ Calm
  /\ secretCache' = secret /\ secretCurrent' = TRUE
  /\ UNCHANGED <<secret, apiVars, gitlabVars, passVars>>

\* The operator restarts in the middle of a pass and lists everything anew.
Crash ==
  /\ Fault("crash")
  /\ pc # "idle"
  /\ EndPass
  /\ cache' = obj /\ cacheCurrent' = TRUE
  /\ secretCache' = secret /\ secretCurrent' = TRUE
  /\ UNCHANGED <<obj, secret, gitlabVars>>

-----------------------------------------------------------------------------
(* A pass: Reconcile.                                                      *)

\* The first thing a pass does with the object it read.
FirstStepNoFinalizer(o) == IF o.deleting THEN "recover" ELSE "read"  \* bug: no finalizer
FirstStep(o) == IF o.deleting THEN "recover" ELSE IF o.finalizer THEN "read" ELSE "finalizer"

\* The pass reads the object.  A deleted object goes to finalizeDeletion, once
\* its manager pods are drained: a pass that finds them running changes nothing.
BeginPass ==
  /\ pc = "idle" /\ cache.exists /\ CacheRead(cacheCurrent)
  /\ hand' = cache /\ handCurrent' = cacheCurrent
  /\ pc' = FirstStep(cache)
  /\ UNCHANGED <<apiVars, secretVars, gitlabVars, localVars>>

\* The first pass over an object only adds the finalizer.
AddFinalizer ==
  /\ pc = "finalizer"
  /\ \/ Applied(handCurrent) /\ WriteObject([obj EXCEPT !.finalizer = TRUE])
     \/ Refused(handCurrent) /\ UNCHANGED apiVars
  /\ ToDeferred
  /\ UNCHANGED <<hand, secretVars, gitlabVars>>

\* The allow-list refuses a build namespace, or the CA bundle cannot be resolved.
Preflight ==
  /\ pc = "read" /\ Calm
  /\ ToDeferred
  /\ UNCHANGED <<hand, apiVars, secretVars, gitlabVars>>

\* ensureRunners recovers the tokens of the last pass from the Secret.
ReadSecret ==
  /\ pc = "read" /\ CacheRead(secretCurrent)
  /\ pc' = "ensure" /\ found' = secretCache.tokens
  /\ todo' = {e \in Entries : hand.spec[e] # Absent}
  /\ UNCHANGED <<hand, handCurrent, tokens, unit, created, failed, apiVars, secretVars, gitlabVars>>

Resolve(e, t) ==
  /\ tokens' = [tokens EXCEPT ![e] = t]
  /\ todo' = todo \ {e}
  /\ pc' = "ensure"

\* A unit with the user's own token.
UseOwnToken(e) ==
  /\ pc = "ensure" /\ e \in todo /\ ~IsManaged(hand, e) /\ Calm
  /\ Resolve(e, ByoRunner)
  /\ UNCHANGED <<hand, handCurrent, found, unit, created, failed, apiVars, secretVars, gitlabVars>>

\* The runner of a managed unit is the desired one, and GitLab accepts its token.
UpToDate(e) ==
  /\ hand.id[e] # None /\ hand.hash[e] = hand.spec[e] /\ hand.id[e] \notin expiring
  /\ found[e] # None /\ found[e] \in accepted

KeepRunner(e) ==
  /\ pc = "ensure" /\ e \in todo /\ IsManaged(hand, e) /\ UpToDate(e) /\ Calm
  /\ Resolve(e, found[e])
  /\ UNCHANGED <<hand, handCurrent, found, unit, created, failed, apiVars, secretVars, gitlabVars>>

\* Bug: the replacement is created before the old runner is removed.
ReplaceUnremoved(e) ==
  /\ pc = "ensure" /\ e \in todo /\ IsManaged(hand, e) /\ ~UpToDate(e) /\ Calm
  /\ unit' = e /\ pc' = "create"
  /\ UNCHANGED <<hand, handCurrent, found, tokens, todo, created, failed,
                 apiVars, secretVars, gitlabVars>>

\* ensureManagedRunner creates a unit's first runner, or replaces the one it has:
\* other create_options, token near expiry, missing from the Secret or rejected.
ReplaceRunner(e) ==
  /\ pc = "ensure" /\ e \in todo /\ IsManaged(hand, e) /\ ~UpToDate(e) /\ Calm
  /\ unit' = e
  /\ pc' = IF hand.id[e] = None THEN "create" ELSE "deleteOld"
  /\ UNCHANGED <<hand, handCurrent, found, tokens, todo, created, failed,
                 apiVars, secretVars, gitlabVars>>

\* A token or the access token cannot be read, or GitLab does not answer.
AuthFails ==
  /\ \/ pc = "ensure" /\ todo # {}
     \/ pc = "create"
  /\ Fault("gitlabError")
  /\ ToDeferred
  /\ UNCHANGED <<hand, apiVars, secretVars, gitlabVars>>

\* The replacement goes on after the removal r of the old runner, or when there
\* was no token to delete it by and the delete by id failed.
GoesOnAnyway(r) == TRUE  \* bug: a failed removal does not stop the replacement
GoesOn(r) == r.ok \/ found[unit] = None

\* recreateManagedRunner removes the old runner first.
DeleteOld ==
  /\ pc = "deleteOld"
  /\ \E r \in Deregister(found[unit], hand.id[unit]) :
       /\ TakeEffect(r)
       /\ pc' = IF GoesOn(r) THEN "create" ELSE "deferred"
  /\ UNCHANGED <<hand, handCurrent, localVars, apiVars, secretVars>>

Unused == {i \in Ids : owner[i] = None}

\* CreateRunner; the answer, and with it the runner's id and token, may be lost.
CreateRunner ==
  /\ pc = "create"
  /\ \E i \in Unused :
       /\ registered' = registered \cup {i} /\ accepted' = accepted \cup {i}
       /\ owner' = [owner EXCEPT ![i] = unit]
       /\ \/ Calm /\ pc' = "persist" /\ created' = i
          \/ Fault("gitlabLost") /\ pc' = "deferred" /\ UNCHANGED created
  /\ UNCHANGED <<expiring, hand, handCurrent, found, tokens, todo, unit, failed,
                 apiVars, secretVars>>

\* All of Ids is used: creation fails, and nothing is claimed beyond this bound.
OutOfIds ==
  /\ pc = "create" /\ Unused = {}
  /\ faults' = MaxFaults + 1
  /\ ToDeferred
  /\ UNCHANGED <<hand, apiVars, secretVars, gitlabVars>>

\* persistRunner writes the whole status with the resourceVersion in hand.
Registration(e, i) == [hand EXCEPT !.id[e] = i, !.hash[e] = hand.spec[e]]

Persist ==
  /\ pc = "persist"
  /\ hand' = Registration(unit, created)
  /\ \/ /\ Applied(handCurrent)
        /\ WriteObject([obj EXCEPT !.id = hand'.id, !.hash = hand'.hash])
        /\ Resolve(unit, created)
     \/ /\ Refused(handCurrent)
        /\ pc' = "deferred"
        /\ UNCHANGED <<tokens, todo, apiVars>>
  /\ unit' = None /\ created' = None
  /\ UNCHANGED <<handCurrent, found, failed, secretVars, gitlabVars>>

AllResolved ==
  /\ pc = "ensure" /\ todo = {} /\ Calm
  /\ pc' = "provision"
  /\ UNCHANGED <<hand, handCurrent, localVars, apiVars, secretVars, gitlabVars>>

\* The tokens the Secret should hold.
KeepsOldTokens ==  \* bug: a token already in the Secret is not replaced
  [exists |-> TRUE, tokens |-> [e \in Entries |-> IF found[e] = None THEN tokens[e] ELSE found[e]]]
DesiredSecret == [exists |-> TRUE, tokens |-> tokens]

\* validate.Secret: create it, replace its tokens, or leave it as it is.
\* RBAC objects and config.toml come first and may fail.
WriteSecret ==
  LET succeeds == IF secretCache.exists THEN secretCurrent ELSE ~secret.exists
  IN  /\ pc = "provision"
      /\ \/ CacheRead(secretCurrent) /\ secretCache = DesiredSecret /\ UNCHANGED secretVars
         \/ /\ CacheRead(secretCurrent) /\ secretCache # DesiredSecret
            /\ IF succeeds THEN secret' = DesiredSecret /\ secretCurrent' = FALSE
                           ELSE UNCHANGED <<secret, secretCurrent>>
            /\ UNCHANGED secretCache
         \/ Fault("kubeError") /\ UNCHANGED secretVars
      /\ ToDeferred
      /\ UNCHANGED <<hand, apiVars, gitlabVars>>

\* The deferred function writes the pass's status over the cached object: nothing
\* to do if they are equal; it retries on a conflict until the cache has caught
\* up, and gives up in the end.
DeferredStatus ==
  /\ pc = "deferred"
  /\ \/ /\ cacheCurrent /\ cache.exists /\ Calm
        /\ WriteObject([obj EXCEPT !.id = hand.id, !.hash = hand.hash])
     \/ /\ hand.id = cache.id /\ hand.hash = cache.hash /\ Calm
        /\ UNCHANGED apiVars
     \/ /\ cacheCurrent /\ ~cache.exists /\ Calm
        /\ UNCHANGED apiVars
     \/ /\ IF cacheCurrent THEN Fault("kubeError") ELSE Fault("staleCache")
        /\ UNCHANGED apiVars
  /\ EndPass
  /\ UNCHANGED <<secretVars, gitlabVars>>

-----------------------------------------------------------------------------
(* The finalizer: finalizeDeletion, after the drain.                       *)

\* The units whose runner the finalizer removes: the managed ones that have one.
AllUnits == {e \in Entries : hand.spec[e] # Absent}  \* bug: the user's own runners too
UnitsUpToDate == {e \in Entries : IsManaged(hand, e) /\ hand.hash[e] = hand.spec[e]}  \* bug
ToDeregister == {e \in Entries : IsManaged(hand, e) /\ hand.id[e] # None}

\* removeManagedRunners recovers the tokens of the last pass; if it cannot read the
\* Secret the attempt has failed before any runner is removed.
RecoverTokens ==
  /\ pc = "recover" /\ pc' = "deregister"
  /\ \/ /\ CacheRead(secretCurrent)
        /\ found' = secretCache.tokens /\ todo' = ToDeregister /\ UNCHANGED failed
     \/ /\ Fault("kubeError")
        /\ found' = NoTokens /\ todo' = {} /\ failed' = TRUE
  /\ UNCHANGED <<hand, handCurrent, tokens, unit, created, apiVars, secretVars, gitlabVars>>

\* deleteManagedRunner; the loop goes on after a failure.
DeregisterUnit(e) ==
  /\ pc = "deregister" /\ e \in todo
  /\ \E r \in Deregister(found[e], hand.id[e]) :
       TakeEffect(r) /\ failed' = (failed \/ ~r.ok)
  /\ todo' = todo \ {e}
  /\ UNCHANGED <<pc, hand, handCurrent, found, tokens, unit, created, apiVars, secretVars>>

\* A failed pass counts one attempt, in an annotation; the last one gives up.
\* The counter stops at MaxAttempts: the code only compares it with that bound.
NotCounted == hand.attempts  \* bug: the counter never moves
GivesUpOnConflict == IF handCurrent THEN hand.attempts + 1 ELSE MaxAttempts  \* bug
NextAttempt == IF hand.attempts < MaxAttempts THEN hand.attempts + 1 ELSE MaxAttempts

CountAttempt ==
  /\ pc = "deregister" /\ todo = {} /\ failed
  /\ \/ Applied(handCurrent) /\ WriteObject([obj EXCEPT !.attempts = NextAttempt])
     \/ Refused(handCurrent) /\ UNCHANGED apiVars
  /\ IF NextAttempt < MaxAttempts
       THEN EndPass
       ELSE /\ pc' = "release" /\ hand' = [hand EXCEPT !.attempts = NextAttempt]
            /\ UNCHANGED <<handCurrent, localVars>>
  /\ UNCHANGED <<secretVars, gitlabVars>>

AllDeregistered ==
  /\ pc = "deregister" /\ todo = {} /\ ~failed /\ Calm
  /\ pc' = "release"
  /\ UNCHANGED <<hand, handCurrent, localVars, apiVars, secretVars, gitlabVars>>

\* DeleteRBACExcept, which may fail, and the removal of the finalizer, after
\* which the object is gone.
Release ==
  /\ pc = "release"
  /\ \/ /\ Applied(handCurrent)
        /\ WriteObject([obj EXCEPT !.exists = FALSE, !.finalizer = FALSE])
     \/ Refused(handCurrent) /\ UNCHANGED apiVars
  /\ EndPass
  /\ UNCHANGED <<secretVars, gitlabVars>>

-----------------------------------------------------------------------------

Pass ==
  \/ BeginPass \/ AddFinalizer \/ Preflight \/ ReadSecret
  \/ \E e \in Entries : UseOwnToken(e) \/ KeepRunner(e) \/ ReplaceRunner(e)
  \/ AuthFails \/ DeleteOld \/ CreateRunner \/ OutOfIds \/ Persist \/ AllResolved
  \/ WriteSecret \/ DeferredStatus
  \/ RecoverTokens \/ (\E e \in Entries : DeregisterUnit(e))
  \/ CountAttempt \/ AllDeregistered \/ Release

Environment ==
  \/ \E e \in Entries : EditOptions(e) \/ SwitchMode(e) \/ RemoveEntry(e)
  \/ DeleteObject \/ DeleteSecret
  \/ \E i \in Ids : UiDelete(i) \/ Revoke(i) \/ NearExpiry(i)
  \/ SyncObject \/ SyncSecret \/ Crash

Next == Pass \/ Environment

Spec == Init /\ [][Next]_vars

\* The work queue calls Reconcile again for an object that is being deleted,
\* after every error and every update of it, so a pass begins and proceeds;
\* the watches of the informers deliver every update in the end.
FairSpec == Spec /\ WF_vars(Pass) /\ WF_vars(SyncObject) /\ WF_vars(SyncSecret)

-----------------------------------------------------------------------------
(* Safety.                                                                 *)

\* GitLab holds at most one runner for each unit.  A pass deletes the old
\* runner before it creates the new one (recreateManagedRunner) and records
\* the new one before anything else can fail (persistRunner).
AtMostOneRunner == \A e \in Entries : \A i, j \in RunnersOf(e) : i = j

\* As long as nothing has gone wrong, a unit never has two runners on GitLab,
\* however edits, expiring tokens, runners deleted by hand and passes interleave.
OneRunnerPerUnit == faults = 0 => AtMostOneRunner

\* A runner the operator cannot find any more: neither the status nor the pass
\* in progress knows its id, or the object that had it is gone.
Leaked == {i \in Ids : /\ i \in registered
                       /\ ~(obj.exists /\ \E e \in Entries : i \in {obj.id[e], hand.id[e], created})}

\* Whatever goes wrong, a fault costs at most one leaked runner per unit: the
\* recovery from a failure in one pass (by token, by id, by a replacement) does
\* not leak runners pass after pass.
LeaksAreBounded == Cardinality(Leaked) <= Cardinality(Entries) * faults

\* Between passes the Secret holds, for every managed unit, the token of the
\* very runner whose id is in the status: the two are written in different
\* steps, and the next pass deletes by the one and decides by the other.
TokenMatchesStatus ==
  faults = 0 /\ pc = "idle" =>
    \A e \in Entries : IsManaged(obj, e) /\ obj.id[e] # None => secret.tokens[e] = obj.id[e]

\* The runner a user brought is never removed from GitLab by the operator.
ByoUntouched == ByoRunner \in registered

\* A runner is created only under the protection of the finalizer: whatever
\* the caches show, an object without it owns no runner on GitLab.
FinalizerGuards == obj.exists /\ ~obj.finalizer => registered \subseteq {ByoRunner}

\* The finalizer is dropped with runners still registered only after the last
\* attempt failed.
DeregisteredUnlessGivenUp ==
  ~obj.exists /\ obj.attempts < MaxAttempts => registered \subseteq {ByoRunner}

\* Giving up is earned: every earlier attempt was counted in the API server, so
\* no conflict, stale read or restart makes the operator give up sooner.
GiveUpIsEarned == pc = "release" /\ failed => obj.attempts >= MaxAttempts - 1

\* The old runner of a unit is gone from GitLab when its replacement is created,
\* if the pass had its token (recreateManagedRunner).
OldRunnerRemovedFirst ==
  [][pc = "create" /\ pc' = "persist" /\ found[unit] # None => hand.id[unit] \notin registered]_vars

-----------------------------------------------------------------------------
(* Refinement.                                                             *)

Registry == INSTANCE RunnerRegistry WITH
              live <- [e \in Entries |-> RunnersOf(e)],
              used <- {i \in Ids : owner[i] # None},
              open <- obj.exists,
              disturbed <- faults > 0

\* The operator keeps the promise of RunnerRegistry: whatever users, GitLab and
\* the caches do in between as long as nothing goes wrong, and then of history.
ImplementsRegistry == Registry!Spec

-----------------------------------------------------------------------------
(* Liveness.                                                               *)

\* An object that is being deleted is gone in the end: neither GitLab refusing
\* the deregistration nor conflicting writes keep its finalizer forever.
DeletionTerminates == obj.deleting ~> ~obj.exists
=============================================================================
