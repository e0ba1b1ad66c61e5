------------------------------- MODULE Lives -------------------------------
(***************************************************************************)
(* One name and the objects that bear it one after the other.              *)
(*                                                                         *)
(* A user deletes an object and creates one of the same name.  The children*)
(* of the first (config Secret, ServiceAccount, RoleBinding of its own     *)
(* namespace) carry the name, too, and the garbage collector takes them    *)
(* when it likes: the second finds them, uses them and then loses them.    *)
(*                                                                         *)
(* Written from Reconcile in internal/controller/runner_controller.go,     *)
(* ensureManagedRunner, deleteManagedRunner and finalizeDeletion in        *)
(* shared.go, ExistingConfigTokens and CreateSaIfMissing in                *)
(* internal/crud/crud.go, and Secret in internal/validate/validate.go.     *)
(*                                                                         *)
(* Abstractions: one unit; the informer of the object itself does not lag; *)
(* GitLab answers; the deferred status update is part of the step that     *)
(* ends the pass (ManagedRunner has all of these).  The manager Deployment *)
(* is deleted by the finalizer and so never outlives its object (Drain).   *)
(***************************************************************************)
EXTENDS Naturals, FiniteSets

CONSTANTS
  Ids,          \* the runners GitLab can hold at a time: a bound of the model
  ByoRunner,    \* a runner that the user registered
  None,         \* no runner, no token
  MaxLives,     \* how many objects bear the name: a bound of the model
  MaxAttempts,  \* maxDeleteAttempts
  MaxFaults,    \* how many faults a run may contain: a bound of the model
  Events        \* the kinds of faults it may contain

ASSUME IdsAssumption == Ids \subseteq Nat /\ {ByoRunner, None} \cap Ids = {} /\ ByoRunner # None
ASSUME BoundsAssumption ==
  MaxLives \in Nat \ {0} /\ MaxAttempts \in Nat \ {0} /\ MaxFaults \in Nat

VARIABLES
  obj,         \* the object, with uid 0 if there is none
  lives,       \* how many there have been; the next one's uid is one more
  child,       \* its children in the API server: who owns each, and the Secret's token
  cache,       \* what the informers have of them
  behind,      \* the children whose last changes have not reached the informers
  registered,  \* the runners on GitLab
  apiScope,    \* the access token may delete a runner by its id
  queued,      \* the name waits for a pass
  pc,          \* the step of the pass, "idle" between passes
  hand,        \* the object the pass works on
  found,       \* the token it recovered from the Secret
  token,       \* the token it resolved
  faults       \* how many faults happened so far

passVars == <<pc, hand, found, token>>
childVars == <<child, cache, behind>>
vars == <<obj, lives, childVars, registered, apiScope, queued, passVars, faults>>

Kinds == {"secret", "account", "binding"}
Uids == 1 .. MaxLives
Runners == Ids \cup {ByoRunner}

Object == [uid : Uids \cup {0}, managed : BOOLEAN, id : Ids \cup {None},
           finalizer : BOOLEAN, deleting : BOOLEAN, attempts : 0 .. MaxAttempts]
Child == [owner : Uids \cup {0}, token : Runners \cup {None}]
NoObject == [uid |-> 0, managed |-> FALSE, id |-> None,
             finalizer |-> FALSE, deleting |-> FALSE, attempts |-> 0]
NoChild == [owner |-> 0, token |-> None]

TypeOK ==
  /\ obj \in Object /\ lives \in 0 .. MaxLives /\ obj.uid \in {0, lives}
  /\ child \in [Kinds -> Child] /\ cache \in [Kinds -> Child]
  /\ behind \in SUBSET Kinds
  /\ registered \in SUBSET Runners /\ apiScope \in BOOLEAN /\ queued \in BOOLEAN
  /\ pc \in {"idle", "finalizer", "ensure", "replace", "persist", "account", "binding",
             "secret", "deregister", "release"}
  /\ hand \in Object /\ (pc # "idle" => hand.uid \in Uids)
  /\ found \in Runners \cup {None} /\ token \in Runners \cup {None}
  /\ pc \in {"persist", "account", "binding", "secret"} => token # None
  /\ faults \in 0 .. MaxFaults

-----------------------------------------------------------------------------
(* Helpers.                                                                *)

Calm == faults' = faults
Fault(kind) == kind \in Events /\ faults < MaxFaults /\ faults' = faults + 1

\* A read of a child from its informer, which may be behind the API server.
CacheRead(k) == IF k \in behind THEN Fault("staleCache") ELSE Calm

\* A write of a child, with whatever resourceVersion it needs.
Write(k, value) == child' = [child EXCEPT ![k] = value] /\ behind' = behind \cup {k}
NoWrite == UNCHANGED <<child, behind>>

EndPass ==
  pc' = "idle" /\ hand' = NoObject /\ found' = None /\ token' = None

\* The deferred update writes the registration of the pass into the object that bears
\* the name; it retries on conflicts.
DeferredStatus(h) == obj' = IF obj.uid = 0 THEN obj ELSE [obj EXCEPT !.id = h.id]

\* The pass returns an error or asks to be called again.
Again == EndPass /\ queued' = TRUE

-----------------------------------------------------------------------------
(* Users, garbage collector, informers.                                    *)

NewObject(managed) == [NoObject EXCEPT !.uid = lives + 1, !.managed = managed]

Init ==
  /\ obj = NoObject /\ lives = 0
  /\ child = [k \in Kinds |-> NoChild] /\ cache = child /\ behind = {}
  /\ registered = {ByoRunner} /\ apiScope \in BOOLEAN
  /\ queued = FALSE /\ pc = "idle" /\ hand = NoObject /\ found = None /\ token = None
  /\ faults = 0

CreateObject ==
  /\ obj.uid = 0 /\ lives < MaxLives /\ Calm
  /\ \E managed \in BOOLEAN : obj' = NewObject(managed)
  /\ lives' = lives + 1 /\ queued' = TRUE
  /\ UNCHANGED <<childVars, registered, apiScope, passVars>>

\* Without the finalizer the object is gone at once, which the controller ignores.
DeleteObject ==
  /\ obj.uid # 0 /\ ~obj.deleting
  /\ IF pc = "idle" THEN Calm ELSE Fault("midPassDelete")
  /\ IF obj.finalizer THEN obj' = [obj EXCEPT !.deleting = TRUE] /\ queued' = TRUE
                      ELSE obj' = NoObject /\ UNCHANGED queued
  /\ UNCHANGED <<lives, childVars, registered, apiScope, passVars>>

\* The garbage collector takes a child whose owner is gone: it goes by the uid.
Collect(k) ==
  /\ child[k].owner \notin {0, obj.uid} /\ Calm
  /\ Write(k, NoChild)
  /\ UNCHANGED <<obj, lives, cache, registered, apiScope, queued, passVars>>

\* The watch of the children finds the object to call by the kind and name of the owner.
WakesByUid(k) == obj.uid \in {cache[k].owner, child[k].owner}  \* bug: or by the uid
Wakes(k) == TRUE

Sync(k) ==
  /\ k \in behind /\ Calm
  /\ cache' = [cache EXCEPT ![k] = child[k]] /\ behind' = behind \ {k}
  /\ queued' = (queued \/ Wakes(k))
  /\ UNCHANGED <<obj, lives, child, registered, apiScope, passVars>>

\* The operator restarts and lists everything anew.
Crash ==
  /\ pc # "idle" /\ Fault("crash")
  /\ cache' = child /\ behind' = {}
  /\ Again
  /\ UNCHANGED <<obj, lives, child, registered, apiScope>>

-----------------------------------------------------------------------------
(* A pass: Reconcile.                                                      *)

BeginPass ==
  /\ pc = "idle" /\ queued /\ Calm
  /\ queued' = FALSE
  /\ IF obj.uid = 0
       THEN UNCHANGED passVars
       ELSE /\ hand' = obj
            /\ pc' = CASE obj.deleting -> "deregister"
                       [] ~obj.deleting /\ obj.finalizer -> "ensure"
                       [] OTHER -> "finalizer"
            /\ UNCHANGED <<found, token>>
  /\ UNCHANGED <<obj, lives, childVars, registered, apiScope>>

\* The object is as the pass read it: a write with its resourceVersion is applied.
HandCurrent == obj = [hand EXCEPT !.attempts = obj.attempts]

AddFinalizer ==
  /\ pc = "finalizer" /\ Calm
  /\ obj' = IF HandCurrent THEN [obj EXCEPT !.finalizer = TRUE] ELSE obj
  /\ Again
  /\ UNCHANGED <<lives, childVars, registered, apiScope>>

\* ensureRunners: the token in the Secret of that name, whoever owns it, is kept if
\* GitLab accepts it and the status knows a runner.
KnowsRunner == hand.id # None  \* bug: the token is not looked at
NoRunnerNeeded == hand.id # None /\ cache["secret"].token \in registered

EnsureRunner ==
  /\ pc = "ensure" /\ CacheRead("secret")
  /\ found' = cache["secret"].token
  /\ \/ ~hand.managed /\ token' = ByoRunner /\ pc' = "account"
     \/ hand.managed /\ NoRunnerNeeded /\ token' = found' /\ pc' = "account"
     \/ hand.managed /\ ~NoRunnerNeeded /\ token' = None /\ pc' = "replace"
  /\ UNCHANGED <<obj, lives, childVars, registered, apiScope, queued, hand>>

\* What a deregistration removes.  By a token: its runner; GitLab's refusal of a token
\* it does not know counts as success.  By id, if there is no token: needs the scope.
OnlyByToken(t, i) == IF t # None THEN {t} ELSE {}  \* bug: not by id
Removed(t, i) == IF t # None THEN {t} ELSE IF apiScope THEN {i} ELSE {}

\* GitLab never gives an id twice; the model does when nothing refers to it any more.
Unused == Ids \ (registered \cup {obj.id, hand.id, child["secret"].token, cache["secret"].token})

\* The old runner is removed, as far as that can be, and a new one created.
ReplaceRunner ==
  /\ pc = "replace" /\ Calm
  /\ \E i \in Unused :
       /\ \A j \in Unused : i <= j
       /\ registered' = (registered \ (IF hand.id = None THEN {} ELSE Removed(found, hand.id)))
                        \cup {i}
       /\ token' = i
  /\ pc' = "persist"
  /\ UNCHANGED <<obj, lives, childVars, apiScope, queued, hand, found>>

\* persistRunner; after a conflict the deferred update still has the id.
Persist ==
  /\ pc = "persist" /\ Calm
  /\ hand' = [hand EXCEPT !.id = token]
  /\ \/ HandCurrent /\ obj' = [obj EXCEPT !.id = token] /\ pc' = "account"
        /\ UNCHANGED <<queued, found, token>>
     \/ ~HandCurrent /\ DeferredStatus([hand EXCEPT !.id = token])
        /\ pc' = "idle" /\ queued' = TRUE /\ found' = None /\ token' = None
  /\ UNCHANGED <<lives, childVars, registered, apiScope>>

Owned == [owner |-> hand.uid, token |-> None]

\* CreateSaIfMissing, reconcileRoleBinding: what is there is left, whoever owns it.  That
\* the ServiceAccount exists after all is an error, that the binding does is not.
CreateIfMissing(k, following) ==
  /\ pc = k
  /\ \/ /\ cache[k].owner # 0 \/ child[k].owner = 0 \/ k = "binding"
        /\ CacheRead(k)
        /\ IF cache[k].owner = 0 /\ child[k].owner = 0 THEN Write(k, Owned) ELSE NoWrite
        /\ pc' = following /\ UNCHANGED <<obj, queued, hand, found, token>>
     \/ /\ \/ cache[k].owner = 0 /\ child[k].owner # 0 /\ CacheRead(k)
           \/ Fault("kubeError")
        /\ DeferredStatus(hand) /\ Again
        /\ NoWrite
  /\ UNCHANGED <<lives, cache, registered, apiScope>>

CreateAccount == CreateIfMissing("account", "binding")
CreateBinding == CreateIfMissing("binding", "secret")

\* validate.Secret: an update keeps the owner reference that the Secret has.
TakenOver == [owner |-> hand.uid, token |-> token]
OldTokenStays ==  \* bug: a token that is there is not replaced
  IF cache["secret"].owner = 0 THEN TakenOver ELSE cache["secret"]
SecretWritten ==
  IF cache["secret"].owner = 0 THEN TakenOver ELSE [cache["secret"] EXCEPT !.token = token]

\* It is there if the informer has it, and then in the version that the informer has.
SecretInHand ==
  IF cache["secret"].owner = 0 THEN child["secret"].owner = 0 ELSE "secret" \notin behind

\* Nothing is to be written: the pass does not ask for another.
AsksAgain == queued' = TRUE  \* bug: it does
DontRequeue == UNCHANGED queued

WriteSecret ==
  /\ pc = "secret"
  /\ DeferredStatus(hand)
  /\ \/ /\ cache["secret"].owner # 0 /\ cache["secret"].token = token /\ CacheRead("secret")
        /\ EndPass /\ NoWrite /\ DontRequeue
     \/ /\ cache["secret"].owner = 0 \/ cache["secret"].token # token
        /\ CacheRead("secret")
        /\ IF SecretInHand THEN Write("secret", SecretWritten) ELSE NoWrite
        /\ Again
     \/ Fault("kubeError") /\ Again /\ NoWrite
  /\ UNCHANGED <<lives, cache, registered, apiScope>>

-----------------------------------------------------------------------------
(* The finalizer: finalizeDeletion.                                        *)

GivesUp == hand.attempts + 1 >= MaxAttempts

\* deleteManagedRunner; a failure is counted, the last one lets go.
Deregister ==
  /\ pc = "deregister" /\ CacheRead("secret")
  /\ LET t == cache["secret"].token
         due == hand.managed /\ hand.id # None
         fails == due /\ t = None /\ ~apiScope
     IN  /\ registered' = IF due THEN registered \ Removed(t, hand.id) ELSE registered
         /\ obj' = IF fails /\ hand.attempts < MaxAttempts
                     THEN [obj EXCEPT !.attempts = hand.attempts + 1] ELSE obj
         /\ IF fails /\ ~GivesUp THEN Again
                                 ELSE pc' = "release" /\ UNCHANGED <<hand, found, token, queued>>
  /\ UNCHANGED <<lives, childVars, apiScope>>

Release ==
  /\ pc = "release"
  /\ \/ HandCurrent /\ Calm /\ obj' = NoObject
     \/ ~HandCurrent /\ Calm /\ UNCHANGED obj
     \/ Fault("kubeError") /\ UNCHANGED obj
  /\ Again
  /\ UNCHANGED <<lives, childVars, registered, apiScope>>

-----------------------------------------------------------------------------

Pass ==
  \/ BeginPass \/ AddFinalizer \/ EnsureRunner \/ ReplaceRunner \/ Persist
  \/ CreateAccount \/ CreateBinding \/ WriteSecret \/ Deregister \/ Release

Next ==
  \/ Pass \/ CreateObject \/ DeleteObject \/ Crash
  \/ \E k \in Kinds : Collect(k) \/ Sync(k)

Spec == Init /\ [][Next]_vars

\* The work queue goes on, the garbage collector collects, watches deliver.
FairSpec == Spec /\ WF_vars(Pass) /\ \A k \in Kinds : WF_vars(Collect(k)) /\ WF_vars(Sync(k))

-----------------------------------------------------------------------------
(* Properties.                                                             *)

\* A runner that no object and no pass knows.
Leaked == (registered \cap Ids) \ {obj.id, hand.id, token}

\* An object loses the Secret that it took over from the one before it, and with it its
\* token; the next pass replaces the runner.  Without the api scope that leaves the
\* first one behind: one for each object after the first, and one for a fault.
LeaksPerLife ==
  Cardinality(Leaked) <= faults + (IF apiScope \/ lives = 0 THEN 0 ELSE lives - 1)

\* A token that an earlier object of the name left in the Secret is not taken for the
\* one of a runner the operator created: the user's runner survives, if nothing fails.
ByoUntouched == faults = 0 => ByoRunner \in registered

Quiet ==
  /\ ~queued /\ pc = "idle"
  /\ \A k \in Kinds : k \notin behind /\ child[k].owner \in {0, obj.uid}

\* When all is quiet an object has children of its own, and the Secret of a managed one a
\* token that GitLab accepts, which is its own runner's if nothing failed; without an
\* object there are none.
RestsOwned ==
  Quiet =>
    IF obj.uid = 0 THEN \A k \in Kinds : child[k] = NoChild
    ELSE /\ \A k \in Kinds : child[k].owner = obj.uid
         /\ obj.managed => child["secret"].token \in registered
         /\ faults = 0 => child["secret"].token = IF obj.managed THEN obj.id ELSE ByoRunner

\* And it becomes quiet, however many objects have borne the name.
Settles == <>[]Quiet
=============================================================================
