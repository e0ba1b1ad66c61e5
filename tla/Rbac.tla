-------------------------------- MODULE Rbac --------------------------------
(***************************************************************************)
(* The permissions the operator grants: ClusterRoles shared by the fleet,  *)
(* a ServiceAccount for each object and, in each namespace its jobs run    *)
(* in, RoleBindings from the ServiceAccount to the ClusterRoles.           *)
(*                                                                         *)
(* Owner references cannot cross namespaces.  So the bindings in an        *)
(* object's own namespace are watched, and collected with it, while those  *)
(* in other build namespaces are pruned by the operator and watched by     *)
(* nobody.  The two controllers work side by side on the shared roles, and *)
(* they read bindings, ServiceAccounts and objects from caches.            *)
(*                                                                         *)
(* Written from internal/crud/crud.go, enforceAllowedBuildNamespaces and   *)
(* finalizeDeletion in internal/controller/shared.go, and Reconcile and    *)
(* SetupWithManager of both controllers.                                   *)
(*                                                                         *)
(* Abstractions: the rules of a role are one value of three; an object is  *)
(* the part of its spec that RBAC depends on and the phase of its life; a  *)
(* call that fails ends the pass, as does a crash.                         *)
(***************************************************************************)
EXTENDS FiniteSets

CONSTANTS
  Objects,      \* Runner and MultiRunner objects
  Kind,         \* the kind of each: a controller works on one object at a time
  Home,         \* the namespace of each
  Name,         \* its ChildName: the kind and the name
  Namespaces,
  Requests,     \* what a spec may ask for: [targets, pdb], sets of namespaces
  AllowLists,   \* values of --allowed-build-namespaces a run may use
  Events,       \* the kinds of events a run may contain
  None

ASSUME RequestsAssumption ==
  \A s \in Requests : s.pdb \subseteq s.targets /\ s.targets \subseteq Namespaces /\ s.targets # {}
ASSUME NamesAssumption ==
  \A o, p \in Objects :
    /\ Home[o] = Home[p] /\ Name[o] = Name[p] => o = p
    /\ Name[o] = Name[p] => Kind[o] = Kind[p]
ASSUME NoneAssumption ==
  None \notin Objects /\ None \notin [by : Objects, role : {"base", "pdb", "legacy"}]

VARIABLES
  object,      \* the objects in the API server
  objectCache, \* the informer's copies
  roles,       \* the rules of the shared ClusterRoles
  bindings,    \* the RoleBindings in the API server
  bindingCache,
  accounts,    \* objects whose ServiceAccount exists
  accountCache,
  unseen,      \* by informer, the owners of what changed since it caught up
  queued,      \* objects waiting for a pass
  worker,      \* the pass of each controller
  allowed      \* the build namespaces the operator permits

clusterVars == <<roles, bindings, accounts>>
cacheVars == <<objectCache, bindingCache, accountCache>>
vars == <<object, cacheVars, clusterVars, unseen, queued, worker, allowed>>

Grants == {"base", "pdb"}
Keys == Namespaces \X {Name[o] : o \in Objects} \X Grants
Kinds == {Kind[o] : o \in Objects}

\* "wide" are the rules of an older version, whose base role held the pdb rule.
Rules == {"absent", "wide", "exact"}
Object == [phase : {"new", "held", "deleting", "gone"}, spec : Requests]
\* A binding of an older version refers to a Role of the object's own.
Binding == [by : Objects, role : Grants \cup {"legacy"}]
BindingMap == [Keys -> Binding \cup {None}]

Idle == [pc |-> "idle", at |-> None, hand |-> None, todo |-> {}, key |-> None,
         seen |-> "absent"]

TypeOK ==
  /\ object \in [Objects -> Object] /\ objectCache \in [Objects -> Object]
  /\ roles \in [Grants -> Rules]
  /\ bindings \in BindingMap /\ bindingCache \in BindingMap
  /\ accounts \in SUBSET Objects /\ accountCache \in SUBSET Objects
  /\ unseen \in [{"bindings", "accounts"} -> SUBSET Objects]
  /\ queued \in SUBSET Objects /\ allowed \in AllowLists
  /\ \A k \in Kinds :
       \/ worker[k] = Idle
       \/ /\ worker[k].pc \in {"finalizer", "pdbRole", "writePdb", "baseExists", "account",
                               "bind", "rebind", "baseRole", "writeBase", "list", "prune", "release"}
          /\ worker[k].at \in Objects /\ Kind[worker[k].at] = k
          /\ worker[k].hand \in Object
          /\ worker[k].todo \in SUBSET Keys /\ worker[k].seen \in Rules
          /\ worker[k].key \in Keys \cup {None}

-----------------------------------------------------------------------------
(* What a spec asks for.                                                   *)

\* BuildNamespaceAllowed
BuildNamespaceAllowed(o, ns) == ns = Home[o] \/ ns \in allowed

NoneAllowed(o, spec) ==  \* bug: one permitted namespace is enough
  \A ns \in spec.targets : ~BuildNamespaceAllowed(o, ns)
Refused(o, spec) == \E ns \in spec.targets : ~BuildNamespaceAllowed(o, ns)

\* The namespaces a pass grants in: all of the spec's, the permitted ones after a refusal.
Permitted(o, spec) == {ns \in spec.targets : BuildNamespaceAllowed(o, ns)}

SwappedBindings(o, spec, namespaces) ==  \* bug: namespace and name are swapped
  {<<Name[o], ns, "base">> : ns \in namespaces}
DesiredBindings(o, spec, namespaces) ==
  {<<ns, Name[o], "base">> : ns \in namespaces}
    \cup {<<ns, Name[o], "pdb">> : ns \in namespaces \cap spec.pdb}

AllBindingsIn(o, ns) == {ns} \X {Name[o]} \X Grants

\* What a pass keeps when it prunes.
KeepNamespaces(o, copy) ==  \* bug: keep by namespace, not by binding
  IF copy.phase = "deleting" THEN AllBindingsIn(o, Home[o])
                             ELSE UNION {AllBindingsIn(o, ns) : ns \in copy.spec.targets}
Keep(o, copy) ==
  IF copy.phase = "deleting" THEN AllBindingsIn(o, Home[o])
                             ELSE DesiredBindings(o, copy.spec, Permitted(o, copy.spec))

\* The bindings that carry the labels of an object.
LabelledInCache(o) ==  \* bug: the prune lists from the cache
  {b \in Keys : bindingCache[b] # None /\ bindingCache[b].by = o /\ bindingCache[b].role # "legacy"}
Labelled(o) == {b \in Keys : bindings[b] # None /\ bindings[b].by = o /\ bindings[b].role # "legacy"}

-----------------------------------------------------------------------------

\* An upgrade finds the roles, and the objects an older version handled, as that left
\* them: bound to a Role of their own, or to the base role.
Init ==
  /\ roles \in {r \in [Grants -> Rules] : r["base"] \in {"absent", "wide"}}
  /\ \E bound \in SUBSET Objects, old \in {"legacy", "base"} :
       /\ bound # {} => "upgrade" \in Events
       /\ old = "base" => roles["base"] = "wide"
       /\ object \in {f \in [Objects -> [phase : {"new", "held"}, spec : Requests]] :
                        \A o \in Objects : f[o].phase = "held" <=> o \in bound}
       /\ bindings = [b \in Keys |->
            IF \E o \in bound : b = <<Home[o], Name[o], "base">>
              THEN [by |-> CHOOSE o \in bound : Home[o] = b[1] /\ Name[o] = b[2], role |-> old]
              ELSE None]
       /\ accounts = bound
  /\ objectCache = object /\ bindingCache = bindings /\ accountCache = accounts
  /\ unseen = [i \in {"bindings", "accounts"} |-> {}]
  /\ queued = Objects /\ worker = [k \in Kinds |-> Idle]
  /\ allowed \in AllowLists

-----------------------------------------------------------------------------
(* Users, caches and the garbage collector.                                *)

NoneOwned(f, b) == {}  \* bug: changes of bindings are not watched
\* The owner of a binding, if the binding has a reference to it.
OwnsAt(f, b) == {o \in Objects : f[b] # None /\ f[b].by = o /\ b[1] = Home[o]}

\* A change of what an object owns is an event that the informer will deliver.
Notices ==
  unseen' = [bindings |-> unseen.bindings \cup
               UNION {OwnsAt(bindings, b) \cup OwnsAt(bindings', b) :
                        b \in {c \in Keys : bindings'[c] # bindings[c]}},
             accounts |-> unseen.accounts \cup (accounts' \ accounts) \cup (accounts \ accounts')]

Edit(o) ==
  /\ "edit" \in Events /\ object[o].phase \in {"new", "held"}
  /\ \E s \in Requests \ {object[o].spec} : object' = [object EXCEPT ![o].spec = s]
  /\ UNCHANGED <<cacheVars, clusterVars, unseen, queued, worker, allowed>>

DeleteObject(o) ==
  /\ "delete" \in Events /\ object[o].phase \in {"new", "held"}
  /\ object' = [object EXCEPT ![o].phase = IF @ = "held" THEN "deleting" ELSE "gone"]
  /\ UNCHANGED <<cacheVars, clusterVars, unseen, queued, worker, allowed>>

\* Somebody deletes a binding of an object in its own namespace, or its account.
DeleteOwned(o) ==
  /\ "tamper" \in Events /\ object[o].phase = "held"
  /\ \/ /\ o \in accounts
        /\ accounts' = accounts \ {o} /\ UNCHANGED bindings
     \/ /\ \E b \in Labelled(o) : b[1] = Home[o] /\ bindings' = [bindings EXCEPT ![b] = None]
        /\ UNCHANGED accounts
  /\ Notices
  /\ UNCHANGED <<object, cacheVars, roles, queued, worker, allowed>>

\* What is in an object's own namespace is owned by it, and collected after it.
CollectGarbage(o) ==
  /\ object[o].phase = "gone"
  /\ bindings' = [b \in Keys |-> IF bindings[b] # None /\ bindings[b].by = o /\ b[1] = Home[o]
                                   THEN None ELSE bindings[b]]
  /\ accounts' = accounts \ {o}
  /\ <<bindings, accounts>>' # <<bindings, accounts>>
  /\ Notices
  /\ UNCHANGED <<object, cacheVars, roles, queued, worker, allowed>>

\* An informer catches up.  An object is queued when its generation changed or
\* it is being deleted, and when something it owns changed.
SyncObject(o) ==
  /\ objectCache[o] # object[o]
  /\ objectCache' = [objectCache EXCEPT ![o] = object[o]]
  /\ queued' = IF object[o].spec # objectCache[o].spec \/ object[o].phase = "deleting"
                 THEN queued \cup {o} ELSE queued
  /\ UNCHANGED <<object, bindingCache, accountCache, clusterVars, unseen, worker, allowed>>

SyncBindings ==
  /\ bindingCache # bindings \/ unseen.bindings # {}
  /\ bindingCache' = bindings
  /\ queued' = queued \cup unseen.bindings /\ unseen' = [unseen EXCEPT !.bindings = {}]
  /\ UNCHANGED <<object, objectCache, accountCache, clusterVars, worker, allowed>>

SyncAccounts ==
  /\ accountCache # accounts \/ unseen.accounts # {}
  /\ accountCache' = accounts
  /\ queued' = queued \cup unseen.accounts /\ unseen' = [unseen EXCEPT !.accounts = {}]
  /\ UNCHANGED <<object, objectCache, bindingCache, clusterVars, worker, allowed>>

\* The operator restarts, perhaps with another allow-list, and lists everything.
Restart ==
  /\ "restart" \in Events
  /\ allowed' \in AllowLists
  /\ worker' = [k \in Kinds |-> Idle]
  /\ objectCache' = object /\ bindingCache' = bindings /\ accountCache' = accounts
  /\ queued' = {o \in Objects : object[o].phase # "gone"}
  /\ unseen' = [i \in {"bindings", "accounts"} |-> {}]
  /\ UNCHANGED <<object, clusterVars>>

-----------------------------------------------------------------------------
(* A pass.                                                                 *)

At(k, pc) == worker[k].pc = pc
Go(k, pc) == worker' = [worker EXCEPT ![k].pc = pc]
GoWith(k, pc, todo) == worker' = [worker EXCEPT ![k].pc = pc, ![k].todo = todo]
PassUnchanged == UNCHANGED <<cacheVars, allowed>> /\ Notices

\* Reads of bindings and accounts may be behind when the run allows it.
Fresh(current) == "stale" \in Events \/ current

Begin(k, o) ==
  /\ At(k, "idle") /\ o \in queued /\ Kind[o] = k
  /\ queued' = queued \ {o}
  /\ LET copy == objectCache[o]
         pass(pc) == [pc |-> pc, at |-> o, hand |-> copy, todo |-> {}, key |-> None,
                      seen |-> "absent"]
     IN  worker' = [worker EXCEPT ![k] =
           CASE copy.phase = "gone" -> Idle
             [] copy.phase = "new" -> pass("finalizer")
             [] copy.phase = "deleting" -> pass("list")
             [] copy.phase = "held" -> pass(IF Refused(o, copy.spec) THEN "list" ELSE "pdbRole")]
  /\ UNCHANGED <<object, clusterVars>> /\ PassUnchanged

\* A call fails, or the pass gives up early: it is tried again.
Fail(k) ==
  /\ "fail" \in Events /\ ~At(k, "idle")
  /\ worker' = [worker EXCEPT ![k] = Idle]
  /\ queued' = queued \cup {worker[k].at}
  /\ UNCHANGED <<object, clusterVars>> /\ PassUnchanged

\* The first write to an object: the finalizer, refused when the copy is old.  An edit
\* forth and back since the read refuses it, too, which has the outcome of Fail.
AddFinalizer(k) ==
  LET o == worker[k].at
  IN  /\ At(k, "finalizer")
      /\ object' = IF object[o] = worker[k].hand THEN [object EXCEPT ![o].phase = "held"] ELSE object
      /\ worker' = [worker EXCEPT ![k] = Idle]
      /\ queued' = queued \cup {o}
      /\ UNCHANGED clusterVars /\ PassUnchanged

\* reconcileClusterRole reads the role, creates it when it is absent, and otherwise
\* updates it when it differs and the caller converges it.
ReadRole(k, pc, role, write, next) ==
  /\ At(k, pc)
  /\ roles' = IF roles[role] = "absent" THEN [roles EXCEPT ![role] = "exact"] ELSE roles
  /\ IF roles[role] = "wide" /\ write # "never"
       THEN worker' = [worker EXCEPT ![k].pc = write, ![k].seen = roles[role]]
       ELSE Go(k, next)
  /\ UNCHANGED <<object, bindings, accounts, queued>> /\ PassUnchanged

\* A conflict counts as success: the other writer wrote the same rules.
WriteRole(k, pc, role, next) ==
  /\ At(k, pc)
  /\ roles' = IF roles[role] = worker[k].seen THEN [roles EXCEPT ![role] = "exact"] ELSE roles
  /\ Go(k, next)
  /\ UNCHANGED <<object, bindings, accounts, queued>> /\ PassUnchanged

EnsureOptionalClusterRoles(k) == ReadRole(k, "pdbRole", "pdb", "writePdb", "baseExists")
                                   \/ WriteRole(k, "writePdb", "pdb", "baseExists")
BaseConverges(k) ==  \* bug: the base role is converged before the bindings exist
  ReadRole(k, "baseExists", "base", "writeBase", "account") \/ WriteRole(k, "writeBase", "base", "account")
EnsureClusterRoleExists(k) == ReadRole(k, "baseExists", "base", "never", "account")
BaseCreatedOnly(k) ==  \* bug: an old base role is never narrowed
  ReadRole(k, "baseRole", "base", "never", "list")
EnsureBaseClusterRole(k) == ReadRole(k, "baseRole", "base", "writeBase", "list")
                              \/ WriteRole(k, "writeBase", "base", "list")

\* Already existing, though the cache does not know it, is an error: see Fail.
CreateSaIfMissing(k) ==
  LET o == worker[k].at
      spec == worker[k].hand.spec
  IN  /\ At(k, "account") /\ Fresh(accountCache = accounts)
      /\ IF o \in accountCache \/ o \notin accounts
           THEN /\ accounts' = accounts \cup ({o} \ accountCache)
                /\ GoWith(k, "bind", DesiredBindings(o, spec, spec.targets))
                /\ UNCHANGED queued
           ELSE /\ worker' = [worker EXCEPT ![k] = Idle]
                /\ queued' = queued \cup {o}
                /\ UNCHANGED accounts
      /\ UNCHANGED <<object, roles, bindings>> /\ PassUnchanged

\* A create finds the binding already there: that is success, whoever made it.
Created(o, b) == IF bindings[b] = None THEN [bindings EXCEPT ![b] = [by |-> o, role |-> b[3]]]
                                       ELSE bindings

AlwaysDiffers(b, known) == known # None  \* bug: a default of the API server is not expected
RoleRefDiffers(b, known) == known # None /\ known.role # b[3]

\* reconcileRoleBinding: what the cache holds decides, by its roleRef alone.
ReconcileRoleBinding(k, b) ==
  LET o == worker[k].at
      known == bindingCache[b]
  IN  /\ At(k, "bind") /\ b \in worker[k].todo /\ Fresh(bindingCache = bindings)
      /\ IF RoleRefDiffers(b, known)
           THEN /\ bindings' = [bindings EXCEPT ![b] = None]
                /\ worker' = [worker EXCEPT ![k].pc = "rebind", ![k].key = b]
           ELSE /\ bindings' = IF known = None THEN Created(o, b) ELSE bindings
                /\ GoWith(k, "bind", worker[k].todo \ {b})
      /\ UNCHANGED <<object, roles, accounts, queued>> /\ PassUnchanged

\* The binding deleted for its roleRef is created anew.
Rebind(k) ==
  /\ At(k, "rebind")
  /\ bindings' = Created(worker[k].at, worker[k].key)
  /\ worker' = [worker EXCEPT ![k].pc = "bind", ![k].todo = @ \ {worker[k].key}, ![k].key = None]
  /\ UNCHANGED <<object, roles, accounts, queued>> /\ PassUnchanged

BindingsDone(k) ==
  /\ At(k, "bind") /\ worker[k].todo = {}
  /\ Go(k, "baseRole")
  /\ UNCHANGED <<object, clusterVars, queued>> /\ PassUnchanged

\* DeleteRBACExcept lists the object's bindings, past the cache, ...
ListBindings(k) ==
  /\ At(k, "list")
  /\ GoWith(k, "prune", Labelled(worker[k].at) \ Keep(worker[k].at, worker[k].hand))
  /\ UNCHANGED <<object, clusterVars, queued>> /\ PassUnchanged

\* ... and deletes those that it need not keep.
Prune(k, b) ==
  /\ At(k, "prune") /\ b \in worker[k].todo
  /\ bindings' = [bindings EXCEPT ![b] = None]
  /\ GoWith(k, "prune", worker[k].todo \ {b})
  /\ UNCHANGED <<object, roles, accounts, queued>> /\ PassUnchanged

PruneDone(k) ==
  /\ At(k, "prune") /\ worker[k].todo = {}
  /\ IF worker[k].hand.phase = "deleting" THEN Go(k, "release")
                                          ELSE worker' = [worker EXCEPT ![k] = Idle]
  /\ UNCHANGED <<object, clusterVars, queued>> /\ PassUnchanged

\* The finalizer is removed; finalizeDeletion always asks for one more pass.
Release(k) ==
  LET o == worker[k].at
  IN  /\ At(k, "release")
      /\ object' = [object EXCEPT ![o].phase = "gone"]
      /\ worker' = [worker EXCEPT ![k] = Idle]
      /\ queued' = queued \cup {o}
      /\ UNCHANGED clusterVars /\ PassUnchanged

-----------------------------------------------------------------------------

Provision(k) ==
  \/ EnsureOptionalClusterRoles(k) \/ EnsureClusterRoleExists(k) \/ CreateSaIfMissing(k)
  \/ (\E b \in Keys : ReconcileRoleBinding(k, b)) \/ Rebind(k) \/ BindingsDone(k)
  \/ EnsureBaseClusterRole(k)

DeleteRBACExcept(k) == ListBindings(k) \/ (\E b \in Keys : Prune(k, b)) \/ PruneDone(k)

Step(k) == AddFinalizer(k) \/ Provision(k) \/ DeleteRBACExcept(k) \/ Release(k)

Caches == SyncBindings \/ SyncAccounts \/ \E o \in Objects : SyncObject(o)

\* What goes on by itself: passes, the caches, and the end of an object.
Work ==
  \/ \E k \in Kinds : (\E o \in Objects : Begin(k, o)) \/ Step(k)
  \/ Caches
  \/ \E o \in Objects : DeleteObject(o) \/ CollectGarbage(o)

Next ==
  \/ Work
  \/ \E k \in Kinds : Fail(k)
  \/ \E o \in Objects : Edit(o) \/ DeleteOwned(o)
  \/ Restart

Spec == Init /\ [][Next]_vars

\* A queued object gets its turn, a pass goes on, the informers catch up, and at some
\* time users are done, calls stop failing and the operator stays up.
FairSpec ==
  /\ Spec
  /\ \A k \in Kinds : WF_vars(Step(k)) /\ \A o \in Objects : SF_vars(Begin(k, o))
  /\ \A o \in Objects : WF_vars(SyncObject(o))
  /\ WF_vars(SyncBindings) /\ WF_vars(SyncAccounts)
  /\ <>[][Work]_vars

-----------------------------------------------------------------------------
(* Properties.                                                             *)

\* Nothing is going on and nothing is pending: until something happens no pass
\* will look at any object again.
Quiet ==
  /\ queued = {} /\ \A k \in Kinds : worker[k] = Idle
  /\ object = objectCache /\ bindings = bindingCache /\ accounts = accountCache
  /\ \A i \in DOMAIN unseen : unseen[i] = {}

HeldBy(o) == {b \in Keys : bindings[b] # None /\ bindings[b].by = o}
Wanted(o) == DesiredBindings(o, object[o].spec, Permitted(o, object[o].spec))

\* An object that is gone holds no grant in a namespace that is not its own, where
\* nothing would ever collect it: the finalizer prunes past the caches.
NoLeakedGrant == \A o \in Objects : object[o].phase = "gone" => \A b \in HeldBy(o) : b[1] = Home[o]

\* A step grants only to an object that still exists, and only what a spec of it asks
\* for that is permitted in every namespace it names: neither a deletion, an edit or a
\* restart with another allow-list nor an old copy leaves a pass behind that grants more.
GrantsAsAsked ==
  [][\A b \in Keys : bindings'[b] \notin {bindings[b], None} =>
       \E k \in Kinds :
         LET o == worker[k].at
             spec == worker[k].hand.spec
         IN  /\ bindings'[b].by = o /\ object[o].phase \in {"held", "deleting"}
             /\ \A ns \in spec.targets : BuildNamespaceAllowed(o, ns)
             /\ b \in DesiredBindings(o, spec, spec.targets)]_vars

\* When all is quiet no object holds a grant that its spec does not ask for or
\* that the allow-list refuses, whatever edits, restarts and failures came before.
NoExtraGrant == Quiet => \A o \in Objects : object[o].phase = "held" => Labelled(o) \subseteq Wanted(o)

\* When all is quiet every object that is not refused has its ServiceAccount, a
\* binding of its own for each grant it asks for in its own namespace, and roles with
\* the right rules.  (Bindings elsewhere are watched by nobody: a pass that reads an
\* old cache may leave one missing until the next pass.)
GrantsComplete ==
  Quiet => \A o \in Objects : object[o].phase = "held" /\ ~Refused(o, object[o].spec) =>
             /\ o \in accounts
             /\ Wanted(o) \cap AllBindingsIn(o, Home[o]) \subseteq Labelled(o)
             /\ \A g \in Grants : roles[g] = "exact"

\* A grant of pod disruption budgets: by the optional role, or by the base role of
\* an older version.
MayUsePdb(o, ns) ==
  \/ <<ns, Name[o], "pdb">> \in HeldBy(o) /\ roles["pdb"] # "absent"
  \/ <<ns, Name[o], "base">> \in Labelled(o) /\ roles["base"] = "wide"

\* A pass never takes the budget grant away from the object it handles while that
\* asks for it: an upgrade grants through the new role before it narrows the old.
GrantsBeforeItRevokes ==
  [][\A k \in Kinds, o \in Objects :
       worker[k].at = o /\ worker[k].hand.phase = "held" /\ worker'[k] # worker[k] =>
         \A ns \in Permitted(o, worker[k].hand.spec) \cap worker[k].hand.spec.pdb :
           MayUsePdb(o, ns) => MayUsePdb(o, ns)']_vars

\* The operator comes to rest once users do: what a pass writes, and the events that
\* come back from it, never keep it busy forever.
Settles == <>[]Quiet
=============================================================================
