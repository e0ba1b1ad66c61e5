# The runner operator in TLA+

The operator in `src/` watches two custom resources, `Runner` (one GitLab runner) and
`MultiRunner` (several, its *entries*).  For each object it registers runners on GitLab,
renders `config.toml` into a Secret, runs a manager Deployment that mounts it, grants that
manager the RBAC its jobs need, and undoes all of it when the object is deleted.  These
modules model what the operator does to the world and in which order: every call to GitLab
or to the API server is a step, and users, GitLab, the informers' caches, the garbage
collector and crashes take theirs in between.

Contents: [the system](#the-system), [the modules](#the-modules), [the runs](#the-runs),
[fairness](#fairness), [what is proved](#what-is-proved),
[where code and documentation disagree](#where-code-and-documentation-disagree),
[what is not modelled](#what-is-not-modelled), [the plan](#the-plan).

## The system

| Part | Source | State it keeps | Operations |
|---|---|---|---|
| Registration | `internal/controller/shared.go`, the two controllers, `internal/api/gitlab.go` | id and hash of each unit's runner in the object's status; its token in the config Secret; the runner on GitLab | `ensureRunners`, `ensureManagedRunner`, `recreateManagedRunner`, `persistRunner`, `removeManagedRunners`, `finalizeDeletion` |
| Token lifetimes | `shared.go`, `api/v1beta2` | the expiry of each token in the status, the delay a pass asked for | `resyncAfter`, `StoreRunnerRegistration` |
| Drain | `shared.go` | the manager Deployment, its pods and their deadlines | `drainManager` |
| RBAC | `internal/crud/crud.go`, `shared.go` | two ClusterRoles shared by all objects; per object a ServiceAccount and RoleBindings in its build namespaces | `CreateRBACIfMissing`, `DeleteRBACExcept`, `enforceAllowedBuildNamespaces` |
| Provisioning | `internal/validate`, `internal/generate`, the two controllers | the config Secret, the manager Deployment, `ready`, `observed_generation` and `config_map_version` in the status | `validate.Secret`, `validate.Deployment`, `TomlConfig`, the deferred status update |
| API types | `api/v1beta2` | specs and statuses | hashes, defaults, owner references |
| Entry point | `cmd/main.go` | the allow-list of build namespaces, fixed for the life of the process | wiring |

**How they interact.**  One work queue per kind hands an object to one worker at a time, so
passes over one object never overlap; a Runner and a MultiRunner are reconciled side by side
and meet in the shared ClusterRoles.  A pass reads from informer caches, each behind the API
server by its own lag, and writes to the API server with the resourceVersion it read.  What an
object owns in its namespace is watched and brings the object back into the queue; its own
update does so only when the generation changed; bindings in other namespaces, ConfigMaps and
token Secrets are watched by nobody.  A pass that returns an error, or asks for it, comes back.

**What is hard.**  A registration is three writes to two systems (runner on GitLab, id in the
status, token in the Secret), any of which may fail, be lost, conflict or be interrupted by a
crash, and each of which is needed to find the runner again.  A replacement deletes before it
creates.  Deletion must not leave runners behind, must not wait for GitLab forever, and must
not cut off running jobs.  Grants outside the object's namespace are cleaned by nobody but the
operator.  Tokens expire whether or not the operator runs, and its timers do not survive it.
Children carry an object's name and may outlive it, so the next object of that name finds them.
And the whole thing has to come to rest: the operator's own writes wake it up again.
`PROJECT.json` lists these hazards line by line with the properties that cover them.

**What makes each part correct.**
Registration: a unit has at most one runner on GitLab; Secret and status name the same one;
no runner without a finalizer, none left without the operator having given up after counted
attempts; the user's own runners are never touched; a deletion ends.
Token lifetimes: a token is replaced before it expires in every outage that leaves the time for
it, and replacing one does not lead to replacing the next.
Names used again: an object ends with children of its own and its own token, whatever it found.
Drain: no manager that can still finish a job at deregistration, no pod of another object stopped,
and an end.
RBAC: no grant outlives its object or its spec, every grant asked for exists at rest, upgrades
grant before they revoke, and the passes settle.
Provisioning: at rest Secret, Deployment and status agree with the spec; and there is a rest.

## The modules

| Module | Is |
|---|---|
| `ManagedRunner` | one object, its runners on GitLab, its finalizer |
| `RunnerRegistry` | the abstract promise of `ManagedRunner` |
| `Refresh` | the tokens of one object, the time they live and the timers of its passes |
| `Lives` | the objects that bear one name one after the other, and their children |
| `Drain` | `drainManager` among ReplicaSet, kubelet, garbage collector and lost nodes |
| `Rbac` | the grants of one or several objects, two controllers |
| `Provision` | Secret, Deployment and status of one object |
| `MC…` | the same with constants for TLC |
| `ManagedRunnerProofs` | theorems of `ManagedRunner` that hold whatever goes wrong |
| `ManagedRunnerRegistry` | until the first fault, and the refinement of `RunnerRegistry` throughout |
| `ManagedRunnerFaults` | in outages of GitLab, without the config Secret, and what a fault costs |
| `RefreshProofs`, `DrainProofs`, `RbacProofs`, `ProvisionProofs`, `LivesProofs` | theorems of those components |

Each component is a module of its own, since the code runs them one after the other in a pass
and each depends on the others by little: `ManagedRunner` treats the drain as the guard of
`BeginPass` on a deleted object, `Drain` ends where `ManagedRunner`'s `RecoverTokens` begins,
`Provision` starts where `ensureRunners` has returned.  `Refresh` and `Lives` look at the same pass
again for what `ManagedRunner` leaves out, time and names, and leave out most of what it has.

In every module operators marked `bug:` are variants that nothing uses; `PROJECT.json` names
the definition each would replace and the property that fails then.

### ManagedRunner

A *unit* is the one runner of a Runner or an entry of a MultiRunner.  The object is a record
`obj` (spec, id and hash per unit, deletion mark, finalizer, counted attempts); `cache` is
the informer's copy, `cacheCurrent` whether it is the latest version, `hand` the copy the pass
works on, and `handCurrent` whether its resourceVersion is still good.  The Secret has the same
triple.  On GitLab `registered` are the runners that exist, `accepted` those whose token
GitLab accepts, `expiring` those near their expiry, `owner` what each was created for.  A
token is identified with its runner.

| Action | Code |
|---|---|
| `BeginPass`, `FirstStep`, `AddFinalizer`, `Preflight` | `Reconcile` up to `ensureRunners` |
| `ReadSecret`, `UseOwnToken`, `KeepRunner`, `ReplaceRunner`, `AuthFails` | `ensureRunners`, `ensureManagedRunner` |
| `DeleteOld`, `CreateRunner`, `Persist` | `recreateManagedRunner`, `persistRunner` |
| `WriteSecret`, `DeferredStatus` | `validate.Secret` (tokens), the deferred status update |
| `RecoverTokens`, `DeregisterUnit`, `CountAttempt`, `AllDeregistered`, `Release` | `removeManagedRunners`, `deleteManagedRunner`, `finalizeDeletion` |

Everything that can go wrong counts as a *fault* and is bounded by `MaxFaults`; `Events` says
which kinds a run may contain (`gitlabError`: a call fails; `gitlabLost`: it took effect but
the answer is lost; `kubeError`: the API server refuses a write, or the finalizer cannot read the Secret; `crash`; `staleCache`: a pass
reads a cache that is behind; `midPassEdit`; `revoke`; `secretDeleted`; `entryRemoved`;
`modeSwitch`).  Edits, expiring tokens, runners deleted in GitLab's UI and the deletion of the
object are not faults.  The faults are what makes the properties precise: `OneRunnerPerUnit`
says what holds as long as nothing failed, `LeaksAreBounded` what a failure may cost.

`RunnerRegistry` is what all of this amounts to: units with at most one runner, a registration
only for an object that exists, removal before replacement and before the end.  Its `disturbed`
is `faults > 0`; from then on (`Disturbed`) only history is promised: no runner comes back or
changes its unit, ids are not used again, the object does not come back.

### Refresh

Time is what is `left` of each token and on the `timer`, so there is no clock.  A pass takes no
time; a tick may only pass while no pass can be made, or none is due, and `delay` counts the ticks
in which one was due and could not be made.  `failing` says which units GitLab does not answer
for, and whether the API server does; each may fail in any combination and recover.

| Action | Code |
|---|---|
| `Begin`, `Settle` | `Reconcile` and its last result (`RequeueAfter`) |
| `KeepRunner`, `ReplaceRunner`, `MustReplace` | the cases of `ensureManagedRunner`, `StoreRunnerRegistration` |
| `PassFails` | the first entry that fails ends `ensureRunners` and drops the tokens so far |
| `WriteSecret` | `validate.Secret` and its requeue |
| `Stop`, `Start` | the work queue, with its timers, is in memory only |

The tokens of a unit that is not managed never expire for the operator and are not in this module.

### Lives

Each object of the name has a `uid`; a `child` is its owner's uid and, for the Secret, a token.
The garbage collector goes by the uid, reads and watches by the name, as in the code.  `Collect`
may come at any time after the end of the owner; `cache` and `behind` are the informers.

| Action | Code |
|---|---|
| `EnsureRunner`, `ReplaceRunner`, `Persist` | `ensureManagedRunner` with the token of whatever Secret has the name |
| `CreateAccount`, `CreateBinding` | `CreateSaIfMissing`, `reconcileRoleBinding`: one that exists is left, whoever owns it |
| `WriteSecret` | `validate.Secret`: an update keeps the owner reference it finds |
| `Deregister`, `Release` | `removeManagedRunners`, `finalizeDeletion` |
| `Sync` | `Owns` in `SetupWithManager`: the event leads to the object by its owner's name |

### Drain

Time passes in ticks and a pod that terminates counts `left` down from grace period plus
`drainMargin`, so a run needs no horizon.  `BeginDrain` reads the clock, as `finalizeDeletion`
does, before the Deployment is deleted and the pods are listed; `Judge` decides on that
reading.  The ReplicaSet goes on replacing pods until it is collected.

Which pods are the manager's is decided by what the pods carry: `Labelled` is the list's
selector, the object's name without its kind, and `IsManagerPod` looks for an owner that is a
ReplicaSet and whose name begins with the Deployment's and a dash.  `ManagerOf` is what
Kubernetes knows, and `ManagersAssumption` how the labels and names of managers come about: the
template of `validate.Deployment`, and a ReplicaSet named after its Deployment.  A name is the
sequence of its parts between dashes (`gitlab`, `runner` or `mrunner`, and those of the object's
name).  The pods of others run until the drain stops them.

### Rbac

An object is its phase and its request (build namespaces, and which of them use pod
disruption budgets).  ClusterRole rules are `absent`, `wide` (those of an older version, which
hold the budget rule in the base role) or `exact`.  An upgrade starts from objects that an older
version served: their binding refers to a Role of their own, or to the wide base role.  Bindings are keyed by namespace, child name and grant, as in
`BindingKey`.  Each controller has one worker; a pass is `CreateRBACIfMissing` or
`DeleteRBACExcept`, one call per step, and any call may fail.  `unseen` is what the informers
have not delivered yet, by the owner it will bring back.

### Provision

`obj` has its spec (the options of `config.toml`, whether it names a CA bundle, the pod shape)
and status; a generation is identified with its spec.  `source` is the CA bundle, which
nothing watches.  `cache` holds the three informers' copies, `behind` those that lag,
`news` those whose change will bring the object back: a status write does not, by the
generation filter of `SetupWithManager`.  `Stored` maps a shape to what the cluster keeps of
it; it is assumed to be idempotent, as webhooks are meant to be.  A pass writes the Secret or
the Deployment, never both, and only the pass that writes nothing (or settles) reports ready.

## The runs

All runs set `CHECK_DEADLOCK FALSE`: an operator with nothing to do stops, and a deleted
object is the end.

| Run | Module | Bounds | Shows |
|---|---|---|---|
| `calm` | `MCManagedRunner` | 2 units, 2 options, 3 runners, 1 fault of any kind, access token with api scope | types, one runner per unit, Secret and status agree, a fault leaks at most one runner per unit, implements `RunnerRegistry` |
| `faults` | | 1 unit, 2 options, 3 runners, 2 faults (none that removes an entry or switches its mode), no expiry, 3 attempts, no api scope | a fault leaks at most one runner, no runner before the finalizer, the user's runner is safe, giving up is earned, a deletion ends |
| `outage` | | 1 unit, 3 failing GitLab calls | one runner per unit, the old one first, none left unless given up |
| `drain` | `MCDrain` | 2 manager pods of 2 ReplicaSets, a pod each of a MultiRunner of the same name, of a Runner whose name extends it and of a labelled Job, grace 2, margin 1 | jobs finish, the pods of others are safe, the drain ends |
| `rbac` | `MCRbac` | 1 object, 2 namespaces, 2 requests, 2 allow-lists, upgrade, tampering, stale caches, failing calls, restarts | grants made only to what exists and asks, none leaked or superfluous, grants at home complete at rest, and a rest |
| `upgrade` | | 2 objects of two kinds, upgrade, failing calls | grants before it revokes, shared roles converge |
| `provision` | `MCProvision` | 3 specs, one with a shape the cluster stores differently, 2 bundles, 3 events | Secret, Deployment and status agree at rest, and a rest |
| `refresh` | `MCRefresh` | 2 units, tokens of 8 ticks or forever, threshold 6, lead 3, resync 1 to 2 | tokens are replaced in time, passes rest |
| `lives` | `MCLives` | 3 objects of one name, 6 runners, 2 attempts, 1 fault | leaks per object, the user's runner is safe, own children at rest, and a rest |
| `mode_switch` | `MCManagedRunner` | 2 options, 2 mode switches | violation, see below |
| `stuck_status` | `MCProvision` | one deleted Secret | violation, see below |
| `busy_loop` | `MCRefresh` | 1 unit, tokens of 2 ticks | violation, see below |

**Why the bounds are enough.**  Units interact only through the shared pass (one that fails
drops the others' tokens) and the shared Secret, for which two suffice; two options make a
spec differ from the one registered; an id is used for each creation, so a run with `n` ids sees
up to `n` registrations, and what happens after the last one is not followed (`OutOfIds`,
`WithinBound`).  With two faults one can hit the recovery from the other.  Three attempts, as
in `faults`, leave one in the middle that is neither the first nor the last; `calm` and `outage`
take two.  In `drain` one pod can be on a lost node while the other is replaced, and two ticks of
grace put the deadline and the margin at different times.  In `rbac` a namespace of the object's
own and a foreign one are the two cases the code tells apart, and the two requests differ in both.
In `provision` three events allow an edit forth and back with a disturbance in between; the
unbounded part is the informers' lag.  In `refresh` the intervals keep the order of the code's
(1 min < 1 h, 12 h lead, 24 h threshold, and lead plus longest interval below the threshold, which
is the module's assumption); every number of ticks in which nothing works is possible, since `left`
and `delay` stop at their bounds.  In `lives` the third object finds what the second took over
from the first.
`calm` and `outage` use symmetry over units, options and ids, which `ManagedRunner` does not
distinguish; runs with liveness use none.

Every invariant and every action property that a passing run checks is also proved, for all
constants; the runs alone show the liveness properties.

## Fairness

- `ManagedRunner`: weak fairness of `Pass` and of the two informers.  The work queue calls
  `Reconcile` again for an object being deleted after every error and event, and watches deliver
  every update in the end.  Nothing is assumed of GitLab, which may refuse every deregistration
  without api scope; faults are bounded by `MaxFaults`.
- `Drain`: calls may fail any number of times (`Abort`) but each succeeds in the end: strong
  fairness of each call of the pass.  The garbage collector collects, a pod on a live node
  ends, time passes.  Lost nodes never come back.
- `Rbac`: each controller takes its objects in turn (strong fairness of `Begin` for each
  object) and goes on; informers catch up; and at some time only these steps and the end of
  objects (`Work`) remain: users are done, calls stop failing, the operator stays up.  Without that
  there is no rest to reach.
- `Provision`: passes go on, informers catch up; the events are bounded by `MaxEvents`.
- `Refresh`: a pass goes on, a stopped operator is started again, what fails recovers, and
  disturbances end.  Time itself is not assumed to pass: where it stops there is rest, too.
- `Lives`: the work queue goes on, the garbage collector collects, watches deliver.  Users need
  not be fair; the number of objects is bounded by `MaxLives`.

## What is proved

TLAPS checks all theorems for every value of the constants under the named assumptions of the
modules: sentinel values differ from what they stand beside (ids, options, units, bundles, objects);
attempts, grace margins and lives are positive; a manager pod has its object's label and a
ReplicaSet named after its Deployment; the intervals of `Refresh` are ordered as the code's; two objects of `Rbac` in
one namespace have different names (in `Drain` they need not); the entries of a MultiRunner are finitely many; and a shape that the cluster has stored is
stored as it is.  A theorem that holds only for some faults or events says so before its `=>`; each
such condition is there because without it the property is false, as the
[last part](#where-code-and-documentation-disagree) shows.

**ManagedRunner, whatever goes wrong** (`ManagedRunnerProofs`).

- `TypeCorrect`: `TypeOK` is inductive, one step per action.
- `FinalizerBeforeRunner` (`FinalizerGuards`).  Not
  inductive alone: a pass may hold a stale copy.  The strengthening says that copies in hand
  and cache never have a finalizer the object did not get, and that a pass past its first step
  works on a copy that has it.
- `GivingUpIsEarned` (`GiveUpIsEarned`): what
  the copies say about attempts was counted in the API server before.
- `ByoSafe` (`ByoUntouched`), without `modeSwitch`: the Secret
  and the pass hold the user's token only for units that are not managed.

**Until the first fault** (`ManagedRunnerRegistry`): `OneRunner`, `StatusAndSecretAgree`
(`OneRunnerPerUnit`, `TokenMatchesStatus`), and `Implements` (`ImplementsRegistry`), which goes on
after it.  The inductive invariant `IInv` has three parts: `Copies` (which copies are equal
to the object and the Secret when the flags say so), `FinalizerInv`, and `CalmInv`, which
for each step of the pass says where a unit's runner is recorded: in the status and the
Secret between passes, in the status and the pass's `tokens` after `Persist`, in
`created` between the creation and `Persist`, nowhere after `DeleteOld`.  Its parameter `lost` is
what may stand in the place of a token: nothing here, `None` once the Secret was deleted (below).
`CalmInv({})` is
preserved by steps that are not faults, implies the first two properties and makes every
step before the first fault a `Promised` one or a stutter.  The steps from then on need less:
`Forward` says that runners and ids only go or are new and the object does not come back, and
`FaultyStepImplements` shows it of every action.  Refinement maps `live` to `RunnersOf`, `used`
to the owned ids, `open` to the object's existence and `disturbed` to `faults > 0`.

**After faults** (`ManagedRunnerFaults`).

- `OneRunnerInOutages`, `DeregisteredInOutages`, `ReplacedInOrder` (`AtMostOneRunner`,
  `DeregisteredUnlessGivenUp`, `OldRunnerRemovedFirst`), the properties of `outage`, for any number
  of calls to GitLab that fail, edits, expiries and attempts.  `OnlyOutages` are that
  run's events.  `OneUnit` says that the object is a Runner: in a MultiRunner a failure at the second
  entry ends the pass before the first one's new token is in the Secret.  `OutageInv` weakens
  `CalmInv` in one place, `OutageDeregistering`: the finalizer may let go of a registered runner, but
  only after the last attempt; and it adds that the pass has seen every attempt.
- `OneRunnerWithoutSecret`, `DeregisteredWithoutSecret` (`AtMostOneRunner`,
  `DeregisteredUnlessGivenUp`): what `outage` checks of a Runner without api scope, here with api
  scope, for any number of units and of deletions of the Secret, between any two steps of a pass
  or of the finalizer, as long as ids are left; no run has these events alone (`OnlySecretLost`).
  A foreground cascade may collect the Secret before the finalizer reads it (`shared.go:369`);
  with api scope that costs nothing, and no runner is ever `Leaked`.  The invariant is `CalmInv({None})`: of a lost
  token the status still knows the id.  `CalmStep` shows it of the undisturbed steps for both values
  of `lost`, since a deregistration by id that is allowed removes the same runner as one by token
  (`NothingLost`); `SecretGone` shows it of the deletion, the only step that is disturbed
  (`OnlySecretFails`).  Without api scope both properties are false: `GoesOn` replaces a runner that
  nobody can remove any more.
- `LeaksPaidFor` (`LeaksAreBounded`) for any number of units and every kind of fault: a fault costs
  at most one leaked runner per unit, as long as `faults` has not passed `MaxFaults`: it
  does so only when the model runs out of ids (`OutOfIds`), where `WithinBound` ends the runs, too.  This counts, so its invariant is an account.  A unit is
  `Controlled` when the operator will remove one of its runners before it loses track of it, if nothing
  goes wrong from here on, and `Debt` says that the pass works on an outdated object and so
  may lose what it creates without a further fault; `Budget` says that the runners that exist
  (`Live`) and the debt are no more than the controlled units and one runner per unit and fault.
  Each step is one of four kinds: it leaves the account alone (`Steady`), removes a
  runner (`LosesOne`), creates one (`GainsOne`) or is a fault (`Disturbs`); `BudgetStep` does the sums.

**Refresh** (`RefreshProofs`): `TypeCorrect` and `TokensInTime` (`InTime`), for any number of units
and any intervals in the order of the code's.  `InTime` is not inductive: that a token will be
looked at in time depends on the timer.  `RefreshInv` says that for every token that nobody is
about to look at, the timer ends early enough; that in a pass every unit handled so far is
covered by `soonest`; and that the delay a pass returns (`ResyncAfterBounds`) is never past the
point where a unit within it comes due.  `DownInv` says that a stopped operator has
neither queue nor timer, so that its start is what covers its tokens.

**Drain** (`DrainProofs`): `TypeCorrect`, `DrainedIsSafe` (`JobsFinish`), `OthersAreSafe`
(`OthersUntouched`).  The
invariant relates the pass's old clock reading to the present: a pod that was overdue then is
gone or on a lost node now, since the kubelet kills before the margin is over.  That the list is the
right one is a matter of names, however many objects the namespace has: `ManagersAreFound`, and
`OthersAreToldApart` by `NameAndKind` and `ChildNameParts`.  A manager of an object of another name
lacks the label, though its name may have the prefix (`ci` and `ci-docs`); one of the same name is of
the other kind, and the second part of its ReplicaSet's name says so.

**Rbac** (`RbacProofs`), for any number of objects, kinds, namespaces and requests.

- `TypeCorrect`, and `NothingLeaks` (`NoLeakedGrant`) under all events.  `PhaseInv` says that no
  copy is ahead of its object and that the steps of a pass fit the phase of its copy, `BindingInv` that
  a binding bears the name of the object it was made for, `OutsideInv` that the finalizer's
  list has every grant outside the object's namespace that it has not deleted yet: it reads past the
  caches, and nobody grants anything to an object that is being deleted.
- `NothingExtra` (`NoExtraGrant`) under all events: `ExtraInv` says that a pass which prunes has every
  binding that its spec does not ask for on its list, and that an object which waits for no pass has
  none that the cached spec does not ask for.
- `GrantedAsAsked` (`GrantsAsAsked`) under all events, the restart with another allow-list included:
  `AskInv` says that a pass which provisions has a spec that is not refused, and no binding on its
  list that the spec does not ask for; `PhaseInv` that its object still exists.
- `GrantsAreComplete` (`GrantsComplete`) under all events: `CacheInv` says that what a
  cache shows wrongly at home will bring the object back, `CompleteInv` what each step of
  a pass has provided unless another pass is to come.  Needs `NamesDiffer`: two objects of one name
  share a binding in a namespace they both build in.
- `GrantedThroughout` (`GrantsBeforeItRevokes`), also with `NamesDiffer`, and when no pass reads a
  stale cache and nobody tampers with bindings: `KeepInv` says that a pass which has come to the
  shared roles has bound the budget grant of the object in its hands.

**Provision** (`ProvisionProofs`), for all specs, bundles and ways in which a cluster stores a shape.

- `TypeCorrect`, `Provisions` (`RestsProvisioned`) under all events.  What rests was left by a pass
  that found nothing to write: `WorkInv` says for each step of the pass what it has established
  unless another is to come, and `InformedInv` that an informer which lags behind what
  matters brings one.
- `SaysSo` (`RestsReady`), when every status is written by a pass whose copy of the object is
  current (`StatusInv`).  `stuck_status` shows that it is false otherwise.

**Lives** (`LivesProofs`), for any number of objects, ids, attempts and faults.

- `TypeCorrect`, `ByoSurvives` (`ByoUntouched`) until the first fault.  `CalmInv` says that a managed
  object which knows a runner finds its own token in the Secret or none, except
  between the step that replaces the runner and the one that writes the Secret.
- `OwnsChildren` (`RestsOwned`) under every fault: `ChildInv` relates informers and children,
  `HandInv` the pass and the object, `TokenInv` the token of the pass and GitLab, and `RestInv`
  says that what a pass has seen to stays unless another pass is to come.
- `LivesArePaidFor` (`LeaksPerLife`) under every fault, by an account again.  `Lost` are the runners
  nobody can find any more.  Three debts count as lost already: `GoesAstray` (the status has a runner
  that the Secret's token will not remove), `Outdated` (the write of the status will be refused) and
  `Inherited` (the Secret is an earlier object's and will be collected).  `Account` says
  that both together are at most the faults and the lives after the first; the first life
  inherits no Secret (`LifeInv`).

**How far a proof goes.**  Liveness (`DeletionTerminates`, `DrainEnds`, `NeverBusy`, and `Settles` of
`Rbac`, `Provision` and `Lives`) is out of the prover's reach and only model-checked.  The proofs speak of the modules with the bounds that
these name (`MaxFaults`, `MaxEvents`, `MaxLives`), for every value of them.
The first-order prover behind `tlapm` 1.4.5 (Zenon) accepts goals of the form
`(A \cap B) \subseteq (C \cap D)` too readily.  The proofs contain none: sets that would be
intersections are written as comprehensions (`Live`, `Valid`, `Lost`).

## Where code and documentation disagree

Three runs keep a counterexample.

- `mode_switch`: a unit goes from `create_options` to a token of the user's and back to other
  `create_options`.  The status still has the first runner's id and hash, the Secret the user's
  token.  The hash differs, and the recreate deletes by that token (`shared.go:320`): the user's
  runner.  `docs/operations/uninstall.md` says that such runners are never deregistered by the
  operator.  Back to the same `create_options` the hash is equal and GitLab accepts the token, so
  the pass keeps it (`shared.go:279`); then it is the finalizer that deletes the user's runner
  (`shared.go:417`), as the run shows with one option and `delete` among the events.
- `stuck_status`: the deferred update compares the pass's status with the *cached* one.  After a
  pass that repaired the Secret of a ready object (and wrote `ready: false`), a pass that begins
  before the informer delivers that write ends ready, finds the cached status ready too and
  writes nothing.  The comment above `SetConfigMapVersion` wants this very outcome avoided.
  An update that fails, or gives up its retries, is logged and has the same effect.
- `busy_loop`: a GitLab whose tokens live shorter than 24 hours.  Every pass finds the token within
  `tokenRefreshThreshold` and replaces the runner, the Secret is written, and that brings the next
  pass at once; `resyncAfter`, whose floor the comment at `shared.go:52` trusts to prevent busy
  loops, is computed and never used.  Indeed the floor is out of reach of any pass that settles:
  a token it keeps has at least 24 hours left, the lead and the floor together are 12 hours and
  a minute.

One passing run speaks against a comment, too.

- `provision`: `Settles` holds though the cluster stores one of the shapes differently, as the
  API server does a `fieldRef` without an `apiVersion`.  The comments on `runner_env`
  (`runner_types.go:87`, `multirunner_types.go:74`) say that such an object "reconciles forever".
  It does not: `validate.Deployment` compares what was stored with what it sent and settles
  (`validate.go:175`), the object is ready and the passes end.  What is true of the comment is that
  every pass that does come finds a difference and sends the same update again, as
  `docs/guides/outbound-proxy.md` says ("no pod roll, no requeue loop").

The models show more, which are not kept as runs of their own.  Each is reproduced by checking
the property named with the events named.

- `AtMostOneRunner` with one `kubeError`: the API server refuses the write of the Secret
  after a creation; the token is lost, and the next pass registers a second runner when the access
  token may not delete by id (`shared.go:329` goes on deliberately).  With two units one
  `gitlabError` does it: the second unit fails, and the first unit's new token is dropped
  (`shared.go:212`).
- `DeregisteredUnlessGivenUp` with `entryRemoved`: nobody deregisters the runner of an entry
  that was removed from a MultiRunner.
- `OldRunnerRemovedFirst` with `revoke`: GitLab answers 403 to a token it no longer accepts,
  which counts as deleted (`gitlab.go:101`), though the runner is still registered.
- `RestsOwned` of `Lives` without its `faults = 0`: a managed object finds the Secret of an object
  that used a token of the user's.  The token is replaced when the status knows no runner yet, but
  if the write of the Secret fails once the status knows one, the next pass verifies the
  user's token, which GitLab accepts, and keeps it (`shared.go:279`); a later deletion of the object
  deregisters the user's runner by it.
- `LeaksPerLife` of `Lives` counts a runner for each object that found a Secret of another's: it
  keeps the dead owner, is collected, and the runner is created anew; without api scope nobody can
  remove the first one.
- The comment at `shared.go:44` says that a token near its expiry is refreshed in place, without
  recreating the runner; the code recreates it (`shared.go:274`).
- `GrantsComplete` demanded of foreign namespaces too, with `Requests` that toggle a grant there,
  and `stale`: a binding is taken for present from a cache that has not seen its removal, and as
  nobody watches it, it stays missing.  The property therefore speaks of the object's own namespace.  With two Runners of one name in two namespaces that build in
  a common one: the second takes the first's binding for its own, since only the roleRef is
  compared.  With `upgrade` and `fail` this breaks `GrantsBeforeItRevokes`, too: a pass over the first
  binds the budget grant there and fails, and the pass over the second finds it bound and narrows
  the base role by which alone the second had it.
- `GrantsBeforeItRevokes` with `stale` or `tamper`: a binding that the cache still shows is
  taken for present and the base role is narrowed; the watch brings the object back, so the grant
  is missing only until then.
- `OthersUntouched` speaks of the pods of other objects and of workloads that are no
  Deployments.  A Deployment of the user's that carries the label and is named like the manager's
  with a further part (`gitlab-runner-ci-canary` beside a Runner `ci`) passes the prefix test of
  `isManagerPod` (`shared.go:502`): the drain stops its pods, and when its ReplicaSet, which nobody
  deletes, replaces them, `DrainEnds` fails.  No run has such a pod, and an
  action that replaces it has to be added to see this.  The comment at `shared.go:499` says that
  "another workload reusing the selector label is not waited on".
- In `Drain`, `JobsFinish` excepts `late` pods: one that the ReplicaSet creates after the pass
  listed an empty set is missed.

## What is not modelled

- The wording of `config.toml`, the defaults and the deep copies of the API types, generated
  code, manifests, Helm charts: no behaviour beyond what they are rendered from.
- CEL admission rules: the specs enumerated are ones they admit.
- Metadata-only edits of the Deployment (its `config-version` annotation), which the generation
  filter hides from the operator until its next pass.
- Precedence of inline value, Secret and ConfigMap in token and CA sources: a pure function of what
  was read, without state.
- Leader election at the entry point: the manifests run one replica, and the modules have one
  worker per kind.
- How long calls and passes take: `Refresh` has no time within a pass, and no module has the
  back-off of the work queue.

## The plan

Done in this order, the most important first: `ManagedRunner` with its faults; its abstract
specification; the proofs; `Drain` and its proof; `Rbac`; `Provision`; `Refresh` and its proof;
`Lives`; the promise of `RunnerRegistry` and its proof extended to what goes wrong.

Then the proofs of what the runs check: `Rbac`, `Provision` and `Lives`, and of `ManagedRunner` the
outages, the lost Secret and the leaks.

Next:

1. A composition of `ManagedRunner` and `Drain`: no runner deregistered under a manager that
   takes jobs, with the counted attempts across drains; and its proof from those of the two.
2. `RunnerRegistry` has one unit's promise per object; a second abstract specification, for `Rbac`,
   of grants as a set that follows the requests, refined by its passes.
3. The precedence of token and CA sources as operators with a reference definition.
