------------------------ MODULE ManagedRunnerFaults ------------------------
(* What ManagedRunner still guarantees when things go wrong.               *)
(*                                                                         *)
(* First for a Runner when calls to GitLab fail but lose no answer; then   *)
(* for every object whose config Secret is deleted, when the operator may  *)
(* delete runners by id; then for every object and every fault: what a     *)
(* fault costs in leaked runners, by an account of the runners on GitLab   *)
(* and of those that the operator still controls.                          *)
EXTENDS ManagedRunnerRegistry, FiniteSetTheorems

-----------------------------------------------------------------------------
(* Outages of GitLab.                                                      *)

\* Nothing but GitLab fails, and it never loses an answer; users edit and delete.
OnlyOutages == Events \subseteq {"editOptions", "expiry", "uiDelete", "delete", "gitlabError"}

\* The object is a Runner: it has one unit.
OneUnit == \A e, f \in Entries : e = f

\* The pass has seen every attempt, and the Secret holds the tokens it found.
HandCurrent ==
  /\ pc # "idle" => hand.attempts = obj.attempts
  /\ pc \in Resolving => found = secret.tokens

\* The finalizer knows the runner it could not remove, and gives up only after
\* its last attempt.
OutageDeregistering ==
  /\ failed => pc \in {"deregister", "release"}
  /\ pc = "deregister" => \A e \in Entries :
       IF e \in todo THEN obj.id[e] # None /\ found[e] = obj.id[e]
                     ELSE failed \/ obj.id[e] \notin registered
  /\ pc = "release" => \/ obj.attempts = MaxAttempts
                       \/ \A e \in Entries : obj.id[e] \notin registered
  /\ ~obj.exists => \/ obj.attempts = MaxAttempts
                    \/ registered \subseteq {ByoRunner}

\* What the operator knows of its runner survives an outage: of the invariant of
\* an undisturbed run (CalmInv) only Deregistering is weaker.
OutageInv ==
  /\ HandFaithful /\ accepted = registered
  /\ StatusNames /\ Replacing /\ TokensKept({})
  /\ HandCurrent /\ OutageDeregistering

-----------------------------------------------------------------------------
(* The invariant of a Runner in outages.                                   *)

\* Without the other faults, reads and writes are current and users do not interfere.
LEMMA OutageFaults ==
  ASSUME OnlyOutages
  PROVE  /\ \A k \in {"gitlabLost", "kubeError", "staleCache", "crash", "revoke", "midPassEdit",
                    "secretDeleted", "entryRemoved", "modeSwitch"} : ~Fault(k)
         /\ \A c : CacheRead(c) => c
         /\ \A c : Refused(c) => ~c
         /\ UserActs => pc = "idle"
  BY DEF OnlyOutages, Fault, CacheRead, Refused, UserActs

\* A deregistration by the right token and id that reports success has removed the runner.
LEMMA SuccessRemoves ==
  ASSUME NEW i, i # None, NEW r \in Deregister(i, i), r.ok, accepted = registered
  PROVE  i \notin registered \ r.gone
<1>1. \A s \in DeleteByToken(i) : s.ok => s.gone = {i} \cap registered
  BY DEF DeleteByToken, DeleteOutcomes
<1>2. \A s \in DeleteById(i) : s.ok => s.gone = {i} \cap registered
  BY ScopeAssumption DEF DeleteById, DeleteOutcomes
<1>3. CASE r \in DeleteByToken(i)
  BY <1>1, <1>3
<1>4. CASE r \notin DeleteByToken(i)
  <2>1. PICK q \in DeleteByToken(i) \X DeleteById(i) :
          r = [gone |-> q[1].gone \cup q[2].gone, ok |-> q[2].ok,
               kind |-> Worse(q[1].kind, q[2].kind)]
    BY <1>4 DEF Deregister
  <2>2. q[2] \in DeleteById(i) /\ q[2].ok /\ q[2].gone \subseteq r.gone
    BY <2>1
  <2> QED BY <1>2, <2>2
<1> QED BY <1>3, <1>4

\* In an outage the operator keeps track of its runner, and a step of it never
\* depends on what only an undisturbed pass would know.
LEMMA OutageStep ==
  ASSUME OnlyOutages, OneUnit, TypeOK, FinalizerInv, Copies, OutageInv, [Next]_vars
  PROVE  OutageInv'
<1> USE OutageFaults, SentinelsAssumption
<1>0. TypeOK /\ Copies /\ FinalizerInv /\ OutageInv
  OBVIOUS
<1>t. ApiType /\ GitlabType /\ PassType
  BY <1>0 DEF TypeOK
<1>1. CASE BeginPass
  BY <1>1, <1>0, <1>t DEF BeginPass, FirstStep, CacheRead, Calm, Fault, OutageInv, Copies,
       HandFaithful, StatusNames, Replacing, TokensKept, HandCurrent, OutageDeregistering, Resolving, ApiType,
       GitlabType, PassType, Object, Runners, apiVars, secretVars, gitlabVars, localVars
<1>2. CASE AddFinalizer
  BY <1>2, <1>0, <1>t DEF AddFinalizer, ToDeferred, WriteObject, Applied, Refused, OutageInv,
       Copies, HandFaithful, StatusNames, Replacing, TokensKept, HandCurrent, OutageDeregistering, Resolving,
       ApiType, GitlabType, PassType, Object, Runners, apiVars, secretVars, gitlabVars,
       localVars
<1>3. CASE Preflight
  BY <1>3, <1>0, <1>t DEF Preflight, ToDeferred, OutageInv, Copies, HandFaithful, StatusNames,
       Replacing, TokensKept, HandCurrent, OutageDeregistering, Resolving, ApiType, GitlabType, PassType,
       Object, Runners, apiVars, secretVars, gitlabVars, localVars
<1>4. CASE ReadSecret
  BY <1>4, <1>0, <1>t DEF ReadSecret, OutageInv, Copies, HandFaithful, StatusNames, Replacing,
       TokensKept, HandCurrent, OutageDeregistering, Resolving, ApiType, GitlabType, PassType, Object, Runners,
       apiVars, secretVars, gitlabVars
<1>5. ASSUME NEW e \in Entries, UseOwnToken(e) PROVE OutageInv'
  <2>1. /\ UNCHANGED <<obj, hand, handCurrent, secret, found, registered, accepted, owner, failed>>
        /\ pc = "ensure" /\ pc' = "ensure" /\ todo' = todo \ {e}
    BY <1>5 DEF UseOwnToken, Resolve, apiVars, secretVars, gitlabVars
  <2>2. tokens'[e] = hand.id[e] \/ hand.id[e] = None
    BY <1>0, <1>t, <1>5 DEF UseOwnToken, IsManaged, OutageInv, HandFaithful, StatusNames
  <2>3. \A f \in Entries \ {e} : tokens'[f] = tokens[f]
    BY <1>5, <1>t DEF UseOwnToken, Resolve, PassType, TokenMap
  <2>4. TokensKept({})'
    BY <1>0, <2>1, <2>2, <2>3 DEF OutageInv, HandFaithful, TokensKept, Resolving
  <2>5. HandFaithful' /\ StatusNames' /\ Replacing' /\ HandCurrent' /\ OutageDeregistering' /\ accepted' = registered'
    BY <1>0, <2>1 DEF OutageInv, HandFaithful, StatusNames, Replacing, HandCurrent, OutageDeregistering
  <2> QED BY <2>4, <2>5 DEF OutageInv
<1>6. ASSUME NEW e \in Entries, KeepRunner(e) PROVE OutageInv'
  <2>1. /\ UNCHANGED <<obj, hand, handCurrent, secret, found, registered, accepted, owner, failed>>
        /\ pc = "ensure" /\ pc' = "ensure" /\ todo' = todo \ {e}
    BY <1>6 DEF KeepRunner, Resolve, apiVars, secretVars, gitlabVars
  <2>2. tokens'[e] = hand.id[e]
    BY <1>0, <1>t, <1>6 DEF KeepRunner, UpToDate, Resolve, PassType, TokenMap, OutageInv, HandFaithful,
                            TokensKept, Resolving
  <2>3. \A f \in Entries \ {e} : tokens'[f] = tokens[f]
    BY <1>6, <1>t DEF KeepRunner, Resolve, PassType, TokenMap
  <2>4. TokensKept({})'
    BY <1>0, <2>1, <2>2, <2>3 DEF OutageInv, HandFaithful, TokensKept, Resolving
  <2>5. HandFaithful' /\ StatusNames' /\ Replacing' /\ HandCurrent' /\ OutageDeregistering' /\ accepted' = registered'
    BY <1>0, <2>1 DEF OutageInv, HandFaithful, StatusNames, Replacing, HandCurrent, OutageDeregistering
  <2> QED BY <2>4, <2>5 DEF OutageInv
<1>7. ASSUME NEW e \in Entries, ReplaceRunner(e) PROVE OutageInv'
  BY <1>7, <1>0, <1>t DEF ReplaceRunner, OutageInv, Copies, HandFaithful, StatusNames,
       Replacing, TokensKept, HandCurrent, OutageDeregistering, Resolving, ApiType, GitlabType, PassType,
       Object, Runners, apiVars, secretVars, gitlabVars
<1>8. CASE AuthFails
  BY <1>8, <1>0, <1>t DEF AuthFails, ToDeferred, OutageInv, Copies, HandFaithful, StatusNames,
       Replacing, TokensKept, HandCurrent, OutageDeregistering, Resolving, OneUnit, ApiType, GitlabType, PassType,
       Object, Runners, apiVars, secretVars, gitlabVars, localVars
<1>9. CASE DeleteOld
  <2>1. /\ pc = "deleteOld" /\ unit \in Entries /\ unit \in todo
        /\ UNCHANGED <<obj, hand, handCurrent, secret, found, tokens, todo, unit, created, failed>>
    BY <1>0, <1>t, <1>9 DEF DeleteOld, PassType, OutageInv, Replacing, localVars, apiVars,
         secretVars
  <2>2. found[unit] = obj.id[unit] /\ found[unit] # None /\ hand.id[unit] = obj.id[unit]
    BY <1>0, <2>1 DEF OutageInv, Replacing, TokensKept, Resolving, HandFaithful
  <2>3. PICK r \in Deregister(found[unit], hand.id[unit]) :
          TakeEffect(r) /\ pc' = IF GoesOn(r) THEN "create" ELSE "deferred"
    BY <1>9 DEF DeleteOld
  <2>4. registered' = registered \ r.gone /\ accepted' = accepted \ r.gone
    BY <2>3 DEF TakeEffect
  <2>5. pc' = "create" => obj.id[unit] \notin registered'
    BY <1>0, <2>2, <2>3, <2>4, SuccessRemoves DEF GoesOn, OutageInv
  <2>6. pc' \in {"create", "deferred"}
    BY <2>3
  <2>7. registered' \subseteq registered /\ accepted' = registered' /\ owner' = owner
    BY <1>0, <1>9, <2>4, RemovalsShrink DEF OutageInv
  <2>8. HandFaithful' /\ StatusNames' /\ HandCurrent' /\ OutageDeregistering'
    BY <1>0, <2>1, <2>6, <2>7 DEF OutageInv, HandFaithful, StatusNames, HandCurrent,
         OutageDeregistering, Resolving
  <2>9. Replacing'
    BY <1>0, <2>1, <2>5, <2>6 DEF OutageInv, Replacing
  <2>10. TokensKept({})'
    BY <1>0, <2>1, <2>6 DEF OutageInv, TokensKept, Resolving, HandCurrent, OneUnit
  <2> QED BY <2>7, <2>8, <2>9, <2>10 DEF OutageInv
<1>10. CASE CreateRunner
  <2>a. PICK i \in Unused :
          /\ registered' = registered \cup {i} /\ accepted' = accepted \cup {i}
          /\ owner' = [owner EXCEPT ![i] = unit]
          /\ \/ Calm /\ pc' = "persist" /\ created' = i
             \/ Fault("gitlabLost") /\ pc' = "deferred" /\ UNCHANGED created
    BY <1>10 DEF CreateRunner
  <2>b. ~Fault("gitlabLost")
    BY <1>0
  <2>1. /\ registered' = registered \cup {i} /\ accepted' = accepted \cup {i}
        /\ owner' = [owner EXCEPT ![i] = unit]
        /\ pc' = "persist" /\ created' = i
    BY <2>a, <2>b
  <2>2. /\ pc = "create" /\ unit \in Entries /\ unit \in todo /\ obj.id[unit] \notin registered
        /\ UNCHANGED <<obj, hand, handCurrent, secret, found, tokens, todo, unit, failed>>
    BY <1>0, <1>t, <1>10 DEF CreateRunner, PassType, OutageInv, Replacing, apiVars, secretVars
  <2>3. i \in Ids /\ owner[i] = None /\ owner'[i] = unit /\ i \notin registered
    BY <1>0, <1>t, <2>1, <2>2 DEF Unused, GitlabType, Copies
  <2>4. \A j \in Ids \ {i} : owner'[j] = owner[j]
    BY <1>t, <2>1 DEF GitlabType
  <2>5. \A e \in Entries : obj.id[e] \in Ids \cup {None} /\ obj.id[e] # i
    BY <1>0, <1>t, <2>3 DEF ApiType, Object, OutageInv, StatusNames
  <2>6. StatusNames'
    BY <1>0, <2>1, <2>2, <2>3, <2>4, <2>5 DEF OutageInv, StatusNames
  <2>7. Replacing' /\ HandFaithful' /\ accepted' = registered'
    BY <1>0, <2>1, <2>2, <2>5 DEF OutageInv, Replacing, HandFaithful
  <2>8. TokensKept({})' /\ HandCurrent' /\ OutageDeregistering'
    BY <1>0, <2>1, <2>2 DEF OutageInv, TokensKept, Resolving, HandCurrent, OutageDeregistering, HandFaithful
  <2> QED BY <2>6, <2>7, <2>8 DEF OutageInv
<1>11. CASE OutOfIds
  BY <1>11, <1>0, <1>t DEF OutOfIds, ToDeferred, OutageInv, Copies, HandFaithful, StatusNames,
       Replacing, TokensKept, HandCurrent, OutageDeregistering, Resolving, OneUnit, ApiType,
       GitlabType, PassType, Object, Runners, apiVars, secretVars, gitlabVars, localVars
<1>12. CASE Persist
  <2>1. /\ pc = "persist" /\ unit \in Entries /\ unit \in todo /\ created \in Ids
        /\ obj.id[unit] \notin registered /\ owner[created] = unit /\ hand.spec[unit] \in Opts
    BY <1>0, <1>t, <1>12 DEF Persist, PassType, OutageInv, Replacing, StatusNames
  <2>2. /\ hand' = Registration(unit, created) /\ Applied(handCurrent)
        /\ obj' = [obj EXCEPT !.id = hand'.id, !.hash = hand'.hash]
        /\ tokens' = [tokens EXCEPT ![unit] = created] /\ todo' = todo \ {unit}
        /\ pc' = "ensure" /\ unit' = None
        /\ UNCHANGED <<handCurrent, found, failed, secret, registered, accepted, owner>>
    BY <1>0, <1>12, <2>1 DEF Persist, WriteObject, Resolve, OutageInv, HandFaithful,
         secretVars, gitlabVars
  <2>3. /\ hand'.id = [hand.id EXCEPT ![unit] = created] /\ hand'.spec = hand.spec
        /\ obj'.id = hand'.id /\ obj'.hash = hand'.hash /\ obj'.spec = obj.spec
        /\ obj'.exists = obj.exists
    BY <1>t, <2>2 DEF Registration, PassType, ApiType, Object
  <2>4. /\ obj'.id[unit] = created
        /\ \A e \in Entries \ {unit} : obj'.id[e] = obj.id[e]
    BY <1>0, <1>t, <2>1, <2>3 DEF OutageInv, HandFaithful, PassType, Object
  <2>5. HandFaithful' /\ accepted' = registered'
    BY <1>0, <2>1, <2>2, <2>3 DEF OutageInv, HandFaithful
  <2>6. StatusNames'
    <3>1. ASSUME NEW i \in Ids, i \in registered' PROVE i = obj'.id[owner[i]]
      <4>1. i = obj.id[owner[i]] \/ (unit = owner[i] /\ created = i)
        BY <1>0, <2>2, <3>1 DEF OutageInv, StatusNames
      <4>2. owner[i] \in Entries
        BY <1>0, <1>t, <2>2, <3>1 DEF Copies, GitlabType
      <4>3. CASE owner[i] = unit
        BY <2>1, <2>2, <2>4, <3>1, <4>1, <4>3
      <4>4. CASE owner[i] # unit
        BY <2>4, <4>1, <4>2, <4>4
      <4> QED BY <4>3, <4>4
    <3>2. ASSUME NEW e \in Entries, obj'.id[e] # None
          PROVE  owner[obj'.id[e]] = e /\ obj'.spec[e] \in Opts
      <4>1. CASE e = unit
        BY <1>0, <2>1, <2>3, <2>4, <4>1 DEF OutageInv, HandFaithful
      <4>2. CASE e # unit
        BY <1>0, <2>3, <2>4, <3>2, <4>2 DEF OutageInv, StatusNames
      <4> QED BY <4>1, <4>2
    <3> QED BY <2>2, <3>1, <3>2 DEF StatusNames
  <2>7. tokens'[unit] = created /\ \A e \in Entries \ {unit} : tokens'[e] = tokens[e]
    BY <1>t, <2>1, <2>2 DEF PassType, TokenMap
  <2>8. TokensKept({})'
    BY <1>0, <2>1, <2>2, <2>4, <2>7 DEF OutageInv, TokensKept, Resolving
  <2>10. hand'.attempts = hand.attempts /\ obj'.attempts = obj.attempts
    BY <1>t, <2>2 DEF Registration, PassType, ApiType, Object
  <2>9. Replacing' /\ HandCurrent' /\ OutageDeregistering'
    BY <1>0, <2>1, <2>2, <2>3, <2>10
       DEF OutageInv, HandFaithful, Replacing, HandCurrent, OutageDeregistering, Resolving
  <2> QED BY <2>5, <2>6, <2>8, <2>9 DEF OutageInv
<1>13. CASE AllResolved
  BY <1>13, <1>0, <1>t DEF AllResolved, OutageInv, Copies, HandFaithful, StatusNames,
       Replacing, TokensKept, HandCurrent, OutageDeregistering, Resolving, ApiType, GitlabType, PassType,
       Object, Runners, apiVars, secretVars, gitlabVars, localVars
<1>14. CASE WriteSecret
  BY <1>14, <1>0, <1>t DEF WriteSecret, ToDeferred, DesiredSecret, OutageInv, Copies,
       HandFaithful, StatusNames, Replacing, TokensKept, HandCurrent, OutageDeregistering, Resolving, ApiType,
       GitlabType, PassType, Object, Runners, apiVars, secretVars, gitlabVars, localVars
<1>15. CASE DeferredStatus
  <2>1. /\ pc = "deferred" /\ obj.exists /\ hand.id = obj.id /\ hand.hash = obj.hash
        /\ pc' = "idle" /\ ~failed'
        /\ UNCHANGED <<secret, registered, accepted, owner>>
    BY <1>0, <1>15 DEF DeferredStatus, EndPass, OutageInv, HandFaithful, secretVars,
         gitlabVars
  <2>2. obj' = obj \/ obj' = [obj EXCEPT !.id = hand.id, !.hash = hand.hash]
    BY <1>15 DEF DeferredStatus, WriteObject, apiVars
  <2>3. /\ obj'.id = obj.id /\ obj'.spec = obj.spec /\ obj'.exists = obj.exists
        /\ obj'.attempts = obj.attempts
    BY <1>t, <2>1, <2>2 DEF ApiType, Object
  <2>4. HandFaithful' /\ StatusNames' /\ Replacing' /\ HandCurrent' /\ OutageDeregistering'
    BY <1>0, <2>1, <2>3 DEF OutageInv, HandFaithful, StatusNames, Replacing,
         HandCurrent, OutageDeregistering, Resolving
  <2>5. TokensKept({})'
    BY <1>0, <2>1, <2>3 DEF OutageInv, TokensKept, Resolving
  <2> QED BY <1>0, <2>1, <2>4, <2>5 DEF OutageInv
<1>16. CASE RecoverTokens
  <2>1. /\ pc = "recover" /\ pc' = "deregister" /\ found' = secret.tokens
        /\ todo' = {e \in Entries : obj.spec[e] \in Opts /\ obj.id[e] # None}
        /\ UNCHANGED <<obj, hand, handCurrent, secret, failed, registered, accepted, owner>>
    BY <1>0, <1>16 DEF RecoverTokens, ToDeregister, IsManaged, OutageInv, HandFaithful, Copies,
                       apiVars, secretVars, gitlabVars
  <2>2. \A e \in Entries : e \in todo' <=> obj.id[e] # None
    BY <1>0, <2>1 DEF OutageInv, StatusNames
  <2>3. None \notin registered
    BY <1>t DEF GitlabType, Runners
  <2>4. \A e \in Entries : obj.id[e] # None => secret.tokens[e] = obj.id[e]
    BY <1>0, <2>1 DEF OutageInv, TokensKept, Resolving
  <2>5. HandCurrent' /\ OutageDeregistering'
    BY <1>0, <2>1, <2>2, <2>3, <2>4 DEF OutageInv, HandCurrent, OutageDeregistering, Resolving
  <2>6. HandFaithful' /\ StatusNames' /\ Replacing' /\ TokensKept({})'
    BY <1>0, <2>1, <2>4 DEF OutageInv, HandFaithful, StatusNames, Replacing, TokensKept,
         Resolving
  <2> QED BY <1>0, <2>1, <2>5, <2>6 DEF OutageInv
<1>17. ASSUME NEW e \in Entries, DeregisterUnit(e) PROVE OutageInv'
  <2>1. /\ pc = "deregister" /\ pc' = "deregister" /\ e \in todo /\ todo' = todo \ {e}
        /\ UNCHANGED <<obj, hand, handCurrent, secret, found>>
    BY <1>17 DEF DeregisterUnit, apiVars, secretVars
  <2>2. found[e] = obj.id[e] /\ found[e] # None /\ hand.id[e] = obj.id[e]
    BY <1>0, <2>1 DEF OutageInv, OutageDeregistering, HandFaithful
  <2>3. PICK r \in Deregister(found[e], hand.id[e]) :
          TakeEffect(r) /\ failed' = (failed \/ ~r.ok)
    BY <1>17 DEF DeregisterUnit
  <2>4. registered' = registered \ r.gone /\ accepted' = accepted \ r.gone
    BY <2>3 DEF TakeEffect
  <2>5. r.ok => obj.id[e] \notin registered'
    BY <1>0, <2>2, <2>4, SuccessRemoves DEF OutageInv
  <2>6. failed' \/ (r.ok /\ obj.id[e] \notin registered')
    BY <2>3, <2>5
  <2>7. registered' \subseteq registered /\ accepted' = registered' /\ owner' = owner
    BY <1>0, <1>17, <2>4, RemovalsShrink DEF OutageInv
  <2>8. HandFaithful' /\ StatusNames' /\ Replacing' /\ TokensKept({})' /\ HandCurrent'
    BY <1>0, <2>1, <2>7 DEF OutageInv, HandFaithful, StatusNames, Replacing, TokensKept,
         HandCurrent, Resolving
  <2>9. failed => failed'
    BY <2>3
  <2>10. OutageDeregistering'
    BY <1>0, <2>1, <2>6, <2>7, <2>9 DEF OutageInv, OutageDeregistering
  <2> QED BY <2>7, <2>8, <2>10 DEF OutageInv
<1>18. CASE CountAttempt
  <2>1. /\ pc = "deregister" /\ todo = {} /\ failed
        /\ obj' = [obj EXCEPT !.attempts = NextAttempt]
        /\ UNCHANGED <<secret, registered, accepted, owner>>
    BY <1>0, <1>18 DEF CountAttempt, WriteObject, OutageInv, HandFaithful, secretVars, gitlabVars
  <2>2. /\ obj'.id = obj.id /\ obj'.hash = obj.hash /\ obj'.spec = obj.spec
        /\ obj'.exists = obj.exists /\ obj'.attempts = NextAttempt
    BY <1>t, <2>1 DEF ApiType, Object
  <2>3. obj.attempts = MaxAttempts => NextAttempt = MaxAttempts
    BY <1>0, <2>1, AttemptsAssumption DEF NextAttempt, OutageInv, HandCurrent
  <2>4. StatusNames' /\ accepted' = registered' /\ pc' \in {"idle", "release"}
    BY <1>0, <1>18, <2>1, <2>2 DEF CountAttempt, EndPass, OutageInv, StatusNames
  <2>5. Replacing' /\ TokensKept({})'
    BY <1>0, <2>1, <2>2, <2>4 DEF OutageInv, Replacing, TokensKept, Resolving
  <2>6. CASE NextAttempt < MaxAttempts
    <3>1. pc' = "idle" /\ ~failed'
      BY <1>18, <2>6 DEF CountAttempt, EndPass
    <3> QED BY <1>0, <2>1, <2>2, <2>4, <2>5, <3>1 DEF OutageInv, HandFaithful, HandCurrent,
                OutageDeregistering, Resolving
  <2>7. CASE ~(NextAttempt < MaxAttempts)
    <3>1. /\ pc' = "release" /\ hand' = [hand EXCEPT !.attempts = NextAttempt]
          /\ UNCHANGED <<handCurrent, failed>>
      BY <1>18, <2>7 DEF CountAttempt, localVars
    <3>2. /\ hand'.id = hand.id /\ hand'.hash = hand.hash /\ hand'.spec = hand.spec
          /\ hand'.attempts = NextAttempt
      BY <1>t, <3>1 DEF PassType, Object
    <3>3. NextAttempt = MaxAttempts
      BY <1>t, <2>7, AttemptsAssumption DEF NextAttempt, PassType, Object
    <3> QED BY <1>0, <2>1, <2>2, <2>4, <2>5, <3>1, <3>2, <3>3 DEF OutageInv, HandFaithful,
                HandCurrent, OutageDeregistering, Resolving
  <2> QED BY <2>6, <2>7
<1>19. CASE AllDeregistered
  BY <1>19, <1>0, <1>t DEF AllDeregistered, OutageInv, Copies, HandFaithful, StatusNames,
       Replacing, TokensKept, HandCurrent, OutageDeregistering, Resolving, ApiType, GitlabType, PassType,
       Object, Runners, apiVars, secretVars, gitlabVars, localVars
<1>20. CASE Release
  <2>1. /\ pc = "release" /\ pc' = "idle" /\ ~failed'
        /\ obj' = [obj EXCEPT !.exists = FALSE, !.finalizer = FALSE]
        /\ UNCHANGED <<secret, registered, accepted, owner>>
    BY <1>0, <1>20 DEF Release, EndPass, WriteObject, OutageInv, HandFaithful, secretVars,
         gitlabVars
  <2>2. obj'.id = obj.id /\ obj'.spec = obj.spec /\ obj'.attempts = obj.attempts
    BY <1>t, <2>1 DEF ApiType, Object
  <2>3. obj.attempts = MaxAttempts \/ registered \subseteq {ByoRunner}
    <3>1. ASSUME \A e \in Entries : obj.id[e] \notin registered, NEW i \in Ids, i \in registered
          PROVE  FALSE
      <4>1. i = obj.id[owner[i]] /\ owner[i] \in Entries
        BY <1>0, <1>t, <2>1, <3>1 DEF OutageInv, StatusNames, Copies, GitlabType
      <4> QED BY <3>1, <4>1
    <3> QED BY <1>0, <1>t, <2>1, <3>1 DEF OutageInv, OutageDeregistering, GitlabType, Runners
  <2>4. HandCurrent' /\ OutageDeregistering'
    BY <2>1, <2>2, <2>3 DEF HandCurrent, OutageDeregistering, Resolving
  <2>5. HandFaithful' /\ StatusNames' /\ Replacing' /\ TokensKept({})'
    BY <1>0, <2>1, <2>2 DEF OutageInv, HandFaithful, StatusNames, Replacing, TokensKept,
         Resolving
  <2> QED BY <1>0, <2>1, <2>4, <2>5 DEF OutageInv
<1>21. ASSUME NEW e \in Entries, EditOptions(e) PROVE OutageInv'
  BY <1>21, <1>0, <1>t DEF EditOptions, Overwrite, UserUnchanged, OutageInv, Copies,
       HandFaithful, StatusNames, Replacing, TokensKept, HandCurrent, OutageDeregistering, Resolving, ApiType,
       GitlabType, PassType, Object, Runners, secretVars, gitlabVars, localVars
<1>22. ASSUME NEW e \in Entries, SwitchMode(e) PROVE OutageInv'
  BY <1>22, <1>0, <1>t DEF SwitchMode, Overwrite, UserUnchanged, OutageInv, Copies,
       HandFaithful, StatusNames, Replacing, TokensKept, HandCurrent, OutageDeregistering, Resolving, ApiType,
       GitlabType, PassType, Object, Runners, secretVars, gitlabVars, localVars
<1>23. ASSUME NEW e \in Entries, RemoveEntry(e) PROVE OutageInv'
  BY <1>23, <1>0, <1>t DEF RemoveEntry, Overwrite, UserUnchanged, OutageInv, Copies,
       HandFaithful, StatusNames, Replacing, TokensKept, HandCurrent, OutageDeregistering, Resolving, ApiType,
       GitlabType, PassType, Object, Runners, secretVars, gitlabVars, localVars
<1>24. CASE DeleteObject
  <2>a. pc = "idle"
    BY <1>0, <1>24 DEF DeleteObject
  <2>b. Overwrite(IF obj.finalizer THEN [obj EXCEPT !.deleting = TRUE]
                                   ELSE [obj EXCEPT !.exists = FALSE])
    BY <1>24 DEF DeleteObject
  <2>1. /\ pc = "idle" /\ obj.exists
        /\ obj' = IF obj.finalizer THEN [obj EXCEPT !.deleting = TRUE]
                                   ELSE [obj EXCEPT !.exists = FALSE]
        /\ UNCHANGED <<pc, secret, failed, registered, accepted, owner>>
    BY <1>24, <2>a, <2>b DEF DeleteObject, Overwrite, UserUnchanged, secretVars, gitlabVars,
         localVars
  <2>2. /\ obj'.id = obj.id /\ obj'.spec = obj.spec /\ (obj.finalizer => obj'.exists = obj.exists)
        /\ obj'.attempts = obj.attempts
    BY <1>t, <2>1 DEF ApiType, Object
  <2>3. HandCurrent' /\ OutageDeregistering'
    BY <1>0, <2>1, <2>2 DEF OutageInv, HandCurrent, OutageDeregistering, FinalizerInv,
         Guarded, Resolving
  <2>4. HandFaithful' /\ StatusNames' /\ Replacing' /\ TokensKept({})'
    BY <1>0, <2>1, <2>2 DEF OutageInv, HandFaithful, StatusNames, Replacing, TokensKept,
         Resolving
  <2> QED BY <1>0, <2>1, <2>3, <2>4 DEF OutageInv
<1>25. CASE DeleteSecret
  BY <1>25, <1>0, <1>t DEF DeleteSecret, OutageInv, Copies, HandFaithful, StatusNames,
       Replacing, TokensKept, HandCurrent, OutageDeregistering, Resolving, ApiType, GitlabType, PassType,
       Object, Runners, apiVars, gitlabVars, passVars, localVars
<1>26. ASSUME NEW i \in Ids, UiDelete(i) PROVE OutageInv'
  BY <1>26, <1>0, <1>t DEF UiDelete, OutageInv, Copies, HandFaithful, StatusNames, Replacing,
       TokensKept, HandCurrent, OutageDeregistering, Resolving, ApiType, GitlabType, PassType, Object, Runners,
       apiVars, secretVars, passVars, localVars
<1>27. ASSUME NEW i \in Ids, Revoke(i) PROVE OutageInv'
  BY <1>27, <1>0, <1>t DEF Revoke, OutageInv, Copies, HandFaithful, StatusNames, Replacing,
       TokensKept, HandCurrent, OutageDeregistering, Resolving, ApiType, GitlabType, PassType, Object, Runners,
       apiVars, secretVars, passVars, localVars
<1>28. ASSUME NEW i \in Ids, NearExpiry(i) PROVE OutageInv'
  BY <1>28, <1>0, <1>t DEF NearExpiry, OutageInv, Copies, HandFaithful, StatusNames,
       Replacing, TokensKept, HandCurrent, OutageDeregistering, Resolving, ApiType, GitlabType, PassType,
       Object, Runners, apiVars, secretVars, passVars, localVars
<1>29. CASE SyncObject
  BY <1>29, <1>0, <1>t DEF SyncObject, OutageInv, Copies, HandFaithful, StatusNames,
       Replacing, TokensKept, HandCurrent, OutageDeregistering, Resolving, ApiType, GitlabType, PassType,
       Object, Runners, secretVars, gitlabVars, passVars, localVars
<1>30. CASE SyncSecret
  BY <1>30, <1>0, <1>t DEF SyncSecret, OutageInv, Copies, HandFaithful, StatusNames,
       Replacing, TokensKept, HandCurrent, OutageDeregistering, Resolving, ApiType, GitlabType, PassType,
       Object, Runners, apiVars, gitlabVars, passVars, localVars
<1>31. CASE Crash
  BY <1>31, <1>0, <1>t DEF Crash, EndPass, OutageInv, Copies, HandFaithful, StatusNames,
       Replacing, TokensKept, HandCurrent, OutageDeregistering, Resolving, ApiType, GitlabType, PassType,
       Object, Runners, gitlabVars
<1>32. CASE UNCHANGED vars
  <2>1. OutageInv' <=> OutageInv
    BY <1>32 DEF vars, OutageInv, HandFaithful, StatusNames, Replacing, TokensKept, HandCurrent, OutageDeregistering,
                 apiVars, secretVars, gitlabVars, passVars, localVars
  <2> QED BY <1>0, <2>1
<1> QED BY <1>1, <1>2, <1>3, <1>4, <1>5, <1>6, <1>7, <1>8, <1>9, <1>10, <1>11, <1>12, <1>13,
     <1>14, <1>15, <1>16, <1>17, <1>18, <1>19, <1>20, <1>21, <1>22, <1>23, <1>24, <1>25,
     <1>26, <1>27, <1>28, <1>29, <1>30, <1>31, <1>32 DEF Next, Pass, Environment

\* The initial states satisfy the invariant.
LEMMA OutageInit == Init => OutageInv
<1> SUFFICES ASSUME Init PROVE OutageInv
  OBVIOUS
<1>1. registered = {ByoRunner} /\ accepted = {ByoRunner} /\ pc = "idle" /\ failed = FALSE
  BY DEF Init
<1>2. ByoRunner \notin Ids
  BY SentinelsAssumption
<1>3. PICK s \in [Entries -> Opts \cup {BringYourOwn}] :
        obj = [NoObject EXCEPT !.exists = TRUE, !.spec = s]
  BY DEF Init
<1>4. obj.exists /\ \A e \in Entries : obj.id[e] = None
  BY <1>3 DEF NoObject
<1> QED BY <1>1, <1>2, <1>4 DEF OutageInv, HandFaithful, StatusNames, Replacing, TokensKept,
            HandCurrent, OutageDeregistering, Resolving

\* Everything the operator knows of its runner, in every state of a run in which
\* only GitLab fails.
LEMMA OutageInvariant ==
  OnlyOutages /\ OneUnit => (Spec => [](TypeOK /\ FinalizerInv /\ Copies /\ OutageInv))
<1> SUFFICES ASSUME OnlyOutages, OneUnit
             PROVE  Spec => [](TypeOK /\ FinalizerInv /\ Copies /\ OutageInv)
  OBVIOUS
<1> DEFINE Inv == TypeOK /\ FinalizerInv /\ Copies /\ OutageInv
<1>1. Init => Inv
  BY InitIInv, OutageInit DEF IInv
<1>2. Inv /\ [Next]_vars => Inv'
  BY NextType, FinalizerStep, CopiesStep, OutageStep
<1> QED BY <1>1, <1>2, PTL DEF Spec

\* However long GitLab is out, and however often the user edits, a Runner never
\* has two runners on GitLab: a removal that failed is repeated before the
\* replacement is created (recreateManagedRunner).
THEOREM OneRunnerInOutages == OnlyOutages /\ OneUnit => (Spec => []AtMostOneRunner)
<1> SUFFICES ASSUME OnlyOutages, OneUnit PROVE Spec => []AtMostOneRunner
  OBVIOUS
<1>1. TypeOK /\ Copies /\ OutageInv => AtMostOneRunner
  BY NamedOnce DEF OutageInv
<1> QED BY <1>1, OutageInvariant, PTL

\* An object whose finalizer was dropped before the last attempt failed leaves
\* no runner behind, however many deregistrations an outage made fail before.
THEOREM DeregisteredInOutages ==
  OnlyOutages /\ OneUnit => (Spec => []DeregisteredUnlessGivenUp)
<1> SUFFICES ASSUME OnlyOutages, OneUnit PROVE Spec => []DeregisteredUnlessGivenUp
  OBVIOUS
<1>1. OutageInv /\ TypeOK => DeregisteredUnlessGivenUp
  BY AttemptsAssumption DEF OutageInv, OutageDeregistering, DeregisteredUnlessGivenUp
<1> QED BY <1>1, OutageInvariant, PTL

\* A replacement is created only once the old runner, whose token the pass had,
\* is gone from GitLab: whichever of the two calls that remove it failed.
THEOREM ReplacedInOrder == OnlyOutages /\ OneUnit => (Spec => OldRunnerRemovedFirst)
<1> SUFFICES ASSUME OnlyOutages, OneUnit PROVE Spec => OldRunnerRemovedFirst
  OBVIOUS
<1> DEFINE Inv == TypeOK /\ FinalizerInv /\ Copies /\ OutageInv
           Order == pc = "create" /\ pc' = "persist" /\ found[unit] # None =>
                      hand.id[unit] \notin registered
<1>1. Inv => Order
  BY DEF OutageInv, HandFaithful, Replacing
<1>2. Inv /\ [Next]_vars => [Order]_vars
  BY <1>1
<1>3. OldRunnerRemovedFirst <=> [][Order]_vars
  BY DEF OldRunnerRemovedFirst
<1> HIDE DEF Inv, Order
<1>4. Spec => []Inv
  BY OutageInvariant DEF Inv
<1>5. Spec => [][Order]_vars
  BY <1>2, <1>4, PTL DEF Spec
<1> QED BY <1>3, <1>5

-----------------------------------------------------------------------------
(* A deleted config Secret.                                                *)

\* Nothing but the Secret is lost, any number of times; users edit and delete.
OnlySecretLost == Events \subseteq {"editOptions", "expiry", "uiDelete", "delete", "secretDeleted"}

\* The status names every runner, within the bound on ids; its token may be lost.
IdsKnown == faults <= MaxFaults => CalmInv({None})

\* What disturbs a deregistration is GitLab.
LEMMA DeregisterKind ==
  ASSUME NEW t, NEW i, NEW r \in Deregister(t, i)
  PROVE  r.kind \in {"none", "gitlabError", "gitlabLost"}
<1>1. \A removed, allowed : \A s \in DeleteOutcomes(removed, allowed) :
        s.kind \in {"none", "gitlabError", "gitlabLost"}
  BY DEF DeleteOutcomes
<1>2. \A s \in DeleteByToken(t) \cup DeleteById(i) : s.kind \in {"none", "gitlabError", "gitlabLost"}
  BY <1>1 DEF DeleteByToken, DeleteById
<1>3. CASE r \in DeleteByToken(t) \cup DeleteById(i)
  BY <1>2, <1>3
<1>4. CASE r \notin DeleteByToken(t) \cup DeleteById(i)
  <2>1. PICK q \in DeleteByToken(t) \X DeleteById(i) :
          r = [gone |-> q[1].gone \cup q[2].gone, ok |-> q[2].ok,
               kind |-> Worse(q[1].kind, q[2].kind)]
    BY <1>4 DEF Deregister
  <2>2. q[1] \in DeleteByToken(t) /\ r.kind \in {q[1].kind, "gitlabLost"}
    BY <2>1 DEF Worse
  <2> QED BY <1>2, <2>2
<1> QED BY <1>3, <1>4

\* Nothing but the deletion of the Secret disturbs a step.
LEMMA OnlySecretFails ==
  ASSUME OnlySecretLost, [Next]_vars, ~OutOfIds, ~DeleteSecret
  PROVE  faults' = faults
<1>1. \A k \in {"gitlabError", "gitlabLost", "kubeError", "staleCache", "crash", "revoke",
               "midPassEdit", "entryRemoved", "modeSwitch"} : ~Fault(k)
  BY DEF OnlySecretLost, Fault
<1>2. \A c : CacheRead(c) \/ Refused(c) \/ Applied(c) => Calm
  BY <1>1 DEF CacheRead, Refused, Applied
<1>3. UserActs => Calm
  BY <1>1 DEF UserActs
<1>4. ASSUME NEW t, NEW i, NEW r \in Deregister(t, i), TakeEffect(r) PROVE Calm
  <2>1. r.kind \in {"none", "gitlabError", "gitlabLost"}
    BY DeregisterKind
  <2> QED BY <1>1, <1>4, <2>1 DEF TakeEffect
<1>5. ASSUME Next PROVE Calm
  <2>1. CASE BeginPass \/ AddFinalizer \/ Preflight \/ ReadSecret \/ AuthFails \/ AllResolved
    BY <1>1, <1>2, <2>1 DEF BeginPass, AddFinalizer, Preflight, ReadSecret, AuthFails, AllResolved
  <2>2. ASSUME NEW e \in Entries, UseOwnToken(e) \/ KeepRunner(e) \/ ReplaceRunner(e)
        PROVE  Calm
    BY <2>2 DEF UseOwnToken, KeepRunner, ReplaceRunner
  <2>3. CASE DeleteOld
    BY <1>4, <2>3 DEF DeleteOld
  <2>4. CASE CreateRunner
    BY <1>1, <2>4 DEF CreateRunner
  <2>5. CASE Persist
    BY <1>2, <2>5 DEF Persist
  <2>6. CASE WriteSecret
    BY <1>1, <1>2, <2>6 DEF WriteSecret
  <2>7. CASE DeferredStatus
    BY <1>1, <2>7 DEF DeferredStatus
  <2>8. CASE RecoverTokens \/ CountAttempt \/ AllDeregistered \/ Release
    BY <1>1, <1>2, <2>8 DEF RecoverTokens, CountAttempt, AllDeregistered, Release
  <2>9. ASSUME NEW e \in Entries, DeregisterUnit(e) PROVE Calm
    BY <1>4, <2>9 DEF DeregisterUnit
  <2>10. ASSUME NEW e \in Entries, EditOptions(e) \/ SwitchMode(e) \/ RemoveEntry(e)
         PROVE  Calm
    BY <1>1, <1>3, <2>10 DEF EditOptions, SwitchMode, RemoveEntry
  <2>11. CASE DeleteObject \/ SyncObject \/ SyncSecret \/ Crash
    BY <1>1, <1>3, <2>11 DEF DeleteObject, SyncObject, SyncSecret, Crash
  <2>12. ASSUME NEW i \in Ids, UiDelete(i) \/ Revoke(i) \/ NearExpiry(i) PROVE Calm
    BY <1>1, <2>12 DEF UiDelete, Revoke, NearExpiry
  <2> QED BY <1>5, <2>1, <2>2, <2>3, <2>4, <2>5, <2>6, <2>7, <2>8, <2>9, <2>10, <2>11, <2>12
          DEF Next, Pass, Environment
<1> QED BY <1>5 DEF Calm, vars

\* The deletion of the Secret loses tokens and nothing else.
LEMMA SecretGone ==
  ASSUME TypeOK, CalmInv({None}), DeleteSecret
  PROVE  CalmInv({None})'
<1>1. /\ secret'.tokens = [e \in Entries |-> None]
      /\ UNCHANGED <<obj, hand, handCurrent, pc, found, tokens, todo, unit, created, failed,
                     registered, accepted, owner>>
  BY DEF DeleteSecret, NoSecret, NoTokens, apiVars, gitlabVars, passVars, localVars
<1>2. HandFaithful' /\ StatusNames' /\ Replacing' /\ Deregistering({None})'
  BY <1>1 DEF CalmInv, HandFaithful, StatusNames, Replacing, Deregistering
<1>3. TokensKept({None})'
  BY <1>1 DEF CalmInv, TokensKept, Resolving
<1> QED BY <1>1, <1>2, <1>3 DEF CalmInv

\* Everything the operator knows of its runners, in every state of a run in
\* which only the Secret is lost.
LEMMA LostSecretInvariant ==
  ApiScope /\ OnlySecretLost => (Spec => [](TypeOK /\ FinalizerInv /\ Copies /\ IdsKnown))
<1> SUFFICES ASSUME ApiScope, OnlySecretLost
             PROVE  Spec => [](TypeOK /\ FinalizerInv /\ Copies /\ IdsKnown)
  OBVIOUS
<1> DEFINE Inv == TypeOK /\ FinalizerInv /\ Copies /\ IdsKnown
<1>1. Init => Inv
  <2> SUFFICES ASSUME Init PROVE Inv
    OBVIOUS
  <2>1. IInv /\ faults = 0
    BY InitIInv DEF Init
  <2>2. CalmInv({None})
    BY <2>1 DEF IInv, CalmInv, TokensKept, Deregistering
  <2> QED BY <2>1, <2>2 DEF IInv, IdsKnown
<1>2. Inv /\ [Next]_vars => Inv'
  <2> SUFFICES ASSUME Inv, [Next]_vars PROVE Inv'
    OBVIOUS
  <2>1. TypeOK' /\ FinalizerInv' /\ Copies'
    BY NextType, FinalizerStep, CopiesStep
  <2>2. ASSUME faults' <= MaxFaults PROVE CalmInv({None})'
    <3>1. ~OutOfIds
      BY <2>2, FaultsAssumption DEF OutOfIds
    <3>2. CASE DeleteSecret
      <4>1. faults <= MaxFaults
        BY <3>2, FaultsAssumption DEF DeleteSecret, Fault, TypeOK
      <4> QED BY <3>2, <4>1, SecretGone DEF IdsKnown
    <3>3. CASE ~DeleteSecret
      <4>1. faults' = faults
        BY <3>1, <3>3, OnlySecretFails
      <4>2. faults <= MaxFaults
        BY <2>2, <4>1
      <4> QED BY <4>1, <4>2, CalmStep DEF IdsKnown
    <3> QED BY <3>2, <3>3
  <2> QED BY <2>1, <2>2 DEF IdsKnown
<1> QED BY <1>1, <1>2, PTL DEF Spec

\* If the operator may delete a runner by its id, a unit has one runner however
\* often its Secret is deleted and whatever is edited: the replacement for a lost
\* token (ensureManagedRunner) removes by id the runner that token belonged to.
THEOREM OneRunnerWithoutSecret ==
  ApiScope /\ OnlySecretLost => (Spec => [](faults <= MaxFaults => AtMostOneRunner))
<1>1. TypeOK /\ Copies /\ IdsKnown => (faults <= MaxFaults => AtMostOneRunner)
  BY NamedOnce DEF IdsKnown, CalmInv
<1> QED BY <1>1, LostSecretInvariant, PTL

\* And the object leaves no runner behind, nor does the operator lose sight of
\* one while it exists: a finalizer that finds the Secret already deleted
\* (removeManagedRunners) deregisters by the ids in the status.
THEOREM DeregisteredWithoutSecret ==
  ApiScope /\ OnlySecretLost =>
    (Spec => [](faults <= MaxFaults => DeregisteredUnlessGivenUp /\ Leaked = {}))
<1>1. TypeOK /\ Copies /\ IdsKnown /\ faults <= MaxFaults => DeregisteredUnlessGivenUp
  BY DEF IdsKnown, CalmInv, Deregistering, DeregisteredUnlessGivenUp
<1>2. TypeOK /\ Copies /\ IdsKnown /\ faults <= MaxFaults => Leaked = {}
  <2> SUFFICES ASSUME TypeOK, Copies, IdsKnown, faults <= MaxFaults, NEW i \in Leaked PROVE FALSE
    OBVIOUS
  <2>1. i \in Ids /\ i \in registered /\ i # ByoRunner
    BY SentinelsAssumption DEF Leaked
  <2>2. owner[i] \in Entries
    BY <2>1 DEF Copies, TypeOK, GitlabType
  <2>3. obj.exists
    BY <2>1 DEF IdsKnown, CalmInv, Deregistering
  <2>4. i = obj.id[owner[i]] \/ i = created
    BY <2>1 DEF IdsKnown, CalmInv, StatusNames
  <2> QED BY <2>2, <2>3, <2>4 DEF Leaked
<1> QED BY <1>1, <1>2, LostSecretInvariant, PTL

-----------------------------------------------------------------------------
(* Leaks are bounded: what the operator still controls.                    *)

\* The runners of the object on GitLab, and those whose token GitLab accepts.
Live == {i \in Ids : i \in registered}
Valid == {i \in Ids : i \in accepted}

\* The status names a runner of the managed unit e.
Named(e) == obj.exists /\ obj.spec[e] \in Opts /\ obj.id[e] \in Live

\* So it does, and the Secret holds a token that removes a runner of e.
Kept(e) == Named(e) /\ secret.tokens[e] \in Valid

\* The token by which the operator would remove a runner of e.
Token(e) ==
  IF pc \in Resolving THEN IF e \in todo THEN found[e] ELSE tokens[e]
  ELSE IF pc = "deregister" THEN IF e \in todo THEN found[e] ELSE None
  ELSE IF pc = "release" THEN None
  ELSE secret.tokens[e]

\* The unit whose old runner is gone and whose new one is not in the status yet.
Underway(e) == pc \in {"create", "persist"} /\ e = unit

\* The operator will remove one of e's runners before it loses track of it, if
\* nothing goes wrong from here on.
Sure(e) ==
  \/ /\ Underway(e) /\ pc = "persist"
     /\ IF handCurrent THEN created \in Valid ELSE Kept(e) /\ created \in Live
  \/ /\ ~Underway(e)
     /\ Named(e) /\ Token(e) \in Valid
     /\ pc \notin {"idle", "deferred"} => handCurrent
     /\ pc = "deferred" => hand.id[e] \in Live
Controlled == {e \in Entries : Sure(e)}

\* The units for which the pass may still create a runner.
Pending == IF pc = "read" THEN Entries
           ELSE IF pc = "ensure" THEN todo
           ELSE IF pc \in {"deleteOld", "create"} THEN {unit} ELSE {}

\* The pass removes a runner of e before it creates one.
Paid(e) == /\ hand.id[e] # None /\ pc # "create"
           /\ (IF pc = "read" THEN secret.tokens[e] ELSE found[e]) \in Valid

\* A pass whose copy of the object is not the latest cannot record a runner that
\* it creates: one more may be lost without a further fault.
Debt == ~handCurrent /\ \E e \in Pending : ~Kept(e) /\ ~Paid(e)

\* The runners that are or may get lost are paid for by the faults.
Budget == faults <= MaxFaults =>
            Cardinality(Live) + (IF Debt THEN 1 ELSE 0)
              <= Cardinality(Entries) * faults + Cardinality(Controlled)

\* Tokens and ids stay with the unit whose runner they belong to.
Owned ==
  /\ \A e \in Entries : \A i \in Ids :
       i \in {secret.tokens[e], secretCache.tokens[e], found[e], tokens[e],
             obj.id[e], cache.id[e], hand.id[e]} => owner[i] = e
  /\ pc = "persist" => owner[created] = unit

\* A pass that has the latest version of the object works on what it says.
Tracks ==
  /\ handCurrent /\ pc \notin {"idle", "deferred"} =>
       obj.exists /\ hand.spec = obj.spec /\ hand.id = obj.id
  /\ pc \in {"deleteOld", "create", "persist"} => unit \in todo
  /\ pc = "provision" => todo = {}

LeakInv == Owned /\ Tracks /\ IsFiniteSet(Live) /\ Budget

-----------------------------------------------------------------------------
(* Tokens and ids keep their unit.                                         *)

\* No step puts a runner of one unit where a token or an id of another belongs.
LEMMA OwnedStep ==
  ASSUME TypeOK, Owned, Tracks, [Next]_vars
  PROVE  Owned'
<1> USE SentinelsAssumption
<1>1. CASE BeginPass
  BY <1>1 DEF BeginPass, FirstStep, Owned, ConfigSecret, Object, TokenMap, Runners, NoObject,
       NoTokens, TypeOK, ApiType, GitlabType, PassType, apiVars, secretVars, gitlabVars,
       passVars, localVars
<1>2. CASE AddFinalizer
  BY <1>2 DEF AddFinalizer, ToDeferred, WriteObject, Applied, Refused, Owned, ConfigSecret,
       Object, TokenMap, Runners, NoObject, NoTokens, TypeOK, ApiType, GitlabType, PassType,
       apiVars, secretVars, gitlabVars, passVars, localVars
<1>3. CASE Preflight
  BY <1>3 DEF Preflight, ToDeferred, Owned, ConfigSecret, Object, TokenMap, Runners, NoObject,
       NoTokens, TypeOK, ApiType, GitlabType, PassType, apiVars, secretVars, gitlabVars,
       passVars, localVars
<1>4. CASE ReadSecret
  BY <1>4 DEF ReadSecret, Owned, ConfigSecret, Object, TokenMap, Runners, NoObject, NoTokens,
       TypeOK, ApiType, GitlabType, PassType, apiVars, secretVars, gitlabVars, passVars,
       localVars
<1>5. ASSUME NEW e \in Entries, UseOwnToken(e) PROVE Owned'
  BY <1>5 DEF UseOwnToken, Resolve, IsManaged, Owned, ConfigSecret, Object, TokenMap, Runners,
       NoObject, NoTokens, TypeOK, ApiType, GitlabType, PassType, apiVars, secretVars,
       gitlabVars, passVars, localVars
<1>6. ASSUME NEW e \in Entries, KeepRunner(e) PROVE Owned'
  BY <1>6 DEF KeepRunner, Resolve, UpToDate, IsManaged, Owned, ConfigSecret, Object, TokenMap,
       Runners, NoObject, NoTokens, TypeOK, ApiType, GitlabType, PassType, apiVars, secretVars,
       gitlabVars, passVars, localVars
<1>7. ASSUME NEW e \in Entries, ReplaceRunner(e) PROVE Owned'
  BY <1>7 DEF ReplaceRunner, IsManaged, Owned, ConfigSecret, Object, TokenMap, Runners,
       NoObject, NoTokens, TypeOK, ApiType, GitlabType, PassType, apiVars, secretVars,
       gitlabVars, passVars, localVars
<1>8. CASE AuthFails
  BY <1>8 DEF AuthFails, ToDeferred, Owned, ConfigSecret, Object, TokenMap, Runners, NoObject,
       NoTokens, TypeOK, ApiType, GitlabType, PassType, apiVars, secretVars, gitlabVars,
       passVars, localVars
<1>9. CASE DeleteOld
  BY <1>9 DEF DeleteOld, TakeEffect, Owned, ConfigSecret, Object, TokenMap, Runners, NoObject,
       NoTokens, TypeOK, ApiType, GitlabType, PassType, apiVars, secretVars, gitlabVars,
       passVars, localVars
<1>10. CASE CreateRunner
  BY <1>10 DEF CreateRunner, Unused, Owned, ConfigSecret, Object, TokenMap, Runners, NoObject,
       NoTokens, TypeOK, ApiType, GitlabType, PassType, apiVars, secretVars, gitlabVars,
       passVars, localVars
<1>11. CASE OutOfIds
  BY <1>11 DEF OutOfIds, ToDeferred, Owned, ConfigSecret, Object, TokenMap, Runners, NoObject,
       NoTokens, TypeOK, ApiType, GitlabType, PassType, apiVars, secretVars, gitlabVars,
       passVars, localVars
<1>12. CASE Persist
  <2>1. /\ unit \in Entries /\ created \in Ids /\ owner[created] = unit
        /\ hand' = Registration(unit, created)
        /\ tokens' = tokens \/ tokens' = [tokens EXCEPT ![unit] = created]
        /\ pc' # "persist"
        /\ UNCHANGED <<cache, found, secret, secretCache, owner>>
    BY <1>12 DEF Persist, Resolve, WriteObject, TypeOK, PassType, Owned, apiVars, secretVars,
                 gitlabVars
  <2>5. obj'.id = obj.id \/ obj'.id = hand'.id
    BY <1>12 DEF Persist, WriteObject, apiVars, TypeOK, ApiType, Object
  <2>2. hand'.id = [hand.id EXCEPT ![unit] = created]
    BY <2>1 DEF Registration, TypeOK, PassType, Object
  <2>3. \A e \in Entries : hand'.id[e] \in {hand.id[e], created} /\ (e # unit => hand'.id[e] = hand.id[e])
    BY <2>1, <2>2 DEF TypeOK, PassType, Object
  <2>4. \A e \in Entries : tokens'[e] \in {tokens[e], created} /\ (e # unit => tokens'[e] = tokens[e])
    BY <2>1 DEF TypeOK, PassType, TokenMap
  <2> QED BY <2>1, <2>3, <2>4, <2>5 DEF Owned
<1>13. CASE AllResolved
  BY <1>13 DEF AllResolved, Owned, ConfigSecret, Object, TokenMap, Runners, NoObject, NoTokens,
       TypeOK, ApiType, GitlabType, PassType, apiVars, secretVars, gitlabVars, passVars,
       localVars
<1>14. CASE WriteSecret
  BY <1>14 DEF WriteSecret, ToDeferred, DesiredSecret, Owned, ConfigSecret, Object, TokenMap,
       Runners, NoObject, NoTokens, TypeOK, ApiType, GitlabType, PassType, apiVars, secretVars,
       gitlabVars, passVars, localVars
<1>15. CASE DeferredStatus
  <2>1. /\ hand' = NoObject /\ found' = NoTokens /\ tokens' = NoTokens /\ pc' = "idle"
        /\ UNCHANGED <<cache, secret, secretCache, owner>>
    BY <1>15 DEF DeferredStatus, EndPass, WriteObject, apiVars, secretVars, gitlabVars
  <2>2. obj'.id = obj.id \/ obj'.id = hand.id
    BY <1>15 DEF DeferredStatus, WriteObject, apiVars, TypeOK, ApiType, Object
  <2> QED BY <2>1, <2>2 DEF Owned, NoObject, NoTokens
<1>16. CASE RecoverTokens
  BY <1>16 DEF RecoverTokens, ToDeregister, IsManaged, Owned, ConfigSecret, Object, TokenMap,
       Runners, NoObject, NoTokens, TypeOK, ApiType, GitlabType, PassType, apiVars, secretVars,
       gitlabVars, passVars, localVars
<1>17. ASSUME NEW e \in Entries, DeregisterUnit(e) PROVE Owned'
  BY <1>17 DEF DeregisterUnit, TakeEffect, Owned, ConfigSecret, Object, TokenMap, Runners,
       NoObject, NoTokens, TypeOK, ApiType, GitlabType, PassType, apiVars, secretVars,
       gitlabVars, passVars, localVars
<1>18. CASE CountAttempt
  <2>1. /\ UNCHANGED <<cache, secret, secretCache, owner>> /\ pc' # "persist"
        /\ \/ hand' = NoObject /\ found' = NoTokens /\ tokens' = NoTokens
           \/ UNCHANGED <<found, tokens>> /\ hand'.id = hand.id
    BY <1>18 DEF CountAttempt, EndPass, WriteObject, apiVars, secretVars, gitlabVars, localVars,
                 TypeOK, PassType, Object
  <2>2. obj'.id = obj.id
    BY <1>18 DEF CountAttempt, WriteObject, apiVars, TypeOK, ApiType, Object
  <2> QED BY <2>1, <2>2 DEF Owned, NoObject, NoTokens
<1>19. CASE AllDeregistered
  BY <1>19 DEF AllDeregistered, Owned, ConfigSecret, Object, TokenMap, Runners, NoObject,
       NoTokens, TypeOK, ApiType, GitlabType, PassType, apiVars, secretVars, gitlabVars,
       passVars, localVars
<1>20. CASE Release
  <2>1. /\ hand' = NoObject /\ found' = NoTokens /\ tokens' = NoTokens /\ pc' = "idle"
        /\ UNCHANGED <<cache, secret, secretCache, owner>>
    BY <1>20 DEF Release, EndPass, WriteObject, apiVars, secretVars, gitlabVars
  <2>2. obj'.id = obj.id
    BY <1>20 DEF Release, WriteObject, apiVars, TypeOK, ApiType, Object
  <2> QED BY <2>1, <2>2 DEF Owned, NoObject, NoTokens
<1>21. ASSUME NEW e \in Entries, EditOptions(e) PROVE Owned'
  BY <1>21 DEF EditOptions, Overwrite, UserActs, UserUnchanged, IsManaged, Owned, ConfigSecret,
       Object, TokenMap, Runners, NoObject, NoTokens, TypeOK, ApiType, GitlabType, PassType,
       apiVars, secretVars, gitlabVars, passVars, localVars
<1>22. ASSUME NEW e \in Entries, SwitchMode(e) PROVE Owned'
  BY <1>22 DEF SwitchMode, Overwrite, UserUnchanged, IsManaged, Owned, ConfigSecret, Object,
       TokenMap, Runners, NoObject, NoTokens, TypeOK, ApiType, GitlabType, PassType, apiVars,
       secretVars, gitlabVars, passVars, localVars
<1>23. ASSUME NEW e \in Entries, RemoveEntry(e) PROVE Owned'
  BY <1>23 DEF RemoveEntry, Overwrite, UserUnchanged, Owned, ConfigSecret, Object, TokenMap,
       Runners, NoObject, NoTokens, TypeOK, ApiType, GitlabType, PassType, apiVars, secretVars,
       gitlabVars, passVars, localVars
<1>24. CASE DeleteObject
  BY <1>24 DEF DeleteObject, Overwrite, UserActs, UserUnchanged, Owned, ConfigSecret, Object,
       TokenMap, Runners, NoObject, NoTokens, TypeOK, ApiType, GitlabType, PassType, apiVars,
       secretVars, gitlabVars, passVars, localVars
<1>25. CASE DeleteSecret
  BY <1>25 DEF DeleteSecret, NoSecret, NoTokens, Owned, ConfigSecret, Object, TokenMap,
       Runners, NoObject, NoTokens, TypeOK, ApiType, GitlabType, PassType, apiVars, secretVars,
       gitlabVars, passVars, localVars
<1>26. ASSUME NEW i \in Ids, UiDelete(i) PROVE Owned'
  BY <1>26 DEF UiDelete, Owned, ConfigSecret, Object, TokenMap, Runners, NoObject, NoTokens,
       TypeOK, ApiType, GitlabType, PassType, apiVars, secretVars, gitlabVars, passVars,
       localVars
<1>27. ASSUME NEW i \in Ids, Revoke(i) PROVE Owned'
  BY <1>27 DEF Revoke, Owned, ConfigSecret, Object, TokenMap, Runners, NoObject, NoTokens,
       TypeOK, ApiType, GitlabType, PassType, apiVars, secretVars, gitlabVars, passVars,
       localVars
<1>28. ASSUME NEW i \in Ids, NearExpiry(i) PROVE Owned'
  BY <1>28 DEF NearExpiry, Owned, ConfigSecret, Object, TokenMap, Runners, NoObject, NoTokens,
       TypeOK, ApiType, GitlabType, PassType, apiVars, secretVars, gitlabVars, passVars,
       localVars
<1>29. CASE SyncObject
  BY <1>29 DEF SyncObject, Owned, ConfigSecret, Object, TokenMap, Runners, NoObject, NoTokens,
       TypeOK, ApiType, GitlabType, PassType, apiVars, secretVars, gitlabVars, passVars,
       localVars
<1>30. CASE SyncSecret
  BY <1>30 DEF SyncSecret, Owned, ConfigSecret, Object, TokenMap, Runners, NoObject, NoTokens,
       TypeOK, ApiType, GitlabType, PassType, apiVars, secretVars, gitlabVars, passVars,
       localVars
<1>31. CASE Crash
  BY <1>31 DEF Crash, EndPass, NoObject, NoTokens, Owned, ConfigSecret, Object, TokenMap,
       Runners, NoObject, NoTokens, TypeOK, ApiType, GitlabType, PassType, apiVars, secretVars,
       gitlabVars, passVars, localVars
<1>32. CASE UNCHANGED vars
  BY <1>32 DEF vars, Owned, ConfigSecret, Object, TokenMap, Runners, NoObject, NoTokens,
       TypeOK, ApiType, GitlabType, PassType, apiVars, secretVars, gitlabVars, passVars,
       localVars
<1> QED BY <1>1, <1>2, <1>3, <1>4, <1>5, <1>6, <1>7, <1>8, <1>9, <1>10, <1>11, <1>12, <1>13, <1>14,
     <1>15, <1>16, <1>17, <1>18, <1>19, <1>20, <1>21, <1>22, <1>23, <1>24, <1>25, <1>26, <1>27,
     <1>28, <1>29, <1>30, <1>31, <1>32 DEF Next, Pass, Environment

\* A pass that still has the latest version of the object knows its units and ids.
LEMMA TracksStep ==
  ASSUME TypeOK, Copies, Tracks, [Next]_vars
  PROVE  Tracks'
<1>1. CASE BeginPass
  BY <1>1 DEF BeginPass, FirstStep, CacheRead, Calm, Fault, Copies, Tracks, Object, TypeOK,
       ApiType, GitlabType, PassType, apiVars, secretVars, gitlabVars, passVars, localVars
<1>2. CASE AddFinalizer
  BY <1>2 DEF AddFinalizer, ToDeferred, WriteObject, Applied, Refused, Calm, Fault, Copies,
       Tracks, Object, TypeOK, ApiType, GitlabType, PassType, apiVars, secretVars, gitlabVars,
       passVars, localVars
<1>3. CASE Preflight
  BY <1>3 DEF Preflight, ToDeferred, Calm, Copies, Tracks, Object, TypeOK, ApiType, GitlabType,
       PassType, apiVars, secretVars, gitlabVars, passVars, localVars
<1>4. CASE ReadSecret
  BY <1>4 DEF ReadSecret, CacheRead, Calm, Fault, Copies, Tracks, Object, TypeOK, ApiType,
       GitlabType, PassType, apiVars, secretVars, gitlabVars, passVars, localVars
<1>5. ASSUME NEW e \in Entries, UseOwnToken(e) PROVE Tracks'
  BY <1>5 DEF UseOwnToken, Resolve, Calm, IsManaged, Copies, Tracks, Object, TypeOK, ApiType,
       GitlabType, PassType, apiVars, secretVars, gitlabVars, passVars, localVars
<1>6. ASSUME NEW e \in Entries, KeepRunner(e) PROVE Tracks'
  BY <1>6 DEF KeepRunner, Resolve, Calm, UpToDate, IsManaged, Copies, Tracks, Object, TypeOK,
       ApiType, GitlabType, PassType, apiVars, secretVars, gitlabVars, passVars, localVars
<1>7. ASSUME NEW e \in Entries, ReplaceRunner(e) PROVE Tracks'
  BY <1>7 DEF ReplaceRunner, Calm, IsManaged, Copies, Tracks, Object, TypeOK, ApiType,
       GitlabType, PassType, apiVars, secretVars, gitlabVars, passVars, localVars
<1>8. CASE AuthFails
  BY <1>8 DEF AuthFails, ToDeferred, Fault, Copies, Tracks, Object, TypeOK, ApiType,
       GitlabType, PassType, apiVars, secretVars, gitlabVars, passVars, localVars
<1>9. CASE DeleteOld
  BY <1>9 DEF DeleteOld, TakeEffect, Calm, Fault, Copies, Tracks, Object, TypeOK, ApiType,
       GitlabType, PassType, apiVars, secretVars, gitlabVars, passVars, localVars
<1>10. CASE CreateRunner
  BY <1>10 DEF CreateRunner, Calm, Fault, Unused, Copies, Tracks, Object, TypeOK, ApiType,
       GitlabType, PassType, apiVars, secretVars, gitlabVars, passVars, localVars
<1>11. CASE OutOfIds
  BY <1>11 DEF OutOfIds, ToDeferred, Copies, Tracks, Object, TypeOK, ApiType, GitlabType,
       PassType, apiVars, secretVars, gitlabVars, passVars, localVars
<1>12. CASE Persist
  BY <1>12 DEF Persist, Resolve, WriteObject, Registration, Applied, Refused, Calm, Fault,
       Copies, Tracks, Object, TypeOK, ApiType, GitlabType, PassType, apiVars, secretVars,
       gitlabVars, passVars, localVars
<1>13. CASE AllResolved
  BY <1>13 DEF AllResolved, Calm, Copies, Tracks, Object, TypeOK, ApiType, GitlabType,
       PassType, apiVars, secretVars, gitlabVars, passVars, localVars
<1>14. CASE WriteSecret
  BY <1>14 DEF WriteSecret, ToDeferred, DesiredSecret, CacheRead, Calm, Fault, Copies, Tracks,
       Object, TypeOK, ApiType, GitlabType, PassType, apiVars, secretVars, gitlabVars,
       passVars, localVars
<1>15. CASE DeferredStatus
  BY <1>15 DEF DeferredStatus, EndPass, WriteObject, Calm, Fault, Copies, Tracks, Object,
       TypeOK, ApiType, GitlabType, PassType, apiVars, secretVars, gitlabVars, passVars,
       localVars
<1>16. CASE RecoverTokens
  BY <1>16 DEF RecoverTokens, ToDeregister, IsManaged, CacheRead, Calm, Fault, Copies, Tracks,
       Object, TypeOK, ApiType, GitlabType, PassType, apiVars, secretVars, gitlabVars,
       passVars, localVars
<1>17. ASSUME NEW e \in Entries, DeregisterUnit(e) PROVE Tracks'
  BY <1>17 DEF DeregisterUnit, TakeEffect, Calm, Fault, Copies, Tracks, Object, TypeOK,
       ApiType, GitlabType, PassType, apiVars, secretVars, gitlabVars, passVars, localVars
<1>18. CASE CountAttempt
  BY <1>18 DEF CountAttempt, EndPass, WriteObject, NextAttempt, Applied, Refused, Calm, Fault,
       Copies, Tracks, Object, TypeOK, ApiType, GitlabType, PassType, apiVars, secretVars,
       gitlabVars, passVars, localVars
<1>19. CASE AllDeregistered
  BY <1>19 DEF AllDeregistered, Calm, Copies, Tracks, Object, TypeOK, ApiType, GitlabType,
       PassType, apiVars, secretVars, gitlabVars, passVars, localVars
<1>20. CASE Release
  BY <1>20 DEF Release, EndPass, WriteObject, Applied, Refused, Calm, Fault, Copies, Tracks,
       Object, TypeOK, ApiType, GitlabType, PassType, apiVars, secretVars, gitlabVars,
       passVars, localVars
<1>21. ASSUME NEW e \in Entries, EditOptions(e) PROVE Tracks'
  BY <1>21 DEF EditOptions, Overwrite, UserActs, UserUnchanged, IsManaged, Calm, Fault, Copies,
       Tracks, Object, TypeOK, ApiType, GitlabType, PassType, apiVars, secretVars, gitlabVars,
       passVars, localVars
<1>22. ASSUME NEW e \in Entries, SwitchMode(e) PROVE Tracks'
  BY <1>22 DEF SwitchMode, Overwrite, UserUnchanged, IsManaged, Fault, Copies, Tracks, Object,
       TypeOK, ApiType, GitlabType, PassType, apiVars, secretVars, gitlabVars, passVars,
       localVars
<1>23. ASSUME NEW e \in Entries, RemoveEntry(e) PROVE Tracks'
  BY <1>23 DEF RemoveEntry, Overwrite, UserUnchanged, Fault, Copies, Tracks, Object, TypeOK,
       ApiType, GitlabType, PassType, apiVars, secretVars, gitlabVars, passVars, localVars
<1>24. CASE DeleteObject
  BY <1>24 DEF DeleteObject, Overwrite, UserActs, UserUnchanged, Calm, Fault, Copies, Tracks,
       Object, TypeOK, ApiType, GitlabType, PassType, apiVars, secretVars, gitlabVars,
       passVars, localVars
<1>25. CASE DeleteSecret
  BY <1>25 DEF DeleteSecret, NoSecret, NoTokens, Fault, Copies, Tracks, Object, TypeOK,
       ApiType, GitlabType, PassType, apiVars, secretVars, gitlabVars, passVars, localVars
<1>26. ASSUME NEW i \in Ids, UiDelete(i) PROVE Tracks'
  BY <1>26 DEF UiDelete, Calm, Copies, Tracks, Object, TypeOK, ApiType, GitlabType, PassType,
       apiVars, secretVars, gitlabVars, passVars, localVars
<1>27. ASSUME NEW i \in Ids, Revoke(i) PROVE Tracks'
  BY <1>27 DEF Revoke, Fault, Copies, Tracks, Object, TypeOK, ApiType, GitlabType, PassType,
       apiVars, secretVars, gitlabVars, passVars, localVars
<1>28. ASSUME NEW i \in Ids, NearExpiry(i) PROVE Tracks'
  BY <1>28 DEF NearExpiry, Calm, Copies, Tracks, Object, TypeOK, ApiType, GitlabType, PassType,
       apiVars, secretVars, gitlabVars, passVars, localVars
<1>29. CASE SyncObject
  BY <1>29 DEF SyncObject, Calm, Copies, Tracks, Object, TypeOK, ApiType, GitlabType, PassType,
       apiVars, secretVars, gitlabVars, passVars, localVars
<1>30. CASE SyncSecret
  BY <1>30 DEF SyncSecret, Calm, Copies, Tracks, Object, TypeOK, ApiType, GitlabType, PassType,
       apiVars, secretVars, gitlabVars, passVars, localVars
<1>31. CASE Crash
  BY <1>31 DEF Crash, EndPass, NoObject, NoTokens, Fault, Copies, Tracks, Object, TypeOK,
       ApiType, GitlabType, PassType, apiVars, secretVars, gitlabVars, passVars, localVars
<1>32. CASE UNCHANGED vars
  BY <1>32 DEF vars, Copies, Tracks, Object, TypeOK, ApiType, GitlabType, PassType, apiVars,
       secretVars, gitlabVars, passVars, localVars
<1> QED BY <1>1, <1>2, <1>3, <1>4, <1>5, <1>6, <1>7, <1>8, <1>9, <1>10, <1>11, <1>12, <1>13, <1>14,
     <1>15, <1>16, <1>17, <1>18, <1>19, <1>20, <1>21, <1>22, <1>23, <1>24, <1>25, <1>26, <1>27,
     <1>28, <1>29, <1>30, <1>31, <1>32 DEF Next, Pass, Environment

-----------------------------------------------------------------------------
(* What a step costs.                                                      *)

\* Nothing gets lost.
Steady == Live' \subseteq Live /\ Controlled \subseteq Controlled' /\ (Debt' => Debt)

\* A runner is removed: its unit has no other, or a debt.
LosesOne ==
  \E i \in Live \ Live' :
    /\ Live' \subseteq Live
    /\ \/ Controlled \subseteq Controlled'
       \/ Controlled \ {owner[i]} \subseteq Controlled' /\ (Debt' => Debt)

\* A runner is created: for a unit that had none, or on the debt.
GainsOne ==
  \E i \in Ids \ Live :
    /\ Live' = Live \cup {i} /\ ~Debt' /\ Controlled \subseteq Controlled'
    /\ Debt \/ unit \in Controlled' \ Controlled

\* A fault may cost the control of every unit, but no more.
Disturbs ==
  \/ Live' \subseteq Live /\ (Debt' => Debt \/ Controlled # Entries)
  \/ \E i \in Ids : Live' = Live \cup {i} /\ ~Debt' /\ Controlled # Entries

Balanced ==
  \/ faults' = faults /\ (Steady \/ LosesOne \/ GainsOne)
  \/ faults' = faults + 1 /\ Disturbs
  \/ faults' > MaxFaults /\ Live' = Live

\* A unit for which the pass is about to create a runner is paid for or not controlled.
LEMMA UnpaidIsLost ==
  ASSUME TypeOK, Tracks, NEW e \in Pending, ~Paid(e)
  PROVE  e \in Entries /\ e \notin Controlled
<1>1. e \in Entries
  BY DEF TypeOK, PassType, Pending
<1>2. ASSUME Sure(e) PROVE FALSE
  <2>1. CASE Underway(e)
    BY <2>1, <1>2 DEF Underway, Sure, Pending
  <2>2. CASE ~Underway(e)
    <3>1. Named(e) /\ Token(e) \in Valid /\ handCurrent /\ pc \in {"read", "ensure", "deleteOld"}
      BY <1>1, <1>2, <2>2 DEF Sure, Underway, Pending
    <3>2. hand.id[e] # None
      BY <3>1, SentinelsAssumption DEF Named, Live, Tracks
    <3>3. pc # "read" => e \in todo
      BY <3>1 DEF Tracks, Pending
    <3> QED BY <3>1, <3>2, <3>3 DEF Token, Paid, Resolving
  <2> QED BY <2>1, <2>2
<1> QED BY <1>1, <1>2 DEF Controlled

\* No step costs more than its fault.
LEMMA BalancedStep ==
  ASSUME TypeOK, Copies, FinalizerInv, Owned, Tracks, [Next]_vars
  PROVE  Balanced
<1> USE SentinelsAssumption, FaultsAssumption
<1>1. CASE BeginPass
  BY <1>1, UnpaidIsLost DEF BeginPass, FirstStep, CacheRead, Calm, Fault, Balanced, Steady,
       Disturbs, Debt, Pending, Paid, Kept, Controlled, Sure, Underway, Named, Token,
       Resolving, Live, Valid, Copies, Owned, Tracks, ConfigSecret, Object, TokenMap, Runners,
       TypeOK, ApiType, GitlabType, PassType, apiVars, secretVars, gitlabVars, passVars,
       localVars
<1>2. CASE AddFinalizer
  BY <1>2, UnpaidIsLost DEF AddFinalizer, ToDeferred, WriteObject, Applied, Refused, Calm,
       Fault, Balanced, Steady, Disturbs, Debt, Pending, Paid, Kept, Controlled, Sure,
       Underway, Named, Token, Resolving, Live, Valid, Copies, Owned, Tracks, ConfigSecret,
       Object, TokenMap, Runners, TypeOK, ApiType, GitlabType, PassType, apiVars, secretVars,
       gitlabVars, passVars, localVars
<1>3. CASE Preflight
  BY <1>3, UnpaidIsLost DEF Preflight, ToDeferred, Calm, Balanced, Steady, Disturbs, Debt,
       Pending, Paid, Kept, Controlled, Sure, Underway, Named, Token, Resolving, Live, Valid,
       Copies, Owned, Tracks, ConfigSecret, Object, TokenMap, Runners, TypeOK, ApiType,
       GitlabType, PassType, apiVars, secretVars, gitlabVars, passVars, localVars
<1>4. CASE ReadSecret
  BY <1>4, UnpaidIsLost DEF ReadSecret, CacheRead, Calm, Fault, Balanced, Steady, Disturbs,
       Debt, Pending, Paid, Kept, Controlled, Sure, Underway, Named, Token, Resolving, Live,
       Valid, Copies, Owned, Tracks, ConfigSecret, Object, TokenMap, Runners, TypeOK, ApiType,
       GitlabType, PassType, apiVars, secretVars, gitlabVars, passVars, localVars
<1>5. ASSUME NEW e \in Entries, UseOwnToken(e) PROVE Balanced
  BY <1>5, UnpaidIsLost DEF UseOwnToken, Resolve, Calm, IsManaged, Balanced, Steady, Disturbs,
       Debt, Pending, Paid, Kept, Controlled, Sure, Underway, Named, Token, Resolving, Live,
       Valid, Copies, Owned, Tracks, ConfigSecret, Object, TokenMap, Runners, TypeOK, ApiType,
       GitlabType, PassType, apiVars, secretVars, gitlabVars, passVars, localVars
<1>6. ASSUME NEW e \in Entries, KeepRunner(e) PROVE Balanced
  BY <1>6, UnpaidIsLost DEF KeepRunner, Resolve, Calm, UpToDate, IsManaged, Balanced, Steady,
       Disturbs, Debt, Pending, Paid, Kept, Controlled, Sure, Underway, Named, Token,
       Resolving, Live, Valid, Copies, Owned, Tracks, ConfigSecret, Object, TokenMap, Runners,
       TypeOK, ApiType, GitlabType, PassType, apiVars, secretVars, gitlabVars, passVars,
       localVars
<1>7. ASSUME NEW e \in Entries, ReplaceRunner(e) PROVE Balanced
  BY <1>7, UnpaidIsLost DEF ReplaceRunner, Calm, IsManaged, Balanced, Steady, Disturbs, Debt,
       Pending, Paid, Kept, Controlled, Sure, Underway, Named, Token, Resolving, Live, Valid,
       Copies, Owned, Tracks, ConfigSecret, Object, TokenMap, Runners, TypeOK, ApiType,
       GitlabType, PassType, apiVars, secretVars, gitlabVars, passVars, localVars
<1>8. CASE AuthFails
  BY <1>8, UnpaidIsLost DEF AuthFails, ToDeferred, Fault, Balanced, Steady, Disturbs, Debt,
       Pending, Paid, Kept, Controlled, Sure, Underway, Named, Token, Resolving, Live, Valid,
       Copies, Owned, Tracks, ConfigSecret, Object, TokenMap, Runners, TypeOK, ApiType,
       GitlabType, PassType, apiVars, secretVars, gitlabVars, passVars, localVars
<1>9. CASE DeleteOld
  <2>1. PICK r \in Deregister(found[unit], hand.id[unit]) :
          TakeEffect(r) /\ pc' = IF GoesOn(r) THEN "create" ELSE "deferred"
    BY <1>9 DEF DeleteOld
  <2>2. /\ pc = "deleteOld" /\ unit \in Entries /\ unit \in todo
        /\ UNCHANGED <<obj, hand, handCurrent, found, tokens, todo, unit, secret, owner>>
        /\ registered' = registered \ r.gone /\ accepted' = accepted \ r.gone
    BY <1>9, <2>1 DEF DeleteOld, TakeEffect, Tracks, TypeOK, PassType, apiVars, secretVars, localVars
  <2>3. found[unit] \in Runners \cup {None} /\ hand.id[unit] \in Ids \cup {None}
    BY <2>2 DEF TypeOK, PassType, TokenMap, Object
  <2>4. r.gone \subseteq registered /\ r.gone \subseteq {found[unit], hand.id[unit]}
    BY <2>3, DeregisterType
  <2>5. \A i \in r.gone : i \in Ids => owner[i] = unit
    BY <2>2, <2>4 DEF Owned
  <2>6. /\ Live' \subseteq Live
        /\ \A f \in Entries \ {unit}, i \in Ids :
             owner[i] = f => (i \in Live => i \in Live') /\ (i \in Valid => i \in Valid')
    BY <2>2, <2>5 DEF Live, Valid
  <2>7. \A f \in Entries \ {unit} : f \in Controlled /\ pc' = "create" => f \in Controlled'
    <3> SUFFICES ASSUME NEW f \in Entries \ {unit}, Sure(f), pc' = "create" PROVE Sure(f)'
      BY DEF Controlled
    <3>1. ~Underway(f) /\ ~Underway(f)' /\ Token(f)' = Token(f)
      BY <2>2 DEF Underway, Token, Resolving
    <3>2. Named(f) /\ Token(f) \in Valid /\ handCurrent
      BY <2>2, <3>1 DEF Sure, Underway
    <3>3. owner[obj.id[f]] = f /\ owner[Token(f)] = f /\ obj.id[f] \in Ids /\ Token(f) \in Ids
      BY <2>2, <3>2 DEF Owned, Named, Live, Valid, Token, Resolving
    <3>4. Named(f)' /\ Token(f)' \in Valid'
      BY <2>2, <2>6, <3>1, <3>2, <3>3 DEF Named
    <3> QED BY <2>2, <3>1, <3>2, <3>4 DEF Sure
  <2>8. ~handCurrent => Controlled = {}
    BY <2>2 DEF Controlled, Sure, Underway
  <2>9. Debt' => ~handCurrent
    BY <2>2 DEF Debt
  <2>10. CASE r.kind # "none"
    <3>1. faults' = faults + 1
      BY <2>1, <2>10 DEF TakeEffect, Fault
    <3>2. Debt' => Controlled # Entries
      BY <2>2, <2>8, <2>9
    <3> QED BY <2>6, <3>1, <3>2 DEF Balanced, Disturbs
  <2>11. CASE r.kind = "none"
    <3>1. faults' = faults
      BY <2>1, <2>11 DEF TakeEffect, Calm
    <3>2. pc' = "create"
      BY <2>1, <2>11, DeregisterByItsToken DEF GoesOn
    <3>3. ASSUME NEW i \in r.gone, i \in Ids PROVE LosesOne
      <4>1. i \in Live \ Live' /\ owner[i] = unit
        BY <2>2, <2>4, <2>5, <3>3 DEF Live
      <4>2. Controlled \ {unit} \subseteq Controlled'
        BY <2>7, <3>2 DEF Controlled
      <4> QED BY <2>6, <2>8, <2>9, <4>1, <4>2 DEF LosesOne
    <3>4. ASSUME \A i \in r.gone : i \notin Ids PROVE Steady
      <4>1. Live' = Live /\ Valid' = Valid
        BY <2>2, <3>4 DEF Live, Valid
      <4>2. found[unit] \notin Valid
        <5> SUFFICES ASSUME found[unit] \in Valid PROVE FALSE
          OBVIOUS
        <5>1. found[unit] # None
          BY SentinelsAssumption DEF Valid
        <5>2. r.gone = {found[unit]} \cap accepted
          BY <2>11, <5>1, DeregisterByItsToken
        <5> QED BY <3>4, <5>2 DEF Valid
      <4>3. unit \notin Controlled
        BY <2>2, <4>2 DEF Controlled, Sure, Underway, Token, Resolving
      <4>4. Debt' => Debt
        <5> SUFFICES ASSUME Debt' PROVE Debt
          OBVIOUS
        <5>1. ~handCurrent /\ ~Kept(unit)'
          BY <2>2, <3>2 DEF Debt, Pending
        <5>2. ~Kept(unit)
          BY <2>2, <4>1, <5>1 DEF Kept, Named
        <5> QED BY <2>2, <4>2, <5>1, <5>2 DEF Debt, Pending, Paid
      <4> QED BY <2>7, <3>2, <4>1, <4>3, <4>4 DEF Steady, Controlled
    <3> QED BY <3>1, <3>3, <3>4 DEF Balanced
  <2> QED BY <2>10, <2>11
<1>10. CASE CreateRunner
  <2>1. PICK i \in Unused :
          /\ registered' = registered \cup {i} /\ accepted' = accepted \cup {i}
          /\ \/ Calm /\ pc' = "persist" /\ created' = i
             \/ Fault("gitlabLost") /\ pc' = "deferred"
    BY <1>10 DEF CreateRunner
  <2>2. /\ pc = "create" /\ unit \in Entries /\ unit \in todo
        /\ UNCHANGED <<obj, hand, handCurrent, found, tokens, todo, unit, secret>>
    BY <1>10 DEF CreateRunner, Tracks, TypeOK, PassType, apiVars, secretVars
  <2>3. i \in Ids /\ i \notin Live
    BY <2>1, SentinelsAssumption DEF Unused, Copies, Live
  <2>4. Live' = Live \cup {i} /\ Valid' = Valid \cup {i} /\ ~Debt'
    BY <2>1, <2>3 DEF Live, Valid, Debt, Pending
  <2>5. unit \notin Controlled
    BY <2>2 DEF Controlled, Sure, Underway
  <2>6. CASE pc' = "deferred"
    <3>1. faults' = faults + 1
      BY <2>1, <2>6 DEF Fault
    <3> QED BY <2>2, <2>3, <2>4, <2>5, <3>1 DEF Balanced, Disturbs
  <2>7. CASE pc' = "persist"
    <3>1. faults' = faults /\ created' = i
      BY <2>1, <2>7 DEF Calm
    <3>2. Controlled \subseteq Controlled'
      <4> SUFFICES ASSUME NEW f \in Entries, Sure(f) PROVE Sure(f)'
        BY DEF Controlled
      <4>1. f # unit
        BY <2>5 DEF Controlled
      <4> QED BY <2>2, <2>4, <2>7, <4>1 DEF Sure, Underway, Named, Token, Resolving
    <3>3. ASSUME ~Debt PROVE Sure(unit)'
      <4>1. Underway(unit)'
        BY <2>2, <2>7 DEF Underway
      <4>2. ~handCurrent => Kept(unit)
        BY <2>2, <3>3 DEF Debt, Pending, Paid
      <4>3. Kept(unit) => Kept(unit)'
        BY <2>2, <2>4 DEF Kept, Named
      <4> QED BY <2>2, <2>4, <2>7, <3>1, <4>1, <4>2, <4>3 DEF Sure
    <3>4. GainsOne
      BY <2>2, <2>3, <2>4, <2>5, <3>2, <3>3 DEF GainsOne, Controlled
    <3> QED BY <3>1, <3>4 DEF Balanced
  <2> QED BY <2>1, <2>6, <2>7
<1>11. CASE OutOfIds
  BY <1>11, UnpaidIsLost DEF OutOfIds, ToDeferred, Balanced, Steady, Disturbs, Debt, Pending,
       Paid, Kept, Controlled, Sure, Underway, Named, Token, Resolving, Live, Valid, Copies,
       Owned, Tracks, ConfigSecret, Object, TokenMap, Runners, TypeOK, ApiType, GitlabType,
       PassType, apiVars, secretVars, gitlabVars, passVars, localVars
<1>12. CASE Persist
  <2>1. /\ pc = "persist" /\ unit \in Entries /\ unit \in todo /\ created \in Ids
        /\ hand.spec[unit] \in Opts /\ hand' = Registration(unit, created)
        /\ UNCHANGED <<handCurrent, found, secret, registered, accepted>>
    BY <1>12 DEF Persist, Tracks, TypeOK, PassType, secretVars, gitlabVars
  <2>2. hand'.id = [hand.id EXCEPT ![unit] = created] /\ hand.id \in [Entries -> Ids \cup {None}]
    BY <2>1 DEF Registration, TypeOK, PassType, Object
  <2>3. Live' = Live /\ Valid' = Valid /\ Valid \subseteq Live
    BY <2>1 DEF Live, Valid, TypeOK, GitlabType
  <2>4. ~Debt' \/ pc' = "ensure"
    BY <1>12 DEF Persist, Resolve, Debt, Pending
  <2>5. CASE Applied(handCurrent) /\ WriteObject([obj EXCEPT !.id = hand'.id, !.hash = hand'.hash])
                                 /\ Resolve(unit, created)
    <3>1. /\ handCurrent /\ faults' = faults /\ pc' = "ensure" /\ todo' = todo \ {unit}
          /\ tokens' = [tokens EXCEPT ![unit] = created]
      BY <2>5 DEF Applied, Calm, Resolve
    <3>2. obj'.id = hand'.id /\ obj'.spec = obj.spec /\ obj'.exists = obj.exists
      BY <2>5 DEF WriteObject, TypeOK, ApiType, Object
    <3>3. obj.exists /\ hand.id = obj.id /\ hand.spec = obj.spec
      BY <2>1, <3>1 DEF Tracks
    <3>4. ~Debt'
      BY <2>1, <3>1 DEF Debt
    <3>5. Controlled \subseteq Controlled'
      <4> SUFFICES ASSUME NEW f \in Entries, Sure(f) PROVE Sure(f)'
        BY DEF Controlled
      <4>1. ~Underway(f)'
        BY <3>1 DEF Underway
      <4>2. CASE f = unit
        <5>1. created \in Valid
          BY <2>1, <3>1, <4>2 DEF Sure, Underway
        <5>2. obj'.id[f] = created /\ tokens'[f] = created
          BY <2>1, <2>2, <3>1, <3>2, <4>2 DEF TypeOK, PassType, TokenMap
        <5>3. Named(f)' /\ Token(f)' \in Valid'
          BY <2>1, <2>3, <3>1, <3>2, <3>3, <4>2, <5>1, <5>2 DEF Named, Token, Resolving
        <5> QED BY <2>1, <3>1, <4>1, <5>3 DEF Sure
      <4>3. CASE f # unit
        <5>1. Named(f) /\ Token(f) \in Valid
          BY <4>3 DEF Sure, Underway
        <5>2. obj'.id[f] = obj.id[f] /\ tokens'[f] = tokens[f] /\ (f \in todo' <=> f \in todo)
          BY <2>1, <2>2, <3>1, <3>2, <3>3, <4>3 DEF TypeOK, PassType, TokenMap
        <5>3. Named(f)' /\ Token(f)' \in Valid'
          BY <2>1, <2>3, <3>1, <3>2, <5>1, <5>2 DEF Named, Token, Resolving
        <5> QED BY <2>1, <3>1, <4>1, <5>3 DEF Sure
      <4> QED BY <4>2, <4>3
    <3> QED BY <2>3, <3>1, <3>4, <3>5 DEF Balanced, Steady
  <2>6. CASE Refused(handCurrent) /\ pc' = "deferred" /\ UNCHANGED apiVars
    <3>1. ~Debt'
      BY <2>4, <2>6
    <3>2. CASE handCurrent
      <4>1. faults' = faults + 1
        BY <2>6, <3>2 DEF Refused, Fault
      <4> QED BY <2>3, <3>1, <4>1 DEF Balanced, Disturbs
    <3>3. CASE ~handCurrent
      <4>1. faults' = faults
        BY <2>6, <3>3 DEF Refused, Calm
      <4>2. Controlled \subseteq Controlled'
        <5> SUFFICES ASSUME NEW f \in Entries, Sure(f) PROVE Sure(f)'
          BY DEF Controlled
        <5>1. f = unit /\ Kept(f) /\ created \in Live
          BY <2>1, <3>3 DEF Sure, Underway
        <5>2. hand'.id[f] \in Live
          BY <2>1, <2>2, <5>1
        <5> QED BY <2>1, <2>3, <2>6, <5>1, <5>2 DEF Sure, Underway, Kept, Named, Token, Resolving, apiVars
      <4> QED BY <2>3, <3>1, <4>1, <4>2 DEF Balanced, Steady
    <3> QED BY <3>2, <3>3
  <2> QED BY <1>12, <2>5, <2>6 DEF Persist
<1>13. CASE AllResolved
  BY <1>13, UnpaidIsLost DEF AllResolved, Calm, Balanced, Steady, Disturbs, Debt, Pending,
       Paid, Kept, Controlled, Sure, Underway, Named, Token, Resolving, Live, Valid, Copies,
       Owned, Tracks, ConfigSecret, Object, TokenMap, Runners, TypeOK, ApiType, GitlabType,
       PassType, apiVars, secretVars, gitlabVars, passVars, localVars
<1>14. CASE WriteSecret
  BY <1>14, UnpaidIsLost DEF WriteSecret, ToDeferred, DesiredSecret, CacheRead, Calm, Fault,
       Balanced, Steady, Disturbs, Debt, Pending, Paid, Kept, Controlled, Sure, Underway,
       Named, Token, Resolving, Live, Valid, Copies, Owned, Tracks, ConfigSecret, Object,
       TokenMap, Runners, TypeOK, ApiType, GitlabType, PassType, apiVars, secretVars,
       gitlabVars, passVars, localVars
<1>15. CASE DeferredStatus
  <2>1. /\ pc = "deferred" /\ pc' = "idle"
        /\ UNCHANGED <<secret, registered, accepted>>
    BY <1>15 DEF DeferredStatus, EndPass, secretVars, gitlabVars
  <2>2. Live' = Live /\ Valid' = Valid /\ ~Debt'
    BY <2>1 DEF Live, Valid, Debt, Pending
  <2>3. /\ obj'.id = obj.id \/ obj'.id = hand.id
        /\ obj'.spec = obj.spec /\ obj'.exists = obj.exists
    BY <1>15 DEF DeferredStatus, WriteObject, apiVars, TypeOK, ApiType, Object
  <2>4. Controlled \subseteq Controlled'
    <3> SUFFICES ASSUME NEW f \in Entries, Sure(f) PROVE Sure(f)'
      BY DEF Controlled
    <3>1. Named(f) /\ secret.tokens[f] \in Valid /\ hand.id[f] \in Live
      BY <2>1 DEF Sure, Underway, Token, Resolving
    <3>2. Named(f)'
      BY <2>2, <2>3, <3>1 DEF Named
    <3> QED BY <2>1, <2>2, <3>1, <3>2 DEF Sure, Underway, Token, Resolving
  <2>5. faults' = faults \/ faults' = faults + 1
    BY <1>15 DEF DeferredStatus, Calm, Fault
  <2> QED BY <2>2, <2>4, <2>5 DEF Balanced, Steady, Disturbs
<1>16. CASE RecoverTokens
  BY <1>16, UnpaidIsLost DEF RecoverTokens, ToDeregister, IsManaged, CacheRead, Calm, Fault,
       Balanced, Steady, Disturbs, Debt, Pending, Paid, Kept, Controlled, Sure, Underway,
       Named, Token, Resolving, Live, Valid, Copies, Owned, Tracks, ConfigSecret, Object,
       TokenMap, Runners, TypeOK, ApiType, GitlabType, PassType, apiVars, secretVars,
       gitlabVars, passVars, localVars
<1>17. ASSUME NEW e \in Entries, DeregisterUnit(e) PROVE Balanced
  <2>1. PICK r \in Deregister(found[e], hand.id[e]) : TakeEffect(r)
    BY <1>17 DEF DeregisterUnit
  <2>2. /\ pc = "deregister" /\ pc' = "deregister" /\ e \in todo /\ todo' = todo \ {e}
        /\ UNCHANGED <<obj, hand, handCurrent, found, owner>>
        /\ registered' = registered \ r.gone /\ accepted' = accepted \ r.gone
    BY <1>17, <2>1 DEF DeregisterUnit, TakeEffect, apiVars
  <2>3. found[e] \in Runners \cup {None} /\ hand.id[e] \in Ids \cup {None}
    BY DEF TypeOK, PassType, TokenMap, Object
  <2>4. r.gone \subseteq registered /\ r.gone \subseteq {found[e], hand.id[e]}
    BY <2>3, DeregisterType
  <2>5. \A i \in r.gone : i \in Ids => owner[i] = e
    BY <2>4 DEF Owned
  <2>6. /\ Live' \subseteq Live /\ ~Debt'
        /\ \A f \in Entries \ {e}, i \in Ids :
             owner[i] = f => (i \in Live => i \in Live') /\ (i \in Valid => i \in Valid')
    BY <2>2, <2>5 DEF Live, Valid, Debt, Pending
  <2>7. \A f \in Entries \ {e} : f \in Controlled => f \in Controlled'
    <3> SUFFICES ASSUME NEW f \in Entries \ {e}, Sure(f) PROVE Sure(f)'
      BY DEF Controlled
    <3>1. ~Underway(f) /\ ~Underway(f)' /\ Token(f)' = Token(f)
      BY <2>2 DEF Underway, Token, Resolving
    <3>2. Named(f) /\ Token(f) \in Valid /\ handCurrent
      BY <2>2, <3>1 DEF Sure
    <3>3. owner[obj.id[f]] = f /\ owner[Token(f)] = f /\ obj.id[f] \in Ids /\ Token(f) \in Ids
      BY <2>2, <3>2, SentinelsAssumption DEF Owned, Named, Live, Valid, Token, Resolving
    <3>4. Named(f)' /\ Token(f)' \in Valid'
      BY <2>2, <2>6, <3>1, <3>2, <3>3 DEF Named
    <3> QED BY <2>2, <3>1, <3>2, <3>4 DEF Sure
  <2>8. CASE r.kind # "none"
    <3>1. faults' = faults + 1
      BY <2>1, <2>8 DEF TakeEffect, Fault
    <3> QED BY <2>6, <3>1 DEF Balanced, Disturbs
  <2>9. CASE r.kind = "none"
    <3>1. faults' = faults
      BY <2>1, <2>9 DEF TakeEffect, Calm
    <3>2. ASSUME NEW i \in r.gone, i \in Ids PROVE LosesOne
      <4>1. i \in Live \ Live' /\ owner[i] = e
        BY <2>2, <2>4, <2>5, <3>2 DEF Live
      <4> QED BY <2>6, <2>7, <4>1 DEF LosesOne, Controlled
    <3>3. ASSUME \A i \in r.gone : i \notin Ids PROVE Steady
      <4>1. Live' = Live /\ Valid' = Valid
        BY <2>2, <3>3 DEF Live, Valid
      <4>2. found[e] \notin Valid
        <5> SUFFICES ASSUME found[e] \in Valid PROVE FALSE
          OBVIOUS
        <5>1. found[e] # None
          BY SentinelsAssumption DEF Valid
        <5>2. r.gone = {found[e]} \cap accepted
          BY <2>9, <5>1, DeregisterByItsToken
        <5> QED BY <3>3, <5>2 DEF Valid
      <4>3. e \notin Controlled
        BY <2>2, <4>2 DEF Controlled, Sure, Underway, Token, Resolving
      <4> QED BY <2>6, <2>7, <4>1, <4>3 DEF Steady, Controlled
    <3> QED BY <3>1, <3>2, <3>3 DEF Balanced
  <2> QED BY <2>8, <2>9
<1>18. CASE CountAttempt
  BY <1>18, UnpaidIsLost DEF CountAttempt, EndPass, WriteObject, NextAttempt, Applied, Refused,
       Calm, Fault, Balanced, Steady, Disturbs, Debt, Pending, Paid, Kept, Controlled, Sure,
       Underway, Named, Token, Resolving, Live, Valid, Copies, Owned, Tracks, ConfigSecret,
       Object, TokenMap, Runners, TypeOK, ApiType, GitlabType, PassType, apiVars, secretVars,
       gitlabVars, passVars, localVars
<1>19. CASE AllDeregistered
  BY <1>19, UnpaidIsLost DEF AllDeregistered, Calm, Balanced, Steady, Disturbs, Debt, Pending,
       Paid, Kept, Controlled, Sure, Underway, Named, Token, Resolving, Live, Valid, Copies,
       Owned, Tracks, ConfigSecret, Object, TokenMap, Runners, TypeOK, ApiType, GitlabType,
       PassType, apiVars, secretVars, gitlabVars, passVars, localVars
<1>20. CASE Release
  BY <1>20, UnpaidIsLost DEF Release, EndPass, WriteObject, Applied, Refused, Calm, Fault,
       Balanced, Steady, Disturbs, Debt, Pending, Paid, Kept, Controlled, Sure, Underway,
       Named, Token, Resolving, Live, Valid, Copies, Owned, Tracks, ConfigSecret, Object,
       TokenMap, Runners, TypeOK, ApiType, GitlabType, PassType, apiVars, secretVars,
       gitlabVars, passVars, localVars
<1>21. ASSUME NEW e \in Entries, EditOptions(e) PROVE Balanced
  <2>1. PICK s \in Opts : Overwrite([obj EXCEPT !.spec[e] = s])
    BY <1>21 DEF EditOptions
  <2>2. /\ UNCHANGED <<secret, registered, accepted, owner, pc, hand, found, tokens, todo, unit>>
        /\ obj' = [obj EXCEPT !.spec[e] = s] /\ obj.spec[e] \in Opts
    BY <1>21, <2>1 DEF EditOptions, Overwrite, UserUnchanged, IsManaged, secretVars, gitlabVars,
         localVars
  <2>3. /\ obj'.id = obj.id /\ obj'.exists = obj.exists /\ obj'.spec[e] \in Opts
        /\ \A f \in Entries \ {e} : obj'.spec[f] = obj.spec[f]
    BY <2>2 DEF TypeOK, ApiType, Object
  <2>4. /\ Live' = Live /\ Valid' = Valid
        /\ \A f \in Entries : Named(f)' <=> Named(f)
    BY <2>2, <2>3 DEF Live, Valid, Named
  <2>5. CASE pc # "idle"
    <3>1. faults' = faults + 1
      BY <1>21, <2>5 DEF EditOptions, UserActs, Fault
    <3>2. Debt' => \E f \in Pending : ~Paid(f)
      BY <2>2, <2>4 DEF Debt, Pending, Paid
    <3>3. Debt' => Controlled # Entries
      BY <3>2, UnpaidIsLost
    <3> QED BY <2>4, <3>1, <3>3 DEF Balanced, Disturbs
  <2>6. CASE pc = "idle"
    <3>1. faults' = faults
      BY <1>21, <2>6 DEF EditOptions, UserActs, Calm, Fault
    <3>2. ~Debt'
      BY <2>2, <2>6 DEF Debt, Pending
    <3>3. Controlled \subseteq Controlled'
      <4> SUFFICES ASSUME NEW f \in Entries, Sure(f) PROVE Sure(f)'
        BY DEF Controlled
      <4>1. Named(f)' /\ secret'.tokens[f] \in Valid'
        BY <2>2, <2>4, <2>6 DEF Sure, Underway, Token, Resolving
      <4> QED BY <2>2, <2>6, <4>1 DEF Sure, Underway, Token, Resolving
    <3> QED BY <2>4, <3>1, <3>2, <3>3 DEF Balanced, Steady
  <2> QED BY <2>5, <2>6
<1>22. ASSUME NEW e \in Entries, SwitchMode(e) PROVE Balanced
  BY <1>22, UnpaidIsLost DEF SwitchMode, Overwrite, UserUnchanged, IsManaged, Fault, Balanced,
       Steady, Disturbs, Debt, Pending, Paid, Kept, Controlled, Sure, Underway, Named, Token,
       Resolving, Live, Valid, Copies, Owned, Tracks, ConfigSecret, Object, TokenMap, Runners,
       TypeOK, ApiType, GitlabType, PassType, apiVars, secretVars, gitlabVars, passVars,
       localVars
<1>23. ASSUME NEW e \in Entries, RemoveEntry(e) PROVE Balanced
  BY <1>23, UnpaidIsLost DEF RemoveEntry, Overwrite, UserUnchanged, Fault, Balanced, Steady,
       Disturbs, Debt, Pending, Paid, Kept, Controlled, Sure, Underway, Named, Token,
       Resolving, Live, Valid, Copies, Owned, Tracks, ConfigSecret, Object, TokenMap, Runners,
       TypeOK, ApiType, GitlabType, PassType, apiVars, secretVars, gitlabVars, passVars,
       localVars
<1>24. CASE DeleteObject
  <2>1. /\ obj.exists /\ UNCHANGED <<secret, registered, accepted, pc, hand, localVars>>
        /\ ~handCurrent'
        /\ obj' = IF obj.finalizer THEN [obj EXCEPT !.deleting = TRUE]
                                   ELSE [obj EXCEPT !.exists = FALSE]
    <3>1. Overwrite(IF obj.finalizer THEN [obj EXCEPT !.deleting = TRUE]
                                     ELSE [obj EXCEPT !.exists = FALSE])
      BY <1>24 DEF DeleteObject
    <3> QED BY <1>24, <3>1 DEF DeleteObject, Overwrite, UserUnchanged, secretVars, gitlabVars
  <2>2. obj'.id = obj.id /\ obj'.spec = obj.spec /\ (obj.finalizer => obj'.exists)
    BY <2>1 DEF TypeOK, ApiType, Object
  <2>3. Live' = Live /\ Valid' = Valid
    BY <2>1 DEF Live, Valid
  <2>4. CASE pc # "idle"
    <3>1. faults' = faults + 1
      BY <1>24, <2>4 DEF DeleteObject, UserActs, Fault
    <3>2. Debt' => \E e \in Pending : ~Paid(e)
      BY <2>1 DEF Debt, Pending, Paid, Kept, Valid, localVars
    <3>3. Debt' => Controlled # Entries
      BY <3>2, UnpaidIsLost
    <3> QED BY <2>3, <3>1, <3>3 DEF Balanced, Disturbs
  <2>5. CASE pc = "idle"
    <3>1. faults' = faults
      BY <1>24, <2>5 DEF DeleteObject, UserActs, Calm, Fault
    <3>2. ~Debt'
      BY <2>1, <2>5 DEF Debt, Pending
    <3>3. Controlled \subseteq Controlled'
      <4> SUFFICES ASSUME NEW f \in Entries, Sure(f) PROVE Sure(f)'
        BY DEF Controlled
      <4>1. Named(f) /\ secret.tokens[f] \in Valid
        BY <2>5 DEF Sure, Underway, Token, Resolving
      <4>2. obj.finalizer
        <5>1. ~(registered \subseteq {ByoRunner})
          BY <4>1, SentinelsAssumption DEF Named, Live
        <5> QED BY <2>1, <5>1 DEF FinalizerInv, Guarded
      <4>3. Named(f)'
        BY <2>2, <2>3, <4>1, <4>2 DEF Named
      <4> QED BY <2>1, <2>3, <2>5, <4>1, <4>3 DEF Sure, Underway, Token, Resolving
    <3> QED BY <2>3, <3>1, <3>2, <3>3 DEF Balanced, Steady
  <2> QED BY <2>4, <2>5
<1>25. CASE DeleteSecret
  BY <1>25, UnpaidIsLost DEF DeleteSecret, NoSecret, NoTokens, Fault, Balanced, Steady,
       Disturbs, Debt, Pending, Paid, Kept, Controlled, Sure, Underway, Named, Token,
       Resolving, Live, Valid, Copies, Owned, Tracks, ConfigSecret, Object, TokenMap, Runners,
       TypeOK, ApiType, GitlabType, PassType, apiVars, secretVars, gitlabVars, passVars,
       localVars
<1>26. ASSUME NEW i \in Ids, UiDelete(i) PROVE Balanced
  <2>1. /\ faults' = faults /\ i \in registered
        /\ registered' = registered \ {i} /\ accepted' = accepted \ {i}
        /\ UNCHANGED <<owner, obj, secret, pc, hand, handCurrent, found, tokens, todo, unit, created>>
    BY <1>26 DEF UiDelete, Calm, apiVars, secretVars, passVars, localVars
  <2>2. /\ i \in Live \ Live' /\ Live' \subseteq Live
        /\ \A j \in Ids \ {i} : (j \in Live => j \in Live') /\ (j \in Valid => j \in Valid')
    BY <2>1 DEF Live, Valid
  <2>3. CASE Debt'
    <3>1. ~handCurrent /\ pc \in {"read", "ensure", "deleteOld", "create"}
      BY <2>1, <2>3 DEF Debt, Pending
    <3>2. Controlled = {}
      BY <3>1 DEF Controlled, Sure, Underway
    <3> QED BY <2>1, <2>2, <3>2 DEF Balanced, LosesOne
  <2>4. CASE ~Debt'
    <3>1. ASSUME NEW f \in Entries \ {owner[i]}, Sure(f) PROVE Sure(f)'
      <4>1. Token(f)' = Token(f) /\ (Underway(f)' <=> Underway(f))
        BY <2>1 DEF Token, Underway
      <4>2. Named(f) => Named(f)'
        BY <2>1, <2>2 DEF Named, Owned, Live
      <4>3. Token(f) \in Valid => Token(f) \in Valid'
        BY <2>2, SentinelsAssumption DEF Token, Owned, Valid
      <4>4. secret.tokens[f] \in Valid => secret.tokens[f] \in Valid'
        BY <2>2 DEF Owned, Valid
      <4>5. hand.id[f] \in Live => hand.id[f] \in Live'
        BY <2>2 DEF Owned, Live
      <4>6. CASE Underway(f)
        <5>1. pc = "persist" /\ f = unit
          BY <3>1, <4>6 DEF Sure, Underway
        <5>2. created # i
          BY <5>1 DEF Owned
        <5>3. (created \in Live => created \in Live') /\ (created \in Valid => created \in Valid')
          BY <2>2, <5>2 DEF Live, Valid
        <5>4. Kept(f) => Kept(f)'
          BY <2>1, <4>2, <4>4 DEF Kept
        <5> QED BY <2>1, <3>1, <4>1, <4>6, <5>1, <5>3, <5>4 DEF Sure
      <4>7. CASE ~Underway(f)
        BY <2>1, <3>1, <4>1, <4>2, <4>3, <4>5, <4>7 DEF Sure
      <4> QED BY <4>6, <4>7
    <3>2. Controlled \ {owner[i]} \subseteq Controlled'
      BY <3>1 DEF Controlled
    <3> QED BY <2>1, <2>2, <2>4, <3>2 DEF Balanced, LosesOne
  <2> QED BY <2>3, <2>4
<1>27. ASSUME NEW i \in Ids, Revoke(i) PROVE Balanced
  BY <1>27, UnpaidIsLost DEF Revoke, Fault, Balanced, Steady, Disturbs, Debt, Pending, Paid,
       Kept, Controlled, Sure, Underway, Named, Token, Resolving, Live, Valid, Copies, Owned,
       Tracks, ConfigSecret, Object, TokenMap, Runners, TypeOK, ApiType, GitlabType, PassType,
       apiVars, secretVars, gitlabVars, passVars, localVars
<1>28. ASSUME NEW i \in Ids, NearExpiry(i) PROVE Balanced
  BY <1>28, UnpaidIsLost DEF NearExpiry, Calm, Balanced, Steady, Disturbs, Debt, Pending, Paid,
       Kept, Controlled, Sure, Underway, Named, Token, Resolving, Live, Valid, Copies, Owned,
       Tracks, ConfigSecret, Object, TokenMap, Runners, TypeOK, ApiType, GitlabType, PassType,
       apiVars, secretVars, gitlabVars, passVars, localVars
<1>29. CASE SyncObject
  BY <1>29, UnpaidIsLost DEF SyncObject, Calm, Balanced, Steady, Disturbs, Debt, Pending, Paid,
       Kept, Controlled, Sure, Underway, Named, Token, Resolving, Live, Valid, Copies, Owned,
       Tracks, ConfigSecret, Object, TokenMap, Runners, TypeOK, ApiType, GitlabType, PassType,
       apiVars, secretVars, gitlabVars, passVars, localVars
<1>30. CASE SyncSecret
  BY <1>30, UnpaidIsLost DEF SyncSecret, Calm, Balanced, Steady, Disturbs, Debt, Pending, Paid,
       Kept, Controlled, Sure, Underway, Named, Token, Resolving, Live, Valid, Copies, Owned,
       Tracks, ConfigSecret, Object, TokenMap, Runners, TypeOK, ApiType, GitlabType, PassType,
       apiVars, secretVars, gitlabVars, passVars, localVars
<1>31. CASE Crash
  BY <1>31, UnpaidIsLost DEF Crash, EndPass, NoObject, NoTokens, Fault, Balanced, Steady,
       Disturbs, Debt, Pending, Paid, Kept, Controlled, Sure, Underway, Named, Token,
       Resolving, Live, Valid, Copies, Owned, Tracks, ConfigSecret, Object, TokenMap, Runners,
       TypeOK, ApiType, GitlabType, PassType, apiVars, secretVars, gitlabVars, passVars,
       localVars
<1>32. CASE UNCHANGED vars
  BY <1>32, UnpaidIsLost DEF vars, Balanced, Steady, Disturbs, Debt, Pending, Paid, Kept,
       Controlled, Sure, Underway, Named, Token, Resolving, Live, Valid, Copies, Owned, Tracks,
       ConfigSecret, Object, TokenMap, Runners, TypeOK, ApiType, GitlabType, PassType, apiVars,
       secretVars, gitlabVars, passVars, localVars
<1> QED BY <1>1, <1>2, <1>3, <1>4, <1>5, <1>6, <1>7, <1>8, <1>9, <1>10, <1>11, <1>12, <1>13, <1>14,
     <1>15, <1>16, <1>17, <1>18, <1>19, <1>20, <1>21, <1>22, <1>23, <1>24, <1>25, <1>26, <1>27,
     <1>28, <1>29, <1>30, <1>31, <1>32 DEF Next, Pass, Environment
-----------------------------------------------------------------------------
(* Leaks are bounded: the invariant.                                       *)

\* Nothing is live and nothing is controlled before the first pass.
LEMMA LeakInit == Init => LeakInv
<1> SUFFICES ASSUME Init PROVE LeakInv
  OBVIOUS
<1> USE SentinelsAssumption
<1>0. PICK s \in [Entries -> Opts \cup {BringYourOwn}] :
        obj = [NoObject EXCEPT !.exists = TRUE, !.spec = s]
  BY DEF Init
<1>1. Owned /\ Tracks
  <2>1. \A e \in Entries : obj.id[e] = None
    BY <1>0 DEF NoObject
  <2>2. /\ cache = obj /\ hand = NoObject /\ secret = NoSecret /\ secretCache = secret
        /\ found = NoTokens /\ tokens = NoTokens /\ pc = "idle" 
    BY DEF Init
  <2> QED BY <2>1, <2>2 DEF Owned, Tracks, NoObject, NoTokens, NoSecret
<1>2. Live = {} /\ Controlled = {} /\ ~Debt
  <2>1. registered = {ByoRunner} /\ pc = "idle"
    BY DEF Init
  <2>2. Live = {}
    BY <2>1 DEF Live
  <2> QED BY <2>1, <2>2 DEF Controlled, Sure, Underway, Named, Debt, Pending
<1>3. IsFiniteSet(Live) /\ Cardinality(Live) = 0 /\ Cardinality(Controlled) = 0
  BY <1>2, FS_EmptySet
<1>4. Cardinality(Entries) \in Nat /\ faults = 0
  BY EntriesAssumption, FS_CardinalityType DEF Init
<1>5. Cardinality(Entries) * faults = 0
  BY <1>4
<1>6. Budget
  BY <1>2, <1>3, <1>5 DEF Budget
<1> QED BY <1>1, <1>3, <1>6 DEF LeakInv

\* A further fault is worth one more runner per unit.
LEMMA OneFaultMore ==
  ASSUME NEW a \in Nat, NEW b \in Nat
  PROVE  a * b \in Nat /\ a * (b + 1) = a * b + a
OBVIOUS

\* Losing the control of one unit is losing one.
LEMMA DropsOne ==
  ASSUME NEW S, IsFiniteSet(S), NEW x, NEW T, IsFiniteSet(T), S \ {x} \subseteq T
  PROVE  Cardinality(S) <= Cardinality(T) + 1
<1>1. /\ IsFiniteSet(S \ {x}) /\ Cardinality(S) \in Nat /\ Cardinality(T) \in Nat
      /\ Cardinality(S) <= Cardinality(S \ {x}) + 1
  <2>1. /\ IsFiniteSet(S \ {x})
        /\ Cardinality(S \ {x}) = IF x \in S THEN Cardinality(S) - 1 ELSE Cardinality(S)
    BY FS_RemoveElement
  <2>2. Cardinality(S) \in Nat /\ Cardinality(T) \in Nat
    BY FS_CardinalityType
  <2> QED BY <2>1, <2>2
<1>2. Cardinality(S \ {x}) <= Cardinality(T) /\ Cardinality(S \ {x}) \in Nat
  BY <1>1, FS_Subset, FS_CardinalityType
<1> QED BY <1>1, <1>2

\* Every step keeps the account.
LEMMA BudgetStep ==
  ASSUME TypeOK, TypeOK', IsFiniteSet(Live), Budget, Balanced
  PROVE  IsFiniteSet(Live)' /\ Budget'
<1> DEFINE E == Cardinality(Entries)
           L == Cardinality(Live)
           C == Cardinality(Controlled)
           P == Cardinality(Controlled')
           D == IF Debt THEN 1 ELSE 0
<1>1. /\ faults \in Nat /\ faults' \in Nat /\ MaxFaults \in Nat
      /\ E \in Nat /\ E * faults \in Nat /\ E * (faults + 1) = E * faults + E
  BY FaultsAssumption, EntriesAssumption, FS_CardinalityType, OneFaultMore DEF TypeOK
<1>2. /\ Controlled \in SUBSET Entries /\ Controlled' \in SUBSET Entries
      /\ IsFiniteSet(Controlled) /\ IsFiniteSet(Controlled')
      /\ C \in Nat /\ P \in Nat /\ L \in Nat
      /\ C <= E /\ (Controlled # Entries => C < E)
  <2>1. Controlled \in SUBSET Entries /\ Controlled' \in SUBSET Entries
    BY DEF Controlled
  <2>2. /\ IsFiniteSet(Controlled) /\ IsFiniteSet(Controlled')
        /\ C <= E /\ (E = C => Entries = Controlled)
    BY <2>1, EntriesAssumption, FS_Subset
  <2>3. C \in Nat /\ P \in Nat /\ L \in Nat
    BY <2>2, FS_CardinalityType
  <2> QED BY <1>1, <2>1, <2>2, <2>3
<1>3. ASSUME Controlled \subseteq Controlled' PROVE C <= P
  BY <1>2, <1>3, FS_Subset
<1>4. ASSUME Live' \subseteq Live
      PROVE  IsFiniteSet(Live') /\ Cardinality(Live') \in Nat /\ Cardinality(Live') <= L
  BY <1>4, FS_Subset, FS_CardinalityType
<1>5. faults <= MaxFaults => L + D <= E * faults + C
  BY DEF Budget
<1>6. ASSUME IsFiniteSet(Live'), faults' <= MaxFaults =>
               Cardinality(Live') + (IF Debt' THEN 1 ELSE 0) <= E * faults' + P
      PROVE  IsFiniteSet(Live)' /\ Budget'
  BY <1>6 DEF Budget
<1> HIDE DEF E, L, C, P
<1>7. CASE faults' = faults /\ Steady
  BY <1>1, <1>2, <1>3, <1>4, <1>5, <1>6, <1>7 DEF Steady
<1>8. CASE faults' = faults /\ LosesOne
  <2>1. PICK i \in Live \ Live' :
          /\ Live' \subseteq Live
          /\ \/ Controlled \subseteq Controlled'
             \/ Controlled \ {owner[i]} \subseteq Controlled' /\ (Debt' => Debt)
    BY <1>8 DEF LosesOne
  <2>2. Cardinality(Live') < L
    BY <2>1, <1>2, <1>4, FS_Subset DEF L
  <2>3. Controlled \ {owner[i]} \subseteq Controlled' => C <= P + 1
    BY <1>2, DropsOne DEF C, P
  <2> QED BY <1>1, <1>2, <1>3, <1>4, <1>5, <1>6, <1>8, <2>1, <2>2, <2>3
<1>9. CASE faults' = faults /\ GainsOne
  <2>1. PICK i \in Ids \ Live :
          /\ Live' = Live \cup {i} /\ ~Debt' /\ Controlled \subseteq Controlled'
          /\ Debt \/ unit \in Controlled' \ Controlled
    BY <1>9 DEF GainsOne
  <2>2. IsFiniteSet(Live') /\ Cardinality(Live') = L + 1
    BY <2>1, FS_AddElement DEF L
  <2>3. Debt \/ C < P
    BY <2>1, <1>2, FS_Subset DEF C, P
  <2> QED BY <1>1, <1>2, <1>3, <1>5, <1>6, <1>9, <2>1, <2>2, <2>3
<1>10. CASE faults' = faults + 1 /\ Disturbs
  <2>1. CASE Live' \subseteq Live /\ (Debt' => Debt \/ Controlled # Entries)
    BY <1>1, <1>2, <1>4, <1>5, <1>6, <1>10, <2>1
  <2>2. ASSUME NEW i \in Ids, Live' = Live \cup {i}, ~Debt', Controlled # Entries
        PROVE  IsFiniteSet(Live)' /\ Budget'
    <3>1. IsFiniteSet(Live') /\ Cardinality(Live') \in Nat /\ Cardinality(Live') <= L + 1
      <4>1. /\ IsFiniteSet(Live \cup {i})
            /\ Cardinality(Live \cup {i}) = IF i \in Live THEN L ELSE L + 1
        BY FS_AddElement DEF L
      <4>2. IsFiniteSet(Live') /\ Cardinality(Live') <= L + 1
        BY <1>2, <2>2, <4>1
      <4> QED BY <4>2, FS_CardinalityType
    <3> QED BY <1>1, <1>2, <1>5, <1>6, <1>10, <2>2, <3>1
  <2> QED BY <1>10, <2>1, <2>2 DEF Disturbs
<1>11. CASE faults' > MaxFaults /\ Live' = Live
  BY <1>1, <1>4, <1>6, <1>11
<1> QED BY <1>7, <1>8, <1>9, <1>10, <1>11 DEF Balanced

\* The account holds in every state of every run.
LEMMA LeakInvariant == Spec => [](TypeOK /\ FinalizerInv /\ Copies /\ LeakInv)
<1> DEFINE Inv == TypeOK /\ FinalizerInv /\ Copies /\ LeakInv
<1>1. Init => Inv
  BY InitIInv, LeakInit DEF IInv
<1>2. Inv /\ [Next]_vars => Inv'
  <2> SUFFICES ASSUME TypeOK, FinalizerInv, Copies, LeakInv, [Next]_vars PROVE Inv'
    OBVIOUS
  <2>1. TypeOK' /\ FinalizerInv' /\ Copies'
    BY NextType, FinalizerStep, CopiesStep
  <2>2. Owned' /\ Tracks' /\ Balanced
    BY OwnedStep, TracksStep, BalancedStep DEF LeakInv
  <2>3. IsFiniteSet(Live)' /\ Budget'
    BY <2>1, <2>2, BudgetStep DEF LeakInv
  <2> QED BY <2>1, <2>2, <2>3 DEF LeakInv
<1> QED BY <1>1, <1>2, PTL DEF Spec

\* A controlled unit has a runner of its own that is not leaked.
LEMMA ControlledIsNotLeaked ==
  ASSUME TypeOK, Owned, Tracks, NEW e \in Controlled
  PROVE  \E i \in Live \ Leaked : owner[i] = e
<1> USE SentinelsAssumption
<1>1. e \in Entries /\ Sure(e)
  BY DEF Controlled
<1>2. CASE Underway(e) /\ handCurrent
  <2>1. pc = "persist" /\ unit = e /\ created \in Valid
    BY <1>1, <1>2 DEF Sure, Underway
  <2>2. created \in Live /\ owner[created] = e /\ obj.exists
    BY <1>2, <2>1 DEF Valid, Live, Owned, Tracks, TypeOK, GitlabType
  <2> QED BY <1>1, <2>2 DEF Leaked
<1>3. CASE ~(Underway(e) /\ handCurrent)
  <2>1. Named(e)
    BY <1>1, <1>3 DEF Sure, Kept
  <2>2. obj.id[e] \in Live /\ obj.exists /\ owner[obj.id[e]] = e
    BY <1>1, <2>1 DEF Named, Live, Owned
  <2> QED BY <1>1, <2>2 DEF Leaked
<1> QED BY <1>2, <1>3

\* The runners that are not leaked are at least as many as the controlled units.
LEMMA LeakedIsBounded ==
  ASSUME TypeOK, LeakInv, faults <= MaxFaults
  PROVE  LeaksAreBounded
<1> DEFINE Safe == Live \ Leaked
           f == [e \in Controlled |-> CHOOSE i \in Safe : owner[i] = e]
<1>1. \A e \in Controlled : f[e] \in Safe /\ owner[f[e]] = e
  BY ControlledIsNotLeaked DEF LeakInv
<1>2. f \in Injection(Controlled, Safe)
  BY <1>1 DEF Injection, IsInjective
<1>3. Leaked \subseteq Live /\ Leaked = Live \ Safe
  BY DEF Leaked, Live
<1> HIDE DEF Safe, f
<1>4. IsFiniteSet(Live) /\ IsFiniteSet(Safe) /\ IsFiniteSet(Leaked)
  BY <1>3, FS_Subset DEF LeakInv, Safe
<1>5. Cardinality(Controlled) <= Cardinality(Safe) /\ IsFiniteSet(Controlled)
  BY <1>2, <1>4, FS_Injection
<1>6. Cardinality(Live) = Cardinality(Safe) + Cardinality(Leaked)
  <2>1. Live \ Safe = Leaked /\ Live \cap Safe = Safe
    BY <1>3 DEF Safe
  <2>2. Cardinality(Live \ Safe) = Cardinality(Live) - Cardinality(Live \cap Safe)
    BY <1>4, FS_Difference
  <2>3. Cardinality(Live) \in Nat /\ Cardinality(Safe) \in Nat
    BY <1>4, FS_CardinalityType
  <2>4. Cardinality(Leaked) = Cardinality(Live) - Cardinality(Safe)
    BY <2>1, <2>2
  <2> QED BY <2>3, <2>4
<1>7. /\ Cardinality(Live) \in Nat /\ Cardinality(Safe) \in Nat /\ Cardinality(Leaked) \in Nat
      /\ Cardinality(Controlled) \in Nat /\ Cardinality(Entries) * faults \in Nat
  BY <1>4, <1>5, FS_CardinalityType, EntriesAssumption, FaultsAssumption, OneFaultMore
     DEF TypeOK
<1>8. Cardinality(Live) <= Cardinality(Entries) * faults + Cardinality(Controlled)
  BY <1>7 DEF LeakInv, Budget
<1> QED BY <1>5, <1>6, <1>7, <1>8 DEF LeaksAreBounded

\* Whatever goes wrong, and in whatever order, a fault costs at most one leaked
\* runner per unit, as long as the count of faults has not passed its bound.
THEOREM LeaksPaidFor == Spec => [](faults <= MaxFaults => LeaksAreBounded)
<1>1. TypeOK /\ LeakInv => (faults <= MaxFaults => LeaksAreBounded)
  BY LeakedIsBounded
<1> QED BY <1>1, LeakInvariant, PTL
=============================================================================
