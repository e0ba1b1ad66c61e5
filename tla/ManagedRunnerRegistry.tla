----------------------- MODULE ManagedRunnerRegistry -----------------------
(* ManagedRunner keeps the promise of RunnerRegistry.                      *)
EXTENDS ManagedRunnerProofs

-----------------------------------------------------------------------------
(* The inductive invariant.                                                *)

\* The informers' copies are what their flags say, and a runner that exists
\* was created for some unit: true whatever goes wrong.
Copies ==
  /\ cacheCurrent => cache = obj
  /\ secretCurrent => secretCache = secret
  /\ \A i \in Ids : i \in registered => owner[i] # None

\* The pass works on the current object.
HandFaithful ==
  pc # "idle" => /\ handCurrent /\ obj.exists
                 /\ hand.spec = obj.spec /\ hand.id = obj.id /\ hand.hash = obj.hash

\* The status names the runner of a unit, until a pass has created a new one.
StatusNames ==
  /\ \A i \in Ids : i \in registered =>
       \/ i = obj.id[owner[i]]
       \/ pc = "persist" /\ unit = owner[i] /\ created = i
  /\ \A e \in Entries : obj.id[e] # None => owner[obj.id[e]] = e /\ obj.spec[e] \in Opts
  /\ pc = "persist" => owner[created] = unit

\* A pass creates a runner only for a unit whose old one is gone.
Replacing ==
  /\ pc \in {"deleteOld", "create", "persist"} => unit \in todo
  /\ pc = "deleteOld" => obj.id[unit] # None
  /\ pc \in {"create", "persist"} => obj.id[unit] \notin registered

Resolving == {"ensure", "deleteOld", "create", "persist", "provision"}

\* The token of a unit's runner is in the Secret, or with the pass that writes it
\* there.  In its place may stand one of lost: {None} once the Secret was deleted.
TokensKept(lost) ==
  /\ pc = "provision" => todo = {}
  /\ \A e \in Entries : obj.id[e] # None =>
       IF pc \in Resolving
         THEN IF e \in todo THEN found[e] \in {obj.id[e]} \cup lost ELSE tokens[e] = obj.id[e]
         ELSE secret.tokens[e] \in {obj.id[e]} \cup lost

\* The finalizer has removed the runners it is done with, and leaves none.
Deregistering(lost) ==
  /\ ~failed
  /\ pc = "deregister" => \A e \in Entries :
       IF e \in todo THEN obj.id[e] # None /\ found[e] \in {obj.id[e]} \cup lost
                     ELSE obj.id[e] \notin registered
  /\ pc = "release" => \A e \in Entries : obj.id[e] \notin registered
  /\ ~obj.exists => registered \subseteq {ByoRunner}

CalmInv(lost) ==
  /\ HandFaithful /\ accepted = registered
  /\ StatusNames /\ Replacing /\ TokensKept(lost) /\ Deregistering(lost)

IInv == TypeOK /\ FinalizerInv /\ Copies /\ (faults = 0 => CalmInv({}))

-----------------------------------------------------------------------------
(* A step without a fault.                                                 *)

\* What no fault means for reads, writes and users.
LEMMA Undisturbed ==
  ASSUME TypeOK, faults' \in {0, faults}
  PROVE  /\ \A k : ~Fault(k)
         /\ \A c : CacheRead(c) => c
         /\ \A c : Refused(c) => ~c
         /\ UserActs => pc = "idle"
  BY FaultsAssumption DEF TypeOK, Fault, CacheRead, Refused, UserActs

\* A call that nothing disturbs removes what it reports.
LEMMA QuietRemoval ==
  ASSUME TypeOK, faults' \in {0, faults}, NEW r, TakeEffect(r)
  PROVE  /\ r.kind = "none" /\ Calm
         /\ registered' = registered \ r.gone /\ accepted' = accepted \ r.gone
  BY Undisturbed DEF TakeEffect

\* By its token, or by its id where that is allowed, an undisturbed deregistration
\* removes the runner.
LEMMA NothingLost ==
  ASSUME NEW lost \in SUBSET {None}, lost = {} \/ ApiScope, accepted = registered,
         NEW i, i # None, NEW t \in {i} \cup lost, NEW r \in Deregister(t, i), r.kind = "none"
  PROVE  r.ok /\ r.gone = {i} \cap registered
<1>1. CASE t = i
  BY <1>1, DeregisterByItsToken
<1>2. CASE t # i
  <2>1. t = None /\ ApiScope
    BY <1>2
  <2>2. r \in DeleteById(i)
    BY <2>1 DEF Deregister
  <2> QED BY <2>1, <2>2 DEF DeleteById, DeleteOutcomes
<1> QED BY <1>1, <1>2

\* Faults are never taken back.
LEMMA FaultsGrow == TypeOK /\ [Next]_vars /\ faults' = 0 => faults = 0
<1> SUFFICES ASSUME TypeOK, [Next]_vars, faults' = 0 PROVE faults = 0
  OBVIOUS
<1> USE Undisturbed
<1> USE DEF Calm, Applied, Refused, CacheRead, UserActs
<1>1. CASE BeginPass
  BY <1>1 DEF BeginPass, FirstStep, CacheRead, Calm, Fault, TypeOK
<1>2. CASE AddFinalizer
  BY <1>2 DEF AddFinalizer, ToDeferred, WriteObject, Applied, Refused, TypeOK
<1>3. CASE Preflight
  BY <1>3 DEF Preflight, ToDeferred, TypeOK
<1>4. CASE ReadSecret
  BY <1>4 DEF ReadSecret, TypeOK
<1>5. ASSUME NEW e \in Entries, UseOwnToken(e) PROVE faults = 0
  BY <1>5 DEF UseOwnToken, Resolve, TypeOK
<1>6. ASSUME NEW e \in Entries, KeepRunner(e) PROVE faults = 0
  BY <1>6 DEF KeepRunner, Resolve, TypeOK
<1>7. ASSUME NEW e \in Entries, ReplaceRunner(e) PROVE faults = 0
  BY <1>7 DEF ReplaceRunner, TypeOK
<1>8. CASE AuthFails
  BY <1>8 DEF AuthFails, ToDeferred, TypeOK
<1>9. CASE DeleteOld
  <2>1. PICK r \in Deregister(found[unit], hand.id[unit]) : TakeEffect(r)
    BY <1>9 DEF DeleteOld
  <2> QED BY <2>1, QuietRemoval
<1>10. CASE CreateRunner
  BY <1>10 DEF CreateRunner, TypeOK
<1>11. CASE OutOfIds
  BY <1>11 DEF OutOfIds, ToDeferred, TypeOK
<1>12. CASE Persist
  BY <1>12 DEF Persist, Resolve, WriteObject, Registration, TypeOK
<1>13. CASE AllResolved
  BY <1>13 DEF AllResolved, TypeOK
<1>14. CASE WriteSecret
  BY <1>14 DEF WriteSecret, ToDeferred, DesiredSecret, TypeOK
<1>15. CASE DeferredStatus
  BY <1>15 DEF DeferredStatus, EndPass, WriteObject, TypeOK
<1>16. CASE RecoverTokens
  BY <1>16 DEF RecoverTokens, ToDeregister, TypeOK
<1>17. ASSUME NEW e \in Entries, DeregisterUnit(e) PROVE faults = 0
  <2>1. PICK r \in Deregister(found[e], hand.id[e]) : TakeEffect(r)
    BY <1>17 DEF DeregisterUnit
  <2> QED BY <2>1, QuietRemoval
<1>18. CASE CountAttempt
  BY <1>18 DEF CountAttempt, EndPass, WriteObject, NextAttempt, TypeOK
<1>19. CASE AllDeregistered
  BY <1>19 DEF AllDeregistered, TypeOK
<1>20. CASE Release
  BY <1>20 DEF Release, EndPass, WriteObject, TypeOK
<1>21. ASSUME NEW e \in Entries, EditOptions(e) PROVE faults = 0
  BY <1>21 DEF EditOptions, Overwrite, UserUnchanged, TypeOK
<1>22. ASSUME NEW e \in Entries, SwitchMode(e) PROVE faults = 0
  BY <1>22 DEF SwitchMode, Overwrite, UserUnchanged, TypeOK
<1>23. ASSUME NEW e \in Entries, RemoveEntry(e) PROVE faults = 0
  BY <1>23 DEF RemoveEntry, Overwrite, UserUnchanged, TypeOK
<1>24. CASE DeleteObject
  BY <1>24 DEF DeleteObject, Overwrite, UserUnchanged, TypeOK
<1>25. CASE DeleteSecret
  BY <1>25 DEF DeleteSecret, TypeOK
<1>26. ASSUME NEW i \in Ids, UiDelete(i) PROVE faults = 0
  BY <1>26 DEF UiDelete, TypeOK
<1>27. ASSUME NEW i \in Ids, Revoke(i) PROVE faults = 0
  BY <1>27 DEF Revoke, TypeOK
<1>28. ASSUME NEW i \in Ids, NearExpiry(i) PROVE faults = 0
  BY <1>28 DEF NearExpiry, TypeOK
<1>29. CASE SyncObject
  BY <1>29 DEF SyncObject, TypeOK
<1>30. CASE SyncSecret
  BY <1>30 DEF SyncSecret, TypeOK
<1>31. CASE Crash
  BY <1>31 DEF Crash, EndPass, TypeOK
<1>32. CASE UNCHANGED vars
  BY <1>32 DEF vars, TypeOK
<1> QED BY <1>1, <1>2, <1>3, <1>4, <1>5, <1>6, <1>7, <1>8, <1>9, <1>10, <1>11, <1>12, <1>13,
     <1>14, <1>15, <1>16, <1>17, <1>18, <1>19, <1>20, <1>21, <1>22, <1>23, <1>24, <1>25,
     <1>26, <1>27, <1>28, <1>29, <1>30, <1>31, <1>32 DEF Next, Pass, Environment

\* A copy with the latest version goes on being the latest.
LEMMA CopiesStep == TypeOK /\ Copies /\ [Next]_vars => Copies'
<1> SUFFICES ASSUME TypeOK, Copies, [Next]_vars PROVE Copies'
  OBVIOUS
<1>1. CASE BeginPass
  BY <1>1 DEF BeginPass, FirstStep, CacheRead, Calm, Fault, Copies, apiVars, secretVars,
       gitlabVars, localVars
<1>2. CASE AddFinalizer
  BY <1>2 DEF AddFinalizer, ToDeferred, WriteObject, Applied, Refused, Copies, apiVars,
       secretVars, gitlabVars, localVars
<1>3. CASE Preflight
  BY <1>3 DEF Preflight, ToDeferred, Copies, apiVars, secretVars, gitlabVars, localVars
<1>4. CASE ReadSecret
  BY <1>4 DEF ReadSecret, Copies, apiVars, secretVars, gitlabVars, passVars, localVars
<1>5. ASSUME NEW e \in Entries, UseOwnToken(e) PROVE Copies'
  BY <1>5 DEF UseOwnToken, Resolve, Copies, apiVars, secretVars, gitlabVars
<1>6. ASSUME NEW e \in Entries, KeepRunner(e) PROVE Copies'
  BY <1>6 DEF KeepRunner, Resolve, Copies, apiVars, secretVars, gitlabVars
<1>7. ASSUME NEW e \in Entries, ReplaceRunner(e) PROVE Copies'
  BY <1>7 DEF ReplaceRunner, Copies, apiVars, secretVars, gitlabVars, passVars, localVars
<1>8. CASE AuthFails
  BY <1>8 DEF AuthFails, ToDeferred, Copies, apiVars, secretVars, gitlabVars, localVars
<1>9. CASE DeleteOld
  BY <1>9, RemovalsShrink DEF DeleteOld, Copies, apiVars, secretVars
<1>10. CASE CreateRunner
  <2>1. PICK i \in Unused :
          registered' = registered \cup {i} /\ owner' = [owner EXCEPT ![i] = unit]
    BY <1>10 DEF CreateRunner
  <2>2. unit # None
    BY <1>10, SentinelsAssumption DEF CreateRunner, TypeOK, PassType
  <2>3. i \in Ids /\ owner' \in [Ids -> Entries \cup {None}] /\ owner'[i] = unit
    BY <1>10, <2>1 DEF Unused, CreateRunner, TypeOK, PassType, GitlabType
  <2>4. \A j \in Ids \ {i} : owner'[j] = owner[j]
    BY <2>1 DEF TypeOK, GitlabType
  <2> QED BY <1>10, <2>1, <2>2, <2>3, <2>4 DEF CreateRunner, Copies, apiVars, secretVars
<1>11. CASE OutOfIds
  BY <1>11 DEF OutOfIds, ToDeferred, Copies, apiVars, secretVars, gitlabVars, localVars
<1>12. CASE Persist
  BY <1>12 DEF Persist, Resolve, WriteObject, Registration, Copies, apiVars, secretVars,
       gitlabVars
<1>13. CASE AllResolved
  BY <1>13 DEF AllResolved, Copies, apiVars, secretVars, gitlabVars, passVars, localVars
<1>14. CASE WriteSecret
  BY <1>14 DEF WriteSecret, ToDeferred, DesiredSecret, Copies, apiVars, secretVars,
       gitlabVars, localVars
<1>15. CASE DeferredStatus
  BY <1>15 DEF DeferredStatus, EndPass, WriteObject, Copies, apiVars, secretVars, gitlabVars
<1>16. CASE RecoverTokens
  BY <1>16 DEF RecoverTokens, ToDeregister, Copies, apiVars, secretVars, gitlabVars
<1>17. ASSUME NEW e \in Entries, DeregisterUnit(e) PROVE Copies'
  BY <1>17, RemovalsShrink DEF DeregisterUnit, Copies, apiVars, secretVars
<1>18. CASE CountAttempt
  BY <1>18 DEF CountAttempt, EndPass, WriteObject, NextAttempt, Copies, apiVars, secretVars,
       gitlabVars, localVars
<1>19. CASE AllDeregistered
  BY <1>19 DEF AllDeregistered, Copies, apiVars, secretVars, gitlabVars, passVars, localVars
<1>20. CASE Release
  BY <1>20 DEF Release, EndPass, WriteObject, Copies, apiVars, secretVars, gitlabVars
<1>21. ASSUME NEW e \in Entries, EditOptions(e) PROVE Copies'
  BY <1>21 DEF EditOptions, Overwrite, UserUnchanged, Copies, secretVars, gitlabVars,
       localVars
<1>22. ASSUME NEW e \in Entries, SwitchMode(e) PROVE Copies'
  BY <1>22 DEF SwitchMode, Overwrite, UserUnchanged, Copies, secretVars, gitlabVars,
       localVars
<1>23. ASSUME NEW e \in Entries, RemoveEntry(e) PROVE Copies'
  BY <1>23 DEF RemoveEntry, Overwrite, UserUnchanged, Copies, secretVars, gitlabVars,
       localVars
<1>24. CASE DeleteObject
  BY <1>24 DEF DeleteObject, Overwrite, UserUnchanged, Copies, secretVars, gitlabVars,
       localVars
<1>25. CASE DeleteSecret
  BY <1>25 DEF DeleteSecret, Copies, apiVars, secretVars, gitlabVars, passVars, localVars
<1>26. ASSUME NEW i \in Ids, UiDelete(i) PROVE Copies'
  BY <1>26 DEF UiDelete, Copies, apiVars, secretVars, gitlabVars, passVars, localVars
<1>27. ASSUME NEW i \in Ids, Revoke(i) PROVE Copies'
  BY <1>27 DEF Revoke, Copies, apiVars, secretVars, gitlabVars, passVars, localVars
<1>28. ASSUME NEW i \in Ids, NearExpiry(i) PROVE Copies'
  BY <1>28 DEF NearExpiry, Copies, apiVars, secretVars, gitlabVars, passVars, localVars
<1>29. CASE SyncObject
  BY <1>29 DEF SyncObject, Copies, apiVars, secretVars, gitlabVars, passVars, localVars
<1>30. CASE SyncSecret
  BY <1>30 DEF SyncSecret, Copies, apiVars, secretVars, gitlabVars, passVars, localVars
<1>31. CASE Crash
  BY <1>31 DEF Crash, EndPass, Copies, apiVars, secretVars, gitlabVars, passVars, localVars
<1>32. CASE UNCHANGED vars
  BY <1>32 DEF vars, Copies, apiVars, secretVars, gitlabVars, passVars, localVars
<1> QED BY <1>1, <1>2, <1>3, <1>4, <1>5, <1>6, <1>7, <1>8, <1>9, <1>10, <1>11, <1>12, <1>13,
     <1>14, <1>15, <1>16, <1>17, <1>18, <1>19, <1>20, <1>21, <1>22, <1>23, <1>24, <1>25,
     <1>26, <1>27, <1>28, <1>29, <1>30, <1>31, <1>32 DEF Next, Pass, Environment

\* A step without a fault keeps what the operator knows of its runners, even if
\* their tokens were lost, provided that it may delete a runner by its id.
LEMMA CalmStep ==
  ASSUME NEW lost \in SUBSET {None}, lost = {} \/ ApiScope,
         TypeOK, FinalizerInv, Copies, CalmInv(lost),
         [Next]_vars, faults' = faults, faults <= MaxFaults
  PROVE  CalmInv(lost)'
<1> USE Undisturbed, SentinelsAssumption
<1>0. TypeOK /\ Copies /\ FinalizerInv /\ CalmInv(lost)
  OBVIOUS
<1>t. ApiType /\ GitlabType /\ PassType
  BY <1>0 DEF TypeOK
<1>1. CASE BeginPass
  BY <1>1, <1>0, <1>t DEF BeginPass, FirstStep, CacheRead, Calm, Fault, CalmInv, Copies,
       HandFaithful, StatusNames, Replacing, TokensKept, Deregistering, Resolving, ApiType,
       GitlabType, PassType, Object, Runners, apiVars, secretVars, gitlabVars, localVars
<1>2. CASE AddFinalizer
  BY <1>2, <1>0, <1>t DEF AddFinalizer, ToDeferred, WriteObject, Applied, Refused, CalmInv,
       Copies, HandFaithful, StatusNames, Replacing, TokensKept, Deregistering, Resolving,
       ApiType, GitlabType, PassType, Object, Runners, apiVars, secretVars, gitlabVars,
       localVars
<1>3. CASE Preflight
  BY <1>3, <1>0, <1>t DEF Preflight, ToDeferred, CalmInv, Copies, HandFaithful, StatusNames,
       Replacing, TokensKept, Deregistering, Resolving, ApiType, GitlabType, PassType,
       Object, Runners, apiVars, secretVars, gitlabVars, localVars
<1>4. CASE ReadSecret
  BY <1>4, <1>0, <1>t DEF ReadSecret, CalmInv, Copies, HandFaithful, StatusNames, Replacing,
       TokensKept, Deregistering, Resolving, ApiType, GitlabType, PassType, Object, Runners,
       apiVars, secretVars, gitlabVars
<1>5. ASSUME NEW e \in Entries, UseOwnToken(e) PROVE CalmInv(lost)'
  <2>1. /\ UNCHANGED <<obj, hand, handCurrent, secret, found, registered, accepted, owner, failed>>
        /\ pc = "ensure" /\ pc' = "ensure" /\ todo' = todo \ {e}
    BY <1>5 DEF UseOwnToken, Resolve, apiVars, secretVars, gitlabVars
  <2>2. tokens'[e] = hand.id[e] \/ hand.id[e] = None
    BY <1>0, <1>t, <1>5 DEF UseOwnToken, IsManaged, CalmInv, HandFaithful, StatusNames
  <2>3. \A f \in Entries \ {e} : tokens'[f] = tokens[f]
    BY <1>5, <1>t DEF UseOwnToken, Resolve, PassType, TokenMap
  <2>4. TokensKept(lost)'
    BY <1>0, <2>1, <2>2, <2>3 DEF CalmInv, HandFaithful, TokensKept, Resolving
  <2>5. HandFaithful' /\ StatusNames' /\ Replacing' /\ Deregistering(lost)' /\ accepted' = registered'
    BY <1>0, <2>1 DEF CalmInv, HandFaithful, StatusNames, Replacing, Deregistering
  <2> QED BY <2>4, <2>5 DEF CalmInv
<1>6. ASSUME NEW e \in Entries, KeepRunner(e) PROVE CalmInv(lost)'
  <2>1. /\ UNCHANGED <<obj, hand, handCurrent, secret, found, registered, accepted, owner, failed>>
        /\ pc = "ensure" /\ pc' = "ensure" /\ todo' = todo \ {e}
    BY <1>6 DEF KeepRunner, Resolve, apiVars, secretVars, gitlabVars
  <2>2. tokens'[e] = hand.id[e]
    BY <1>0, <1>t, <1>6 DEF KeepRunner, UpToDate, Resolve, PassType, TokenMap, CalmInv, HandFaithful,
                            TokensKept, Resolving
  <2>3. \A f \in Entries \ {e} : tokens'[f] = tokens[f]
    BY <1>6, <1>t DEF KeepRunner, Resolve, PassType, TokenMap
  <2>4. TokensKept(lost)'
    BY <1>0, <2>1, <2>2, <2>3 DEF CalmInv, HandFaithful, TokensKept, Resolving
  <2>5. HandFaithful' /\ StatusNames' /\ Replacing' /\ Deregistering(lost)' /\ accepted' = registered'
    BY <1>0, <2>1 DEF CalmInv, HandFaithful, StatusNames, Replacing, Deregistering
  <2> QED BY <2>4, <2>5 DEF CalmInv
<1>7. ASSUME NEW e \in Entries, ReplaceRunner(e) PROVE CalmInv(lost)'
  BY <1>7, <1>0, <1>t DEF ReplaceRunner, CalmInv, Copies, HandFaithful, StatusNames,
       Replacing, TokensKept, Deregistering, Resolving, ApiType, GitlabType, PassType,
       Object, Runners, apiVars, secretVars, gitlabVars
<1>8. CASE AuthFails
  BY <1>8, <1>0, <1>t DEF AuthFails, ToDeferred, CalmInv, Copies, HandFaithful, StatusNames,
       Replacing, TokensKept, Deregistering, Resolving, ApiType, GitlabType, PassType,
       Object, Runners, apiVars, secretVars, gitlabVars, localVars
<1>9. CASE DeleteOld
  <2>1. /\ pc = "deleteOld" /\ unit \in Entries /\ unit \in todo
        /\ UNCHANGED <<obj, hand, handCurrent, secret, found, tokens, todo, unit, created, failed>>
    BY <1>0, <1>t, <1>9 DEF DeleteOld, PassType, CalmInv, Replacing, localVars, apiVars,
         secretVars
  <2>2. found[unit] \in {obj.id[unit]} \cup lost /\ obj.id[unit] # None /\ hand.id = obj.id
    BY <1>0, <2>1 DEF CalmInv, HandFaithful, Replacing, TokensKept, Resolving
  <2>3. PICK r \in Deregister(found[unit], obj.id[unit]) :
          TakeEffect(r) /\ pc' = IF GoesOn(r) THEN "create" ELSE "deferred"
    BY <2>2, <1>9 DEF DeleteOld
  <2>4. r.kind = "none" /\ registered' = registered \ r.gone /\ accepted' = accepted \ r.gone
    BY <1>0, <2>3, QuietRemoval
  <2>a. accepted = registered
    BY <1>0 DEF CalmInv
  <2>5. r.ok /\ r.gone = {obj.id[unit]} \cap registered
    BY <2>2, <2>3, <2>4, <2>a, NothingLost
  <2>6. pc' = "create" /\ obj.id[unit] \notin registered'
    BY <2>3, <2>4, <2>5 DEF GoesOn
  <2>7. registered' \subseteq registered /\ accepted' = registered' /\ owner' = owner
    BY <1>0, <1>9, <2>4, RemovalsShrink DEF CalmInv
  <2>8. HandFaithful' /\ StatusNames' /\ Deregistering(lost)'
    BY <1>0, <2>1, <2>6, <2>7 DEF CalmInv, HandFaithful, StatusNames, Deregistering
  <2>9. Replacing' /\ TokensKept(lost)'
    BY <1>0, <2>1, <2>6 DEF CalmInv, Replacing, TokensKept, Resolving
  <2> QED BY <2>7, <2>8, <2>9 DEF CalmInv
<1>10. CASE CreateRunner
  <2>a. PICK i \in Unused :
          /\ registered' = registered \cup {i} /\ accepted' = accepted \cup {i}
          /\ owner' = [owner EXCEPT ![i] = unit]
          /\ \/ Calm /\ pc' = "persist" /\ created' = i
             \/ Fault("gitlabLost") /\ pc' = "deferred" /\ UNCHANGED created
    BY <1>10 DEF CreateRunner
  <2>b. ~Fault("gitlabLost")
    BY <1>0
  <2>1. /\ registered' = registered \cup {i} /\ accepted' = accepted \cup {i}
        /\ owner' = [owner EXCEPT ![i] = unit]
        /\ pc' = "persist" /\ created' = i
    BY <2>a, <2>b
  <2>2. /\ pc = "create" /\ unit \in Entries /\ unit \in todo /\ obj.id[unit] \notin registered
        /\ UNCHANGED <<obj, hand, handCurrent, secret, found, tokens, todo, unit, failed>>
    BY <1>0, <1>t, <1>10 DEF CreateRunner, PassType, CalmInv, Replacing, apiVars, secretVars
  <2>3. i \in Ids /\ owner[i] = None /\ owner'[i] = unit /\ i \notin registered
    BY <1>0, <1>t, <2>1, <2>2 DEF Unused, GitlabType, Copies
  <2>4. \A j \in Ids \ {i} : owner'[j] = owner[j]
    BY <1>t, <2>1 DEF GitlabType
  <2>5. \A e \in Entries : obj.id[e] \in Ids \cup {None} /\ obj.id[e] # i
    BY <1>0, <1>t, <2>3 DEF ApiType, Object, CalmInv, StatusNames
  <2>6. StatusNames'
    BY <1>0, <2>1, <2>2, <2>3, <2>4, <2>5 DEF CalmInv, StatusNames
  <2>7. Replacing' /\ HandFaithful' /\ accepted' = registered'
    BY <1>0, <2>1, <2>2, <2>5 DEF CalmInv, Replacing, HandFaithful
  <2>8. TokensKept(lost)' /\ Deregistering(lost)'
    BY <1>0, <2>1, <2>2 DEF CalmInv, TokensKept, Resolving, Deregistering, HandFaithful
  <2> QED BY <2>6, <2>7, <2>8 DEF CalmInv
<1>11. CASE OutOfIds
  <2>1. faults' = MaxFaults + 1
    BY <1>11 DEF OutOfIds
  <2> QED BY <2>1, FaultsAssumption DEF TypeOK
<1>12. CASE Persist
  <2>1. /\ pc = "persist" /\ unit \in Entries /\ unit \in todo /\ created \in Ids
        /\ obj.id[unit] \notin registered /\ owner[created] = unit /\ hand.spec[unit] \in Opts
    BY <1>0, <1>t, <1>12 DEF Persist, PassType, CalmInv, Replacing, StatusNames
  <2>2. /\ hand' = Registration(unit, created) /\ Applied(handCurrent)
        /\ obj' = [obj EXCEPT !.id = hand'.id, !.hash = hand'.hash]
        /\ tokens' = [tokens EXCEPT ![unit] = created] /\ todo' = todo \ {unit}
        /\ pc' = "ensure" /\ unit' = None
        /\ UNCHANGED <<handCurrent, found, failed, secret, registered, accepted, owner>>
    BY <1>0, <1>12, <2>1 DEF Persist, WriteObject, Resolve, CalmInv, HandFaithful,
         secretVars, gitlabVars
  <2>3. /\ hand'.id = [hand.id EXCEPT ![unit] = created] /\ hand'.spec = hand.spec
        /\ obj'.id = hand'.id /\ obj'.hash = hand'.hash /\ obj'.spec = obj.spec
        /\ obj'.exists = obj.exists
    BY <1>t, <2>2 DEF Registration, PassType, ApiType, Object
  <2>4. /\ obj'.id[unit] = created
        /\ \A e \in Entries \ {unit} : obj'.id[e] = obj.id[e]
    BY <1>0, <1>t, <2>1, <2>3 DEF CalmInv, HandFaithful, PassType, Object
  <2>5. HandFaithful' /\ accepted' = registered'
    BY <1>0, <2>1, <2>2, <2>3 DEF CalmInv, HandFaithful
  <2>6. StatusNames'
    <3>1. ASSUME NEW i \in Ids, i \in registered' PROVE i = obj'.id[owner[i]]
      <4>1. i = obj.id[owner[i]] \/ (unit = owner[i] /\ created = i)
        BY <1>0, <2>2, <3>1 DEF CalmInv, StatusNames
      <4>2. owner[i] \in Entries
        BY <1>0, <1>t, <2>2, <3>1 DEF Copies, GitlabType
      <4>3. CASE owner[i] = unit
        BY <2>1, <2>2, <2>4, <3>1, <4>1, <4>3
      <4>4. CASE owner[i] # unit
        BY <2>4, <4>1, <4>2, <4>4
      <4> QED BY <4>3, <4>4
    <3>2. ASSUME NEW e \in Entries, obj'.id[e] # None
          PROVE  owner[obj'.id[e]] = e /\ obj'.spec[e] \in Opts
      <4>1. CASE e = unit
        BY <1>0, <2>1, <2>3, <2>4, <4>1 DEF CalmInv, HandFaithful
      <4>2. CASE e # unit
        BY <1>0, <2>3, <2>4, <3>2, <4>2 DEF CalmInv, StatusNames
      <4> QED BY <4>1, <4>2
    <3> QED BY <2>2, <3>1, <3>2 DEF StatusNames
  <2>7. tokens'[unit] = created /\ \A e \in Entries \ {unit} : tokens'[e] = tokens[e]
    BY <1>t, <2>1, <2>2 DEF PassType, TokenMap
  <2>8. TokensKept(lost)'
    BY <1>0, <2>1, <2>2, <2>4, <2>7 DEF CalmInv, TokensKept, Resolving
  <2>9. Replacing' /\ Deregistering(lost)'
    BY <1>0, <2>1, <2>2, <2>3 DEF CalmInv, HandFaithful, Replacing, Deregistering
  <2> QED BY <2>5, <2>6, <2>8, <2>9 DEF CalmInv
<1>13. CASE AllResolved
  BY <1>13, <1>0, <1>t DEF AllResolved, CalmInv, Copies, HandFaithful, StatusNames,
       Replacing, TokensKept, Deregistering, Resolving, ApiType, GitlabType, PassType,
       Object, Runners, apiVars, secretVars, gitlabVars, localVars
<1>14. CASE WriteSecret
  BY <1>14, <1>0, <1>t DEF WriteSecret, ToDeferred, DesiredSecret, CalmInv, Copies,
       HandFaithful, StatusNames, Replacing, TokensKept, Deregistering, Resolving, ApiType,
       GitlabType, PassType, Object, Runners, apiVars, secretVars, gitlabVars, localVars
<1>15. CASE DeferredStatus
  <2>1. /\ pc = "deferred" /\ obj.exists /\ hand.id = obj.id /\ hand.hash = obj.hash
        /\ pc' = "idle" /\ ~failed'
        /\ UNCHANGED <<secret, registered, accepted, owner>>
    BY <1>0, <1>15 DEF DeferredStatus, EndPass, CalmInv, HandFaithful, secretVars,
         gitlabVars
  <2>2. obj' = obj \/ obj' = [obj EXCEPT !.id = hand.id, !.hash = hand.hash]
    BY <1>15 DEF DeferredStatus, WriteObject, apiVars
  <2>3. obj'.id = obj.id /\ obj'.spec = obj.spec /\ obj'.exists = obj.exists
    BY <1>t, <2>1, <2>2 DEF ApiType, Object
  <2>4. HandFaithful' /\ StatusNames' /\ Replacing' /\ Deregistering(lost)'
    BY <1>0, <2>1, <2>3 DEF CalmInv, HandFaithful, StatusNames, Replacing, Deregistering
  <2>5. TokensKept(lost)'
    BY <1>0, <2>1, <2>3 DEF CalmInv, TokensKept, Resolving
  <2> QED BY <1>0, <2>1, <2>4, <2>5 DEF CalmInv
<1>16. CASE RecoverTokens
  <2>1. /\ pc = "recover" /\ pc' = "deregister" /\ found' = secret.tokens
        /\ todo' = {e \in Entries : obj.spec[e] \in Opts /\ obj.id[e] # None}
        /\ UNCHANGED <<obj, hand, handCurrent, secret, failed, registered, accepted, owner>>
    BY <1>0, <1>16 DEF RecoverTokens, ToDeregister, IsManaged, CalmInv, HandFaithful, Copies,
                       apiVars, secretVars, gitlabVars
  <2>2. \A e \in Entries : e \in todo' <=> obj.id[e] # None
    BY <1>0, <2>1 DEF CalmInv, StatusNames
  <2>3. None \notin registered
    BY <1>t DEF GitlabType, Runners
  <2>4. \A e \in Entries : obj.id[e] # None => secret.tokens[e] \in {obj.id[e]} \cup lost
    BY <1>0, <2>1 DEF CalmInv, TokensKept, Resolving
  <2>5. Deregistering(lost)'
    BY <1>0, <2>1, <2>2, <2>3, <2>4 DEF CalmInv, Deregistering
  <2>6. HandFaithful' /\ StatusNames' /\ Replacing' /\ TokensKept(lost)'
    BY <1>0, <2>1, <2>4 DEF CalmInv, HandFaithful, StatusNames, Replacing, TokensKept,
         Resolving
  <2> QED BY <1>0, <2>1, <2>5, <2>6 DEF CalmInv
<1>17. ASSUME NEW e \in Entries, DeregisterUnit(e) PROVE CalmInv(lost)'
  <2>1. /\ pc = "deregister" /\ pc' = "deregister" /\ e \in todo /\ todo' = todo \ {e}
        /\ UNCHANGED <<obj, hand, handCurrent, secret, found>>
    BY <1>17 DEF DeregisterUnit, apiVars, secretVars
  <2>2. found[e] \in {obj.id[e]} \cup lost /\ obj.id[e] # None /\ hand.id = obj.id
    BY <1>0, <2>1 DEF CalmInv, HandFaithful, Deregistering
  <2>3. PICK r \in Deregister(found[e], obj.id[e]) :
          TakeEffect(r) /\ failed' = (failed \/ ~r.ok)
    BY <2>2, <1>17 DEF DeregisterUnit
  <2>4. r.kind = "none" /\ registered' = registered \ r.gone /\ accepted' = accepted \ r.gone
    BY <1>0, <2>3, QuietRemoval
  <2>a. accepted = registered
    BY <1>0 DEF CalmInv
  <2>5. r.ok /\ r.gone = {obj.id[e]} \cap registered
    BY <2>2, <2>3, <2>4, <2>a, NothingLost
  <2>6. ~failed' /\ obj.id[e] \notin registered'
    BY <1>0, <2>3, <2>4, <2>5 DEF CalmInv, Deregistering
  <2>7. registered' \subseteq registered /\ accepted' = registered' /\ owner' = owner
    BY <1>0, <1>17, <2>4, RemovalsShrink DEF CalmInv
  <2>8. HandFaithful' /\ StatusNames' /\ Replacing' /\ TokensKept(lost)'
    BY <1>0, <2>1, <2>7 DEF CalmInv, HandFaithful, StatusNames, Replacing, TokensKept,
         Resolving
  <2>9. Deregistering(lost)'
    BY <1>0, <2>1, <2>6, <2>7 DEF CalmInv, Deregistering
  <2> QED BY <2>7, <2>8, <2>9 DEF CalmInv
<1>18. CASE CountAttempt
  BY <1>18, <1>0, <1>t DEF CountAttempt, EndPass, WriteObject, NextAttempt, CalmInv, Copies,
       HandFaithful, StatusNames, Replacing, TokensKept, Deregistering, Resolving, ApiType,
       GitlabType, PassType, Object, Runners, apiVars, secretVars, gitlabVars, localVars
<1>19. CASE AllDeregistered
  BY <1>19, <1>0, <1>t DEF AllDeregistered, CalmInv, Copies, HandFaithful, StatusNames,
       Replacing, TokensKept, Deregistering, Resolving, ApiType, GitlabType, PassType,
       Object, Runners, apiVars, secretVars, gitlabVars, localVars
<1>20. CASE Release
  <2>1. /\ pc = "release" /\ pc' = "idle" /\ ~failed'
        /\ obj' = [obj EXCEPT !.exists = FALSE, !.finalizer = FALSE]
        /\ UNCHANGED <<secret, registered, accepted, owner>>
    BY <1>0, <1>20 DEF Release, EndPass, WriteObject, CalmInv, HandFaithful, secretVars,
         gitlabVars
  <2>2. obj'.id = obj.id /\ obj'.spec = obj.spec
    BY <1>t, <2>1 DEF ApiType, Object
  <2>3. \A i \in Ids : i \notin registered
    <3> SUFFICES ASSUME NEW i \in Ids, i \in registered PROVE FALSE
      OBVIOUS
    <3>1. i = obj.id[owner[i]] /\ owner[i] \in Entries
      BY <1>0, <1>t, <2>1 DEF CalmInv, StatusNames, Copies, GitlabType
    <3> QED BY <1>0, <2>1, <3>1 DEF CalmInv, Deregistering
  <2>4. registered \subseteq {ByoRunner}
    BY <1>t, <2>3 DEF GitlabType, Runners
  <2>5. Deregistering(lost)'
    BY <2>1, <2>4 DEF Deregistering
  <2>6. HandFaithful' /\ StatusNames' /\ Replacing' /\ TokensKept(lost)'
    BY <1>0, <2>1, <2>2 DEF CalmInv, HandFaithful, StatusNames, Replacing, TokensKept,
         Resolving
  <2> QED BY <1>0, <2>1, <2>5, <2>6 DEF CalmInv
<1>21. ASSUME NEW e \in Entries, EditOptions(e) PROVE CalmInv(lost)'
  BY <1>21, <1>0, <1>t DEF EditOptions, Overwrite, UserUnchanged, CalmInv, Copies,
       HandFaithful, StatusNames, Replacing, TokensKept, Deregistering, Resolving, ApiType,
       GitlabType, PassType, Object, Runners, secretVars, gitlabVars, localVars
<1>22. ASSUME NEW e \in Entries, SwitchMode(e) PROVE CalmInv(lost)'
  BY <1>22, <1>0, <1>t DEF SwitchMode, Overwrite, UserUnchanged, CalmInv, Copies,
       HandFaithful, StatusNames, Replacing, TokensKept, Deregistering, Resolving, ApiType,
       GitlabType, PassType, Object, Runners, secretVars, gitlabVars, localVars
<1>23. ASSUME NEW e \in Entries, RemoveEntry(e) PROVE CalmInv(lost)'
  BY <1>23, <1>0, <1>t DEF RemoveEntry, Overwrite, UserUnchanged, CalmInv, Copies,
       HandFaithful, StatusNames, Replacing, TokensKept, Deregistering, Resolving, ApiType,
       GitlabType, PassType, Object, Runners, secretVars, gitlabVars, localVars
<1>24. CASE DeleteObject
  <2>a. pc = "idle"
    BY <1>0, <1>24 DEF DeleteObject
  <2>b. Overwrite(IF obj.finalizer THEN [obj EXCEPT !.deleting = TRUE]
                                   ELSE [obj EXCEPT !.exists = FALSE])
    BY <1>24 DEF DeleteObject
  <2>1. /\ pc = "idle" /\ obj.exists
        /\ obj' = IF obj.finalizer THEN [obj EXCEPT !.deleting = TRUE]
                                   ELSE [obj EXCEPT !.exists = FALSE]
        /\ UNCHANGED <<pc, secret, failed, registered, accepted, owner>>
    BY <1>24, <2>a, <2>b DEF DeleteObject, Overwrite, UserUnchanged, secretVars, gitlabVars,
         localVars
  <2>2. obj'.id = obj.id /\ obj'.spec = obj.spec /\ (obj.finalizer => obj'.exists = obj.exists)
    BY <1>t, <2>1 DEF ApiType, Object
  <2>3. Deregistering(lost)'
    BY <1>0, <2>1, <2>2 DEF CalmInv, Deregistering, FinalizerInv, Guarded
  <2>4. HandFaithful' /\ StatusNames' /\ Replacing' /\ TokensKept(lost)'
    BY <1>0, <2>1, <2>2 DEF CalmInv, HandFaithful, StatusNames, Replacing, TokensKept,
         Resolving
  <2> QED BY <1>0, <2>1, <2>3, <2>4 DEF CalmInv
<1>25. CASE DeleteSecret
  BY <1>25, <1>0, <1>t DEF DeleteSecret, CalmInv, Copies, HandFaithful, StatusNames,
       Replacing, TokensKept, Deregistering, Resolving, ApiType, GitlabType, PassType,
       Object, Runners, apiVars, gitlabVars, passVars, localVars
<1>26. ASSUME NEW i \in Ids, UiDelete(i) PROVE CalmInv(lost)'
  BY <1>26, <1>0, <1>t DEF UiDelete, CalmInv, Copies, HandFaithful, StatusNames, Replacing,
       TokensKept, Deregistering, Resolving, ApiType, GitlabType, PassType, Object, Runners,
       apiVars, secretVars, passVars, localVars
<1>27. ASSUME NEW i \in Ids, Revoke(i) PROVE CalmInv(lost)'
  BY <1>27, <1>0, <1>t DEF Revoke, CalmInv, Copies, HandFaithful, StatusNames, Replacing,
       TokensKept, Deregistering, Resolving, ApiType, GitlabType, PassType, Object, Runners,
       apiVars, secretVars, passVars, localVars
<1>28. ASSUME NEW i \in Ids, NearExpiry(i) PROVE CalmInv(lost)'
  BY <1>28, <1>0, <1>t DEF NearExpiry, CalmInv, Copies, HandFaithful, StatusNames,
       Replacing, TokensKept, Deregistering, Resolving, ApiType, GitlabType, PassType,
       Object, Runners, apiVars, secretVars, passVars, localVars
<1>29. CASE SyncObject
  BY <1>29, <1>0, <1>t DEF SyncObject, CalmInv, Copies, HandFaithful, StatusNames,
       Replacing, TokensKept, Deregistering, Resolving, ApiType, GitlabType, PassType,
       Object, Runners, secretVars, gitlabVars, passVars, localVars
<1>30. CASE SyncSecret
  BY <1>30, <1>0, <1>t DEF SyncSecret, CalmInv, Copies, HandFaithful, StatusNames,
       Replacing, TokensKept, Deregistering, Resolving, ApiType, GitlabType, PassType,
       Object, Runners, apiVars, gitlabVars, passVars, localVars
<1>31. CASE Crash
  BY <1>31, <1>0, <1>t DEF Crash, EndPass, CalmInv, Copies, HandFaithful, StatusNames,
       Replacing, TokensKept, Deregistering, Resolving, ApiType, GitlabType, PassType,
       Object, Runners, gitlabVars
<1>32. CASE UNCHANGED vars
  <2>1. CalmInv(lost)' <=> CalmInv(lost)
    BY <1>32 DEF vars, CalmInv, HandFaithful, StatusNames, Replacing, TokensKept, Deregistering,
                 apiVars, secretVars, gitlabVars, passVars, localVars
  <2> QED BY <1>0, <2>1
<1> QED BY <1>1, <1>2, <1>3, <1>4, <1>5, <1>6, <1>7, <1>8, <1>9, <1>10, <1>11, <1>12, <1>13,
     <1>14, <1>15, <1>16, <1>17, <1>18, <1>19, <1>20, <1>21, <1>22, <1>23, <1>24, <1>25,
     <1>26, <1>27, <1>28, <1>29, <1>30, <1>31, <1>32 DEF Next, Pass, Environment

\* The initial states satisfy the invariant.
LEMMA InitIInv == Init => IInv
<1> SUFFICES ASSUME Init PROVE IInv
  OBVIOUS
<1>1. /\ cache = obj /\ secretCache = secret
      /\ registered = {ByoRunner} /\ accepted = {ByoRunner}
      /\ pc = "idle" /\ todo = {} /\ failed = FALSE
  BY DEF Init
<1>2. ByoRunner \notin Ids
  BY SentinelsAssumption
<1>3. PICK s \in [Entries -> Opts \cup {BringYourOwn}] :
        obj = [NoObject EXCEPT !.exists = TRUE, !.spec = s]
  BY DEF Init
<1>4. obj.exists /\ \A e \in Entries : obj.id[e] = None
  BY <1>3 DEF NoObject
<1>5. Copies
  BY <1>1, <1>2 DEF Copies
<1>6. CalmInv({})
  BY <1>1, <1>2, <1>4 DEF CalmInv, HandFaithful, StatusNames, Replacing, TokensKept,
                          Resolving, Deregistering
<1> QED BY <1>5, <1>6, InitType, FinalizerInit DEF IInv

\* Every step keeps the invariant.
LEMMA IInvStep == IInv /\ [Next]_vars => IInv'
<1> SUFFICES ASSUME IInv, [Next]_vars PROVE IInv'
  OBVIOUS
<1>1. TypeOK' /\ FinalizerInv' /\ Copies'
  BY NextType, FinalizerStep, CopiesStep DEF IInv
<1>2. faults' = 0 => CalmInv({})'
  BY FaultsGrow, CalmStep, FaultsAssumption DEF IInv
<1> QED BY <1>1, <1>2 DEF IInv

(* The inductive invariant holds in every reachable state: what the pass    *)
(* knows of each runner agrees with GitLab, the API server and the caches.  *)
THEOREM Inductive == Spec => []IInv
  BY InitIInv, IInvStep, PTL DEF Spec

-----------------------------------------------------------------------------
(* What it means for the properties of ManagedRunner.                      *)

\* One runner per unit follows from what the status names.
LEMMA NamedOnce ==
  ASSUME TypeOK, Copies, StatusNames, Replacing
  PROVE  AtMostOneRunner
<1> SUFFICES ASSUME NEW e \in Entries, NEW i \in RunnersOf(e), NEW j \in RunnersOf(e)
             PROVE  i = j
  BY DEF AtMostOneRunner
<1> USE DEF RunnersOf
<1>1. \/ i = obj.id[e]
      \/ pc = "persist" /\ unit = e /\ created = i
  BY DEF StatusNames
<1>2. \/ j = obj.id[e]
      \/ pc = "persist" /\ unit = e /\ created = j
  BY DEF StatusNames
<1>3. pc = "persist" => obj.id[unit] \notin registered
  BY DEF Replacing
<1> QED BY <1>1, <1>2, <1>3

\* As long as nothing goes wrong, a unit has at most one runner on GitLab.
THEOREM OneRunner == Spec => []OneRunnerPerUnit
<1>1. IInv => OneRunnerPerUnit
  BY NamedOnce DEF IInv, CalmInv, OneRunnerPerUnit
<1> QED BY <1>1, Inductive, PTL

\* As long as nothing goes wrong, the Secret holds the tokens of the runners in
\* the status between passes.
THEOREM StatusAndSecretAgree == Spec => []TokenMatchesStatus
<1>1. IInv => TokenMatchesStatus
  BY DEF IInv, CalmInv, TokensKept, Resolving, TokenMatchesStatus
<1> QED BY <1>1, Inductive, PTL

-----------------------------------------------------------------------------
(* Every step without a fault is a step of RunnerRegistry, or none.        *)

\* A step that touches no runner is a stutter of the registry.
LEMMA Stutter ==
  ASSUME UNCHANGED <<registered, owner>>, obj'.exists = obj.exists, faults = 0, faults' = 0
  PROVE  UNCHANGED Registry!vars
  BY DEF Registry!vars, RunnersOf

\* The removal of a runner is a removal in the registry, or nothing there.
LEMMA Removal ==
  ASSUME TypeOK, Copies, CalmInv({}), faults = 0, faults' = 0, NEW x,
         registered' = registered \ {x}, owner' = owner, obj'.exists = obj.exists
  PROVE  [Registry!Next]_(Registry!vars)
<1>1. CASE x \in Ids /\ x \in registered
  <2> DEFINE e == owner[x]
             live == [f \in Entries |-> RunnersOf(f)]
  <2>1. e \in Entries
    BY <1>1 DEF Copies, TypeOK, GitlabType
  <2>2. live[e] = {x}
    BY <1>1, <2>1, NamedOnce DEF CalmInv, AtMostOneRunner, RunnersOf
  <2>3. \A f \in Entries : RunnersOf(f)' = IF f = e THEN {} ELSE RunnersOf(f)
    BY <2>1, <2>2 DEF RunnersOf
  <2>4. live' = [live EXCEPT ![e] = {}]
    BY <2>1, <2>3
  <2>5. Registry!Deregister(e)
    BY <2>2, <2>4 DEF Registry!Deregister
  <2> QED BY <2>1, <2>5 DEF Registry!Next, Registry!Promised
<1>2. CASE ~(x \in Ids /\ x \in registered)
  <2>1. \A f \in Entries : RunnersOf(f)' = RunnersOf(f)
    BY <1>2 DEF RunnersOf
  <2> QED BY <2>1 DEF Registry!vars
<1> QED BY <1>1, <1>2

\* The creation of a runner is a creation in the registry.
LEMMA Creation ==
  ASSUME TypeOK, Copies, CalmInv({}), faults = 0, faults' = 0, CreateRunner
  PROVE  Registry!Next
<1> DEFINE live == [f \in Entries |-> RunnersOf(f)]
           used == {j \in Ids : owner[j] # None}
<1>1. PICK i \in Unused :
        registered' = registered \cup {i} /\ owner' = [owner EXCEPT ![i] = unit]
  BY DEF CreateRunner
<1>2. PICK e \in Entries : e = unit
  BY DEF CreateRunner, TypeOK, PassType
<1>2a. pc = "create" /\ e # None /\ obj' = obj
  BY <1>2, SentinelsAssumption DEF CreateRunner, apiVars
<1>3. i \in Ids /\ i \notin used /\ i \notin registered
  BY DEF Unused, Copies
<1>4. owner'[i] = e /\ \A j \in Ids \ {i} : owner'[j] = owner[j]
  BY <1>1, <1>2, <1>3 DEF TypeOK, GitlabType
<1>5. live[e] = {}
  BY <1>2, <1>2a DEF RunnersOf, CalmInv, StatusNames, Replacing
<1>6. \A f \in Entries : RunnersOf(f)' = IF f = e THEN {i} ELSE RunnersOf(f)
  BY <1>1, <1>2, <1>2a, <1>3, <1>4, <1>5 DEF RunnersOf
<1>7. live' = [live EXCEPT ![e] = {i}]
  BY <1>2, <1>2a, <1>6
<1>8. used' = used \cup {i}
  BY <1>2, <1>2a, <1>3, <1>4
<1>9. obj.exists
  BY <1>2, <1>2a DEF CalmInv, HandFaithful
<1>10. Registry!Register(e)
  BY <1>2, <1>2a, <1>3, <1>5, <1>7, <1>8, <1>9 DEF Registry!Register
<1> QED BY <1>2, <1>10 DEF Registry!Next, Registry!Promised

\* The end of the object closes a registry that is empty.
LEMMA Closing ==
  ASSUME TypeOK, CalmInv({})', obj.exists, ~obj'.exists, UNCHANGED <<registered, owner>>,
         faults = 0, faults' = 0
  PROVE  Registry!Next
<1>1. registered \subseteq {ByoRunner}
  BY DEF CalmInv, Deregistering
<1>2. \A e \in Entries : RunnersOf(e) = {} /\ RunnersOf(e)' = RunnersOf(e)
  BY <1>1, SentinelsAssumption DEF RunnersOf
<1>3. Registry!Close
  BY <1>2 DEF Registry!Close
<1> QED BY <1>3 DEF Registry!Next, Registry!Promised

\* Without faults every step is a step of the registry or a stutter.
LEMMA CalmStepImplements ==
  ASSUME IInv, [Next]_vars, faults = 0, faults' = 0
  PROVE  [Registry!Next]_(Registry!vars)
<1>0. TypeOK /\ Copies /\ CalmInv({}) /\ CalmInv({})' /\ obj \in Object
  BY CalmStep, FaultsAssumption DEF IInv, TypeOK, ApiType
<1> DEFINE Same == UNCHANGED <<registered, owner>> /\ obj'.exists = obj.exists
<1> USE Undisturbed
<1>1. CASE BeginPass
  BY <1>0, <1>1, Stutter DEF BeginPass, FirstStep, apiVars, gitlabVars, Object
<1>2. CASE AddFinalizer
  BY <1>0, <1>2, Stutter DEF AddFinalizer, ToDeferred, WriteObject, apiVars, gitlabVars,
       Object
<1>3. CASE Preflight
  BY <1>0, <1>3, Stutter DEF Preflight, ToDeferred, apiVars, gitlabVars, Object
<1>4. CASE ReadSecret
  BY <1>0, <1>4, Stutter DEF ReadSecret, apiVars, gitlabVars, Object
<1>5. ASSUME NEW e \in Entries, UseOwnToken(e) PROVE [Registry!Next]_(Registry!vars)
  BY <1>0, <1>5, Stutter DEF UseOwnToken, Resolve, apiVars, gitlabVars, Object
<1>6. ASSUME NEW e \in Entries, KeepRunner(e) PROVE [Registry!Next]_(Registry!vars)
  BY <1>0, <1>6, Stutter DEF KeepRunner, Resolve, apiVars, gitlabVars, Object
<1>7. ASSUME NEW e \in Entries, ReplaceRunner(e) PROVE [Registry!Next]_(Registry!vars)
  BY <1>0, <1>7, Stutter DEF ReplaceRunner, apiVars, gitlabVars, Object
<1>8. CASE AuthFails
  BY <1>0, <1>8, Stutter DEF AuthFails, ToDeferred, apiVars, gitlabVars, Object
<1>9. CASE OutOfIds
  BY <1>0, <1>9, Stutter DEF OutOfIds, ToDeferred, apiVars, gitlabVars, Object
<1>10. CASE Persist
  BY <1>0, <1>10, Stutter DEF Persist, Resolve, WriteObject, apiVars, gitlabVars, Object
<1>11. CASE AllResolved
  BY <1>0, <1>11, Stutter DEF AllResolved, apiVars, gitlabVars, Object
<1>12. CASE WriteSecret
  BY <1>0, <1>12, Stutter DEF WriteSecret, ToDeferred, apiVars, gitlabVars, Object
<1>13. CASE DeferredStatus
  BY <1>0, <1>13, Stutter DEF DeferredStatus, WriteObject, apiVars, gitlabVars, Object
<1>14. CASE RecoverTokens
  BY <1>0, <1>14, Stutter DEF RecoverTokens, apiVars, gitlabVars, Object
<1>15. CASE CountAttempt
  BY <1>0, <1>15, Stutter DEF CountAttempt, WriteObject, apiVars, gitlabVars, Object
<1>16. CASE AllDeregistered
  BY <1>0, <1>16, Stutter DEF AllDeregistered, apiVars, gitlabVars, Object
<1>17. ASSUME NEW e \in Entries, EditOptions(e) PROVE [Registry!Next]_(Registry!vars)
  BY <1>0, <1>17, Stutter DEF EditOptions, Overwrite, UserUnchanged, gitlabVars, Object
<1>18. ASSUME NEW e \in Entries, SwitchMode(e) PROVE [Registry!Next]_(Registry!vars)
  BY <1>0, <1>18, Stutter DEF SwitchMode, Overwrite, UserUnchanged, gitlabVars, Object
<1>19. ASSUME NEW e \in Entries, RemoveEntry(e) PROVE [Registry!Next]_(Registry!vars)
  BY <1>0, <1>19, Stutter DEF RemoveEntry, Overwrite, UserUnchanged, gitlabVars, Object
<1>20. CASE DeleteSecret
  BY <1>0, <1>20, Stutter DEF DeleteSecret, apiVars, gitlabVars, Object
<1>21. ASSUME NEW i \in Ids, Revoke(i) PROVE [Registry!Next]_(Registry!vars)
  BY <1>0, <1>21, Stutter DEF Revoke, apiVars, gitlabVars, Object
<1>22. ASSUME NEW i \in Ids, NearExpiry(i) PROVE [Registry!Next]_(Registry!vars)
  BY <1>0, <1>22, Stutter DEF NearExpiry, apiVars, gitlabVars, Object
<1>23. CASE SyncObject
  BY <1>0, <1>23, Stutter DEF SyncObject, apiVars, gitlabVars, Object
<1>24. CASE SyncSecret
  BY <1>0, <1>24, Stutter DEF SyncSecret, apiVars, gitlabVars, Object
<1>25. CASE Crash
  BY <1>0, <1>25, Stutter DEF Crash, apiVars, gitlabVars, Object
<1>26. CASE UNCHANGED vars
  BY <1>26, Stutter DEF vars, apiVars, gitlabVars
<1>27. CASE DeleteOld
  <2>1. PICK r \in Deregister(found[unit], hand.id[unit]) : TakeEffect(r)
    BY <1>27 DEF DeleteOld
  <2>2. pc = "deleteOld" /\ unit \in Entries /\ unit \in todo /\ obj' = obj
    BY <1>0, <1>27 DEF DeleteOld, TypeOK, PassType, CalmInv, Replacing, apiVars
  <2>3. found[unit] # None
    BY <1>0, <2>2 DEF CalmInv, Replacing, TokensKept, Resolving
  <2>4. r.kind = "none" /\ registered' = registered \ r.gone /\ owner' = owner
    BY <1>0, <2>1, QuietRemoval DEF TakeEffect
  <2>5. r.gone = {found[unit]} \cap accepted
    BY <2>1, <2>3, <2>4, DeregisterByItsToken
  <2>6. registered' = registered \ {found[unit]}
    BY <1>0, <2>4, <2>5 DEF CalmInv
  <2> QED BY <1>0, <2>2, <2>4, <2>6, Removal
<1>28. ASSUME NEW e \in Entries, DeregisterUnit(e) PROVE [Registry!Next]_(Registry!vars)
  <2>1. PICK r \in Deregister(found[e], hand.id[e]) : TakeEffect(r)
    BY <1>28 DEF DeregisterUnit
  <2>2. pc = "deregister" /\ e \in todo /\ obj' = obj
    BY <1>28 DEF DeregisterUnit, apiVars
  <2>3. found[e] # None
    BY <1>0, <2>2 DEF CalmInv, Deregistering
  <2>4. r.kind = "none" /\ registered' = registered \ r.gone /\ owner' = owner
    BY <1>0, <2>1, QuietRemoval DEF TakeEffect
  <2>5. r.gone = {found[e]} \cap accepted
    BY <2>1, <2>3, <2>4, DeregisterByItsToken
  <2>6. registered' = registered \ {found[e]}
    BY <1>0, <2>4, <2>5 DEF CalmInv
  <2> QED BY <1>0, <2>2, <2>4, <2>6, Removal
<1>29. ASSUME NEW i \in Ids, UiDelete(i) PROVE [Registry!Next]_(Registry!vars)
  BY <1>0, <1>29, Removal DEF UiDelete, apiVars
<1>30. CASE CreateRunner
  BY <1>0, <1>30, Creation
<1>31. CASE Release
  <2>1. Same \/ (obj.exists /\ ~obj'.exists /\ UNCHANGED <<registered, owner>>)
    BY <1>0, <1>31 DEF Release, WriteObject, apiVars, gitlabVars, Object, CalmInv,
         HandFaithful
  <2> QED BY <1>0, <2>1, Stutter, Closing
<1>32. CASE DeleteObject
  <2>1. obj' = IF obj.finalizer THEN [obj EXCEPT !.deleting = TRUE]
                                ELSE [obj EXCEPT !.exists = FALSE]
    BY <1>32 DEF DeleteObject, Overwrite
  <2>2. obj.exists /\ UNCHANGED <<registered, owner>>
    BY <1>32 DEF DeleteObject, UserUnchanged, gitlabVars
  <2>3. Same \/ (obj.exists /\ ~obj'.exists /\ UNCHANGED <<registered, owner>>)
    BY <1>0, <2>1, <2>2 DEF Object
  <2> QED BY <1>0, <2>3, Stutter, Closing
<1> QED BY <1>1, <1>2, <1>3, <1>4, <1>5, <1>6, <1>7, <1>8, <1>9, <1>10, <1>11, <1>12, <1>13,
     <1>14, <1>15, <1>16, <1>17, <1>18, <1>19, <1>20, <1>21, <1>22, <1>23, <1>24, <1>25,
     <1>26, <1>27, <1>28, <1>29, <1>30, <1>31, <1>32 DEF Next, Pass, Environment

-----------------------------------------------------------------------------
(* Every other step keeps history.                                         *)

\* A removed runner does not come back, a runner keeps its unit, and an object
\* that is gone stays gone, whatever goes wrong.
Forward ==
  /\ obj'.exists => obj.exists
  /\ \A i \in Ids : /\ owner[i] # None => owner'[i] = owner[i]
                    /\ i \in registered' => i \in registered \/ owner[i] = None

\* A step that leaves GitLab alone goes forward.
LEMMA SameRunners ==
  ASSUME UNCHANGED gitlabVars, obj'.exists => obj.exists
  PROVE  Forward
  BY DEF Forward, gitlabVars

\* So does a step that removes runners.
LEMMA FewerRunners ==
  ASSUME registered' \subseteq registered, owner' = owner, obj' = obj
  PROVE  Forward
  BY DEF Forward

\* So does every step.
LEMMA ForwardStep ==
  ASSUME TypeOK, Next
  PROVE  Forward
<1>0. obj \in Object /\ hand \in Object /\ owner \in [Ids -> Entries \cup {None}]
  BY DEF TypeOK, ApiType, PassType, GitlabType
<1> USE <1>0 DEF Object, WriteObject, Overwrite, apiVars, UserUnchanged
<1>1. CASE CreateRunner
  <2>1. PICK i \in Unused : /\ registered' = registered \cup {i}
                            /\ owner' = [owner EXCEPT ![i] = unit]
    BY <1>1 DEF CreateRunner
  <2> QED BY <1>1, <2>1 DEF CreateRunner, Unused, Forward
<1>2. CASE DeleteOld
  BY <1>2, FewerRunners DEF DeleteOld, TakeEffect
<1>3. ASSUME NEW e \in Entries, DeregisterUnit(e) PROVE Forward
  BY <1>3, FewerRunners DEF DeregisterUnit, TakeEffect
<1>4. ASSUME NEW i \in Ids, UiDelete(i) PROVE Forward
  BY <1>4, FewerRunners DEF UiDelete
<1>5. ASSUME NEW i \in Ids, Revoke(i) \/ NearExpiry(i) PROVE Forward
  BY <1>5, FewerRunners DEF Revoke, NearExpiry
<1>6. ASSUME NEW e \in Entries, EditOptions(e) \/ SwitchMode(e) \/ RemoveEntry(e) PROVE Forward
  <2>1. UNCHANGED gitlabVars /\ (obj'.exists => obj.exists)
    BY <1>6 DEF EditOptions, SwitchMode, RemoveEntry
  <2> QED BY <2>1, SameRunners
<1>7. CASE DeleteObject \/ DeleteSecret \/ SyncObject \/ SyncSecret \/ Crash
  <2>1. UNCHANGED gitlabVars /\ (obj'.exists => obj.exists)
    BY <1>7 DEF DeleteObject, DeleteSecret, SyncObject, SyncSecret, Crash
  <2> QED BY <2>1, SameRunners
<1>8. CASE BeginPass \/ AddFinalizer \/ Preflight \/ ReadSecret \/ AuthFails \/ OutOfIds
  <2>1. UNCHANGED gitlabVars /\ (obj'.exists => obj.exists)
    BY <1>8 DEF BeginPass, AddFinalizer, Preflight, ReadSecret, AuthFails, OutOfIds
  <2> QED BY <2>1, SameRunners
<1>9. CASE Persist \/ AllResolved \/ WriteSecret \/ DeferredStatus
  <2>1. UNCHANGED gitlabVars /\ (obj'.exists => obj.exists)
    BY <1>9 DEF Persist, AllResolved, WriteSecret, DeferredStatus
  <2> QED BY <2>1, SameRunners
<1>10. CASE RecoverTokens \/ CountAttempt \/ AllDeregistered \/ Release
  <2>1. UNCHANGED gitlabVars /\ (obj'.exists => obj.exists)
    BY <1>10 DEF RecoverTokens, CountAttempt, AllDeregistered, Release
  <2> QED BY <2>1, SameRunners
<1>11. ASSUME NEW e \in Entries, UseOwnToken(e) \/ KeepRunner(e) \/ ReplaceRunner(e)
       PROVE  Forward
  <2>1. UNCHANGED gitlabVars /\ (obj'.exists => obj.exists)
    BY <1>11 DEF UseOwnToken, KeepRunner, ReplaceRunner
  <2> QED BY <2>1, SameRunners
<1> QED BY <1>1, <1>2, <1>3, <1>4, <1>5, <1>6, <1>7, <1>8, <1>9, <1>10, <1>11
        DEF Next, Pass, Environment

\* A step after a fault is one that the registry allows then.
LEMMA FaultyStepImplements ==
  ASSUME TypeOK, Next, faults' # 0, TypeOK'
  PROVE  Registry!Next
<1>1. Forward
  BY ForwardStep
<1>2. (faults > 0)'
  BY FaultsAssumption DEF TypeOK
<1>3. \A e \in Entries : RunnersOf(e)' \subseteq
        RunnersOf(e) \cup ({i \in Ids : owner[i] # None}' \ {i \in Ids : owner[i] # None})
  BY <1>1, SentinelsAssumption DEF Forward, RunnersOf
<1>4. {i \in Ids : owner[i] # None} \subseteq {i \in Ids : owner[i] # None}'
  BY <1>1 DEF Forward
<1>5. Registry!Disturbed
  BY <1>1, <1>2, <1>3, <1>4 DEF Forward, Registry!Disturbed
<1> QED BY <1>5 DEF Registry!Next

-----------------------------------------------------------------------------
\* The operator keeps the promise of RunnerRegistry about the runners of its
\* object, whatever goes wrong.
THEOREM Implements == Spec => ImplementsRegistry
<1>1. Init => Registry!Init
  <2> SUFFICES ASSUME Init PROVE Registry!Init
    OBVIOUS
  <2>1. registered = {ByoRunner} /\ owner = [i \in Ids |-> None] /\ faults = 0
    BY DEF Init
  <2>2. obj.exists = TRUE
    BY DEF Init, NoObject
  <2> QED BY <2>1, <2>2, SentinelsAssumption DEF Registry!Init, RunnersOf
<1>2. IInv /\ IInv' /\ [Next]_vars => [Registry!Next]_(Registry!vars)
  <2> SUFFICES ASSUME IInv, IInv', [Next]_vars PROVE [Registry!Next]_(Registry!vars)
    OBVIOUS
  <2>1. CASE faults' = 0
    BY <2>1, FaultsGrow, CalmStepImplements DEF IInv
  <2>2. CASE faults' # 0 /\ Next
    BY <2>2, FaultyStepImplements DEF IInv
  <2>3. CASE UNCHANGED vars
    BY <2>3 DEF vars, gitlabVars, apiVars, Registry!vars, RunnersOf
  <2> QED BY <2>1, <2>2, <2>3
<1> QED BY <1>1, <1>2, Inductive, PTL DEF Spec, ImplementsRegistry, Registry!Spec
=============================================================================
