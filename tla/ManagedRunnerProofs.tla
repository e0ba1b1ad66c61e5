------------------------ MODULE ManagedRunnerProofs ------------------------
(* Theorems about ManagedRunner, for every value of its constants.         *)
EXTENDS ManagedRunner, TLAPS

-----------------------------------------------------------------------------
(* Facts about the operators of the model.                                 *)

\* What a call that removes runners may do.
LEMMA OutcomesType ==
  ASSUME NEW removed, NEW allowed \in BOOLEAN, NEW s \in DeleteOutcomes(removed, allowed)
  PROVE  /\ s.gone \subseteq removed /\ s.ok \in BOOLEAN
         /\ s.kind = "none" => s.ok = allowed /\ (allowed => s.gone = removed)
<1> DEFINE effect == IF allowed THEN removed ELSE {}
<1>1. \/ s = [gone |-> effect, ok |-> allowed, kind |-> "none"]
      \/ s = [gone |-> {}, ok |-> FALSE, kind |-> "gitlabError"]
      \/ s = [gone |-> effect, ok |-> FALSE, kind |-> "gitlabLost"]
  BY DEF DeleteOutcomes
<1>2. effect \subseteq removed /\ (allowed => effect = removed)
  OBVIOUS
<1> HIDE DEF effect
<1>3. CASE s = [gone |-> effect, ok |-> allowed, kind |-> "none"]
  <2>1. s.gone = effect /\ s.ok = allowed /\ s.kind = "none"
    BY <1>3, Zenon
  <2> QED BY <1>2, <2>1, Zenon
<1>4. CASE s = [gone |-> {}, ok |-> FALSE, kind |-> "gitlabError"]
  <2>1. s.gone = {} /\ s.ok = FALSE /\ s.kind # "none"
    BY <1>4
  <2> QED BY <2>1
<1>5. CASE s = [gone |-> effect, ok |-> FALSE, kind |-> "gitlabLost"]
  <2>1. s.gone = effect /\ s.ok = FALSE /\ s.kind # "none"
    BY <1>5
  <2> QED BY <1>2, <2>1
<1> QED BY <1>1, <1>3, <1>4, <1>5

\* A deregistration removes nothing but the runners it names, and says if it succeeded.
LEMMA DeregisterType ==
  ASSUME TypeOK, NEW t \in Runners \cup {None}, NEW i \in Ids \cup {None},
         NEW r \in Deregister(t, i)
  PROVE  r.gone \in SUBSET registered /\ r.gone \subseteq {t, i} /\ r.ok \in BOOLEAN
<1>1. \A s \in DeleteByToken(t) : s.gone \in SUBSET registered /\ s.gone \subseteq {t} /\ s.ok \in BOOLEAN
  <2>1. {t} \cap accepted \subseteq registered
    BY DEF TypeOK, GitlabType
  <2> QED BY <2>1, OutcomesType DEF DeleteByToken
<1>2. \A s \in DeleteById(i) : s.gone \in SUBSET registered /\ s.gone \subseteq {i} /\ s.ok \in BOOLEAN
  BY ScopeAssumption, OutcomesType DEF DeleteById
<1>3. CASE t = None
  BY <1>2, <1>3 DEF Deregister
<1>4. CASE t # None
  <2>1. CASE r \in DeleteByToken(t)
    BY <1>1, <2>1
  <2>2. CASE r \notin DeleteByToken(t)
    <3>1. PICK q \in DeleteByToken(t) \X DeleteById(i) :
            r = [gone |-> q[1].gone \cup q[2].gone, ok |-> q[2].ok,
                 kind |-> Worse(q[1].kind, q[2].kind)]
      BY <1>4, <2>2 DEF Deregister
    <3>2. q[1] \in DeleteByToken(t) /\ q[2] \in DeleteById(i)
      OBVIOUS
    <3> QED BY <1>1, <1>2, <3>1, <3>2
  <2> QED BY <2>1, <2>2
<1> QED BY <1>3, <1>4

\* An undisturbed deregistration by token succeeds and removes that runner.
LEMMA DeregisterByItsToken ==
  ASSUME NEW t, t # None, NEW i, NEW r \in Deregister(t, i), r.kind = "none"
  PROVE  r.ok /\ r.gone = {t} \cap accepted
<1>1. \A s \in DeleteByToken(t) : s.kind = "none" => s.ok /\ s.gone = {t} \cap accepted
  BY OutcomesType DEF DeleteByToken
<1>2. CASE r \in DeleteByToken(t)
  BY <1>1, <1>2
<1>3. CASE r \notin DeleteByToken(t)
  <2>1. PICK q \in DeleteByToken(t) \X DeleteById(i) :
          /\ ~q[1].ok
          /\ r = [gone |-> q[1].gone \cup q[2].gone, ok |-> q[2].ok,
                  kind |-> Worse(q[1].kind, q[2].kind)]
    BY <1>3 DEF Deregister
  <2>2. q[1] \in DeleteByToken(t) /\ q[1].kind = "none"
    BY <2>1 DEF Worse
  <2> QED BY <1>1, <2>1, <2>2
<1> QED BY <1>2, <1>3

\* No step loses count of the faults.
LEMMA FaultsType ==
  ASSUME faults \in 0 .. MaxFaults + 1
  PROVE  /\ Calm => faults' \in 0 .. MaxFaults + 1
         /\ \A k : Fault(k) => faults' \in 0 .. MaxFaults + 1
         /\ \A c : CacheRead(c) => faults' \in 0 .. MaxFaults + 1
         /\ \A c : Applied(c) => faults' \in 0 .. MaxFaults + 1
         /\ \A c : Refused(c) => faults' \in 0 .. MaxFaults + 1
         /\ UserActs => faults' \in 0 .. MaxFaults + 1
  BY FaultsAssumption DEF Calm, Fault, CacheRead, Applied, Refused, UserActs

-----------------------------------------------------------------------------
(* Type correctness.                                                       *)

\* Objects, Secrets and token maps keep their shape when a field is replaced.
LEMMA ObjectFields ==
  ASSUME NEW o \in Object
  PROVE  /\ [o EXCEPT !.finalizer = TRUE] \in Object
         /\ [o EXCEPT !.deleting = TRUE] \in Object
         /\ [o EXCEPT !.exists = FALSE] \in Object
         /\ [o EXCEPT !.exists = FALSE, !.finalizer = FALSE] \in Object
         /\ \A n \in 0 .. MaxAttempts : [o EXCEPT !.attempts = n] \in Object
         /\ \A e \in Entries, s \in Specs : [o EXCEPT !.spec[e] = s] \in Object
         /\ \A h \in Object : [o EXCEPT !.id = h.id, !.hash = h.hash] \in Object
  BY DEF Object

\* The empty values have their types.
LEMMA InitialValues ==
  NoTokens \in TokenMap /\ NoSecret \in ConfigSecret /\ NoObject \in Object
  BY AttemptsAssumption
     DEF NoTokens, TokenMap, NoSecret, ConfigSecret, NoObject, Object, Specs

\* The initial states have the types.
LEMMA InitType == Init => TypeOK
<1> SUFFICES ASSUME Init PROVE TypeOK
  OBVIOUS
<1> USE InitialValues
<1>1. ApiType
  <2>1. PICK s \in [Entries -> Opts \cup {BringYourOwn}] :
          obj = [NoObject EXCEPT !.exists = TRUE, !.spec = s]
    BY DEF Init
  <2>2. s \in [Entries -> Specs]
    BY <2>1 DEF Specs
  <2>3. obj \in Object
    BY <2>1, <2>2 DEF Object
  <2> QED BY <2>3 DEF Init, ApiType
<1>2. GitlabType
  BY DEF Init, GitlabType, Runners
<1>3. PassType
  BY DEF Init, PassType, Steps
<1>4. faults \in 0 .. MaxFaults + 1
  <2>1. faults = 0
    BY DEF Init
  <2> QED BY <2>1, FaultsAssumption
<1> QED BY <1>1, <1>2, <1>3, <1>4 DEF TypeOK

\* Every step of a pass and of its environment keeps the types.
LEMMA EndPassType == EndPass => PassType'
  BY InitialValues DEF EndPass, PassType, Steps

\* What a user writes has its type.
LEMMA OverwriteType ==
  ASSUME TypeOK, NEW o \in Object, Overwrite(o), UserUnchanged
  PROVE  ApiType' /\ GitlabType' /\ PassType'
  BY DEF TypeOK, ApiType, GitlabType, PassType, Overwrite, UserUnchanged, secretVars, gitlabVars,
         localVars

\* Every step keeps the types.
LEMMA NextType == TypeOK /\ [Next]_vars => TypeOK'
<1> SUFFICES ASSUME TypeOK, [Next]_vars PROVE TypeOK'
  OBVIOUS
<1> USE DEF TypeOK
<1> DEFINE FaultsOK == faults' \in 0 .. MaxFaults + 1
<1>1. CASE BeginPass
  <2>1. FaultsOK
    BY <1>1, FaultsType DEF BeginPass
  <2>2. ApiType' /\ GitlabType'
    BY <1>1 DEF BeginPass, ApiType, GitlabType, apiVars, secretVars, gitlabVars
  <2>3. PassType'
    BY <1>1 DEF BeginPass, FirstStep, ApiType, PassType, localVars, Steps
  <2> QED BY <2>1, <2>2, <2>3
<1>2. CASE AddFinalizer
  <2>1. FaultsOK
    BY <1>2, FaultsType DEF AddFinalizer
  <2>2. ApiType' /\ GitlabType'
    BY <1>2, ObjectFields DEF AddFinalizer, WriteObject, ApiType, GitlabType, apiVars, secretVars,
                              gitlabVars
  <2>3. PassType'
    BY <1>2 DEF AddFinalizer, ToDeferred, PassType, localVars, Steps
  <2> QED BY <2>1, <2>2, <2>3
<1>3. CASE Preflight
  BY <1>3, FaultsType DEF Preflight, ToDeferred, ApiType, GitlabType, PassType, apiVars, secretVars,
                          gitlabVars, localVars, Steps
<1>4. CASE ReadSecret
  <2>1. FaultsOK
    BY <1>4, FaultsType DEF ReadSecret
  <2>2. ApiType' /\ GitlabType'
    BY <1>4 DEF ReadSecret, ApiType, GitlabType, apiVars, secretVars, gitlabVars
  <2>3. PassType'
    BY <1>4 DEF ReadSecret, ApiType, PassType, ConfigSecret, Steps
  <2> QED BY <2>1, <2>2, <2>3
<1>5. ASSUME NEW e \in Entries, UseOwnToken(e) PROVE TypeOK'
  <2>1. ApiType' /\ GitlabType' /\ FaultsOK
    BY <1>5, FaultsType DEF UseOwnToken, ApiType, GitlabType, apiVars, secretVars,
         gitlabVars
  <2>2. PassType'
    BY <1>5 DEF UseOwnToken, Resolve, PassType, TokenMap, Runners, Steps
  <2> QED BY <2>1, <2>2
<1>6. ASSUME NEW e \in Entries, KeepRunner(e) PROVE TypeOK'
  <2>1. ApiType' /\ GitlabType' /\ FaultsOK
    BY <1>6, FaultsType DEF KeepRunner, ApiType, GitlabType, apiVars, secretVars, gitlabVars
  <2>2. PassType'
    BY <1>6 DEF KeepRunner, Resolve, PassType, TokenMap, Steps
  <2> QED BY <2>1, <2>2
<1>7. ASSUME NEW e \in Entries, ReplaceRunner(e) PROVE TypeOK'
  <2>1. ApiType' /\ GitlabType' /\ FaultsOK
    BY <1>7, FaultsType DEF ReplaceRunner, ApiType, GitlabType, apiVars, secretVars,
         gitlabVars
  <2>2. PassType'
    BY <1>7 DEF ReplaceRunner, IsManaged, PassType, Steps
  <2> QED BY <2>1, <2>2
<1>8. CASE AuthFails
  BY <1>8, FaultsType DEF AuthFails, ToDeferred, ApiType, GitlabType, PassType, apiVars, secretVars,
                          gitlabVars, localVars, Steps
<1>9. CASE DeleteOld
  <2>1. unit \in Entries
    BY <1>9 DEF DeleteOld, PassType
  <2>2. found[unit] \in Runners \cup {None} /\ hand.id[unit] \in Ids \cup {None}
    BY <2>1 DEF PassType, TokenMap, Object
  <2>3. PICK r \in Deregister(found[unit], hand.id[unit]) :
          TakeEffect(r) /\ pc' = IF GoesOn(r) THEN "create" ELSE "deferred"
    BY <1>9 DEF DeleteOld
  <2>4. r.gone \in SUBSET registered
    BY <2>2, <2>3, DeregisterType
  <2>5. GitlabType' /\ FaultsOK
    BY <2>3, <2>4, FaultsType DEF TakeEffect, GitlabType
  <2>6. ApiType'
    BY <1>9 DEF DeleteOld, ApiType, apiVars, secretVars
  <2>7. PassType'
    BY <1>9, <2>3 DEF DeleteOld, PassType, localVars, Steps
  <2> QED BY <2>5, <2>6, <2>7
<1>10. CASE CreateRunner
  <2>1. PICK i \in Unused :
          /\ registered' = registered \cup {i} /\ accepted' = accepted \cup {i}
          /\ owner' = [owner EXCEPT ![i] = unit]
          /\ \/ Calm /\ pc' = "persist" /\ created' = i
             \/ Fault("gitlabLost") /\ pc' = "deferred" /\ UNCHANGED created
    BY <1>10 DEF CreateRunner
  <2>2. i \in Ids /\ unit \in Entries
    BY <1>10, <2>1 DEF CreateRunner, Unused, PassType
  <2>3. GitlabType' /\ FaultsOK
    BY <1>10, <2>1, <2>2, FaultsType DEF CreateRunner, GitlabType, Runners
  <2>4. ApiType'
    BY <1>10 DEF CreateRunner, ApiType, apiVars, secretVars
  <2>5. PassType'
    BY <1>10, <2>1, <2>2 DEF CreateRunner, PassType, Steps
  <2> QED BY <2>3, <2>4, <2>5
<1>11. CASE OutOfIds
  <2>1. faults' = MaxFaults + 1
    BY <1>11 DEF OutOfIds
  <2>2. FaultsOK
    BY <2>1, FaultsAssumption
  <2>3. ApiType' /\ GitlabType'
    BY <1>11 DEF OutOfIds, ApiType, GitlabType, apiVars, secretVars, gitlabVars
  <2>4. PassType'
    BY <1>11 DEF OutOfIds, ToDeferred, PassType, localVars, Steps
  <2> QED BY <2>2, <2>3, <2>4
<1>12. CASE Persist
  <2>1. unit \in Entries /\ hand.spec[unit] \in Opts /\ created \in Ids
    BY <1>12 DEF Persist, PassType
  <2>2. hand' \in Object
    BY <1>12, <2>1 DEF Persist, Registration, PassType, Object
  <2>3. [obj EXCEPT !.id = hand'.id, !.hash = hand'.hash] \in Object
    BY <2>2, ObjectFields DEF ApiType
  <2>4. GitlabType' /\ FaultsOK
    BY <1>12, FaultsType DEF Persist, GitlabType, gitlabVars
  <2>5. ApiType'
    BY <1>12, <2>3 DEF Persist, WriteObject, ApiType, apiVars, secretVars
  <2>6. PassType'
    BY <1>12, <2>1, <2>2 DEF Persist, Resolve, PassType, TokenMap, Runners, Steps
  <2> QED BY <2>4, <2>5, <2>6
<1>13. CASE AllResolved
  BY <1>13, FaultsType DEF AllResolved, ApiType, GitlabType, PassType, apiVars, secretVars,
                           gitlabVars, localVars, Steps
<1>14. CASE WriteSecret
  <2>1. DesiredSecret \in ConfigSecret
    BY DEF PassType, DesiredSecret, ConfigSecret
  <2>2. ApiType' /\ GitlabType' /\ FaultsOK
    BY <1>14, <2>1, FaultsType DEF WriteSecret, ApiType, GitlabType, apiVars, secretVars,
         gitlabVars
  <2>3. PassType'
    BY <1>14 DEF WriteSecret, ToDeferred, PassType, localVars, Steps
  <2> QED BY <2>2, <2>3
<1>15. CASE DeferredStatus
  <2>1. UNCHANGED secretVars /\ UNCHANGED gitlabVars
    BY <1>15 DEF DeferredStatus
  <2>2. FaultsOK
    BY <1>15, FaultsType DEF DeferredStatus
  <2>3. UNCHANGED apiVars \/ WriteObject([obj EXCEPT !.id = hand.id, !.hash = hand.hash])
    BY <1>15 DEF DeferredStatus
  <2>4. [obj EXCEPT !.id = hand.id, !.hash = hand.hash] \in Object
    BY ObjectFields DEF ApiType, PassType
  <2>5. ApiType'
    BY <2>1, <2>3, <2>4 DEF WriteObject, ApiType, apiVars, secretVars
  <2>6. GitlabType'
    BY <2>1 DEF GitlabType, gitlabVars
  <2>7. PassType'
    BY <1>15, EndPassType DEF DeferredStatus
  <2> QED BY <2>2, <2>5, <2>6, <2>7
<1>16. CASE RecoverTokens
  <2>1. ApiType' /\ GitlabType' /\ FaultsOK
    BY <1>16, FaultsType DEF RecoverTokens, ApiType, GitlabType, apiVars, secretVars,
         gitlabVars
  <2>2. PassType'
    BY <1>16, InitialValues DEF RecoverTokens, ToDeregister, ApiType, PassType, ConfigSecret, Steps
  <2> QED BY <2>1, <2>2
<1>17. ASSUME NEW e \in Entries, DeregisterUnit(e) PROVE TypeOK'
  <2>1. found[e] \in Runners \cup {None} /\ hand.id[e] \in Ids \cup {None}
    BY DEF PassType, TokenMap, Object
  <2>2. PICK r \in Deregister(found[e], hand.id[e]) :
          TakeEffect(r) /\ failed' = (failed \/ ~r.ok)
    BY <1>17 DEF DeregisterUnit
  <2>3. r.gone \in SUBSET registered /\ r.ok \in BOOLEAN
    BY <2>1, <2>2, DeregisterType
  <2>4. GitlabType' /\ FaultsOK
    BY <2>2, <2>3, FaultsType DEF TakeEffect, GitlabType
  <2>5. ApiType'
    BY <1>17 DEF DeregisterUnit, ApiType, apiVars, secretVars
  <2>6. failed' \in BOOLEAN
    BY <2>2
  <2>7. PassType'
    BY <1>17, <2>6 DEF DeregisterUnit, PassType, Steps
  <2> QED BY <2>4, <2>5, <2>7
<1>18. CASE CountAttempt
  <2>1. NextAttempt \in 0 .. MaxAttempts
    BY AttemptsAssumption DEF NextAttempt, PassType, Object
  <2>2. ApiType' /\ GitlabType' /\ FaultsOK
    BY <1>18, <2>1, ObjectFields, FaultsType
       DEF CountAttempt, WriteObject, ApiType, GitlabType, apiVars, secretVars, gitlabVars
  <2>3. [hand EXCEPT !.attempts = NextAttempt] \in Object
    BY <2>1, ObjectFields DEF PassType
  <2>4. PassType'
    BY <1>18, <2>3, EndPassType DEF CountAttempt, PassType, localVars, Steps
  <2> QED BY <2>2, <2>4
<1>19. CASE AllDeregistered
  BY <1>19, FaultsType DEF AllDeregistered, ApiType, GitlabType, PassType, apiVars, secretVars,
                           gitlabVars, localVars, Steps
<1>20. CASE Release
  <2>1. ApiType' /\ GitlabType' /\ FaultsOK
    BY <1>20, ObjectFields, FaultsType
       DEF Release, WriteObject, ApiType, GitlabType, apiVars, secretVars, gitlabVars
  <2>2. PassType'
    BY <1>20, EndPassType DEF Release
  <2> QED BY <2>1, <2>2
<1>21. ASSUME NEW e \in Entries, EditOptions(e) PROVE TypeOK'
  <2>1. PICK s \in Opts \ {obj.spec[e]} : Overwrite([obj EXCEPT !.spec[e] = s])
    BY <1>21 DEF EditOptions
  <2>2. [obj EXCEPT !.spec[e] = s] \in Object
    BY <2>1, ObjectFields DEF ApiType, Specs
  <2> QED BY <1>21, <2>1, <2>2, OverwriteType, FaultsType DEF EditOptions
<1>22. ASSUME NEW e \in Entries, SwitchMode(e) PROVE TypeOK'
  <2>1. PICK s \in Opts \cup {BringYourOwn} : Overwrite([obj EXCEPT !.spec[e] = s])
    BY <1>22 DEF SwitchMode
  <2>2. [obj EXCEPT !.spec[e] = s] \in Object
    BY <2>1, ObjectFields DEF ApiType, Specs
  <2> QED BY <1>22, <2>1, <2>2, OverwriteType, FaultsType DEF SwitchMode
<1>23. ASSUME NEW e \in Entries, RemoveEntry(e) PROVE TypeOK'
  <2>1. [obj EXCEPT !.spec[e] = Absent] \in Object
    BY ObjectFields DEF ApiType, Specs
  <2> QED BY <1>23, <2>1, OverwriteType, FaultsType DEF RemoveEntry
<1>24. CASE DeleteObject
  <2> DEFINE o == IF obj.finalizer THEN [obj EXCEPT !.deleting = TRUE]
                                   ELSE [obj EXCEPT !.exists = FALSE]
  <2>1. o \in Object
    BY ObjectFields DEF ApiType
  <2>2. Overwrite(o) /\ UserUnchanged /\ UserActs
    BY <1>24 DEF DeleteObject
  <2> HIDE DEF o
  <2> QED BY <2>1, <2>2, OverwriteType, FaultsType
<1>25. CASE DeleteSecret
  BY <1>25, FaultsType, InitialValues DEF DeleteSecret, ApiType, GitlabType, PassType, apiVars,
                           gitlabVars, passVars, localVars
<1>26. ASSUME NEW i \in Ids, UiDelete(i) \/ Revoke(i) \/ NearExpiry(i) PROVE TypeOK'
  BY <1>26, FaultsType DEF UiDelete, Revoke, NearExpiry, ApiType, GitlabType, PassType, apiVars,
                           secretVars, passVars, localVars
<1>27. CASE SyncObject \/ SyncSecret
  BY <1>27, FaultsType DEF SyncObject, SyncSecret, ApiType, GitlabType, PassType, apiVars,
                           secretVars, gitlabVars, passVars, localVars
<1>28. CASE Crash
  <2>1. ApiType' /\ GitlabType' /\ FaultsOK
    BY <1>28, FaultsType DEF Crash, ApiType, GitlabType, gitlabVars
  <2>2. PassType'
    BY <1>28, EndPassType DEF Crash
  <2> QED BY <2>1, <2>2
<1>29. CASE UNCHANGED vars
  BY <1>29 DEF vars, ApiType, GitlabType, PassType, apiVars, secretVars, gitlabVars, passVars,
               localVars
<1> QED BY <1>1, <1>2, <1>3, <1>4, <1>5, <1>6, <1>7, <1>8, <1>9, <1>10, <1>11, <1>12, <1>13, <1>14,
           <1>15, <1>16, <1>17, <1>18, <1>19, <1>20, <1>21, <1>22, <1>23, <1>24, <1>25, <1>26,
           <1>27, <1>28, <1>29 DEF Next, Pass, Environment

\* Every reachable state is well typed, whatever goes wrong.
THEOREM TypeCorrect == Spec => []TypeOK
  BY InitType, NextType, PTL DEF Spec

-----------------------------------------------------------------------------
(* Safety that holds whatever goes wrong.                                  *)

\* n is o with another status.
StatusWritten(o, n) == \E a, b : n = [o EXCEPT !.id = a, !.hash = b]

\* A status write touches neither the spec nor the count of attempts.
LEMMA StatusWrite ==
  \A o \in Object : \A n : StatusWritten(o, n) => n.spec = o.spec /\ n.attempts = o.attempts
  BY DEF StatusWritten, Object

-----------------------------------------------------------------------------
(* The finalizer comes before the first runner.                            *)

\* An object that still exists keeps its finalizer once it has it.
Guarded == obj.exists => obj.finalizer

Provisioning == {"read", "ensure", "deleteOld", "create", "persist", "provision"}

\* Every copy of the object that shows the finalizer, and every pass that got
\* past the finalizer check, is evidence that the object is guarded.
FinalizerInv ==
  /\ cache.finalizer => Guarded
  /\ pc \in Provisioning => Guarded
  /\ Guarded \/ registered \subseteq {ByoRunner}

\* No step takes the finalizer while a runner may exist.
LEMMA GuardedStays ==
  ASSUME TypeOK, [Next]_vars, Guarded
  PROVE  Guarded'
<1> USE DEF TypeOK, ApiType, Object
<1>1. CASE BeginPass
  BY <1>1 DEF BeginPass, FirstStep, CacheRead, Calm, Fault, Guarded, apiVars, secretVars,
       gitlabVars, localVars
<1>2. CASE AddFinalizer
  BY <1>2 DEF AddFinalizer, ToDeferred, WriteObject, Applied, Refused, Guarded, apiVars,
       secretVars, gitlabVars, localVars
<1>3. CASE Preflight
  BY <1>3 DEF Preflight, ToDeferred, Guarded, apiVars, secretVars, gitlabVars, localVars
<1>4. CASE ReadSecret
  BY <1>4 DEF ReadSecret, Guarded, apiVars, secretVars, gitlabVars, passVars, localVars
<1>5. ASSUME NEW e \in Entries, UseOwnToken(e) PROVE Guarded'
  BY <1>5 DEF UseOwnToken, Resolve, Guarded, apiVars, secretVars, gitlabVars
<1>6. ASSUME NEW e \in Entries, KeepRunner(e) PROVE Guarded'
  BY <1>6 DEF KeepRunner, Resolve, Guarded, apiVars, secretVars, gitlabVars
<1>7. ASSUME NEW e \in Entries, ReplaceRunner(e) PROVE Guarded'
  BY <1>7 DEF ReplaceRunner, Guarded, apiVars, secretVars, gitlabVars, passVars, localVars
<1>8. CASE AuthFails
  BY <1>8 DEF AuthFails, ToDeferred, Guarded, apiVars, secretVars, gitlabVars, localVars
<1>9. CASE DeleteOld
  BY <1>9 DEF DeleteOld, Guarded, apiVars, secretVars, gitlabVars, passVars, localVars
<1>10. CASE CreateRunner
  BY <1>10 DEF CreateRunner, Guarded, apiVars, secretVars, gitlabVars, passVars, localVars
<1>11. CASE OutOfIds
  BY <1>11 DEF OutOfIds, ToDeferred, Guarded, apiVars, secretVars, gitlabVars, localVars
<1>12. CASE Persist
  BY <1>12 DEF Persist, Resolve, WriteObject, Registration, Guarded, apiVars, secretVars,
       gitlabVars
<1>13. CASE AllResolved
  BY <1>13 DEF AllResolved, Guarded, apiVars, secretVars, gitlabVars, passVars, localVars
<1>14. CASE WriteSecret
  BY <1>14 DEF WriteSecret, ToDeferred, DesiredSecret, Guarded, apiVars, secretVars,
       gitlabVars, localVars
<1>15. CASE DeferredStatus
  BY <1>15 DEF DeferredStatus, EndPass, WriteObject, Guarded, apiVars, secretVars,
       gitlabVars
<1>16. CASE RecoverTokens
  BY <1>16 DEF RecoverTokens, ToDeregister, Guarded, apiVars, secretVars, gitlabVars
<1>17. ASSUME NEW e \in Entries, DeregisterUnit(e) PROVE Guarded'
  BY <1>17 DEF DeregisterUnit, Guarded, apiVars, secretVars, gitlabVars, passVars, localVars
<1>18. CASE CountAttempt
  BY <1>18 DEF CountAttempt, EndPass, WriteObject, NextAttempt, Guarded, apiVars,
       secretVars, gitlabVars, localVars
<1>19. CASE AllDeregistered
  BY <1>19 DEF AllDeregistered, Guarded, apiVars, secretVars, gitlabVars, localVars
<1>20. CASE Release
  BY <1>20 DEF Release, EndPass, WriteObject, Guarded, apiVars, secretVars, gitlabVars
<1>21. ASSUME NEW e \in Entries, EditOptions(e) PROVE Guarded'
  BY <1>21 DEF EditOptions, Overwrite, UserUnchanged, Guarded, secretVars, gitlabVars,
       localVars
<1>22. ASSUME NEW e \in Entries, SwitchMode(e) PROVE Guarded'
  BY <1>22 DEF SwitchMode, Overwrite, UserUnchanged, Guarded, secretVars, gitlabVars,
       localVars
<1>23. ASSUME NEW e \in Entries, RemoveEntry(e) PROVE Guarded'
  BY <1>23 DEF RemoveEntry, Overwrite, UserUnchanged, Guarded, secretVars, gitlabVars,
       localVars
<1>24. CASE DeleteObject
  BY <1>24 DEF DeleteObject, Overwrite, UserUnchanged, Guarded, secretVars, gitlabVars,
       localVars
<1>25. CASE DeleteSecret
  BY <1>25 DEF DeleteSecret, Guarded, apiVars, secretVars, gitlabVars, passVars, localVars
<1>26. ASSUME NEW i \in Ids, UiDelete(i) PROVE Guarded'
  BY <1>26 DEF UiDelete, Guarded, apiVars, secretVars, gitlabVars, passVars, localVars
<1>27. ASSUME NEW i \in Ids, Revoke(i) PROVE Guarded'
  BY <1>27 DEF Revoke, Guarded, apiVars, secretVars, gitlabVars, passVars, localVars
<1>28. ASSUME NEW i \in Ids, NearExpiry(i) PROVE Guarded'
  BY <1>28 DEF NearExpiry, Guarded, apiVars, secretVars, gitlabVars, passVars, localVars
<1>29. CASE SyncObject
  BY <1>29 DEF SyncObject, Guarded, apiVars, secretVars, gitlabVars, passVars, localVars
<1>30. CASE SyncSecret
  BY <1>30 DEF SyncSecret, Guarded, apiVars, secretVars, gitlabVars, passVars, localVars
<1>31. CASE Crash
  BY <1>31 DEF Crash, EndPass, Guarded, apiVars, secretVars, gitlabVars, passVars, localVars
<1>32. CASE UNCHANGED vars
  BY <1>32 DEF vars, Guarded, apiVars, secretVars, gitlabVars, passVars, localVars
<1> QED BY <1>1, <1>2, <1>3, <1>4, <1>5, <1>6, <1>7, <1>8, <1>9, <1>10, <1>11, <1>12, <1>13,
     <1>14, <1>15, <1>16, <1>17, <1>18, <1>19, <1>20, <1>21, <1>22, <1>23, <1>24, <1>25,
     <1>26, <1>27, <1>28, <1>29, <1>30, <1>31, <1>32 DEF Next, Pass, Environment

\* The operator's removals only remove.
LEMMA RemovalsShrink ==
  /\ DeleteOld => registered' \subseteq registered /\ UNCHANGED owner
  /\ \A e \in Entries : DeregisterUnit(e) => registered' \subseteq registered /\ UNCHANGED owner
  BY DEF DeleteOld, DeregisterUnit, TakeEffect

\* Every step keeps the invariant of the finalizer.
LEMMA FinalizerStep == TypeOK /\ FinalizerInv /\ [Next]_vars => FinalizerInv'
<1> SUFFICES ASSUME TypeOK, FinalizerInv, [Next]_vars PROVE FinalizerInv'
  OBVIOUS
<1>0. Guarded => Guarded'
  BY GuardedStays
<1>1. CASE BeginPass
  BY <1>1, <1>0 DEF BeginPass, FirstStep, CacheRead, Calm, Fault, FinalizerInv,
       Provisioning, apiVars, secretVars, gitlabVars, localVars
<1>2. CASE AddFinalizer
  BY <1>2, <1>0 DEF AddFinalizer, ToDeferred, WriteObject, Applied, Refused, FinalizerInv,
       Provisioning, apiVars, secretVars, gitlabVars, localVars
<1>3. CASE Preflight
  BY <1>3, <1>0 DEF Preflight, ToDeferred, FinalizerInv, Provisioning, apiVars, secretVars,
       gitlabVars, localVars
<1>4. CASE ReadSecret
  BY <1>4, <1>0 DEF ReadSecret, FinalizerInv, Provisioning, apiVars, secretVars, gitlabVars
<1>5. ASSUME NEW e \in Entries, UseOwnToken(e) PROVE FinalizerInv'
  BY <1>5, <1>0 DEF UseOwnToken, Resolve, FinalizerInv, Provisioning, apiVars, secretVars,
       gitlabVars
<1>6. ASSUME NEW e \in Entries, KeepRunner(e) PROVE FinalizerInv'
  BY <1>6, <1>0 DEF KeepRunner, Resolve, FinalizerInv, Provisioning, apiVars, secretVars,
       gitlabVars
<1>7. ASSUME NEW e \in Entries, ReplaceRunner(e) PROVE FinalizerInv'
  BY <1>7, <1>0 DEF ReplaceRunner, FinalizerInv, Provisioning, apiVars, secretVars,
       gitlabVars
<1>8. CASE AuthFails
  BY <1>8, <1>0 DEF AuthFails, ToDeferred, FinalizerInv, Provisioning, apiVars, secretVars,
       gitlabVars, localVars
<1>9. CASE DeleteOld
  BY <1>9, <1>0, RemovalsShrink DEF DeleteOld, FinalizerInv, Provisioning, apiVars,
       secretVars, localVars
<1>10. CASE CreateRunner
  BY <1>10, <1>0 DEF CreateRunner, FinalizerInv, Provisioning, apiVars, secretVars
<1>11. CASE OutOfIds
  BY <1>11, <1>0 DEF OutOfIds, ToDeferred, FinalizerInv, Provisioning, apiVars, secretVars,
       gitlabVars, localVars
<1>12. CASE Persist
  BY <1>12, <1>0 DEF Persist, Resolve, WriteObject, Registration, FinalizerInv,
       Provisioning, apiVars, secretVars, gitlabVars
<1>13. CASE AllResolved
  BY <1>13, <1>0 DEF AllResolved, FinalizerInv, Provisioning, apiVars, secretVars,
       gitlabVars, localVars
<1>14. CASE WriteSecret
  BY <1>14, <1>0 DEF WriteSecret, ToDeferred, DesiredSecret, FinalizerInv, Provisioning,
       apiVars, secretVars, gitlabVars, localVars
<1>15. CASE DeferredStatus
  BY <1>15, <1>0 DEF DeferredStatus, EndPass, WriteObject, FinalizerInv, Provisioning,
       apiVars, secretVars, gitlabVars
<1>16. CASE RecoverTokens
  BY <1>16, <1>0 DEF RecoverTokens, ToDeregister, FinalizerInv, Provisioning, apiVars,
       secretVars, gitlabVars
<1>17. ASSUME NEW e \in Entries, DeregisterUnit(e) PROVE FinalizerInv'
  BY <1>17, <1>0, RemovalsShrink DEF DeregisterUnit, FinalizerInv, Provisioning, apiVars,
       secretVars
<1>18. CASE CountAttempt
  BY <1>18, <1>0 DEF CountAttempt, EndPass, WriteObject, NextAttempt, FinalizerInv,
       Provisioning, apiVars, secretVars, gitlabVars, localVars
<1>19. CASE AllDeregistered
  BY <1>19, <1>0 DEF AllDeregistered, FinalizerInv, Provisioning, apiVars, secretVars,
       gitlabVars, localVars
<1>20. CASE Release
  BY <1>20, <1>0 DEF Release, EndPass, WriteObject, FinalizerInv, Provisioning, apiVars,
       secretVars, gitlabVars
<1>21. ASSUME NEW e \in Entries, EditOptions(e) PROVE FinalizerInv'
  BY <1>21, <1>0 DEF EditOptions, Overwrite, UserUnchanged, FinalizerInv, Provisioning,
       secretVars, gitlabVars, localVars
<1>22. ASSUME NEW e \in Entries, SwitchMode(e) PROVE FinalizerInv'
  BY <1>22, <1>0 DEF SwitchMode, Overwrite, UserUnchanged, FinalizerInv, Provisioning,
       secretVars, gitlabVars, localVars
<1>23. ASSUME NEW e \in Entries, RemoveEntry(e) PROVE FinalizerInv'
  BY <1>23, <1>0 DEF RemoveEntry, Overwrite, UserUnchanged, FinalizerInv, Provisioning,
       secretVars, gitlabVars, localVars
<1>24. CASE DeleteObject
  BY <1>24, <1>0 DEF DeleteObject, Overwrite, UserUnchanged, FinalizerInv, Provisioning,
       secretVars, gitlabVars, localVars
<1>25. CASE DeleteSecret
  BY <1>25, <1>0 DEF DeleteSecret, FinalizerInv, Provisioning, apiVars, gitlabVars,
       passVars, localVars
<1>26. ASSUME NEW i \in Ids, UiDelete(i) PROVE FinalizerInv'
  BY <1>26, <1>0 DEF UiDelete, FinalizerInv, Provisioning, apiVars, secretVars, passVars,
       localVars
<1>27. ASSUME NEW i \in Ids, Revoke(i) PROVE FinalizerInv'
  BY <1>27, <1>0 DEF Revoke, FinalizerInv, Provisioning, apiVars, secretVars, passVars,
       localVars
<1>28. ASSUME NEW i \in Ids, NearExpiry(i) PROVE FinalizerInv'
  BY <1>28, <1>0 DEF NearExpiry, FinalizerInv, Provisioning, apiVars, secretVars, passVars,
       localVars
<1>29. CASE SyncObject
  BY <1>29, <1>0 DEF SyncObject, Guarded, FinalizerInv, Provisioning, secretVars,
       gitlabVars, passVars, localVars
<1>30. CASE SyncSecret
  BY <1>30, <1>0 DEF SyncSecret, FinalizerInv, Provisioning, apiVars, gitlabVars, passVars,
       localVars
<1>31. CASE Crash
  BY <1>31, <1>0 DEF Crash, Guarded, EndPass, FinalizerInv, Provisioning, gitlabVars
<1>32. CASE UNCHANGED vars
  BY <1>32 DEF vars, Guarded, FinalizerInv, Provisioning, apiVars, secretVars, gitlabVars,
       passVars, localVars
<1> QED BY <1>1, <1>2, <1>3, <1>4, <1>5, <1>6, <1>7, <1>8, <1>9, <1>10, <1>11, <1>12, <1>13,
     <1>14, <1>15, <1>16, <1>17, <1>18, <1>19, <1>20, <1>21, <1>22, <1>23, <1>24, <1>25,
     <1>26, <1>27, <1>28, <1>29, <1>30, <1>31, <1>32 DEF Next, Pass, Environment

\* The initial states satisfy it: there is no runner yet.
LEMMA FinalizerInit == Init => FinalizerInv
<1> SUFFICES ASSUME Init PROVE FinalizerInv
  OBVIOUS
<1>1. pc = "idle" /\ registered = {ByoRunner}
  BY DEF Init
<1>2. cache = obj
  BY DEF Init
<1>3. cache.finalizer => Guarded
  BY <1>2 DEF Guarded
<1> QED BY <1>1, <1>3 DEF FinalizerInv, Provisioning

\* Under every fault, an object without the finalizer owns no runner on GitLab.
THEOREM FinalizerBeforeRunner == Spec => []FinalizerGuards
<1>1. FinalizerInv => FinalizerGuards
  BY DEF FinalizerInv, FinalizerGuards, Guarded
<1> QED BY <1>1, FinalizerInit, FinalizerStep, TypeCorrect, PTL DEF Spec

-----------------------------------------------------------------------------
(* Giving up is earned.                                                    *)

\* The count a pass works on is never ahead of the one in the API server.
AttemptsInv ==
  /\ cache.attempts <= obj.attempts
  /\ cacheCurrent => cache.attempts = obj.attempts
  /\ pc \in {"recover", "deregister"} =>
       /\ hand.attempts <= obj.attempts
       /\ handCurrent => hand.attempts = obj.attempts
  /\ GiveUpIsEarned

\* Every step keeps the count of attempts and its copies in order.
LEMMA AttemptsStep == TypeOK /\ AttemptsInv /\ [Next]_vars => AttemptsInv'
<1> SUFFICES ASSUME TypeOK, AttemptsInv, [Next]_vars PROVE AttemptsInv'
  OBVIOUS
<1> USE AttemptsAssumption
<1>0. /\ obj \in Object /\ cache \in Object /\ hand \in Object
      /\ obj.attempts \in Nat /\ cache.attempts \in Nat /\ hand.attempts \in Nat
      /\ obj.attempts <= MaxAttempts /\ cache.attempts <= MaxAttempts /\ hand.attempts <= MaxAttempts
  BY DEF TypeOK, ApiType, PassType, Object
<1>1. CASE BeginPass
  BY <1>1, <1>0 DEF BeginPass, FirstStep, CacheRead, Calm, Fault, Object, AttemptsInv,
       GiveUpIsEarned, apiVars, secretVars, gitlabVars, localVars
<1>2. CASE AddFinalizer
  BY <1>2, <1>0 DEF AddFinalizer, ToDeferred, WriteObject, Applied, Refused, Object,
       AttemptsInv, GiveUpIsEarned, apiVars, secretVars, gitlabVars, localVars
<1>3. CASE Preflight
  BY <1>3, <1>0 DEF Preflight, ToDeferred, Object, AttemptsInv, GiveUpIsEarned, apiVars,
       secretVars, gitlabVars, localVars
<1>4. CASE ReadSecret
  BY <1>4, <1>0 DEF ReadSecret, Object, AttemptsInv, GiveUpIsEarned, apiVars, secretVars,
       gitlabVars
<1>5. ASSUME NEW e \in Entries, UseOwnToken(e) PROVE AttemptsInv'
  BY <1>5, <1>0 DEF UseOwnToken, Resolve, Object, AttemptsInv, GiveUpIsEarned, apiVars,
       secretVars, gitlabVars
<1>6. ASSUME NEW e \in Entries, KeepRunner(e) PROVE AttemptsInv'
  BY <1>6, <1>0 DEF KeepRunner, Resolve, Object, AttemptsInv, GiveUpIsEarned, apiVars,
       secretVars, gitlabVars
<1>7. ASSUME NEW e \in Entries, ReplaceRunner(e) PROVE AttemptsInv'
  BY <1>7, <1>0 DEF ReplaceRunner, Object, AttemptsInv, GiveUpIsEarned, apiVars, secretVars,
       gitlabVars
<1>8. CASE AuthFails
  BY <1>8, <1>0 DEF AuthFails, ToDeferred, Object, AttemptsInv, GiveUpIsEarned, apiVars,
       secretVars, gitlabVars, localVars
<1>9. CASE DeleteOld
  BY <1>9, <1>0 DEF DeleteOld, Object, AttemptsInv, GiveUpIsEarned, apiVars, secretVars,
       localVars
<1>10. CASE CreateRunner
  BY <1>10, <1>0 DEF CreateRunner, Object, AttemptsInv, GiveUpIsEarned, apiVars, secretVars
<1>11. CASE OutOfIds
  BY <1>11, <1>0 DEF OutOfIds, ToDeferred, Object, AttemptsInv, GiveUpIsEarned, apiVars,
       secretVars, gitlabVars, localVars
<1>12. CASE Persist
  <2>1. obj' = obj \/ StatusWritten(obj, obj')
    BY <1>12 DEF Persist, WriteObject, StatusWritten, apiVars
  <2>2. obj'.attempts = obj.attempts
    BY <1>0, <2>1, StatusWrite
  <2>3. /\ cache' = cache /\ (cacheCurrent' = FALSE \/ cacheCurrent' = cacheCurrent)
        /\ pc' \notin {"recover", "deregister", "release"}
    BY <1>12 DEF Persist, Resolve, WriteObject, apiVars
  <2> QED BY <1>0, <2>2, <2>3 DEF AttemptsInv, GiveUpIsEarned
<1>13. CASE AllResolved
  BY <1>13, <1>0 DEF AllResolved, Object, AttemptsInv, GiveUpIsEarned, apiVars, secretVars,
       gitlabVars, localVars
<1>14. CASE WriteSecret
  BY <1>14, <1>0 DEF WriteSecret, ToDeferred, DesiredSecret, Object, AttemptsInv,
       GiveUpIsEarned, apiVars, secretVars, gitlabVars, localVars
<1>15. CASE DeferredStatus
  <2>1. obj' = obj \/ StatusWritten(obj, obj')
    BY <1>15 DEF DeferredStatus, WriteObject, StatusWritten, apiVars
  <2>2. obj'.attempts = obj.attempts
    BY <1>0, <2>1, StatusWrite
  <2>3. /\ cache' = cache /\ (cacheCurrent' = FALSE \/ cacheCurrent' = cacheCurrent)
        /\ pc' = "idle"
    BY <1>15 DEF DeferredStatus, EndPass, WriteObject, apiVars
  <2> QED BY <1>0, <2>2, <2>3 DEF AttemptsInv, GiveUpIsEarned
<1>16. CASE RecoverTokens
  BY <1>16, <1>0 DEF RecoverTokens, ToDeregister, Object, AttemptsInv, GiveUpIsEarned,
       apiVars, secretVars, gitlabVars
<1>17. ASSUME NEW e \in Entries, DeregisterUnit(e) PROVE AttemptsInv'
  BY <1>17, <1>0 DEF DeregisterUnit, Object, AttemptsInv, GiveUpIsEarned, apiVars,
       secretVars
<1>18. CASE CountAttempt
  <2>1. /\ hand.attempts <= obj.attempts
        /\ handCurrent => hand.attempts = obj.attempts
    BY <1>18 DEF CountAttempt, AttemptsInv
  <2>2. NextAttempt \in Nat /\ NextAttempt >= hand.attempts /\ NextAttempt <= hand.attempts + 1
    BY <1>0 DEF NextAttempt
  <2>3. /\ cache' = cache
        /\ \/ handCurrent /\ obj' = [obj EXCEPT !.attempts = NextAttempt] /\ cacheCurrent' = FALSE
           \/ obj' = obj /\ cacheCurrent' = cacheCurrent
    BY <1>18 DEF CountAttempt, Applied, Refused, WriteObject, apiVars
  <2>4. obj'.attempts \in Nat /\ obj'.attempts >= obj.attempts
    <3>1. CASE obj' = [obj EXCEPT !.attempts = NextAttempt]
      <4>1. obj'.attempts = NextAttempt
        BY <1>0, <3>1 DEF Object
      <4> QED BY <1>0, <2>1, <2>2, <2>3, <4>1
    <3>2. CASE obj' = obj
      BY <1>0, <3>2
    <3> QED BY <2>3, <3>1, <3>2
  <2>5. \/ pc' = "idle"
        \/ pc' = "release" /\ NextAttempt >= MaxAttempts
    BY <1>18, <2>2 DEF CountAttempt, EndPass
  <2>6. pc' = "release" => obj'.attempts >= MaxAttempts - 1
    BY <1>0, <2>1, <2>2, <2>4, <2>5
  <2>7. cache'.attempts <= obj'.attempts /\ (cacheCurrent' => cache'.attempts = obj'.attempts)
    BY <1>0, <2>3, <2>4 DEF AttemptsInv
  <2> QED BY <2>5, <2>6, <2>7 DEF AttemptsInv, GiveUpIsEarned
<1>19. CASE AllDeregistered
  BY <1>19, <1>0 DEF AllDeregistered, Object, AttemptsInv, GiveUpIsEarned, apiVars,
       secretVars, gitlabVars, localVars
<1>20. CASE Release
  <2>1. obj'.attempts = obj.attempts
    BY <1>0, <1>20 DEF Release, WriteObject, apiVars, Object
  <2>2. /\ cache' = cache /\ (cacheCurrent' = FALSE \/ cacheCurrent' = cacheCurrent)
        /\ pc' = "idle"
    BY <1>20 DEF Release, EndPass, WriteObject, apiVars
  <2> QED BY <1>0, <2>1, <2>2 DEF AttemptsInv, GiveUpIsEarned
<1>21. ASSUME NEW e \in Entries, EditOptions(e) PROVE AttemptsInv'
  BY <1>21, <1>0 DEF EditOptions, Overwrite, UserUnchanged, Object, AttemptsInv,
       GiveUpIsEarned, secretVars, gitlabVars, localVars
<1>22. ASSUME NEW e \in Entries, SwitchMode(e) PROVE AttemptsInv'
  BY <1>22, <1>0 DEF SwitchMode, Overwrite, UserUnchanged, Object, AttemptsInv,
       GiveUpIsEarned, secretVars, gitlabVars, localVars
<1>23. ASSUME NEW e \in Entries, RemoveEntry(e) PROVE AttemptsInv'
  BY <1>23, <1>0 DEF RemoveEntry, Overwrite, UserUnchanged, Object, AttemptsInv,
       GiveUpIsEarned, secretVars, gitlabVars, localVars
<1>24. CASE DeleteObject
  BY <1>24, <1>0 DEF DeleteObject, Overwrite, UserUnchanged, Object, AttemptsInv,
       GiveUpIsEarned, secretVars, gitlabVars, localVars
<1>25. CASE DeleteSecret
  BY <1>25, <1>0 DEF DeleteSecret, Object, AttemptsInv, GiveUpIsEarned, apiVars, gitlabVars,
       passVars, localVars
<1>26. ASSUME NEW i \in Ids, UiDelete(i) PROVE AttemptsInv'
  BY <1>26, <1>0 DEF UiDelete, Object, AttemptsInv, GiveUpIsEarned, apiVars, secretVars,
       passVars, localVars
<1>27. ASSUME NEW i \in Ids, Revoke(i) PROVE AttemptsInv'
  BY <1>27, <1>0 DEF Revoke, Object, AttemptsInv, GiveUpIsEarned, apiVars, secretVars,
       passVars, localVars
<1>28. ASSUME NEW i \in Ids, NearExpiry(i) PROVE AttemptsInv'
  BY <1>28, <1>0 DEF NearExpiry, Object, AttemptsInv, GiveUpIsEarned, apiVars, secretVars,
       passVars, localVars
<1>29. CASE SyncObject
  BY <1>29, <1>0 DEF SyncObject, Object, AttemptsInv, GiveUpIsEarned, secretVars,
       gitlabVars, passVars, localVars
<1>30. CASE SyncSecret
  BY <1>30, <1>0 DEF SyncSecret, Object, AttemptsInv, GiveUpIsEarned, apiVars, gitlabVars,
       passVars, localVars
<1>31. CASE Crash
  BY <1>31, <1>0 DEF Crash, EndPass, Object, AttemptsInv, GiveUpIsEarned, gitlabVars
<1>32. CASE UNCHANGED vars
  BY <1>32 DEF vars, Object, AttemptsInv, GiveUpIsEarned, apiVars, secretVars, gitlabVars,
       passVars, localVars
<1> QED BY <1>1, <1>2, <1>3, <1>4, <1>5, <1>6, <1>7, <1>8, <1>9, <1>10, <1>11, <1>12, <1>13,
     <1>14, <1>15, <1>16, <1>17, <1>18, <1>19, <1>20, <1>21, <1>22, <1>23, <1>24, <1>25,
     <1>26, <1>27, <1>28, <1>29, <1>30, <1>31, <1>32 DEF Next, Pass, Environment

\* Under every fault, the operator gives up only after MaxAttempts counted attempts.
THEOREM GivingUpIsEarned == Spec => []GiveUpIsEarned
<1>1. Init => AttemptsInv
  <2> SUFFICES ASSUME Init PROVE AttemptsInv
    OBVIOUS
  <2>1. pc = "idle" /\ cache = obj
    BY DEF Init
  <2>2. obj.attempts \in Nat
    BY InitType, AttemptsAssumption DEF TypeOK, ApiType, Object
  <2> QED BY <2>1, <2>2 DEF AttemptsInv, GiveUpIsEarned
<1>2. AttemptsInv => GiveUpIsEarned
  BY DEF AttemptsInv
<1> QED BY <1>1, <1>2, AttemptsStep, TypeCorrect, PTL DEF Spec

-----------------------------------------------------------------------------
(* The user's own runner.                                                  *)

\* The specs of a unit in the copies of the object.
Modes(e) == {obj.spec[e], cache.spec[e], hand.spec[e]}

\* A unit is managed in one copy and the user's own in another only if its mode
\* was switched.
OneMode == \A e \in Entries : BringYourOwn \in Modes(e) => Modes(e) \cap Opts = {}

\* The token of a managed unit is never the user's.
OwnTokens ==
  \A e \in Entries : Modes(e) \cap Opts # {} =>
    ByoRunner \notin {secret.tokens[e], secretCache.tokens[e], found[e], tokens[e]}

ByoInv ==
  /\ OneMode
  /\ OwnTokens
  /\ pc \in {"ensure", "deleteOld", "create", "persist"} => \A e \in todo : hand.spec[e] # Absent
  /\ pc = "deregister" => \A e \in todo : hand.spec[e] \in Opts
  /\ ByoUntouched

\* Units that drop a mode without taking another stay in one mode.
LEMMA FewerModes ==
  ASSUME OneMode, \A e \in Entries : Modes(e)' \subseteq Modes(e) \cup {Absent}
  PROVE  OneMode'
<1> SUFFICES ASSUME NEW e \in Entries, BringYourOwn \in Modes(e)'
             PROVE  Modes(e)' \cap Opts = {}
  BY DEF OneMode
<1>1. BringYourOwn \in Modes(e)
  BY SentinelsAssumption
<1>2. Modes(e) \cap Opts = {}
  BY <1>1 DEF OneMode
<1> QED BY <1>2, SentinelsAssumption

\* When a pass ends and changes nothing but the object's status or its life, the
\* invariant holds on.
LEMMA DroppedPass ==
  ASSUME ByoInv, obj'.spec = obj.spec, UNCHANGED <<cache, secret, secretCache, registered>>,
         pc' = "idle", hand' = NoObject, found' = NoTokens, tokens' = NoTokens
  PROVE  ByoInv'
<1>1. \A e \in Entries : Modes(e)' \subseteq Modes(e) \cup {Absent}
  BY DEF NoObject, Modes
<1>2. OneMode'
  BY <1>1, FewerModes DEF ByoInv
<1>3. OwnTokens'
  BY <1>1, SentinelsAssumption DEF ByoInv, OwnTokens, NoTokens
<1> QED BY <1>2, <1>3 DEF ByoInv, ByoUntouched

\* Unless a unit changes its mode, every step keeps own tokens apart from runners.
LEMMA ByoStep ==
  ASSUME "modeSwitch" \notin Events
  PROVE  TypeOK /\ ByoInv /\ [Next]_vars => ByoInv'
<1> SUFFICES ASSUME TypeOK, ByoInv, [Next]_vars PROVE ByoInv'
  OBVIOUS
<1> USE SentinelsAssumption
<1>0. obj \in Object /\ cache \in Object /\ hand \in Object
  BY DEF TypeOK, ApiType, PassType
<1> DEFINE Others == /\ pc' \in {"ensure", "deleteOld", "create", "persist"} =>
                          \A e \in todo' : hand'.spec[e] # Absent
                     /\ pc' = "deregister" => \A e \in todo' : hand'.spec[e] \in Opts
<1>1. CASE BeginPass
  BY <1>1 DEF BeginPass, FirstStep, CacheRead, Calm, Fault, IsManaged, ByoInv, OneMode,
       OwnTokens, Modes, ByoUntouched, TypeOK, ApiType, PassType, Object, apiVars,
       secretVars, gitlabVars, localVars
<1>2. CASE AddFinalizer
  BY <1>2 DEF AddFinalizer, ToDeferred, WriteObject, Applied, Refused, IsManaged, ByoInv,
       OneMode, OwnTokens, Modes, ByoUntouched, TypeOK, ApiType, PassType, Object, apiVars,
       secretVars, gitlabVars, localVars
<1>3. CASE Preflight
  BY <1>3 DEF Preflight, ToDeferred, IsManaged, ByoInv, OneMode, OwnTokens, Modes,
       ByoUntouched, TypeOK, ApiType, PassType, Object, apiVars, secretVars, gitlabVars,
       localVars
<1>4. CASE ReadSecret
  BY <1>4 DEF ReadSecret, IsManaged, ByoInv, OneMode, OwnTokens, Modes, ByoUntouched,
       TypeOK, ApiType, PassType, Object, apiVars, secretVars, gitlabVars
<1>5. ASSUME NEW e \in Entries, UseOwnToken(e) PROVE ByoInv'
  <2>1. hand.spec[e] \notin Opts /\ hand.spec[e] # Absent
    BY <1>5 DEF UseOwnToken, IsManaged, ByoInv
  <2>2. hand.spec[e] = BringYourOwn
    BY <2>1 DEF TypeOK, PassType, Object, Specs
  <2>3. Modes(e) \cap Opts = {}
    BY <2>2 DEF ByoInv, OneMode, Modes
  <2>4. UNCHANGED <<obj, cache, hand, secret, secretCache, found, registered>>
    BY <1>5 DEF UseOwnToken, apiVars, secretVars, gitlabVars
  <2>5. OneMode' /\ ByoUntouched'
    BY <2>4 DEF ByoInv, OneMode, Modes, ByoUntouched
  <2>6. \A f \in Entries \ {e} : tokens'[f] = tokens[f]
    BY <1>5 DEF UseOwnToken, Resolve, TypeOK, PassType, TokenMap
  <2>7. OwnTokens'
    BY <2>3, <2>4, <2>6 DEF ByoInv, OwnTokens, Modes
  <2>8. Others
    BY <1>5 DEF UseOwnToken, Resolve, ByoInv
  <2> QED BY <2>5, <2>7, <2>8 DEF ByoInv
<1>6. ASSUME NEW e \in Entries, KeepRunner(e) PROVE ByoInv'
  BY <1>6 DEF KeepRunner, Resolve, IsManaged, ByoInv, OneMode, OwnTokens, Modes,
       ByoUntouched, TypeOK, ApiType, PassType, Object, apiVars, secretVars, gitlabVars
<1>7. ASSUME NEW e \in Entries, ReplaceRunner(e) PROVE ByoInv'
  BY <1>7 DEF ReplaceRunner, IsManaged, ByoInv, OneMode, OwnTokens, Modes, ByoUntouched,
       TypeOK, ApiType, PassType, Object, apiVars, secretVars, gitlabVars
<1>8. CASE AuthFails
  BY <1>8 DEF AuthFails, ToDeferred, IsManaged, ByoInv, OneMode, OwnTokens, Modes,
       ByoUntouched, TypeOK, ApiType, PassType, Object, apiVars, secretVars, gitlabVars,
       localVars
<1>9. CASE DeleteOld
  <2>1. unit \in Entries /\ hand.spec[unit] \in Opts
    BY <1>9 DEF DeleteOld, TypeOK, PassType
  <2>2. found[unit] \in Runners \cup {None} /\ hand.id[unit] \in Ids \cup {None}
    BY <2>1 DEF TypeOK, PassType, TokenMap, Object
  <2>3. found[unit] # ByoRunner /\ hand.id[unit] # ByoRunner
    BY <2>1, <2>2 DEF ByoInv, OwnTokens, Modes
  <2>4. PICK r \in Deregister(found[unit], hand.id[unit]) : registered' = registered \ r.gone
    BY <1>9 DEF DeleteOld, TakeEffect
  <2>5. r.gone \subseteq {found[unit], hand.id[unit]}
    BY <2>2, DeregisterType
  <2>6. ByoUntouched'
    BY <2>3, <2>4, <2>5 DEF ByoInv, ByoUntouched
  <2>7. UNCHANGED <<obj, cache, hand, secret, secretCache, found, tokens>>
    BY <1>9 DEF DeleteOld, apiVars, secretVars, localVars
  <2>8. OneMode' /\ OwnTokens'
    BY <2>7 DEF ByoInv, OneMode, Modes, OwnTokens
  <2>9. Others
    BY <1>9 DEF DeleteOld, localVars, ByoInv
  <2> QED BY <2>6, <2>8, <2>9 DEF ByoInv
<1>10. CASE CreateRunner
  BY <1>10 DEF CreateRunner, IsManaged, ByoInv, OneMode, OwnTokens, Modes, ByoUntouched,
       TypeOK, ApiType, PassType, Object, apiVars, secretVars
<1>11. CASE OutOfIds
  BY <1>11 DEF OutOfIds, ToDeferred, IsManaged, ByoInv, OneMode, OwnTokens, Modes,
       ByoUntouched, TypeOK, ApiType, PassType, Object, apiVars, secretVars, gitlabVars,
       localVars
<1>12. CASE Persist
  <2>1. unit \in Entries /\ created \in Ids
    BY <1>12 DEF Persist, TypeOK, PassType
  <2>2. obj'.spec = obj.spec /\ hand'.spec = hand.spec
    <3>1. obj' = obj \/ StatusWritten(obj, obj')
      BY <1>12 DEF Persist, WriteObject, StatusWritten, apiVars
    <3>2. hand'.spec = hand.spec
      BY <1>0, <1>12 DEF Persist, Registration, Object
    <3> QED BY <1>0, <3>1, <3>2, StatusWrite
  <2>3. UNCHANGED <<cache, secret, secretCache, found, registered>>
    BY <1>12 DEF Persist, WriteObject, apiVars, secretVars, gitlabVars
  <2>4. OneMode' /\ ByoUntouched'
    BY <2>2, <2>3 DEF ByoInv, OneMode, Modes, ByoUntouched
  <2>5. \A f \in Entries : tokens'[f] = tokens[f] \/ tokens'[f] = created
    BY <1>12 DEF Persist, Resolve, TypeOK, PassType, TokenMap
  <2>6. OwnTokens'
    BY <2>1, <2>2, <2>3, <2>5 DEF ByoInv, OwnTokens, Modes
  <2>7. todo' \subseteq todo /\ pc' \in {"ensure", "deferred"}
    BY <1>12 DEF Persist, Resolve
  <2>8. pc = "persist"
    BY <1>12 DEF Persist
  <2>9. Others
    BY <2>2, <2>7, <2>8 DEF ByoInv
  <2> QED BY <2>4, <2>6, <2>9 DEF ByoInv
<1>13. CASE AllResolved
  BY <1>13 DEF AllResolved, IsManaged, ByoInv, OneMode, OwnTokens, Modes, ByoUntouched,
       TypeOK, ApiType, PassType, Object, apiVars, secretVars, gitlabVars, localVars
<1>14. CASE WriteSecret
  BY <1>14 DEF WriteSecret, ToDeferred, DesiredSecret, IsManaged, ByoInv, OneMode,
       OwnTokens, Modes, ByoUntouched, TypeOK, ApiType, PassType, Object, apiVars,
       secretVars, gitlabVars, localVars
<1>15. CASE DeferredStatus
  <2>1. obj'.spec = obj.spec
    <3>1. obj' = obj \/ StatusWritten(obj, obj')
      BY <1>15 DEF DeferredStatus, WriteObject, StatusWritten, apiVars
    <3> QED BY <1>0, <3>1, StatusWrite
  <2>2. /\ UNCHANGED <<cache, secret, secretCache, registered>>
        /\ pc' = "idle" /\ hand' = NoObject /\ found' = NoTokens /\ tokens' = NoTokens
    BY <1>15 DEF DeferredStatus, EndPass, WriteObject, apiVars, secretVars, gitlabVars
  <2> QED BY <2>1, <2>2, DroppedPass
<1>16. CASE RecoverTokens
  BY <1>16, SentinelsAssumption DEF RecoverTokens, NoTokens, ToDeregister, IsManaged, ByoInv, OneMode, OwnTokens, Modes,
       ByoUntouched, TypeOK, ApiType, PassType, Object, apiVars, secretVars, gitlabVars
<1>17. ASSUME NEW e \in Entries, DeregisterUnit(e) PROVE ByoInv'
  <2>1. hand.spec[e] \in Opts
    BY <1>17 DEF DeregisterUnit, ByoInv
  <2>2. found[e] \in Runners \cup {None} /\ hand.id[e] \in Ids \cup {None}
    BY DEF TypeOK, PassType, TokenMap, Object
  <2>3. found[e] # ByoRunner /\ hand.id[e] # ByoRunner
    BY <2>1, <2>2 DEF ByoInv, OwnTokens, Modes
  <2>4. PICK r \in Deregister(found[e], hand.id[e]) : registered' = registered \ r.gone
    BY <1>17 DEF DeregisterUnit, TakeEffect
  <2>5. r.gone \subseteq {found[e], hand.id[e]}
    BY <2>2, DeregisterType
  <2>6. ByoUntouched'
    BY <2>3, <2>4, <2>5 DEF ByoInv, ByoUntouched
  <2>7. UNCHANGED <<obj, cache, hand, secret, secretCache, found, tokens>>
    BY <1>17 DEF DeregisterUnit, apiVars, secretVars
  <2>8. OneMode' /\ OwnTokens'
    BY <2>7 DEF ByoInv, OneMode, Modes, OwnTokens
  <2>9. Others
    BY <1>17 DEF DeregisterUnit, ByoInv
  <2> QED BY <2>6, <2>8, <2>9 DEF ByoInv
<1>18. CASE CountAttempt
  <2>1. obj'.spec = obj.spec
    BY <1>0, <1>18 DEF CountAttempt, WriteObject, apiVars, Object
  <2>2. UNCHANGED <<cache, secret, secretCache, registered>>
    BY <1>18 DEF CountAttempt, WriteObject, apiVars, secretVars, gitlabVars
  <2>3. CASE EndPass
    BY <2>1, <2>2, <2>3, DroppedPass DEF EndPass
  <2>4. CASE ~EndPass
    <3>1. pc' = "release" /\ found' = found /\ tokens' = tokens
      BY <1>18, <2>4 DEF CountAttempt, localVars
    <3>2. hand'.spec = hand.spec
      BY <1>0, <1>18, <2>4 DEF CountAttempt, Object
    <3> QED BY <2>1, <2>2, <3>1, <3>2 DEF ByoInv, OneMode, Modes, OwnTokens, ByoUntouched
  <2> QED BY <2>3, <2>4
<1>19. CASE AllDeregistered
  BY <1>19 DEF AllDeregistered, IsManaged, ByoInv, OneMode, OwnTokens, Modes, ByoUntouched,
       TypeOK, ApiType, PassType, Object, apiVars, secretVars, gitlabVars, localVars
<1>20. CASE Release
  <2>1. obj'.spec = obj.spec
    BY <1>0, <1>20 DEF Release, WriteObject, apiVars, Object
  <2>2. /\ UNCHANGED <<cache, secret, secretCache, registered>>
        /\ pc' = "idle" /\ hand' = NoObject /\ found' = NoTokens /\ tokens' = NoTokens
    BY <1>20 DEF Release, EndPass, WriteObject, apiVars, secretVars, gitlabVars
  <2> QED BY <2>1, <2>2, DroppedPass
<1>21. ASSUME NEW e \in Entries, EditOptions(e) PROVE ByoInv'
  BY <1>21 DEF EditOptions, Overwrite, UserUnchanged, IsManaged, ByoInv, OneMode, OwnTokens,
       Modes, ByoUntouched, TypeOK, ApiType, PassType, Object, secretVars, gitlabVars,
       localVars
<1>22. ASSUME NEW e \in Entries, SwitchMode(e) PROVE ByoInv'
  BY <1>22 DEF SwitchMode, Fault
<1>23. ASSUME NEW e \in Entries, RemoveEntry(e) PROVE ByoInv'
  <2>1. /\ \A f \in Entries \ {e} : obj'.spec[f] = obj.spec[f]
        /\ obj'.spec[e] = Absent
    BY <1>0, <1>23 DEF RemoveEntry, Overwrite, Object
  <2>2. UNCHANGED <<cache, hand, secret, secretCache, found, tokens, registered, pc, todo>>
    BY <1>23 DEF RemoveEntry, Overwrite, UserUnchanged, secretVars, gitlabVars, localVars
  <2>3. \A f \in Entries : Modes(f)' \subseteq Modes(f) \cup {Absent}
    BY <2>1, <2>2 DEF Modes
  <2>4. OneMode'
    BY <2>3, FewerModes DEF ByoInv
  <2>5. OwnTokens'
    BY <2>2, <2>3, SentinelsAssumption DEF ByoInv, OwnTokens
  <2> QED BY <2>2, <2>4, <2>5 DEF ByoInv, ByoUntouched
<1>24. CASE DeleteObject
  BY <1>24 DEF DeleteObject, Overwrite, UserUnchanged, IsManaged, ByoInv, OneMode,
       OwnTokens, Modes, ByoUntouched, TypeOK, ApiType, PassType, Object, secretVars,
       gitlabVars, localVars
<1>25. CASE DeleteSecret
  BY <1>25 DEF DeleteSecret, IsManaged, ByoInv, OneMode, OwnTokens, Modes, ByoUntouched,
       TypeOK, ApiType, PassType, Object, NoTokens, NoSecret, apiVars, gitlabVars, passVars,
       localVars
<1>26. ASSUME NEW i \in Ids, UiDelete(i) PROVE ByoInv'
  BY <1>26 DEF UiDelete, IsManaged, ByoInv, OneMode, OwnTokens, Modes, ByoUntouched, TypeOK,
       ApiType, PassType, Object, apiVars, secretVars, passVars, localVars
<1>27. ASSUME NEW i \in Ids, Revoke(i) PROVE ByoInv'
  BY <1>27 DEF Revoke, IsManaged, ByoInv, OneMode, OwnTokens, Modes, ByoUntouched, TypeOK,
       ApiType, PassType, Object, apiVars, secretVars, passVars, localVars
<1>28. ASSUME NEW i \in Ids, NearExpiry(i) PROVE ByoInv'
  BY <1>28 DEF NearExpiry, IsManaged, ByoInv, OneMode, OwnTokens, Modes, ByoUntouched,
       TypeOK, ApiType, PassType, Object, apiVars, secretVars, passVars, localVars
<1>29. CASE SyncObject
  BY <1>29 DEF SyncObject, IsManaged, ByoInv, OneMode, OwnTokens, Modes, ByoUntouched,
       TypeOK, ApiType, PassType, Object, secretVars, gitlabVars, passVars, localVars
<1>30. CASE SyncSecret
  BY <1>30 DEF SyncSecret, IsManaged, ByoInv, OneMode, OwnTokens, Modes, ByoUntouched,
       TypeOK, ApiType, PassType, Object, apiVars, gitlabVars, passVars, localVars
<1>31. CASE Crash
  <2>1. \A e \in Entries : Modes(e)' \subseteq Modes(e) \cup {Absent}
    BY <1>31 DEF Crash, EndPass, NoObject, Modes
  <2>2. OneMode'
    BY <2>1, FewerModes DEF ByoInv
  <2>3. /\ found' = NoTokens /\ tokens' = NoTokens /\ secret' = secret /\ secretCache' = secret
        /\ pc' = "idle" /\ registered' = registered
    BY <1>31 DEF Crash, EndPass, gitlabVars
  <2>4. OwnTokens'
    BY <2>1, <2>3 DEF ByoInv, OwnTokens, NoTokens
  <2> QED BY <2>2, <2>3, <2>4 DEF ByoInv, ByoUntouched
<1>32. CASE UNCHANGED vars
  BY <1>32 DEF vars, IsManaged, ByoInv, OneMode, OwnTokens, Modes, ByoUntouched, TypeOK,
       ApiType, PassType, Object, apiVars, secretVars, gitlabVars, passVars, localVars
<1> QED BY <1>1, <1>2, <1>3, <1>4, <1>5, <1>6, <1>7, <1>8, <1>9, <1>10, <1>11, <1>12, <1>13,
     <1>14, <1>15, <1>16, <1>17, <1>18, <1>19, <1>20, <1>21, <1>22, <1>23, <1>24, <1>25,
     <1>26, <1>27, <1>28, <1>29, <1>30, <1>31, <1>32 DEF Next, Pass, Environment

\* Unless a unit's mode is switched, the operator never removes a runner that
\* the user brought: not after a crash, nor from a stale cache, nor at deletion.
THEOREM ByoSafe == "modeSwitch" \notin Events => (Spec => []ByoUntouched)
<1> SUFFICES ASSUME "modeSwitch" \notin Events PROVE Spec => []ByoUntouched
  OBVIOUS
<1>1. Init => ByoInv
  <2> SUFFICES ASSUME Init PROVE ByoInv
    OBVIOUS
  <2>1. cache = obj /\ hand = NoObject /\ pc = "idle" /\ ByoRunner \in registered
    BY DEF Init
  <2>2. secret = NoSecret /\ secretCache = NoSecret /\ found = NoTokens /\ tokens = NoTokens
    BY DEF Init
  <2>3. \A e \in Entries : hand.spec[e] = Absent
    BY <2>1 DEF NoObject
  <2>4. \A e \in Entries :
          ByoRunner \notin {secret.tokens[e], secretCache.tokens[e], found[e], tokens[e]}
    BY <2>2, SentinelsAssumption DEF NoSecret, NoTokens
  <2>5. OneMode
    BY <2>1, <2>3, SentinelsAssumption DEF OneMode, Modes
  <2>6. OwnTokens
    BY <2>4 DEF OwnTokens
  <2> QED BY <2>1, <2>5, <2>6 DEF ByoInv, ByoUntouched
<1>2. ByoInv => ByoUntouched
  BY DEF ByoInv
<1> QED BY <1>1, <1>2, ByoStep, TypeCorrect, PTL DEF Spec
=============================================================================
