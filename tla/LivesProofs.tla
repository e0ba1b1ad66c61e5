----------------------------- MODULE LivesProofs -----------------------------
(***************************************************************************)
(* That an object comes to have children of its own although it shares the *)
(* name with those before it, and that the user's runner survives, proved  *)
(* for all numbers of lives, runners, attempts and faults.                 *)
(*                                                                         *)
(* A token that an earlier object left in the Secret is the danger.  While *)
(* nothing fails a managed object that knows a runner finds its own token  *)
(* in the Secret or none, except between the step that replaces the runner *)
(* and the one that writes the Secret, which is why that token is the one  *)
(* to deregister by.                                                       *)
(*                                                                         *)
(* What the names cost is proved by an account: runners that are lost and  *)
(* runners that will be, against faults and lives.                         *)
(***************************************************************************)
EXTENDS Lives, TLAPS, FiniteSetTheorems

-----------------------------------------------------------------------------
(* Types.                                                                  *)

\* A pass works on an object that there is or was, and persists a runner it created.
TypeInv ==
  /\ TypeOK
  /\ pc # "idle" => hand.uid \in 1 .. lives
  /\ pc = "persist" => token \in Ids

\* The sentinels are no runners.
LEMMA Sentinels == None \notin Ids /\ ByoRunner \notin Ids /\ None \notin Runners
  BY IdsAssumption DEF Runners

\* The constants of the types are members of them.
LEMMA Empties == NoObject \in Object /\ NoChild \in Child /\ NoObject.uid = 0 /\ NoObject.id = None
                 /\ NoObject.managed = FALSE /\ NoChild.owner = 0 /\ NoChild.token = None
  BY BoundsAssumption DEF NoObject, Object, NoChild, Child

\* An object that another one of the same name follows is another.
LEMMA NewObjectType ==
  ASSUME TypeInv, lives < MaxLives, NEW managed \in BOOLEAN
  PROVE  /\ NewObject(managed) \in Object /\ NewObject(managed).uid = lives + 1
         /\ NewObject(managed).id = None /\ NewObject(managed).managed = managed
         /\ lives + 1 \in Uids /\ lives + 1 \in 0 .. MaxLives
<1>1. lives + 1 \in Uids /\ lives + 1 \in 0 .. MaxLives
  BY BoundsAssumption DEF TypeInv, TypeOK, Uids
<1> QED
  BY <1>1, Empties DEF NewObject, Object

\* A write of a child.
LEMMA WriteType ==
  ASSUME TypeInv, NEW k \in Kinds, NEW value \in Child, Write(k, value)
  PROVE  /\ child' \in [Kinds -> Child] /\ behind' \in SUBSET Kinds
         /\ child'[k] = value /\ \A j \in Kinds \ {k} : child'[j] = child[j]
  BY DEF TypeInv, TypeOK, Write

\* A step is calm, or one fault more.
LEMMA FaultsType ==
  ASSUME TypeInv, Calm \/ \E kind \in {"staleCache", "midPassDelete", "crash", "kubeError"} : Fault(kind)
  PROVE  faults' \in 0 .. MaxFaults /\ (faults' = 0 => faults = 0 /\ Calm)
  BY BoundsAssumption DEF TypeInv, TypeOK, Calm, Fault

\* A read that is behind is a fault.
LEMMA ReadFaults == ASSUME NEW k, CacheRead(k) PROVE Calm \/ Fault("staleCache")
  BY DEF CacheRead

\* What ends a pass.
LEMMA EndType ==
  ASSUME TypeInv, Again \/ EndPass
  PROVE  pc' = "idle" /\ hand' = NoObject /\ found' = None /\ token' = None
  BY DEF Again, EndPass

\* Every step is calm or a fault.
LEMMA StepFaults ==
  ASSUME TypeInv, [Next]_vars
  PROVE  faults' \in 0 .. MaxFaults /\ (faults' = 0 => faults = 0 /\ Calm)
<1>1. CASE Calm \/ \E kind \in {"staleCache", "midPassDelete", "crash", "kubeError"} : Fault(kind)
  BY <1>1, FaultsType
<1>2. \/ Calm \/ UNCHANGED vars \/ Fault("staleCache") \/ Fault("midPassDelete") \/ Fault("crash")
      \/ Fault("kubeError")
  BY DEF Next, Pass, BeginPass, AddFinalizer, EnsureRunner, ReplaceRunner, Persist, CreateAccount,
         CreateBinding, CreateIfMissing, WriteSecret, Deregister, Release, CreateObject, DeleteObject, Crash,
         Collect, Sync, CacheRead
<1>3. UNCHANGED vars => Calm
  BY DEF vars, Calm
<1> QED
  BY <1>1, <1>2, <1>3

\* The initial states have the types.
LEMMA TypeInit == Init => TypeInv
<1> SUFFICES ASSUME Init PROVE TypeInv
  OBVIOUS
<1>1. child \in [Kinds -> Child] /\ obj \in Object /\ hand \in Object
  BY Empties DEF Init
<1>2. lives \in 0 .. MaxLives /\ faults \in 0 .. MaxFaults /\ obj.uid = 0 /\ registered \in SUBSET Runners
  BY Empties, BoundsAssumption DEF Init, Runners
<1> QED
  BY <1>1, <1>2 DEF Init, TypeInv, TypeOK

\* Every step keeps the types.
LEMMA TypeStep == TypeInv /\ [Next]_vars => TypeInv'
<1> SUFFICES ASSUME TypeInv, [Next]_vars PROVE TypeInv'
  OBVIOUS
<1> USE StepFaults DEF TypeInv, TypeOK, passVars, childVars
<1>0. "secret" \in Kinds /\ "account" \in Kinds /\ "binding" \in Kinds
  BY DEF Kinds
<1>1. CASE BeginPass
  <2>1. obj.uid # 0 => obj.uid \in Uids /\ obj.uid \in 1 .. lives
    BY DEF Object
  <2> QED
    BY <1>1, <2>1 DEF BeginPass
<1>2. CASE AddFinalizer
  <2>1. obj' \in Object /\ obj'.uid = obj.uid
    BY <1>2 DEF AddFinalizer, Object
  <2> QED
    BY <1>2, <2>1, EndType, Empties DEF AddFinalizer, Again
<1>3. CASE EnsureRunner
  <2>1. cache["secret"].token \in Runners \cup {None}
    BY <1>0 DEF Child
  <2>2. NoRunnerNeeded => cache["secret"].token # None
    BY Sentinels DEF NoRunnerNeeded
  <2> QED
    BY <1>3, <2>1, <2>2, Sentinels DEF EnsureRunner, Runners
<1>4. CASE ReplaceRunner
  <2>1. PICK i \in Ids : /\ token' = i
                         /\ registered' = (registered \ (IF hand.id = None THEN {} ELSE Removed(found, hand.id)))
                                            \cup {i}
    BY <1>4 DEF ReplaceRunner, Unused
  <2> QED
    BY <1>4, <2>1, Sentinels DEF ReplaceRunner, Runners
<1>5. CASE Persist
  <2>1. [hand EXCEPT !.id = token] \in Object /\ [hand EXCEPT !.id = token].uid = hand.uid
        /\ [hand EXCEPT !.id = token].id = token
    BY <1>5 DEF Persist, Object
  <2>2. obj' \in Object /\ obj'.uid = obj.uid
    BY <1>5, <2>1 DEF Persist, DeferredStatus, Object
  <2>3. /\ hand' \in Object /\ hand'.uid = hand.uid /\ pc' \in {"account", "idle"}
        /\ found' \in {found, None} /\ token' \in {token, None} /\ (pc' = "account" => token' = token)
    BY <1>5, <2>1 DEF Persist
  <2> QED
    BY <1>5, <2>2, <2>3 DEF Persist
<1>6. ASSUME NEW k \in {"account", "binding"}, NEW following \in {"binding", "secret"},
             CreateIfMissing(k, following)
      PROVE  TypeInv'
  <2>1. Owned \in Child
    BY <1>6 DEF CreateIfMissing, Owned, Child
  <2>2. child' \in [Kinds -> Child] /\ behind' \in SUBSET Kinds
    BY <1>0, <1>6, <2>1, WriteType DEF CreateIfMissing, NoWrite
  <2>3. CASE pc' = following /\ UNCHANGED <<obj, queued, hand, found, token>>
    BY <1>6, <2>2, <2>3 DEF CreateIfMissing
  <2>4. CASE DeferredStatus(hand) /\ Again
    <3>1. obj' \in Object /\ obj'.uid = obj.uid
      BY <2>4 DEF DeferredStatus, Object
    <3> QED
      BY <1>6, <2>2, <2>4, <3>1, EndType, Empties DEF CreateIfMissing, Again
  <2> QED
    BY <1>6, <2>3, <2>4 DEF CreateIfMissing
<1>7. CASE WriteSecret
  <2>1. SecretWritten \in Child
    BY <1>0, <1>7 DEF WriteSecret, SecretWritten, TakenOver, Child
  <2>2. child' \in [Kinds -> Child] /\ behind' \in SUBSET Kinds
    BY <1>0, <1>7, <2>1, WriteType DEF WriteSecret, NoWrite
  <2>3. obj' \in Object /\ obj'.uid = obj.uid
    BY <1>7 DEF WriteSecret, DeferredStatus, Object
  <2>4. queued' \in BOOLEAN /\ (EndPass \/ Again)
    BY <1>7 DEF WriteSecret, Again, DontRequeue
  <2> QED
    BY <1>7, <2>2, <2>3, <2>4, EndType, Empties DEF WriteSecret
<1>8. CASE Deregister
  <2>1. obj' \in Object /\ obj'.uid = obj.uid
    <3>1. hand.attempts < MaxAttempts => hand.attempts + 1 \in 0 .. MaxAttempts
      BY BoundsAssumption DEF Object
    <3> QED
      BY <1>8, <3>1 DEF Deregister, Object
  <2>2. registered' \in SUBSET Runners
    BY <1>8 DEF Deregister
  <2>3. Again \/ (pc' = "release" /\ UNCHANGED <<hand, found, token, queued>>)
    BY <1>8 DEF Deregister
  <2> QED
    BY <1>8, <2>1, <2>2, <2>3, EndType, Empties DEF Deregister, Again
<1>9. CASE Release
  <2>1. obj' \in Object /\ obj'.uid \in {0, lives}
    BY <1>9, Empties DEF Release
  <2> QED
    BY <1>9, <2>1, EndType, Empties DEF Release, Again
<1>10. CASE CreateObject
  <2>1. PICK managed \in BOOLEAN : obj' = NewObject(managed)
    BY <1>10 DEF CreateObject
  <2>2. lives < MaxLives /\ lives' = lives + 1
    BY <1>10 DEF CreateObject
  <2>3. obj' \in Object /\ obj'.uid = lives' /\ lives' \in 0 .. MaxLives
    BY <2>1, <2>2, NewObjectType
  <2>4. hand.uid \in 1 .. lives => hand.uid \in 1 .. lives'
    BY <2>2
  <2> QED
    BY <1>10, <2>3, <2>4 DEF CreateObject
<1>11. CASE DeleteObject
  <2>1. obj' \in Object /\ obj'.uid \in {0, lives}
    BY <1>11, Empties DEF DeleteObject, Object
  <2> QED
    BY <1>11, <2>1 DEF DeleteObject
<1>12. CASE Crash
  BY <1>12, EndType, Empties DEF Crash, Again
<1>13. ASSUME NEW k \in Kinds, Collect(k)
       PROVE  TypeInv'
  BY <1>13, WriteType, Empties DEF Collect
<1>14. ASSUME NEW k \in Kinds, Sync(k)
       PROVE  TypeInv'
  BY <1>14 DEF Sync, Wakes
<1>15. CASE UNCHANGED vars
  BY <1>15 DEF vars
<1> QED
  BY <1>1, <1>2, <1>3, <1>4, <1>5, <1>6, <1>7, <1>8, <1>9, <1>10, <1>11, <1>12, <1>13, <1>14, <1>15
  DEF Next, Pass, CreateAccount, CreateBinding

\* Every reachable state has the types of TypeOK.
THEOREM TypeCorrect == Spec => []TypeOK
<1>1. TypeInv => TypeOK
  BY DEF TypeInv
<1> QED
  BY TypeInit, TypeStep, <1>1, PTL DEF Spec

-----------------------------------------------------------------------------
(* The invariant.                                                          *)

\* An informer that is not behind shows what is there; a child without owner is none.
ChildInv ==
  /\ \A k \in Kinds \ behind : cache[k] = child[k]
  /\ \A k \in Kinds : child[k].owner = 0 => child[k] = NoChild

\* The object in hand is the one that bears the name, unless another pass is to come, and
\* as the API server has it, if nothing fails.
HandInv ==
  pc # "idle" =>
    /\ obj.uid = hand.uid => obj.managed = hand.managed
    /\ ~queued => obj.uid \in {hand.uid, 0}
    /\ faults = 0 => HandCurrent

\* The token that a pass has resolved.
TokenInv ==
  /\ pc \in {"replace", "persist"} => hand.managed
  /\ pc \in {"persist", "account", "binding", "secret"} =>
       IF hand.managed THEN token \in registered ELSE token = ByoRunner

\* If nothing fails, the Secret of a managed object that knows a runner has the token of
\* that runner or none, until the runner has been replaced.
Writing == {"account", "binding", "secret"}
CalmInv ==
  faults = 0 =>
    /\ ByoRunner \in registered
    /\ obj.managed /\ obj.id # None /\ pc \notin Writing => child["secret"].token \in {None, obj.id}
    /\ pc = "replace" /\ hand.id # None => found \in {None, hand.id}
    /\ pc \in Writing /\ hand.managed => token = hand.id

\* A child is there, or the informer will say that it is gone.
Present(k) == k \in behind \/ child[k].owner # 0

\* The Secret is right for the object.
RightToken ==
  /\ obj.managed => child["secret"].token \in registered
  /\ faults = 0 => child["secret"].token = IF obj.managed THEN obj.id ELSE ByoRunner

\* What a pass has seen to, and what the last one has left, when none is to come.
RestInv ==
  ~queued =>
    /\ pc \in {"binding", "secret"} => Present("account")
    /\ pc = "secret" => Present("binding")
    /\ pc = "idle" /\ obj.uid # 0 => /\ \A k \in Kinds : Present(k)
                                     /\ "secret" \notin behind => RightToken

LivesInv == TypeInv /\ ChildInv /\ HandInv /\ TokenInv /\ CalmInv /\ RestInv

\* The object in hand, field by field.
LEMMA HandFields ==
  ASSUME TypeInv
  PROVE  HandCurrent <=> /\ obj.uid = hand.uid /\ obj.managed = hand.managed /\ obj.id = hand.id
                         /\ obj.finalizer = hand.finalizer /\ obj.deleting = hand.deleting
  BY DEF TypeInv, TypeOK, Object, HandCurrent

\* A step is not both calm and a fault.
LEMMA NoFault == ASSUME TypeInv, Calm, NEW kind PROVE ~Fault(kind)
  BY DEF TypeInv, TypeOK, Calm, Fault

\* A calm read finds what is there.
LEMMA CalmRead ==
  ASSUME TypeInv, ChildInv, Calm, NEW k \in Kinds, CacheRead(k)
  PROVE  k \notin behind /\ cache[k] = child[k]
  BY NoFault DEF CacheRead, ChildInv

\* The initial states satisfy the invariant.
LEMMA InvInit == Init => LivesInv
<1> SUFFICES ASSUME Init PROVE LivesInv
  OBVIOUS
<1>1. ChildInv /\ HandInv /\ TokenInv /\ RestInv
  BY Empties DEF Init, ChildInv, HandInv, TokenInv, RestInv
<1>2. CalmInv
  BY Empties DEF Init, CalmInv
<1> QED
  BY <1>1, <1>2, TypeInit DEF LivesInv

\* A write keeps the children in order.
LEMMA WriteChild ==
  ASSUME TypeInv, ChildInv, NEW k \in Kinds, NEW value \in Child, Write(k, value), cache' = cache,
         value.owner = 0 => value = NoChild
  PROVE  ChildInv' /\ k \in behind' /\ \A j \in Kinds : Present(j) => Present(j)'
<1>1. /\ child'[k] = value /\ \A j \in Kinds \ {k} : child'[j] = child[j]
      /\ behind' = behind \cup {k}
  BY WriteType DEF Write
<1> QED
  BY <1>1 DEF ChildInv, Present

\* Informers stay behind only on what they will be told of.
LEMMA ChildStep == TypeInv /\ ChildInv /\ [Next]_vars => ChildInv'
<1> SUFFICES ASSUME TypeInv, ChildInv, [Next]_vars PROVE ChildInv'
  OBVIOUS
<1> USE DEF childVars
<1>1. CASE UNCHANGED childVars
  BY <1>1 DEF ChildInv
<1>2. ASSUME NEW k \in Kinds, Collect(k)
      PROVE  ChildInv'
  BY <1>2, WriteChild, Empties DEF Collect
<1>3. ASSUME NEW k \in Kinds, Sync(k)
      PROVE  ChildInv'
  BY <1>3 DEF Sync, ChildInv, TypeInv, TypeOK
<1>4. CASE Crash
  BY <1>4 DEF Crash, ChildInv
<1>5. ASSUME NEW k \in {"account", "binding"}, NEW following \in {"binding", "secret"},
             CreateIfMissing(k, following)
      PROVE  ChildInv'
  <2>1. Owned \in Child /\ Owned.owner # 0 /\ k \in Kinds
    BY <1>5 DEF CreateIfMissing, Owned, Child, TypeInv, TypeOK, Uids, Kinds
  <2> QED
    BY <1>1, <1>5, <2>1, WriteChild DEF CreateIfMissing, NoWrite
<1>6. CASE WriteSecret
  <2>1. SecretWritten \in Child /\ SecretWritten.owner # 0 /\ "secret" \in Kinds
    <3>1. "secret" \in Kinds /\ cache["secret"] \in Child /\ hand.uid \in Uids /\ hand.uid # 0
          /\ token \in Runners \cup {None}
      BY <1>6 DEF WriteSecret, TypeInv, TypeOK, Kinds, Uids
    <3> QED
      BY <3>1 DEF SecretWritten, TakenOver, Child
  <2> QED
    BY <1>1, <1>6, <2>1, WriteChild DEF WriteSecret, NoWrite
<1>7. \/ UNCHANGED childVars \/ WriteSecret \/ CreateAccount \/ CreateBinding \/ Crash
      \/ \E k \in Kinds : Collect(k) \/ Sync(k)
  BY DEF Next, Pass, BeginPass, AddFinalizer, EnsureRunner, ReplaceRunner, Persist, Deregister, Release,
         CreateObject, DeleteObject, vars
<1> QED
  BY <1>1, <1>2, <1>3, <1>4, <1>5, <1>6, <1>7 DEF CreateAccount, CreateBinding

\* The pass goes on holding the object that bears the name, or another pass is to come.
LEMMA HandStep == TypeInv /\ HandInv /\ [Next]_vars => HandInv'
<1> SUFFICES ASSUME TypeInv, HandInv, [Next]_vars, pc' # "idle" PROVE HandInv'
  BY DEF HandInv
<1> USE DEF passVars, childVars
<1>1. CASE pc # "idle" /\ UNCHANGED <<obj, hand>> /\ (queued => queued')
  BY <1>1, StepFaults DEF HandInv, HandCurrent
<1>2. CASE BeginPass
  <2>1. hand' = obj /\ obj' = obj
    BY <1>2 DEF BeginPass
  <2>2. HandCurrent'
    BY <2>1 DEF HandCurrent, TypeInv, TypeOK, Object
  <2> QED
    BY <2>1, <2>2 DEF HandInv
<1>3. CASE Persist
  <2>1. pc = "persist" /\ HandCurrent /\ obj' = [obj EXCEPT !.id = token] /\ hand' = [hand EXCEPT !.id = token]
        /\ queued' = queued
    BY <1>3 DEF Persist
  <2>2. obj'.uid = obj.uid /\ obj'.managed = obj.managed /\ hand'.uid = hand.uid /\ hand'.managed = hand.managed
        /\ obj' = [hand' EXCEPT !.attempts = obj'.attempts]
    BY <2>1 DEF TypeInv, TypeOK, Object, HandCurrent
  <2> QED
    BY <2>1, <2>2 DEF HandInv, HandCurrent
<1>4. CASE Deregister
  <2>1. pc = "deregister" /\ hand' = hand /\ queued' = queued
    BY <1>4 DEF Deregister, Again, EndPass
  <2>2. /\ obj'.uid = obj.uid /\ obj'.managed = obj.managed
        /\ obj = [hand EXCEPT !.attempts = obj.attempts] => obj' = [hand EXCEPT !.attempts = obj'.attempts]
    BY <1>4 DEF Deregister, TypeInv, TypeOK, Object
  <2> QED
    BY <2>1, <2>2, StepFaults DEF HandInv, HandCurrent
<1>5. CASE CreateObject
  <2>1. obj.uid = 0 /\ lives < MaxLives /\ queued' /\ hand' = hand /\ pc' = pc
    BY <1>5 DEF CreateObject
  <2>2. obj'.uid = lives + 1 /\ hand.uid \in 1 .. lives
    BY <1>5, <2>1, NewObjectType DEF CreateObject, TypeInv
  <2>3. obj'.uid # hand.uid /\ hand.uid # 0
    BY <2>2 DEF TypeInv, TypeOK
  <2>4. faults' # 0
    BY <2>1, <2>3, StepFaults, HandFields DEF HandInv
  <2> QED
    BY <2>1, <2>3, <2>4 DEF HandInv
<1>6. CASE DeleteObject
  <2>1. pc # "idle" /\ hand' = hand /\ Fault("midPassDelete")
    BY <1>6 DEF DeleteObject
  <2>2. faults' # 0 /\ hand.uid # 0
    BY <2>1 DEF Fault, TypeInv, TypeOK, Uids
  <2>3. \/ obj'.uid = obj.uid /\ obj'.managed = obj.managed /\ queued'
        \/ obj'.uid = 0 /\ queued' = queued
    BY <1>6, Empties DEF DeleteObject, TypeInv, TypeOK, Object
  <2> QED
    BY <2>1, <2>2, <2>3 DEF HandInv
<1>7. \/ pc # "idle" /\ UNCHANGED <<obj, hand>> /\ (queued => queued')
      \/ BeginPass \/ Persist \/ Deregister \/ CreateObject \/ DeleteObject
  BY DEF Next, Pass, AddFinalizer, EnsureRunner, ReplaceRunner, CreateAccount, CreateBinding,
         CreateIfMissing, WriteSecret, Release, Crash, Collect, Sync, Again, EndPass, vars, TypeInv, TypeOK
<1> QED
  BY <1>1, <1>2, <1>3, <1>4, <1>5, <1>6, <1>7

\* The token in hand stays one of the object in hand.
LEMMA TokenStep == TypeInv /\ TokenInv /\ [Next]_vars => TokenInv'
<1> SUFFICES ASSUME TypeInv, TokenInv, [Next]_vars, pc' # "idle" PROVE TokenInv'
  BY DEF TokenInv
<1> USE DEF passVars, childVars
<1>1. CASE UNCHANGED <<registered, passVars>>
  BY <1>1 DEF TokenInv
<1>2. CASE BeginPass
  BY <1>2 DEF BeginPass, TokenInv
<1>3. CASE EnsureRunner
  BY <1>3 DEF EnsureRunner, TokenInv, NoRunnerNeeded
<1>4. CASE ReplaceRunner
  BY <1>4 DEF ReplaceRunner, TokenInv
<1>5. CASE Persist
  <2>1. pc = "persist" /\ hand' = [hand EXCEPT !.id = token] /\ token' = token /\ registered' = registered
    BY <1>5 DEF Persist
  <2>2. hand'.managed = hand.managed
    BY <2>1 DEF TypeInv, TypeOK, Object
  <2>3. pc' = "account"
    BY <1>5 DEF Persist
  <2> QED
    BY <2>1, <2>2, <2>3 DEF TokenInv
<1>6. ASSUME NEW k \in {"account", "binding"}, NEW following \in {"binding", "secret"},
             CreateIfMissing(k, following)
      PROVE  TokenInv'
  BY <1>6 DEF CreateIfMissing, Again, EndPass, TokenInv
<1>7. CASE Deregister
  BY <1>7 DEF Deregister, Again, EndPass, TokenInv
<1>8. \/ UNCHANGED <<registered, passVars>>
      \/ BeginPass \/ EnsureRunner \/ ReplaceRunner \/ Persist \/ CreateAccount \/ CreateBinding \/ Deregister
  BY DEF Next, Pass, AddFinalizer, WriteSecret, Release, Again, EndPass, CreateObject, DeleteObject, Crash,
         Collect, Sync, vars
<1> QED
  BY <1>1, <1>2, <1>3, <1>4, <1>5, <1>6, <1>7, <1>8 DEF CreateAccount, CreateBinding

\* Without faults the token stays with the runner.
LEMMA CalmStep ==
  TypeInv /\ ChildInv /\ HandInv /\ TokenInv /\ CalmInv /\ [Next]_vars => CalmInv'
<1> SUFFICES ASSUME TypeInv, ChildInv, HandInv, TokenInv, CalmInv, [Next]_vars, faults' = 0
             PROVE  CalmInv'
  BY DEF CalmInv
<1> USE DEF passVars, childVars
<1>0. /\ faults = 0 /\ Calm /\ "secret" \in Kinds
      /\ pc # "idle" => obj.uid = hand.uid /\ obj.managed = hand.managed /\ obj.id = hand.id
  BY StepFaults, HandFields DEF HandInv, Kinds
<1>1. CASE UNCHANGED <<obj, registered, passVars>> /\ child'["secret"] \in {child["secret"], NoChild}
  BY <1>0, <1>1, Empties DEF CalmInv
<1>2. CASE BeginPass
  BY <1>0, <1>2 DEF BeginPass, CalmInv, Writing
<1>3. CASE AddFinalizer
  <2>1. obj'.managed = obj.managed /\ obj'.id = obj.id /\ pc' = "idle" /\ UNCHANGED <<child, registered>>
    BY <1>3 DEF AddFinalizer, Again, EndPass, TypeInv, TypeOK, Object
  <2> QED
    BY <1>0, <1>3, <2>1 DEF AddFinalizer, CalmInv, Writing
<1>4. CASE EnsureRunner
  <2>1. cache["secret"] = child["secret"] /\ pc = "ensure" /\ UNCHANGED <<obj, child, registered, hand>>
    BY <1>0, <1>4, CalmRead DEF EnsureRunner
  <2>2. hand.managed /\ hand.id # None => child["secret"].token \in {None, hand.id}
    BY <1>0, <2>1 DEF CalmInv, Writing
  <2>3. hand.managed /\ NoRunnerNeeded => cache["secret"].token = hand.id
    BY <2>1, <2>2, Sentinels DEF NoRunnerNeeded, TypeInv, TypeOK
  <2> QED
    BY <1>0, <1>4, <2>1, <2>2, <2>3 DEF EnsureRunner, CalmInv, Writing
<1>5. CASE ReplaceRunner
  <2>1. /\ pc = "replace" /\ pc' = "persist" /\ UNCHANGED <<obj, child, hand>>
        /\ registered \ (IF hand.id = None THEN {} ELSE Removed(found, hand.id)) \subseteq registered'
    BY <1>5 DEF ReplaceRunner
  <2>2. hand.id \in Ids \cup {None} /\ (hand.id # None => found \in {None, hand.id})
    BY <1>0, <2>1 DEF CalmInv, TypeInv, TypeOK, Object
  <2>3. ByoRunner \in registered'
    BY <1>0, <2>1, <2>2, Sentinels DEF CalmInv, Removed
  <2> QED
    BY <1>0, <2>1, <2>3 DEF CalmInv, Writing
<1>6. CASE Persist
  <2>1. HandCurrent /\ pc = "persist"
    BY <1>0, <1>6 DEF HandInv, Persist
  <2>2. /\ pc' = "account" /\ hand' = [hand EXCEPT !.id = token] /\ UNCHANGED <<token, registered>>
    BY <1>6, <2>1 DEF Persist
  <2>3. hand'.id = token
    BY <2>2 DEF TypeInv, TypeOK, Object
  <2> QED
    BY <1>0, <2>2, <2>3 DEF CalmInv, Writing
<1>7. ASSUME NEW k \in {"account", "binding"}, NEW following \in {"binding", "secret"},
             CreateIfMissing(k, following)
      PROVE  CalmInv'
  <2>1. k \in Kinds /\ ~Fault("kubeError")
    BY <1>0, NoFault DEF Kinds
  <2>2. CacheRead(k) => cache[k] = child[k]
    BY <1>0, <2>1, CalmRead
  <2>3. pc \in Writing /\ pc' \in Writing /\ UNCHANGED <<hand, token, registered>>
    BY <1>7, <2>1, <2>2 DEF CreateIfMissing, Writing
  <2> QED
    BY <1>0, <2>3 DEF CalmInv, Writing
<1>8. CASE WriteSecret
  <2>1. pc = "secret" /\ pc' = "idle" /\ UNCHANGED registered /\ DeferredStatus(hand)
    BY <1>8 DEF WriteSecret, EndPass, Again
  <2>2. hand.managed => token = hand.id
    BY <1>0, <2>1 DEF CalmInv, Writing
  <2>3. obj'.managed = hand.managed /\ obj'.id = hand.id
    BY <1>0, <2>1 DEF DeferredStatus, TypeInv, TypeOK, Object, Uids
  <2>4. CacheRead("secret") /\ ~Fault("kubeError")
    BY <1>0, <1>8, NoFault DEF WriteSecret
  <2>5. cache["secret"] = child["secret"] /\ "secret" \notin behind
    BY <1>0, <2>4, CalmRead
  <2>6. child'["secret"].token = token
    <3>1. CASE cache["secret"].owner # 0 /\ cache["secret"].token = token /\ NoWrite
      BY <2>5, <3>1 DEF NoWrite
    <3>2. CASE Write("secret", SecretWritten)
      <4>1. child'["secret"] = SecretWritten
        BY <1>0, <3>2 DEF Write, TypeInv, TypeOK
      <4>2. SecretWritten.token = token
        BY <1>0 DEF SecretWritten, TakenOver, TypeInv, TypeOK, Child
      <4> QED
        BY <4>1, <4>2
    <3>3. SecretInHand
      BY <2>5 DEF SecretInHand
    <3> QED
      BY <1>8, <2>4, <3>1, <3>2, <3>3 DEF WriteSecret
  <2> QED
    BY <1>0, <2>1, <2>2, <2>3, <2>6 DEF CalmInv, Writing
<1>9. CASE Deregister
  <2>1. pc = "deregister" /\ cache["secret"] = child["secret"] /\ UNCHANGED child /\ pc' \in {"idle", "release"}
    BY <1>0, <1>9, CalmRead DEF Deregister, Again, EndPass
  <2>2. obj'.managed = obj.managed /\ obj'.id = obj.id
    BY <1>9 DEF Deregister, TypeInv, TypeOK, Object
  <2>3. hand.id \in Ids \cup {None}
        /\ (hand.managed /\ hand.id # None => child["secret"].token \in {None, hand.id})
    BY <1>0, <2>1 DEF CalmInv, Writing, TypeInv, TypeOK, Object
  <2>4. ByoRunner \in registered'
    BY <1>0, <1>9, <2>1, <2>3, Sentinels DEF Deregister, Removed, CalmInv
  <2> QED
    BY <1>0, <2>1, <2>2, <2>4 DEF CalmInv, Writing
<1>10. CASE Release
  <2>1. /\ pc = "release" /\ pc' = "idle" /\ UNCHANGED <<child, registered>> /\ obj' \in {obj, NoObject}
    BY <1>10 DEF Release, Again, EndPass
  <2> QED
    BY <1>0, <2>1, Empties DEF CalmInv, Writing
<1>11. CASE CreateObject \/ DeleteObject
  <2>1. pc = "idle"
    <3>1. CASE CreateObject
      BY <1>0, <3>1 DEF CreateObject, TypeInv, TypeOK, Uids
    <3>2. CASE DeleteObject
      BY <1>0, <3>2, NoFault DEF DeleteObject
    <3> QED
      BY <1>11, <3>1, <3>2
  <2>2. UNCHANGED <<child, registered, passVars>>
    BY <1>11 DEF CreateObject, DeleteObject
  <2>3. obj'.managed /\ obj'.id # None => obj.managed /\ obj'.id = obj.id
    <3>1. CASE CreateObject
      BY <3>1, NewObjectType DEF CreateObject
    <3>2. CASE DeleteObject
      BY <3>2, Empties DEF DeleteObject, TypeInv, TypeOK, Object
    <3> QED
      BY <1>11, <3>1, <3>2
  <2> QED
    BY <1>0, <2>1, <2>2, <2>3 DEF CalmInv, Writing
<1>12. ~Crash
  BY <1>0, NoFault DEF Crash
<1>13. ASSUME NEW k \in Kinds, Collect(k) \/ Sync(k)
       PROVE  CalmInv'
  BY <1>0, <1>1, <1>13 DEF Collect, Sync, Write, TypeInv, TypeOK
<1>14. CASE UNCHANGED vars
  BY <1>1, <1>14 DEF vars
<1> QED
  BY <1>2, <1>3, <1>4, <1>5, <1>6, <1>7, <1>8, <1>9, <1>10, <1>11, <1>12, <1>13, <1>14
  DEF Next, Pass, CreateAccount, CreateBinding

\* What a pass has seen to stays, unless another pass is to come.
LEMMA RestStep ==
  TypeInv /\ ChildInv /\ HandInv /\ TokenInv /\ CalmInv /\ RestInv /\ [Next]_vars => RestInv'
<1> SUFFICES ASSUME TypeInv, ChildInv, HandInv, TokenInv, CalmInv, RestInv, [Next]_vars, ~queued'
             PROVE  RestInv'
  BY DEF RestInv
<1> USE DEF passVars, childVars
<1>0. "secret" \in Kinds /\ "account" \in Kinds /\ "binding" \in Kinds /\ Kinds = {"secret", "account", "binding"}
  BY DEF Kinds
<1>1. CASE UNCHANGED <<obj, childVars, registered, queued, pc, hand>>
  BY <1>1, StepFaults DEF RestInv, Present, RightToken
<1>2. CASE BeginPass
  <2>1. pc' \notin {"binding", "secret"} /\ (pc' = "idle" => obj'.uid = 0)
    BY <1>2 DEF BeginPass
  <2> QED
    BY <2>1 DEF RestInv
<1>3. CASE EnsureRunner \/ ReplaceRunner \/ Persist \/ Deregister
  <2>1. pc' \notin {"idle", "binding", "secret"}
    BY <1>3 DEF EnsureRunner, ReplaceRunner, Persist, Deregister, Again
  <2> QED
    BY <2>1 DEF RestInv
<1>4. ASSUME NEW k \in {"account", "binding"}, NEW following \in {"binding", "secret"},
             CreateIfMissing(k, following), k = "account" <=> following = "binding"
      PROVE  RestInv'
  <2>1. /\ pc = k /\ pc' = following /\ cache' = cache /\ queued' = queued
        /\ cache[k].owner # 0 \/ child[k].owner = 0 \/ k = "binding"
        /\ IF cache[k].owner = 0 /\ child[k].owner = 0 THEN Write(k, Owned) ELSE NoWrite
    BY <1>4 DEF CreateIfMissing, Again
  <2>2. Owned \in Child /\ Owned.owner # 0 /\ k \in Kinds
    BY <1>0, <2>1 DEF Owned, Child, TypeInv, TypeOK, Uids
  <2>3. Present(k)' /\ \A j \in Kinds : Present(j) => Present(j)'
    <3>1. CASE cache[k].owner = 0 /\ child[k].owner = 0
      BY <2>1, <2>2, <3>1, WriteChild DEF Present
    <3>2. CASE ~(cache[k].owner = 0 /\ child[k].owner = 0)
      BY <2>1, <2>2, <3>2 DEF NoWrite, Present, ChildInv
    <3> QED
      BY <3>1, <3>2
  <2> QED
    BY <1>0, <1>4, <2>1, <2>3 DEF RestInv
<1>5. CASE WriteSecret
  <2>1. /\ pc = "secret" /\ pc' = "idle" /\ queued' = queued /\ UNCHANGED <<childVars, registered>>
        /\ DeferredStatus(hand)
        /\ cache["secret"].owner # 0 /\ cache["secret"].token = token /\ CacheRead("secret")
    BY <1>5 DEF WriteSecret, Again, EndPass, DontRequeue, NoWrite
  <2>2. Present("account") /\ Present("binding") /\ Present("secret")
    BY <1>0, <2>1 DEF RestInv, Present, ChildInv
  <2>3. obj.uid # 0 => obj.managed = hand.managed
    BY <2>1 DEF HandInv
  <2>4. obj'.uid # 0 => obj'.managed = hand.managed /\ obj'.id = hand.id
    BY <2>1, <2>3 DEF DeferredStatus, TypeInv, TypeOK, Object
  <2>5. /\ IF hand.managed THEN token \in registered ELSE token = ByoRunner
        /\ faults = 0 /\ hand.managed => token = hand.id
    BY <2>1 DEF TokenInv, CalmInv, Writing
  <2>6. "secret" \notin behind => child["secret"].token = token
    BY <1>0, <2>1 DEF ChildInv
  <2>7. obj'.uid # 0 /\ "secret" \notin behind' => RightToken'
    BY <2>1, <2>4, <2>5, <2>6, StepFaults DEF RightToken
  <2> QED
    BY <1>0, <2>1, <2>2, <2>7 DEF RestInv, Present
<1>6. CASE DeleteObject
  <2>1. obj'.uid = 0 /\ UNCHANGED <<childVars, pc, queued>>
    BY <1>6, Empties DEF DeleteObject
  <2> QED
    BY <2>1 DEF RestInv, Present
<1>7. ASSUME NEW k \in Kinds, Collect(k)
      PROVE  RestInv'
  <2>1. UNCHANGED <<obj, registered, queued, pc>> /\ ("secret" \notin behind' => child'["secret"] = child["secret"])
        /\ behind \subseteq behind'
    BY <1>7 DEF Collect, Write, TypeInv, TypeOK
  <2>2. \A j \in Kinds : Present(j) => Present(j)'
    BY <1>7, WriteChild, Empties DEF Collect
  <2> QED
    BY <1>0, <2>1, <2>2, StepFaults DEF RestInv, RightToken
<1>8. ASSUME NEW k \in Kinds, Sync(k)
      PROVE  queued'
  BY <1>8 DEF Sync, Wakes
<1>9. AddFinalizer \/ Release \/ CreateObject \/ Crash => queued'
  BY DEF AddFinalizer, Release, CreateObject, Crash, Again
<1> QED
  BY <1>1, <1>2, <1>3, <1>4, <1>5, <1>6, <1>7, <1>8, <1>9 DEF Next, Pass, CreateAccount, CreateBinding, vars

\* The inductive invariant.
THEOREM Invariant == Spec => []LivesInv
<1>1. LivesInv /\ [Next]_vars => LivesInv'
  BY TypeStep, ChildStep, HandStep, TokenStep, CalmStep, RestStep DEF LivesInv
<1> QED
  BY <1>1, InvInit, PTL DEF Spec

\* If nothing fails, the runner that the user registered is never deregistered.
THEOREM ByoSurvives == Spec => []ByoUntouched
<1>1. LivesInv => ByoUntouched
  BY DEF LivesInv, CalmInv, ByoUntouched
<1> QED
  BY <1>1, Invariant, PTL

\* When all is quiet an object has children of its own, with its own token.
THEOREM OwnsChildren == Spec => []RestsOwned
<1>1. LivesInv => RestsOwned
  <2> SUFFICES ASSUME LivesInv, Quiet PROVE
        IF obj.uid = 0 THEN \A k \in Kinds : child[k] = NoChild
        ELSE /\ \A k \in Kinds : child[k].owner = obj.uid
             /\ obj.managed => child["secret"].token \in registered
             /\ faults = 0 => child["secret"].token = IF obj.managed THEN obj.id ELSE ByoRunner
    BY DEF RestsOwned
  <2>1. CASE obj.uid = 0
    BY <2>1 DEF LivesInv, Quiet, ChildInv
  <2>2. CASE obj.uid # 0
    <3>1. /\ \A k \in Kinds : k \notin behind /\ Present(k) /\ child[k].owner \in {0, obj.uid}
          /\ RightToken
      BY <2>2 DEF LivesInv, Quiet, RestInv, Kinds
    <3> QED
      BY <2>2, <3>1 DEF Present, RightToken
  <2> QED
    BY <2>1, <2>2
<1> QED
  BY <1>1, Invariant, PTL
-----------------------------------------------------------------------------
(* A life costs at most one runner.                                        *)

\* A pass past its finalizer check works on the object that bears the name, which has the
\* finalizer, and knows the same runner.
PassOnIt ==
  pc \notin {"idle", "finalizer"} =>
    /\ obj.uid = hand.uid /\ obj.finalizer
    /\ obj.id = hand.id /\ obj.managed = hand.managed
LifeInv ==
  /\ PassOnIt
  /\ obj.id # None => obj.uid # 0 /\ obj.finalizer /\ obj.managed
  /\ obj.deleting => obj.finalizer
  /\ lives = 0 => child["secret"].owner = 0

\* The runners that neither the status knows nor the pass is about to tell it of.
Lost == {i \in Ids : i \in registered /\ i # obj.id /\ ~(pc = "persist" /\ i = token)}

\* The runner in the status, if GitLab has it, is not removed by a deregistration with t.
Missed(t) == obj.id \in Ids /\ obj.id \in registered /\ obj.id \notin Removed(t, obj.id)

\* The runner in the status is going to be lost, if nothing fails from here on.
GoesAstray ==
  \/ pc \in {"idle", "finalizer", "ensure", "deregister"} /\ Missed(child["secret"].token)
  \/ pc = "replace" /\ Missed(found)
  \/ pc \in {"persist", "release"} /\ obj.id \in Ids /\ obj.id \in registered
  \/ pc \in {"account", "binding", "secret"} /\ Missed(token)

\* The status of the pass will be refused, and with it the token of the runner it creates.
Outdated == pc \in {"ensure", "replace", "persist"} /\ ~HandCurrent

\* The Secret will be collected: its owner was an earlier object of the name.
Inherited == ~apiScope /\ obj.uid # 0 /\ child["secret"].owner \notin {0, obj.uid}

Count(b) == IF b THEN 1 ELSE 0
Allowed == IF apiScope \/ lives = 0 THEN 0 ELSE lives - 1

\* What is lost or going to be lost is paid for by a fault or by a life.
Debts == Count(GoesAstray) + Count(Outdated) + Count(Inherited)
Account == IsFiniteSet(Lost) /\ Cardinality(Lost) + Debts <= faults + Allowed

\* A step pays for what it loses and for what it owes from then on.
Charged ==
  \/ Lost' \subseteq Lost /\ Debts' + faults + Allowed <= Debts + faults' + Allowed'
  \/ \E x : Lost' \subseteq Lost \cup {x} /\ Debts' + 1 + faults + Allowed <= Debts + faults' + Allowed'

\* There is no object yet.
LEMMA LifeInit == Init => LifeInv
<1> SUFFICES ASSUME Init PROVE LifeInv
  OBVIOUS
<1>1. pc = "idle" /\ obj.id = None /\ obj.deleting = FALSE /\ child["secret"] = NoChild
  BY Empties DEF Init, Kinds, NoObject
<1> QED BY <1>1, Empties DEF LifeInv, PassOnIt

\* An object that knows a runner keeps its finalizer while a pass is on it.
LEMMA LifeStep == TypeInv /\ TokenInv /\ LifeInv /\ [Next]_vars => LifeInv'
<1> SUFFICES ASSUME TypeInv, TokenInv, LifeInv, [Next]_vars PROVE LifeInv'
  OBVIOUS
<1> USE DEF passVars, childVars, PassOnIt
<1>1. ASSUME obj' = obj, lives' = lives, child' = child,
             pc' \in {"idle", "finalizer"} \/ (pc \notin {"idle", "finalizer"} /\ hand' = hand)
      PROVE  LifeInv'
  BY <1>1 DEF LifeInv
<1>2. CASE BeginPass
  <2>1. UNCHANGED <<obj, lives, child>>
    BY <1>2 DEF BeginPass
  <2>2. CASE obj.uid = 0
    BY <1>1, <1>2, <2>1, <2>2 DEF BeginPass
  <2>3. CASE obj.uid # 0
    <3>1. hand' = obj /\ (pc' \notin {"idle", "finalizer"} => obj.deleting \/ obj.finalizer)
      BY <1>2, <2>3 DEF BeginPass
    <3> QED BY <2>1, <3>1 DEF LifeInv
  <2> QED BY <2>2, <2>3
<1>3. CASE AddFinalizer
  <2>1. pc' = "idle" /\ UNCHANGED <<lives, child>>
        /\ obj'.uid = obj.uid /\ obj'.id = obj.id /\ obj'.managed = obj.managed
        /\ obj'.deleting = obj.deleting /\ (obj.finalizer => obj'.finalizer)
    BY <1>3 DEF AddFinalizer, Again, EndPass, TypeInv, TypeOK, Object
  <2> QED BY <2>1 DEF LifeInv
<1>4. CASE EnsureRunner \/ ReplaceRunner
  BY <1>1, <1>4 DEF EnsureRunner, ReplaceRunner
<1>5. CASE Persist
  <2>1. /\ pc = "persist" /\ UNCHANGED <<lives, child>>
        /\ obj'.uid = obj.uid /\ obj'.id = token /\ obj'.managed = obj.managed
        /\ obj'.finalizer = obj.finalizer /\ obj'.deleting = obj.deleting
        /\ hand'.uid = hand.uid /\ hand'.id = token /\ hand'.managed = hand.managed
    BY <1>5 DEF Persist, DeferredStatus, LifeInv, TypeInv, TypeOK, Object, Uids
  <2> QED BY <2>1 DEF LifeInv, TokenInv, TypeInv, TypeOK, Uids
<1>6. ASSUME DeferredStatus(hand), pc \notin {"idle", "finalizer"} PROVE obj' = obj
  BY <1>6 DEF DeferredStatus, LifeInv, TypeInv, TypeOK, Object
<1>7. ASSUME NEW k \in {"account", "binding"}, NEW f, f \notin {"idle", "finalizer"}, CreateIfMissing(k, f)
      PROVE  LifeInv'
  <2>1. UNCHANGED lives /\ pc = k /\ (Write(k, Owned) \/ NoWrite)
    BY <1>7 DEF CreateIfMissing
  <2>2. child'["secret"] = child["secret"]
    BY <2>1 DEF Write, NoWrite, Kinds, TypeInv, TypeOK
  <2>3. \/ pc' = "idle" /\ DeferredStatus(hand)
        \/ pc' = f /\ UNCHANGED <<obj, hand>>
    BY <1>7 DEF CreateIfMissing, Again, EndPass
  <2>4. obj' = obj /\ (pc' = "idle" \/ hand' = hand)
    BY <1>6, <2>1, <2>3
  <2> QED BY <2>1, <2>2, <2>4 DEF LifeInv
<1>8. CASE WriteSecret
  <2>1. UNCHANGED lives /\ pc = "secret" /\ pc' = "idle" /\ obj' = obj
    BY <1>6, <1>8 DEF WriteSecret, Again, EndPass
  <2>2. lives # 0
    BY <2>1 DEF LifeInv, TypeInv, TypeOK, Uids
  <2> QED BY <2>1, <2>2 DEF LifeInv
<1>9. CASE Deregister
  <2>1. /\ UNCHANGED <<lives, child>> /\ pc = "deregister"
        /\ obj'.uid = obj.uid /\ obj'.id = obj.id /\ obj'.managed = obj.managed
        /\ obj'.finalizer = obj.finalizer /\ obj'.deleting = obj.deleting
        /\ pc' = "idle" \/ hand' = hand
    BY <1>9 DEF Deregister, Again, EndPass, TypeInv, TypeOK, Object
  <2> QED BY <2>1 DEF LifeInv
<1>10. CASE Release
  <2>1. UNCHANGED <<lives, child>> /\ pc' = "idle" /\ obj' \in {obj, NoObject}
    BY <1>10 DEF Release, Again, EndPass
  <2> QED BY <2>1, Empties DEF LifeInv, NoObject
<1>11. CASE CreateObject
  <2>1. obj.uid = 0 /\ lives < MaxLives /\ UNCHANGED <<child, pc, hand>> /\ lives' = lives + 1
    BY <1>11 DEF CreateObject
  <2>2. obj'.id = None /\ obj'.deleting = FALSE
    BY <1>11, <2>1, NewObjectType DEF CreateObject, NewObject, NoObject
  <2>3. pc \in {"idle", "finalizer"}
    BY <2>1 DEF LifeInv, TypeInv, TypeOK, Uids
  <2>4. lives' # 0
    BY <2>1 DEF TypeInv, TypeOK
  <2> QED BY <2>1, <2>2, <2>3, <2>4 DEF LifeInv
<1>12. CASE DeleteObject
  <2>1. UNCHANGED <<lives, child, pc, hand>>
    BY <1>12 DEF DeleteObject
  <2>2. CASE obj.finalizer
    <3>1. obj'.uid = obj.uid /\ obj'.id = obj.id /\ obj'.managed = obj.managed /\ obj'.finalizer
      BY <1>12, <2>2 DEF DeleteObject, TypeInv, TypeOK, Object
    <3> QED BY <2>1, <3>1, <2>2 DEF LifeInv
  <2>3. CASE ~obj.finalizer
    <3>1. obj'.id = None /\ obj'.deleting = FALSE /\ pc \in {"idle", "finalizer"}
      BY <1>12, <2>3, Empties DEF DeleteObject, LifeInv, NoObject
    <3> QED BY <2>1, <3>1 DEF LifeInv
  <2> QED BY <2>2, <2>3
<1>13. CASE Crash
  BY <1>1, <1>13 DEF Crash, Again, EndPass
<1>14. ASSUME NEW k \in Kinds, Collect(k) PROVE LifeInv'
  <2>1. UNCHANGED <<obj, lives, pc, hand>>
        /\ child'["secret"].owner \in {0, child["secret"].owner}
    BY <1>14, Empties DEF Collect, Write, TypeInv, TypeOK, Kinds
  <2> QED BY <2>1 DEF LifeInv
<1>15. ASSUME NEW k \in Kinds, Sync(k) PROVE LifeInv'
  BY <1>1, <1>15 DEF Sync
<1>16. CASE UNCHANGED vars
  BY <1>1, <1>16 DEF vars
<1> QED
  BY <1>2, <1>3, <1>4, <1>5, <1>7, <1>8, <1>9, <1>10, <1>11, <1>12, <1>13, <1>14, <1>15, <1>16
  DEF Next, Pass, CreateAccount, CreateBinding

\* The numbers of the account.
LEMMA Numbers ==
  ASSUME TypeInv
  PROVE  faults \in Nat /\ lives \in Nat /\ Debts \in Nat /\ Allowed \in Nat
BY BoundsAssumption DEF TypeInv, TypeOK, Debts, Count, Allowed

\* And after the step.
LEMMA NumbersNext ==
  ASSUME TypeInv'
  PROVE  faults' \in Nat /\ lives' \in Nat /\ Debts' \in Nat /\ Allowed' \in Nat
<1>1. faults' \in Nat /\ lives' \in Nat
  BY BoundsAssumption DEF TypeInv, TypeOK
<1>2. Debts' \in Nat
  BY DEF Debts, Count
<1>3. Allowed' \in Nat
  <2>1. CASE apiScope' \/ lives' = 0
    BY <2>1 DEF Allowed
  <2>2. CASE ~(apiScope' \/ lives' = 0)
    <3>1. Allowed' = lives' - 1 /\ lives' # 0
      BY <2>2 DEF Allowed
    <3>2. PICK l \in Nat : l = lives'
      BY <1>1
    <3>3. l \in Nat /\ l # 0
      BY <3>1, <3>2
    <3>4. l - 1 \in Nat
      BY <3>3
    <3> QED BY <3>1, <3>2, <3>4
  <2> QED BY <2>1, <2>2
<1> QED BY <1>1, <1>2, <1>3

\* Each debt counts as one.
LEMMA Counting ==
  ASSUME NEW a, NEW b, NEW c, NEW d, NEW e, NEW f,
         e => b, f => c
  PROVE  /\ Count(d) + Count(e) + Count(f) <= Count(a) + Count(b) + Count(c) + 1
         /\ (d => a) => Count(d) + Count(e) + Count(f) <= Count(a) + Count(b) + Count(c)
BY DEF Count

\* A step that runs into no debt but perhaps the one of the runner in the status.
LEMMA Owing ==
  ASSUME Outdated' => Outdated, Inherited' => Inherited
  PROVE  /\ Debts' <= Debts + 1
         /\ (GoesAstray' => GoesAstray) => Debts' <= Debts
BY Counting DEF Debts

\* A step that loses no runner and runs into no debt, or into one with a fault.
LEMMA Owes ==
  ASSUME TypeInv, TypeInv', UNCHANGED <<lives, apiScope>>, Lost' \subseteq Lost,
         Outdated' => Outdated, Inherited' => Inherited,
         \/ Calm /\ (GoesAstray' => GoesAstray)
         \/ \E kind : Fault(kind)
  PROVE  Charged
<1>1. Allowed' = Allowed
  BY DEF Allowed
<1>2. (faults' = faults /\ (GoesAstray' => GoesAstray)) \/ faults' = faults + 1
  BY DEF Calm, Fault
<1>3. Debts' + faults + Allowed <= Debts + faults' + Allowed'
  BY <1>1, <1>2, Numbers, NumbersNext, Owing
<1> QED BY <1>3 DEF Charged

\* A step that loses the runner x if b holds, and pays for it.
LEMMA PaysFor ==
  ASSUME TypeInv, TypeInv', NEW x, NEW b, Lost' \subseteq Lost \cup {x}, ~b => Lost' \subseteq Lost,
         Debts' + Count(b) + faults + Allowed <= Debts + faults' + Allowed'
  PROVE  Charged
<1>1. CASE b
  <2>1. Debts' + 1 + faults + Allowed <= Debts + faults' + Allowed'
    BY <1>1, Numbers, NumbersNext DEF Count
  <2> QED BY <2>1 DEF Charged
<1>2. CASE ~b
  <2>1. Debts' + faults + Allowed <= Debts + faults' + Allowed'
    BY <1>2, Numbers, NumbersNext DEF Count
  <2> QED BY <1>2, <2>1 DEF Charged
<1> QED BY <1>1, <1>2

\* Every step pays.
LEMMA ChargedStep ==
  ASSUME TypeInv, ChildInv, TokenInv, LifeInv, TypeInv', [Next]_vars
  PROVE  Charged
<1> USE DEF passVars, childVars
<1> DEFINE Known == obj.id \in Ids /\ obj.id \in registered
<1>0. /\ faults \in Nat /\ lives \in Nat /\ Allowed \in Nat
      /\ faults' \in Nat /\ lives' \in Nat /\ Allowed' \in Nat
  BY Numbers, NumbersNext
<1>1. CASE BeginPass
  <2>1. /\ pc = "idle" /\ Calm /\ UNCHANGED <<obj, lives, child, registered, apiScope>>
        /\ pc' \in {"idle", "finalizer", "ensure", "deregister"}
    BY <1>1 DEF BeginPass
  <2>2. Lost' \subseteq Lost /\ (Inherited' => Inherited) /\ (GoesAstray' => GoesAstray)
    BY <2>1 DEF Lost, Inherited, GoesAstray, Missed, Removed
  <2>3. ~Outdated'
    <3>1. CASE pc' = "ensure"
      <4>1. hand' = obj
        BY <1>1, <2>1, <3>1 DEF BeginPass
      <4> QED BY <2>1, <4>1 DEF Outdated, HandCurrent, TypeInv, TypeOK, Object
    <3> QED BY <2>1, <3>1 DEF Outdated
  <2> QED BY <2>1, <2>2, <2>3, Owes
<1>2. CASE AddFinalizer
  <2>1. /\ pc = "finalizer" /\ pc' = "idle" /\ Calm
        /\ UNCHANGED <<lives, child, registered, apiScope>>
        /\ obj'.id = obj.id /\ obj'.uid = obj.uid
    BY <1>2 DEF AddFinalizer, Again, EndPass, TypeInv, TypeOK, Object
  <2>2. Lost' \subseteq Lost /\ (Inherited' => Inherited) /\ (GoesAstray' => GoesAstray) /\ ~Outdated'
    BY <2>1 DEF Lost, Inherited, GoesAstray, Missed, Removed, Outdated
  <2> QED BY <2>1, <2>2, Owes
<1>3. CASE EnsureRunner
  <2>1. /\ pc = "ensure" /\ pc' \in {"replace", "account"}
        /\ UNCHANGED <<obj, lives, child, registered, apiScope, hand>>
        /\ found' = cache["secret"].token
        /\ pc' = "account" => ~hand.managed \/ token' = cache["secret"].token
        /\ CacheRead("secret")
    BY <1>3 DEF EnsureRunner
  <2>2. Lost' \subseteq Lost /\ (Inherited' => Inherited) /\ (Outdated' => Outdated)
    BY <2>1 DEF Lost, Inherited, Outdated, HandCurrent
  <2>3. CASE Calm
    <3>1. cache["secret"] = child["secret"]
      BY <2>1, <2>3, CalmRead DEF Kinds
    <3>2. ~hand.managed => obj.id \notin Ids
      BY <2>1, IdsAssumption DEF LifeInv, PassOnIt
    <3>3. GoesAstray' => GoesAstray
      BY <2>1, <3>1, <3>2 DEF GoesAstray, Missed, Removed
    <3> QED BY <2>1, <2>2, <2>3, <3>3, Owes
  <2>4. CASE Fault("staleCache")
    BY <2>1, <2>2, <2>4, Owes
  <2> QED BY <2>1, <2>3, <2>4, ReadFaults
<1>4. CASE ReplaceRunner
  <2>1. /\ pc = "replace" /\ pc' = "persist" /\ Calm
        /\ UNCHANGED <<obj, lives, child, apiScope, hand>>
        /\ token' \in Unused
        /\ registered' = (registered \ (IF hand.id = None THEN {} ELSE Removed(found, hand.id))) \cup {token'}
    BY <1>4 DEF ReplaceRunner
  <2>2. Lost' \subseteq Lost
    BY <2>1 DEF Lost
  <2>3. (Inherited' => Inherited) /\ (Outdated' => Outdated)
    BY <2>1 DEF Inherited, Outdated, HandCurrent
  <2>4. GoesAstray' => GoesAstray
    BY <2>1, IdsAssumption DEF GoesAstray, Missed, Unused, LifeInv, PassOnIt
  <2> QED BY <2>1, <2>2, <2>3, <2>4, Owes
<1>5. CASE Persist
  <2>1. /\ pc = "persist" /\ Calm /\ UNCHANGED <<lives, child, registered, apiScope>>
        /\ obj'.uid = obj.uid /\ obj'.id = token
        /\ pc' \in {"idle", "account"}
        /\ pc' = "account" => token' = token
        /\ pc' = "idle" => ~HandCurrent
    BY <1>5 DEF Persist, DeferredStatus, LifeInv, PassOnIt, TypeInv, TypeOK, Object, Uids
  <2>2. Lost' \subseteq Lost \cup {obj.id} /\ (~Known => Lost' \subseteq Lost)
    BY <2>1 DEF Lost
  <2>3. (GoesAstray <=> Known) /\ ~Outdated' /\ (Inherited' <=> Inherited)
    BY <2>1 DEF GoesAstray, Outdated, Inherited
  <2>4. GoesAstray' => Outdated
    <3>1. CASE pc' = "idle"
      BY <2>1, <3>1 DEF Outdated
    <3>2. CASE pc' = "account"
      <4>1. token' = token /\ obj'.id = token' /\ token # None
        BY <2>1, <3>2 DEF TypeInv, TypeOK
      <4>2. ~GoesAstray'
        BY <3>2, <4>1 DEF GoesAstray, Missed, Removed
      <4> QED BY <4>2
    <3> QED BY <2>1, <3>1, <3>2
  <2>5. faults' = faults /\ Allowed' = Allowed
    BY <2>1 DEF Calm, Allowed
  <2>6. Debts' + Count(Known) <= Debts
    BY <2>3, <2>4 DEF Debts, Count
  <2>7. Debts' + Count(Known) + faults + Allowed <= Debts + faults' + Allowed'
    BY <1>0, <2>5, <2>6, Numbers, NumbersNext DEF Count
  <2> HIDE DEF Known
  <2> QED BY <2>2, <2>7, PaysFor
<1>6. ASSUME NEW k \in {"account", "binding"}, NEW f \in {"binding", "secret"}, CreateIfMissing(k, f)
      PROVE  Charged
  <2>1. UNCHANGED <<lives, registered, apiScope>> /\ pc = k /\ (Write(k, Owned) \/ NoWrite)
    BY <1>6 DEF CreateIfMissing
  <2>0. \/ pc' = f /\ obj' = obj /\ token' = token /\ CacheRead(k)
        \/ pc' = "idle" /\ DeferredStatus(hand) /\ (Fault("kubeError") \/ (cache[k] # child[k] /\ CacheRead(k)))
    <3>1. CASE cache[k].owner = 0 /\ child[k].owner # 0 /\ CacheRead(k) /\ DeferredStatus(hand) /\ Again
      BY <3>1 DEF Again, EndPass
    <3>2. CASE Fault("kubeError") /\ DeferredStatus(hand) /\ Again
      BY <3>2 DEF Again, EndPass
    <3>3. CASE CacheRead(k) /\ pc' = f /\ UNCHANGED <<obj, queued, hand, found, token>>
      BY <3>3
    <3> QED BY <1>6, <3>1, <3>2, <3>3 DEF CreateIfMissing
  <2>2. child'["secret"] = child["secret"]
    BY <2>1 DEF Write, NoWrite, Kinds, TypeInv, TypeOK
  <2>3. obj'.id = obj.id /\ obj'.uid = obj.uid
    BY <2>0, <2>1 DEF DeferredStatus, LifeInv, PassOnIt, TypeInv, TypeOK, Object
  <2>4. Lost' \subseteq Lost /\ (Inherited' => Inherited) /\ ~Outdated'
    BY <2>0, <2>1, <2>2, <2>3 DEF Lost, Inherited, Outdated
  <2>5. \/ Calm /\ pc' = f /\ token' = token
        \/ \E kind : Fault(kind)
    BY <2>0, <2>1, CalmRead, ReadFaults DEF Kinds
  <2>6. pc' = f /\ token' = token => (GoesAstray' => GoesAstray)
    BY <2>1, <2>2, <2>3 DEF GoesAstray, Missed, Removed
  <2> QED BY <2>1, <2>4, <2>5, <2>6, Owes
<1>7. CASE WriteSecret
  <2>0. NoWrite \/ (SecretInHand /\ Write("secret", SecretWritten))
    BY <1>7 DEF WriteSecret
  <2>1. pc = "secret" /\ pc' = "idle" /\ UNCHANGED <<lives, registered, apiScope>> /\ DeferredStatus(hand)
    BY <1>7 DEF WriteSecret, Again, EndPass
  <2>2. obj'.id = obj.id /\ obj'.uid = obj.uid /\ obj.uid = hand.uid
    BY <2>1 DEF DeferredStatus, LifeInv, PassOnIt, TypeInv, TypeOK, Object
  <2>3. /\ SecretWritten \in Child /\ SecretWritten.token = token
        /\ SecretInHand => SecretWritten.owner \in {hand.uid, child["secret"].owner}
    BY <2>1 DEF SecretWritten, SecretInHand, TakenOver, TypeInv, TypeOK, Child, Kinds, Object, ChildInv
  <2>4. child'["secret"] = child["secret"] \/ (SecretInHand /\ child'["secret"] = SecretWritten)
    BY <2>0, <2>3, WriteType DEF NoWrite, Kinds
  <2>5. Lost' \subseteq Lost /\ (Inherited' => Inherited) /\ ~Outdated'
    BY <2>1, <2>2, <2>3, <2>4 DEF Lost, Inherited, Outdated
  <2>6. \/ Calm /\ child'["secret"].token = token
        \/ \E kind : Fault(kind)
    <3>1. CASE Fault("kubeError")
      BY <3>1
    <3>2. CASE CacheRead("secret") /\ ~Fault("staleCache")
      <4>1. Calm /\ "secret" \notin behind /\ cache["secret"] = child["secret"]
        BY <3>2, ReadFaults, CalmRead DEF Kinds
      <4>2. SecretInHand
        BY <4>1 DEF SecretInHand
      <4>3. \/ cache["secret"].token = token /\ NoWrite
            \/ Write("secret", SecretWritten)
            \/ Fault("kubeError")
        BY <1>7, <4>2 DEF WriteSecret
      <4> QED BY <2>3, <4>1, <4>3, WriteType DEF NoWrite, Kinds
    <3>3. CASE Fault("staleCache")
      BY <3>3
    <3> QED BY <1>7, <3>1, <3>2, <3>3 DEF WriteSecret
  <2>7. child'["secret"].token = token => (GoesAstray' => GoesAstray)
    BY <2>1, <2>2 DEF GoesAstray, Missed, Removed
  <2> QED BY <2>1, <2>5, <2>6, <2>7, Owes
<1>8. CASE Deregister
  <2>1. /\ pc = "deregister" /\ pc' \in {"idle", "release"} /\ UNCHANGED <<lives, child, apiScope>>
        /\ CacheRead("secret") /\ obj'.id = obj.id /\ obj'.uid = obj.uid
        /\ hand.id = obj.id /\ hand.managed = obj.managed
    BY <1>8 DEF Deregister, Again, EndPass, TypeInv, TypeOK, Object, LifeInv, PassOnIt
  <2>2. LET t == cache["secret"].token
            due == hand.managed /\ hand.id # None
        IN  /\ registered' = IF due THEN registered \ Removed(t, hand.id) ELSE registered
            /\ pc' = "idle" => due /\ t = None /\ ~apiScope
    BY <1>8, <2>1 DEF Deregister, Again, EndPass
  <2>3. registered' \subseteq registered
    BY <2>2
  <2>4. Lost' \subseteq Lost /\ (Inherited' => Inherited) /\ ~Outdated'
    BY <2>1, <2>3 DEF Lost, Inherited, Outdated
  <2>5. CASE Calm
    <3>1. cache["secret"] = child["secret"]
      BY <2>1, <2>5, CalmRead DEF Kinds
    <3>2. obj.id # None => obj.managed
      BY DEF LifeInv
    <3>3. GoesAstray' => GoesAstray
      BY <2>1, <2>2, <3>1, <3>2, IdsAssumption DEF GoesAstray, Missed, Removed
    <3> QED BY <2>1, <2>4, <2>5, <3>3, Owes
  <2>6. CASE Fault("staleCache")
    BY <2>1, <2>4, <2>6, Owes
  <2> QED BY <2>1, <2>5, <2>6, ReadFaults
<1>9. CASE Release
  <2>1. /\ pc = "release" /\ pc' = "idle" /\ UNCHANGED <<lives, child, registered, apiScope>>
        /\ obj' = obj \/ (obj' = NoObject /\ Calm)
        /\ Calm \/ Fault("kubeError")
    BY <1>9 DEF Release, Again, EndPass
  <2>2. (GoesAstray <=> Known) /\ ~Outdated'
    BY <2>1 DEF GoesAstray, Outdated
  <2>3. CASE obj' = obj
    <3>1. Lost' \subseteq Lost /\ (Inherited' => Inherited) /\ (GoesAstray' => Known)
      BY <2>1, <2>3 DEF Lost, Inherited, GoesAstray, Missed
    <3> QED BY <2>1, <2>2, <3>1, Owes
  <2>4. CASE obj' = NoObject /\ Calm
    <3>1. Lost' \subseteq Lost \cup {obj.id} /\ (~Known => Lost' \subseteq Lost)
      BY <2>1, <2>4 DEF Lost
    <3>2. ~GoesAstray' /\ ~Inherited'
      BY <2>1, <2>4, Empties, IdsAssumption DEF GoesAstray, Missed, Inherited
    <3>3. faults' = faults /\ Allowed' = Allowed
      BY <2>1, <2>4 DEF Calm, Allowed
    <3>4. Debts' + Count(Known) <= Debts
      BY <2>2, <3>2 DEF Debts, Count
    <3>5. Debts' + Count(Known) + faults + Allowed <= Debts + faults' + Allowed'
      BY <1>0, <3>3, <3>4, Numbers, NumbersNext DEF Count
    <3> HIDE DEF Known
    <3> QED BY <3>1, <3>5, PaysFor
  <2> QED BY <2>1, <2>3, <2>4
<1>10. CASE CreateObject
  <2>1. /\ obj.uid = 0 /\ lives < MaxLives /\ Calm /\ lives' = lives + 1
        /\ UNCHANGED <<child, registered, apiScope, pc, token>>
    BY <1>10 DEF CreateObject
  <2>2. obj'.id = None /\ obj.id = None
    BY <1>10, <2>1, NewObjectType DEF CreateObject, LifeInv
  <2>3. pc \in {"idle", "finalizer"}
    BY <2>1 DEF LifeInv, PassOnIt, TypeInv, TypeOK, Uids
  <2>4. Lost' \subseteq Lost
    BY <2>1, <2>2 DEF Lost
  <2>5. ~GoesAstray' /\ ~Outdated'
    BY <2>1, <2>2, <2>3, IdsAssumption DEF GoesAstray, Missed, Outdated
  <2>6. Inherited' => ~apiScope /\ lives # 0
    BY <2>1 DEF Inherited, LifeInv
  <2>7. faults' = faults /\ Debts' <= 1 /\ (~Inherited' => Debts' = 0)
    BY <2>1, <2>5 DEF Calm, Debts, Count
  <2>8. Allowed <= Allowed' /\ (Inherited' => Allowed + 1 = Allowed')
    BY <1>0, <2>1, <2>6 DEF Allowed
  <2>9. Debts' + faults + Allowed <= Debts + faults' + Allowed'
    BY <1>0, <2>7, <2>8, Numbers, NumbersNext
  <2> QED BY <2>4, <2>9 DEF Charged
<1>11. CASE DeleteObject
  <2>1. UNCHANGED <<lives, child, registered, apiScope, pc, hand, found, token>> /\ obj.uid # 0
    BY <1>11 DEF DeleteObject
  <2>2. CASE obj.finalizer
    <3>1. obj'.id = obj.id /\ obj'.uid = obj.uid
      BY <1>11, <2>2 DEF DeleteObject, TypeInv, TypeOK, Object
    <3>2. /\ Lost' \subseteq Lost /\ (Inherited' => Inherited) /\ (GoesAstray' => GoesAstray)
      BY <2>1, <3>1 DEF Lost, Inherited, GoesAstray, Missed, Removed
    <3>3. CASE pc = "idle"
      <4>1. Calm /\ ~Outdated'
        BY <1>11, <2>1, <3>3 DEF DeleteObject, Outdated
      <4> QED BY <2>1, <3>2, <4>1, Owes
    <3>4. CASE pc # "idle"
      <4>1. faults' = faults + 1 /\ Allowed' = Allowed
        BY <1>11, <2>1, <3>4 DEF DeleteObject, Fault, Allowed
      <4>2. Debts' <= Debts + 1
        BY <3>2 DEF Debts, Count
      <4>3. Debts' + faults + Allowed <= Debts + faults' + Allowed'
        BY <1>0, <4>1, <4>2, Numbers, NumbersNext
      <4> QED BY <3>2, <4>3 DEF Charged
    <3> QED BY <3>3, <3>4
  <2>3. CASE ~obj.finalizer
    <3>1. obj.id = None /\ obj' = NoObject /\ obj'.id = None /\ obj'.uid = 0
      BY <1>11, <2>3, Empties DEF DeleteObject, LifeInv
    <3>2. pc \in {"idle", "finalizer"}
      BY <2>3 DEF LifeInv, PassOnIt
    <3>3. Lost' \subseteq Lost
      BY <2>1, <3>1 DEF Lost
    <3>4. ~GoesAstray' /\ ~Outdated' /\ ~Inherited'
      BY <2>1, <3>1, <3>2, IdsAssumption DEF GoesAstray, Missed, Outdated, Inherited
    <3>5. Calm \/ Fault("midPassDelete")
      BY <1>11 DEF DeleteObject
    <3> QED BY <2>1, <3>3, <3>4, <3>5, Owes
  <2> QED BY <2>2, <2>3
<1>12. CASE Crash
  <2>1. /\ pc' = "idle" /\ UNCHANGED <<obj, lives, child, registered, apiScope>>
        /\ faults' = faults + 1 /\ Allowed' = Allowed
    BY <1>12 DEF Crash, Again, EndPass, Fault, Allowed
  <2>2. ~Outdated' /\ (Inherited' <=> Inherited) /\ (GoesAstray' => Known)
    BY <2>1 DEF Outdated, Inherited, GoesAstray, Missed
  <2>3. Lost' \subseteq Lost \cup {token} /\ (pc # "persist" => Lost' \subseteq Lost)
    BY <2>1 DEF Lost
  <2>4. pc = "persist" => (GoesAstray' => GoesAstray)
    BY <2>2 DEF GoesAstray
  <2>5. Debts' + Count(pc = "persist") <= Debts + 1
    <3>1. CASE pc = "persist"
      <4>1. Debts' <= Debts
        BY <2>2, <2>4, <3>1, Owing
      <4> QED BY <3>1, <4>1, Numbers, NumbersNext DEF Count
    <3>2. CASE pc # "persist"
      <4>1. Debts' <= Debts + 1
        BY <2>2, Owing
      <4> QED BY <3>2, <4>1, Numbers, NumbersNext DEF Count
    <3> QED BY <3>1, <3>2
  <2>6. Debts' + Count(pc = "persist") + faults + Allowed <= Debts + faults' + Allowed'
    BY <1>0, <2>1, <2>5, Numbers, NumbersNext DEF Count
  <2> QED BY <2>3, <2>6, PaysFor
<1>13. ASSUME NEW k \in Kinds, Collect(k) PROVE Charged
  <2>1. /\ Calm /\ UNCHANGED <<obj, lives, registered, apiScope, pc, hand, found, token>>
        /\ child[k].owner \notin {0, obj.uid} /\ Write(k, NoChild)
    BY <1>13 DEF Collect
  <2>2. child'[k] = NoChild /\ (k # "secret" => child'["secret"] = child["secret"])
    BY <2>1, WriteType, Empties DEF Kinds
  <2>3. Lost' \subseteq Lost /\ (Outdated' <=> Outdated)
    BY <2>1 DEF Lost, Outdated, HandCurrent
  <2>4. CASE k # "secret"
    <3>1. (Inherited' => Inherited) /\ (GoesAstray' => GoesAstray)
      BY <2>1, <2>2, <2>4 DEF Inherited, GoesAstray, Missed, Removed
    <3> QED BY <2>1, <2>3, <3>1, Owes
  <2>5. CASE k = "secret"
    <3>1. ~Inherited' /\ child'["secret"].token = None
      BY <2>2, <2>5, Empties DEF Inherited
    <3>2. GoesAstray' => GoesAstray \/ Inherited
      <4>1. obj.uid = 0 => obj.id \notin Ids
        BY IdsAssumption DEF LifeInv
      <4> QED BY <2>1, <2>5, <3>1, <4>1 DEF GoesAstray, Inherited, Missed, Removed
    <3>3. faults' = faults /\ Allowed' = Allowed
      BY <2>1 DEF Calm, Allowed
    <3>4. Debts' <= Debts
      BY <2>3, <3>1, <3>2 DEF Debts, Count
    <3>5. Debts' + faults + Allowed <= Debts + faults' + Allowed'
      BY <1>0, <3>3, <3>4, Numbers, NumbersNext
    <3> QED BY <2>3, <3>5 DEF Charged
  <2> QED BY <2>4, <2>5
<1>14. CASE \/ UNCHANGED vars
            \/ \E k \in Kinds : Sync(k)
  <2>1. Calm /\ UNCHANGED <<obj, lives, child, registered, apiScope, pc, hand, found, token>>
    BY <1>14 DEF Sync, vars, Calm
  <2>2. /\ Lost' \subseteq Lost /\ (Inherited' => Inherited) /\ (GoesAstray' => GoesAstray)
        /\ (Outdated' => Outdated)
    BY <2>1 DEF Lost, Inherited, GoesAstray, Missed, Removed, Outdated, HandCurrent
  <2> QED BY <2>1, <2>2, Owes
<1> QED
  BY <1>1, <1>2, <1>3, <1>4, <1>5, <1>6, <1>7, <1>8, <1>9, <1>10, <1>11, <1>12, <1>13, <1>14
  DEF Next, Pass, CreateAccount, CreateBinding

\* The account stays balanced.
LEMMA AccountStep ==
  ASSUME TypeInv, TypeInv', Account, Charged
  PROVE  Account'
<1>1. /\ faults \in Nat /\ Allowed \in Nat /\ Debts \in Nat
      /\ faults' \in Nat /\ Allowed' \in Nat /\ Debts' \in Nat
  BY Numbers, NumbersNext
<1>2. Cardinality(Lost) \in Nat
  BY FS_CardinalityType DEF Account
<1>3. CASE Lost' \subseteq Lost /\ Debts' + faults + Allowed <= Debts + faults' + Allowed'
  <2>1. IsFiniteSet(Lost') /\ Cardinality(Lost') <= Cardinality(Lost) /\ Cardinality(Lost') \in Nat
    BY <1>3, FS_Subset, FS_CardinalityType DEF Account
  <2>2. Cardinality(Lost) + Debts <= faults + Allowed
    BY DEF Account
  <2>3. Debts' + faults + Allowed <= Debts + faults' + Allowed'
    BY <1>3
  <2>4. PICK cc \in Nat, dd \in Nat, ff \in Nat, aa \in Nat :
          cc = Cardinality(Lost') /\ dd = Debts' /\ ff = faults' /\ aa = Allowed'
    BY <1>1, <2>1
  <2>5. cc <= Cardinality(Lost) /\ dd + faults + Allowed <= Debts + ff + aa
    BY <2>1, <2>3, <2>4
  <2>6. cc \in Nat /\ dd \in Nat /\ ff \in Nat /\ aa \in Nat
    BY <2>4
  <2>7. cc + dd <= ff + aa
    BY <1>1, <1>2, <2>2, <2>5, <2>6
  <2> QED BY <2>1, <2>4, <2>7 DEF Account
<1>4. ASSUME NEW x, Lost' \subseteq Lost \cup {x},
             Debts' + 1 + faults + Allowed <= Debts + faults' + Allowed'
      PROVE  Account'
  <2>1. /\ IsFiniteSet(Lost \cup {x})
        /\ Cardinality(Lost \cup {x}) = IF x \in Lost THEN Cardinality(Lost) ELSE Cardinality(Lost) + 1
    BY FS_AddElement DEF Account
  <2>2. IsFiniteSet(Lost') /\ Cardinality(Lost') <= Cardinality(Lost \cup {x})
    BY <1>4, <2>1, FS_Subset
  <2>3. Cardinality(Lost') \in Nat
    BY <2>2, FS_CardinalityType
  <2>4. Cardinality(Lost) + Debts <= faults + Allowed
    BY DEF Account
  <2>5. Cardinality(Lost') <= Cardinality(Lost) + 1
    BY <1>2, <2>1, <2>2, <2>3
  <2>6. PICK cc \in Nat, dd \in Nat, ff \in Nat, aa \in Nat :
          cc = Cardinality(Lost') /\ dd = Debts' /\ ff = faults' /\ aa = Allowed'
    BY <1>1, <2>3
  <2>7. cc <= Cardinality(Lost) + 1 /\ dd + 1 + faults + Allowed <= Debts + ff + aa
    BY <1>4, <2>5, <2>6
  <2>8. cc \in Nat /\ dd \in Nat /\ ff \in Nat /\ aa \in Nat
    BY <2>6
  <2>9. cc + dd <= ff + aa
    BY <1>1, <1>2, <2>4, <2>7, <2>8
  <2> QED BY <2>2, <2>6, <2>9 DEF Account
<1> QED BY <1>3, <1>4 DEF Charged

\* Each object of the name after the first costs at most one runner, and each fault
\* one more, if the access token may not delete by id; and a fault one, if it may.
THEOREM LivesArePaidFor == Spec => []LeaksPerLife
<1> DEFINE Inv == LivesInv /\ LifeInv /\ Account
<1>1. Init => Inv
  <2> SUFFICES ASSUME Init PROVE Account
    BY InvInit, LifeInit
  <2>1. Lost = {} /\ obj.id = None /\ pc = "idle" /\ child["secret"] = NoChild
    BY IdsAssumption, Empties DEF Init, Lost, Kinds
  <2>2. ~GoesAstray /\ ~Outdated /\ ~Inherited
    BY <2>1, IdsAssumption, Empties DEF GoesAstray, Missed, Outdated, Inherited
  <2>3. IsFiniteSet(Lost) /\ Cardinality(Lost) = 0
    BY <2>1, FS_EmptySet
  <2> QED BY <2>2, <2>3 DEF Init, Account, Debts, Count, Allowed
<1>2. Inv /\ [Next]_vars => Inv'
  <2> SUFFICES ASSUME Inv, [Next]_vars PROVE Inv'
    OBVIOUS
  <2>1. LivesInv' /\ LifeInv'
    BY TypeStep, ChildStep, HandStep, TokenStep, CalmStep, RestStep, LifeStep DEF LivesInv
  <2>2. Charged
    BY <2>1, ChargedStep DEF LivesInv
  <2> QED BY <2>1, <2>2, AccountStep DEF LivesInv
<1>3. Inv => LeaksPerLife
  <2> SUFFICES ASSUME Inv PROVE LeaksPerLife
    OBVIOUS
  <2>1. Leaked \subseteq Lost
    BY DEF Leaked, Lost
  <2>2. Cardinality(Leaked) <= Cardinality(Lost) /\ Cardinality(Leaked) \in Nat /\ Cardinality(Lost) \in Nat
    BY <2>1, FS_Subset, FS_CardinalityType DEF Account
  <2>3. faults \in Nat /\ Allowed \in Nat /\ Debts \in Nat
    BY Numbers DEF LivesInv
  <2> QED BY <2>2, <2>3 DEF Account, LeaksPerLife, Allowed
<1> HIDE DEF Inv
<1> QED
  BY <1>1, <1>2, <1>3, PTL DEF Spec
=============================================================================
