--------------------------- MODULE RefreshProofs ---------------------------
(***************************************************************************)
(* Refresh keeps its types and replaces tokens in time, for any number of  *)
(* units and any intervals that meet the assumptions.                      *)
(***************************************************************************)
EXTENDS Refresh, TLAPS

USE UnitsAssumption, LifetimesAssumption, IntervalsAssumption DEF Units, ApiServer, Times

\* The positions in the spec.
LEMMA Positions == 1 \in Units /\ 1 \in 1 .. N + 1 /\ \A u \in Units : u + 1 \in 1 .. N + 1
  OBVIOUS

\* The clamp: the delay is positive, and at most MaxResync if there is an expiry.
LEMMA ResyncAfterBounds ==
  ASSUME NEW t \in Times
  PROVE  /\ ResyncAfter(t) \in Times
         /\ t = Forever => ResyncAfter(t) = Forever
         /\ t # Forever => ResyncAfter(t) \in 1 .. MaxResync
<1>1. CASE t = Forever
  BY <1>1 DEF ResyncAfter
<1>2. CASE t \in Nat
  BY <1>2 DEF ResyncAfter
<1> QED
  BY <1>1, <1>2

\* What the earlier of two times is.
LEMMA EarlierIs ==
  ASSUME NEW s \in Times, NEW t \in Times
  PROVE  /\ Earlier(s, t) \in {s, t}
         /\ s # Forever => Earlier(s, t) # Forever /\ Earlier(s, t) <= s
         /\ t # Forever => Earlier(s, t) # Forever /\ Earlier(s, t) <= t
  BY DEF Earlier, Before

\* One tick of a time.
LEMMA ElapsedIs ==
  ASSUME NEW t \in Times
  PROVE  /\ Elapsed(t) \in Times
         /\ t = Forever => Elapsed(t) = Forever
         /\ t \in Nat => Elapsed(t) \in Nat /\ Elapsed(t) <= t /\ t <= Elapsed(t) + 1
  BY DEF Elapsed

\* After a unit comes the next, or the Secret.
LEMMA ProceedType ==
  ASSUME NEW u \in Units, next = u, Proceed
  PROVE  /\ pc' \in {"ensure", "secret"} /\ next' \in 1 .. N + 1
         /\ pc' = "ensure" => next' \in Units
         /\ pc' = "secret" => u = N
  BY DEF Proceed

-----------------------------------------------------------------------------
(* Types.                                                                  *)

\* A timer that is set has not fired: the delays asked for are positive.
TimerInv == timer # 0

TypeInv == TypeOK /\ TimerInv

\* The initial states have the types.
LEMMA TypeInit == Init => TypeInv
  BY DEF Init, TypeInv, TypeOK, TimerInv

\* Every step keeps the types.
LEMMA TypeStep ==
  ASSUME TypeInv, [Next]_vars
  PROVE  TypeInv'
<1> USE DEF TypeInv, TypeOK, TimerInv
<1>1. CASE Tick
  <2>1. left' \in [Units -> Times]
    BY <1>1, ElapsedIs DEF Tick
  <2>2. timer' \in Times /\ timer' # 0
    BY <1>1 DEF Tick, Elapsed
  <2>3. delay' \in 0 .. Threshold
    BY <1>1 DEF Tick
  <2> QED
    BY <1>1, <2>1, <2>2, <2>3 DEF Tick, passVars
<1>2. CASE Disturb
  BY <1>2 DEF Disturb, passVars
<1>3. CASE Stop
  <2>1. up' \in BOOLEAN /\ queued' \in BOOLEAN
    BY <1>3 DEF Stop
  <2>3. timer' \in Times /\ timer' # 0
    BY <1>3 DEF Stop
  <2>2. UNCHANGED <<left, stored, failing, delay>> /\ Rest
    BY <1>3 DEF Stop
  <2> QED
    BY <2>1, <2>2, <2>3, Positions DEF Rest
<1>4. CASE Start
  BY <1>4 DEF Start, passVars
<1>5. ASSUME NEW p \in Units \cup {ApiServer}, Break(p) \/ Recover(p)
      PROVE  TypeInv'
  BY <1>5 DEF Break, Recover, passVars
<1>6. CASE Begin
  BY <1>6, Positions DEF Begin
<1>7. ASSUME NEW u \in Units, KeepRunner(u)
      PROVE  TypeInv'
  <2>0. soonest' = Earlier(soonest, left[u]) /\ left[u] \in Times
    BY <1>7 DEF KeepRunner
  <2>1. soonest' \in Times
    BY <2>0 DEF Earlier
  <2>2. UNCHANGED <<left, stored, failing, up, queued, timer, delay, fresh>>
    BY <1>7 DEF KeepRunner
  <2> QED
    BY <1>7, <2>1, <2>2, ProceedType DEF KeepRunner
<1>8. ASSUME NEW u \in Units, ReplaceRunner(u)
      PROVE  TypeInv'
  <2>1. PICK life \in Lifetimes :
          StoreRunnerRegistration(u, life) /\ soonest' = Earlier(soonest, life)
    BY <1>8 DEF ReplaceRunner
  <2>2. life \in Times
    OBVIOUS
  <2>3. soonest' \in Times
    BY <2>1, <2>2, EarlierIs
  <2>4. left' \in [Units -> Times]
    BY <2>1, <2>2 DEF StoreRunnerRegistration
  <2>5. stored' \in SUBSET Units /\ fresh' \in SUBSET Units
        /\ UNCHANGED <<failing, up, queued, timer, delay>>
    BY <1>8 DEF ReplaceRunner
  <2> QED
    BY <1>8, <2>3, <2>4, <2>5, ProceedType DEF ReplaceRunner
<1>9. CASE PassFails
  BY <1>9, Positions DEF PassFails, Rest
<1>10. CASE WriteSecret
  BY <1>10, Positions DEF WriteSecret, TokensWritten, Rest
<1>11. CASE Settle
  <2>0. timer' = Earlier(timer, ResyncAfter(soonest)) /\ soonest \in Times
    BY <1>11 DEF Settle
  <2>4. ResyncAfter(soonest) \in Times /\ ResyncAfter(soonest) # 0
    BY <2>0, ResyncAfterBounds
  <2>1. timer' \in {timer, ResyncAfter(soonest)}
    BY <2>0, <2>4, EarlierIs
  <2> QED
    BY <1>11, <2>4, <2>1, Positions DEF Settle, Rest
<1>12. CASE UNCHANGED vars
  BY <1>12 DEF vars, passVars
<1> QED
  BY <1>1, <1>2, <1>3, <1>4, <1>5, <1>6, <1>7, <1>8, <1>9, <1>10, <1>11, <1>12
  DEF Next, Pass, Outside

\* Every reachable state has the types of TypeOK.
THEOREM TypeCorrect == Spec => []TypeOK
<1>1. TypeInv /\ [Next]_vars => TypeInv'
  BY TypeStep
<1>2. TypeInv => TypeOK
  BY DEF TypeInv
<1> QED
  BY TypeInit, <1>1, <1>2, PTL DEF Spec

-----------------------------------------------------------------------------
(* Tokens are replaced in time.                                            *)

\* A token is not late: what it may lack to the threshold is time in which a due pass
\* could not be made, and the delay after which a pass comes by itself.
OnTime(u) == left[u] # Forever => left[u] + MaxResync + delay >= Threshold

\* While the operator rests, a timer will call it before a token is late.
Watched(u) ==
  left[u] # Forever =>
    timer # Forever /\ timer <= MaxResync /\ left[u] + MaxResync >= Threshold + timer

\* What a pass has found of a unit: its runner is new, or its token is far from its expiry.
Checked(u) == u \in fresh \/ ~Before(left[u], Threshold)
Seen(u) == left[u] # Forever => soonest # Forever /\ soonest <= left[u]

RefreshInv ==
  /\ \A u \in Units : OnTime(u)
  /\ Resting => \A u \in Units : Watched(u)
  /\ pc = "ensure" => \A u \in Units : u < next => Checked(u) /\ Seen(u)
  /\ pc = "secret" => \A u \in Units : Checked(u) /\ Seen(u)

\* Nothing waits in an operator that does not run.
DownInv == ~up => pc = "idle" /\ ~queued /\ timer = Forever

IInv == TypeInv /\ DownInv /\ RefreshInv

\* The initial states satisfy the invariant.
LEMMA RefreshInit == Init => IInv
  BY TypeInit DEF IInv, RefreshInv, DownInv, OnTime, Watched, Resting, Init

\* Nothing but the pass and the time touches what RefreshInv is about.
LEMMA TimePasses ==
  ASSUME IInv, LongLived, Tick
  PROVE  RefreshInv'
<1> USE DEF IInv, TypeInv, TypeOK
<1>1. pc = "idle" /\ pc' = "idle" /\ up' = up
  BY DEF Tick, passVars
<1>2. ASSUME NEW u \in Units, left'[u] # Forever
      PROVE  left[u] \in Nat /\ left'[u] \in Nat /\ left'[u] <= left[u] /\ left[u] <= left'[u] + 1
  <2>1. left'[u] = Elapsed(left[u]) /\ left[u] \in Times
    BY DEF Tick
  <2> QED BY <1>2, <2>1 DEF Elapsed
<1>3. delay \in Nat /\ delay' \in Nat
  BY DEF Tick
<1>4. CASE Resting
  <2>1. delay' = delay
    BY <1>4 DEF Tick, Resting
  <2>2. ASSUME NEW u \in Units, left'[u] # Forever
        PROVE  /\ left'[u] + MaxResync >= Threshold
               /\ ~queued' => Watched(u)'
    <3>1. Watched(u) /\ left[u] \in Nat /\ left'[u] \in Nat /\ left'[u] + 1 >= left[u]
      BY <1>2, <1>4, <2>2 DEF RefreshInv
    <3>2. timer \in Nat /\ timer # 0 /\ timer <= MaxResync /\ left[u] + MaxResync >= Threshold + timer
      BY <3>1, <1>2, <2>2 DEF Watched, TimerInv
    <3>3. CASE timer = 1
      <4>1. queued'
        BY <3>3 DEF Tick
      <4> QED BY <3>1, <3>2, <3>3, <4>1
    <3>4. CASE timer # 1
      <4>1. timer' = timer - 1
        BY <3>2, <3>4 DEF Tick, Elapsed
      <4> QED BY <3>1, <3>2, <3>4, <4>1 DEF Watched
    <3> QED BY <3>3, <3>4
  <2>3. \A u \in Units : OnTime(u)'
    BY <1>2, <1>3, <2>2 DEF OnTime
  <2>4. Resting' => \A u \in Units : Watched(u)'
    BY <2>2 DEF Resting, Watched
  <2> QED BY <1>1, <2>3, <2>4 DEF RefreshInv
<1>5. CASE ~Resting
  <2>1. ~Resting'
    BY <1>1, <1>5 DEF Resting, Tick
  <2>2. (delay = Threshold /\ delay' = delay) \/ delay' = delay + 1
    BY <1>1, <1>5 DEF Tick, Resting
  <2>3. ASSUME NEW u \in Units PROVE OnTime(u)'
    BY <1>2, <1>3, <2>2 DEF OnTime, RefreshInv
  <2> QED BY <1>1, <2>1, <2>3 DEF RefreshInv
<1> QED BY <1>4, <1>5

\* A step that leaves alone the tokens, and what was seen of them, keeps the invariant if
\* it does not put the operator to rest.
LEMMA OthersKeep ==
  ASSUME IInv, UNCHANGED <<left, delay>>,
         \/ UNCHANGED passVars /\ up' = up
         \/ pc' = "idle",
         Resting' => Resting /\ UNCHANGED timer
  PROVE  RefreshInv'
<1> USE DEF IInv, TypeInv, TypeOK
<1>1. \A u \in Units : OnTime(u)'
  BY DEF RefreshInv, OnTime
<1>2. Resting' => \A u \in Units : Watched(u)'
  BY DEF RefreshInv, Watched
<1>3. CASE UNCHANGED passVars /\ up' = up
  <2>1. \A u \in Units : (Checked(u) <=> Checked(u)') /\ (Seen(u) <=> Seen(u)')
    BY <1>3 DEF Checked, Seen, passVars
  <2> QED BY <1>1, <1>2, <1>3, <2>1 DEF RefreshInv, passVars
<1>4. CASE pc' = "idle"
  BY <1>1, <1>2, <1>4 DEF RefreshInv
<1> QED BY <1>3, <1>4

\* A unit whose token is kept has been checked; so have those before it.
LEMMA KeptInTime ==
  ASSUME IInv, NEW u \in Units, KeepRunner(u)
  PROVE  RefreshInv'
<1> USE DEF IInv, TypeInv, TypeOK
<1>1. pc = "ensure" /\ next = u /\ soonest' = Earlier(soonest, left[u]) /\ Proceed
      /\ UNCHANGED <<left, up, delay, fresh>>
  BY DEF KeepRunner
<1>2. ASSUME NEW v \in Units, v <= u
      PROVE  Checked(v)' /\ Seen(v)'
  <2>1. CASE v = u
    <3>1. Checked(u)'
      BY <1>1 DEF KeepRunner, MustReplace, Checked
    <3>2. Seen(u)'
      BY <1>1 DEF Seen, Earlier, Before
    <3> QED BY <2>1, <3>1, <3>2
  <2>2. CASE v # u
    <3>1. v < next
      BY <1>1, <1>2, <2>2
    <3>2. Checked(v) /\ Seen(v)
      BY <1>1, <3>1 DEF RefreshInv
    <3>3. Checked(v)'
      BY <1>1, <3>2 DEF Checked
    <3>4. Seen(v)'
      BY <1>1, <3>2 DEF Seen, Earlier, Before
    <3> QED BY <3>3, <3>4
  <2> QED BY <2>1, <2>2
<1>3. pc' \in {"ensure", "secret"} /\ (pc' = "secret" => u = N) /\ next' = u + 1
  BY <1>1, ProceedType DEF Proceed
<1>4. \A v \in Units : OnTime(v)'
  BY <1>1 DEF RefreshInv, OnTime
<1>5. \A v \in Units : v < next' => v <= u
  BY <1>3
<1>6. pc' = "secret" => \A v \in Units : v <= u
  BY <1>3
<1> QED BY <1>1, <1>2, <1>3, <1>4, <1>5, <1>6 DEF RefreshInv, Resting

\* A new token lives longer than the threshold.
LEMMA ReplacedInTime ==
  ASSUME IInv, LongLived, NEW u \in Units, ReplaceRunner(u)
  PROVE  RefreshInv'
<1> USE DEF IInv, TypeInv, TypeOK
<1>1. PICK life \in Lifetimes :
        StoreRunnerRegistration(u, life) /\ soonest' = Earlier(soonest, life)
  BY DEF ReplaceRunner
<1>2. pc = "ensure" /\ next = u /\ fresh' = fresh \cup {u} /\ Proceed /\ UNCHANGED <<up, delay>>
  BY DEF ReplaceRunner
<1>3. life \in Times /\ (life # Forever => life >= Threshold)
  BY DEF LongLived, Before
<1>4. left'[u] = life /\ \A v \in Units : v # u => left'[v] = left[v]
  BY <1>1 DEF StoreRunnerRegistration
<1>5. ASSUME NEW v \in Units, v <= u
      PROVE  Checked(v)' /\ Seen(v)'
  <2>1. CASE v = u
    <3>1. Seen(u)'
      BY <1>1, <1>3, <1>4 DEF Seen, Earlier, Before
    <3> QED BY <1>2, <2>1, <3>1 DEF Checked
  <2>2. CASE v # u
    <3>1. v < next
      BY <1>2, <1>5, <2>2
    <3>2. Checked(v) /\ Seen(v)
      BY <1>2, <3>1 DEF RefreshInv
    <3>3. Checked(v)'
      BY <1>2, <1>4, <2>2, <3>2 DEF Checked
    <3>4. Seen(v)'
      BY <1>1, <1>3, <1>4, <2>2, <3>2 DEF Seen, Earlier, Before
    <3> QED BY <3>3, <3>4
  <2> QED BY <2>1, <2>2
<1>6. pc' \in {"ensure", "secret"} /\ (pc' = "secret" => u = N) /\ next' = u + 1
  BY <1>2, ProceedType DEF Proceed
<1>7. ASSUME NEW v \in Units PROVE OnTime(v)'
  <2>1. OnTime(v)
    BY DEF RefreshInv
  <2> QED BY <1>2, <1>3, <1>4, <2>1 DEF OnTime
<1>8. \A v \in Units : v < next' => v <= u
  BY <1>6
<1>9. pc' = "secret" => \A v \in Units : v <= u
  BY <1>6
<1> QED BY <1>2, <1>5, <1>6, <1>7, <1>8, <1>9 DEF RefreshInv, Resting

\* A pass that ends at rest has found every token far from its expiry, and set a timer
\* that is ahead of the soonest.
LEMMA SettledInTime ==
  ASSUME IInv, Settle
  PROVE  RefreshInv'
<1> USE DEF IInv, TypeInv, TypeOK
<1>1. timer' = Earlier(timer, ResyncAfter(soonest)) /\ delay' = 0 /\ pc' = "idle"
      /\ UNCHANGED left
  BY DEF Settle, Rest
<1>2. ASSUME NEW u \in Units, left[u] # Forever
      PROVE  left[u] \in Nat /\ left[u] >= Threshold /\ soonest # Forever
  BY <1>2 DEF Settle, RefreshInv, Checked, Seen, Before
<1>3. ASSUME soonest # Forever
      PROVE  timer' # Forever /\ timer' \in Nat /\ timer' <= MaxResync
  <2>1. ResyncAfter(soonest) \in 1 .. MaxResync
    BY <1>3, ResyncAfterBounds
  <2> QED BY <1>1, <2>1 DEF Earlier, Before
<1>4. \A u \in Units : OnTime(u)'
  BY <1>1, <1>2 DEF OnTime
<1>5. \A u \in Units : Watched(u)'
  BY <1>1, <1>2, <1>3 DEF Watched
<1> QED BY <1>1, <1>4, <1>5 DEF RefreshInv

\* Every step keeps the account of the time without passes.
LEMMA DownStep ==
  ASSUME TypeInv, DownInv, [Next]_vars
  PROVE  DownInv'
<1> USE DEF TypeInv, TypeOK, DownInv
<1>1. CASE Tick
  BY <1>1 DEF Tick, Elapsed, passVars
<1>2. CASE Disturb
  BY <1>2 DEF Disturb, passVars
<1>3. CASE Stop
  BY <1>3 DEF Stop, Rest
<1>4. CASE Start
  BY <1>4 DEF Start
<1>5. ASSUME NEW p \in Units \cup {ApiServer}, Break(p) \/ Recover(p)
      PROVE  DownInv'
  BY <1>5 DEF Break, Recover, passVars
<1>6. CASE Pass
  <2>1. up
    BY <1>6 DEF Pass, Begin, KeepRunner, ReplaceRunner, PassFails, WriteSecret, Settle
  <2>2. up' = up
    BY <1>6 DEF Pass, Begin, KeepRunner, ReplaceRunner, PassFails, WriteSecret, Settle
  <2> QED BY <2>1, <2>2
<1>7. CASE UNCHANGED vars
  BY <1>7 DEF vars, passVars
<1> QED BY <1>1, <1>2, <1>3, <1>4, <1>5, <1>6, <1>7 DEF Next, Outside

\* Every step keeps the invariant.
LEMMA RefreshStep ==
  ASSUME IInv, LongLived, [Next]_vars
  PROVE  IInv'
<1>0. TypeInv' /\ DownInv'
  BY TypeStep, DownStep DEF IInv
<1> SUFFICES RefreshInv'
  BY <1>0 DEF IInv
<1> USE DEF Resting
<1>1. CASE Tick
  BY <1>1, TimePasses
<1>2. CASE Disturb
  <2>1. ~Resting'
    BY <1>2 DEF Disturb
  <2> QED BY <1>2, <2>1, OthersKeep DEF Disturb
<1>3. CASE Stop
  BY <1>3, OthersKeep DEF Stop, Rest
<1>4. CASE Start
  <2>1. pc = "idle" /\ pc' = "idle"
    BY <1>4 DEF Start, IInv, DownInv, passVars
  <2> QED BY <1>4, <2>1, OthersKeep DEF Start
<1>5. ASSUME NEW p \in Units \cup {ApiServer}, Break(p) \/ Recover(p)
      PROVE  RefreshInv'
  <2>1. UNCHANGED <<left, delay, timer, up, queued, pc>> /\ UNCHANGED passVars
    BY <1>5 DEF Break, Recover, passVars
  <2> QED BY <2>1, OthersKeep
<1>6. CASE Begin
  <2>1. \A u \in Units : OnTime(u)'
    BY <1>6 DEF Begin, IInv, RefreshInv, OnTime
  <2>2. pc' = "ensure" /\ next' = 1
    BY <1>6 DEF Begin
  <2> QED BY <1>6, <2>1, <2>2 DEF Begin, RefreshInv
<1>7. ASSUME NEW u \in Units, KeepRunner(u) PROVE RefreshInv'
  BY <1>7, KeptInTime
<1>8. ASSUME NEW u \in Units, ReplaceRunner(u) PROVE RefreshInv'
  BY <1>8, ReplacedInTime
<1>9. CASE PassFails
  BY <1>9, OthersKeep DEF PassFails, Rest
<1>10. CASE WriteSecret
  BY <1>10, OthersKeep DEF WriteSecret, Rest
<1>11. CASE Settle
  BY <1>11, SettledInTime
<1>12. CASE UNCHANGED vars
  <2>1. UNCHANGED <<left, delay, timer, up, queued, pc>> /\ UNCHANGED passVars
    BY <1>12 DEF vars, passVars
  <2> QED BY <2>1, OthersKeep
<1> QED
  BY <1>1, <1>2, <1>3, <1>4, <1>5, <1>6, <1>7, <1>8, <1>9, <1>10, <1>11, <1>12
  DEF Next, Pass, Outside

\* The property follows from the invariant.
LEMMA InTimeFollows == IInv => InTime
  BY DEF IInv, RefreshInv, OnTime, InTime

\* No token expires before it is replaced, unless due passes could not be made for as long
\* as the threshold less the resync interval: InTime, in every reachable state.
THEOREM TokensInTime == Spec => []InTime
<1>1. CASE LongLived
  <2>1. IInv /\ [Next]_vars => IInv'
    BY <1>1, RefreshStep
  <2> QED BY RefreshInit, InTimeFollows, <2>1, PTL DEF Spec
<1>2. CASE ~LongLived
  <2>1. InTime
    BY <1>2 DEF InTime
  <2> QED BY <2>1, PTL
<1> QED BY <1>1, <1>2
=============================================================================
