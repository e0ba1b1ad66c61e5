------------------------------ MODULE Refresh ------------------------------
(***************************************************************************)
(* The tokens of one object's managed runners and the time they live.      *)
(*                                                                         *)
(* GitLab may let a token expire.  A pass that finds a token within        *)
(* tokenRefreshThreshold of its expiry replaces the runner; a pass that    *)
(* finds nothing to do asks to be called again ahead of the soonest        *)
(* expiry, after a delay that resyncAfter clamps from both sides.  In      *)
(* between the operator may restart, which forgets that timer, and GitLab, *)
(* for some units or for all, or the API server may be out of reach.       *)
(*                                                                         *)
(* Written from ensureRunners, ensureManagedRunner, resyncAfter and        *)
(* persistRunner in internal/controller/shared.go, Reconcile of both       *)
(* controllers and StoreRunnerRegistration of both kinds.                  *)
(*                                                                         *)
(* Abstractions: a pass takes no time; a token, its runner and its expiry  *)
(* in the status are one (ManagedRunner has their steps and their caches); *)
(* time is what is left of each token and timer, so there is no clock.     *)
(***************************************************************************)
EXTENDS Naturals

CONSTANTS
  N,          \* the managed units, in the order of the spec
  Lifetimes,  \* how long a new token of GitLab's may live, in ticks
  Forever,    \* the life of a token without expiry; a timer that is not set
  Threshold,  \* tokenRefreshThreshold
  Lead,       \* tokenResyncLead
  MinResync,  \* minResyncInterval
  MaxResync   \* maxResyncInterval

Units == 1 .. N
ApiServer == 0

ASSUME UnitsAssumption == N \in Nat \ {0}
ASSUME LifetimesAssumption == Lifetimes \subseteq Nat \cup {Forever} /\ Forever \notin Nat
ASSUME IntervalsAssumption ==
  /\ Lead \in Nat /\ Threshold \in Nat
  /\ MinResync \in Nat \ {0} /\ MaxResync \in Nat /\ MinResync <= MaxResync
ASSUME ThresholdAssumption == Lead + MaxResync <= Threshold

VARIABLES
  left,     \* what is left of each unit's token by the status
  stored,   \* units whose present token is in the config Secret and accepted
  failing,  \* what does not answer: GitLab for some units, the API server
  up,       \* the operator runs
  queued,   \* the object waits for a pass
  timer,    \* when the work queue adds it by itself
  delay,    \* for how long a pass has been due but could not be made
  pc,       \* the step of the pass, "idle" between passes
  next,     \* the unit it handles
  soonest,  \* the soonest expiry it has seen
  fresh     \* the units whose runner it created

passVars == <<pc, next, soonest, fresh>>
vars == <<left, stored, failing, up, queued, timer, delay, passVars>>

Times == Nat \cup {Forever}

TypeOK ==
  /\ left \in [Units -> Times]
  /\ stored \in SUBSET Units /\ failing \in SUBSET (Units \cup {ApiServer})
  /\ up \in BOOLEAN /\ queued \in BOOLEAN
  /\ timer \in Times /\ delay \in 0 .. Threshold
  /\ pc \in {"idle", "ensure", "secret"}
  /\ next \in 1 .. N + 1 /\ (pc = "ensure" => next \in Units)
  /\ soonest \in Times /\ fresh \in SUBSET Units

-----------------------------------------------------------------------------
(* Time.                                                                   *)

Before(t, limit) == t # Forever /\ t < limit
Earlier(s, t) == IF s = Forever \/ Before(t, s) THEN t ELSE s

\* When to look at the object again: ahead of the soonest expiry, within bounds.
AheadOfExpiry(t) ==  \* bug: no upper bound
  IF t = Forever THEN Forever ELSE IF t < Lead + MinResync THEN MinResync ELSE t - Lead
ResyncAfter(t) ==
  CASE t = Forever -> Forever
    [] t # Forever /\ t < Lead + MinResync -> MinResync
    [] t # Forever /\ t > Lead + MaxResync -> MaxResync
    [] OTHER -> t - Lead

\* The token of a unit is to be replaced: it is near its expiry, or there is none.
MustReplace(u) == Before(left[u], Threshold) \/ u \notin stored

Elapsed(t) == IF t \in {Forever, 0} THEN t ELSE t - 1

\* Time passes between passes, and while a pass is due only if something keeps it
\* from being made.
Tick ==
  /\ pc = "idle" /\ (up /\ queued => failing # {})
  /\ left' = [u \in Units |-> Elapsed(left[u])]
  /\ timer' = IF timer = 1 THEN Forever ELSE Elapsed(timer)
  /\ queued' = (queued \/ timer = 1)
  /\ delay' = IF (up /\ ~queued) \/ delay = Threshold THEN delay ELSE delay + 1
  /\ UNCHANGED <<stored, failing, up, passVars>>

-----------------------------------------------------------------------------
(* The world around.                                                       *)

\* GitLab does not answer for a unit, or the API server does not.
Break(p) ==
  /\ p \notin failing
  /\ failing' = failing \cup {p}
  /\ UNCHANGED <<left, stored, up, queued, timer, delay, passVars>>

Recover(p) ==
  /\ p \in failing
  /\ failing' = failing \ {p}
  /\ UNCHANGED <<left, stored, up, queued, timer, delay, passVars>>

\* Something brings the object back, perhaps the loss of tokens: by an edit, or
\* because the Secret was deleted.
Disturb ==
  /\ stored' \in SUBSET stored
  /\ queued' = up
  /\ UNCHANGED <<left, failing, up, timer, delay, passVars>>

Rest == pc' = "idle" /\ next' = 1 /\ soonest' = Forever /\ fresh' = {}

\* The operator stops, in whatever step, and forgets its queue and its timers.
Stop ==
  /\ up /\ up' = FALSE
  /\ queued' = FALSE /\ timer' = Forever
  /\ Rest
  /\ UNCHANGED <<left, stored, failing, delay>>

Start ==
  /\ ~up /\ up' = TRUE
  /\ queued' = TRUE
  /\ UNCHANGED <<left, stored, failing, timer, delay, passVars>>

-----------------------------------------------------------------------------
(* A pass.                                                                 *)

Init ==
  /\ left = [u \in Units |-> Forever] /\ stored = {}
  /\ failing = {} /\ up = TRUE /\ queued = TRUE /\ timer = Forever /\ delay = 0
  /\ pc = "idle" /\ next = 1 /\ soonest = Forever /\ fresh = {}

Begin ==
  /\ pc = "idle" /\ queued
  /\ pc' = "ensure" /\ next' = 1 /\ queued' = FALSE
  /\ UNCHANGED <<left, stored, failing, up, timer, delay, soonest, fresh>>

\* The next unit, or the Secret after the last.
PastTheLast == next' = next + 1 /\ pc' = IF next > N THEN "secret" ELSE "ensure"  \* bug: one too far
Proceed == next' = next + 1 /\ pc' = IF next = N THEN "secret" ELSE "ensure"

\* The token is verified and kept.
KeepRunner(u) ==
  /\ pc = "ensure" /\ next = u /\ ~MustReplace(u) /\ u \notin failing
  /\ soonest' = Earlier(soonest, left[u])
  /\ Proceed
  /\ UNCHANGED <<left, stored, failing, up, queued, timer, delay, fresh>>

\* StoreRunnerRegistration: a token without expiry removes the old one's.
KeepsOldExpiry(u, life) ==  \* bug: the old expiry stays
  left' = IF life = Forever THEN left ELSE [left EXCEPT ![u] = life]
StoreRunnerRegistration(u, life) == left' = [left EXCEPT ![u] = life]

\* A runner is created, or replaced with its token: the one in the Secret is gone.
ReplaceRunner(u) ==
  /\ pc = "ensure" /\ next = u /\ MustReplace(u) /\ {u, ApiServer} \cap failing = {}
  /\ \E life \in Lifetimes :
       /\ StoreRunnerRegistration(u, life)
       /\ soonest' = Earlier(soonest, life)
  /\ stored' = stored \ {u} /\ fresh' = fresh \cup {u}
  /\ Proceed
  /\ UNCHANGED <<failing, up, queued, timer, delay>>

\* The first unit that fails ends the pass: the tokens of those before it are lost.
PassFails ==
  /\ \/ pc = "ensure" /\ (next \in failing \/ (MustReplace(next) /\ ApiServer \in failing))
     \/ pc = "secret" /\ fresh # {} /\ ApiServer \in failing
  /\ queued' = TRUE
  /\ Rest
  /\ UNCHANGED <<left, stored, failing, up, timer, delay>>

\* New tokens go to the Secret, and the next pass follows at once.
TokensWritten == stored \cup fresh

WriteSecret ==
  /\ pc = "secret" /\ fresh # {} /\ ApiServer \notin failing
  /\ stored' = TokensWritten
  /\ queued' = TRUE
  /\ Rest
  /\ UNCHANGED <<left, failing, up, timer, delay>>

\* Nothing to write: the pass returns its delay.  The work queue keeps the earlier
\* of two timers.
Settle ==
  /\ pc = "secret" /\ fresh = {}
  /\ timer' = Earlier(timer, ResyncAfter(soonest))
  /\ delay' = 0
  /\ Rest
  /\ UNCHANGED <<left, stored, failing, up, queued>>

-----------------------------------------------------------------------------

Pass ==
  \/ Begin \/ (\E u \in Units : KeepRunner(u) \/ ReplaceRunner(u))
  \/ PassFails \/ WriteSecret \/ Settle

Outside == Disturb \/ Stop \/ \E p \in Units \cup {ApiServer} : Break(p)

Next == Pass \/ Tick \/ Outside \/ Start \/ \E p \in Units \cup {ApiServer} : Recover(p)

Spec == Init /\ [][Next]_vars

\* A pass goes on, the operator is restarted, what failed recovers, and at some time
\* nothing disturbs the object any more.
FairSpec ==
  /\ Spec
  /\ WF_vars(Pass) /\ WF_vars(Start)
  /\ \A p \in Units \cup {ApiServer} : WF_vars(Recover(p))
  /\ <>[][~Outside]_vars

-----------------------------------------------------------------------------
(* Properties.                                                             *)

\* The tokens GitLab issues live longer than the threshold.
LongLived == \A life \in Lifetimes : ~Before(life, Threshold)

\* A token is replaced at most maxResyncInterval after it came within the threshold,
\* but for the time in which a due pass could not be made: so none expires in any
\* outage, restart or chain of failing units that is shorter than the threshold less
\* that interval, whichever events reset the timers in between.
InTime ==
  LongLived => \A u \in Units : left[u] # Forever => left[u] + MaxResync + delay >= Threshold

Resting == up /\ ~queued /\ pc = "idle"

\* The operator rests between checks: what it writes when it replaces runners does not
\* make it replace them again.
NeverBusy == []<>Resting
=============================================================================
