------------------------------ MODULE Election ------------------------------
(***************************************************************************)
(* Which instance of an app does the background work: the campaign of      *)
(* infra/coordination/leader.go on the lease of redis.go (TryLock, Valid,  *)
(* Release and the renewal).                                               *)
(*                                                                         *)
(* Time passes in units of one RenewInterval, a third of the lease.  The   *)
(* retry period of the campaign is a little shorter, so that an instance   *)
(* that runs begins an attempt in each unit (now and then a second one,    *)
(* which is left out).  A call to a store that answers takes no time worth *)
(* counting; a call to one that does not is given up after CommandTimeout  *)
(* and may outlast the unit it began in, but ends in the next.  Release is *)
(* the exception: resign gives it five seconds, more than a unit of the    *)
(* default lease, and attempt no limit of its own, so its two calls may be *)
(* out for any number of units.                                            *)
(*                                                                         *)
(* The token of a lock is its instance: a new token is only written when   *)
(* the key is absent, so an instance has at most one in the store.         *)
(***************************************************************************)
EXTENDS Integers

CONSTANTS
  Instances, None,
  LeaseTTL,       \* the lease, in units
  MaxFaults       \* bound: how many faults happen

ASSUME NoInstance == None \notin Instances
\* LeaseTTL 10 s, RenewInterval LeaseTTL / 3, retry 3 s, CommandTimeout 2 s.
ASSUME LeaseOutlastsTwoChecks == LeaseTTL \in Nat /\ LeaseTTL >= 3
ASSUME FaultAssumption == MaxFaults \in Nat

VARIABLES
  owner, ttl,     \* the key in Redis and what is left of its lease
  pc,             \* where the campaign of each instance stands
  leader,         \* the instances whose isLeader is true
  lock,           \* the instances that hold a lock whose done is open
  stopping,       \* the instances whose context is cancelled
  begun,          \* the instances that began an attempt in this unit
  cut, paused,    \* the instances that cannot reach Redis, or stand still
  faults,
  lapsed          \* something happened that a lease cannot survive

storeVars == <<owner, ttl>>
faultVars == <<cut, paused, faults, lapsed>>
vars == <<storeVars, pc, leader, lock, stopping, begun, faultVars>>

Init ==
  /\ owner = None /\ ttl = 0
  /\ pc = [i \in Instances |-> "idle"]
  /\ leader = {} /\ lock = {} /\ stopping = {} /\ begun = {}
  /\ cut = {} /\ paused = {} /\ faults = 0 /\ lapsed = FALSE

Goto(i, l) == pc' = [pc EXCEPT ![i] = l]
At(i, l) == pc[i] = l /\ i \notin paused

-----------------------------------------------------------------------------
(* attempt.                                                                *)

\* The context of the campaign is good and the store answers.
Reaches(i) == i \notin cut \cup stopping

\* Mutant: an unreachable store is taken for a lease that still holds.
ValidFailsOpen(i) == Reaches(i) => owner = i

\* Valid: an unreachable store is reported as not held.
Valid(i) == Reaches(i) /\ owner = i

\* The ticker fires.
Attempt(i) ==
  /\ At(i, "idle") /\ i \notin begun
  /\ begun' = begun \cup {i}
  /\ Goto(i, IF i \in lock THEN "checking" ELSE "trying")
  /\ UNCHANGED <<storeVars, leader, lock, stopping, faultVars>>

Check(i) ==
  /\ At(i, "checking")
  /\ Goto(i, IF Valid(i) THEN "idle" ELSE "lost")
  /\ UNCHANGED <<storeVars, leader, lock, stopping, begun, faultVars>>

\* Stand down before trying again; Release begins by closing done, which ends
\* the renewal.
StandDown(i) ==
  /\ At(i, "lost")
  /\ leader' = leader \ {i} /\ lock' = lock \ {i}
  /\ Goto(i, "releasing")
  /\ UNCHANGED <<storeVars, stopping, begun, faultVars>>

\* Release asks who owns the key.
Release(i) ==
  /\ At(i, "releasing")
  /\ Goto(i, IF Valid(i) THEN "deleting" ELSE "trying")
  /\ UNCHANGED <<storeVars, leader, lock, stopping, begun, faultVars>>

\* Then, in a call of its own, it deletes the key, whoever owns it by now: the
\* key of another instance may be gone with it.  The call fails where the store
\* is out of reach or its context is over (ok).
Delete(i, ok, next) ==
  /\ owner' = IF ok THEN None ELSE owner
  /\ ttl' = IF ok THEN 0 ELSE ttl
  /\ lapsed' = (lapsed \/ (ok /\ owner \notin {i, None}))
  /\ Goto(i, next)
  /\ UNCHANGED <<leader, lock, stopping, begun, cut, paused, faults>>

ReleaseDelete(i) == At(i, "deleting") /\ Delete(i, Reaches(i), "trying")

\* TryLock, one SETNX: won,
TryLockWins(i) ==
  /\ At(i, "trying") /\ Reaches(i) /\ owner = None
  /\ owner' = i /\ ttl' = LeaseTTL
  /\ lock' = lock \cup {i}
  /\ Goto(i, "won")
  /\ UNCHANGED <<leader, stopping, begun, faultVars>>

\* not acquired, or no answer: not in charge.
TryLockFails(i) ==
  /\ At(i, "trying") /\ ~(Reaches(i) /\ owner = None)
  /\ leader' = leader \ {i}
  /\ Goto(i, "idle")
  /\ UNCHANGED <<storeVars, lock, stopping, begun, faultVars>>

\* The key is written and the answer is lost.
TryLockAnswerLost(i) ==
  /\ At(i, "trying") /\ i \notin cut /\ owner = None
  /\ faults < MaxFaults /\ faults' = faults + 1
  /\ owner' = i /\ ttl' = LeaseTTL
  /\ leader' = leader \ {i}
  /\ Goto(i, "idle")
  /\ UNCHANGED <<lock, stopping, begun, cut, paused, lapsed>>

Lead(i) ==
  /\ At(i, "won")
  /\ leader' = leader \cup {i}
  /\ Goto(i, "idle")
  /\ UNCHANGED <<storeVars, lock, stopping, begun, faultVars>>
-----------------------------------------------------------------------------
(* resign, with a context of its own, of five seconds.                     *)

Resign(i) ==
  /\ At(i, "idle") /\ i \in stopping
  /\ begun' = begun \cup {i}
  /\ lock' = lock \ {i}
  /\ Goto(i, IF i \in lock THEN "asking" ELSE "resigned")
  /\ UNCHANGED <<storeVars, leader, stopping, faultVars>>

ResignAsks(i) ==
  /\ At(i, "asking")
  /\ Goto(i, IF i \notin cut /\ owner = i THEN "yielding" ELSE "resigned")
  /\ UNCHANGED <<storeVars, leader, lock, stopping, begun, faultVars>>

ResignDeletes(i) == At(i, "yielding") /\ Delete(i, i \notin cut, "resigned")

\* The instances inside resign: they have given up the lock and isLeader still
\* says that they lead, for as long as Release takes.
Resigning == {i \in Instances : pc[i] \in {"asking", "yielding", "resigned"}}

\* set(false) comes last, and the campaign is over.
Resigned(i) ==
  /\ At(i, "resigned")
  /\ leader' = leader \ {i}
  /\ stopping' = stopping \ {i}
  /\ Goto(i, "down")
  /\ UNCHANGED <<storeVars, lock, begun, faultVars>>

Step(i) ==
  \/ Attempt(i) \/ Check(i) \/ StandDown(i) \/ Release(i) \/ ReleaseDelete(i)
  \/ TryLockWins(i) \/ TryLockFails(i) \/ Lead(i)
  \/ Resign(i) \/ ResignAsks(i) \/ ResignDeletes(i) \/ Resigned(i)
-----------------------------------------------------------------------------
(* Time.                                                                   *)

\* The renewal of i finds its own key and extends it.
Renews(i) == i \in lock /\ i \notin cut \cup paused /\ owner = i

\* Mutant: the key is written without a lease.
RemainingForever == ttl

\* What is left of the lease after another unit.
Remaining ==
  IF \E i \in Instances : Renews(i) THEN LeaseTTL
  ELSE IF ttl = 0 THEN 0 ELSE ttl - 1

\* A unit is over when every instance that runs has begun its attempt, those
\* that were told to stop have begun to resign, and only calls to a store that
\* does not answer are still out: the calls of Release from whenever it was, the
\* others from this unit.
Timely(i) ==
  \/ i \in paused
  \/ pc[i] = "down"
  \/ i \in cut /\ pc[i] \in {"releasing", "deleting", "asking", "yielding"}
  \/ /\ i \in begun
     /\ \/ pc[i] = "idle" /\ i \notin stopping
        \/ pc[i] \in {"checking", "trying"} /\ i \in cut

Tick ==
  /\ \A i \in Instances : Timely(i)
  /\ ttl' = Remaining
  /\ owner' = IF ttl' = 0 THEN None ELSE owner
  /\ begun' = {}
  /\ UNCHANGED <<pc, leader, lock, stopping, faultVars>>
-----------------------------------------------------------------------------
(* Faults.                                                                 *)

Fault == faults < MaxFaults /\ faults' = faults + 1

\* The app is asked to stop: the context of the campaign is cancelled.
Shutdown(i) ==
  /\ Fault
  /\ pc[i] # "down" /\ i \notin stopping
  /\ stopping' = stopping \cup {i}
  /\ UNCHANGED <<storeVars, pc, leader, lock, begun, cut, paused, lapsed>>

Crash(i) ==
  /\ Fault
  /\ pc[i] # "down"
  /\ Goto(i, "down")
  /\ leader' = leader \ {i} /\ lock' = lock \ {i} /\ stopping' = stopping \ {i}
  /\ paused' = paused \ {i}
  /\ UNCHANGED <<storeVars, begun, cut, lapsed>>

Restart(i) ==
  /\ pc[i] = "down"
  /\ Goto(i, "idle")
  /\ UNCHANGED <<storeVars, leader, lock, stopping, begun, faultVars>>

Cut(i) ==
  /\ Fault
  /\ i \notin cut
  /\ cut' = cut \cup {i}
  /\ UNCHANGED <<storeVars, pc, leader, lock, stopping, begun, paused, lapsed>>

\* An outage that ends before the instance has noticed it may have cost a
\* renewal and no check; a row of those can use up the lease.
Heal(i) ==
  /\ i \in cut
  /\ cut' = cut \ {i}
  /\ lapsed' = (lapsed \/ i \in leader \ Resigning)
  /\ UNCHANGED <<storeVars, pc, leader, lock, stopping, begun, paused, faults>>

\* A long collection, a suspended machine.
Pause(i) ==
  /\ Fault
  /\ pc[i] # "down" /\ i \notin paused
  /\ paused' = paused \cup {i}
  /\ lapsed' = TRUE
  /\ UNCHANGED <<storeVars, pc, leader, lock, stopping, begun, cut>>

Resume(i) ==
  /\ i \in paused
  /\ paused' = paused \ {i}
  /\ UNCHANGED <<storeVars, pc, leader, lock, stopping, begun, cut, faults, lapsed>>

StoreDrops ==
  /\ Fault
  /\ owner # None
  /\ owner' = None /\ ttl' = 0
  /\ lapsed' = TRUE
  /\ UNCHANGED <<pc, leader, lock, stopping, begun, cut, paused>>

Next ==
  \/ \E i \in Instances :
       \/ Step(i) \/ TryLockAnswerLost(i)
       \/ Shutdown(i) \/ Crash(i) \/ Restart(i) \/ Cut(i) \/ Heal(i)
       \/ Pause(i) \/ Resume(i)
  \/ Tick \/ StoreDrops

Spec == Init /\ [][Next]_vars

\* The campaign of a running instance goes on, time passes, and a process that
\* stands still goes on in the end.
Fairness ==
  /\ WF_vars(Tick)
  /\ \A i \in Instances : WF_vars(Step(i)) /\ WF_vars(Resume(i))

FairSpec == Spec /\ Fairness
-----------------------------------------------------------------------------
\* Work that must happen once is not done twice: of the instances that are not
\* on their way out (inside resign), one leads at most, through crashes,
\* restarts, shutdowns, lost answers and outages of the store, unless something
\* happened that a lease cannot survive: a stall, a key dropped by the store or
\* by another's late Release, an outage too short to be noticed.
OneLeader == lapsed \/ \A i, j \in leader \ Resigning : i = j

\* Once the faults are over and an instance that can reach the store stays up,
\* there is one leader, it is the only one, and it stays: a stalled former
\* leader notices, a key nobody holds runs out, a follower takes over.
Settles ==
  <>[](\E i \in Instances : pc[i] # "down" /\ i \notin cut)
    => <>[](\E i \in Instances : leader = {i})

\* "a moment with no leader rather than a moment with two" (leader.go).
NeverTwo == lapsed \/ \A i, j \in leader : i = j

\* "Releases locks only when the stored owner token matches" (redis.go.md): the
\* Release of an attempt, as long as nothing else has happened to the lease.
ReleasesItsOwnKey ==
  [][\A i \in Instances :
       ~lapsed /\ ReleaseDelete(i) => owner' = owner \/ owner = i]_vars
=============================================================================
