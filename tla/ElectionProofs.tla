--------------------------- MODULE ElectionProofs ---------------------------
(***************************************************************************)
(* One leader at a time, for any number of instances and of faults and any *)
(* lease of three renewal intervals or more.                               *)
(*                                                                         *)
(* The argument: a leader that is not inside resign owns the key, and      *)
(* the key cannot run out under it.  As long as it reaches the store the   *)
(* renewal keeps the lease full; when it does not, the unit in which it is *)
(* cut off and the unit its next check outlasts cost the lease two units   *)
(* at most, and the check makes it stand down.                             *)
(***************************************************************************)
EXTENDS Election, TLAPS

Labels == {"idle", "checking", "lost", "releasing", "deleting", "trying", "won",
           "asking", "yielding", "resigned", "down"}

ElectionTypes ==
  /\ owner \in Instances \cup {None} /\ ttl \in Nat
  /\ pc \in [Instances -> Labels]
  /\ lapsed \in BOOLEAN

\* A leader that is not resigning owns the key, and its lock renews it.
LeaderOwns(i) ==
  /\ i \in leader => pc[i] \in {"idle", "checking", "lost", "asking", "yielding", "resigned"}
  /\ i \in leader \ Resigning => owner = i /\ i \in lock

\* So does an instance that has just won.
ClaimantOwns(i) == pc[i] = "won" => owner = i /\ ttl = LeaseTTL /\ i \in lock

\* What is left of a leader's lease.
LeaseLasts(i) ==
  i \in leader \ Resigning =>
    /\ ttl >= LeaseTTL - 2
    /\ i \notin cut => ttl = LeaseTTL
    /\ pc[i] = "idle" => ttl >= LeaseTTL - 1
    /\ i \in begun /\ pc[i] = "idle" => ttl = LeaseTTL
    /\ i \in begun /\ pc[i] \in {"checking", "lost"} => ttl >= LeaseTTL - 1

Held == /\ paused = {}
        /\ \A i \in Instances : LeaderOwns(i) /\ ClaimantOwns(i) /\ LeaseLasts(i)

IInv == /\ ElectionTypes
        /\ leader \subseteq Instances
        /\ lapsed \/ Held
-----------------------------------------------------------------------------
\* The invariant holds at the start.
LEMMA InitIInv == Init => IInv
<1> SUFFICES ASSUME Init PROVE IInv
  OBVIOUS
<1>1. ElectionTypes /\ leader \subseteq Instances
  BY DEF Init, ElectionTypes, Labels
<1>2. Held
  BY DEF Init, Held, LeaderOwns, ClaimantOwns, LeaseLasts
<1> QED BY <1>1, <1>2 DEF IInv

\* Every step of an instance, and everything that happens to one, keeps the
\* invariant.  A step of i leaves what is said of a leader j alone, unless it
\* takes the key, which nobody can while j owns it.
LEMMA InstanceKeeps ==
  ASSUME IInv, NEW i \in Instances,
         \/ Step(i) \/ TryLockAnswerLost(i) \/ Shutdown(i) \/ Crash(i) \/ Restart(i)
         \/ Cut(i) \/ Heal(i) \/ Pause(i) \/ Resume(i)
  PROVE IInv'
<1> USE NoInstance, LeaseOutlastsTwoChecks
    DEF IInv, ElectionTypes, Labels, Goto, At, storeVars, faultVars, Resigning
<1>1. CASE Attempt(i)
  <2>1. (ElectionTypes /\ leader \subseteq Instances)'
    BY <1>1 DEF Attempt
  <2>2. ASSUME ~lapsed' PROVE Held'
    BY <1>1, <2>2 DEF Attempt, Held, LeaderOwns, ClaimantOwns, LeaseLasts
  <2> QED BY <2>1, <2>2
<1>2. CASE Check(i)
  <2>1. (ElectionTypes /\ leader \subseteq Instances)'
    BY <1>2 DEF Check, Valid, Reaches
  <2>2. ASSUME ~lapsed' PROVE Held'
    BY <1>2, <2>2 DEF Check, Valid, Reaches, Held, LeaderOwns, ClaimantOwns, LeaseLasts
  <2> QED BY <2>1, <2>2
<1>3. CASE StandDown(i)
  <2>1. (ElectionTypes /\ leader \subseteq Instances)'
    BY <1>3 DEF StandDown
  <2>2. ASSUME ~lapsed' PROVE Held'
    BY <1>3, <2>2 DEF StandDown, Held, LeaderOwns, ClaimantOwns, LeaseLasts
  <2> QED BY <2>1, <2>2
<1>4. CASE Release(i)
  <2>1. (ElectionTypes /\ leader \subseteq Instances)'
    BY <1>4 DEF Release, Valid, Reaches
  <2>2. ASSUME ~lapsed' PROVE Held'
    BY <1>4, <2>2 DEF Release, Valid, Reaches, Held, LeaderOwns, ClaimantOwns, LeaseLasts
  <2> QED BY <2>1, <2>2
<1>5. CASE ReleaseDelete(i)
  <2>1. (ElectionTypes /\ leader \subseteq Instances)'
    BY <1>5 DEF ReleaseDelete, Delete, Reaches
  <2>2. ASSUME ~lapsed' PROVE Held'
    BY <1>5, <2>2 DEF ReleaseDelete, Delete, Reaches, Held, LeaderOwns, ClaimantOwns, LeaseLasts
  <2> QED BY <2>1, <2>2
<1>6. CASE TryLockWins(i)
  <2>1. (ElectionTypes /\ leader \subseteq Instances)'
    BY <1>6 DEF TryLockWins
  <2>2. ASSUME ~lapsed' PROVE Held'
    BY <1>6, <2>2 DEF TryLockWins, Held, LeaderOwns, ClaimantOwns, LeaseLasts
  <2> QED BY <2>1, <2>2
<1>7. CASE TryLockFails(i)
  <2>1. (ElectionTypes /\ leader \subseteq Instances)'
    BY <1>7 DEF TryLockFails
  <2>2. ASSUME ~lapsed' PROVE Held'
    BY <1>7, <2>2 DEF TryLockFails, Held, LeaderOwns, ClaimantOwns, LeaseLasts
  <2> QED BY <2>1, <2>2
<1>8. CASE TryLockAnswerLost(i)
  <2>1. (ElectionTypes /\ leader \subseteq Instances)'
    BY <1>8 DEF TryLockAnswerLost
  <2>2. ASSUME ~lapsed' PROVE Held'
    BY <1>8, <2>2 DEF TryLockAnswerLost, Held, LeaderOwns, ClaimantOwns, LeaseLasts
  <2> QED BY <2>1, <2>2
<1>9. CASE Lead(i)
  <2>1. (ElectionTypes /\ leader \subseteq Instances)'
    BY <1>9 DEF Lead
  <2>2. ASSUME ~lapsed' PROVE Held'
    BY <1>9, <2>2 DEF Lead, Held, LeaderOwns, ClaimantOwns, LeaseLasts
  <2> QED BY <2>1, <2>2
<1>10. CASE Resign(i)
  <2>1. (ElectionTypes /\ leader \subseteq Instances)'
    BY <1>10 DEF Resign
  <2>2. ASSUME ~lapsed' PROVE Held'
    BY <1>10, <2>2 DEF Resign, Held, LeaderOwns, ClaimantOwns, LeaseLasts
  <2> QED BY <2>1, <2>2
<1>11. CASE ResignAsks(i)
  <2>1. (ElectionTypes /\ leader \subseteq Instances)'
    BY <1>11 DEF ResignAsks
  <2>2. ASSUME ~lapsed' PROVE Held'
    BY <1>11, <2>2 DEF ResignAsks, Held, LeaderOwns, ClaimantOwns, LeaseLasts
  <2> QED BY <2>1, <2>2
<1>12. CASE ResignDeletes(i)
  <2>1. (ElectionTypes /\ leader \subseteq Instances)'
    BY <1>12 DEF ResignDeletes, Delete
  <2>2. ASSUME ~lapsed' PROVE Held'
    BY <1>12, <2>2 DEF ResignDeletes, Delete, Held, LeaderOwns, ClaimantOwns, LeaseLasts
  <2> QED BY <2>1, <2>2
<1>13. CASE Resigned(i)
  <2>1. (ElectionTypes /\ leader \subseteq Instances)'
    BY <1>13 DEF Resigned
  <2>2. ASSUME ~lapsed' PROVE Held'
    BY <1>13, <2>2 DEF Resigned, Held, LeaderOwns, ClaimantOwns, LeaseLasts
  <2> QED BY <2>1, <2>2
<1>14. CASE Shutdown(i)
  <2>1. (ElectionTypes /\ leader \subseteq Instances)'
    BY <1>14 DEF Shutdown, Fault
  <2>2. ASSUME ~lapsed' PROVE Held'
    BY <1>14, <2>2 DEF Shutdown, Fault, Held, LeaderOwns, ClaimantOwns, LeaseLasts
  <2> QED BY <2>1, <2>2
<1>15. CASE Crash(i)
  <2>1. (ElectionTypes /\ leader \subseteq Instances)'
    BY <1>15 DEF Crash, Fault
  <2>2. ASSUME ~lapsed' PROVE Held'
    BY <1>15, <2>2 DEF Crash, Fault, Held, LeaderOwns, ClaimantOwns, LeaseLasts
  <2> QED BY <2>1, <2>2
<1>16. CASE Restart(i)
  <2>1. (ElectionTypes /\ leader \subseteq Instances)'
    BY <1>16 DEF Restart
  <2>2. ASSUME ~lapsed' PROVE Held'
    BY <1>16, <2>2 DEF Restart, Held, LeaderOwns, ClaimantOwns, LeaseLasts
  <2> QED BY <2>1, <2>2
<1>17. CASE Cut(i)
  <2>1. (ElectionTypes /\ leader \subseteq Instances)'
    BY <1>17 DEF Cut, Fault
  <2>2. ASSUME ~lapsed' PROVE Held'
    BY <1>17, <2>2 DEF Cut, Fault, Held, LeaderOwns, ClaimantOwns, LeaseLasts
  <2> QED BY <2>1, <2>2
<1>18. CASE Heal(i)
  <2>1. (ElectionTypes /\ leader \subseteq Instances)'
    BY <1>18 DEF Heal
  <2>2. ASSUME ~lapsed' PROVE Held'
    BY <1>18, <2>2 DEF Heal, Held, LeaderOwns, ClaimantOwns, LeaseLasts
  <2> QED BY <2>1, <2>2
<1>19. CASE Pause(i)
  <2>1. (ElectionTypes /\ leader \subseteq Instances)'
    BY <1>19 DEF Pause, Fault
  <2>2. lapsed' BY <1>19 DEF Pause, Fault
  <2> QED BY <2>1, <2>2
<1>20. CASE Resume(i)
  <2>1. (ElectionTypes /\ leader \subseteq Instances)'
    BY <1>20 DEF Resume
  <2>2. ASSUME ~lapsed' PROVE Held'
    BY <1>20, <2>2 DEF Resume, Held, LeaderOwns, ClaimantOwns, LeaseLasts
  <2> QED BY <2>1, <2>2
<1> QED
  BY <1>1, <1>2, <1>3, <1>4, <1>5, <1>6, <1>7, <1>8, <1>9, <1>10,
     <1>11, <1>12, <1>13, <1>14, <1>15, <1>16, <1>17, <1>18, <1>19, <1>20
  DEF Step

\* A unit passes: the lease of a leader that reaches the store is renewed, and
\* that of one that does not outlasts its check.
LEMMA TickKeeps ==
  ASSUME IInv, Tick PROVE IInv'
<1> USE NoInstance, LeaseOutlastsTwoChecks DEF IInv, ElectionTypes, faultVars, Tick
<1>1. Remaining \in {LeaseTTL, 0, ttl - 1} /\ Remaining \in Nat
  BY DEF Remaining
<1>2. (ElectionTypes /\ leader \subseteq Instances)'
  BY <1>1
<1>3. ASSUME ~lapsed' PROVE Held'
  <2>1. Held /\ paused' = {}
    BY <1>3 DEF Held
  <2>2. ASSUME NEW i \in Instances PROVE (LeaderOwns(i) /\ ClaimantOwns(i) /\ LeaseLasts(i))'
    <3>1. pc[i] # "won"
      BY <2>1 DEF Timely, Held
    <3>2. ASSUME i \in leader \ Resigning
          PROVE /\ owner = i /\ i \in lock /\ i \in begun
                /\ i \notin cut => pc[i] = "idle"
                /\ pc[i] = "idle" => ttl = LeaseTTL
                /\ ttl >= LeaseTTL - 1 /\ pc[i] \in {"idle", "checking"}
      BY <2>1, <3>2 DEF Timely, Held, LeaderOwns, LeaseLasts, Resigning
    <3>3. ASSUME i \in leader \ Resigning
          PROVE /\ owner' = i
                /\ i \notin cut => ttl' = LeaseTTL
                /\ pc[i] = "idle" => ttl' >= LeaseTTL - 1
                /\ ttl' >= LeaseTTL - 2
      <4>1. i \notin cut => Remaining = LeaseTTL
        BY <2>1, <3>2, <3>3 DEF Renews, Remaining, Held
      <4>2. Remaining = LeaseTTL \/ Remaining = ttl - 1
        BY <3>2, <3>3 DEF Remaining
      <4> QED BY <3>2, <3>3, <4>1, <4>2
    <3>4. Resigning' = Resigning
      BY DEF Resigning
    <3> QED BY <2>1, <3>1, <3>2, <3>3, <3>4 DEF Held, LeaderOwns, ClaimantOwns, LeaseLasts
  <2> QED BY <2>1, <2>2 DEF Held
<1> QED BY <1>2, <1>3

\* The inductive invariant of the election.
THEOREM ElectionSafety == Spec => []IInv
<1>1. IInv /\ [Next]_vars => IInv'
  <2> SUFFICES ASSUME IInv, [Next]_vars PROVE IInv'
    OBVIOUS
  <2>1. CASE Tick BY <2>1, TickKeeps
  <2>2. CASE StoreDrops
    BY <2>2 DEF IInv, ElectionTypes, StoreDrops
  <2>3. CASE UNCHANGED vars
    BY <2>3 DEF IInv, ElectionTypes, Held, LeaderOwns, ClaimantOwns, LeaseLasts, vars,
                storeVars, faultVars, Resigning
  <2> QED BY <2>1, <2>2, <2>3, InstanceKeeps DEF Next
<1> QED BY InitIInv, <1>1, PTL DEF Spec

\* Work that must happen once is done by one instance: of those that are not
\* inside resign one leads at most, through crashes, restarts, shutdowns, lost
\* answers and partitions, but for the events a lease cannot survive
\* (leader.go, attempt and resign; redis.go, Valid and startRenewal).
THEOREM AtMostOneLeads == Spec => []OneLeader
<1>1. IInv => OneLeader
  BY DEF IInv, Held, LeaderOwns, OneLeader
<1> QED BY <1>1, ElectionSafety, PTL
=============================================================================
