-------------------------- MODULE MCDoorFirstPerson --------------------------
(***************************************************************************)
(* The door machine with a history variable: how long ago somebody was     *)
(* last granted access, counted up to FreshSeconds and saturating there.   *)
(***************************************************************************)
EXTENDS DoorMachine

CONSTANT FreshSeconds   \* an arrival this old is no longer "first person in"

VARIABLE arrivalAge

fpVars == <<doorVars, arrivalAge>>

Arrival == ~lockdown /\ \E s \in GrantSeconds : Grant(s)

FPInit == Init /\ arrivalAge = FreshSeconds

FPNext ==
  \/ Arrival /\ arrivalAge' = 0
  \/ /\ Elapse
     /\ arrivalAge' = IF arrivalAge < FreshSeconds THEN arrivalAge + 1 ELSE arrivalAge
  \/ /\ \/ lockdown /\ \E s \in GrantSeconds : Grant(s)
        \/ RequestToExit
        \/ \E open \in BOOLEAN : ContactChanged(open)
        \/ Tick
        \/ \E on \in BOOLEAN : SetFreeAccessSchedule(on)
        \/ \E on \in BOOLEAN : SetLockdown(on)
     /\ UNCHANGED arrivalAge

FPSpec == FPInit /\ [][FPNext]_fpVars

\* What doorstate.go:312-316 promises of the schedule: a perimeter door does
\* not stand open on a day nobody came in, so when the schedule opens it
\* somebody's arrival is recent.
ScheduleNeedsAFreshArrival ==
  [][ RequiresFirstPerson /\ ~freeAccessActive /\ freeAccessActive'
        => arrivalAge' < FreshSeconds ]_fpVars
=============================================================================
