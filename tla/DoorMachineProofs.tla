-------------------------- MODULE DoorMachineProofs --------------------------
(***************************************************************************)
(* What the door machine guarantees for every strike time, shunt time and  *)
(* held-open threshold.  Sealed and StrikeHasAReason are not inductive on  *)
(* their own: Sealed needs that lockdown took free access with it, and     *)
(* StrikeHasAReason that free access, when it ends, takes the strike with  *)
(* it (FreeAccessEarned).  DoorInv is the conjunction that is.             *)
(***************************************************************************)
EXTENDS DoorMachine, TLAPS

USE DEF timers, contact, freeAccess

\* What the configured times are.
LEMMA Constants ==
  /\ UnlockSeconds \in Nat \ {0} /\ ShuntSeconds \in Nat /\ HeldOpenSeconds \in Nat
  /\ \A s \in GrantSeconds : StrikeTime(s) \in Nat
BY DoorConstants DEF StrikeTime

\* Whatever the call, it reports nothing but the code's events.
LEMMA ReportTyped ==
  ASSUME evs \subseteq DoorEvents, [Next]_doorVars
  PROVE  evs' \subseteq DoorEvents
<1> USE DEF DoorEvents, If
<1>0. CASE NoChange
  BY <1>0 DEF NoChange
<1>1. ASSUME NEW s \in GrantSeconds, Grant(s) PROVE evs' \subseteq DoorEvents
  BY <1>1, <1>0 DEF Grant, Unlock
<1>2. CASE RequestToExit
  BY <1>2 DEF RequestToExit
<1>3. ASSUME NEW open \in BOOLEAN, ContactChanged(open) PROVE evs' \subseteq DoorEvents
  BY <1>3, <1>0 DEF ContactChanged, ContactOpened, ContactClosed
<1>4. CASE Tick
  BY <1>4 DEF Tick
<1>5. ASSUME NEW on \in BOOLEAN, SetFreeAccessSchedule(on) PROVE evs' \subseteq DoorEvents
  BY <1>5, <1>0 DEF SetFreeAccessSchedule, WindowBegins, WindowEnds
<1>6. ASSUME NEW on \in BOOLEAN, SetLockdown(on) PROVE evs' \subseteq DoorEvents
  <2>1. CASE LockdownBegins
    BY <2>1 DEF LockdownBegins
  <2> QED
    BY <1>6, <1>0, <2>1 DEF SetLockdown, LockdownLifted
<1>7. CASE Elapse
  BY <1>7 DEF Elapse
<1>8. CASE UNCHANGED doorVars
  BY <1>8 DEF doorVars
<1> QED
  BY <1>1, <1>2, <1>3, <1>4, <1>5, <1>6, <1>7, <1>8 DEF Next
-----------------------------------------------------------------------------
\* Every call, and the passing of time, keeps every field in its range.
THEOREM DoorTypeOK == Spec => []TypeOK
<1> USE DEF TypeOK
<1>1. Init => TypeOK
  <2> SUFFICES ASSUME Init PROVE TypeOK
    OBVIOUS
  <2>1. FlagsTyped
    BY DEF Init, FreshDoor, FlagsTyped
  <2>2. ValuesTyped
    BY Constants DEF Init, FreshDoor, ValuesTyped, NoTimer
  <2> QED
    BY <2>1, <2>2 DEF Init, FreshDoor
<1>2. TypeOK /\ [Next]_doorVars => TypeOK'
  <2> SUFFICES ASSUME TypeOK, [Next]_doorVars PROVE FlagsTyped' /\ ValuesTyped'
    BY ReportTyped
  <2>0. CASE NoChange
    BY <2>0 DEF NoChange, FlagsTyped, ValuesTyped
  <2>1. ASSUME NEW s \in GrantSeconds, Grant(s) PROVE FlagsTyped' /\ ValuesTyped'
    <3>1. CASE Unlock(s)
      <4>1. FlagsTyped'
        BY <3>1 DEF Unlock, FlagsTyped
      <4>2. ValuesTyped'
        BY <3>1, Constants DEF Unlock, ValuesTyped
      <4> QED
        BY <4>1, <4>2
    <3> QED
      BY <2>0, <2>1, <3>1 DEF Grant
  <2>2. CASE RequestToExit
    BY <2>2, Constants DEF RequestToExit, FlagsTyped, ValuesTyped
  <2>3. ASSUME NEW open \in BOOLEAN, ContactChanged(open) PROVE FlagsTyped' /\ ValuesTyped'
    <3>1. CASE ContactOpened
      <4>1. FlagsTyped'
        BY <3>1 DEF ContactOpened, FlagsTyped
      <4>2. ValuesTyped'
        BY <3>1, Constants DEF ContactOpened, ValuesTyped
      <4> QED
        BY <4>1, <4>2
    <3>2. CASE ContactClosed
      <4>1. FlagsTyped'
        BY <3>2 DEF ContactClosed, FlagsTyped
      <4>2. ValuesTyped'
        BY <3>2, Constants DEF ContactClosed, ValuesTyped, NoTimer
      <4> QED
        BY <4>1, <4>2
    <3> QED
      BY <2>0, <2>3, <3>1, <3>2 DEF ContactChanged
  <2>4. CASE Tick
    <3>1. FlagsTyped'
      BY <2>4 DEF Tick, FlagsTyped
    <3>2. ValuesTyped'
      BY <2>4 DEF Tick, ValuesTyped, NoTimer
    <3> QED
      BY <3>1, <3>2
  <2>5. ASSUME NEW on \in BOOLEAN, SetFreeAccessSchedule(on) PROVE FlagsTyped' /\ ValuesTyped'
    <3>1. CASE WindowBegins
      BY <3>1 DEF WindowBegins, FlagsTyped, ValuesTyped
    <3>2. CASE WindowEnds
      BY <3>2 DEF WindowEnds, FlagsTyped, ValuesTyped
    <3> QED
      BY <2>0, <2>5, <3>1, <3>2 DEF SetFreeAccessSchedule
  <2>6. ASSUME NEW on \in BOOLEAN, SetLockdown(on) PROVE FlagsTyped' /\ ValuesTyped'
    <3>1. CASE LockdownBegins
      BY <3>1 DEF LockdownBegins, FlagsTyped, ValuesTyped, NoTimer
    <3>2. CASE LockdownLifted
      BY <3>2 DEF LockdownLifted, FlagsTyped, ValuesTyped
    <3> QED
      BY <2>0, <2>6, <3>1, <3>2 DEF SetLockdown
  <2>7. CASE Elapse
    <3>1. FlagsTyped'
      BY <2>7 DEF Elapse, FlagsTyped
    <3>2. ValuesTyped'
      BY <2>7, Constants DEF Elapse, ValuesTyped, NoTimer
    <3> QED
      BY <3>1, <3>2
  <2>8. CASE UNCHANGED doorVars
    BY <2>8 DEF doorVars, FlagsTyped, ValuesTyped
  <2> QED
    BY <2>1, <2>2, <2>3, <2>4, <2>5, <2>6, <2>7, <2>8 DEF Next
<1> QED
  BY <1>1, <1>2, PTL DEF Spec
-----------------------------------------------------------------------------
(***************************************************************************)
(* The part of the invariant about the strike, and the part about alarms.  *)
(***************************************************************************)
StrikeInv == Sealed /\ StrikeHasAReason /\ FreeAccessEarned

DoorInv == TypeOK /\ StrikeInv /\ AlarmsAreAboutAnOpenDoor

\* Every call, and every tick, leaves each released strike with its reason.
LEMMA StrikeStep ==
  ASSUME TypeOK, StrikeInv, [Next]_doorVars
  PROVE  StrikeInv'
<1> USE DEF StrikeInv, Sealed, StrikeHasAReason, FreeAccessEarned
<1>t. FlagsTyped /\ ValuesTyped
  BY DEF TypeOK
<1>0. CASE NoChange
  BY <1>0 DEF NoChange
<1>1. ASSUME NEW s \in GrantSeconds, Grant(s) PROVE StrikeInv'
  <2>1. CASE Unlock(s) /\ ~lockdown
    <3>1. unlockLeft' # NoTimer
      BY <2>1, Constants DEF Unlock, NoTimer
    <3> QED
      BY <2>1, <3>1 DEF Unlock
  <2> QED
    BY <1>0, <1>1, <2>1 DEF Grant
<1>2. CASE RequestToExit
  BY <1>2 DEF RequestToExit
<1>3. ASSUME NEW open \in BOOLEAN, ContactChanged(open) PROVE StrikeInv'
  <2>1. CASE ContactOpened
    BY <2>1 DEF ContactOpened
  <2>2. CASE ContactClosed
    BY <2>2, <1>t DEF ContactClosed, RelockOnClose, ValuesTyped
  <2> QED
    BY <1>0, <1>3, <2>1, <2>2 DEF ContactChanged
<1>4. CASE Tick
  BY <1>4, <1>t DEF Tick, UnlockExpired, ValuesTyped
<1>5. ASSUME NEW on \in BOOLEAN, SetFreeAccessSchedule(on) PROVE StrikeInv'
  <2>1. CASE WindowBegins
    BY <2>1 DEF WindowBegins
  <2>2. CASE WindowEnds
    BY <2>2 DEF WindowEnds
  <2> QED
    BY <1>0, <1>5, <2>1, <2>2 DEF SetFreeAccessSchedule
<1>6. ASSUME NEW on \in BOOLEAN, SetLockdown(on) PROVE StrikeInv'
  <2>1. CASE LockdownBegins
    BY <2>1 DEF LockdownBegins
  <2>2. CASE LockdownLifted /\ lockdown
    BY <2>2 DEF LockdownLifted
  <2> QED
    BY <1>0, <1>6, <2>1, <2>2 DEF SetLockdown
<1>7. CASE Elapse
  <2>1. unlockLeft # NoTimer => unlockLeft' # NoTimer
    BY <1>7, <1>t DEF Elapse, ValuesTyped, NoTimer
  <2> QED
    BY <1>7, <2>1 DEF Elapse
<1>8. CASE UNCHANGED doorVars
  BY <1>8 DEF doorVars
<1> QED
  BY <1>1, <1>2, <1>3, <1>4, <1>5, <1>6, <1>7, <1>8 DEF Next

\* Every call, and every tick, leaves no alarm standing on a closed door.
LEMMA AlarmStep ==
  ASSUME TypeOK, AlarmsAreAboutAnOpenDoor, [Next]_doorVars
  PROVE  AlarmsAreAboutAnOpenDoor'
<1> USE DEF AlarmsAreAboutAnOpenDoor
<1>t. FlagsTyped /\ ValuesTyped
  BY DEF TypeOK
<1>0. CASE NoChange
  BY <1>0 DEF NoChange
<1>1. ASSUME NEW s \in GrantSeconds, Grant(s) PROVE AlarmsAreAboutAnOpenDoor'
  BY <1>0, <1>1 DEF Grant, Unlock
<1>2. CASE RequestToExit
  BY <1>2 DEF RequestToExit
<1>3. ASSUME NEW open \in BOOLEAN, ContactChanged(open)
      PROVE  AlarmsAreAboutAnOpenDoor'
  <2>1. CASE ContactOpened
    BY <2>1 DEF ContactOpened
  <2>2. CASE ContactClosed
    BY <2>2 DEF ContactClosed
  <2> QED
    BY <1>0, <1>3, <2>1, <2>2 DEF ContactChanged
<1>4. CASE Tick
  BY <1>4 DEF Tick, HeldTooLong
<1>5. ASSUME NEW on \in BOOLEAN, SetFreeAccessSchedule(on)
      PROVE  AlarmsAreAboutAnOpenDoor'
  BY <1>0, <1>5 DEF SetFreeAccessSchedule, WindowBegins, WindowEnds
<1>6. ASSUME NEW on \in BOOLEAN, SetLockdown(on) PROVE AlarmsAreAboutAnOpenDoor'
  BY <1>0, <1>6 DEF SetLockdown, LockdownBegins, LockdownLifted
<1>7. CASE Elapse
  BY <1>7, <1>t, Constants DEF Elapse, ValuesTyped
<1>8. CASE UNCHANGED doorVars
  BY <1>8 DEF doorVars
<1> QED
  BY <1>1, <1>2, <1>3, <1>4, <1>5, <1>6, <1>7, <1>8 DEF Next

\* Every named part of the invariant holds in every reachable state, for
\* every strike time, shunt time and threshold.
THEOREM DoorSafety == Spec => []DoorInv
<1>1. Init => StrikeInv /\ AlarmsAreAboutAnOpenDoor
  BY DEF Init, FreshDoor, StrikeInv, Sealed, StrikeHasAReason,
         FreeAccessEarned, AlarmsAreAboutAnOpenDoor
<1>2. TypeOK /\ StrikeInv /\ AlarmsAreAboutAnOpenDoor /\ [Next]_doorVars
        => StrikeInv' /\ AlarmsAreAboutAnOpenDoor'
  BY StrikeStep, AlarmStep
<1>3. TypeOK /\ StrikeInv /\ AlarmsAreAboutAnOpenDoor => DoorInv
  BY DEF DoorInv, StrikeInv
<1> QED
  BY <1>1, <1>2, <1>3, DoorTypeOK, PTL DEF Spec

\* The seal of a lockdown, on its own: what the operator was told.
THEOREM LockdownSeals == Spec => []Sealed
<1>1. DoorInv => Sealed
  BY DEF DoorInv, StrikeInv
<1> QED
  BY <1>1, DoorSafety, PTL

\* No strike is ever released with nothing that will drop it again.
THEOREM NoStrikeIsForgotten == Spec => []StrikeHasAReason
<1>1. DoorInv => StrikeHasAReason
  BY DEF DoorInv, StrikeInv
<1> QED
  BY <1>1, DoorSafety, PTL

\* A schedule never stands a perimeter door open that nobody has entered by.
THEOREM FreeAccessIsEarned == Spec => []FreeAccessEarned
<1>1. DoorInv => FreeAccessEarned
  BY DEF DoorInv, StrikeInv
<1> QED
  BY <1>1, DoorSafety, PTL

\* No forced or held-open alarm outlives the opening it is about.
THEOREM AlarmsNeedAnOpenDoor == Spec => []AlarmsAreAboutAnOpenDoor
<1>1. DoorInv => AlarmsAreAboutAnOpenDoor
  BY DEF DoorInv
<1> QED
  BY <1>1, DoorSafety, PTL

\* Every move of the strike, of an alarm and of free access is in the report
\* of the call that made it, so a log of the reports can be replayed.
THEOREM DoorReports == Spec => MovesAreReported
<1>1. TypeOK /\ FreeAccessEarned /\ [Next]_doorVars => [CallReports]_doorVars
  <2> SUFFICES ASSUME TypeOK, FreeAccessEarned, [Next]_doorVars,
                      doorVars' # doorVars
               PROVE  CallReports
    OBVIOUS
  <2> USE DEF CallReports, StrikeReports, AlarmReports, FreeAccessReports, If
  <2>t. FlagsTyped /\ state \in {"locked", "unlocked"}
    BY DEF TypeOK, ValuesTyped
  <2>0. CASE NoChange
    BY <2>0 DEF NoChange
  <2>1. ASSUME NEW s \in GrantSeconds, Grant(s) PROVE CallReports
    BY <2>0, <2>1, <2>t DEF Grant, Unlock, FlagsTyped
  <2>2. CASE RequestToExit
    BY <2>2 DEF RequestToExit
  <2>3. ASSUME NEW open \in BOOLEAN, ContactChanged(open) PROVE CallReports
    <3>1. CASE ContactOpened
      BY <2>t, <3>1 DEF ContactOpened, FlagsTyped
    <3>2. CASE ContactClosed
      BY <2>t, <3>2 DEF ContactClosed, RelockOnClose, FlagsTyped
    <3> QED
      BY <2>0, <2>3, <3>1, <3>2 DEF ContactChanged
  <2>4. CASE Tick
    BY <2>t, <2>4 DEF Tick, UnlockExpired, FlagsTyped
  <2>5. ASSUME NEW on \in BOOLEAN, SetFreeAccessSchedule(on) PROVE CallReports
    <3>1. CASE WindowBegins
      BY <2>t, <3>1 DEF WindowBegins, FlagsTyped
    <3>2. CASE WindowEnds
      BY <2>t, <3>2, FreeAccessEarned DEF WindowEnds, FreeAccessEarned
    <3> QED
      BY <2>0, <2>5, <3>1, <3>2 DEF SetFreeAccessSchedule
  <2>6. ASSUME NEW on \in BOOLEAN, SetLockdown(on) PROVE CallReports
    <3>1. CASE LockdownBegins
      BY <2>t, <3>1 DEF LockdownBegins, FlagsTyped
    <3>2. CASE LockdownLifted
      BY <3>2 DEF LockdownLifted
    <3> QED
      BY <2>0, <2>6, <3>1, <3>2 DEF SetLockdown
  <2>7. CASE Elapse
    BY <2>7 DEF Elapse
  <2> QED
    BY <2>1, <2>2, <2>3, <2>4, <2>5, <2>6, <2>7 DEF Next
<1>2. DoorInv => TypeOK /\ FreeAccessEarned
  BY DEF DoorInv, StrikeInv
<1> QED
  BY <1>1, <1>2, DoorSafety, PTL DEF Spec, MovesAreReported
=============================================================================
