----------------------------- MODULE DoorMachine -----------------------------
(***************************************************************************)
(* One door of mypintusan: services.DoorMachine (doorstate.go).            *)
(*                                                                         *)
(* The machine is a monitor: every method takes its mutex, changes fields  *)
(* and returns the events it produced.  Each method is one action here,    *)
(* and the events a call returns are kept in evs until the next call, as a *)
(* set: no call returns an event twice and nobody depends on their order.  *)
(*                                                                         *)
(* Deadlines are kept as the time left, so the model has no horizon:       *)
(* "now.Before(deadline)" is "left > 0", and the zero time.Time that means *)
(* "no unlock timer" is NoTimer.  Elapse is one unit of wall-clock time.   *)
(* ContactSeen and ContactBound only feed the UI and are left out.         *)
(***************************************************************************)
EXTENDS Integers

CONSTANTS
  RequiresFirstPerson,  \* the door is perimeter or critical
  UnlockSeconds,        \* Door.StrikeSeconds(false), the ordinary strike time
  GrantSeconds,         \* strike times a decision may ask for (0 = default)
  ShuntSeconds,         \* how long after a grant or REX an opening is expected
  HeldOpenSeconds       \* Door.HeldOpenSeconds, 0 = held-open detection off

ASSUME DoorConstants ==
  /\ RequiresFirstPerson \in BOOLEAN
  /\ UnlockSeconds \in Nat \ {0}
  /\ GrantSeconds \subseteq Nat
  /\ ShuntSeconds \in Nat
  /\ HeldOpenSeconds \in Nat

VARIABLES
  state,                \* where the strike is
  contactOpen,          \* last reported door position
  unlockLeft,           \* time left on the unlock timer, or NoTimer
  shuntLeft,            \* time left in which an opening is expected
  openFor,              \* how long the contact has been open, saturating
  forcedActive, heldActive,
  lockdown,
  freeAccessScheduled,  \* the schedule's opinion
  freeAccessActive,     \* the door is standing open
  firstPersonIn,
  evs                   \* the events the last call returned

timers == <<unlockLeft, shuntLeft, openFor>>
contact == <<contactOpen, forcedActive, heldActive>>
freeAccess == <<freeAccessScheduled, freeAccessActive, firstPersonIn>>
doorVars == <<state, timers, contact, freeAccess, lockdown, evs>>

NoTimer == -1

DoorEvents == {"unlocked", "relocked", "forced", "heldOpen", "closed",
               "freeAccessBegan", "freeAccessEnded"}

\* The event e when the condition holds, nothing otherwise.
If(condition, e) == IF condition THEN {e} ELSE {}

\* A decision without a strike time of its own gets the door's.
StrikeTime(seconds) == IF seconds = 0 THEN UnlockSeconds ELSE seconds

\* NewDoorMachine: locked, closed, out of lockdown, no schedule.
FreshDoor ==
  /\ state = "locked"
  /\ contactOpen = FALSE /\ forcedActive = FALSE /\ heldActive = FALSE
  /\ unlockLeft = NoTimer /\ shuntLeft = 0 /\ openFor = 0
  /\ lockdown = FALSE
  /\ freeAccessScheduled = FALSE /\ freeAccessActive = FALSE
  /\ firstPersonIn = FALSE
  /\ evs = {}

\* A call that returns early, with nothing to report.
NoChange ==
  /\ evs' = {}
  /\ UNCHANGED <<state, timers, contact, freeAccess, lockdown>>
-----------------------------------------------------------------------------
(***************************************************************************)
(* Grant: a decision unlocked the door.  It is refused under lockdown      *)
(* whatever the caller decided, and it promotes a waiting schedule.        *)
(***************************************************************************)
Unlock(seconds) ==
  /\ state' = "unlocked"
  /\ unlockLeft' = StrikeTime(seconds)
  /\ shuntLeft' = ShuntSeconds
  /\ firstPersonIn' = TRUE
  /\ freeAccessActive' = (freeAccessActive \/ freeAccessScheduled)
  /\ evs' = {"unlocked"}
            \cup If(freeAccessScheduled /\ ~freeAccessActive, "freeAccessBegan")
  /\ UNCHANGED <<openFor, contact, lockdown, freeAccessScheduled>>

\* Mutant: a caller that trusts the decision and skips the lockdown check.
GrantIgnoringLockdown(seconds) == Unlock(seconds)

Grant(seconds) ==
  \/ lockdown /\ NoChange
  \/ ~lockdown /\ Unlock(seconds)

\* Someone is leaving: expect the door to open, unlock nothing.
RequestToExit ==
  /\ shuntLeft' = ShuntSeconds
  /\ evs' = {}
  /\ UNCHANGED <<state, unlockLeft, openFor, contact, freeAccess, lockdown>>

(***************************************************************************)
(* ContactChanged.  An opening nobody unlocked, shunted or scheduled is a  *)
(* forced door.  Closing clears both alarms and drops the strike.          *)
(***************************************************************************)
Expected == state = "unlocked" \/ shuntLeft > 0 \/ freeAccessActive

ContactOpened ==
  /\ ~contactOpen
  /\ contactOpen' = TRUE
  /\ openFor' = 0
  /\ forcedActive' = (forcedActive \/ ~Expected)
  /\ evs' = If(~Expected, "forced")
  /\ UNCHANGED <<state, unlockLeft, shuntLeft, heldActive, freeAccess, lockdown>>

RelockOnClose == state = "unlocked" /\ ~freeAccessActive

\* Mutant: closing the door clears the forced alarm only.
ClosedKeepingHeld ==
  /\ contactOpen
  /\ contactOpen' = FALSE
  /\ openFor' = 0
  /\ forcedActive' = FALSE
  /\ state' = IF RelockOnClose THEN "locked" ELSE state
  /\ unlockLeft' = IF RelockOnClose THEN NoTimer ELSE unlockLeft
  /\ evs' = {"closed"} \cup If(RelockOnClose, "relocked")
  /\ UNCHANGED <<shuntLeft, heldActive, freeAccess, lockdown>>

ContactClosed ==
  /\ contactOpen
  /\ contactOpen' = FALSE
  /\ openFor' = 0
  /\ forcedActive' = FALSE /\ heldActive' = FALSE
  /\ state' = IF RelockOnClose THEN "locked" ELSE state
  /\ unlockLeft' = IF RelockOnClose THEN NoTimer ELSE unlockLeft
  /\ evs' = {"closed"} \cup If(RelockOnClose, "relocked")
  /\ UNCHANGED <<shuntLeft, freeAccess, lockdown>>

ContactChanged(open) ==
  \/ open = contactOpen /\ NoChange
  \/ open /\ ContactOpened
  \/ ~open /\ ContactClosed

(***************************************************************************)
(* Tick: the controller's run loop calls it on its own timer.              *)
(***************************************************************************)
\* Mutants: the strike timer waits for the door to close; a forced door is
\* not watched for being held open.
UnlockExpiredOnceClosed ==
  state = "unlocked" /\ ~freeAccessActive /\ unlockLeft = 0 /\ ~contactOpen
HeldTooLongUnlessForced ==
  /\ HeldOpenSeconds > 0 /\ openFor = HeldOpenSeconds
  /\ contactOpen /\ ~heldActive /\ ~freeAccessActive /\ ~forcedActive

UnlockExpired == state = "unlocked" /\ ~freeAccessActive /\ unlockLeft = 0
HeldTooLong ==
  /\ HeldOpenSeconds > 0 /\ openFor = HeldOpenSeconds
  /\ contactOpen /\ ~heldActive /\ ~freeAccessActive

Tick ==
  /\ state' = IF UnlockExpired THEN "locked" ELSE state
  /\ unlockLeft' = IF UnlockExpired THEN NoTimer ELSE unlockLeft
  /\ heldActive' = (heldActive \/ HeldTooLong)
  /\ evs' = If(UnlockExpired, "relocked") \cup If(HeldTooLong, "heldOpen")
  /\ UNCHANGED <<shuntLeft, openFor, contactOpen, forcedActive, freeAccess, lockdown>>

(***************************************************************************)
(* SetFreeAccessSchedule.  A perimeter door waits, armed, for its first    *)
(* person; leaving the window relocks and forgets that person.             *)
(***************************************************************************)
\* Mutant: the schedule opens a perimeter door nobody has entered by.
WindowBeginsUnattended ==
  /\ freeAccessScheduled' = TRUE
  /\ freeAccessActive' = ~lockdown
  /\ state' = IF lockdown THEN state ELSE "unlocked"
  /\ evs' = IF lockdown THEN {} ELSE {"freeAccessBegan", "unlocked"}
  /\ UNCHANGED <<timers, contact, lockdown, firstPersonIn>>

WindowBegins ==
  /\ freeAccessScheduled' = TRUE
  /\ UNCHANGED <<timers, contact, lockdown, firstPersonIn>>
  /\ \/ /\ lockdown \/ (RequiresFirstPerson /\ ~firstPersonIn)
        /\ evs' = {}
        /\ UNCHANGED <<state, freeAccessActive>>
     \/ /\ ~lockdown /\ (RequiresFirstPerson => firstPersonIn)
        /\ freeAccessActive' = TRUE
        /\ state' = "unlocked"
        /\ evs' = {"freeAccessBegan", "unlocked"}

\* Mutant: the window ends and the strike is left to an unlock timer.
WindowEndsUnlocked ==
  /\ freeAccessScheduled' = FALSE
  /\ freeAccessActive' = FALSE
  /\ firstPersonIn' = FALSE
  /\ evs' = {"freeAccessEnded"}
  /\ UNCHANGED <<state, timers, contact, lockdown>>

WindowEnds ==
  /\ freeAccessScheduled' = FALSE
  /\ freeAccessActive' = FALSE
  /\ firstPersonIn' = FALSE
  /\ state' = IF freeAccessActive THEN "locked" ELSE state
  /\ evs' = {"freeAccessEnded"} \cup If(freeAccessActive, "relocked")
  /\ UNCHANGED <<timers, contact, lockdown>>

SetFreeAccessSchedule(on) ==
  \/ on = freeAccessScheduled /\ NoChange
  \/ on /\ ~freeAccessScheduled /\ WindowBegins
  \/ ~on /\ freeAccessScheduled /\ WindowEnds

(***************************************************************************)
(* SetLockdown overrides every grant and every schedule.  Lifting it does  *)
(* not restore free access, and forgets the first person.                  *)
(***************************************************************************)
\* Mutant: the relock is reported only for a door that was standing open.
LockdownBeginsUnreported ==
  /\ lockdown' = TRUE
  /\ freeAccessActive' = FALSE
  /\ state' = "locked"
  /\ unlockLeft' = IF state = "unlocked" THEN NoTimer ELSE unlockLeft
  /\ evs' = If(freeAccessActive, "freeAccessEnded") \cup If(freeAccessActive, "relocked")
  /\ UNCHANGED <<shuntLeft, openFor, contact, freeAccessScheduled, firstPersonIn>>

LockdownBegins ==
  /\ lockdown' = TRUE
  /\ freeAccessActive' = FALSE
  /\ state' = "locked"
  /\ unlockLeft' = IF state = "unlocked" THEN NoTimer ELSE unlockLeft
  /\ evs' = If(freeAccessActive, "freeAccessEnded") \cup If(state = "unlocked", "relocked")
  /\ UNCHANGED <<shuntLeft, openFor, contact, freeAccessScheduled, firstPersonIn>>

LockdownLifted ==
  /\ lockdown' = FALSE
  /\ firstPersonIn' = FALSE
  /\ evs' = {}
  /\ UNCHANGED <<state, timers, contact, freeAccessScheduled, freeAccessActive>>

SetLockdown(on) ==
  \/ on = lockdown /\ NoChange
  \/ on /\ ~lockdown /\ LockdownBegins
  \/ ~on /\ lockdown /\ LockdownLifted
-----------------------------------------------------------------------------
\* One unit of time passes; evs is kept, it belongs to the last call.
Elapse ==
  /\ unlockLeft' = IF unlockLeft > 0 THEN unlockLeft - 1 ELSE unlockLeft
  /\ shuntLeft' = IF shuntLeft > 0 THEN shuntLeft - 1 ELSE 0
  /\ openFor' = IF contactOpen /\ openFor < HeldOpenSeconds THEN openFor + 1 ELSE openFor
  /\ UNCHANGED <<state, contact, freeAccess, lockdown, evs>>

Init == FreshDoor

Next ==
  \/ \E s \in GrantSeconds : Grant(s)
  \/ RequestToExit
  \/ \E open \in BOOLEAN : ContactChanged(open)
  \/ Tick
  \/ \E on \in BOOLEAN : SetFreeAccessSchedule(on)
  \/ \E on \in BOOLEAN : SetLockdown(on)
  \/ Elapse

Spec == Init /\ [][Next]_doorVars

\* The run loop's ticker fires for as long as the controller lives, and
\* time passes.  Nothing obliges a person, a schedule or an operator to act.
FairSpec == Spec /\ WF_doorVars(Tick) /\ WF_doorVars(Elapse)
-----------------------------------------------------------------------------
FlagsTyped ==
  /\ contactOpen \in BOOLEAN /\ forcedActive \in BOOLEAN /\ heldActive \in BOOLEAN
  /\ lockdown \in BOOLEAN
  /\ freeAccessScheduled \in BOOLEAN /\ freeAccessActive \in BOOLEAN
  /\ firstPersonIn \in BOOLEAN

ValuesTyped ==
  /\ state \in {"locked", "unlocked"}
  /\ unlockLeft \in {NoTimer} \cup Nat
  /\ shuntLeft \in Nat
  /\ openFor \in 0..HeldOpenSeconds

\* Every field stays in its range; the open time never passes its cap.
TypeOK == FlagsTyped /\ ValuesTyped /\ evs \subseteq DoorEvents

\* While the door is in lockdown the strike is locked and nothing holds it
\* open: no order of grants, schedule changes and ticks gets around the seal.
Sealed == lockdown => state = "locked" /\ ~freeAccessActive

\* An unlocked strike is always on its way back: either a running timer will
\* drop it or a schedule that is still in force holds it.  A strike with
\* neither would stay released until somebody noticed.
StrikeHasAReason ==
  state = "unlocked" => freeAccessActive \/ unlockLeft # NoTimer

\* Standing open is the schedule's doing, and on a perimeter door it was
\* earned: the schedule alone, or the lifting of a lockdown, never opens it.
FreeAccessEarned ==
  freeAccessActive =>
    /\ state = "unlocked"
    /\ freeAccessScheduled
    /\ RequiresFirstPerson => firstPersonIn

\* Both alarms are about an open door, and a held-open alarm was never
\* raised before the threshold, whatever happened in between.
AlarmsAreAboutAnOpenDoor ==
  /\ forcedActive \/ heldActive => contactOpen
  /\ heldActive => openFor = HeldOpenSeconds /\ HeldOpenSeconds > 0
  /\ ~contactOpen => openFor = 0

StrikeReports ==
  /\ state = "locked" /\ state' = "unlocked"
       => "unlocked" \in evs' /\ "relocked" \notin evs'
  /\ state = "unlocked" /\ state' = "locked"
       => "relocked" \in evs' /\ "unlocked" \notin evs'

AlarmReports ==
  /\ ~forcedActive /\ forcedActive' => "forced" \in evs'
  /\ ~heldActive /\ heldActive' => "heldOpen" \in evs'
  /\ (forcedActive /\ ~forcedActive') \/ (heldActive /\ ~heldActive')
       => "closed" \in evs'

FreeAccessReports ==
  /\ ~freeAccessActive /\ freeAccessActive' => "freeAccessBegan" \in evs'
  /\ freeAccessActive /\ ~freeAccessActive' => "freeAccessEnded" \in evs'

CallReports == StrikeReports /\ AlarmReports /\ FreeAccessReports

\* The events are what the site log and the notifications are built from:
\* whenever the strike moves, that call says where to and does not say the
\* opposite; an alarm that appears or clears is in the report of its call;
\* and the log can tell when the door began and stopped standing open.
MovesAreReported == [][CallReports]_doorVars

\* A strike released for a person drops again, with or without a door
\* contact, unless people keep being granted access for ever.
StrikeDrops ==
  \/ []<><<\E s \in GrantSeconds : Grant(s)>>_doorVars
  \/ (state = "unlocked" /\ ~freeAccessActive) ~> (state = "locked" \/ freeAccessActive)

\* A door that stays open is eventually an alarm, however the opening came
\* about, unless it is standing open on a schedule.
HeldOpenIsNoticed ==
  HeldOpenSeconds > 0 =>
    (contactOpen ~> (~contactOpen \/ heldActive \/ freeAccessActive))
=============================================================================
