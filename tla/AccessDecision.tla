---------------------------- MODULE AccessDecision ----------------------------
(***************************************************************************)
(* Who may pass: the ordered gates of services.Decide (decision.go) and    *)
(* the badge path in front of them, over a site's weekly calendar.         *)
(*                                                                         *)
(* The site's local time moves, and administrators change the day's        *)
(* holiday and the holder's groups.  "badge" is everything else that a     *)
(* decision reads, gathered once per badge.  The age of the offline cache  *)
(* is here only what GATE 10 asks of it: is it stale?                      *)
(***************************************************************************)
EXTENDS Integers, Sequences

CONSTANTS
  DayMinutes,    \* minutes in a day
  Schedules,     \* schedules that exist
  AlwaysOn,      \* those that have no hours
  Groups,        \* groups the holder may be granted the door by
  ScheduleOf,    \* the schedule of each group's grant, which may be gone
  WindowSets,    \* the weekly windows the schedules may have
  Badges         \* everything else that a decision may read

Days == 0..6
Holidays == {"none", "deny", "follow-sunday", "ignore"}
Windows == [day : Days, start : 0..DayMinutes - 1, end : 0..DayMinutes]
BadgeFields ==
  [ storeAnswers : BOOLEAN, enrolled : BOOLEAN, bound : BOOLEAN, decoded : BOOLEAN,
    enabled : BOOLEAN, online : BOOLEAN, sealedEnough : BOOLEAN, lockdown : BOOLEAN,
    card : {"unknown", "active", "revoked", "lost", "other"}, cardInDate : BOOLEAN,
    holder : {"none", "active", "other"}, holderInDate : BOOLEAN,
    pinSet : BOOLEAN, duressSet : BOOLEAN, entered : {"nothing", "pin", "duress", "other"},
    passbackOK : BOOLEAN,
    offline : BOOLEAN, servesOffline : BOOLEAN, stale : BOOLEAN, allowedOffline : BOOLEAN ]

ASSUME CalendarConstants ==
  /\ DayMinutes \in Nat \ {0}
  /\ AlwaysOn \subseteq Schedules
  /\ Groups = DOMAIN ScheduleOf
  /\ WindowSets \subseteq [Schedules -> SUBSET Windows]
  /\ Badges \subseteq BadgeFields

VARIABLES
  weekday, minute,   \* site-local time
  holiday,           \* today's entry in the site's calendar
  windows,           \* the windows of each schedule
  members,           \* the groups that grant this holder the door
  badge

calendar == <<weekday, minute, holiday, windows>>
accessVars == <<calendar, members, badge>>
-----------------------------------------------------------------------------
(***************************************************************************)
(* windowCovers and scheduleAllows.                                        *)
(***************************************************************************)
\* Mutant: the morning after belongs to the day the window starts on.
WindowCoversOwnMorning(w, day, now) ==
  \/ w.start < w.end /\ w.day = day /\ w.start <= now /\ now < w.end
  \/ w.start > w.end /\ w.day = day /\ (w.start <= now \/ now < w.end)

\* A window that ends before it starts wraps past midnight, and its morning
\* belongs to the next day.  One that ends as it starts covers nothing.
WindowCovers(w, day, now) ==
  \/ w.start < w.end /\ w.day = day /\ w.start <= now /\ now < w.end
  \/ w.start > w.end /\ w.day = day /\ w.start <= now
  \/ w.start > w.end /\ w.day = (day + 6) % 7 /\ now < w.end

\* The holiday calendar rewrites the day before any window is consulted.
DayInForce == IF holiday = "follow-sunday" THEN 0 ELSE weekday

InHours(schedule) ==
  \E w \in windows[schedule] : WindowCovers(w, DayInForce, minute)

\* Mutant: a schedule without hours does not ask for the holiday.
ScheduleAllowsAlways(schedule) ==
  /\ schedule \in Schedules
  /\ schedule \in AlwaysOn \/ (holiday # "deny" /\ InHours(schedule))

ScheduleAllows(schedule) ==
  /\ schedule \in Schedules
  /\ holiday # "deny"
  /\ schedule \in AlwaysOn \/ InHours(schedule)

HolidayBlocked(schedule) == schedule \in Schedules /\ holiday = "deny"

(***************************************************************************)
(* GATE 8: any grant that passes is enough.                                *)
(***************************************************************************)
\* Mutant: every group must allow it.
AllowedByAll(gs) == gs # {} /\ \A g \in gs : ScheduleAllows(ScheduleOf[g])
Allowed(gs) == \E g \in gs : ScheduleAllows(ScheduleOf[g])
BlockedByHoliday(gs) == \E g \in gs : HolidayBlocked(ScheduleOf[g])

(***************************************************************************)
(* GATE 6.  A duress PIN passes, and is told apart only afterwards.        *)
(***************************************************************************)
Duress(b) == b.pinSet /\ b.duressSet /\ b.entered = "duress"
\* Mutant: only the holder's own PIN opens the door.
BadPinUnderDuress(b) == b.pinSet /\ b.entered # "pin"
BadPin(b) == b.pinSet /\ b.entered # "pin" /\ ~Duress(b)

(***************************************************************************)
(* handleCard up to the decision, then the gates of Decide in their order. *)
(* The first gate that denies gives the reason.  Anti-passback is tried as *)
(* Decide has it; no caller computes a violation yet.                      *)
(***************************************************************************)
OfflineReasons == {"offline-denied", "offline-cache-expired", "offline-not-allowed"}

OnlineGates(b, gs) == <<
  [denies |-> ~b.enrolled,              reason |-> "reader-not-enrolled"],
  [denies |-> ~b.bound,                 reason |-> "door-disabled"],
  [denies |-> ~b.decoded,               reason |-> "unknown-credential"],
  [denies |-> ~b.storeAnswers,          reason |-> "unknown-credential"],
  [denies |-> ~b.enabled,               reason |-> "door-disabled"],
  [denies |-> ~b.online,                reason |-> "reader-offline"],
  [denies |-> ~b.sealedEnough,          reason |-> "secure-channel-failed"],
  [denies |-> b.lockdown,               reason |-> "lockdown"],
  [denies |-> b.card = "unknown",       reason |-> "unknown-credential"],
  [denies |-> b.card \in {"revoked", "lost"}, reason |-> "credential-revoked"],
  [denies |-> b.card = "other",         reason |-> "credential-inactive"],
  [denies |-> ~b.cardInDate,            reason |-> "credential-expired"],
  [denies |-> b.holder = "none",        reason |-> "unknown-credential"],
  [denies |-> b.holder = "other",       reason |-> "holder-suspended"],
  [denies |-> ~b.holderInDate,          reason |-> "holder-expired"],
  [denies |-> BadPin(b),                reason |-> "bad-pin"],
  [denies |-> gs = {},                  reason |-> "no-grant"],
  [denies |-> ~Allowed(gs) /\ BlockedByHoliday(gs), reason |-> "holiday"],
  [denies |-> ~Allowed(gs),             reason |-> "out-of-schedule"],
  [denies |-> ~b.passbackOK,            reason |-> "antipassback"] >>

\* GATE 10, last of all.
OfflineGates(b) == <<
  [denies |-> b.offline /\ ~b.servesOffline,  reason |-> "offline-denied"],
  [denies |-> b.offline /\ b.stale,           reason |-> "offline-cache-expired"],
  [denies |-> b.offline /\ ~b.allowedOffline, reason |-> "offline-not-allowed"] >>

\* Mutant: the offline rules come first.
OfflineGatesFirst(b, gs) == OfflineGates(b) \o OnlineGates(b, gs)
Gates(b, gs) == OnlineGates(b, gs) \o OfflineGates(b)

Denials(gates) == {i \in DOMAIN gates : gates[i].denies}
Granted(b, gs) == Denials(Gates(b, gs)) = {}

Reason(b, gs) ==
  LET gates == Gates(b, gs)
      denials == Denials(gates)
  IN  IF denials # {} THEN gates[CHOOSE i \in denials : \A j \in denials : i <= j].reason
      ELSE IF Duress(b) THEN "duress" ELSE "ok"
-----------------------------------------------------------------------------
\* Watched from some midnight on, by a holder who has no group yet.
AccessInit ==
  /\ weekday \in Days /\ minute = 0
  /\ holiday \in Holidays
  /\ windows \in WindowSets
  /\ members = {}
  /\ badge \in Badges

\* A minute passes; at midnight the calendar says what the new day is.
MinutePasses ==
  /\ minute + 1 < DayMinutes
  /\ minute' = minute + 1
  /\ UNCHANGED <<weekday, holiday, windows, members, badge>>

Midnight ==
  /\ minute + 1 = DayMinutes
  /\ minute' = 0
  /\ weekday' = (weekday + 1) % 7
  /\ holiday' \in Holidays
  /\ UNCHANGED <<windows, members, badge>>

\* An administrator declares today a holiday, or reopens the building.
CreateHoliday ==
  /\ holiday = "none"
  /\ holiday' \in Holidays \ {"none"}
  /\ UNCHANGED <<weekday, minute, windows, members, badge>>

DeleteHoliday ==
  /\ holiday # "none"
  /\ holiday' = "none"
  /\ UNCHANGED <<weekday, minute, windows, members, badge>>

\* An administrator adds the holder to a group that has the door, or removes
\* the holder from it.  Adding twice is a no-op.
JoinGroup(g) ==
  /\ g \notin members
  /\ members' = members \cup {g}
  /\ UNCHANGED <<calendar, badge>>

LeaveGroup(g) ==
  /\ g \in members
  /\ members' = members \ {g}
  /\ UNCHANGED <<calendar, badge>>

AccessNext ==
  \/ MinutePasses \/ Midnight \/ CreateHoliday \/ DeleteHoliday
  \/ \E g \in Groups : JoinGroup(g) \/ LeaveGroup(g)

AccessSpec == AccessInit /\ [][AccessNext]_accessVars
-----------------------------------------------------------------------------
\* The calendar and the facts stay within their types.
AccessTypeOK ==
  /\ weekday \in Days /\ minute \in 0..DayMinutes - 1
  /\ holiday \in Holidays
  /\ windows \in WindowSets
  /\ members \subseteq Groups
  /\ badge \in Badges

\* The week as one circle of minutes, on which a window is an arc.
Week == 7 * DayMinutes
ArcLength(w) == IF w.start <= w.end THEN w.end - w.start ELSE w.end - w.start + DayMinutes
OnArc(w, day, now) ==
  ((day * DayMinutes + now) - (w.day * DayMinutes + w.start) + Week) % Week < ArcLength(w)

\* decision.go:297-310: a window is one unbroken arc of the week, night shifts
\* included, and an empty one is empty: a zero-length window is the one place
\* where this gate could fail open.
WindowsAreArcs ==
  \A s \in Schedules : \A w \in windows[s] :
    WindowCovers(w, weekday, minute) <=> OnArc(w, weekday, minute)

PassesNow == Granted(badge, members)

\* decision.go:279-281: a holiday that closes the building closes it for everyone,
\* holders with a schedule without hours included.
HolidaysClose == holiday = "deny" => ~PassesNow

\* decision.go:178-180: a group added to a holder never takes access away, and
\* a group removed never gives any.
GrantsAreAdditive ==
  [][ UNCHANGED <<calendar, badge>> =>
        /\ members \subseteq members' /\ PassesNow => PassesNow'
        /\ members' \subseteq members /\ PassesNow' => PassesNow ]_accessVars

\* decision.go:204-208: somebody who would have been denied anyway is denied
\* for the real reason: an offline reason means that the same badge would pass online.
OfflineReasonIsTheRealOne ==
  Reason(badge, members) \in OfflineReasons
    => Granted([badge EXCEPT !.offline = FALSE], members)

\* decision.go:153-157: a coercer at the reader learns nothing: the duress PIN opens the door
\* exactly when the ordinary PIN does, and is refused for the same reason.
DuressLooksTheSame ==
  badge.pinSet /\ badge.duressSet =>
    LET calm == Reason([badge EXCEPT !.entered = "pin"], members)
        duress == Reason([badge EXCEPT !.entered = "duress"], members)
    IN  duress = IF calm = "ok" THEN "duress" ELSE calm
=============================================================================
