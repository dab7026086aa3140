----------------------------- MODULE AccessProofs -----------------------------
(***************************************************************************)
(* The access decision, for every calendar, every set of groups and every  *)
(* badge.  The gates are a sequence, so what is proved about a decision    *)
(* rests on three facts about sequences of gates: whether a concatenation  *)
(* denies, which of its parts denies first, and which gates an input can   *)
(* touch.                                                                  *)
(***************************************************************************)
EXTENDS AccessDecision, WellFoundedInduction, TLAPS

(***************************************************************************)
(* Types.                                                                  *)
(***************************************************************************)
\* The clock and the calendar stay within their types, and a decision always
\* reads a badge that the store could have produced.
THEOREM AccessTypes == AccessSpec => []AccessTypeOK
<1>1. AccessInit => AccessTypeOK
  BY CalendarConstants DEF AccessInit, AccessTypeOK, Days
<1>2. AccessTypeOK /\ [AccessNext]_accessVars => AccessTypeOK'
  <2> SUFFICES ASSUME AccessTypeOK, [AccessNext]_accessVars PROVE AccessTypeOK'
    OBVIOUS
  <2> USE CalendarConstants DEF AccessTypeOK, Days
  <2>1. CASE MinutePasses
    BY <2>1 DEF MinutePasses
  <2>2. CASE Midnight
    BY <2>2 DEF Midnight
  <2>3. CASE \E g \in Groups : JoinGroup(g) \/ LeaveGroup(g)
    BY <2>3 DEF JoinGroup, LeaveGroup, calendar
  <2>4. CASE CreateHoliday
    BY <2>4 DEF CreateHoliday
  <2>5. CASE DeleteHoliday
    BY <2>5 DEF DeleteHoliday, Holidays
  <2>6. CASE UNCHANGED accessVars
    BY <2>6 DEF accessVars, calendar
  <2> QED
    BY <2>1, <2>2, <2>3, <2>4, <2>5, <2>6 DEF AccessNext
<1> QED
  BY <1>1, <1>2, PTL DEF AccessSpec
-----------------------------------------------------------------------------
(***************************************************************************)
(* Sequences of gates.                                                     *)
(***************************************************************************)
\* Twenty gates up to GATE 9 and three of GATE 10; only the latter give an
\* offline reason, and no gate denies with a reason for a grant.
LEMMA GateShapes ==
  ASSUME NEW b, NEW gs
  PROVE  /\ Len(OnlineGates(b, gs)) = 20 /\ DOMAIN OnlineGates(b, gs) = 1..20
         /\ Len(OfflineGates(b)) = 3 /\ DOMAIN OfflineGates(b) = 1..3
         /\ \A i \in 1..20 : OnlineGates(b, gs)[i].reason \notin OfflineReasons \cup {"ok", "duress"}
         /\ \A i \in 1..3 : OfflineGates(b)[i].reason \notin {"ok", "duress"}
<1>1. Len(OnlineGates(b, gs)) = 20 /\ DOMAIN OnlineGates(b, gs) = 1..20
  BY DEF OnlineGates
<1>2. Len(OfflineGates(b)) = 3 /\ DOMAIN OfflineGates(b) = 1..3
  BY DEF OfflineGates
<1>3. \A i \in 1..20 : OnlineGates(b, gs)[i].reason \notin OfflineReasons \cup {"ok", "duress"}
  BY DEF OnlineGates, OfflineReasons
<1>4. \A i \in 1..3 : OfflineGates(b)[i].reason \notin {"ok", "duress"}
  BY DEF OfflineGates
<1> QED
  BY <1>1, <1>2, <1>3, <1>4

\* What stands where in a concatenation.
LEMMA Concatenation ==
  ASSUME NEW S, NEW s \in Seq(S), NEW t \in Seq(S)
  PROVE  /\ DOMAIN (s \o t) = 1..(Len(s) + Len(t))
         /\ \A i \in 1..Len(s) : (s \o t)[i] = s[i]
         /\ \A i \in 1..Len(t) : (s \o t)[i + Len(s)] = t[i]
  OBVIOUS

\* The gates are those twenty, then those three.
LEMMA GatesInOrder ==
  ASSUME NEW b, NEW gs
  PROVE  /\ DOMAIN Gates(b, gs) = 1..23
         /\ \A i \in 1..20 : Gates(b, gs)[i] = OnlineGates(b, gs)[i]
         /\ \A i \in 1..3 : Gates(b, gs)[i + 20] = OfflineGates(b)[i]
<1>1. PICK G : OnlineGates(b, gs) \in Seq(G) /\ OfflineGates(b) \in Seq(G)
  <2> DEFINE G == {OnlineGates(b, gs)[i] : i \in 1..20} \cup {OfflineGates(b)[i] : i \in 1..3}
  <2>1. /\ \A i \in 1..20 : OnlineGates(b, gs)[i] \in G
        /\ \A i \in 1..3 : OfflineGates(b)[i] \in G
    OBVIOUS
  <2> HIDE DEF G
  <2>2. OnlineGates(b, gs) \in Seq(G)
    BY <2>1 DEF OnlineGates
  <2>3. OfflineGates(b) \in Seq(G)
    BY <2>1 DEF OfflineGates
  <2> QED
    BY <2>2, <2>3
<1>2. LET on == OnlineGates(b, gs)
          off == OfflineGates(b)
      IN  /\ DOMAIN (on \o off) = 1..(Len(on) + Len(off))
          /\ \A i \in 1..Len(on) : (on \o off)[i] = on[i]
          /\ \A i \in 1..Len(off) : (on \o off)[i + Len(on)] = off[i]
  BY <1>1, Concatenation
<1>3. /\ DOMAIN Gates(b, gs) = 1..(Len(OnlineGates(b, gs)) + Len(OfflineGates(b)))
      /\ \A i \in 1..Len(OnlineGates(b, gs)) : Gates(b, gs)[i] = OnlineGates(b, gs)[i]
      /\ \A i \in 1..Len(OfflineGates(b)) :
           Gates(b, gs)[i + Len(OnlineGates(b, gs))] = OfflineGates(b)[i]
  BY <1>2 DEF Gates
<1>4. Len(OnlineGates(b, gs)) = 20 /\ Len(OfflineGates(b)) = 3
  BY GateShapes
<1> QED
  BY <1>3, <1>4

\* A badge is granted when no gate of either part denies it.
LEMMA GrantedByAllGates ==
  ASSUME NEW b, NEW gs
  PROVE  Granted(b, gs) <=> /\ \A i \in 1..20 : ~OnlineGates(b, gs)[i].denies
                            /\ \A i \in 1..3 : ~OfflineGates(b)[i].denies
<1>1. \A i \in 1..23 : i \in 1..20 \/ (i - 20 \in 1..3 /\ i = (i - 20) + 20)
  OBVIOUS
<1> QED
  BY <1>1, GatesInOrder DEF Granted, Denials
\* There is a first gate among those that deny, and it is the one that gives
\* the reason.
LEMMA FirstDenial ==
  ASSUME NEW denials, denials \subseteq Nat, denials # {}
  PROVE  LET first == CHOOSE i \in denials : \A j \in denials : i <= j
         IN  first \in denials /\ \A j \in denials : first <= j
<1>1. PICK i \in denials : \A j \in denials : <<j, i>> \notin OpToRel(<, Nat)
  BY WFMin, NatLessThanWellFounded, Zenon
<1>2. \A j \in denials : ~(j < i)
  BY <1>1 DEF OpToRel
<1>3. \A j \in denials : i <= j
  BY <1>2
<1> QED
  BY <1>3
-----------------------------------------------------------------------------
(***************************************************************************)
(* Decisions.                                                              *)
(***************************************************************************)
\* GATES 7 and 8 are the only ones that read the groups: with more groups, a
\* badge that passed still does.
LEMMA MoreGroupsPass ==
  ASSUME NEW b, NEW gs, NEW hs, gs \subseteq hs, Granted(b, gs)
  PROVE  Granted(b, hs)
<1>1. /\ \A i \in 1..20 : ~OnlineGates(b, gs)[i].denies
      /\ \A i \in 1..3 : ~OfflineGates(b)[i].denies
  BY GrantedByAllGates
<1>2. ~OnlineGates(b, gs)[17].denies /\ ~OnlineGates(b, gs)[19].denies
  BY <1>1
<1>3. gs # {} /\ Allowed(gs)
  BY <1>2 DEF OnlineGates
<1>4. hs # {} /\ Allowed(hs)
  BY <1>3 DEF Allowed
<1>5. \A i \in 1..20 : ~OnlineGates(b, hs)[i].denies
  BY <1>1, <1>4 DEF OnlineGates
<1> QED
  BY <1>1, <1>5, GrantedByAllGates

\* The reason of a denial is that of its first gate; that of a grant tells
\* whether it was made under duress.
LEMMA ReasonOfDecision ==
  ASSUME NEW b, NEW gs
  PROVE  /\ Granted(b, gs) => Reason(b, gs) = IF Duress(b) THEN "duress" ELSE "ok"
         /\ ~Granted(b, gs) =>
              \E i \in Denials(Gates(b, gs)) :
                /\ Reason(b, gs) = Gates(b, gs)[i].reason
                /\ \A j \in Denials(Gates(b, gs)) : i <= j
<1>1. Denials(Gates(b, gs)) \subseteq Nat
  BY GatesInOrder DEF Denials
<1>2. CASE Denials(Gates(b, gs)) = {}
  BY <1>2 DEF Granted, Reason
<1>3. CASE Denials(Gates(b, gs)) # {}
  BY <1>1, <1>3, FirstDenial DEF Granted, Reason
<1> QED
  BY <1>2, <1>3

\* On a holiday that closes the building nobody passes, whatever their groups,
\* their schedules and their badge (decision.go:279-281).
THEOREM HolidayClosesEveryDoor == AccessSpec => []HolidaysClose
<1>1. HolidaysClose
  <2> SUFFICES ASSUME holiday = "deny" PROVE ~Granted(badge, members)
    BY DEF HolidaysClose, PassesNow
  <2>1. ~Allowed(members)
    BY DEF Allowed, ScheduleAllows
  <2>2. OnlineGates(badge, members)[19].denies
    BY <2>1 DEF OnlineGates
  <2> QED
    BY <2>2, GrantedByAllGates
<1> QED
  BY <1>1, PTL

\* GATE 10 denies nobody while the door is online.
LEMMA OnlineIgnoresGate10 ==
  ASSUME NEW b, ~b.offline
  PROVE  \A j \in 1..3 : ~OfflineGates(b)[j].denies
<1>1. ~OfflineGates(b)[1].denies /\ ~OfflineGates(b)[2].denies /\ ~OfflineGates(b)[3].denies
  BY DEF OfflineGates
<1> QED
  BY <1>1

\* An offline reason means that the badge would have passed online: GATE 10 is
\* the last (decision.go:204-208).
THEOREM OfflineHidesNothing == AccessSpec => []OfflineReasonIsTheRealOne
<1>1. AccessTypeOK => OfflineReasonIsTheRealOne
  <2> SUFFICES ASSUME badge \in BadgeFields, Reason(badge, members) \in OfflineReasons
               PROVE  Granted([badge EXCEPT !.offline = FALSE], members)
    BY CalendarConstants DEF AccessTypeOK, OfflineReasonIsTheRealOne
  <2> DEFINE online == [badge EXCEPT !.offline = FALSE]
  <2>1. ~Granted(badge, members)
    BY ReasonOfDecision DEF OfflineReasons
  <2>2. PICK i \in Denials(Gates(badge, members)) :
          /\ Reason(badge, members) = Gates(badge, members)[i].reason
          /\ \A j \in Denials(Gates(badge, members)) : i <= j
    BY <2>1, ReasonOfDecision
  <2>3. i \in 1..23 /\ i \notin 1..20
    BY <2>2, GatesInOrder, GateShapes DEF Denials
  <2>4. ASSUME NEW j \in 1..20 PROVE ~OnlineGates(badge, members)[j].denies
    <3>1. j \notin Denials(Gates(badge, members))
      BY <2>2, <2>3
    <3> QED
      BY <3>1, GatesInOrder DEF Denials
  <2>5. OnlineGates(online, members) = OnlineGates(badge, members)
    BY DEF OnlineGates, BadPin, Duress, BadgeFields
  <2>6. \A j \in 1..3 : ~OfflineGates(online)[j].denies
    <3>1. ~online.offline
      BY DEF BadgeFields
    <3> QED
      BY <3>1, OnlineIgnoresGate10
  <2> QED
    BY <2>4, <2>5, <2>6, GrantedByAllGates
<1> QED
  BY <1>1, AccessTypes, PTL

\* The duress PIN opens the door exactly when the ordinary one does, and is
\* refused for the same reason (decision.go:153-157).
THEOREM DuressIsSilent == AccessSpec => []DuressLooksTheSame
<1>1. AccessTypeOK => DuressLooksTheSame
  <2> DEFINE calm == [badge EXCEPT !.entered = "pin"]
             duress == [badge EXCEPT !.entered = "duress"]
  <2> SUFFICES ASSUME badge \in BadgeFields, badge.pinSet, badge.duressSet
               PROVE  Reason(duress, members)
                        = IF Reason(calm, members) = "ok" THEN "duress" ELSE Reason(calm, members)
    BY CalendarConstants DEF AccessTypeOK, DuressLooksTheSame
  <2>1. Duress(duress) /\ ~Duress(calm) /\ ~BadPin(duress) /\ ~BadPin(calm)
    BY DEF Duress, BadPin, BadgeFields
  <2>2. Gates(duress, members) = Gates(calm, members)
    <3>1. OnlineGates(duress, members) = OnlineGates(calm, members)
      <4>1. BadPin(duress) = BadPin(calm)
        BY <2>1 DEF BadPin
      <4>2. /\ duress.enrolled = calm.enrolled /\ duress.bound = calm.bound
            /\ duress.decoded = calm.decoded /\ duress.storeAnswers = calm.storeAnswers
            /\ duress.enabled = calm.enabled /\ duress.online = calm.online
            /\ duress.sealedEnough = calm.sealedEnough /\ duress.lockdown = calm.lockdown
            /\ duress.card = calm.card /\ duress.cardInDate = calm.cardInDate
            /\ duress.holder = calm.holder /\ duress.holderInDate = calm.holderInDate
            /\ duress.passbackOK = calm.passbackOK
        BY DEF BadgeFields
      <4> HIDE DEF duress, calm
      <4> QED
        BY <4>1, <4>2 DEF OnlineGates
    <3>2. OfflineGates(duress) = OfflineGates(calm)
      BY DEF OfflineGates, BadgeFields
    <3> QED
      BY <3>1, <3>2 DEF Gates
  <2>3. CASE Granted(calm, members)
    BY <2>1, <2>2, <2>3, ReasonOfDecision DEF Granted
  <2>4. CASE ~Granted(calm, members)
    <3>1. Reason(duress, members) = Reason(calm, members)
      <4>1. Denials(Gates(calm, members)) # {} /\ Denials(Gates(duress, members)) # {}
        BY <2>2, <2>4 DEF Granted
      <4> HIDE DEF duress, calm
      <4> QED
        BY <2>2, <4>1 DEF Reason
    <3>2. Reason(calm, members) # "ok"
      BY <2>4, ReasonOfDecision, GatesInOrder, GateShapes DEF Denials
    <3> QED
      BY <3>1, <3>2
  <2> QED
    BY <2>3, <2>4
<1> QED
  BY <1>1, AccessTypes, PTL

\* A group added to a holder never takes access away, and a group removed
\* never gives any, while the calendar and the badge stay (decision.go:178-180).
THEOREM GroupsOnlyAdd == AccessSpec => GrantsAreAdditive
<1>1. ASSUME UNCHANGED <<calendar, badge>>
      PROVE  PassesNow' <=> Granted(badge, members')
  BY <1>1 DEF PassesNow, Granted, Denials, Gates, OnlineGates, OfflineGates, Allowed,
     BlockedByHoliday,
     HolidayBlocked, ScheduleAllows, InHours, DayInForce, WindowCovers, BadPin, Duress, calendar
<1>2. ASSUME UNCHANGED <<calendar, badge>>, members \subseteq members', PassesNow
      PROVE  PassesNow'
  BY <1>1, <1>2, MoreGroupsPass DEF PassesNow
<1>3. ASSUME UNCHANGED <<calendar, badge>>, members' \subseteq members, PassesNow'
      PROVE  PassesNow
  BY <1>1, <1>3, MoreGroupsPass DEF PassesNow
<1>4. [ UNCHANGED <<calendar, badge>> =>
          /\ members \subseteq members' /\ PassesNow => PassesNow'
          /\ members' \subseteq members /\ PassesNow' => PassesNow ]_accessVars
  BY <1>2, <1>3
<1> QED
  BY <1>4, PTL DEF GrantsAreAdditive
-----------------------------------------------------------------------------
(***************************************************************************)
(* Windows.  A window and a moment are compared by how many days and how   *)
(* many minutes lie between them; the circle of the week then only has to  *)
(* be gone round once.                                                     *)
(***************************************************************************)
\* One turn of a circle of W minutes.
LEMMA OnceRound ==
  ASSUME NEW W \in Nat \ {0}, NEW x \in Int, -W <= x, x < W
  PROVE  (x + W) % W = IF x >= 0 THEN x ELSE x + W
<1> DEFINE r == (x + W) % W
           q == (x + W) \div W
<1>1. r \in 0..W - 1 /\ q \in Int /\ x + W = W * q + r
  OBVIOUS
<1>2. q \in {0, 1}
  <2>1. ASSUME q >= 2 PROVE FALSE
    <3>1. W * q >= W * 2 BY <1>1, <2>1
    <3> QED BY <1>1, <3>1
  <2>2. ASSUME q <= -1 PROVE FALSE
    <3>1. W * q <= W * (-1) BY <1>1, <2>2
    <3> QED BY <1>1, <3>1
  <2> QED BY <1>1, <2>1, <2>2
<1> QED
  BY <1>1, <1>2

\* The days between two days of the week, less than a week either way.
LEMMA DaysApart ==
  ASSUME NEW d \in Days, NEW e \in Days
  PROVE  /\ d - e \in -6..6
         /\ e = d <=> d - e = 0
         /\ e = (d + 6) % 7 <=> d - e \in {1, -6}
  BY DEF Days

\* The distance from the start of a window to a moment, for each number of
\* days between them: only the same day and the next are within a day's length.
LEMMA Distances ==
  ASSUME NEW D \in Nat \ {0}, NEW dd \in -6..6, NEW m \in Int, -D < m, m < D,
         NEW L \in Int, 0 <= L, L <= D
  PROVE  LET x == dd * D + m IN
         /\ -(7 * D) <= x /\ x < 7 * D
         /\ (IF x >= 0 THEN x ELSE x + 7 * D) < L
              <=> \/ dd = 0 /\ m >= 0 /\ m < L
                  \/ dd \in {1, -6} /\ m < 0 /\ m + D < L
<1>1. CASE dd = -6 BY <1>1
<1>2. CASE dd = -5 BY <1>2
<1>3. CASE dd = -4 BY <1>3
<1>4. CASE dd = -3 BY <1>4
<1>5. CASE dd = -2 BY <1>5
<1>6. CASE dd = -1 BY <1>6
<1>7. CASE dd = 0 BY <1>7
<1>8. CASE dd = 1 BY <1>8
<1>9. CASE dd = 2 BY <1>9
<1>10. CASE dd = 3 BY <1>10
<1>11. CASE dd = 4 BY <1>11
<1>12. CASE dd = 5 BY <1>12
<1>13. CASE dd = 6 BY <1>13
<1> QED
  BY <1>1, <1>2, <1>3, <1>4, <1>5, <1>6, <1>7, <1>8, <1>9, <1>10, <1>11, <1>12, <1>13

\* Every window of every schedule is one arc of the week, night shifts and the
\* turn of the week included, whatever the length of a day (decision.go:297-310).
THEOREM EveryWindowIsAnArc == AccessSpec => []WindowsAreArcs
<1>1. AccessTypeOK => WindowsAreArcs
  <2> SUFFICES ASSUME AccessTypeOK, NEW s \in Schedules, NEW w \in windows[s]
               PROVE  WindowCovers(w, weekday, minute) <=> OnArc(w, weekday, minute)
    BY DEF WindowsAreArcs
  <2> DEFINE dd == weekday - w.day
             m == minute - w.start
             L == ArcLength(w)
             x == dd * DayMinutes + m
  <2>1. /\ w.day \in Days /\ w.start \in 0..DayMinutes - 1 /\ w.end \in 0..DayMinutes
        /\ weekday \in Days /\ minute \in 0..DayMinutes - 1 /\ DayMinutes \in Nat \ {0}
    BY CalendarConstants DEF AccessTypeOK, Windows
  <2>2. L \in Int /\ 0 <= L /\ L <= DayMinutes /\ m \in Int /\ -DayMinutes < m /\ m < DayMinutes
    BY <2>1 DEF ArcLength
  <2>3. /\ dd \in -6..6 /\ (w.day = weekday <=> dd = 0)
        /\ w.day = (weekday + 6) % 7 <=> dd \in {1, -6}
    BY <2>1, DaysApart
  <2>4. /\ -Week <= x /\ x < Week
        /\ (IF x >= 0 THEN x ELSE x + Week) < L
             <=> \/ dd = 0 /\ m >= 0 /\ m < L
                 \/ dd \in {1, -6} /\ m < 0 /\ m + DayMinutes < L
    <3> HIDE DEF dd, m, L
    <3> QED BY <2>1, <2>2, <2>3, Distances DEF Week
  <2>5. Week \in Nat \ {0} /\ x \in Int
    BY <2>1 DEF Week, Days
  <2>6. (weekday * DayMinutes + minute) - (w.day * DayMinutes + w.start) + Week = x + Week
    BY <2>1 DEF Week, Days
  <2>7. (x + Week) % Week = IF x >= 0 THEN x ELSE x + Week
    <3> HIDE DEF x
    <3> QED BY <2>4, <2>5, OnceRound
  <2>8. OnArc(w, weekday, minute) <=> \/ dd = 0 /\ m >= 0 /\ m < L
                                      \/ dd \in {1, -6} /\ m < 0 /\ m + DayMinutes < L
    <3> HIDE DEF x, dd, m, L
    <3>1. OnArc(w, weekday, minute) <=> (x + Week) % Week < L
      BY <2>6 DEF OnArc, L
    <3> QED BY <2>4, <2>7, <3>1
  <2>9. WindowCovers(w, weekday, minute) <=>
          \/ dd = 0 /\ m >= 0 /\ m < L
          \/ dd \in {1, -6} /\ m < 0 /\ m + DayMinutes < L
    <3>1. CASE w.start < w.end
      BY <2>1, <2>3, <3>1 DEF WindowCovers, ArcLength
    <3>2. CASE w.start = w.end
      BY <2>1, <2>3, <3>2 DEF WindowCovers, ArcLength
    <3>3. CASE w.start > w.end
      BY <2>1, <2>3, <3>3 DEF WindowCovers, ArcLength
    <3> QED BY <2>1, <3>1, <3>2, <3>3
  <2> QED BY <2>8, <2>9
<1> QED
  BY <1>1, AccessTypes, PTL
=============================================================================
