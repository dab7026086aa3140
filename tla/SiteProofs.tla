------------------------------ MODULE SiteProofs ------------------------------
(***************************************************************************)
(* The seal of a site, for any number of segments, doors and remote        *)
(* unlocks and one lockdown call at a time.  SealedSiteRefuses is not      *)
(* inductive: while a call fans out, and while a session that registered   *)
(* before it has not begun to poll, a controller may still be unsealed.    *)
(* SealInv says who will seal it: the session, by what it carried, or the  *)
(* call, which still has it to do.  The same holds for any number of calls *)
(* as long as none of them lifts the lockdown.  From it: what can still    *)
(* move on a sealed site.  The types, the alarms of an outage and the door *)
(* a remote unlock opens need no bound on the calls.                       *)
(***************************************************************************)
EXTENDS Site, TLAPS

USE DEF sessions, controllers, calls

SealTyped ==
  /\ lockdown \in BOOLEAN
  /\ locked \in [Buses -> BOOLEAN] /\ carry \in [Buses -> BOOLEAN]
  /\ session \in [Buses -> {"down", "registered", "carrying", "serving", "ended"}]
  /\ sealing \in [Sealers -> [phase : {"idle", "fanout"}, on : BOOLEAN,
                              todo : SUBSET Buses, bus : Buses \cup {None}]]

\* With one call at a time the call in progress is the one that set the flag.
CallIsCurrent == \A s \in Sealers : sealing[s].phase = "fanout" => sealing[s].on = lockdown

WillBeSealed(b) ==
  \/ session[b] = "down"
  \/ session[b] = "registered" /\ carry[b]
  \/ locked[b]
  \/ \E s \in Sealers : sealing[s].phase = "fanout" /\ b \in sealing[s].todo

SealInv ==
  /\ SealTyped
  /\ CallIsCurrent
  /\ lockdown => \A b \in Buses : WillBeSealed(b)

\* The steps that touch neither a session, a controller's flag nor a lockdown
\* call keep the invariant.
LEMMA OtherSteps ==
  ASSUME SealInv, UNCHANGED <<lockdown, locked, carry, session, sealing>>
  PROVE  SealInv'
BY DEF SealInv, SealTyped, CallIsCurrent, WillBeSealed

\* A segment's session, from the dial to its end, keeps the invariant.
LEMMA SessionSteps ==
  ASSUME SealInv, NEW b \in Buses, Register(b) \/ RunSession(b) \/ EndSession(b)
  PROVE  SealInv'
<1>1. CASE Register(b)
  BY <1>1 DEF Register, SealInv, SealTyped, CallIsCurrent, WillBeSealed
<1>2. CASE CarryFlag(b)
  BY <1>2 DEF CarryFlag, FlagController, SealInv, SealTyped, CallIsCurrent, WillBeSealed
<1>3. CASE CarryMachines(b)
  BY <1>3 DEF CarryMachines, SealInv, SealTyped, CallIsCurrent, WillBeSealed
<1>4. CASE EndSession(b)
  BY <1>4 DEF EndSession, SealInv, SealTyped, CallIsCurrent, WillBeSealed
<1>5. ASSUME NEW h \in BOOLEAN, Retire(b, h) PROVE SealInv'
  <2>1. /\ lockdown' = lockdown /\ locked' = locked /\ carry' = carry
        /\ session' = [session EXCEPT ![b] = "down"]
    BY <1>5 DEF Retire
  <2>2. \A s \in Sealers : /\ sealing'[s].phase = sealing[s].phase
                           /\ sealing'[s].on = sealing[s].on
                           /\ sealing'[s].todo \in {sealing[s].todo, sealing[s].todo \ {b}}
    BY <1>5 DEF Retire, SealInv, SealTyped
  <2>3. SealTyped'
    BY <1>5, <2>1 DEF Retire, SealInv, SealTyped
  <2>4. CallIsCurrent'
    BY <2>1, <2>2 DEF SealInv, CallIsCurrent
  <2>5. ASSUME lockdown', NEW c \in Buses PROVE WillBeSealed(c)'
    BY <2>1, <2>2, <2>5 DEF SealInv, SealTyped, WillBeSealed
  <2> QED
    BY <2>3, <2>4, <2>5 DEF SealInv
<1> QED
  BY <1>1, <1>2, <1>3, <1>4, <1>5 DEF RunSession

\* So does a lockdown call, as long as the calls in progress agree with the flag.
LEMMA SealingSteps ==
  ASSUME SealInv, NEW s \in Sealers,
         \/ FanOut(s)
         \/ CallIsCurrent' /\ \E on \in BOOLEAN : SetLockdown(s, on)
  PROVE  SealInv'
<1>1. ASSUME NEW on \in BOOLEAN, SetLockdown(s, on), CallIsCurrent' PROVE SealInv'
  <2>1. SealTyped'
    BY <1>1 DEF SetLockdown, Live, SealInv, SealTyped
  <2>2. ASSUME NEW b \in Buses PROVE WillBeSealed(b)'
    BY <1>1 DEF SetLockdown, Live, SealInv, SealTyped, WillBeSealed
  <2> QED BY <1>1, <2>1, <2>2 DEF SealInv
<1>2. ASSUME NEW b \in Buses, FanOutFlag(s, b) PROVE SealInv'
  BY <1>2 DEF FanOutFlag, FlagController, SealInv, SealTyped, CallIsCurrent, WillBeSealed
<1>3. CASE FanOutMachines(s)
  BY <1>3 DEF FanOutMachines, SealInv, SealTyped, CallIsCurrent, WillBeSealed
<1>4. CASE FannedOut(s)
  BY <1>4 DEF FannedOut, Rest, SealInv, SealTyped, CallIsCurrent, WillBeSealed
<1> QED
  BY <1>1, <1>2, <1>3, <1>4 DEF FanOut

\* The seal's invariant holds at the start.
LEMMA SealInit == SiteInit => SealInv
<1> SUFFICES ASSUME SiteInit PROVE SealInv
  OBVIOUS
<1>1. SealTyped
  BY DEF SiteInit, Rest, SealTyped
<1> QED
  BY <1>1 DEF SiteInit, Rest, SealInv, CallIsCurrent

\* Every step keeps it that leaves the calls in progress agreeing with the flag.
LEMMA SealKept ==
  ASSUME SealInv, [SiteNext]_siteVars,
         \A s \in Sealers, on \in BOOLEAN : SetLockdown(s, on) => CallIsCurrent'
  PROVE  SealInv'
<1>1. ASSUME NEW b \in Buses, Register(b) \/ RunSession(b) \/ EndSession(b) PROVE SealInv'
  BY <1>1, SessionSteps
<1>2. ASSUME NEW s \in Sealers, FanOut(s) \/ \E on \in BOOLEAN : SetLockdown(s, on)
      PROVE  SealInv'
  BY <1>2, SealingSteps
<1>3. ASSUME NEW b \in Buses,
             ServeBadge(b) \/ \E d \in Doors : Badge(b, d) \/ TickDoor(b, d)
      PROVE  SealInv'
  BY <1>3, OtherSteps DEF ServeBadge, FireBadge, FireFails, GrantBadge, Badge, TickDoor
<1>4. ASSUME NEW o \in Openers,
             ServeOpen(o) \/ HangUp(o) \/ \E d \in Doors, b \in Buses : BeginOpen(o, d, b)
      PROVE  SealInv'
  BY <1>4, OtherSteps DEF ServeOpen, QueueOpen, FireOpen, GrantOpen, OpenFails, HangUp, BeginOpen
<1>5. ASSUME NEW d \in Doors, StrikeDrops(d) PROVE SealInv'
  BY <1>5, OtherSteps DEF StrikeDrops
<1>6. CASE UNCHANGED siteVars
  BY <1>6, OtherSteps DEF siteVars
<1> QED
  BY <1>1, <1>2, <1>3, <1>4, <1>5, <1>6 DEF SiteNext

\* With one lockdown call at a time that is every step.
LEMMA SealStep ==
  ASSUME NEW s, Sealers = {s}, SealInv, [SiteNext]_siteVars
  PROVE  SealInv'
<1>1. ASSUME NEW on \in BOOLEAN, SetLockdown(s, on) PROVE CallIsCurrent'
  BY <1>1 DEF SetLockdown, SealInv, SealTyped, CallIsCurrent
<1> QED
  BY <1>1, SealKept

\* With one lockdown call at a time a sealed site refuses badges on every
\* segment, through every interleaving of the call with reconnects.
THEOREM SealHolds ==
  ASSUME NEW s, Sealers = {s}
  PROVE  SiteSpec => []SealedSiteRefuses
<1>1. SealInv /\ [SiteNext]_siteVars => SealInv'
  BY SealStep
<1>2. SealInv => SealedSiteRefuses
  BY DEF SealInv, WillBeSealed, SealedSiteRefuses, Settled
<1> QED
  BY SealInit, <1>1, <1>2, PTL DEF SiteSpec

\* With any number of calls at a time the seal holds just as well until somebody
\* lifts the lockdown: what two calls can get wrong, by fanning out in the other
\* order, takes one that lifts it.
THEOREM SealHoldsUntilLifted ==
  SiteSpec /\ [][\A s \in Sealers : ~SetLockdown(s, FALSE)]_siteVars
    => []SealedSiteRefuses
<1> DEFINE OnCalls == \A s \in Sealers : sealing[s].phase = "fanout" => sealing[s].on = TRUE
           Kept == \A s \in Sealers : ~SetLockdown(s, FALSE)
<1>1. SiteInit => OnCalls
  BY DEF SiteInit, Rest
<1>2. ASSUME SealInv, OnCalls, [SiteNext]_siteVars, [Kept]_siteVars
      PROVE  SealInv' /\ OnCalls'
  <2>1. ASSUME NEW s \in Sealers, NEW on \in BOOLEAN, SetLockdown(s, on), on = TRUE
        PROVE  OnCalls' /\ CallIsCurrent'
    BY <1>2, <2>1 DEF SetLockdown, SealInv, SealTyped, CallIsCurrent
  <2>2. ASSUME NEW s \in Sealers, NEW on \in BOOLEAN, SetLockdown(s, on), Kept
        PROVE  on = TRUE
    BY <2>2
  <2>3. ASSUME NEW s \in Sealers, NEW on \in BOOLEAN, SetLockdown(s, on), siteVars' = siteVars
        PROVE  FALSE
    BY <1>2, <2>3 DEF SetLockdown, siteVars, SealInv, SealTyped
  <2>4. SealInv'
    BY <1>2, <2>1, <2>2, <2>3, SealKept
  <2>5. ASSUME NEW b \in Buses, NEW h \in BOOLEAN, Retire(b, h) PROVE OnCalls'
    BY <1>2, <2>5 DEF Retire, SealInv, SealTyped
  <2>6. ASSUME NEW s \in Sealers, NEW b \in Buses, FanOutFlag(s, b) PROVE OnCalls'
    BY <1>2, <2>6 DEF FanOutFlag, SealInv, SealTyped
  <2>7. ASSUME NEW s \in Sealers, FanOutMachines(s) \/ FannedOut(s) PROVE OnCalls'
    BY <1>2, <2>7 DEF FanOutMachines, FannedOut, Rest, SealInv, SealTyped
  <2>8. UNCHANGED sealing => OnCalls'
    BY <1>2
  <2>9. ASSUME NEW b \in Buses,
               \/ Register(b) \/ CarryFlag(b) \/ CarryMachines(b) \/ EndSession(b)
               \/ ServeBadge(b) \/ \E d \in Doors : Badge(b, d) \/ TickDoor(b, d)
        PROVE  UNCHANGED sealing
    BY <2>9 DEF Register, CarryFlag, CarryMachines, EndSession, ServeBadge, FireBadge,
                FireFails, GrantBadge, Badge, TickDoor
  <2>10. ASSUME NEW o \in Openers,
                ServeOpen(o) \/ HangUp(o) \/ \E d \in Doors, b \in Buses : BeginOpen(o, d, b)
         PROVE  UNCHANGED sealing
    BY <2>10 DEF ServeOpen, QueueOpen, FireOpen, GrantOpen, OpenFails, HangUp, BeginOpen
  <2>11. (\E d \in Doors : StrikeDrops(d)) \/ UNCHANGED siteVars => UNCHANGED sealing
    BY DEF StrikeDrops, siteVars
  <2>12. OnCalls'
    BY <1>2, <2>1, <2>2, <2>3, <2>5, <2>6, <2>7, <2>8, <2>9, <2>10, <2>11
    DEF SiteNext, RunSession, FanOut
  <2> QED BY <2>4, <2>12
<1>3. SealInv => SealedSiteRefuses
  BY DEF SealInv, WillBeSealed, SealedSiteRefuses, Settled
<1>4. SealInv /\ OnCalls /\ [SiteNext]_siteVars /\ [Kept]_siteVars => (SealInv /\ OnCalls)'
  BY <1>2
<1> HIDE DEF OnCalls
<1> QED
  BY SealInit, <1>1, <1>3, <1>4, PTL DEF SiteSpec

\* A remote unlock gets into a sealed site only through a segment that has just
\* reconnected: the one that carries the lockdown and has not been handed it
\* (runtime.Unlock between Register and the SetLockdown of runBus).
THEOREM OnlyAReconnectLetsIn ==
  ASSUME NEW s, Sealers = {s}
  PROVE  SiteSpec => UnlockSlipsInOnReconnect
<1>1. SealInv /\ [SiteNext]_siteVars => SealInv'
  BY SealStep
<1>2. ASSUME SealInv, NEW o \in Openers, NEW d \in Doors, NEW b \in Buses,
             BeginOpen(o, d, b), lockdown, Settled
      PROVE  session[b] = "registered" /\ carry[b]
  BY <1>2 DEF BeginOpen, Live, SealInv, WillBeSealed, Settled
<1>3. SealInv => [ \A o \in Openers, d \in Doors, b \in Buses :
                     BeginOpen(o, d, b) /\ lockdown /\ Settled
                       => session[b] = "registered" /\ carry[b] ]_siteVars
  BY <1>2
<1> QED
  BY SealInit, <1>1, <1>3, PTL DEF SiteSpec, UnlockSlipsInOnReconnect

-----------------------------------------------------------------------------
\* One alarm since the last healthy session, exactly when the segment counts
\* as down.
AlarmsMatch == \A b \in Buses : alarms[b] = IF busDown[b] THEN 1 ELSE 0

\* The progress of a lockdown call, of a badge and of a remote unlock.
Sealing == [phase : {"idle", "fanout"}, on : BOOLEAN, todo : SUBSET Buses,
            bus : Buses \cup {None}]
Badging == [phase : {"idle", "decided", "fired"}, door : Doors \cup {None},
            bus : Buses \cup {None}]
Opening == [phase : {"idle", "checked", "queued", "fired", "stranded"},
            door : Doors \cup {None}, bus : Buses \cup {None}]

\* A call in progress stays one when a field of it moves on.
LEMMA CallFields ==
  /\ \A r \in Sealing : /\ [r EXCEPT !.bus = None] \in Sealing
                        /\ \A b \in Buses : [r EXCEPT !.todo = @ \ {b}] \in Sealing
  /\ \A r \in Badging : [r EXCEPT !.phase = "fired"] \in Badging
  /\ \A r \in Opening : \A p \in {"queued", "fired", "stranded"} :
       [r EXCEPT !.phase = p] \in Opening
<1>1. ASSUME NEW r \in Sealing PROVE [r EXCEPT !.bus = None] \in Sealing
  BY DEF Sealing
<1>2. ASSUME NEW r \in Sealing, NEW b \in Buses PROVE [r EXCEPT !.todo = @ \ {b}] \in Sealing
  BY DEF Sealing
<1>3. ASSUME NEW r \in Badging PROVE [r EXCEPT !.phase = "fired"] \in Badging
  BY DEF Badging
<1>4. ASSUME NEW r \in Opening, NEW p \in {"queued", "fired", "stranded"}
      PROVE  [r EXCEPT !.phase = p] \in Opening
  BY DEF Opening
<1> QED BY <1>1, <1>2, <1>3, <1>4

\* Every step keeps the types, with any number of calls at a time.
LEMMA TypeStep ==
  ASSUME SiteTypeOK, AlarmsMatch, SiteNext PROVE SiteTypeOK'
<1>0. /\ sealing \in [Sealers -> Sealing] /\ badge \in [Buses -> Badging]
      /\ opening \in [Openers -> Opening]
  BY DEF SiteTypeOK, Sealing, Badging, Opening
<1> USE SiteConstants DEF SiteTypeOK
<1>1. ASSUME NEW b \in Buses, Register(b) PROVE SiteTypeOK'
  BY <1>1 DEF Register
<1>2. ASSUME NEW b \in Buses, CarryFlag(b) PROVE SiteTypeOK'
  BY <1>2 DEF CarryFlag, FlagController
<1>3. ASSUME NEW b \in Buses, CarryMachines(b) PROVE SiteTypeOK'
  BY <1>3 DEF CarryMachines, SealMachines, SetMachine
<1>4. ASSUME NEW b \in Buses, EndSession(b) PROVE SiteTypeOK'
  <2>1. badge' \in [Buses -> Badging]
    BY <1>0, <1>4 DEF EndSession, Idle, Badging
  <2>2. \A o \in Openers : [opening[o] EXCEPT !.phase = "stranded"] \in Opening
    BY <1>0, CallFields
  <2>3. opening' \in [Openers -> Opening]
    BY <1>0, <1>4, <2>2 DEF EndSession, Idle, Opening
  <2> QED BY <1>4, <2>1, <2>2, <2>3 DEF EndSession, Sealing, Badging, Opening
<1>5. ASSUME NEW b \in Buses, NEW h \in BOOLEAN, Retire(b, h) PROVE SiteTypeOK'
  <2>1. alarms' \in [Buses -> 0..1]
    BY <1>5 DEF Retire, Announces, AlarmsMatch
  <2>2. \A s \in Sealers : /\ [sealing[s] EXCEPT !.bus = None] \in Sealing
                          /\ [sealing[s] EXCEPT !.todo = @ \ {b}] \in Sealing
    BY <1>0, CallFields
  <2>3. sealing' \in [Sealers -> Sealing]
    BY <1>0, <1>5, <2>2 DEF Retire
  <2> QED BY <1>5, <2>1, <2>2, <2>3 DEF Retire, Sealing, Badging, Opening
<1>6. ASSUME NEW s \in Sealers, FanOutMachines(s) PROVE SiteTypeOK'
  <2>1. machines' \in [Buses -> [Doors -> {"none", "locked", "expecting", "sealed"}]]
    BY <1>6 DEF FanOutMachines, SealMachines, SetMachine
  <2>2. sealing' \in [Sealers -> Sealing]
    BY <1>0, <1>6, CallFields DEF FanOutMachines
  <2> QED BY <1>6, <2>1, <2>2 DEF FanOutMachines, Sealing, Badging, Opening
<1>7. ASSUME NEW s \in Sealers, FannedOut(s) PROVE SiteTypeOK'
  BY <1>7 DEF FannedOut, Rest
<1>8. ASSUME NEW s \in Sealers, NEW on \in BOOLEAN, SetLockdown(s, on) PROVE SiteTypeOK'
  BY <1>8 DEF SetLockdown, Live
<1>9. ASSUME NEW s \in Sealers, NEW b \in Buses, FanOutFlag(s, b) PROVE SiteTypeOK'
  BY <1>9 DEF FanOutFlag, FlagController
<1>10. ASSUME NEW b \in Buses, FireBadge(b) PROVE SiteTypeOK'
  <2>1. strike' \in [Doors -> {"locked", "released"}]
    BY <1>10 DEF FireBadge, Release
  <2>2. badge' \in [Buses -> Badging]
    BY <1>0, <1>10, CallFields DEF FireBadge
  <2> QED BY <1>10, <2>1, <2>2 DEF FireBadge, Sealing, Badging, Opening
<1>11. ASSUME NEW b \in Buses, FireFails(b) PROVE SiteTypeOK'
  BY <1>11 DEF FireFails, Idle
<1>12. ASSUME NEW b \in Buses, GrantBadge(b) PROVE SiteTypeOK'
  BY <1>12 DEF GrantBadge, GrantAt, Idle
<1>13. ASSUME NEW b \in Buses, NEW d \in Doors, Badge(b, d) PROVE SiteTypeOK'
  BY <1>13 DEF Badge
<1>14. ASSUME NEW b \in Buses, NEW d \in Doors, TickDoor(b, d) PROVE SiteTypeOK'
  BY <1>14 DEF TickDoor
<1>15. ASSUME NEW o \in Openers, QueueOpen(o) PROVE SiteTypeOK'
  <2>1. [opening[o] EXCEPT !.phase = "queued"] \in Opening
    BY <1>0, CallFields
  <2>2. opening' \in [Openers -> Opening]
    BY <1>0, <1>15, <2>1 DEF QueueOpen, Idle, Opening
  <2> QED BY <1>15, <2>1, <2>2 DEF QueueOpen, Sealing, Badging, Opening
<1>16. ASSUME NEW o \in Openers, FireOpen(o) PROVE SiteTypeOK'
  <2>1. strike' \in [Doors -> {"locked", "released"}]
    BY <1>16 DEF FireOpen, Release
  <2>2. opening' \in [Openers -> Opening]
    BY <1>0, <1>16, CallFields DEF FireOpen
  <2> QED BY <1>16, <2>1, <2>2 DEF FireOpen, Sealing, Badging, Opening
<1>17. ASSUME NEW o \in Openers, GrantOpen(o) PROVE SiteTypeOK'
  BY <1>17 DEF GrantOpen, GrantAt, Idle
<1>21. ASSUME NEW o \in Openers, OpenFails(o) PROVE SiteTypeOK'
  BY <1>21 DEF OpenFails, Idle
<1>18. ASSUME NEW o \in Openers, HangUp(o) PROVE SiteTypeOK'
  BY <1>18 DEF HangUp, Idle
<1>19. ASSUME NEW o \in Openers, NEW d \in Doors, NEW b \in Buses, BeginOpen(o, d, b) PROVE SiteTypeOK'
  BY <1>19 DEF BeginOpen
<1>20. ASSUME NEW d \in Doors, StrikeDrops(d) PROVE SiteTypeOK'
  BY <1>20 DEF StrikeDrops
<1> QED
  BY <1>1, <1>2, <1>3, <1>4, <1>5, <1>6, <1>7, <1>8, <1>9, <1>10,
     <1>11, <1>12, <1>13, <1>14, <1>15, <1>16, <1>17, <1>18, <1>19, <1>20, <1>21
  DEF SiteNext, RunSession, FanOut, ServeBadge, ServeOpen

\* Only the end of a session touches the alarms, and it keeps them matched.
LEMMA AlarmStep ==
  ASSUME SiteTypeOK, AlarmsMatch, SiteNext PROVE AlarmsMatch'
<1>1. ASSUME NEW b \in Buses, NEW h \in BOOLEAN, Retire(b, h) PROVE AlarmsMatch'
  BY <1>1 DEF Retire, Announces, AlarmsMatch, SiteTypeOK
<1>2. ASSUME UNCHANGED <<alarms, busDown>> PROVE AlarmsMatch'
  BY <1>2 DEF AlarmsMatch
<1>3. ASSUME NEW b \in Buses,
             Register(b) \/ CarryFlag(b) \/ CarryMachines(b) \/ EndSession(b) \/ ServeBadge(b)
             \/ \E d \in Doors : Badge(b, d) \/ TickDoor(b, d)
      PROVE  UNCHANGED <<alarms, busDown>>
  BY <1>3 DEF Register, CarryFlag, CarryMachines, EndSession, ServeBadge, FireBadge,
     FireFails,
              GrantBadge, Badge, TickDoor
<1>4. ASSUME NEW s \in Sealers, FanOut(s) \/ \E on \in BOOLEAN : SetLockdown(s, on)
      PROVE  UNCHANGED <<alarms, busDown>>
  BY <1>4 DEF FanOut, FanOutFlag, FanOutMachines, FannedOut, SetLockdown
<1>5. ASSUME NEW o \in Openers,
             ServeOpen(o) \/ HangUp(o) \/ \E d \in Doors, b \in Buses : BeginOpen(o, d, b)
      PROVE  UNCHANGED <<alarms, busDown>>
  BY <1>5 DEF ServeOpen, QueueOpen, FireOpen, GrantOpen, OpenFails, HangUp, BeginOpen
<1>6. ASSUME NEW d \in Doors, StrikeDrops(d) PROVE UNCHANGED <<alarms, busDown>>
  BY <1>6 DEF StrikeDrops
<1> QED
  BY <1>1, <1>2, <1>3, <1>4, <1>5, <1>6 DEF SiteNext, RunSession

\* Types and alarms together are inductive.
LEMMA AlarmSafety == SiteSpec => [](SiteTypeOK /\ AlarmsMatch)
<1>1. SiteInit => SiteTypeOK /\ AlarmsMatch
  <2> SUFFICES ASSUME SiteInit PROVE SiteTypeOK /\ AlarmsMatch
    OBVIOUS
  <2>1. alarms \in [Buses -> 0..1] /\ AlarmsMatch
    BY DEF SiteInit, AlarmsMatch
  <2> QED BY <2>1 DEF SiteInit, SiteTypeOK, Idle, Rest
<1>2. SiteTypeOK /\ AlarmsMatch /\ [SiteNext]_siteVars => (SiteTypeOK /\ AlarmsMatch)'
  <2>1. SiteTypeOK /\ AlarmsMatch /\ UNCHANGED siteVars => (SiteTypeOK /\ AlarmsMatch)'
    BY DEF siteVars, SiteTypeOK, AlarmsMatch
  <2> QED BY <2>1, TypeStep, AlarmStep
<1> QED BY <1>1, <1>2, PTL DEF SiteSpec

\* Sessions, controllers, calls and strikes keep their types for any site and
\* any number of concurrent calls.
THEOREM SiteTypes == SiteSpec => []SiteTypeOK
BY AlarmSafety, PTL

\* However often a gateway accepts the dial and drops it, an outage has raised
\* one alarm (announceBusDown).
THEOREM OutageAlarmedOnce == SiteSpec => []OneAlarmPerOutage
<1>1. SiteTypeOK /\ AlarmsMatch => OneAlarmPerOutage
  BY DEF AlarmsMatch, OneAlarmPerOutage
<1> QED BY <1>1, AlarmSafety, PTL
-----------------------------------------------------------------------------
(***************************************************************************)
(* A sealed site at rest.                                                  *)
(***************************************************************************)
\* A session that ends, retires or begins leaves a shut segment shut.
LEMMA SessionKeepsRest ==
  ASSUME SealInv, AtRest, lockdown', NEW b \in Buses,
         Register(b) \/ RunSession(b) \/ EndSession(b)
  PROVE  AtRest'
<1>1. CASE Register(b)
  BY <1>1 DEF Register, SealInv, SealTyped, AtRest, Shut
<1>2. CASE CarryFlag(b)
  BY <1>2 DEF CarryFlag, FlagController, SealInv, SealTyped, AtRest, Shut
<1>3. CASE CarryMachines(b)
  BY <1>3 DEF CarryMachines, SealInv, SealTyped, AtRest, Shut
<1>4. CASE EndSession(b)
  <2>1. \A c \in Buses : Shut(c)'
    BY <1>4 DEF EndSession, SealInv, SealTyped, AtRest, Shut
  <2>2. \A c \in Buses : badge'[c].phase # "decided"
    BY <1>4 DEF EndSession, AtRest, Idle
  <2>3. \A o \in Openers : opening'[o].phase \notin {"checked", "queued"}
    BY <1>4 DEF EndSession, AtRest, Idle
  <2> QED BY <1>4, <2>1, <2>2, <2>3 DEF EndSession, AtRest
<1>5. ASSUME NEW h \in BOOLEAN, Retire(b, h) PROVE AtRest'
  BY <1>5 DEF Retire, SealInv, SealTyped, AtRest, Shut
<1> QED
  BY <1>1, <1>2, <1>3, <1>4, <1>5 DEF RunSession

\* A lockdown call that is current seals what is sealed already.
LEMMA SealingKeepsRest ==
  ASSUME SealInv, AtRest, lockdown', NEW s \in Sealers,
         FanOut(s) \/ \E on \in BOOLEAN : SetLockdown(s, on)
  PROVE  AtRest'
<1>1. ASSUME NEW on \in BOOLEAN, SetLockdown(s, on) PROVE AtRest'
  BY <1>1 DEF SetLockdown, AtRest, Shut
<1>2. ASSUME NEW b \in Buses, FanOutFlag(s, b) PROVE AtRest'
  <2>1. sealing[s].on
    BY <1>2 DEF FanOutFlag, SealInv, CallIsCurrent, AtRest
  <2> QED BY <1>2, <2>1 DEF FanOutFlag, FlagController, SealInv, SealTyped, AtRest, Shut
<1>3. CASE FanOutMachines(s) \/ FannedOut(s)
  BY <1>3 DEF FanOutMachines, FannedOut, AtRest, Shut
<1> QED
  BY <1>1, <1>2, <1>3 DEF FanOut

\* While the lockdown stands and no remote unlock begins, a site at rest stays at
\* rest: no badge is let in, and what is still under way fires nothing more.
LEMMA RestStep ==
  ASSUME SealInv, SiteTypeOK, AtRest, lockdown', ~OpenBegins, SiteNext
  PROVE  AtRest'
<1>0. ASSUME UNCHANGED <<lockdown, session, carry, locked>>
      PROVE  \A b \in Buses : Shut(b)'
  BY <1>0 DEF AtRest, Shut
<1>1. ASSUME NEW b \in Buses, ServeBadge(b) \/ \E d \in Doors : Badge(b, d) \/ TickDoor(b, d)
      PROVE  AtRest'
  <2>1. ASSUME NEW d \in Doors PROVE ~Badge(b, d)
    BY DEF Badge, AtRest, Shut
  <2>2. ~FireBadge(b)
    BY DEF FireBadge, AtRest
  <2>3. CASE GrantBadge(b) \/ FireFails(b)
    <3>1. /\ UNCHANGED <<lockdown, session, carry, locked, opening, strike>>
          /\ badge' = [badge EXCEPT ![b] = Idle]
      BY <2>3 DEF GrantBadge, FireFails
    <3>2. \A c \in Buses : badge'[c].phase # "decided"
      BY <3>1 DEF AtRest, Idle, SiteTypeOK
    <3> QED BY <1>0, <3>1, <3>2 DEF AtRest
  <2>4. ASSUME NEW d \in Doors, TickDoor(b, d) PROVE AtRest'
    BY <1>0, <2>4 DEF TickDoor, AtRest
  <2> QED BY <1>1, <2>1, <2>2, <2>3, <2>4 DEF ServeBadge
<1>2. ASSUME NEW o \in Openers,
             ServeOpen(o) \/ HangUp(o) \/ \E d \in Doors, b \in Buses : BeginOpen(o, d, b)
      PROVE  AtRest'
  <2>1. ~QueueOpen(o) /\ ~FireOpen(o)
    BY DEF QueueOpen, FireOpen, AtRest
  <2>2. CASE GrantOpen(o) \/ OpenFails(o) \/ HangUp(o)
    <3>1. /\ UNCHANGED <<lockdown, session, carry, locked, badge, strike>>
          /\ opening' = [opening EXCEPT ![o] = Idle]
      BY <2>2 DEF GrantOpen, OpenFails, HangUp
    <3>2. \A q \in Openers : opening'[q].phase \notin {"checked", "queued"}
      BY <3>1 DEF AtRest, Idle, SiteTypeOK
    <3> QED BY <1>0, <3>1, <3>2 DEF AtRest
  <2> QED BY <1>2, <2>1, <2>2 DEF ServeOpen, OpenBegins
<1>3. ASSUME NEW d \in Doors PROVE ~StrikeDrops(d)
  BY DEF StrikeDrops, AtRest
<1> QED
  BY <1>1, <1>2, <1>3, SessionKeepsRest, SealingKeepsRest DEF SiteNext

\* Once a sealed site is at rest nothing but a remote unlock moves it while the
\* lockdown stands, for any number of segments, doors, badges and reconnects.
THEOREM SealedSiteStaysAtRest ==
  ASSUME NEW s, Sealers = {s}
  PROVE  SiteSpec => RestIsKept
<1>1. SealInv /\ [SiteNext]_siteVars => SealInv'
  BY SealStep
<1>2. SealInv /\ SiteTypeOK /\ [SiteNext]_siteVars
        => [AtRest /\ lockdown' /\ ~OpenBegins => AtRest']_siteVars
  BY RestStep
<1> QED
  BY SealInit, AlarmSafety, <1>1, <1>2, PTL DEF SiteSpec, RestIsKept
-----------------------------------------------------------------------------
(***************************************************************************)
(* Whose strike a remote unlock fires.                                     *)
(***************************************************************************)
\* A remote unlock under way is about a door.
AboutADoor == \A o \in Openers : opening[o].phase # "idle" => opening[o].door \in Doors

\* Every step keeps it that way.
LEMMA DoorStep ==
  ASSUME SiteTypeOK, AboutADoor, [SiteNext]_siteVars
  PROVE  AboutADoor'
<1>0. /\ \A o \in Openers : opening[o].door \in Doors \cup {None}
      /\ opening \in [Openers -> Opening]
  BY DEF SiteTypeOK, Opening
<1>1. ASSUME UNCHANGED opening PROVE AboutADoor'
  BY <1>1 DEF AboutADoor
<1>2. ASSUME NEW b \in Buses, EndSession(b) PROVE AboutADoor'
  <2>1. \A o \in Openers : [opening[o] EXCEPT !.phase = "stranded"].door = opening[o].door
    BY <1>0 DEF Opening
  <2> QED BY <1>0, <1>2, <2>1 DEF EndSession, AboutADoor, Idle
<1>3. ASSUME NEW o \in Openers, QueueOpen(o) PROVE AboutADoor'
  BY <1>0, <1>3 DEF QueueOpen, AboutADoor, Idle, Opening
<1>4. ASSUME NEW o \in Openers, FireOpen(o) PROVE AboutADoor'
  BY <1>0, <1>4 DEF FireOpen, AboutADoor, Opening
<1>5. ASSUME NEW o \in Openers, GrantOpen(o) \/ OpenFails(o) \/ HangUp(o) PROVE AboutADoor'
  BY <1>0, <1>5 DEF GrantOpen, OpenFails, HangUp, AboutADoor, Idle
<1>6. ASSUME NEW o \in Openers, NEW d \in Doors, NEW b \in Buses, BeginOpen(o, d, b)
      PROVE  AboutADoor'
  BY <1>0, <1>6 DEF BeginOpen, AboutADoor
<1>7. ASSUME NEW b \in Buses,
             Register(b) \/ RunSession(b) \/ ServeBadge(b)
             \/ \E d \in Doors : Badge(b, d) \/ TickDoor(b, d)
      PROVE  UNCHANGED opening
  BY <1>7 DEF Register, RunSession, CarryFlag, CarryMachines, Retire, ServeBadge, FireBadge,
              FireFails, GrantBadge, Badge, TickDoor
<1>8. ASSUME NEW s \in Sealers, FanOut(s) \/ \E on \in BOOLEAN : SetLockdown(s, on)
      PROVE  UNCHANGED opening
  BY <1>8 DEF FanOut, FanOutFlag, FanOutMachines, FannedOut, SetLockdown
<1>9. ASSUME NEW d \in Doors, StrikeDrops(d) PROVE UNCHANGED opening
  BY <1>9 DEF StrikeDrops
<1>10. UNCHANGED siteVars => UNCHANGED opening
  BY DEF siteVars
<1> QED
  BY <1>1, <1>2, <1>3, <1>4, <1>5, <1>6, <1>7, <1>8, <1>9, <1>10 DEF SiteNext, ServeOpen

\* A remote unlock opens the door it was asked for on every site that numbers its
\* readers across the segments: UnlockOpensItsDoor fails only where two segments
\* use the same address, which is how OSDP addresses are given out.
THEOREM DistinctAddressesOpenTheirDoor ==
  ASSUME \A d, e \in Doors : AddressOf[d] = AddressOf[e] => d = e
  PROVE  SiteSpec => UnlockOpensItsDoor
<1>1. SiteInit => AboutADoor
  BY DEF SiteInit, AboutADoor, Idle
<1>2. ASSUME AboutADoor, NEW o \in Openers, FireOpen(o),
             NEW d \in Doors, strike[d] = "locked", strike'[d] = "released"
      PROVE  d = opening[o].door
  BY <1>2 DEF AboutADoor, FireOpen, Release, WiredTo
<1>3. AboutADoor => [ \A o \in Openers : FireOpen(o) =>
                        \A d \in Doors : strike[d] = "locked" /\ strike'[d] = "released"
                                           => d = opening[o].door ]_siteVars
  BY <1>2
<1>4. SiteTypeOK /\ AboutADoor /\ [SiteNext]_siteVars => AboutADoor'
  BY DoorStep
<1> QED
  BY <1>1, <1>3, <1>4, SiteTypes, PTL DEF SiteSpec, UnlockOpensItsDoor
===============================================================================
