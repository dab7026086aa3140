--------------------------------- MODULE Site ---------------------------------
(***************************************************************************)
(* A mypintusan site: the runtime that keeps one controller per OSDP       *)
(* segment alive (app/runtime.go), the controllers that decide             *)
(* (services/controller.go), an operator who seals the site and operators  *)
(* who open doors remotely.                                                *)
(*                                                                         *)
(* Every critical section is one action: what is read under a lock may be  *)
(* stale when it is used.  A controller is rebuilt on every reconnect, so  *)
(* its state is indexed by its segment and starts afresh with each         *)
(* session.  A badge stands for one that every other gate would let        *)
(* through; a denial changes nothing here.  DoorMachine models one door    *)
(* in full, of which this module keeps whether the machine exists, whether *)
(* it is sealed and whether it expects somebody.                           *)
(***************************************************************************)
EXTENDS Integers, FiniteSets

CONSTANTS
  Buses,       \* the configured segments
  Doors,
  BusOf,       \* the segment a door's reader and strike are wired to
  AddressOf,   \* and its address there
  Sealers,     \* concurrent calls of the lockdown API
  Openers,     \* concurrent calls of the remote unlock API
  None

ASSUME SiteConstants ==
  /\ BusOf \in [Doors -> Buses]
  /\ DOMAIN AddressOf = Doors
  /\ \A d, e \in Doors : BusOf[d] = BusOf[e] /\ AddressOf[d] = AddressOf[e] => d = e
  /\ None \notin Buses \cup Doors

VARIABLES
  lockdown,    \* runtime.lockdown: what the operator is told
  session,     \* of each segment: "down" | "registered" | "carrying" |
               \* "serving" | "ended"
  carry,       \* the lockdown a new session found when it registered
  locked,      \* Controller.lockdown
  machines,    \* Controller.machines: "none" | "locked" | "expecting" | "sealed"
  busDown,     \* runtime.busDown
  alarms,      \* segment alarms since the last session that ran healthily
  sealing,     \* the progress of each lockdown call
  badge,       \* the badge each controller goroutine is serving
  opening,     \* the progress of each remote unlock
  strike       \* of each door: "locked" | "released"

siteVars == <<lockdown, session, carry, locked, machines, busDown, alarms,
              sealing, badge, opening, strike>>

sessions == <<session, carry, busDown, alarms>>
controllers == <<locked, machines>>
calls == <<sealing, badge, opening>>

Idle == [phase |-> "idle", door |-> None, bus |-> None]
Rest == [phase |-> "idle", on |-> FALSE, todo |-> {}, bus |-> None]
\* Mutant: only the segments that already poll are told.
LivePolling == {b \in Buses : session[b] = "serving"}
Live == {b \in Buses : session[b] # "down"}

\* A strike is addressed by segment and address, whoever's door that is.
WiredTo(b, address) == {d \in Doors : BusOf[d] = b /\ AddressOf[d] = address}

SiteInit ==
  /\ lockdown = FALSE
  /\ session = [b \in Buses |-> "down"]
  /\ carry = [b \in Buses |-> FALSE]
  /\ locked = [b \in Buses |-> FALSE]
  /\ machines = [b \in Buses |-> [d \in Doors |-> "none"]]
  /\ busDown = [b \in Buses |-> FALSE]
  /\ alarms = [b \in Buses |-> 0]
  /\ sealing = [s \in Sealers |-> Rest]
  /\ badge = [b \in Buses |-> Idle]
  /\ opening = [o \in Openers |-> Idle]
  /\ strike = [d \in Doors |-> "locked"]
-----------------------------------------------------------------------------
(***************************************************************************)
(* Controller.SetLockdown: the flag under its lock, the machines after it. *)
(***************************************************************************)
FlagController(b, on) == locked' = [locked EXCEPT ![b] = on]

SetMachine(on, m) ==
  CASE m = "none" -> "none"
    [] on /\ m # "none" -> "sealed"
    [] ~on /\ m # "none" -> IF m = "sealed" THEN "locked" ELSE m

SealMachines(b, on) ==
  machines' = [machines EXCEPT ![b] = [d \in Doors |-> SetMachine(on, machines[b][d])]]

(***************************************************************************)
(* superviseBus and runBus: one session of one segment.                    *)
(***************************************************************************)
\* Mutant: what a session carries is read when the site boots.
RegisterUnsealed(b) ==
  /\ session[b] = "down"
  /\ session' = [session EXCEPT ![b] = "registered"]
  /\ carry' = [carry EXCEPT ![b] = FALSE]
  /\ locked' = [locked EXCEPT ![b] = FALSE]
  /\ machines' = [machines EXCEPT ![b] = [d \in Doors |-> "none"]]
  /\ UNCHANGED <<lockdown, busDown, alarms, calls, strike>>

\* The dial succeeded: a fresh controller joins "live", under the lock that
\* also yields the site's lockdown.
Register(b) ==
  /\ session[b] = "down"
  /\ session' = [session EXCEPT ![b] = "registered"]
  /\ carry' = [carry EXCEPT ![b] = lockdown]
  /\ locked' = [locked EXCEPT ![b] = FALSE]
  /\ machines' = [machines EXCEPT ![b] = [d \in Doors |-> "none"]]
  /\ UNCHANGED <<lockdown, busDown, alarms, calls, strike>>

\* The lockdown is carried into the controller before polling starts.
CarryFlag(b) ==
  /\ session[b] = "registered"
  /\ session' = [session EXCEPT ![b] = IF carry[b] THEN "carrying" ELSE "serving"]
  /\ IF carry[b] THEN FlagController(b, TRUE) ELSE UNCHANGED locked
  /\ UNCHANGED <<lockdown, carry, machines, busDown, alarms, calls, strike>>

CarryMachines(b) ==
  /\ session[b] = "carrying"
  /\ session' = [session EXCEPT ![b] = "serving"]
  /\ SealMachines(b, TRUE)
  /\ UNCHANGED <<lockdown, carry, locked, busDown, alarms, calls, strike>>

\* The transport died: Run answers every queued Send and returns, and the
\* controller's goroutine stops.  A remote unlock that has not queued its
\* Send yet will queue it on a bus nobody runs.
EndSession(b) ==
  /\ session[b] = "serving"
  /\ session' = [session EXCEPT ![b] = "ended"]
  /\ badge' = [badge EXCEPT ![b] = Idle]
  /\ opening' = [o \in Openers |->
       CASE opening[o].bus = b /\ opening[o].phase \in {"queued", "fired"} -> Idle
         [] opening[o].bus = b /\ opening[o].phase = "checked"
              -> [opening[o] EXCEPT !.phase = "stranded"]
         [] OTHER -> opening[o]]
  /\ UNCHANGED <<lockdown, carry, busDown, alarms, sealing, controllers, strike>>

\* Mutant: an outage never ends.
AnnouncesOnce(b, ranHealthy) == ~busDown[b]

\* announceBusDown: the first loss after a healthy run is alarmed.
Announces(b, ranHealthy) == ranHealthy \/ ~busDown[b]

\* The loss is announced and the controller leaves "live".  A lockdown call
\* that still holds it only seals a controller nobody serves.
Retire(b, ranHealthy) ==
  /\ session[b] = "ended"
  /\ session' = [session EXCEPT ![b] = "down"]
  /\ busDown' = [busDown EXCEPT ![b] = TRUE]
  /\ alarms' = [alarms EXCEPT ![b] = (IF ranHealthy THEN 0 ELSE @)
                                     + (IF Announces(b, ranHealthy) THEN 1 ELSE 0)]
  /\ sealing' = [s \in Sealers |->
       IF sealing[s].bus = b THEN [sealing[s] EXCEPT !.bus = None]
       ELSE [sealing[s] EXCEPT !.todo = @ \ {b}]]
  /\ UNCHANGED <<lockdown, carry, controllers, badge, opening, strike>>
-----------------------------------------------------------------------------
(***************************************************************************)
(* runtime.SetLockdown: the flag and the list of controllers under the     *)
(* lock, the controllers one by one after it.                              *)
(***************************************************************************)
SetLockdown(s, on) ==
  /\ sealing[s].phase = "idle"
  /\ lockdown' = on
  /\ sealing' = [sealing EXCEPT ![s] =
       [phase |-> "fanout", on |-> on, todo |-> Live, bus |-> None]]
  /\ UNCHANGED <<sessions, controllers, badge, opening, strike>>

FanOutFlag(s, b) ==
  /\ sealing[s].phase = "fanout" /\ sealing[s].bus = None /\ b \in sealing[s].todo
  /\ sealing' = [sealing EXCEPT ![s].bus = b, ![s].todo = @ \ {b}]
  /\ FlagController(b, sealing[s].on)
  /\ UNCHANGED <<lockdown, sessions, machines, badge, opening, strike>>

FanOutMachines(s) ==
  /\ sealing[s].phase = "fanout" /\ sealing[s].bus # None
  /\ sealing' = [sealing EXCEPT ![s].bus = None]
  /\ SealMachines(sealing[s].bus, sealing[s].on)
  /\ UNCHANGED <<lockdown, sessions, locked, badge, opening, strike>>

FannedOut(s) ==
  /\ sealing[s].phase = "fanout" /\ sealing[s].bus = None /\ sealing[s].todo = {}
  /\ sealing' = [sealing EXCEPT ![s] = Rest]
  /\ UNCHANGED <<lockdown, sessions, controllers, badge, opening, strike>>
-----------------------------------------------------------------------------
(***************************************************************************)
(* handleCard, on the controller's own goroutine: decide, fire, tell the   *)
(* door machine.                                                           *)
(***************************************************************************)
\* Mutant: the decision does not ask for the lockdown.
BadgeInLockdown(b, d) ==
  /\ session[b] = "serving" /\ badge[b] = Idle
  /\ BusOf[d] = b
  /\ badge' = [badge EXCEPT ![b] = [phase |-> "decided", door |-> d, bus |-> b]]
  /\ UNCHANGED <<lockdown, sessions, controllers, sealing, opening, strike>>

Badge(b, d) ==
  /\ session[b] = "serving" /\ badge[b] = Idle
  /\ BusOf[d] = b
  /\ ~locked[b]
  /\ badge' = [badge EXCEPT ![b] = [phase |-> "decided", door |-> d, bus |-> b]]
  /\ UNCHANGED <<lockdown, sessions, controllers, sealing, opening, strike>>

Release(b, d) ==
  strike' = [e \in Doors |-> IF e \in WiredTo(b, AddressOf[d]) THEN "released" ELSE strike[e]]

FireBadge(b) ==
  /\ badge[b].phase = "decided"
  /\ Release(b, badge[b].door)
  /\ badge' = [badge EXCEPT ![b].phase = "fired"]
  /\ UNCHANGED <<lockdown, sessions, controllers, sealing, opening>>

\* act.Unlock fails: the reader did not take the command, or it took it and
\* its reply was lost; the machine is not told of that strike.
FireFails(b) ==
  /\ badge[b].phase \in {"decided", "fired"}
  /\ badge' = [badge EXCEPT ![b] = Idle]
  /\ UNCHANGED <<lockdown, sessions, controllers, sealing, opening, strike>>

\* Machine creates a door's machine on its first use; a sealed one refuses.
GrantAt(b, d) ==
  machines' = [machines EXCEPT ![b][d] = IF @ = "sealed" THEN @ ELSE "expecting"]

GrantBadge(b) ==
  /\ badge[b].phase = "fired"
  /\ GrantAt(b, badge[b].door)
  /\ badge' = [badge EXCEPT ![b] = Idle]
  /\ UNCHANGED <<lockdown, sessions, locked, sealing, opening, strike>>
-----------------------------------------------------------------------------
(***************************************************************************)
(* runtime.Unlock and Controller.OperatorUnlock, on the caller's.  The     *)
(* controllers are tried in map order, and ownsDoor accepts any door the   *)
(* store knows, so the first one answers.                                  *)
(***************************************************************************)
BeginOpen(o, d, b) ==
  /\ opening[o].phase = "idle"
  /\ b \in Live /\ ~locked[b]
  /\ opening' = [opening EXCEPT ![o] =
       [phase |-> IF session[b] = "ended" THEN "stranded" ELSE "checked",
        door |-> d, bus |-> b]]
  /\ UNCHANGED <<lockdown, sessions, controllers, sealing, badge, strike>>

\* Bus.Send: an address nobody was enrolled at is refused.
QueueOpen(o) ==
  /\ opening[o].phase = "checked"
  /\ opening' = [opening EXCEPT ![o] =
       IF WiredTo(@.bus, AddressOf[@.door]) = {} THEN Idle ELSE [@ EXCEPT !.phase = "queued"]]
  /\ UNCHANGED <<lockdown, sessions, controllers, sealing, badge, strike>>

FireOpen(o) ==
  /\ opening[o].phase = "queued" /\ session[opening[o].bus] = "serving"
  /\ Release(opening[o].bus, opening[o].door)
  /\ opening' = [opening EXCEPT ![o].phase = "fired"]
  /\ UNCHANGED <<lockdown, sessions, controllers, sealing, badge>>

GrantOpen(o) ==
  /\ opening[o].phase = "fired"
  /\ GrantAt(opening[o].bus, opening[o].door)
  /\ opening' = [opening EXCEPT ![o] = Idle]
  /\ UNCHANGED <<lockdown, sessions, locked, sealing, badge, strike>>

\* act.Unlock fails, as for a badge.
OpenFails(o) ==
  /\ \/ opening[o].phase = "queued" /\ session[opening[o].bus] = "serving"
     \/ opening[o].phase = "fired"
  /\ opening' = [opening EXCEPT ![o] = Idle]
  /\ UNCHANGED <<lockdown, sessions, controllers, sealing, badge, strike>>

\* The client of a call that nobody will answer goes away.
HangUp(o) ==
  /\ opening[o].phase = "stranded"
  /\ opening' = [opening EXCEPT ![o] = Idle]
  /\ UNCHANGED <<lockdown, sessions, controllers, sealing, badge, strike>>
-----------------------------------------------------------------------------
\* The reader's own timer drops the strike.
StrikeDrops(d) ==
  /\ strike[d] = "released"
  /\ strike' = [strike EXCEPT ![d] = "locked"]
  /\ UNCHANGED <<lockdown, sessions, controllers, calls>>

\* tickDoors: the door machine's timer runs out.
TickDoor(b, d) ==
  /\ session[b] = "serving" /\ badge[b] = Idle
  /\ machines[b][d] = "expecting"
  /\ machines' = [machines EXCEPT ![b][d] = "locked"]
  /\ UNCHANGED <<lockdown, sessions, locked, calls, strike>>

RunSession(b) == CarryFlag(b) \/ CarryMachines(b) \/ \E h \in BOOLEAN : Retire(b, h)
FanOut(s) == (\E b \in Buses : FanOutFlag(s, b)) \/ FanOutMachines(s) \/ FannedOut(s)
ServeBadge(b) == FireBadge(b) \/ FireFails(b) \/ GrantBadge(b)
ServeOpen(o) == QueueOpen(o) \/ FireOpen(o) \/ GrantOpen(o) \/ OpenFails(o)

SiteNext ==
  \/ \E b \in Buses : Register(b) \/ RunSession(b) \/ EndSession(b)
  \/ \E s \in Sealers : FanOut(s) \/ \E on \in BOOLEAN : SetLockdown(s, on)
  \/ \E b \in Buses : ServeBadge(b) \/ \E d \in Doors : Badge(b, d) \/ TickDoor(b, d)
  \/ \E o \in Openers :
       ServeOpen(o) \/ HangUp(o) \/ \E d \in Doors, b \in Buses : BeginOpen(o, d, b)
  \/ \E d \in Doors : StrikeDrops(d)

SiteSpec == SiteInit /\ [][SiteNext]_siteVars

\* Goroutines that have started a call finish it, strikes have timers and the
\* tick loop ticks.  Nobody has to badge, dial in, hang up or seal.
SiteFairSpec ==
  /\ SiteSpec
  /\ \A b \in Buses : WF_siteVars(RunSession(b)) /\ WF_siteVars(ServeBadge(b))
  /\ \A s \in Sealers : WF_siteVars(FanOut(s))
  /\ \A o \in Openers : WF_siteVars(ServeOpen(o))
  /\ \A d \in Doors : /\ WF_siteVars(StrikeDrops(d))
                      /\ \A b \in Buses : SF_siteVars(TickDoor(b, d))
-----------------------------------------------------------------------------
\* Sessions, controllers, calls and strikes stay in their types, and no outage is
\* alarmed a second time before the segment has served again.
SiteTypeOK ==
  /\ lockdown \in BOOLEAN
  /\ session \in [Buses -> {"down", "registered", "carrying", "serving", "ended"}]
  /\ carry \in [Buses -> BOOLEAN] /\ locked \in [Buses -> BOOLEAN]
  /\ machines \in [Buses -> [Doors -> {"none", "locked", "expecting", "sealed"}]]
  /\ busDown \in [Buses -> BOOLEAN] /\ alarms \in [Buses -> 0..1]
  /\ sealing \in [Sealers -> [phase : {"idle", "fanout"}, on : BOOLEAN,
                              todo : SUBSET Buses, bus : Buses \cup {None}]]
  /\ badge \in [Buses -> [phase : {"idle", "decided", "fired"},
                          door : Doors \cup {None}, bus : Buses \cup {None}]]
  /\ opening \in [Openers -> [phase : {"idle", "checked", "queued", "fired", "stranded"},
                              door : Doors \cup {None}, bus : Buses \cup {None}]]
  /\ strike \in [Doors -> {"locked", "released"}]

Settled == \A s \in Sealers : sealing[s].phase = "idle"

\* Once a lockdown call has returned every segment that polls readers refuses
\* badges, those that were dialling or reconnecting while it ran included: a
\* reconnect is never a way to unseal a building.
SealedSiteRefuses ==
  lockdown /\ Settled => \A b \in Buses : session[b] = "serving" => locked[b]

OpenBegins == \E o \in Openers, d \in Doors, b \in Buses : BeginOpen(o, d, b)

\* A sealed site comes to rest: strikes that were being fired when the
\* lockdown was called drop, and no badge fires one again until it is lifted,
\* however often a segment reconnects.  Remote unlocks are excepted: see
\* UnlockRespectsLockdown.
LockdownTakesHold ==
  <>[]lockdown /\ <>[][~OpenBegins]_siteVars
    => <>[](\A d \in Doors : strike[d] = "locked")

Shut(b) == session[b] = "down" \/ (session[b] = "registered" /\ carry[b]) \/ locked[b]

\* Sealed, with every strike locked and none about to be fired.
AtRest ==
  /\ lockdown /\ \A b \in Buses : Shut(b) /\ badge[b].phase # "decided"
  /\ \A o \in Openers : opening[o].phase \notin {"checked", "queued"}
  /\ \A d \in Doors : strike[d] = "locked"

\* Once at rest, a sealed site stays there for as long as the lockdown stands:
\* neither a reconnect, nor a badge, nor calling it again disturbs it.
\* With LockdownTakesHold: it gets there, and nothing but an operator moves it.
RestIsKept == [][ AtRest /\ lockdown' /\ ~OpenBegins => AtRest' ]_siteVars

\* UnlockRespectsLockdown fails in one place only: a remote unlock gets into a
\* sealed site through a segment that has reconnected and has not been handed the
\* lockdown yet, never through one that polls.
UnlockSlipsInOnReconnect ==
  [][ \A o \in Openers, d \in Doors, b \in Buses :
        BeginOpen(o, d, b) /\ lockdown /\ Settled
          => session[b] = "registered" /\ carry[b] ]_siteVars

\* The loss of a segment that has served is alarmed, and once: not again by
\* the sessions of a gateway that accepts the dial and drops it.
OneAlarmPerOutage ==
  \A b \in Buses : session[b] = "down" /\ busDown[b] => alarms[b] = 1

\* controller.go:363-364: a lockdown outranks an operator too, who must not
\* route around it with the unlock button.
UnlockRespectsLockdown ==
  [][ OpenBegins => ~(lockdown /\ Settled) ]_siteVars

\* runtime.go:433: "Unlock opens a door": a strike that a remote unlock fires
\* is that door's.
UnlockOpensItsDoor ==
  [][ \A o \in Openers : FireOpen(o) =>
        \A d \in Doors : strike[d] = "locked" /\ strike'[d] = "released"
                           => d = opening[o].door ]_siteVars
=============================================================================
