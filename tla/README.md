# kopiv2: models, checks and proofs

kopiv2 is a Go monorepo of five appliances over shared infrastructure: door
controllers (mypintusan), cameras (mymatasan), a sensor hub (myiotsan), a fleet
control plane (myseliasan) and an identity service (myidsan). This directory
holds TLA+ modules of its core, TLC configurations that check them on small
instances, and TLAPS proofs for every value of their constants.

Four parts are modelled, each because a wrong order of events in it does real
harm:

* the **door controller** (mypintusan): a half-duplex bus with an encrypted
  session, reconnecting goroutines, timers, a lockdown that races everything
  else, and an ordered decision. Going wrong, it opens a door or locks people out;
* the **command path** of the sensor hub (myiotsan), from the operator's browser
  to the relay: going wrong, it moves something twice, or says that something
  moved that did not;
* the **leader election** of clustered apps: going wrong, work that must happen
  once is done twice, or by nobody;
* the **live camera tile** in the browser (mymatasan, copied in myseliasan): going
  wrong, it shows another moment's picture, or leaves a microphone open.

## Inventory

### The door controller (`src/apps/mypintusan`, `src/infra/access/osdp`)

| Component | State | Operations | Hard because | Correct when |
|---|---|---|---|---|
| Door machine, `services/doorstate.go` | strike, contact, unlock/shunt/held-open deadlines, alarms, lockdown, free access | Grant, RequestToExit, ContactChanged, Tick, SetFreeAccessSchedule, SetLockdown | four callers in any order, three timers | the seal outranks everyone, no strike is left released, alarms are about an open door, every move is reported |
| OSDP panel, `osdp/bus.go`, `cp.go` | per reader: status, sequence number, identity, session, backoff, failures, pending command; a queue of Sends | Run (slots), Send, reply handling, supervision | lost, repeated and late replies; power cycles; Send runs beside Run | a strike fires once per request, badges only in a session, the controller is told the truth, the reader recovers |
| OSDP reader, `osdp/pd.go`, `securechannel.go`, `frame.go` | last sequence number and reply, session, queued cards | Handle, PresentCard, the handshake | retransmission is recognised by a two-bit number | as above |
| Decision, `services/decision.go` | none (a function of a snapshot) | Decide, scheduleAllows, windowCovers | order of ten gates, night windows, holidays, duress | holidays close, grants only add, reasons are the real ones |
| Controllers and runtime, `services/controller.go`, `app/runtime.go` | live controllers, their lockdown flag and door machines, the site's flag, outage alarms | runBus, SetLockdown, Unlock, handleCard, OperatorUnlock | a controller is rebuilt on every reconnect while calls run | a lockdown that returned holds, one alarm per outage |
| Offline cache clock, `services/cache_clock.go` | last contact, the value persisted | Touch, Age | restarts, throttled writes, a clock stepped back | a cut-off door goes stale |
| Card formats, `services/wiegand.go` | none | DecodeCard | bit layouts | unit tests cover them |
| APIs, alarms, settings | rows of the store | CRUD | request parsing | not modelled, but for group and holiday changes |

How they interact: the runtime supervises one bus and one controller per
segment. The bus emits Online, Offline, Card and Status events to the controller,
which keeps what it was told of each reader, gathers a snapshot from the store,
calls Decide, fires the strike with a Send on the same bus and tells the door
machine. Lockdown goes from the API through the runtime to each live controller
and from there to each door machine. Remote unlocks take the same path.

### The command path (`src/apps/myiotsan`)

| Component | State | Operations | Hard because | Correct when |
|---|---|---|---|---|
| Command service, `services/commands.go` | command rows, the twin (desired and reported values), the duty cycle | Issue (MQTT and Modbus), OnReported, SweepUnconfirmed | three actors read and write whole rows without a lock; hang-ups cancel half a call; restarts | a command is sent once, a confirmation is the device's own, every row gets a verdict |
| Control tab, `views/.../components/commands.js` | the command on show, the dialog, the poll loop | ask, send, poll, dismiss | every await; answers that are late, lost or errors | it shows what the hub ruled on that command and waits for nothing else |

The tab POSTs to the hub, whose Issue answers when the command is refused, sent or
failed; then the tab reads the command rows until a verdict is there. The rows are
what the two share, and `CommandLog` is the contract between them.

### Coordination (`src/infra/coordination`)

| Component | State | Operations | Hard because | Correct when |
|---|---|---|---|---|
| Leader election, `leader.go` over the lease of `redis.go` | a key with a lease, isLeader and the held lock of each instance | attempt, resign, TryLock, Valid, Release, renewal | several processes; crashes, stalls, partitions, a lost answer; Release is two calls | one leader at a time, and a leader in the end |

### The live tile (`src/apps/mymatasan/views/.../components/previews.js`)

| Component | State | Operations | Hard because | Correct when |
|---|---|---|---|---|
| LiveViewport | the peer connection, what is shown, the fallback, the talk session | mount, connect, fall back, clean up, talk | five awaits in connect, three in startTalk, and the effect may be cleaned up at each | the tile is the work of its current run, connecting ends |

### The rest

* **Coordination**: the queue lock of `Lock` and the in-memory provider.
* **Fleet node** (`src/domain/shared/fleetnode`, `src/infra/pairing`, `control`):
  pairing handshake, enrolment, control channel with replayed events.
* **myseliasan**: node ownership among replicas, failover, availability, event
  deduplication and its horizon.
* **myiotsan**'s rules, flows, scenes and schedules, which call Issue.
* **mymatasan**'s recording, **myidsan**, event bus, cache, scheduler,
  notification, audit, application host, database, media, vision, telemetry,
  the other front-end views, tools: see "Not modelled".

`PROJECT.json` lists every component with its status, and every hazard at the
line where it bites.

## Modules

```
DoorMachine ── MCDoorMachine, MCDoorFirstPerson            DoorMachineProofs
OsdpReader ─┬─ OsdpBus ── MCOsdpBus (5 configurations)     OsdpProofs
StrikeCalls ┘
Site ── MCSite (3 configurations)                          SiteProofs
AccessDecision ── MCAccessDecision                         AccessProofs
CommandLog ─┬─ Actuation ── MCActuation (3)                ActuationProofs
            └─ CommandConsole ── MCCommandConsole (2)      ConsoleProofs
LiveViewport ── MCLiveViewport (3)                         LiveProofs
Election ── MCElection (3)                                 ElectionProofs
```

**DoorMachine** is `DoorMachine` of doorstate.go, one action per method. Every
method runs under the machine's mutex, so a method is one step. Deadlines are the
time left, which gives the model no horizon, and `evs` is the set of events the
last call returned. `Elapse` is a unit of time, `Tick` the controller's ticker.

**OsdpReader** is the reader's half of an exchange (`PD.Handle`) and the wire;
**OsdpBus** extends it with the panel (`Bus.Run`, `transact`, `handleReply`, `fail`,
`secureChannelLost`, `checkSupervision`). `Run` is one goroutine, so a slot is
three steps: the panel writes (`Slot`), the reader handles (`PDHandle`), the panel
takes the answer or gives up (`Receive`, `Timeout`). `Send` interleaves freely.
Sequence numbers keep their two bits. The cryptography is what its checks
decide: whether both ends hold the same session (`paired`) and the same chaining
MAC (`chained`). Faults are those of the simulator and of the wire: a lost
command, a lost or late reply, a refusal, BUSY, a dropped session, a power cycle.

**StrikeCalls** is the abstract specification of `Send` as its callers see it: a
request is called, drives the strike once at most, and is answered, and it drives
nothing before its call nor after its answer. OsdpBus instantiates it (`Calls`, with
the answers as they are and the set of executed requests for `fired`) and is shown
to implement it.

**Site** is the runtime and its controllers. What one mutex protects is one
action; what is read under a lock and used after it is two. A session goes from
`down` through `registered` (in `live`, lockdown read), `carrying` (flag set,
machines being set) and `serving` to `ended`. A lockdown call takes the list of
controllers and walks over it; badges and remote unlocks check, fire and report
in steps of their own. A badge stands for one that Decide would let through, and
a door machine for whether it exists, is sealed and expects somebody.

**AccessDecision** is `Decide` with the badge path in front of it. The gates are
a sequence in the code's order, each with its reason, and the first that denies
gives the reason. Local time and the holiday of the day move; administrators
add and remove groups and holidays. `badge` gathers what else a decision reads.

**CommandLog** is the abstract specification of a row of `device_command`: refused
for good, or in flight until it is ruled on, and always ruled on. It allows one
thing the entity's comment does not, because the code does it: a verdict may be
replaced by the other one (`Overturn`).

**Actuation** is commands.go with the device. Issue is split at each read and write
of a table (`IssueRecord`, `IssuePublish`, `IssueMark`, `SetDesiredRead`,
`SetDesiredWrite`, `ModbusWrite`, `ModbusMark`), OnReported into its read and its
writes, the sweep likewise. `Disconnect` cancels the request context, after which
every write of that call fails silently, as in the code; `Crash` keeps the tables
and nothing else. An MQTT command is published with QoS 1 through the embedded broker,
which sends it again to a device that reconnects before acknowledging it, so
`DeviceActs` lets what was sent once arrive never, once or several times, at any
later moment; a register write is synchronous and arrives with the write.
`sends` counts what the hub does, `acts` what the device makes of it. Actuation
instantiates CommandLog with its rows (`Log`) and is shown to implement it.

**CommandConsole** is the Control tab in front of that same CommandLog, instead of
in front of the whole hub: what Actuation implements is all that the tab may rely
on. A handler is split at its await. A poll loop that is not `loop` is cancelled.

**LiveViewport** is one tile. A run of the React effect has a number; a run that
is not the current one is what the code calls cancelled. The tile is keyed by its
camera, so the camera never changes under it. `TalkRendered` is the condition
under which the talk button is drawn at all (online, and the probe found a
speaker), `TalkButton` that it can also be pressed.

**Election** is the campaign of each instance and the key in Redis. Time passes in
units of one renewal interval; `Tick` needs every running instance to have begun
its attempt. A check or a TryLock whose store does not answer may outlast its unit
but not the next (CommandTimeout is shorter than the interval). The calls of
Release may hang for any number of units: resign gives them five seconds, which is
more than an interval, and attempt no limit of its own (leader.go:143, 170). Any
number of units is more than either takes, and errs on the safe side. `lapsed`
records what a lease cannot survive: a stall of the process, a key dropped by the
store or by the late Release of another instance, an outage that ended before the
leader's check saw it. `Resigning` are the instances inside resign, which have given
up the lock and still say that they lead; `OneLeader` is about the others.

## Runs

| Run | Shows |
|---|---|
| `door` | The safety of a perimeter door and two liveness properties: a released strike drops, a door held open is noticed. |
| `osdp` | Two requests, two faults, every configuration of a reader: one strike per request, honest answers and announcements, every Send answered, and `KeepsItsCalls`, the refinement of StrikeCalls. |
| `osdp_badge` | With a badge at the reader: it comes back after the faults and the badge is collected although status commands compete. |
| `osdp_late` | With a reply delivered after its slot: a badge is served once and only in a session. |
| `site` | Two segments, a lockdown, badges and an unlock: the seal holds across reconnects, strikes come to rest and stay there, an unlock gets into a sealed site only through a segment that does not poll yet, one alarm per outage. |
| `access` | A week of decisions: windows, holidays, groups, PINs, the offline rules. |
| `actuation` | Two commands to one device, readings at any time, published commands that arrive never, once or twice, the sweep, hang-ups and a restart: a command is sent once at most and a refused one never, confirmations that are the device's own, a twin that desires only what was sent, and `LogHolds`, the refinement of CommandLog with its fairness. |
| `command_console` | The Control tab with two commands and answers that are late, lost or errors: it shows what was ruled on the command it is about, and its wait ends. |
| `live_tile` | A tile whose camera and settings change under its connections: only the current run is seen or open, connecting ends, and a talk button that can be pressed tells whether the microphone is open. |
| `election` | Three instances and three faults, with calls of Release that hang: one leader at a time but for instances inside resign, and exactly one for good once the faults are over. |
| `site_wrong_door` | **Violated.** With two segments a remote unlock may fire another door's strike. |
| `live_mic` | **Violated.** A tile unmounted while the browser asks for the microphone opens it afterwards. |

The two violations are disagreements between the code and its own comments or
documents, quoted in `PROJECT.json` under `findings`. Ten more findings have a
configuration of their own here that reproduces them, outside the list of runs:

| Configuration | Module | Property | What TLC finds |
|---|---|---|---|
| `MCDoorFirstPerson.cfg` | MCDoorFirstPerson | ScheduleNeedsAFreshArrival | A grant of the evening before counts as the first person of the morning. |
| `MCOsdpSend.cfg` | MCOsdpBus | SendWaitsForItsReply | A Send that waits while the handshake takes its slot is answered by the handshake's reply. |
| `MCOsdpSupervision.cfg` | MCOsdpBus | ReaderAlwaysRecovers | A reader that supervision gave up is never announced online again. |
| `MCSiteReseal.cfg` | MCSite | UnlockRespectsLockdown | An unlock passes between a reconnect and its sealing. |
| `MCActuationVerdict.cfg` | MCActuation | FailedStaysFailed | A report in hand when the sweep rules turns a failed row into a confirmed one. |
| `MCConsoleSpinner.cfg` | MCCommandConsole | SpinnerEnds | A rejected poll leaves the spinner on for ever, without a way to dismiss it. |
| `MCLiveMicOffline.cfg` | MCLiveViewport | OpenMicHasAButton | A camera that goes offline takes the talk button away and leaves the microphone open. |
| `MCActuationRedelivered.cfg` | MCActuation | OneActionAtMost | One published command arrives twice and the device acts twice. |
| `MCElectionRelease.cfg` | MCElection | ReleasesItsOwnKey | A Release that was cut off between its two calls deletes the key of the next leader. |
| `MCElectionResign.cfg` | MCElection | NeverTwo | An instance that resigns still calls itself leader when the next one begins. |

The remaining findings are reached by a run or
read off the code while modelling it, and say so.

### Bounds

* `door`: strike times 1 and 2, shunt 2, held-open 2. Each timer can end before,
  with and after each other. No other bound: the state space is finite.
* `osdp*`: up to two Sends, one badge, two to four faults, one late reply. Two
  faults cover a fault during the recovery from another; two requests cover one
  displacing the other. `OfflineAfter` 2 or 3, `SupervisionSlots` 6, `RetrySlots`
  {1, 2} and `MinPollsPerStatus` 1 scale the code's constants down and keep their
  order: a retry is shorter than supervision, which is longer than the failures
  that take a reader offline.
* `site`: two segments, one door, one caller each of lockdown and unlock. The
  wrong-door run has two doors. A door's readers are on one segment.
* `access`: days of three minutes, one window on Saturday, Sunday or Wednesday of
  any start and end, two schedules and one that is gone, three groups. Every
  window is tried with a good badge; badges with any PIN, any uplink state and
  one other thing wrong are tried with a night window. Two other things wrong at
  once are left to the proofs.

* `actuation`: two commands in the four settings the code's comments argue about
  (same key with two values, same number on two keys, Modbus beside MQTT, one that
  cannot be confirmed beside one not declared), one restart, two arrivals of a
  message at most (`MaxArrivals`: what matters is that a second one comes); 950,000 states. One
  reading and one sweep are in progress at a time, as in the code, where each is
  one goroutine.
* `command_console`: two commands, so that an answer about the first can come back
  while the second is on show. No other bound; 27,000 states.
* `live_tile`: `MaxRuns` 3, so that an answer of the first run can come back in the
  third; 20,000 states.
* `election`: three instances (one to lose the lease, one to take it, one to profit
  when that key is taken away), three faults of any kind; 737,000 states.
  `LeaseTTL` 3 is the code's ratio and the smallest for which `OneLeader` holds:
  with a lease of two intervals TLC finds two leaders.

`osdp_late` does not check deadlock: a late handshake reply can panic the
segment's goroutine, after which nothing runs, and that is what the code does. Nor
does `live_tile`: an unmounted tile stops.

### Fairness

* `Tick` and `Elapse` (door): the controller's ticker runs as long as it lives and
  time passes. No person, schedule or operator is obliged to act.
* `BusStep` and `PDHandle` (bus): `Run` polls for ever with bounded waits, and a
  reader that receives a command answers it. Send and the faults are unfair, and
  the faults are bounded, which is what "once whatever was wrong is over" means.
* Site: a goroutine that has begun a call finishes it and a strike has its own
  timer. `TickDoor` is strongly fair, since a reconnect may disable it for a while
  and the ticker of the new session goes on. Badges, dials, seals and hang-ups are
  unfair.
* Actuation: a call that has begun runs on, time passes (`GrowOld`), the ticker
  keeps sweeping. Nothing is asked of the device, the broker, the operators or the
  ingest path, so the verdict that always comes is the sweep's.
* Console: timers fire, a request is answered or rejected in the end, and the hub
  rules, which is CommandLog's own fairness.
* Live tile: `Connect(i)`: timers fire and each await of connect ends in one way or
  the other. Nothing is asked of links, people or the camera.
* Election: a running campaign goes on, time passes, a stalled process wakes up in
  the end. Faults are bounded; restarts and the end of a partition are unfair, and
  `Settles` only speaks of behaviours in which some instance stays up and reaches
  the store.

## Proofs

All for every value of the constants, from the named assumptions of the modules
(`DoorConstants`, `ReaderConstants`, `NothingIsNoFrame`, `BusConstants`,
`SiteConstants`, `CalendarConstants`, `AskAssumption` and its neighbours, `NoneIsNoCommand`,
`RunsAssumption`, `LeaseOutlastsTwoChecks`).

* **DoorMachineProofs.** `TypeOK`, then `DoorInv`: the seal, the reason of a
  released strike and earned free access only hold together, since a grant during
  free access has no timer of its own, and the alarms need the open time. From
  it `LockdownSeals`, `NoStrikeIsForgotten`, `FreeAccessIsEarned`,
  `AlarmsNeedAnOpenDoor`; and the action property `DoorReports`, one step per method.
* **OsdpProofs.** `StrikesOnce`: no request drives the strike twice, for any number
  of requests, faults and late replies. "At most once" is not inductive: `SendInv`
  adds that a command on the wire carries the request that is pending, that an
  unanswered request has not been executed before its slot, and that a repeated
  sequence number is replayed and not executed. `CredentialsAreSealed`: on a reader
  that requires a session a credential is delivered only in one. `CardInv` says
  that a session is never asked for a card before its handshake is complete and
  that a card in an answer, on time or late, is sealed. `BusTypes`: the types, for
  which a slot must be known to have its command and its answer (`InSlot`).
  `BadgesOnce`: if every reader requires a session, a badge is served once at most.
  `OnePlace` says where a badge is: not presented, queued, in the fresh answer, or
  gone; the assumption is needed, since in the clear a reader that missed two polls
  repeats its card. `SealedAnswersAreHonest`: a Send answered "ok" in a session has
  driven its strike; `HonestInv` ties the sealed slot to the pending request and the
  fresh answer to its execution, and uses the three invariants before it.
  `ImplementsCalls`: the bus implements StrikeCalls, step by step. A slot executes the
  pending request and that one is still waiting, which `SendInv` says; superseding
  answers only who waits, and does not answer the newest (`NobodyIsForgotten`, that
  a caller who waits is pending or queued, is the other half of the same argument).
  `TheControllerIsToldTheTruth`: the controller believes a reader online exactly while
  it is, and believes in a session only while there is one. Three layers: `SlotInv`
  (who is in a handshake, which fresh answer matches which command, and that only a
  reader out of service is asked who it is), `Announcements` (what was told agrees
  with the status and the session), and, for readers that need not be encrypted,
  `OpenInv`. Those are at risk only from the repetition of an old PDID or PDCAP, which
  comes when a two-bit sequence number comes round. `NoIdentity` rules out the PDID;
  a PDCAP can be the last answer of a reader in service in one way only, and then
  enough failures have been counted (`Counted`, `ComesRound`) that a third one takes
  the reader offline before the repetition. So no assumption is needed where every
  reader requires a session; elsewhere the theorem asks that no reply comes after
  its slot and that OfflineAfter is 3 or less, and 3 is what `Options.Defaults` sets.
  With 4, and thirteen faults that include a spell of supervision, TLC finds an
  announced reader that a replayed PDCAP sets back to securing without an event.
* **SiteProofs.** `SealHolds`: with one lockdown call at a time, a lockdown that has
  returned seals every segment that serves. `SealInv` says of every segment that
  it is sealed, or has the lockdown to carry, or is on the list of the call in
  progress. The assumption of a single caller is needed: with two the property
  fails, which is a finding. But only lifting makes it fail: `SealHoldsUntilLifted`
  has any number of callers, none of whom lifts, and the same invariant, since then
  every call in progress agrees with the flag (`CallIsCurrent`). Two more results
  bound the other finding on lockdowns, the unlock that slips in on a reconnect:
  `OnlyAReconnectLetsIn` (there is no other way in) and `SealedSiteStaysAtRest` (once
  the strikes are locked and the calls over, neither reconnects nor badges release a
  strike). `DistinctAddressesOpenTheirDoor`: where no two doors of the site share an
  address a remote unlock opens its own door, so the finding of `site_wrong_door` is
  about shared addresses and nothing else. `SiteTypes` and `OutageAlarmedOnce` need no such
  assumption: a segment counts as down exactly when one alarm has been raised since
  its last healthy session (`AlarmsMatch`).
* **AccessProofs.** `HolidayClosesEveryDoor`, `OfflineHidesNothing`,
  `DuressIsSilent` and the action property `GroupsOnlyAdd`, from lemmas on the
  sequence of gates: which gates it has, where they stand, and that the first of
  those that deny gives the reason. `EveryWindowIsAnArc`: for every length of a day a
  weekly window is one arc of the week, across midnight and the turn of the week;
  the lemmas are one turn of a circle (`OnceRound`) and the distance for each number
  of days between two moments (`Distances`).
* **ActuationProofs.** The inductive invariant has four parts: a row is where its
  call has brought it (`RowFollowsCall`), an old row has no call at work
  (`OldIsOver`), what a reading is about to confirm was sent with that key and value
  (`TodoWasSent`), and a command is sent only by the step of its own call that has
  not happened before (`SendsInv`).
  From it `SendsOnce`, `ConfirmationIsTheDevices`, and `ImplementsLog`: every step of
  the detailed path is a step of CommandLog on the rows, or a stutter. Its fairness
  half is in `LogHolds`, which TLC checks. `TwinFollowsTheLog`: the twin desires only
  what was sent. It needs that a call which still has its caller has marked its row
  before setDesired (`MarkedIsSent`), and the refinement, which says that what was
  sent stays sent.
* **ConsoleProofs.** A verdict in the log, in an answer under way or on show was
  ruled on that command, and the live loop is that of the command on show. From it
  `OutcomesAreRuled`, `PollsWhatItShows` and `NothingComesBack`.
* **LiveProofs.** `TileIsCurrent`, with two additions: a run that has not begun has
  nothing and a start timer is the current run's (`Begun`), and an offline tile has
  no attempt of its run (`OfflineIsIdle`). On top of it `ConnectingHasANextStep`, the
  safety half of `ConnectingEnds`: there is always somebody at work. And
  `TalkButtonIsHonest`: a talk button that can be pressed says whether the microphone is
  open, for which startTalk must be under way exactly while the button is busy
  (`MicIsNoted`). It says nothing of a microphone that has no button, on a tile that is
  gone (`live_mic`) or whose camera is offline (`MCLiveMicOffline.cfg`).
* **ElectionProofs.** `AtMostOneLeads`, for any instances and faults and any lease of
  three intervals or more. A leader that is not inside resign owns the key
  (`LeaderOwns`), so does one that has won (`ClaimantOwns`), and the lease of such a
  leader has lost two units at most (`LeaseLasts`): the unit in which it was cut off,
  and the one its failing check outlasted, after which it stands down. Nothing is
  asked of how long Release takes. For an instance inside resign the statement would
  be false, also when its Release fails: that is the finding at leader.go:172.

Only model-checked: every liveness property (`StrikeDrops`, `HeldOpenIsNoticed`,
`SendsAnswered`, `ReaderRecovers`, `BadgesAreCollected`, `LockdownTakesHold`,
`WaitingEnds`, `ConnectingEnds`, `Settles` and the fairness half of `LogHolds`),
since fairness and ENABLED are beyond the prover. Every safety property that a passing
run checks is a theorem too, under the assumptions named above. The other way round,
the runs do not repeat what only guards the proofs: the types of every module but
the bus (`DoorTypeOK`, `SiteTypes`, `AccessTypes`, `ActuationTypes`, `ConsoleTypes`), and the
safety halves of two liveness properties (`NobodyIsForgotten` of `SendsAnswered`,
`ConnectingHasANextStep` of `ConnectingEnds`) are theorems only.

## What is left out of the modelled parts

* Door machine: `ContactSeen` and `ContactBound`, which only feed the UI.
* Bus: one reader of a bus; `nextPD`'s choice between readers; KEYSET, keypad
  digits, the contents of status replies, a cancelled context in Send, the event
  queue's limit, the simulator's sequence fault (pd.go:80). Late replies are in `osdp_late` only: with one, a late PDID
  can set an online reader back without an event (see the hazards).
* Site: settings reloads, the PIN window, the contact of a door. `BeginOpen` is the
  list of controllers (runtime.go:435-437) and the controller's own lockdown check
  (controller.go:352-364) in one step.
* Decision: validity dates are one fact each; schedules do not change while a
  holder's groups do; one holiday row a day.
* Actuation: the reserved-topic guard, the bounds of a value (one fact, `valid`),
  the profile editor, the reported half of the twin. Assumed: a call is over before
  its row is old (`GrowOld`), since confirmTimeout is much longer than a call takes.
* Console: the history and twin tables and the declaration form, which show what
  was loaded.
* Live tile: mute, snapshots, recordings.
* Election: a second attempt within one unit; the queue lock of `Lock`.

Hazards of the modelled parts that no property covers, beyond those `PROJECT.json`
lists with a note: the first slots of a reader that requires encryption may carry
an OUT in the clear (bus.go:453); a late handshake reply panics the segment's
goroutine (securechannel.go:341, a finding); a Send queued after failPending is
never answered (bus.go:1038, a finding); two lockdown calls at once
(runtime.go:411, a finding); the gap before a reconnect is sealed (runtime.go:353, a
finding); a remote unlock fires before it tells the door machine
(controller.go:382); a full event queue drops an Online or Offline
(bus.go:1067); a PIN kept past its window (controller.go:526); an unreadable store
taken for an empty one (cache_clock.go:161, a finding), and a persisted contact
that a clock stepped back keeps from being replaced (cache_clock.go:94).

## Not modelled

Most of the repository by lines is JavaScript, and most of that is views: forms,
tables, translation dictionaries, charts, maps and the shells that hold them
(`App.js`, `settings.js`, `floor_editor.js`, `i18n/*.js`). A view of that kind loads a
list, shows it and posts a form. It keeps no state that another actor changes, and
what could be said of it in TLA+ would repeat its assignments. The two places in
the browsers where answers, timers and people do race, the command console and the
live tile, have modules of their own. The share of the code that the map covers is
therefore small, and it is not meant to grow by mapping markup.

Media pipelines, recording, vision, the database layer and telemetry are I/O and
child processes. Card formats are bit layouts that unit tests exhaust.

## Plan

Done: DoorMachine, OsdpReader and OsdpBus, Site, AccessDecision; CommandLog,
Actuation and CommandConsole; StrikeCalls; LiveViewport; Election; with the proofs of each.

Next, in this order:

1. **CacheClock**: Touch, Age, load and persist with restarts, a failing store and
   a clock stepped back, against an abstract clock that never loses time; composed
   with GATE 10. Worth proving: the measured age is never below the true one
   while the store answers and the clock goes forward.
2. **ControllerLoop**: the event queue between bus and controller with its drops,
   the PIN window, and the forced-door alarm racing a grant, composed with
   DoorMachine.
3. **Fleet**: pairing, the control channel and event replay, node ownership and
   failover, with an abstract "each event is handled once".
4. **Session shell** of the front ends: a 401 that answers a request of the session
   before must not end the one that follows.
5. The queue lock of `redis.go` and the memory provider, as refinements of one
   abstract lock; the rules and schedules of myiotsan in front of Issue.
