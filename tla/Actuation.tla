------------------------------ MODULE Actuation ------------------------------
(***************************************************************************)
(* The guarded command path of the myiotsan sensor hub, with the device it *)
(* commands (apps/myiotsan/services/commands.go).                          *)
(*                                                                         *)
(* Three kinds of actor share two tables, the command rows and the twin,    *)
(* and none of them holds a lock while it reads and then writes:           *)
(*   Issue      one HTTP call (or flow, scene, schedule) for each command; *)
(*   OnReported the ingest path, for every reading of the device;          *)
(*   Sweep      the ticker that ends commands nobody confirmed.            *)
(* Every read and every write of a table is a step of its own, so that the *)
(* steps of the others fall between them.  The process may stop at any     *)
(* moment: the tables survive, everything else is lost.                    *)
(*                                                                         *)
(* An MQTT command is published with QoS 1 through the embedded broker     *)
(* (infra/iot/mqtt/broker.go), which keeps it until the device has         *)
(* acknowledged it and sends it again to a device that reconnects: what    *)
(* the hub sends once may arrive never, once or several times, now or late.*)
(***************************************************************************)
EXTENDS Integers

CONSTANTS
  Commands,       \* the calls of Issue
  Keys, Values,   \* telemetry keys of the device, and the values on them
  None,           \* no value, no key, no reading in progress
  Asks,           \* what the calls may ask: a set of [Commands -> Ask]
  MaxCrashes,     \* bound: how often the hub stops and starts again
  MaxArrivals     \* bound: how often one published message arrives

\* The declaration a call names: its ConfirmKey (None when the profile
\* declares none), its value, its transport, and whether the command is
\* declared and its value in bounds (declaration, validateValue).
Ask == [key : Keys \cup {None}, value : Values, modbus : BOOLEAN, valid : BOOLEAN]

ASSUME AskAssumption == Asks \subseteq [Commands -> Ask]
ASSUME NoneAssumption == None \notin Keys \cup Values
ASSUME BoundAssumption == MaxCrashes \in Nat /\ MaxArrivals \in Nat

VARIABLES
  ask,        \* what each call asks for
  row,        \* device_command: the Status of each row
  old,        \* the rows past confirmTimeout
  pc,         \* where each call of Issue stands
  gone,       \* the calls whose request context is cancelled
  found,      \* the calls whose setDesired found a twin row to update
  recent,     \* lastSent is less than minCommandInterval ago
  twin,       \* device_attribute, by key
  reading,    \* the reading OnReported is at work on
  sweep,      \* the rows endStale has read and not yet written
  sends,      \* how often the hub has handed each command to a transport
  acts,       \* how often the device acted on each command
  crashes

issueVars == <<pc, gone, found>>
hubVars == <<row, old, recent, twin, reading, sweep>>
deviceVars == <<sends, acts>>
vars == <<ask, issueVars, hubVars, deviceVars, crashes>>

\* A row of the twin: whether it exists, and the desired value while
\* HasDesired.  The reported half decides nothing and is left out.
Attr == [known : BOOLEAN, desired : Values \cup {None}]
NoAttr == [known |-> FALSE, desired |-> None]

Log == INSTANCE CommandLog WITH log <- row

Init ==
  /\ ask \in Asks
  /\ row = [c \in Commands |-> "none"]
  /\ old = {}
  /\ pc = [c \in Commands |-> "idle"]
  /\ gone = {}
  /\ found = {}
  /\ recent = FALSE
  /\ twin = [k \in Keys |-> NoAttr]
  /\ reading = None
  /\ sweep = {}
  /\ sends = [c \in Commands |-> 0]
  /\ acts = [c \in Commands |-> 0]
  /\ crashes = 0

-----------------------------------------------------------------------------
(* Issue.  A write made with a cancelled request context fails, and Issue  *)
(* ignores the error of every write but the Create of an accepted row.     *)

Goto(c, l) == pc' = [pc EXCEPT ![c] = l]
Write(c, s) == row' = IF c \in gone THEN row ELSE [row EXCEPT ![c] = s]

\* The gates of Issue.  armed is what the device's two switches say when they
\* are read; an administrator may have turned them either way.
Admitted(c, armed) == armed /\ ask[c].valid /\ ~recent

\* refuse: a failed row with the reason.
IssueRefused(c, armed) ==
  /\ pc[c] = "idle" /\ ~Admitted(c, armed)
  /\ Goto(c, "done")
  /\ Write(c, "refused")
  /\ UNCHANGED <<ask, gone, found, old, recent, twin, reading, sweep,
                 deviceVars, crashes>>

\* Past the gates: the duty cycle is taken, the row is created as pending
\* before anything is sent; without a row nothing is sent.
IssueRecord(c, armed) ==
  /\ pc[c] = "idle" /\ Admitted(c, armed)
  /\ recent' = TRUE
  /\ Goto(c, IF c \in gone THEN "done" ELSE "recorded")
  /\ Write(c, "pending")
  /\ UNCHANGED <<ask, gone, found, old, twin, reading, sweep,
                 deviceVars, crashes>>

\* MQTT: the publish is handed to the broker (QoS 1), or refused by it.
IssuePublish(c) ==
  /\ pc[c] = "recorded" /\ ~ask[c].modbus
  /\ sends' = [sends EXCEPT ![c] = @ + 1]
  /\ Goto(c, "published")
  /\ UNCHANGED <<ask, gone, found, hubVars, acts, crashes>>

IssuePublishFails(c) ==
  /\ pc[c] = "recorded" /\ ~ask[c].modbus
  /\ Goto(c, "done")
  /\ Write(c, "failed")
  /\ UNCHANGED <<ask, gone, found, old, recent, twin, reading, sweep,
                 deviceVars, crashes>>

\* Status "sent", written after the message has left.
IssueMark(c) ==
  /\ pc[c] = "published"
  /\ Write(c, "sent")
  /\ Goto(c, IF ask[c].key = None THEN "done" ELSE "marked")
  /\ UNCHANGED <<ask, gone, found, old, recent, twin, reading, sweep,
                 deviceVars, crashes>>

\* setDesired: read the twin row, then write the whole row back.  A Create
\* that meets a row somebody else created is refused by the unique index.
SetDesiredRead(c) ==
  /\ pc[c] = "marked"
  /\ found' = IF c \notin gone /\ twin[ask[c].key].known
              THEN found \cup {c} ELSE found
  /\ Goto(c, "desiring")
  /\ UNCHANGED <<ask, gone, hubVars, deviceVars, crashes>>

\* Mutant: the desired value is written with a context of its own.
SetDesiredWriteDetached(c) ==
  /\ pc[c] = "desiring"
  /\ twin' = [twin EXCEPT ![ask[c].key] = [known |-> TRUE, desired |-> ask[c].value]]
  /\ found' = found \ {c}
  /\ Goto(c, "done")
  /\ UNCHANGED <<ask, gone, row, old, recent, reading, sweep, deviceVars, crashes>>

SetDesiredWrite(c) ==
  LET k == ask[c].key
      lost == c \in gone \/ (twin[k].known /\ c \notin found)
  IN /\ pc[c] = "desiring"
     /\ twin' = IF lost THEN twin
                ELSE [twin EXCEPT ![k] =
                        [known |-> TRUE, desired |-> ask[c].value]]
     /\ found' = found \ {c}
     /\ Goto(c, "done")
     /\ UNCHANGED <<ask, gone, row, old, recent, reading, sweep,
                    deviceVars, crashes>>

\* sendModbus: the register is written and read back in one call.  A write
\* that is not confirmed may or may not have moved the device; a value that
\* cannot be encoded, or a device without an endpoint, is never written (but
\* counted in sends, as the one attempt it was).
ModbusWrite(c, moved, confirmed) ==
  /\ pc[c] = "recorded" /\ ask[c].modbus
  /\ confirmed => moved
  /\ sends' = [sends EXCEPT ![c] = @ + 1]
  /\ acts' = [acts EXCEPT ![c] = IF moved THEN @ + 1 ELSE @]
  /\ Goto(c, IF confirmed THEN "readback" ELSE "unread")
  /\ UNCHANGED <<ask, gone, found, hubVars, crashes>>

ModbusMark(c) ==
  /\ pc[c] \in {"readback", "unread"}
  /\ Write(c, IF pc[c] = "readback" THEN "confirmed" ELSE "failed")
  /\ Goto(c, "done")
  /\ UNCHANGED <<ask, gone, found, old, recent, twin, reading, sweep,
                 deviceVars, crashes>>

\* The browser hangs up: r.Context() of that call is cancelled.
Disconnect(c) ==
  /\ pc[c] # "done" /\ c \notin gone
  /\ gone' = gone \cup {c}
  /\ UNCHANGED <<ask, pc, found, hubVars, deviceVars, crashes>>

Issue(c) ==
  \/ \E armed \in BOOLEAN : IssueRefused(c, armed) \/ IssueRecord(c, armed)
  \/ IssuePublish(c) \/ IssuePublishFails(c) \/ IssueMark(c)
  \/ SetDesiredRead(c) \/ SetDesiredWrite(c)
  \/ \E moved, confirmed \in BOOLEAN : ModbusWrite(c, moved, confirmed)
  \/ ModbusMark(c)

\* minCommandInterval runs out.
Cooled ==
  /\ recent
  /\ recent' = FALSE
  /\ UNCHANGED <<ask, issueVars, row, old, twin, reading, sweep,
                 deviceVars, crashes>>
-----------------------------------------------------------------------------
(* OnReported, for one reading at a time.                                  *)

\* Mutant: the sent rows are matched on the number alone.
SpeaksByValue(k, v) == {c \in Commands : row[c] = "sent" /\ ask[c].value = v}

\* The commands a reading <<k, v>> can speak for: confirmPending, confirmsKey.
Speaks(k, v) ==
  {c \in Commands : row[c] = "sent" /\ ask[c].value = v /\ ask[c].key = k}

\* A reading k = v arrives.  The device reports all the time, what it says may
\* have been true a while ago, and its switches can be turned by hand, so any
\* reading can come at any time.  The twin row is read; when the reading is
\* what was desired the sent rows are read as well.  confirmPending gives up
\* when a read fails.
OnReported(k, v) ==
  LET a == twin[k]
      met == a.known /\ a.desired = v
  IN /\ reading = None
     /\ \E todo \in IF met THEN {Speaks(k, v), {}} ELSE {{}} :
          reading' = [key |-> k, value |-> v, todo |-> todo, found |-> a.known,
                      next |-> [known |-> TRUE,
                                desired |-> IF met THEN None ELSE a.desired]]
     /\ UNCHANGED <<ask, issueVars, row, old, recent, twin, sweep, deviceVars,
                    crashes>>

\* The keys some command declares; a reading on another key touches only its
\* own twin row, which nobody looks at.
ConfirmKeys == {ask[c].key : c \in Commands} \ {None}

\* One row is written back, whatever has become of it since.
ConfirmRow(c) ==
  /\ reading # None /\ c \in reading.todo
  /\ row' = [row EXCEPT ![c] = "confirmed"]
  /\ reading' = [reading EXCEPT !.todo = @ \ {c}]
  /\ UNCHANGED <<ask, issueVars, old, recent, twin, sweep, deviceVars,
                 crashes>>

\* The twin row is written back whole.
ReportedWrite ==
  /\ reading # None /\ reading.todo = {}
  /\ twin' = IF twin[reading.key].known /\ ~reading.found THEN twin
             ELSE [twin EXCEPT ![reading.key] = reading.next]
  /\ reading' = None
  /\ UNCHANGED <<ask, issueVars, row, old, recent, sweep, deviceVars,
                 crashes>>
-----------------------------------------------------------------------------
(* SweepUnconfirmed and the passing of confirmTimeout.                     *)

\* A healthy call is never in flight for confirmTimeout: the publish is in
\* process and the Modbus write is bounded, so only a row whose call is over
\* (or died with the process) grows old.
GrowOld(c) ==
  /\ row[c] \in Log!InFlight /\ c \notin old
  /\ pc[c] = "done"
  /\ old' = old \cup {c}
  /\ UNCHANGED <<ask, issueVars, row, recent, twin, reading, sweep,
                 deviceVars, crashes>>

\* Mutant: the sweep knows only the sent rows.
StaleSentOnly(s) == {c \in old : row[c] = s /\ s = "sent"}

\* endStale reads the rows of one status past the cutoff.
Stale(s) == {c \in old : row[c] = s}

SweepRead(s) ==
  /\ sweep = {} /\ Stale(s) # {}
  /\ sweep' = Stale(s)
  /\ UNCHANGED <<ask, issueVars, row, old, recent, twin, reading,
                 deviceVars, crashes>>

\* Mutant: an unconfirmed command is sent once more before it is given up.
EndStaleResends(c) ==
  /\ c \in sweep
  /\ row' = [row EXCEPT ![c] = "failed"]
  /\ sweep' = sweep \ {c}
  /\ sends' = [sends EXCEPT ![c] = @ + 1]
  /\ UNCHANGED <<ask, issueVars, old, recent, twin, reading, acts, crashes>>

\* and ends them one by one, whatever has become of them since.  It does not
\* publish again.
EndStale(c) ==
  /\ c \in sweep
  /\ row' = [row EXCEPT ![c] = "failed"]
  /\ sweep' = sweep \ {c}
  /\ UNCHANGED <<ask, issueVars, old, recent, twin, reading,
                 deviceVars, crashes>>
-----------------------------------------------------------------------------
(* The device and the broker (external).                                   *)

\* A published message arrives and the device acts on it.  It is never taken
\* off the wire: while the acknowledgement is lost with the connection the
\* broker delivers it once more, and a message that nobody is subscribed to, or
\* that the broker loses when the hub stops, simply never arrives.
DeviceActs(c) ==
  /\ ~ask[c].modbus /\ sends[c] > 0
  /\ acts[c] < MaxArrivals
  /\ acts' = [acts EXCEPT ![c] = @ + 1]
  /\ UNCHANGED <<ask, issueVars, hubVars, sends, crashes>>

-----------------------------------------------------------------------------
\* The hub stops and starts: the calls, lastSent and what OnReported and the
\* sweep hold in memory are gone.
Crash ==
  /\ crashes < MaxCrashes
  /\ crashes' = crashes + 1
  /\ pc' = [c \in Commands |-> IF pc[c] = "idle" THEN "idle" ELSE "done"]
  /\ found' = {}
  /\ recent' = FALSE
  /\ reading' = None
  /\ sweep' = {}
  /\ UNCHANGED <<ask, gone, row, old, twin, deviceVars>>

Ingest ==
  \/ \E k \in ConfirmKeys, v \in Values : OnReported(k, v)
  \/ \E c \in Commands : ConfirmRow(c)
  \/ ReportedWrite

Next ==
  \/ \E c \in Commands : \/ Issue(c) \/ Disconnect(c) \/ GrowOld(c) \/ EndStale(c)
                       \/ DeviceActs(c)
  \/ \E s \in Log!InFlight : SweepRead(s)
  \/ Cooled \/ Ingest \/ Crash

Spec == Init /\ [][Next]_vars

\* A call that has begun runs on, time passes, and the ticker keeps sweeping;
\* nothing is asked of the device, of the broker or of the people.
Fairness ==
  /\ \A c \in Commands : /\ WF_vars(pc[c] # "idle" /\ Issue(c))
                         /\ WF_vars(GrowOld(c))
                         /\ WF_vars(EndStale(c))
  /\ \A s \in Log!InFlight : WF_vars(SweepRead(s))

FairSpec == Spec /\ Fairness
-----------------------------------------------------------------------------
Reading == [key : Keys, value : Values, todo : SUBSET Commands,
            found : BOOLEAN, next : Attr]
Steps == {"idle", "recorded", "published", "marked", "desiring", "readback",
          "unread", "done"}

ActuationTypeOK ==
  /\ ask \in Asks /\ recent \in BOOLEAN
  /\ Log!LogTypeOK
  /\ old \subseteq Commands /\ gone \subseteq Commands
  /\ sweep \subseteq Commands
  /\ pc \in [Commands -> Steps]
  /\ found \subseteq Commands
  /\ twin \in [Keys -> Attr]
  /\ reading \in Reading \cup {None}
  /\ sends \in [Commands -> Nat] /\ acts \in [Commands -> Nat]
  /\ crashes \in Nat

\* The hub sends a command once at most, whatever ends it: not the sweep, not
\* a restart and not a hung-up browser sends it again, and a refused one is
\* never sent and moves nothing.  A register write is then one physical action
\* at most; what the broker makes of one message is another matter
\* (OneActionAtMost).
SentOnceAtMost ==
  \A c \in Commands : /\ sends[c] <= 1
                      /\ row[c] \in {"none", "refused"} => sends[c] + acts[c] = 0
                      /\ ask[c].modbus => acts[c] <= 1

\* A command is one physical action at most: "Re-sending a relay write is a
\* SECOND PHYSICAL ACTION ... the door opens twice" (commands.go), "An automatic
\* retry is a convenience that can open a door twice" (device_command.go).
OneActionAtMost == \A c \in Commands : acts[c] <= 1

\* Some command asks for v on key k, and the log says it has left.
WasSent(k, v) ==
  \E c \in Commands : /\ ask[c].key = k /\ ask[c].value = v
                      /\ row[c] \in {"sent"} \cup Log!Verdicts

\* The twin desires nothing the log does not account for: a desired value, and
\* one that OnReported read a while ago and is about to write back over it, was
\* sent by an accepted command for that very key, whoever hung up and wherever
\* the hub stopped in between (Issue marks the row before setDesired).
DesiredWasSent ==
  /\ \A k \in Keys : twin[k].desired # None => WasSent(k, twin[k].desired)
  /\ reading # None /\ reading.next.desired # None
       => WasSent(reading.key, reading.next.desired)

\* A row turns confirmed only because of what the device says: it was read
\* back over Modbus, or the reading at hand is that very value on the key the
\* command declares.  A lock's answer never speaks for a fan that carries the
\* same number, nor for a command without a confirm key, nor for one that was
\* refused (confirmPending).
ConfirmedByTheDevice ==
  [][\A c \in Commands : row[c] # "confirmed" /\ row'[c] = "confirmed" =>
       \/ ask[c].modbus /\ pc[c] = "readback" /\ acts[c] = 1
       \/ /\ row[c] # "refused"
          /\ reading # None
          /\ reading.key = ask[c].key /\ reading.value = ask[c].value]_vars

\* The hub keeps the promises of the command log, in every interleaving of
\* calls, readings, sweeps, hang-ups and restarts: a refusal is final, a
\* verdict is never withdrawn to "in flight", and every accepted command is
\* given a verdict.
LogHolds == Log!LogSpec

\* "A command that is never confirmed becomes FAILED, and STAYS failed"
\* (entities/device_command.go).
FailedStaysFailed ==
  [][\A c \in Commands : row[c] = "failed" => row'[c] = "failed"]_vars
=============================================================================
