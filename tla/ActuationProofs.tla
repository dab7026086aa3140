--------------------------- MODULE ActuationProofs ---------------------------
(***************************************************************************)
(* The command path of the hub, for any commands, keys, values, questions  *)
(* and any number of restarts: one send at most, confirmations             *)
(* that are the device's own, the safety half of the command log, and a    *)
(* twin that desires only what was sent.                                   *)
(***************************************************************************)
EXTENDS Actuation, TLAPS

\* The types of the run, and what AskAssumption adds to them.
Types == ActuationTypeOK /\ ask \in [Commands -> Ask]

\* The row of a call is where the call has brought it, until the call is over.
RowFollowsCall ==
  \A c \in Commands :
    /\ pc[c] = "idle" => row[c] = "none"
    /\ pc[c] \in {"recorded", "published", "readback", "unread"} => row[c] = "pending"
    /\ pc[c] \in {"marked", "desiring"} => row[c] \notin {"none", "refused"}

\* Old rows, and with them the ones the sweep holds, have no call at work.
OldIsOver ==
  /\ sweep \subseteq old
  /\ \A c \in old : /\ c \in Commands
                    /\ pc[c] = "done"
                    /\ row[c] \in Log!InFlight \cup Log!Verdicts

\* What OnReported holds was sent, on that key and with that value.
TodoWasSent ==
  reading # None =>
    \A c \in reading.todo :
      /\ c \in Commands
      /\ pc[c] \in {"marked", "desiring", "done"}
      /\ row[c] \in {"sent"} \cup Log!Verdicts
      /\ reading.key = ask[c].key /\ reading.value = ask[c].value

\* The hub has not sent a command before its row says pending, nor twice; the
\* device has not acted on what was not sent, and on a register write once.
SendsInv ==
  \A c \in Commands :
    /\ sends[c] \in {0, 1}
    /\ acts[c] # 0 => sends[c] = 1
    /\ ask[c].modbus => acts[c] \in {0, 1}
    /\ pc[c] \in {"idle", "recorded"} => sends[c] = 0
    /\ row[c] \in {"none", "refused"} => sends[c] = 0
    /\ pc[c] = "readback" => acts[c] = 1 /\ ask[c].modbus

IInv == Types /\ RowFollowsCall /\ OldIsOver /\ TodoWasSent /\ SendsInv

-----------------------------------------------------------------------------
\* The four invariants hold at the start.
LEMMA InitIInv == Init => IInv
<1> SUFFICES ASSUME Init PROVE IInv
  OBVIOUS
<1>1. Types
  BY AskAssumption DEF Init, Types, ActuationTypeOK, Log!LogTypeOK, Log!Status,
     Log!InFlight, Log!Verdicts, Steps, Attr, NoAttr
<1>2. RowFollowsCall /\ OldIsOver /\ TodoWasSent /\ SendsInv
  BY DEF Init, RowFollowsCall, OldIsOver, TodoWasSent, SendsInv
<1> QED BY <1>1, <1>2 DEF IInv

\* Every step of Issue keeps the types.
LEMMA IssueTypes ==
  ASSUME IInv, NEW c \in Commands, Issue(c) PROVE Types'
<1> USE DEF IInv, Types, ActuationTypeOK, Log!LogTypeOK, Log!Status, Log!InFlight,
           Log!Verdicts, Steps, Goto, Write, hubVars, deviceVars
<1>1. ASSUME NEW a \in BOOLEAN, IssueRefused(c, a) PROVE Types' BY <1>1 DEF IssueRefused
<1>2. ASSUME NEW a \in BOOLEAN, IssueRecord(c, a) PROVE Types' BY <1>2 DEF IssueRecord
<1>3. CASE IssuePublish(c) BY <1>3 DEF IssuePublish
<1>4. CASE IssuePublishFails(c) BY <1>4 DEF IssuePublishFails
<1>5. CASE IssueMark(c) BY <1>5 DEF IssueMark
<1>6. CASE SetDesiredRead(c) BY <1>6 DEF SetDesiredRead
<1>7. CASE SetDesiredWrite(c)
  BY <1>7 DEF SetDesiredWrite, Ask, Attr
<1>8. ASSUME NEW moved \in BOOLEAN, NEW confirmed \in BOOLEAN, ModbusWrite(c, moved, confirmed)
      PROVE Types' BY <1>8 DEF ModbusWrite
<1>9. CASE ModbusMark(c) BY <1>9 DEF ModbusMark
<1> QED BY <1>1, <1>2, <1>3, <1>4, <1>5, <1>6, <1>7, <1>8, <1>9 DEF Issue

\* Every step of Issue keeps the rest of the invariant: the row goes where the
\* call goes, and the message leaves once.
LEMMA IssueKeeps ==
  ASSUME IInv, NEW c \in Commands, Issue(c)
  PROVE (RowFollowsCall /\ OldIsOver /\ TodoWasSent /\ SendsInv)'
<1> DEFINE Rest == RowFollowsCall /\ OldIsOver /\ TodoWasSent /\ SendsInv
<1> USE DEF IInv, Types, ActuationTypeOK, Log!LogTypeOK, Log!Status, Log!InFlight,
           Log!Verdicts, Steps, Goto, Write, hubVars, deviceVars
<1>1. ASSUME NEW a \in BOOLEAN, IssueRefused(c, a) PROVE Rest'
  <2>1. RowFollowsCall' BY <1>1 DEF RowFollowsCall, IssueRefused, Admitted
  <2>2. OldIsOver' BY <1>1 DEF OldIsOver, RowFollowsCall, IssueRefused, Admitted
  <2>3. TodoWasSent' BY <1>1 DEF TodoWasSent, RowFollowsCall, IssueRefused, Admitted
  <2>4. SendsInv' BY <1>1 DEF SendsInv, RowFollowsCall, IssueRefused, Admitted
  <2> QED BY <2>1, <2>2, <2>3, <2>4
<1>2. ASSUME NEW a \in BOOLEAN, IssueRecord(c, a) PROVE Rest'
  <2>1. RowFollowsCall' BY <1>2 DEF RowFollowsCall, IssueRecord, Admitted
  <2>2. OldIsOver' BY <1>2 DEF OldIsOver, RowFollowsCall, IssueRecord, Admitted
  <2>3. TodoWasSent' BY <1>2 DEF TodoWasSent, RowFollowsCall, IssueRecord, Admitted
  <2>4. SendsInv' BY <1>2 DEF SendsInv, RowFollowsCall, IssueRecord, Admitted
  <2> QED BY <2>1, <2>2, <2>3, <2>4
<1>3. ASSUME IssuePublish(c) PROVE Rest'
  <2>1. RowFollowsCall' BY <1>3 DEF RowFollowsCall, IssuePublish
  <2>2. OldIsOver' BY <1>3 DEF OldIsOver, RowFollowsCall, IssuePublish
  <2>3. TodoWasSent' BY <1>3 DEF TodoWasSent, RowFollowsCall, IssuePublish
  <2>4. SendsInv' BY <1>3 DEF SendsInv, RowFollowsCall, IssuePublish
  <2> QED BY <2>1, <2>2, <2>3, <2>4
<1>4. ASSUME IssuePublishFails(c) PROVE Rest'
  <2>1. RowFollowsCall' BY <1>4 DEF RowFollowsCall, IssuePublishFails
  <2>2. OldIsOver' BY <1>4 DEF OldIsOver, RowFollowsCall, IssuePublishFails
  <2>3. TodoWasSent' BY <1>4 DEF TodoWasSent, RowFollowsCall, IssuePublishFails
  <2>4. SendsInv' BY <1>4 DEF SendsInv, RowFollowsCall, IssuePublishFails
  <2> QED BY <2>1, <2>2, <2>3, <2>4
<1>5. ASSUME IssueMark(c) PROVE Rest'
  <2>1. RowFollowsCall' BY <1>5 DEF RowFollowsCall, IssueMark
  <2>2. OldIsOver' BY <1>5 DEF OldIsOver, RowFollowsCall, IssueMark
  <2>3. TodoWasSent' BY <1>5 DEF TodoWasSent, RowFollowsCall, IssueMark
  <2>4. SendsInv' BY <1>5 DEF SendsInv, RowFollowsCall, IssueMark
  <2> QED BY <2>1, <2>2, <2>3, <2>4
<1>6. ASSUME SetDesiredRead(c) PROVE Rest'
  <2>1. RowFollowsCall' BY <1>6 DEF RowFollowsCall, SetDesiredRead
  <2>2. OldIsOver' BY <1>6 DEF OldIsOver, RowFollowsCall, SetDesiredRead
  <2>3. TodoWasSent' BY <1>6 DEF TodoWasSent, RowFollowsCall, SetDesiredRead
  <2>4. SendsInv' BY <1>6 DEF SendsInv, RowFollowsCall, SetDesiredRead
  <2> QED BY <2>1, <2>2, <2>3, <2>4
<1>7. ASSUME SetDesiredWrite(c) PROVE Rest'
  <2>1. RowFollowsCall' BY <1>7 DEF RowFollowsCall, SetDesiredWrite
  <2>2. OldIsOver' BY <1>7 DEF OldIsOver, RowFollowsCall, SetDesiredWrite
  <2>3. TodoWasSent' BY <1>7 DEF TodoWasSent, RowFollowsCall, SetDesiredWrite
  <2>4. SendsInv' BY <1>7 DEF SendsInv, RowFollowsCall, SetDesiredWrite
  <2> QED BY <2>1, <2>2, <2>3, <2>4
<1>8. ASSUME NEW moved \in BOOLEAN, NEW confirmed \in BOOLEAN,
             ModbusWrite(c, moved, confirmed)
      PROVE Rest'
  <2>1. RowFollowsCall' BY <1>8 DEF RowFollowsCall, ModbusWrite
  <2>2. OldIsOver' BY <1>8 DEF OldIsOver, RowFollowsCall, ModbusWrite
  <2>3. TodoWasSent' BY <1>8 DEF TodoWasSent, RowFollowsCall, ModbusWrite
  <2>4. SendsInv' BY <1>8 DEF SendsInv, RowFollowsCall, ModbusWrite
  <2> QED BY <2>1, <2>2, <2>3, <2>4
<1>9. ASSUME ModbusMark(c) PROVE Rest'
  <2>1. RowFollowsCall' BY <1>9 DEF RowFollowsCall, ModbusMark
  <2>2. OldIsOver' BY <1>9 DEF OldIsOver, RowFollowsCall, ModbusMark
  <2>3. TodoWasSent' BY <1>9 DEF TodoWasSent, RowFollowsCall, ModbusMark
  <2>4. SendsInv' BY <1>9 DEF SendsInv, RowFollowsCall, ModbusMark
  <2> QED BY <2>1, <2>2, <2>3, <2>4
<1> HIDE DEF Rest
<1> Rest' BY <1>1, <1>2, <1>3, <1>4, <1>5, <1>6, <1>7, <1>8, <1>9 DEF Issue
<1> QED BY DEF Rest

\* Everything else that can happen keeps the invariant: the readings, the
\* sweep, the device, the clock, a hang-up and a restart.
LEMMA OthersKeep ==
  ASSUME IInv, Next, \A c \in Commands : ~Issue(c) PROVE IInv'
<1> USE DEF IInv, Log!Status, Log!InFlight, Log!Verdicts, Steps, issueVars, hubVars,
           deviceVars
<1>1. ASSUME NEW c \in Commands, Disconnect(c) PROVE IInv'
  <2>1. Types' BY <1>1 DEF Types, ActuationTypeOK, Log!LogTypeOK, Disconnect, issueVars
  <2>2. RowFollowsCall' BY <1>1 DEF Types, ActuationTypeOK, Log!LogTypeOK, RowFollowsCall,
                           Disconnect, issueVars
  <2>3. OldIsOver' BY <1>1 DEF Types, ActuationTypeOK, Log!LogTypeOK, OldIsOver,
                      Disconnect, issueVars
  <2>4. TodoWasSent' BY <1>1 DEF Types, ActuationTypeOK, Log!LogTypeOK, TodoWasSent,
                        RowFollowsCall, OldIsOver, Disconnect, issueVars
  <2>5. SendsInv' BY <1>1 DEF Types, ActuationTypeOK, Log!LogTypeOK, SendsInv, Disconnect,
                    issueVars
  <2> QED BY <2>1, <2>2, <2>3, <2>4, <2>5
<1>2. ASSUME NEW c \in Commands, GrowOld(c) PROVE IInv'
  <2>1. Types' BY <1>2 DEF Types, ActuationTypeOK, Log!LogTypeOK, GrowOld
  <2>2. RowFollowsCall' BY <1>2 DEF Types, ActuationTypeOK, Log!LogTypeOK, RowFollowsCall,
                           GrowOld
  <2>3. OldIsOver' BY <1>2 DEF Types, ActuationTypeOK, Log!LogTypeOK, OldIsOver, GrowOld
  <2>4. TodoWasSent' BY <1>2 DEF Types, ActuationTypeOK, Log!LogTypeOK, TodoWasSent,
                        RowFollowsCall, OldIsOver, GrowOld
  <2>5. SendsInv' BY <1>2 DEF Types, ActuationTypeOK, Log!LogTypeOK, SendsInv, GrowOld
  <2> QED BY <2>1, <2>2, <2>3, <2>4, <2>5
<1>3. ASSUME NEW c \in Commands, EndStale(c) PROVE IInv'
  <2>1. Types' BY <1>3 DEF Types, ActuationTypeOK, Log!LogTypeOK, EndStale
  <2>2. RowFollowsCall' BY <1>3 DEF Types, ActuationTypeOK, Log!LogTypeOK, RowFollowsCall,
                           OldIsOver, TodoWasSent, SendsInv, EndStale
  <2>3. OldIsOver' BY <1>3 DEF Types, ActuationTypeOK, Log!LogTypeOK, RowFollowsCall,
                      OldIsOver, TodoWasSent, SendsInv, EndStale
  <2>4. TodoWasSent' BY <1>3 DEF Types, ActuationTypeOK, Log!LogTypeOK, RowFollowsCall,
                        OldIsOver, TodoWasSent, SendsInv, EndStale
  <2>5. SendsInv' BY <1>3 DEF Types, ActuationTypeOK, Log!LogTypeOK, RowFollowsCall,
                    OldIsOver, TodoWasSent, SendsInv, EndStale
  <2> QED BY <2>1, <2>2, <2>3, <2>4, <2>5
<1>4. ASSUME NEW c \in Commands, DeviceActs(c) PROVE IInv'
  <2>1. Types' BY <1>4 DEF Types, ActuationTypeOK, Log!LogTypeOK, DeviceActs
  <2>2. RowFollowsCall' BY <1>4 DEF Types, ActuationTypeOK, Log!LogTypeOK, RowFollowsCall,
                           DeviceActs
  <2>3. OldIsOver' BY <1>4 DEF Types, ActuationTypeOK, Log!LogTypeOK, OldIsOver, DeviceActs
  <2>4. TodoWasSent' BY <1>4 DEF Types, ActuationTypeOK, Log!LogTypeOK, TodoWasSent,
                        RowFollowsCall, OldIsOver, DeviceActs
  <2>5. SendsInv' BY <1>4 DEF Types, ActuationTypeOK, Log!LogTypeOK, SendsInv, DeviceActs
  <2> QED BY <2>1, <2>2, <2>3, <2>4, <2>5
<1>6. ASSUME NEW c \in Commands, ConfirmRow(c) PROVE IInv'
  <2>1. Types' BY <1>6 DEF Types, ActuationTypeOK, Log!LogTypeOK, Reading, ConfirmRow
  <2>2. RowFollowsCall' BY <1>6 DEF Types, ActuationTypeOK, Log!LogTypeOK, RowFollowsCall,
                           OldIsOver, TodoWasSent, SendsInv, Reading, ConfirmRow
  <2>3. OldIsOver' BY <1>6 DEF Types, ActuationTypeOK, Log!LogTypeOK, RowFollowsCall,
                      OldIsOver, TodoWasSent, SendsInv, Reading, ConfirmRow
  <2>4. TodoWasSent' BY <1>6 DEF Types, ActuationTypeOK, Log!LogTypeOK, RowFollowsCall,
                        OldIsOver, TodoWasSent, SendsInv, Reading, ConfirmRow
  <2>5. SendsInv' BY <1>6 DEF Types, ActuationTypeOK, Log!LogTypeOK, RowFollowsCall,
                    OldIsOver, TodoWasSent, SendsInv, Reading, ConfirmRow
  <2> QED BY <2>1, <2>2, <2>3, <2>4, <2>5
<1>7. ASSUME NEW s \in Log!InFlight, SweepRead(s) PROVE IInv'
  <2>1. Types' BY <1>7 DEF Types, ActuationTypeOK, Log!LogTypeOK, SweepRead, Stale
  <2>2. RowFollowsCall' BY <1>7 DEF Types, ActuationTypeOK, Log!LogTypeOK, RowFollowsCall,
                           SweepRead, Stale
  <2>3. OldIsOver' BY <1>7 DEF Types, ActuationTypeOK, Log!LogTypeOK, OldIsOver,
                      SweepRead, Stale
  <2>4. TodoWasSent' BY <1>7 DEF Types, ActuationTypeOK, Log!LogTypeOK, TodoWasSent,
                        RowFollowsCall, OldIsOver, SweepRead, Stale
  <2>5. SendsInv' BY <1>7 DEF Types, ActuationTypeOK, Log!LogTypeOK, SendsInv, SweepRead,
                    Stale
  <2> QED BY <2>1, <2>2, <2>3, <2>4, <2>5
<1>8. ASSUME NEW k \in ConfirmKeys, NEW v \in Values, OnReported(k, v) PROVE IInv'
  <2>1. Types' BY <1>8 DEF Types, ActuationTypeOK, Log!LogTypeOK, Reading, Ask,
                  OnReported, Speaks, Attr, ConfirmKeys
  <2>2. RowFollowsCall' BY <1>8 DEF Types, ActuationTypeOK, Log!LogTypeOK, RowFollowsCall,
                           OnReported, Speaks, Attr, ConfirmKeys
  <2>3. OldIsOver' BY <1>8 DEF Types, ActuationTypeOK, Log!LogTypeOK, OldIsOver,
                      OnReported, Speaks, Attr, ConfirmKeys
  <2>4. TodoWasSent' BY <1>8 DEF Types, ActuationTypeOK, Log!LogTypeOK, RowFollowsCall,
                        TodoWasSent, OnReported, Speaks, Attr, ConfirmKeys
  <2>5. SendsInv' BY <1>8 DEF Types, ActuationTypeOK, Log!LogTypeOK, SendsInv, OnReported,
                    Speaks, Attr, ConfirmKeys
  <2> QED BY <2>1, <2>2, <2>3, <2>4, <2>5
<1>9. ASSUME Cooled PROVE IInv'
  <2>1. Types' BY <1>9 DEF Types, ActuationTypeOK, Log!LogTypeOK, Cooled
  <2>2. RowFollowsCall' BY <1>9 DEF Types, ActuationTypeOK, Log!LogTypeOK, RowFollowsCall,
                           Cooled
  <2>3. OldIsOver' BY <1>9 DEF Types, ActuationTypeOK, Log!LogTypeOK, OldIsOver, Cooled
  <2>4. TodoWasSent' BY <1>9 DEF Types, ActuationTypeOK, Log!LogTypeOK, TodoWasSent,
                        RowFollowsCall, OldIsOver, Cooled
  <2>5. SendsInv' BY <1>9 DEF Types, ActuationTypeOK, Log!LogTypeOK, SendsInv, Cooled
  <2> QED BY <2>1, <2>2, <2>3, <2>4, <2>5
<1>10. ASSUME ReportedWrite PROVE IInv'
  <2>1. Types' BY <1>10 DEF Types, ActuationTypeOK, Log!LogTypeOK, ReportedWrite, Reading,
                  Attr
  <2>2. RowFollowsCall' BY <1>10 DEF Types, ActuationTypeOK, Log!LogTypeOK,
                           RowFollowsCall, ReportedWrite, Reading, Attr
  <2>3. OldIsOver' BY <1>10 DEF Types, ActuationTypeOK, Log!LogTypeOK, OldIsOver,
                      ReportedWrite, Reading, Attr
  <2>4. TodoWasSent' BY <1>10 DEF Types, ActuationTypeOK, Log!LogTypeOK, TodoWasSent,
                        RowFollowsCall, OldIsOver, ReportedWrite, Reading, Attr
  <2>5. SendsInv' BY <1>10 DEF Types, ActuationTypeOK, Log!LogTypeOK, SendsInv,
                    ReportedWrite, Reading, Attr
  <2> QED BY <2>1, <2>2, <2>3, <2>4, <2>5
<1>11. ASSUME Crash PROVE IInv'
  <2>1. Types'
    <3>1. pc' \in [Commands -> Steps] /\ crashes' \in Nat
      BY <1>11 DEF Types, ActuationTypeOK, Crash
    <3>2. recent' \in BOOLEAN /\ reading' \in Reading \cup {None}
      BY <1>11 DEF Crash
    <3> QED BY <1>11, <3>1, <3>2 DEF Types, ActuationTypeOK, Log!LogTypeOK, Crash
  <2>2. RowFollowsCall' BY <1>11 DEF Types, ActuationTypeOK, Log!LogTypeOK,
                           RowFollowsCall, Crash
  <2>3. OldIsOver' BY <1>11 DEF Types, ActuationTypeOK, Log!LogTypeOK, OldIsOver, Crash
  <2>4. TodoWasSent' BY <1>11 DEF Types, ActuationTypeOK, Log!LogTypeOK, TodoWasSent,
                        RowFollowsCall, OldIsOver, Crash
  <2>5. SendsInv' BY <1>11 DEF Types, ActuationTypeOK, Log!LogTypeOK, SendsInv, Crash
  <2> QED BY <2>1, <2>2, <2>3, <2>4, <2>5
<1> QED
  BY <1>1, <1>2, <1>3, <1>4, <1>6, <1>7, <1>8, <1>9, <1>10, <1>11 DEF Next, Ingest

-----------------------------------------------------------------------------
\* The inductive invariant of the command path.
THEOREM ActuationSafety == Spec => []IInv
<1>1. IInv /\ [Next]_vars => IInv'
  <2> SUFFICES ASSUME IInv, [Next]_vars PROVE IInv'
    OBVIOUS
  <2>1. ASSUME NEW c \in Commands, Issue(c) PROVE IInv'
    BY <2>1, IssueTypes, IssueKeeps DEF IInv
  <2>2. CASE Next
    BY <2>1, <2>2, OthersKeep
  <2>3. CASE UNCHANGED vars
    BY <2>3 DEF IInv, Types, ActuationTypeOK, Log!LogTypeOK, RowFollowsCall, OldIsOver,
                TodoWasSent, SendsInv, vars, issueVars, hubVars, deviceVars
  <2> QED BY <2>2, <2>3
<1> QED BY InitIInv, <1>1, PTL DEF Spec

\* Rows, calls, twin and readings keep their types, for every instance.
THEOREM ActuationTypes == Spec => []ActuationTypeOK
<1>1. IInv => ActuationTypeOK BY DEF IInv, Types
<1> QED BY <1>1, ActuationSafety, PTL

\* The hub sends a command once at most and a refused one never, and a register
\* is written once: EndStale and a restart do not publish again.
THEOREM SendsOnce == Spec => []SentOnceAtMost
<1>1. ASSUME IInv PROVE SentOnceAtMost
  <2>1. ASSUME NEW c \in Commands
        PROVE  /\ sends[c] <= 1
               /\ row[c] \in {"none", "refused"} => sends[c] + acts[c] = 0
               /\ ask[c].modbus => acts[c] <= 1
    <3>1. /\ sends[c] = 0 \/ sends[c] = 1
          /\ acts[c] = 0 \/ sends[c] = 1
          /\ ask[c].modbus => acts[c] = 0 \/ acts[c] = 1
          /\ row[c] \in {"none", "refused"} => sends[c] = 0
      BY <1>1 DEF IInv, SendsInv
    <3> QED BY <3>1
  <2> QED BY <2>1 DEF SentOnceAtMost
<1> QED BY <1>1, ActuationSafety, PTL

\* What each step may do to a row, in the terms of the command log.
LEMMA StepsOfTheLog ==
  ASSUME IInv, [Next]_vars PROVE [Log!LogNext]_row
<1> USE DEF IInv, Types, ActuationTypeOK, Log!LogTypeOK, Log!LogNext, Log!Refuse,
           Log!Record, Log!Publish, Log!Rule, Log!Overturn,
            Log!Becomes, Log!InFlight, Log!Verdicts
<1>1. ASSUME NEW c \in Commands, Issue(c) PROVE [Log!LogNext]_row
  <2> USE DEF Write, hubVars, RowFollowsCall
  <2>1. ASSUME NEW a \in BOOLEAN, IssueRefused(c, a) PROVE row' = row \/ Log!Refuse(c)
    BY <2>1 DEF IssueRefused
  <2>2. ASSUME NEW a \in BOOLEAN, IssueRecord(c, a) PROVE row' = row \/ Log!Record(c)
    BY <2>2 DEF IssueRecord
  <2>3. CASE IssuePublishFails(c) \/ ModbusMark(c)
    <3>1. row[c] = "pending" BY <2>3 DEF IssuePublishFails, ModbusMark
    <3> QED BY <2>3, <3>1 DEF IssuePublishFails, ModbusMark
  <2>4. CASE IssueMark(c)
    BY <2>4 DEF IssueMark
  <2>5. CASE IssuePublish(c) \/ SetDesiredRead(c) \/ SetDesiredWrite(c)
    BY <2>5 DEF IssuePublish, SetDesiredRead, SetDesiredWrite
  <2>6. ASSUME NEW moved \in BOOLEAN, NEW confirmed \in BOOLEAN,
               ModbusWrite(c, moved, confirmed)
        PROVE row' = row
    BY <2>6 DEF ModbusWrite
  <2> QED BY <1>1, <2>1, <2>2, <2>3, <2>4, <2>5, <2>6 DEF Issue
<1>2. ASSUME NEW c \in Commands, EndStale(c) PROVE [Log!LogNext]_row
  BY <1>2 DEF EndStale, OldIsOver
<1>3. ASSUME NEW c \in Commands, ConfirmRow(c) PROVE [Log!LogNext]_row
  BY <1>3 DEF ConfirmRow, TodoWasSent
<1>4. ASSUME NEW c \in Commands,
             Disconnect(c) \/ GrowOld(c) \/ DeviceActs(c)
      PROVE row' = row
  BY <1>4 DEF Disconnect, GrowOld, DeviceActs, hubVars
<1>5. ASSUME NEW s \in Log!InFlight, SweepRead(s) PROVE row' = row
  BY <1>5 DEF SweepRead
<1>6. ASSUME NEW k \in ConfirmKeys, NEW v \in Values, OnReported(k, v) PROVE row' = row
  BY <1>6 DEF OnReported
<1>7. CASE Cooled \/ ReportedWrite \/ Crash \/ UNCHANGED vars
  BY <1>7 DEF Cooled, ReportedWrite, Crash, vars, hubVars
<1> QED
  BY <1>1, <1>2, <1>3, <1>4, <1>5, <1>6, <1>7 DEF Next, Ingest

\* The command path implements the safety half of CommandLog, whatever the
\* interleaving: refusals are final and no verdict goes back into flight.
THEOREM ImplementsLog == Spec => Log!LogSafeSpec
<1>1. Init => Log!LogInit BY DEF Init, Log!LogInit
<1> QED BY <1>1, ActuationSafety, StepsOfTheLog, PTL DEF Spec, Log!LogSafeSpec

\* A row turns confirmed only by a read-back of its own register, or by a
\* reading of its own key and value (confirmPending, confirmsKey).
THEOREM ConfirmationIsTheDevices == Spec => ConfirmedByTheDevice
<1> DEFINE Grounds(c) ==
      \/ ask[c].modbus /\ pc[c] = "readback" /\ acts[c] = 1
      \/ /\ row[c] # "refused"
         /\ reading # None
         /\ reading.key = ask[c].key /\ reading.value = ask[c].value
<1>1. ASSUME IInv, [Next]_vars, NEW c \in Commands,
             row[c] # "confirmed", row'[c] = "confirmed"
      PROVE Grounds(c)
  <2> USE <1>1 DEF IInv, Types, ActuationTypeOK, Log!LogTypeOK
  <2>1. ASSUME NEW d \in Commands, Issue(d) PROVE Grounds(c)
    <3>1. ModbusMark(d) /\ pc[d] = "readback" /\ d = c
      BY <2>1 DEF Issue, IssueRefused, IssueRecord, IssuePublish, IssuePublishFails,
         IssueMark,
                  SetDesiredRead, SetDesiredWrite, ModbusWrite, ModbusMark, Write, hubVars
    <3> QED BY <3>1 DEF SendsInv
  <2>2. ASSUME NEW d \in Commands, EndStale(d) PROVE FALSE
    BY <2>2 DEF EndStale
  <2>3. ASSUME NEW d \in Commands, ConfirmRow(d) PROVE Grounds(c)
    <3>1. d = c BY <2>3 DEF ConfirmRow
    <3> QED BY <2>3, <3>1 DEF ConfirmRow, TodoWasSent, Log!Verdicts
  <2>4. ASSUME NEW d \in Commands,
               Disconnect(d) \/ GrowOld(d) \/ DeviceActs(d)
        PROVE FALSE
    BY <2>4 DEF Disconnect, GrowOld, DeviceActs, hubVars
  <2>5. ASSUME NEW s \in Log!InFlight, SweepRead(s) PROVE FALSE
    BY <2>5 DEF SweepRead
  <2>6. ASSUME NEW k \in ConfirmKeys, NEW v \in Values, OnReported(k, v) PROVE FALSE
    BY <2>6 DEF OnReported
  <2>7. CASE Cooled \/ ReportedWrite \/ Crash \/ UNCHANGED vars
    BY <2>7 DEF Cooled, ReportedWrite, Crash, vars, hubVars
  <2> HIDE DEF Grounds
  <2> QED BY <2>1, <2>2, <2>3, <2>4, <2>5, <2>6, <2>7 DEF Next, Ingest
<1>2. IInv /\ [Next]_vars =>
        [\A c \in Commands : row[c] # "confirmed" /\ row'[c] = "confirmed" => Grounds(c)]_vars
  BY <1>1
<1> QED BY <1>2, ActuationSafety, PTL DEF Spec, ConfirmedByTheDevice
-----------------------------------------------------------------------------
(***************************************************************************)
(* The twin and the log.                                                   *)
(***************************************************************************)
\* A call that still has its caller has marked its row before setDesired.
MarkedIsSent ==
  \A c \in Commands :
    pc[c] \in {"marked", "desiring"} /\ c \notin gone =>
      row[c] \in {"sent"} \cup Log!Verdicts

\* What was sent stays sent: a step of the log never takes it back, and nobody
\* changes what a call has asked for.
LEMMA SentIsKept ==
  ASSUME IInv, [Next]_vars
  PROVE  /\ ask' = ask
         /\ \A c \in Commands : row[c] \in {"sent"} \cup Log!Verdicts =>
                                row'[c] \in {"sent"} \cup Log!Verdicts
         /\ \A k, v : WasSent(k, v) => WasSent(k, v)'
<1>1. ask' = ask
  BY DEF Next, Issue, IssueRefused, IssueRecord, IssuePublish, IssuePublishFails,
         IssueMark, SetDesiredRead, SetDesiredWrite, ModbusWrite, ModbusMark, Disconnect,
         GrowOld, EndStale, DeviceActs, SweepRead, Cooled, Ingest,
         OnReported, ConfirmRow, ReportedWrite, Crash, vars
<1>2. ASSUME NEW c \in Commands, row[c] \in {"sent"} \cup Log!Verdicts
      PROVE  row'[c] \in {"sent"} \cup Log!Verdicts
  BY <1>2, StepsOfTheLog DEF IInv, Types, ActuationTypeOK, Log!LogTypeOK, Log!LogNext,
     Log!Refuse, Log!Record, Log!Publish, Log!Rule, Log!Overturn, Log!Becomes,
     Log!InFlight, Log!Verdicts
<1> QED BY <1>1, <1>2 DEF WasSent

\* A row is marked by the step that leads to setDesired, unless the caller is gone.
LEMMA MarkedStep ==
  ASSUME IInv, MarkedIsSent, [Next]_vars PROVE MarkedIsSent'
<1> SUFFICES ASSUME NEW c \in Commands,
                    pc'[c] \in {"marked", "desiring"}, c \notin gone'
             PROVE  row'[c] \in {"sent"} \cup Log!Verdicts
  BY DEF MarkedIsSent
<1> USE DEF IInv, Types, ActuationTypeOK, Log!LogTypeOK
<1>1. c \notin gone
  BY DEF Next, Issue, IssueRefused, IssueRecord, IssuePublish, IssuePublishFails,
         IssueMark, SetDesiredRead, SetDesiredWrite, ModbusWrite, ModbusMark, Disconnect,
         GrowOld, EndStale, DeviceActs, SweepRead, Cooled, Ingest,
         OnReported, ConfirmRow, ReportedWrite, Crash, vars, issueVars
<1>2. CASE IssueMark(c)
  BY <1>1, <1>2 DEF IssueMark, Write
<1>3. CASE ~IssueMark(c)
  <2>1. pc[c] \in {"marked", "desiring"}
    <3>1. ASSUME NEW d \in Commands, Issue(d) PROVE pc[c] \in {"marked", "desiring"}
      BY <1>3, <3>1 DEF Issue, IssueRefused, IssueRecord, IssuePublish,
         IssuePublishFails, IssueMark, SetDesiredRead, SetDesiredWrite, ModbusWrite,
         ModbusMark, Goto
    <3>2. CASE UNCHANGED pc
      BY <3>2
    <3>3. CASE Crash
      BY <3>3 DEF Crash
    <3> QED
      BY <3>1, <3>2, <3>3 DEF Next, Disconnect, GrowOld, EndStale, DeviceActs,
         SweepRead, Cooled, Ingest, OnReported, ConfirmRow, ReportedWrite,
         vars, issueVars
  <2> QED BY <1>1, <2>1, SentIsKept DEF MarkedIsSent
<1> QED BY <1>2, <1>3

\* The writers of the twin: setDesired writes what was sent, and OnReported
\* writes back what it has read, or nothing.
LEMMA DesiredStep ==
  ASSUME IInv, MarkedIsSent, DesiredWasSent, [Next]_vars PROVE DesiredWasSent'
<1> USE DEF IInv, Types, ActuationTypeOK
<1>1. ASSUME UNCHANGED <<twin, reading>> PROVE DesiredWasSent'
  BY <1>1, SentIsKept DEF DesiredWasSent
<1>2. ASSUME NEW c \in Commands, SetDesiredWrite(c) PROVE DesiredWasSent'
  <2>1. CASE twin' = twin
    BY <1>1, <1>2, <2>1 DEF SetDesiredWrite
  <2>2. CASE twin' # twin
    <3>1. /\ c \notin gone /\ pc[c] = "desiring"
          /\ twin' = [twin EXCEPT ![ask[c].key] =
                         [known |-> TRUE, desired |-> ask[c].value]]
      BY <1>2, <2>2 DEF SetDesiredWrite
    <3>2. WasSent(ask[c].key, ask[c].value)
      BY <3>1 DEF MarkedIsSent, WasSent
    <3>3. ASSUME NEW k \in Keys, twin'[k].desired # None
          PROVE  WasSent(k, twin'[k].desired)
      <4>1. CASE k = ask[c].key
        BY <3>1, <3>2, <4>1
      <4>2. CASE k # ask[c].key
        BY <3>1, <3>3, <4>2 DEF DesiredWasSent
      <4> QED BY <4>1, <4>2
    <3> QED BY <1>2, <3>3, SentIsKept DEF DesiredWasSent, SetDesiredWrite
  <2> QED BY <2>1, <2>2
<1>3. ASSUME NEW k \in ConfirmKeys, NEW v \in Values, OnReported(k, v)
      PROVE  DesiredWasSent'
  <2>1. k \in Keys
    BY DEF ConfirmKeys, Ask
  <2>2. /\ twin' = twin
        /\ reading'.key = k
        /\ reading'.next.desired \in {None, twin[k].desired}
    BY <1>3 DEF OnReported
  <2> QED BY <2>1, <2>2, SentIsKept DEF DesiredWasSent
<1>4. ASSUME NEW c \in Commands, ConfirmRow(c) PROVE DesiredWasSent'
  <2>1. /\ reading # None /\ twin' = twin
        /\ reading'.key = reading.key /\ reading'.next = reading.next
    BY <1>4 DEF ConfirmRow, Reading
  <2> QED BY <2>1, SentIsKept DEF DesiredWasSent
<1>5. CASE ReportedWrite
  <2>1. /\ reading # None /\ reading' = None /\ reading.key \in Keys
        /\ twin' \in {twin, [twin EXCEPT ![reading.key] = reading.next]}
    BY <1>5 DEF ReportedWrite, Reading
  <2>2. ASSUME NEW k \in Keys, twin'[k].desired # None
        PROVE  WasSent(k, twin'[k].desired)
    BY <2>1, <2>2 DEF DesiredWasSent
  <2> QED BY <2>1, <2>2, SentIsKept DEF DesiredWasSent
<1>6. CASE Crash
  BY <1>6, SentIsKept DEF Crash, DesiredWasSent
<1>7. ASSUME NEW c \in Commands,
             Disconnect(c) \/ GrowOld(c) \/ EndStale(c) \/ DeviceActs(c)
      PROVE  DesiredWasSent'
  BY <1>1, <1>7 DEF Disconnect, GrowOld, EndStale, DeviceActs, hubVars
<1>8. ASSUME NEW c \in Commands, Issue(c), ~SetDesiredWrite(c) PROVE DesiredWasSent'
  BY <1>1, <1>8 DEF Issue, IssueRefused, IssueRecord, IssuePublish, IssuePublishFails,
     IssueMark, SetDesiredRead, ModbusWrite, ModbusMark, hubVars
<1>9. ASSUME NEW s \in Log!InFlight, SweepRead(s) PROVE DesiredWasSent'
  BY <1>1, <1>9 DEF SweepRead
<1>10. CASE Cooled \/ UNCHANGED vars
  BY <1>1, <1>10 DEF Cooled, vars, hubVars
<1> QED
  BY <1>2, <1>3, <1>4, <1>5, <1>6, <1>7, <1>8, <1>9, <1>10 DEF Next, Ingest

\* The twin desires only what an accepted command has sent for that key, whatever
\* hangs up, stops or is written back late (Issue, setDesired, OnReported).
THEOREM TwinFollowsTheLog == Spec => []DesiredWasSent
<1>1. Init => MarkedIsSent /\ DesiredWasSent
  BY DEF Init, MarkedIsSent, DesiredWasSent, NoAttr
<1>2. IInv /\ MarkedIsSent /\ DesiredWasSent /\ [Next]_vars =>
        (MarkedIsSent /\ DesiredWasSent)'
  BY MarkedStep, DesiredStep
<1> QED BY <1>1, <1>2, ActuationSafety, PTL DEF Spec
=============================================================================
