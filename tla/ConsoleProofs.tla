---------------------------- MODULE ConsoleProofs ----------------------------
(***************************************************************************)
(* The Control tab, for any number of commands: what it shows was ruled by *)
(* the hub, and it waits for, and shows, the right command.                *)
(***************************************************************************)
EXTENDS CommandConsole, TLAPS

\* Every verdict on its way to the operator, in the log, in an answer or on
\* show, is one the hub has given that command.
VerdictsAreRuled ==
  /\ \A c \in Commands : /\ log[c] \in Hub!Verdicts => log[c] \in ruled[c]
                         /\ poll[c] \in Hub!Verdicts => poll[c] \in ruled[c]
  /\ issued # None /\ issued.status \in Hub!Verdicts => issued.status \in ruled[issued.id]

IInv == ConsoleTypeOK /\ VerdictsAreRuled /\ WaitsForTheRightCommand

-----------------------------------------------------------------------------
\* The invariant holds at the start.
LEMMA InitIInv == Init => IInv
  BY DEF Init, IInv, ConsoleTypeOK, Hub!LogTypeOK, VerdictsAreRuled,
     WaitsForTheRightCommand, Hub!LogInit, Hub!Status,
         Hub!InFlight, Hub!Verdicts

\* The steps of the hub: its log moves and the verdicts are remembered.
LEMMA HubKeeps ==
  ASSUME IInv, NEW c \in Commands, HubIssues(c) \/ HubRules(c) PROVE IInv'
<1> USE DEF IInv, ConsoleTypeOK, Hub!LogTypeOK, Hub!Status, Hub!InFlight, Hub!Verdicts,
           Ruled, uiVars, Answers
<1>1. log' \in [Commands -> Hub!Status] /\ UNCHANGED <<uiVars, poll>>
  BY DEF HubIssues, HubRules, Hub!Refuse, Hub!Record, Hub!Publish, Hub!Rule, Hub!Overturn,
     Hub!Becomes
<1>2. ruled' = [d \in Commands |->
                  IF log'[d] \in Hub!Verdicts THEN ruled[d] \cup {log'[d]} ELSE ruled[d]]
  BY DEF HubIssues, HubRules
<1>3. ruled' \in [Commands -> SUBSET Hub!Verdicts]
  BY <1>1, <1>2
<1>4. post' \in [Commands -> {"unsent", "sent", "yes", "no", "done"}]
  BY DEF HubIssues, HubRules
<1>5. VerdictsAreRuled'
  BY <1>1, <1>2 DEF VerdictsAreRuled, Row
<1>6. WaitsForTheRightCommand'
  BY <1>1 DEF WaitsForTheRightCommand
<1>7. ConsoleTypeOK'
  BY <1>1, <1>3, <1>4
<1> QED BY <1>5, <1>6, <1>7

\* The steps of the tab and of its requests: an answer that is taken is an
\* answer of the loop that is waiting.
LEMMA TabKeeps ==
  ASSUME IInv, Next, \A c \in Commands : ~(HubIssues(c) \/ HubRules(c)) PROVE IInv'
<1> USE NoneIsNoCommand DEF IInv, ConsoleTypeOK, Hub!LogTypeOK, Hub!Status, Hub!InFlight,
                           Hub!Verdicts, Answers, uiVars, Row
<1>1. ASSUME NEW c \in Commands, Ask(c) PROVE IInv'
  <2>1. ConsoleTypeOK' BY <1>1 DEF Ask
  <2>2. VerdictsAreRuled' BY <1>1 DEF Ask, VerdictsAreRuled
  <2>3. WaitsForTheRightCommand' BY <1>1 DEF Ask, WaitsForTheRightCommand
  <2> QED BY <2>1, <2>2, <2>3
<1>2. ASSUME Cancel PROVE IInv'
  <2>1. ConsoleTypeOK' BY <1>2 DEF Cancel
  <2>2. VerdictsAreRuled' BY <1>2 DEF Cancel, VerdictsAreRuled
  <2>3. WaitsForTheRightCommand' BY <1>2 DEF Cancel, WaitsForTheRightCommand
  <2> QED BY <2>1, <2>2, <2>3
<1>3. ASSUME Send PROVE IInv'
  <2>1. ConsoleTypeOK' BY <1>3 DEF Send
  <2>2. VerdictsAreRuled' BY <1>3 DEF Send, VerdictsAreRuled
  <2>3. WaitsForTheRightCommand' BY <1>3 DEF Send, WaitsForTheRightCommand
  <2> QED BY <2>1, <2>2, <2>3
<1>4. ASSUME NEW c \in Commands, Accepted(c) PROVE IInv'
  <2>1. ConsoleTypeOK'
    <3>1. issued' \in Row /\ poll' \in [Commands -> {"off", "timer", "asked"} \cup Answers]
      BY <1>4 DEF Accepted, Restart
    <3>2. {sending', refusal', waiting', timedOut', late'} \subseteq BOOLEAN
      BY <1>4 DEF Accepted, Restart
    <3>3. post' \in [Commands -> {"unsent", "sent", "yes", "no", "done"}]
      BY <1>4 DEF Accepted
    <3> QED BY <1>4, <3>1, <3>2, <3>3 DEF Accepted, Restart
  <2>2. VerdictsAreRuled' BY <1>4 DEF Accepted, Restart, VerdictsAreRuled
  <2>3. WaitsForTheRightCommand'
    <3>1. issued' \in Row /\ issued'.id = c /\ loop' = c
      BY <1>4 DEF Accepted, Restart
    <3>2. waiting' BY <1>4 DEF Accepted
    <3> QED BY <3>1, <3>2, NoneIsNoRow DEF WaitsForTheRightCommand
  <2> QED BY <2>1, <2>2, <2>3
<1>5. ASSUME NEW c \in Commands, Refused(c) PROVE IInv'
  <2>1. ConsoleTypeOK' BY <1>5 DEF Refused, Restart
  <2>2. VerdictsAreRuled' BY <1>5 DEF Refused, Restart, VerdictsAreRuled
  <2>3. WaitsForTheRightCommand' BY <1>5 DEF Refused, Restart, WaitsForTheRightCommand
  <2> QED BY <2>1, <2>2, <2>3
<1>6. ASSUME NEW c \in Commands, PostThrows(c) PROVE IInv'
  <2>1. ConsoleTypeOK' BY <1>6 DEF PostThrows
  <2>2. VerdictsAreRuled' BY <1>6 DEF PostThrows, VerdictsAreRuled
  <2>3. WaitsForTheRightCommand' BY <1>6 DEF PostThrows, WaitsForTheRightCommand
  <2> QED BY <2>1, <2>2, <2>3
<1>7. ASSUME NEW c \in Commands, Tick(c) PROVE IInv'
  <2>1. ConsoleTypeOK' BY <1>7 DEF Tick
  <2>2. VerdictsAreRuled' BY <1>7 DEF Tick, VerdictsAreRuled
  <2>3. WaitsForTheRightCommand' BY <1>7 DEF Tick, WaitsForTheRightCommand
  <2> QED BY <2>1, <2>2, <2>3
<1>8. ASSUME NEW c \in Commands, HistoryAnswers(c) PROVE IInv'
  <2>1. ConsoleTypeOK' BY <1>8 DEF HistoryAnswers, Back
  <2>2. VerdictsAreRuled' BY <1>8 DEF HistoryAnswers, Back, VerdictsAreRuled
  <2>3. WaitsForTheRightCommand' BY <1>8 DEF HistoryAnswers, Back, WaitsForTheRightCommand
  <2> QED BY <2>1, <2>2, <2>3
<1>9. ASSUME NEW c \in Commands, TickCancelled(c) PROVE IInv'
  <2>1. ConsoleTypeOK' BY <1>9 DEF TickCancelled, Back
  <2>2. VerdictsAreRuled' BY <1>9 DEF TickCancelled, Back, VerdictsAreRuled
  <2>3. WaitsForTheRightCommand' BY <1>9 DEF TickCancelled, Back, WaitsForTheRightCommand
  <2> QED BY <2>1, <2>2, <2>3
<1>10. ASSUME NEW c \in Commands, TickThrows(c) PROVE IInv'
  <2>1. ConsoleTypeOK' BY <1>10 DEF TickThrows, Back
  <2>2. VerdictsAreRuled' BY <1>10 DEF TickThrows, Back, VerdictsAreRuled
  <2>3. WaitsForTheRightCommand' BY <1>10 DEF TickThrows, Back, WaitsForTheRightCommand
  <2> QED BY <2>1, <2>2, <2>3
<1>11. ASSUME NEW c \in Commands, NEW a \in Answers, TickVerdict(c, a) PROVE IInv'
  <2>1. ConsoleTypeOK' BY <1>11 DEF TickVerdict, Back, Seen, WaitsForTheRightCommand
  <2>2. VerdictsAreRuled' BY <1>11 DEF TickVerdict, Back, Seen, VerdictsAreRuled,
                             WaitsForTheRightCommand
  <2>3. WaitsForTheRightCommand' BY <1>11 DEF TickVerdict, Back, Seen,
                                    WaitsForTheRightCommand
  <2> QED BY <2>1, <2>2, <2>3
<1>12. ASSUME NEW c \in Commands, NEW a \in Answers, TickNoVerdict(c, a) PROVE IInv'
  <2>1. ConsoleTypeOK' BY <1>12 DEF TickNoVerdict, Back, Seen, WaitsForTheRightCommand
  <2>2. VerdictsAreRuled' BY <1>12 DEF TickNoVerdict, Back, Seen, VerdictsAreRuled,
                             WaitsForTheRightCommand
  <2>3. WaitsForTheRightCommand'
    <3>1. loop = c /\ issued \in Row /\ issued.id = c
      BY <1>12 DEF TickNoVerdict, WaitsForTheRightCommand
    <3>2. issued' \in Row /\ issued'.id = c
      BY <1>12, <3>1 DEF TickNoVerdict, Back, Seen
    <3>3. CASE late
      BY <1>12, <3>2, <3>3 DEF TickNoVerdict, WaitsForTheRightCommand
    <3>4. CASE ~late
      BY <1>12, <3>1, <3>2, <3>4, NoneIsNoRow DEF TickNoVerdict, WaitsForTheRightCommand
    <3> QED BY <3>3, <3>4
  <2> QED BY <2>1, <2>2, <2>3
<1>13. ASSUME WindowPasses PROVE IInv'
  <2>1. ConsoleTypeOK' BY <1>13 DEF WindowPasses
  <2>2. VerdictsAreRuled' BY <1>13 DEF WindowPasses, VerdictsAreRuled
  <2>3. WaitsForTheRightCommand' BY <1>13 DEF WindowPasses, WaitsForTheRightCommand
  <2> QED BY <2>1, <2>2, <2>3
<1>14. ASSUME Dismiss PROVE IInv'
  <2>1. ConsoleTypeOK' BY <1>14 DEF Dismiss, Restart
  <2>2. VerdictsAreRuled' BY <1>14 DEF Dismiss, Restart, VerdictsAreRuled
  <2>3. WaitsForTheRightCommand' BY <1>14 DEF Dismiss, Restart, WaitsForTheRightCommand
  <2> QED BY <2>1, <2>2, <2>3
<1>15. ASSUME DismissRefusal PROVE IInv'
  <2>1. ConsoleTypeOK' BY <1>15 DEF DismissRefusal
  <2>2. VerdictsAreRuled' BY <1>15 DEF DismissRefusal, VerdictsAreRuled
  <2>3. WaitsForTheRightCommand' BY <1>15 DEF DismissRefusal, WaitsForTheRightCommand
  <2> QED BY <2>1, <2>2, <2>3
<1>16. ASSUME Remount PROVE IInv'
  <2>1. ConsoleTypeOK' BY <1>16 DEF Remount, Restart
  <2>2. VerdictsAreRuled' BY <1>16 DEF Remount, Restart, VerdictsAreRuled
  <2>3. WaitsForTheRightCommand' BY <1>16 DEF Remount, Restart, WaitsForTheRightCommand
  <2> QED BY <2>1, <2>2, <2>3
<1> QED
  BY <1>1, <1>2, <1>3, <1>4, <1>5, <1>6, <1>7, <1>8, <1>9, <1>10, <1>11, <1>12, <1>13,
     <1>14, <1>15, <1>16
  DEF Next, TickReturns

-----------------------------------------------------------------------------
\* The inductive invariant of the tab.
THEOREM ConsoleSafety == Spec => []IInv
<1>1. IInv /\ [Next]_vars => IInv'
  <2> SUFFICES ASSUME IInv, [Next]_vars PROVE IInv'
    OBVIOUS
  <2>1. CASE Next
    BY <2>1, HubKeeps, TabKeeps
  <2>2. CASE UNCHANGED vars
    BY <2>2 DEF IInv, ConsoleTypeOK, Hub!LogTypeOK, VerdictsAreRuled,
       WaitsForTheRightCommand, vars, uiVars
  <2> QED BY <2>1, <2>2
<1> QED BY InitIInv, <1>1, PTL DEF Spec

\* The state of the tab and of its requests keeps its types; in particular the
\* body of an error answer never takes the place of a row.
THEOREM ConsoleTypes == Spec => []ConsoleTypeOK
<1>1. IInv => ConsoleTypeOK BY DEF IInv
<1> QED BY <1>1, ConsoleSafety, PTL

\* The tab says confirmed, or failed, only of a command the hub has given that
\* verdict ("sent" is NOT "done", apis/commands.go).
THEOREM OutcomesAreRuled == Spec => []OutcomeWasRuled
<1>1. IInv => OutcomeWasRuled
  BY DEF IInv, VerdictsAreRuled, OutcomeWasRuled, Outcome, Hub!Verdicts
<1> QED BY <1>1, ConsoleSafety, PTL

\* The loop that polls is the one of the command on show.
THEOREM PollsWhatItShows == Spec => []WaitsForTheRightCommand
<1>1. IInv => WaitsForTheRightCommand BY DEF IInv
<1> QED BY <1>1, ConsoleSafety, PTL

\* Another command is on show only after it was sent: an answer that comes
\* late never brings an earlier one back.
THEOREM NothingComesBack == Spec => ShownBySending
<1> DEFINE Sent == \E c \in Commands : issued'.id = c /\ Accepted(c)
<1>1. ASSUME IInv, [Next]_vars, issued' # None,
             issued = None \/ issued.id # issued'.id
      PROVE Sent
  <2> USE <1>1 DEF IInv, ConsoleTypeOK, Hub!LogTypeOK, Row
  <2>1. ASSUME NEW c \in Commands, NEW a \in Answers, TickVerdict(c, a) \/ TickNoVerdict(c, a)
        PROVE FALSE
    <3>1. issued # None /\ issued.id = c
      BY <2>1, NoneIsNoCommand DEF TickVerdict, TickNoVerdict, WaitsForTheRightCommand
    <3> QED BY <2>1, <3>1 DEF TickVerdict, TickNoVerdict, Seen
  <2>2. ASSUME NEW c \in Commands, Accepted(c) PROVE Sent
    <3>1. issued'.id = c BY <2>2 DEF Accepted
    <3> QED BY <2>2, <3>1
  <2>3. ASSUME NEW c \in Commands,
               \/ HubIssues(c) \/ HubRules(c) \/ Ask(c) \/ Refused(c) \/ PostThrows(c)
               \/ Tick(c) \/ HistoryAnswers(c) \/ TickCancelled(c) \/ TickThrows(c)
        PROVE FALSE
    BY <2>3 DEF HubIssues, HubRules, Ask, Refused, PostThrows, Tick, HistoryAnswers,
                TickCancelled, TickThrows, uiVars
  <2>4. ~(Cancel \/ Send \/ WindowPasses \/ Dismiss \/ DismissRefusal \/ Remount)
    BY DEF Cancel, Send, WindowPasses, Dismiss, DismissRefusal, Remount
  <2>5. ~UNCHANGED vars
    BY DEF vars, uiVars
  <2> HIDE DEF Sent
  <2> QED BY <2>1, <2>2, <2>3, <2>4, <2>5 DEF Next, TickReturns
<1>2. IInv /\ [Next]_vars =>
        [issued' # None /\ (issued = None \/ issued.id # issued'.id) => Sent]_vars
  BY <1>1
<1> QED BY <1>2, ConsoleSafety, PTL DEF Spec, ShownBySending
=============================================================================
