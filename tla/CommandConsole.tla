--------------------------- MODULE CommandConsole ---------------------------
(***************************************************************************)
(* The Control tab of one device in the browser (DeviceControl in          *)
(* components/commands.js), in front of the hub's command log.             *)
(*                                                                         *)
(* The tab asks before it sends, sends with one POST, and then polls the   *)
(* history until the row has a verdict or the window has passed.  Every    *)
(* await is a place where the operator, the hub and the other answers go   *)
(* on: a handler is split there, and the second half finds the state as it *)
(* is by then.  fetch may reject; nothing here catches that.               *)
(***************************************************************************)
EXTENDS FiniteSets

CONSTANTS
  Commands,     \* the commands an operator sends from this browser, in turn
  None

ASSUME NoneIsNoCommand == None \notin Commands

VARIABLES
  log,          \* the hub's command log
  post,         \* each POST: what is on its way, or the answer of Issue
  confirming,   \* the command in the confirmation dialog
  sending,      \* the dialog is busy
  refusal,      \* a refusal is on show
  issued,       \* the row on show: its id and the status last read
  waiting, timedOut,
  loop,         \* the command whose poll loop is not cancelled
  poll,         \* each loop: its timer runs, its request is out, its answer
  late,         \* POLL_WINDOW_MS has passed since the loop began
  ruled         \* history: the verdicts the hub has ever given

uiVars == <<confirming, sending, refusal, issued, waiting, timedOut, loop, late>>
vars == <<log, post, uiVars, poll, ruled>>

Hub == INSTANCE CommandLog

Row == [id : Commands, status : Hub!Status]
ASSUME NoneIsNoRow == None \notin Row

Answers == Hub!Status \cup {"notok", "thrown"}

Init ==
  /\ Hub!LogInit
  /\ post = [c \in Commands |-> "unsent"]
  /\ confirming = None
  /\ sending = FALSE
  /\ refusal = FALSE
  /\ issued = None
  /\ waiting = FALSE
  /\ timedOut = FALSE
  /\ loop = None
  /\ poll = [c \in Commands |-> "off"]
  /\ late = FALSE
  /\ ruled = [c \in Commands |-> {}]

-----------------------------------------------------------------------------
(* The hub.  Issue answers its POST when it has refused, sent or failed    *)
(* the command; the sweep and the readings rule on it later.               *)

Ruled == ruled' = [c \in Commands |->
                     IF log'[c] \in Hub!Verdicts THEN ruled[c] \cup {log'[c]}
                     ELSE ruled[c]]

HubIssues(c) ==
  /\ post[c] = "sent"
  /\ \/ Hub!Refuse(c) /\ post' = [post EXCEPT ![c] = "no"]
     \/ Hub!Record(c) /\ UNCHANGED post
     \/ /\ Hub!Publish(c) \/ (log[c] = "pending" /\ Hub!Rule(c))
        /\ post' = [post EXCEPT ![c] = IF log'[c] = "failed" THEN "no" ELSE "yes"]
     \/ /\ log[c] \in Hub!Verdicts /\ UNCHANGED log
        /\ \E a \in {"yes", "no"} : post' = [post EXCEPT ![c] = a]
  /\ Ruled
  /\ UNCHANGED <<uiVars, poll>>

HubRules(c) ==
  /\ Hub!Rule(c) \/ Hub!Overturn(c)
  /\ Ruled
  /\ UNCHANGED <<post, uiVars, poll>>
-----------------------------------------------------------------------------
(* Asking and sending.                                                     *)

\* A control hands its value to the dialog.
Ask(c) ==
  /\ confirming = None /\ post[c] = "unsent"
  /\ confirming' = c
  /\ refusal' = FALSE
  /\ UNCHANGED <<log, post, sending, issued, waiting, timedOut, loop, late,
                 poll, ruled>>

\* The dialog can be left as long as it is not busy.
Cancel ==
  /\ confirming # None /\ ~sending
  /\ confirming' = None
  /\ UNCHANGED <<log, post, sending, refusal, issued, waiting, timedOut, loop,
                 late, poll, ruled>>

\* send, up to its await.
Send ==
  /\ confirming # None /\ ~sending
  /\ sending' = TRUE
  /\ post' = [post EXCEPT ![confirming] = "sent"]
  /\ UNCHANGED <<log, confirming, refusal, issued, waiting, timedOut, loop,
                 late, poll, ruled>>

\* Mutant: the effect depends on waiting alone.
RestartOnWaiting(c) ==
  /\ loop' = IF c # None /\ waiting THEN loop ELSE c
  /\ late' = FALSE
  /\ poll' = IF c = None \/ waiting THEN poll ELSE [poll EXCEPT ![c] = "timer"]

\* The poll effect runs again when waiting or issued.id has changed: the old
\* loop is cancelled and, if there is something to wait for, a new one starts
\* with a timer and a deadline of its own.
Restart(c) ==
  /\ loop' = c
  /\ late' = FALSE
  /\ poll' = IF c = None THEN poll ELSE [poll EXCEPT ![c] = "timer"]

\* send, after its await: accepted.
Accepted(c) ==
  /\ sending /\ confirming = c /\ post[c] = "yes"
  /\ sending' = FALSE /\ confirming' = None
  /\ refusal' = FALSE /\ timedOut' = FALSE
  /\ \E s \in {"sent", "confirmed"} :
       /\ s = "confirmed" => s \in ruled[c]
       /\ issued' = [id |-> c, status |-> s]
  /\ waiting' = TRUE
  /\ Restart(c)
  /\ post' = [post EXCEPT ![c] = "done"]
  /\ UNCHANGED <<log, ruled>>

\* send, after its await: not ok.
Refused(c) ==
  /\ sending /\ confirming = c /\ post[c] = "no"
  /\ sending' = FALSE /\ confirming' = None
  /\ refusal' = TRUE /\ issued' = None
  /\ waiting' = FALSE /\ timedOut' = FALSE
  /\ Restart(None)
  /\ post' = [post EXCEPT ![c] = "done"]
  /\ UNCHANGED <<log, ruled>>

\* The POST, or its answer, is lost: fetch rejects and send goes no further.
PostThrows(c) ==
  /\ post[c] \in {"sent", "yes", "no"}
  /\ post' = [post EXCEPT ![c] = "done"]
  /\ UNCHANGED <<log, uiVars, poll, ruled>>
-----------------------------------------------------------------------------
(* The poll: tick, split at its await.                                     *)

\* The timer fires and the history is asked for.
Tick(c) ==
  /\ loop = c /\ poll[c] = "timer"
  /\ poll' = [poll EXCEPT ![c] = "asked"]
  /\ UNCHANGED <<log, post, uiVars, ruled>>

\* The history as the hub has it, an error answer, or no answer at all.
HistoryAnswers(c) ==
  /\ poll[c] = "asked"
  /\ \E a \in {log[c], "notok", "thrown"} : poll' = [poll EXCEPT ![c] = a]
  /\ UNCHANGED <<log, post, uiVars, ruled>>

Back(c, a) == poll[c] = a /\ a \in Answers

\* The loop was cancelled while its request was out.
TickCancelled(c) ==
  /\ \E a \in Answers : Back(c, a)
  /\ loop # c
  /\ poll' = [poll EXCEPT ![c] = "off"]
  /\ UNCHANGED <<log, post, uiVars, ruled>>

\* The row of the command, as this answer has it.
Seen(c, a) == IF a = "notok" THEN issued ELSE [id |-> c, status |-> a]

\* Mutant: tick does not look at cancelled.
TickVerdictAnyway(c, a) ==
  /\ Back(c, a) /\ a \in Hub!Verdicts
  /\ issued' = Seen(c, a)
  /\ waiting' = FALSE
  /\ loop' = None
  /\ poll' = [poll EXCEPT ![c] = "off"]
  /\ UNCHANGED <<log, post, confirming, sending, refusal, timedOut, late, ruled>>

\* A verdict ends the wait.
TickVerdict(c, a) ==
  /\ Back(c, a) /\ loop = c /\ a \in Hub!Verdicts
  /\ issued' = Seen(c, a)
  /\ waiting' = FALSE
  /\ loop' = None
  /\ poll' = [poll EXCEPT ![c] = "off"]
  /\ UNCHANGED <<log, post, confirming, sending, refusal, timedOut, late, ruled>>

\* Mutant: the window is never looked at.
TickNoVerdictForever(c, a) ==
  /\ Back(c, a) /\ loop = c /\ a \notin Hub!Verdicts \cup {"thrown"}
  /\ issued' = Seen(c, a)
  /\ poll' = [poll EXCEPT ![c] = "timer"]
  /\ UNCHANGED <<log, post, confirming, sending, refusal, waiting, timedOut,
                 loop, late, ruled>>

\* No verdict: give up after the window, or set the timer again.
TickNoVerdict(c, a) ==
  /\ Back(c, a) /\ loop = c /\ a \notin Hub!Verdicts \cup {"thrown"}
  /\ issued' = Seen(c, a)
  /\ waiting' = ~late
  /\ timedOut' = late
  /\ loop' = IF late THEN None ELSE c
  /\ poll' = [poll EXCEPT ![c] = IF late THEN "off" ELSE "timer"]
  /\ UNCHANGED <<log, post, confirming, sending, refusal, late, ruled>>

\* fetch rejects: tick goes no further, and nobody sets the timer again.
TickThrows(c) ==
  /\ Back(c, "thrown") /\ loop = c
  /\ poll' = [poll EXCEPT ![c] = "off"]
  /\ UNCHANGED <<log, post, uiVars, ruled>>

TickReturns(c) ==
  \/ TickCancelled(c) \/ TickThrows(c)
  \/ \E a \in Answers : TickVerdict(c, a) \/ TickNoVerdict(c, a)

WindowPasses ==
  /\ loop # None /\ ~late
  /\ late' = TRUE
  /\ UNCHANGED <<log, post, confirming, sending, refusal, issued, waiting,
                 timedOut, loop, poll, ruled>>
-----------------------------------------------------------------------------
\* Mutant: what the hub has sent counts as done once the window is over.
OutcomeOptimistic ==
  IF issued = None THEN "nothing"
  ELSE IF waiting \/ issued.status = "pending" THEN "waiting"
  ELSE IF issued.status \in Hub!Verdicts THEN issued.status
  ELSE "confirmed"

\* IssuedOutcome: what the operator is shown about the command.
Outcome ==
  IF issued = None THEN "nothing"
  ELSE IF \/ waiting
          \/ issued.status = "pending"
          \/ issued.status = "sent" /\ ~timedOut THEN "waiting"
  ELSE IF issued.status \in Hub!Verdicts THEN issued.status
  ELSE "unconfirmed"

\* Only an outcome, never the spinner, can be dismissed.
Dismiss ==
  /\ Outcome \in Hub!Verdicts \cup {"unconfirmed"}
  /\ issued' = None /\ waiting' = FALSE /\ timedOut' = FALSE
  /\ Restart(None)
  /\ UNCHANGED <<log, post, confirming, sending, refusal, ruled>>

DismissRefusal ==
  /\ refusal
  /\ refusal' = FALSE
  /\ UNCHANGED <<log, post, confirming, sending, issued, waiting, timedOut,
                 loop, late, poll, ruled>>

\* The operator leaves the tab and comes back: a new DeviceControl.
Remount ==
  /\ confirming' = None /\ sending' = FALSE /\ refusal' = FALSE
  /\ issued' = None /\ waiting' = FALSE /\ timedOut' = FALSE
  /\ Restart(None)
  /\ UNCHANGED <<log, post, ruled>>

Next ==
  \/ \E c \in Commands :
       \/ HubIssues(c) \/ HubRules(c) \/ Ask(c) \/ Accepted(c) \/ Refused(c)
       \/ PostThrows(c) \/ Tick(c) \/ HistoryAnswers(c) \/ TickReturns(c)
  \/ Cancel \/ Send \/ WindowPasses \/ Dismiss \/ DismissRefusal \/ Remount

Spec == Init /\ [][Next]_vars

\* The browser runs its timers and the answers that arrive, and a request is
\* answered or rejected in the end.  The hub is fair as CommandLog says.
Fairness ==
  /\ WF_vars(WindowPasses)
  /\ \A c \in Commands :
       /\ WF_vars(Tick(c)) /\ WF_vars(HistoryAnswers(c)) /\ WF_vars(TickReturns(c))
       /\ WF_vars(HubRules(c))

FairSpec == Spec /\ Fairness
-----------------------------------------------------------------------------
ConsoleTypeOK ==
  /\ Hub!LogTypeOK
  /\ post \in [Commands -> {"unsent", "sent", "yes", "no", "done"}]
  /\ confirming \in Commands \cup {None}
  /\ {sending, refusal, waiting, timedOut, late} \subseteq BOOLEAN
  /\ issued \in Row \cup {None}
  /\ loop \in Commands \cup {None}
  /\ poll \in [Commands -> {"off", "timer", "asked"} \cup Answers]
  /\ ruled \in [Commands -> SUBSET Hub!Verdicts]

\* "Sent" is not "done": the tab shows a command as confirmed, or as failed,
\* only when the hub has given that very command that verdict.
OutcomeWasRuled ==
  Outcome \in Hub!Verdicts => Outcome \in ruled[issued.id]

\* While the tab waits, the loop that polls is the one of the command on show:
\* a late answer about an earlier command, or one from before a dismissal or
\* another visit to the tab, never takes the place of what is being waited for.
WaitsForTheRightCommand ==
  /\ waiting => issued # None /\ loop = issued.id
  /\ loop # None => waiting

\* What is on show changes to another command only by sending that command.
ShownBySending ==
  [][issued' # None /\ (issued = None \/ issued.id # issued'.id)
       => \E c \in Commands : issued'.id = c /\ Accepted(c)]_vars

\* The spinner ends in a verdict or in the plain statement that there is
\* none, unless a request of the loop was rejected.
WaitingEnds ==
  \A c \in Commands :
    (loop = c) ~> (loop # c \/ poll[c] = "off")

\* "giving up before the server has ruled would leave them staring at a
\* spinner instead of at the warning" (commands.js): the spinner ends.
SpinnerEnds == waiting ~> ~waiting
=============================================================================
