------------------------------- MODULE OsdpBus -------------------------------
(***************************************************************************)
(* The control panel end of one reader: osdp.Bus.Run and its pdState.      *)
(*                                                                         *)
(* Run is one goroutine: a slot picks a frame and writes it (Slot), the    *)
(* reader handles it (OsdpReader), and the panel takes an answer or gives  *)
(* up (Receive, Timeout).  Only Send runs beside it, and what it queues is *)
(* picked up at the next slot.  Time is counted in slots.  Events go to    *)
(* the controller in the order emitted: "told" is what the last Online or  *)
(* Offline event said and "served" how often each badge was delivered.     *)
(* KEYSET, keypad digits and the content of status replies are left out.   *)
(***************************************************************************)
EXTENDS OsdpReader

CONSTANTS
  Configs,           \* the PDConfigs a reader may be added with
  OfflineAfter,      \* consecutive failures that take a reader offline
  SupervisionSlots,  \* SupervisionTimeout, in slots
  RetrySlots,        \* the backoff delays a lost session may get, in slots
  MinPollsPerStatus  \* polls between two status commands

ASSUME BusConstants ==
  /\ Configs \subseteq [key : BOOLEAN, required : BOOLEAN]
  /\ \A c \in Configs : c.required => c.key       \* AddPD refuses otherwise
  /\ Nothing \notin Requests
  /\ OfflineAfter \in Nat \ {0} /\ SupervisionSlots \in Nat
  /\ RetrySlots \subseteq Nat \ {0} /\ RetrySlots # {}
  /\ MinPollsPerStatus \in Nat

VARIABLES
  config,               \* PDConfig: SCBK is set, RequireSecureChannel is set
  status,               \* "offline" | "identifying" | "securing" | "online"
  seq, resetSeq,
  infoKnown, capsKnown, \* PDID and PDCAP have been parsed
  failures,             \* consecutive failed transactions, saturating
  announced,            \* this failure episode has been reported
  sinceGood,            \* slots since the last usable reply, saturating
  sc,                   \* "none" | "challenged" | "crypted" | "active" | "failed"
  scNext,               \* the SCRYPT frame waits for the next slot
  retryLeft,            \* slots until the handshake may be tried again
  polls,                \* pollsSinceStatus, saturating
  queue, pending,       \* Bus.cmds and pdState.pending
  outcome,              \* what each Send returned
  told, served

session == <<sc, scNext, retryLeft>>
HasKey == config.key
RequireSC == config.required

identity == <<infoKnown, capsKnown>>
sends == <<queue, pending, outcome>>
cpVars == <<config, status, seq, resetSeq, identity, failures, announced, sinceGood,
            session, polls, sends, told, served>>
busVars == <<wire, bounds, pdVars, paired, chained, cpVars>>

BusInit ==
  /\ ReaderInit
  /\ config \in Configs
  /\ status = "offline" /\ seq = 0 /\ resetSeq = TRUE
  /\ infoKnown = FALSE /\ capsKnown = FALSE
  /\ failures = 0 /\ announced = FALSE /\ sinceGood = 0
  /\ sc = "none" /\ scNext = FALSE /\ retryLeft = 0
  /\ polls = 0
  /\ queue = <<>> /\ pending = Nothing
  /\ outcome = [r \in Requests |-> "none"]
  /\ told = "offline"
  /\ served = [b \in Badges |-> 0]
-----------------------------------------------------------------------------
\* Send: an application asks for the strike, once per request.
Send(r) ==
  /\ outcome[r] = "none"
  /\ outcome' = [outcome EXCEPT ![r] = "waiting"]
  /\ queue' = Append(queue, r)
  /\ UNCHANGED <<wire, bounds, pdVars, paired, chained, config, status, seq, resetSeq,
                 identity, failures, announced, sinceGood, session, polls,
                 pending, told, served>>

(***************************************************************************)
(* One slot: drainCommands, then transact up to the write.                 *)
(***************************************************************************)
\* The newest request wins; those it displaces are answered with an error.
Drained == IF queue = <<>> THEN pending ELSE queue[Len(queue)]
\* Mutant: a displaced request is forgotten.
SupersededForgotten == {}
\* Mutant: the request that wins is refused with the ones it displaces.
SupersededEveryone == {r \in Requests : outcome[r] = "waiting"}
Superseded == {r \in Requests : outcome[r] = "waiting" /\ r # Drained}

DrainCommands ==
  /\ queue' = <<>>
  /\ pending' = Drained
  /\ outcome' = [r \in Requests |-> IF r \in Superseded THEN "error" ELSE outcome[r]]

NextSeq == IF resetSeq \/ status = "offline" THEN 0 ELSE NextSequence(seq)

WantsSecureChannel ==
  HasKey /\ capsKnown /\ sc \notin {"active", "failed"} /\ retryLeft = 0

\* Mutant: the time alone decides, however slow the round.
StatusWheneverDue == FALSE
StatusNotYet == polls < MinPollsPerStatus
StatusDue == status \in {"securing", "online"} /\ ~StatusNotYet

\* nextCommand: the reader's next identification step, a status command when
\* its interval has elapsed, or a poll.
NextCommands ==
  IF Drained # Nothing THEN {"OUT"}
  ELSE IF status \in {"offline", "identifying"}
       THEN {IF ~infoKnown THEN "ID" ELSE IF ~capsKnown THEN "CAP" ELSE "POLL"}
       ELSE {"POLL"} \cup (IF StatusDue THEN {"STAT"} ELSE {})

Write(code, sealed) ==
  /\ cmd' = [code |-> code, seq |-> NextSeq, sealed |-> sealed,
             req |-> IF code = "OUT" THEN Drained ELSE Nothing]
  /\ phase' = "sent"

Handshake ==
  \/ /\ scNext
     /\ Write("SCRYPT", FALSE)
     /\ scNext' = FALSE
     /\ UNCHANGED <<sc, paired>>
  \/ /\ ~scNext /\ WantsSecureChannel
     /\ Write("CHLNG", FALSE)
     /\ sc' = "challenged" /\ paired' = FALSE
     /\ UNCHANGED scNext

Ordinary ==
  /\ ~scNext /\ ~WantsSecureChannel
  /\ \E code \in NextCommands : Write(code, sc = "active")
  /\ UNCHANGED <<sc, scNext, paired>>

\* checkSupervision: answering, but nothing usable for too long.
Unsupervised == sinceGood > SupervisionSlots /\ ~announced

Slot ==
  /\ phase = "idle"
  /\ DrainCommands
  /\ seq' = NextSeq
  /\ Handshake \/ Ordinary
  /\ IF Unsupervised
     THEN /\ announced' = TRUE /\ status' = "offline" /\ told' = "offline"
          /\ resetSeq' = TRUE /\ infoKnown' = FALSE /\ capsKnown' = FALSE
     ELSE /\ status' = IF ~scNext /\ WantsSecureChannel THEN "securing" ELSE status
          /\ resetSeq' = FALSE
          /\ UNCHANGED <<announced, told, identity>>
  /\ polls' = CASE Unsupervised \/ cmd'.code = "STAT" -> 0
                [] ~Unsupervised /\ cmd'.code = "POLL" /\ StatusNotYet
                     /\ status \in {"securing", "online"} -> polls + 1
                [] OTHER -> polls
  /\ sinceGood' = IF sinceGood > SupervisionSlots THEN sinceGood ELSE sinceGood + 1
  /\ retryLeft' = IF retryLeft > 0 THEN retryLeft - 1 ELSE 0
  /\ late' \in {late, Nothing}          \* flushFrames, if it has arrived by now
  /\ UNCHANGED <<rx, bounds, pdVars, chained, config, failures, served>>
-----------------------------------------------------------------------------
(***************************************************************************)
(* The end of a transaction.                                               *)
(***************************************************************************)
\* Mutant: completePending answers the caller and keeps the command.
CompleteKeepingPending(result) ==
  /\ phase' = "idle"
  /\ cmd' = Nothing /\ rx' = Nothing
  /\ outcome' = IF pending = Nothing THEN outcome
                ELSE [outcome EXCEPT ![pending] = result]
  /\ UNCHANGED <<config, queue, pending, seq, polls, pdVars, paired>>

Complete(result) ==
  /\ phase' = "idle"
  /\ cmd' = Nothing /\ rx' = Nothing
  /\ pending' = Nothing
  /\ outcome' = IF pending = Nothing THEN outcome
                ELSE [outcome EXCEPT ![pending] = result]
  /\ UNCHANGED <<config, queue, seq, polls, pdVars, paired>>

\* Mutant: a reader declared offline keeps its session.
FailKeepingSession(before) ==
  LET crossed == before + 1 >= OfflineAfter /\ ~announced
  IN  /\ failures' = IF before < OfflineAfter THEN before + 1 ELSE before
      /\ IF crossed
         THEN /\ announced' = TRUE /\ status' = "offline" /\ told' = "offline"
              /\ infoKnown' = FALSE /\ capsKnown' = FALSE
              /\ resetSeq' = TRUE
              /\ UNCHANGED session
         ELSE UNCHANGED <<announced, status, told, identity, session>>
      /\ UNCHANGED <<sinceGood, served>>

\* fail: the transaction failed, "before" failures after the last good one.
Fail(before) ==
  LET crossed == before + 1 >= OfflineAfter /\ ~announced
  IN  /\ failures' = IF before < OfflineAfter THEN before + 1 ELSE before
      /\ IF crossed
         THEN /\ announced' = TRUE /\ status' = "offline" /\ told' = "offline"
              /\ infoKnown' = FALSE /\ capsKnown' = FALSE
              /\ resetSeq' = TRUE
              /\ sc' = "none" /\ scNext' = FALSE
              /\ IF sc = "active" THEN retryLeft' \in RetrySlots
                                  ELSE UNCHANGED retryLeft
         ELSE UNCHANGED <<announced, status, told, identity, session>>
      /\ UNCHANGED <<sinceGood, served>>

\* Mutant: the downgrade is announced only while the session is being set up.
SecureChannelLostQuietly ==
  /\ scNext' = FALSE
  /\ retryLeft' \in RetrySlots
  /\ IF RequireSC
     THEN /\ sc' = "none"
          /\ status' = "offline"
          /\ announced' = TRUE
          /\ told' = IF announced THEN told ELSE "offline"
     ELSE /\ sc' = IF sc = "none" THEN "none" ELSE "failed"
          /\ status' = IF status = "securing" THEN "online" ELSE status
          /\ told' = IF status = "securing" THEN "clear" ELSE told
          /\ UNCHANGED announced
  /\ UNCHANGED <<identity, sinceGood, served>>

\* secureChannelLost: out of service if the door requires a session, and
\* otherwise the downgrade is announced.
SecureChannelLost ==
  /\ scNext' = FALSE
  /\ retryLeft' \in RetrySlots
  /\ IF RequireSC
     THEN /\ sc' = "none"
          /\ status' = "offline"
          /\ announced' = TRUE
          /\ told' = IF announced THEN told ELSE "offline"
     ELSE /\ sc' = IF sc = "none" THEN "none" ELSE "failed"
          /\ status' = IF status \in {"securing", "online"} THEN "online" ELSE status
          /\ told' = IF status \in {"securing", "online"} THEN "clear" ELSE told
          /\ UNCHANGED announced
  /\ UNCHANGED <<identity, sinceGood, served>>

Timeout ==
  /\ phase = "silent"
  /\ Fail(failures)
  /\ resetSeq' = (resetSeq \/ announced' # announced)
  /\ Complete("error")
  /\ UNCHANGED <<late, bounds, chained>>
-----------------------------------------------------------------------------
(***************************************************************************)
(* transact and handleReply for an answer r.  In a session the answer is   *)
(* unsealed first, and only then looked at.                                *)
(***************************************************************************)
Unseals == sc = "active" /\ ~IsHandshake(cmd.code)
\* Mutant: the MAC is checked, but not against this command's.
GenuineWhenever(r) == r.sealed
Genuine(r) == r.sealed /\ r.fresh

Broken(r) ==
  /\ Unseals /\ ~Genuine(r)
  /\ SecureChannelLost
  /\ Complete("error")
  /\ UNCHANGED <<failures, resetSeq, chained>>

Opened(r) == Unseals => Genuine(r)
Follows == chained' = (chained \/ Unseals)

WrongSequence(r) ==
  /\ Opened(r) /\ r.seq # cmd.seq
  /\ Fail(failures)
  /\ resetSeq' = TRUE
  /\ Complete("error")
  /\ Follows

InStep(r) == Opened(r) /\ r.seq = cmd.seq

AskAgain(r) ==
  /\ InStep(r) /\ r.code = "BUSY"
  /\ failures' = 0
  /\ Complete("error")
  /\ Follows
  /\ UNCHANGED <<status, resetSeq, identity, announced, sinceGood, session, told, served>>

IsNak(r) == r.code \in {"NAK", "NAKSEQ"}
\* The reason of a sealed refusal cannot be read without the session.
SequenceRefused(r) == r.code = "NAKSEQ" /\ (r.sealed => Unseals)

HandshakeRefused(r) ==
  /\ InStep(r) /\ IsNak(r) /\ IsHandshake(cmd.code)
  /\ failures' = 0
  /\ resetSeq' = (resetSeq \/ SequenceRefused(r))
  /\ SecureChannelLost
  /\ Complete("error")
  /\ Follows

\* Mutant: a refused operator command is reported as answered.
CommandRefusedOk(r) ==
  /\ InStep(r) /\ IsNak(r) /\ ~IsHandshake(cmd.code)
  /\ IF pending # Nothing
     THEN failures' = 0 /\ UNCHANGED <<announced, status, told, identity, session,
                                       sinceGood, served>>
     ELSE Fail(0)
  /\ resetSeq' = (resetSeq \/ SequenceRefused(r) \/ announced' # announced)
  /\ Complete("ok")
  /\ Follows

CommandRefused(r) ==
  /\ InStep(r) /\ IsNak(r) /\ ~IsHandshake(cmd.code)
  /\ IF pending # Nothing
     THEN failures' = 0 /\ UNCHANGED <<announced, status, told, identity, session,
                                       sinceGood, served>>
     ELSE Fail(0)
  /\ resetSeq' = (resetSeq \/ SequenceRefused(r) \/ announced' # announced)
  /\ Complete("error")
  /\ Follows

\* The handshake's replies act on the session object; there is not always one.
HandshakeStep(r) == r.code \in {"CCRYPT", "RMACI"}
Advances(r) ==
  /\ r.fresh
  /\ (r.code = "CCRYPT" /\ sc = "challenged") \/ (r.code = "RMACI" /\ sc = "crypted")

Panics(r) ==
  /\ InStep(r) /\ HandshakeStep(r) /\ sc = "none"
  /\ phase' = "panicked"
  /\ UNCHANGED <<cmd, rx, bounds, pdVars, paired, chained, cpVars>>

HandshakeBroken(r) ==
  /\ InStep(r) /\ HandshakeStep(r) /\ sc # "none" /\ ~Advances(r)
  /\ failures' = 0
  /\ SecureChannelLost
  /\ Complete("error")
  /\ Follows
  /\ UNCHANGED resetSeq

\* Mutant: a reader that is not online is trusted not to be polled.
CredentialsBlockedOnline == RequireSC /\ sc # "active" /\ status = "online"
CredentialsBlocked == RequireSC /\ sc # "active"
\* A sealed payload read without a session is noise, not a card.
Delivers(r) == r.code = "RAW" /\ ~CredentialsBlocked /\ (r.sealed => Unseals)

Usable(r) ==
  /\ InStep(r) /\ ~IsNak(r) /\ r.code # "BUSY"
  /\ HandshakeStep(r) => Advances(r)
  /\ failures' = 0 /\ sinceGood' = 0 /\ announced' = FALSE
  /\ infoKnown' = (infoKnown \/ r.code = "PDID")
  /\ capsKnown' = (capsKnown \/ r.code = "PDCAP")
  /\ status' = CASE r.code = "PDID" -> "identifying"
                 [] r.code = "PDCAP" -> IF HasKey THEN "securing" ELSE "online"
                 [] r.code = "RMACI" -> "online"
                 [] OTHER -> status
  /\ told' = CASE r.code = "PDCAP" /\ ~HasKey -> "clear"
               [] r.code = "RMACI" -> "secure"
               [] OTHER -> told
  /\ sc' = CASE r.code = "CCRYPT" -> "crypted"
             [] r.code = "RMACI" -> "active"
             [] OTHER -> sc
  /\ scNext' = (scNext \/ r.code = "CCRYPT")
  /\ served' = IF Delivers(r) THEN [served EXCEPT ![r.badge] = @ + 1] ELSE served
  /\ chained' = (chained \/ Unseals \/ r.code = "RMACI")
  /\ Complete("ok")
  /\ UNCHANGED <<resetSeq, retryLeft>>

Handle(r) ==
  \/ Broken(r) \/ WrongSequence(r) \/ AskAgain(r) \/ HandshakeRefused(r)
  \/ CommandRefused(r) \/ Panics(r) \/ HandshakeBroken(r) \/ Usable(r)

Receive ==
  /\ phase = "answered"
  /\ Handle(rx)
  /\ UNCHANGED <<late, bounds>>

\* An answer to an earlier command comes in first.  The right one is flushed
\* at the next slot, or comes after that flush and is late in its turn.
ReceiveLate ==
  /\ phase \in {"answered", "silent"} /\ late # Nothing
  /\ Handle(late)
  /\ \/ late' = Nothing /\ UNCHANGED bounds
     \/ /\ rx # Nothing /\ Fault /\ lates < MaxLate
        /\ lates' = lates + 1
        /\ late' = [rx EXCEPT !.fresh = FALSE]
-----------------------------------------------------------------------------
ReaderStep == (PDHandle \/ ReaderFault \/ PresentCard) /\ UNCHANGED cpVars

BusStep == Slot \/ Timeout \/ Receive

BusNext ==
  \/ \E r \in Requests : Send(r)
  \/ BusStep \/ ReceiveLate
  \/ ReaderStep

BusSpec == BusInit /\ [][BusNext]_busVars

\* Run never stops polling, and a reader that gets a command answers it.
BusFairSpec ==
  /\ BusSpec
  /\ WF_busVars(BusStep)
  /\ WF_busVars(PDHandle /\ UNCHANGED cpVars)
-----------------------------------------------------------------------------
\* Both ends, the wire and what the controller was told stay in their types.
BusTypeOK ==
  /\ ReaderTypeOK
  /\ config \in Configs
  /\ status \in {"offline", "identifying", "securing", "online"}
  /\ seq \in 0..3 /\ resetSeq \in BOOLEAN
  /\ infoKnown \in BOOLEAN /\ capsKnown \in BOOLEAN
  /\ failures \in 0..OfflineAfter /\ announced \in BOOLEAN
  /\ sinceGood \in 0..SupervisionSlots + 1
  /\ sc \in {"none", "challenged", "crypted", "active", "failed"}
  /\ scNext \in BOOLEAN /\ retryLeft \in Nat
  /\ polls \in 0..MinPollsPerStatus
  /\ queue \in Seq(Requests) /\ pending \in Requests \cup {Nothing}
  /\ outcome \in [Requests -> {"none", "waiting", "ok", "error"}]
  /\ told \in {"offline", "clear", "secure"}
  /\ served \in [Badges -> Nat]

\* On a reader that requires a session a credential is delivered only if it
\* came sealed, in answer to this very command, in a live session.
CredentialOnlySecure ==
  [][ RequireSC => \A b \in Badges :
        served'[b] > served[b] => /\ sc = "active" /\ sc' = "active"
                                  /\ pdSc = "active" /\ paired ]_busVars

\* A badge presented once is served at most once.
EachBadgeServedOnce == \A b \in Badges : served[b] <= 1

\* No request drives the strike twice, whatever is lost or repeated.
StrikesAtMostOnce == \A r \in Requests : executed[r] <= 1

\* Nobody is forgotten: whoever waits for an answer is in the queue or is the one
\* the slot carries, so that the end of a slot always reaches them.
NobodyForgotten ==
  \A r \in Requests : outcome[r] = "waiting" => r = pending \/ \E i \in 1..Len(queue) : queue[i] = r

Fired == {r \in Requests : executed[r] > 0}
Calls == INSTANCE StrikeCalls WITH answer <- outcome, fired <- Fired

\* The bus keeps the promise of StrikeCalls: no strike for a request that has been
\* answered, superseded or never made, and none twice.
KeepsItsCalls == Calls!CallsSpec

\* An application that is told its strike fired, fired it, when the slot that
\* answered was a sealed one.
SealedSendIsHonest ==
  [][ \A r \in Requests :
        outcome[r] = "waiting" /\ outcome'[r] = "ok" /\ cmd.sealed
          => executed[r] = 1 ]_busVars

\* What bus.go:269 promises, "queues a command for a reader and waits for its
\* reply": an application told "ok" got the reply to its own command.
SendWaitsForItsReply ==
  [][ \A r \in Requests :
        outcome[r] = "waiting" /\ outcome'[r] = "ok" => executed[r] = 1 ]_busVars

\* What the controller has been told is never rosier than what is the case: a
\* session it believes in exists, and a reader it believes online is.
ToldTheTruth ==
  /\ told = "secure" => sc = "active"
  /\ told # "offline" <=> status = "online"

\* Every Send is answered: nobody waits for ever on a door.
SendsAnswered == \A r \in Requests : (outcome[r] = "waiting") ~> (outcome[r] \in {"ok", "error"})

\* A badge held to a reader is collected: neither the status commands, nor a
\* handshake that is tried again and again, keeps the polls from it for ever.
BadgesAreCollected == (pdQueue # <<>>) ~> (pdQueue = <<>>)

InService ==
  IF RequireSC THEN told = "secure" ELSE IF HasKey THEN told # "offline" ELSE told = "clear"

\* Once the faults are over the reader comes back into service and stays,
\* whatever was lost, repeated or refused before, unless supervision gave the
\* reader up in the meantime (ReaderAlwaysRecovers, which fails).
ReaderRecovers == []~Unsupervised => <>[]InService

\* bus.go:573-575 and 998-1001: a reader out of service recovers by itself once
\* whatever was wrong is over.
ReaderAlwaysRecovers == <>[]InService
=============================================================================
