------------------------------ MODULE OsdpProofs ------------------------------
(***************************************************************************)
(* No request drives a strike twice, for any number of requests, badges,   *)
(* faults and late replies.  The reader's duplicate suppression plays no   *)
(* part: the panel never repeats a command, because every transaction ends *)
(* by answering the request it carried (IdleOwesNothing), and a request is *)
(* only ever picked up while nobody has answered it (Fresh).  From this    *)
(* the bus implements StrikeCalls; what follows is about its types, the    *)
(* badges, the honesty of its answers and of its announcements.            *)
(***************************************************************************)
EXTENDS OsdpBus, TLAPS

Ended == {"answered", "silent", "panicked"}

SendsTyped ==
  /\ phase \in {"idle", "sent"} \cup Ended
  /\ executed \in [Requests -> Nat]
  /\ outcome \in [Requests -> {"none", "waiting", "ok", "error"}]
  /\ queue \in Seq(Requests)
  /\ pending \in Requests \cup {Nothing}

IdleOwesNothing == phase = "idle" => pending = Nothing

CarriesPending ==
  phase = "sent" /\ cmd.code = "OUT" => cmd.req = pending /\ pending \in Requests

Fresh ==
  /\ pending # Nothing => outcome[pending] = "waiting"
  /\ \A i \in 1..Len(queue) : outcome[queue[i]] = "waiting" /\ queue[i] # pending

Unanswered ==
  \A r \in Requests :
    outcome[r] \in {"none", "waiting"} /\ executed[r] # 0 => pending = r /\ phase \in Ended

SendInv ==
  /\ SendsTyped /\ IdleOwesNothing /\ CarriesPending /\ Fresh /\ Unanswered
  /\ StrikesAtMostOnce

USE DEF Ended

\* An application may call Send at any time.
LEMMA SendKeeps ==
  ASSUME SendInv, NEW r \in Requests, Send(r)
  PROVE  SendInv'
<1>1. /\ outcome[r] = "none" /\ outcome' = [outcome EXCEPT ![r] = "waiting"]
      /\ queue' = Append(queue, r)
      /\ phase' = phase /\ cmd' = cmd /\ executed' = executed /\ pending' = pending
  BY DEF Send, wire, pdVars
<1>2. r # pending
  BY <1>1, BusConstants DEF SendInv, Fresh
<1>3. SendsTyped'
  BY <1>1 DEF SendInv, SendsTyped
<1>4. IdleOwesNothing' /\ CarriesPending' /\ StrikesAtMostOnce'
  BY <1>1 DEF SendInv, IdleOwesNothing, CarriesPending, StrikesAtMostOnce
<1>5. Unanswered'
  BY <1>1 DEF SendInv, SendsTyped, Unanswered
<1>6. Fresh'
  <2>1. ASSUME NEW i \in 1..Len(queue') PROVE outcome'[queue'[i]] = "waiting" /\ queue'[i] # pending'
    <3>1. Len(queue') = Len(queue) + 1 /\ queue'[Len(queue) + 1] = r
      BY <1>1 DEF SendInv, SendsTyped
    <3>2. CASE i = Len(queue) + 1
      BY <1>1, <1>2, <3>1, <3>2 DEF SendInv, SendsTyped
    <3>3. CASE i \in 1..Len(queue)
      <4>1. queue'[i] = queue[i] /\ queue[i] \in Requests
        BY <1>1, <3>3 DEF SendInv, SendsTyped
      <4> QED
        BY <1>1, <3>3, <4>1 DEF SendInv, SendsTyped, Fresh
    <3> QED
      BY <3>1, <3>2, <3>3 DEF SendInv, SendsTyped
  <2> QED
    BY <1>1, <2>1, BusConstants DEF SendInv, SendsTyped, Fresh
<1> QED
  BY <1>3, <1>4, <1>5, <1>6 DEF SendInv

\* A slot picks up the newest waiting request and refuses the others.
LEMMA SlotKeeps ==
  ASSUME SendInv, Slot
  PROVE  SendInv'
<1>1. /\ phase = "idle" /\ phase' = "sent" /\ executed' = executed
      /\ queue' = <<>> /\ pending' = Drained
      /\ outcome' = [r \in Requests |-> IF r \in Superseded THEN "error" ELSE outcome[r]]
  BY DEF Slot, DrainCommands, Handshake, Ordinary, Write, pdVars
<1>2. pending = Nothing
  BY <1>1 DEF SendInv, IdleOwesNothing
<1>3. Drained = Nothing \/ (Drained \in Requests /\ outcome[Drained] = "waiting")
  <2>1. CASE queue = <<>>
    BY <1>2, <2>1 DEF Drained
  <2>2. CASE queue # <<>>
    <3>1. Len(queue) \in 1..Len(queue) /\ queue[Len(queue)] \in Requests
      BY <2>2 DEF SendInv, SendsTyped
    <3> QED
      BY <2>2, <3>1 DEF SendInv, Fresh, Drained
  <2> QED
    BY <2>1, <2>2
<1>4. cmd'.code = "OUT" => cmd'.req = Drained /\ Drained # Nothing
  <2>1. CASE Handshake
    BY <2>1 DEF Handshake, Write
  <2>2. CASE Ordinary
    BY <2>2 DEF Ordinary, Write, NextCommands
  <2> QED
    BY <2>1, <2>2 DEF Slot
<1>5. SendsTyped'
  BY <1>1, <1>3 DEF SendInv, SendsTyped
<1>6. CarriesPending' /\ IdleOwesNothing'
  BY <1>1, <1>3, <1>4 DEF CarriesPending, IdleOwesNothing
<1>7. Fresh'
  BY <1>1, <1>3 DEF Fresh, Superseded
<1>8. Unanswered' /\ StrikesAtMostOnce'
  BY <1>1, <1>2, BusConstants DEF SendInv, SendsTyped, Unanswered, StrikesAtMostOnce
<1> QED
  BY <1>5, <1>6, <1>7, <1>8 DEF SendInv

\* A transaction ends by answering the request it carried, if it carried one.
LEMMA CompleteKeeps ==
  ASSUME SendInv, phase \in Ended, NEW result \in {"ok", "error"}, Complete(result)
  PROVE  SendInv'
<1>1. /\ phase' = "idle" /\ pending' = Nothing /\ executed' = executed /\ queue' = queue
      /\ outcome' = IF pending = Nothing THEN outcome
                    ELSE [outcome EXCEPT ![pending] = result]
  BY DEF Complete, pdVars
<1>2. SendsTyped'
  BY <1>1 DEF SendInv, SendsTyped
<1>3. IdleOwesNothing' /\ CarriesPending' /\ StrikesAtMostOnce'
  BY <1>1 DEF SendInv, IdleOwesNothing, CarriesPending, StrikesAtMostOnce
<1>4. Fresh'
  <2>1. \A i \in 1..Len(queue) : queue[i] \in Requests
    BY DEF SendInv, SendsTyped
  <2> QED
    BY <1>1, <2>1, BusConstants DEF SendInv, SendsTyped, Fresh
<1>5. Unanswered'
  BY <1>1, BusConstants DEF SendInv, SendsTyped, Unanswered
<1> QED
  BY <1>2, <1>3, <1>4, <1>5 DEF SendInv

\* Whatever the answer says, handling it completes the transaction or stops
\* the panel with the request still unanswered.
LEMMA HandleKeeps ==
  ASSUME SendInv, phase \in Ended, NEW r, Handle(r)
  PROVE  SendInv'
<1>1. CASE Panics(r)
  <2>1. /\ phase' = "panicked" /\ executed' = executed /\ queue' = queue
        /\ outcome' = outcome /\ pending' = pending
    BY <1>1 DEF Panics, pdVars, cpVars, sends
  <2> QED
    BY <2>1 DEF SendInv, SendsTyped, IdleOwesNothing, CarriesPending, Fresh, Unanswered,
                StrikesAtMostOnce
<1>2. CASE ~Panics(r)
  <2>1. Complete("ok") \/ Complete("error")
    BY <1>2 DEF Handle, Broken, WrongSequence, AskAgain, HandshakeRefused,
                CommandRefused, HandshakeBroken, Usable
  <2> QED
    BY <2>1, CompleteKeeps
<1> QED
  BY <1>1, <1>2

\* The reader runs a command at most once, when it serves it.
LEMMA ServeKeeps ==
  ASSUME SendInv, Serve, UNCHANGED cpVars
  PROVE  SendInv'
<1>1. /\ phase = "sent" /\ phase' = "answered" /\ cmd' = cmd
      /\ outcome' = outcome /\ pending' = pending /\ queue' = queue
      /\ executed' = IF cmd.code = "OUT" THEN [executed EXCEPT ![cmd.req] = @ + 1]
                                         ELSE executed
  BY DEF Serve, Accepted, Answer, cpVars, sends
<1>2. cmd.code = "OUT" => /\ cmd.req = pending /\ pending \in Requests
                          /\ executed[pending] = 0
  <2>1. cmd.code = "OUT" => cmd.req = pending /\ pending \in Requests
    BY <1>1 DEF SendInv, CarriesPending
  <2>2. pending \in Requests => outcome[pending] = "waiting"
    BY BusConstants DEF SendInv, Fresh
  <2> QED
    BY <1>1, <2>1, <2>2 DEF SendInv, Unanswered
<1>3. SendsTyped'
  BY <1>1, <1>2 DEF SendInv, SendsTyped
<1>4. IdleOwesNothing' /\ CarriesPending' /\ Fresh'
  BY <1>1 DEF SendInv, IdleOwesNothing, CarriesPending, Fresh
<1>5. Unanswered'
  BY <1>1, <1>2 DEF SendInv, SendsTyped, Unanswered
<1>6. StrikesAtMostOnce'
  BY <1>1, <1>2 DEF SendInv, SendsTyped, StrikesAtMostOnce
<1> QED
  BY <1>3, <1>4, <1>5, <1>6 DEF SendInv

\* Everything else at the reader's end runs no command.
LEMMA ReaderKeeps ==
  ASSUME SendInv, ReaderStep
  PROVE  SendInv'
<1>1. CASE Serve
  BY <1>1, ServeKeeps DEF ReaderStep
<1>2. CASE ~Serve
  <2>1. /\ executed' = executed /\ outcome' = outcome /\ pending' = pending /\ queue' = queue
    BY <1>2 DEF ReaderStep, PDHandle, Replay, Unsealable, NoSession, OutOfSequence,
                ServeChallenge, ServeSCrypt, ReaderFault, Busy, Refuse, LoseCommand,
                LoseReply, DelayReply, DropSession, PowerCycle, PresentCard, pdVars,
                cpVars, sends
  <2>2. \/ phase' = phase /\ cmd' = cmd
        \/ phase \in {"sent", "answered"} /\ phase' \in Ended
    BY <1>2 DEF ReaderStep, PDHandle, Replay, Unsealable, NoSession, OutOfSequence,
                ServeChallenge, ServeSCrypt, ReaderFault, Busy, Refuse, LoseCommand,
                LoseReply, DelayReply, DropSession, PowerCycle, PresentCard, Accepted,
                Answer, Silence, wire
  <2> QED
    BY <2>1, <2>2 DEF SendInv, SendsTyped, IdleOwesNothing, CarriesPending, Fresh,
                      Unanswered, StrikesAtMostOnce
<1> QED
  BY <1>1, <1>2

\* The requests' invariant holds at the start.
LEMMA SendInit == BusInit => SendInv
  BY DEF BusInit, ReaderInit, SendInv, SendsTyped, IdleOwesNothing, CarriesPending, Fresh,
         Unanswered, StrikesAtMostOnce

\* Every step of the panel, of the reader and of the applications keeps it.
LEMMA SendStep ==
  ASSUME SendInv, [BusNext]_busVars
  PROVE  SendInv'
<1>1. ASSUME NEW r \in Requests, Send(r) PROVE SendInv'
  BY <1>1, SendKeeps
<1>2. CASE Slot
  BY <1>2, SlotKeeps
<1>3. CASE Timeout
  BY <1>3, CompleteKeeps DEF Timeout
<1>4. CASE Receive
  BY <1>4, HandleKeeps DEF Receive
<1>5. CASE ReceiveLate
  BY <1>5, HandleKeeps DEF ReceiveLate
<1>6. CASE ReaderStep
  BY <1>6, ReaderKeeps
<1>7. CASE UNCHANGED busVars
  BY <1>7 DEF busVars, wire, pdVars, cpVars, sends, SendInv, SendsTyped,
              IdleOwesNothing, CarriesPending, Fresh, Unanswered, StrikesAtMostOnce
<1> QED
  BY <1>1, <1>2, <1>3, <1>4, <1>5, <1>6, <1>7 DEF BusNext, BusStep

\* A strike never fires twice for one request, whatever the wire loses,
\* repeats or delays and however often the session is lost.
THEOREM StrikesOnce == BusSpec => []StrikesAtMostOnce
<1>1. SendInv /\ [BusNext]_busVars => SendInv'
  BY SendStep
<1>2. SendInv => StrikesAtMostOnce
  BY DEF SendInv
<1> QED
  BY SendInit, <1>1, <1>2, PTL DEF BusSpec
-----------------------------------------------------------------------------
(***************************************************************************)
(* The promise to the callers.  A step of the bus either leaves the calls  *)
(* alone, takes a new one, answers some of those that wait, or is the      *)
(* reader driving the strike for the one call the slot carries.            *)
(***************************************************************************)
\* What a step of the bus may do to the calls, and who is left waiting.
CallStep ==
  /\ \/ \E r \in Requests : Calls!Call(r) \/ Calls!Fire(r)
     \/ \E R \in SUBSET Requests, result \in {"ok", "error"} : Calls!Return(R, result)
     \/ UNCHANGED <<outcome, executed>>
  /\ NobodyForgotten => NobodyForgotten'

\* A new call waits in the queue.
LEMMA SendIsACall ==
  ASSUME SendInv, NEW r \in Requests, Send(r)
  PROVE  CallStep
<1>1. /\ outcome[r] = "none" /\ outcome' = [outcome EXCEPT ![r] = "waiting"]
      /\ queue' = Append(queue, r) /\ executed' = executed /\ pending' = pending
      /\ queue \in Seq(Requests) /\ outcome \in [Requests -> {"none", "waiting", "ok", "error"}]
  BY DEF Send, wire, pdVars, SendInv, SendsTyped
<1>2. Calls!Call(r)
  BY <1>1 DEF Calls!Call, Fired
<1>3. ASSUME NobodyForgotten, NEW q \in Requests, outcome'[q] = "waiting"
      PROVE  q = pending' \/ \E i \in 1..Len(queue') : queue'[i] = q
  <2>1. Len(queue') = Len(queue) + 1 /\ queue'[Len(queue) + 1] = r
        /\ Len(queue) \in Nat
    BY <1>1
  <2>2. CASE q = r
    BY <2>1, <2>2
  <2>3. CASE q # r
    <3>1. outcome[q] = "waiting"
      BY <1>1, <1>3, <2>3
    <3>2. \A i \in 1..Len(queue) : queue'[i] = queue[i] /\ i \in 1..Len(queue')
      BY <1>1, <2>1
    <3> QED BY <1>1, <1>3, <3>1, <3>2 DEF NobodyForgotten
  <2> QED BY <2>2, <2>3
<1> QED
  BY <1>2, <1>3 DEF CallStep, NobodyForgotten

\* A slot refuses whoever the newest call displaces.
LEMMA SlotIsAReturn ==
  ASSUME SendInv, Slot
  PROVE  CallStep
<1>1. /\ executed' = executed /\ pending' = Drained
      /\ outcome' = [r \in Requests |-> IF r \in Superseded THEN "error" ELSE outcome[r]]
  BY DEF Slot, DrainCommands, pdVars
<1>2. Calls!Return(Superseded, "error")
  BY <1>1 DEF Calls!Return, Superseded, Fired
<1>3. NobodyForgotten'
  BY <1>1 DEF NobodyForgotten, Superseded
<1> QED
  BY <1>2, <1>3 DEF CallStep, Superseded

\* The end of a transaction answers the call it carried.
LEMMA CompleteIsAReturn ==
  ASSUME SendInv, NEW result \in {"ok", "error"}, Complete(result)
  PROVE  CallStep
<1>1. /\ pending' = Nothing /\ executed' = executed /\ queue' = queue
      /\ outcome' = IF pending = Nothing THEN outcome
                    ELSE [outcome EXCEPT ![pending] = result]
      /\ outcome \in [Requests -> {"none", "waiting", "ok", "error"}]
      /\ pending \in Requests \cup {Nothing}
  BY DEF Complete, pdVars, SendInv, SendsTyped
<1>2. ASSUME NobodyForgotten, NEW q \in Requests, outcome'[q] = "waiting"
      PROVE  \E i \in 1..Len(queue') : queue'[i] = q
  BY <1>1, <1>2, BusConstants DEF NobodyForgotten
<1>3. CASE pending = Nothing
  BY <1>1, <1>2, <1>3 DEF CallStep, NobodyForgotten
<1>4. CASE pending # Nothing
  <2>1. Calls!Return({pending}, result) /\ {pending} \in SUBSET Requests
    BY <1>1, <1>4 DEF Calls!Return, SendInv, Fresh, Fired
  <2> QED BY <1>2, <2>1 DEF CallStep, NobodyForgotten
<1> QED BY <1>3, <1>4

\* Handling an answer does that, or stops the panel with the call unanswered.
LEMMA HandleIsAReturn ==
  ASSUME SendInv, NEW r, Handle(r)
  PROVE  CallStep
<1>1. CASE Panics(r)
  BY <1>1 DEF Panics, pdVars, cpVars, sends, CallStep, NobodyForgotten
<1>2. CASE ~Panics(r)
  <2>1. Complete("ok") \/ Complete("error")
    BY <1>2 DEF Handle, Broken, WrongSequence, AskAgain, HandshakeRefused,
                CommandRefused, HandshakeBroken, Usable
  <2> QED
    BY <2>1, CompleteIsAReturn
<1> QED
  BY <1>1, <1>2

\* The reader drives the strike for the call the slot carries, which still waits
\* and for which it has not been driven.
LEMMA ReaderFires ==
  ASSUME SendInv, ReaderStep
  PROVE  CallStep
<1>0. outcome' = outcome /\ pending' = pending /\ queue' = queue
  BY DEF ReaderStep, cpVars, sends
<1>1. CASE Serve /\ cmd.code = "OUT"
  <2>1. phase = "sent" /\ executed' = [executed EXCEPT ![cmd.req] = @ + 1]
    BY <1>1 DEF Serve, Accepted
  <2>2. cmd.req \in Requests /\ outcome[cmd.req] = "waiting"
    BY <1>1, <2>1, BusConstants DEF SendInv, CarriesPending, Fresh
  <2>3. executed[cmd.req] = 0 /\ executed \in [Requests -> Nat]
    BY <2>1, <2>2 DEF SendInv, SendsTyped, Unanswered
  <2>4. \A q \in Requests : executed'[q] = IF q = cmd.req THEN 1 ELSE executed[q]
    BY <2>1, <2>2, <2>3
  <2>5. Fired' = Fired \cup {cmd.req} /\ cmd.req \notin Fired
    BY <2>2, <2>3, <2>4 DEF Fired
  <2> QED BY <1>0, <2>2, <2>5 DEF Calls!Fire, CallStep, NobodyForgotten
<1>2. CASE ~(Serve /\ cmd.code = "OUT")
  <2>1. executed' = executed
    BY <1>2 DEF ReaderStep, PDHandle, Serve, Replay, Unsealable, NoSession, OutOfSequence,
                ServeChallenge, ServeSCrypt, ReaderFault, Busy, Refuse, LoseCommand,
                LoseReply, DelayReply, DropSession, PowerCycle, PresentCard, pdVars
  <2> QED BY <1>0, <2>1 DEF CallStep, NobodyForgotten
<1> QED BY <1>1, <1>2

\* Every step of the bus is a step of the promise, and forgets nobody.
LEMMA StepsOfTheCalls ==
  ASSUME SendInv, [BusNext]_busVars
  PROVE  CallStep
<1>1. ASSUME UNCHANGED busVars PROVE CallStep
  BY <1>1 DEF busVars, pdVars, cpVars, sends, CallStep, NobodyForgotten
<1>2. Timeout => CallStep
  BY CompleteIsAReturn DEF Timeout
<1> QED
  BY <1>1, <1>2, SendIsACall, SlotIsAReturn, HandleIsAReturn, ReaderFires
  DEF BusNext, BusStep, Receive, ReceiveLate

\* Whoever waits for the bus is in its queue or in the slot under way.
THEOREM NobodyIsForgotten == BusSpec => []NobodyForgotten
<1>1. BusInit => NobodyForgotten
  BY DEF BusInit, NobodyForgotten
<1>2. SendInv /\ [BusNext]_busVars => SendInv' /\ (NobodyForgotten => NobodyForgotten')
  BY SendStep, StepsOfTheCalls DEF CallStep
<1> QED
  BY SendInit, <1>1, <1>2, PTL DEF BusSpec

\* The bus implements the promise of StrikeCalls: a call drives the strike at most
\* once, and never once the bus has answered it or before it was made.
THEOREM ImplementsCalls == BusSpec => KeepsItsCalls
<1>1. BusInit => Calls!CallsInit
  BY DEF BusInit, ReaderInit, Calls!CallsInit, Fired
<1>2. SendInv /\ [BusNext]_busVars => SendInv' /\ [Calls!CallsNext]_(Calls!calls)
  <2>1. UNCHANGED <<outcome, executed>> => UNCHANGED Calls!calls
    BY DEF Calls!calls, Fired
  <2> QED BY <2>1, SendStep, StepsOfTheCalls DEF CallStep, Calls!CallsNext
<1> QED
  BY SendInit, <1>1, <1>2, PTL DEF BusSpec, KeepsItsCalls, Calls!CallsSpec
-----------------------------------------------------------------------------
(***************************************************************************)
(* A credential on a reader that requires a session.  The session flag     *)
(* alone does not say that the answer being handled is a sealed one: that  *)
(* needs that no handshake is under way while a session is active          *)
(* (HandshakesFirst), and that a fresh sealed card was sealed by a reader  *)
(* in the very session the panel holds (CardsAreSealed).                   *)
(***************************************************************************)
IsFrame(r) == "fresh" \in DOMAIN r

HandshakesFirst ==
  /\ phase # "idle" => ~scNext
  /\ phase # "idle" /\ IsHandshake(cmd.code) => sc # "active"
  /\ scNext => sc # "active"

CardsAreSealed ==
  /\ phase = "answered" =>
       /\ IsFrame(rx)
       /\ rx.code = "RAW" /\ rx.sealed /\ rx.fresh => pdSc = "active" /\ paired
  /\ phase = "silent" => rx = Nothing

OldAnswers ==
  /\ late = Nothing \/ (IsFrame(late) /\ late.fresh = FALSE)
  /\ pdReply = Nothing \/ IsFrame(pdReply)

CardInv == HandshakesFirst /\ CardsAreSealed /\ OldAnswers

\* The reader answers a command that verifies, or without a card.
LEMMA ReaderSeals ==
  ASSUME CardInv, ReaderStep
  PROVE  CardInv'
<1>1. HandshakesFirst'
  <2>1. scNext' = scNext /\ sc' = sc
    BY DEF ReaderStep, cpVars, session
  <2>2. phase = "idle" => phase' = "idle"
    BY DEF ReaderStep, PDHandle, Replay, Unsealable, NoSession, OutOfSequence, Serve,
           ServeChallenge, ServeSCrypt, ReaderFault, Busy, Refuse, LoseCommand, LoseReply,
           DelayReply, DropSession, PowerCycle, PresentCard, Accepted, wire
  <2>3. phase # "idle" => cmd' = cmd
    BY DEF ReaderStep, PDHandle, Replay, Unsealable, NoSession, OutOfSequence, Serve,
           ServeChallenge, ServeSCrypt, ReaderFault, Busy, Refuse, LoseCommand, LoseReply,
           DelayReply, DropSession, PowerCycle, PresentCard, Answer, Silence, wire
  <2> QED
    BY <2>1, <2>2, <2>3 DEF CardInv, HandshakesFirst
<1>2. CardsAreSealed' /\ OldAnswers'
  <2>1. CASE Serve
    BY <2>1 DEF Serve, Accepted, InSession, Verifies, Answer, Reply, IsFrame, CardInv,
                CardsAreSealed, OldAnswers
  <2>2. CASE Replay
    BY <2>2 DEF Replay, Repeated, pdVars, IsFrame, CardInv, CardsAreSealed, OldAnswers
  <2>3. CASE NoSession \/ OutOfSequence \/ ServeChallenge \/ ServeSCrypt \/ Busy \/ Refuse
    BY <2>3 DEF NoSession, OutOfSequence, ServeChallenge, ServeSCrypt, Busy, Refuse, Answer,
                Reply, IsFrame, CardInv, CardsAreSealed, OldAnswers
  <2>4. CASE Unsealable \/ LoseCommand \/ LoseReply \/ DropSession
    BY <2>4 DEF Unsealable, LoseCommand, LoseReply, DropSession, Silence, CardInv,
                CardsAreSealed, OldAnswers
  <2>5. CASE DelayReply
    BY <2>5 DEF DelayReply, pdVars, IsFrame, CardInv, CardsAreSealed, OldAnswers
  <2>6. CASE PowerCycle \/ PresentCard
    BY <2>6 DEF PowerCycle, PresentCard, wire, CardInv, CardsAreSealed, OldAnswers
  <2> QED
    BY <2>1, <2>2, <2>3, <2>4, <2>5, <2>6 DEF ReaderStep, PDHandle, ReaderFault
<1> QED
  BY <1>1, <1>2 DEF CardInv

\* Handling an answer ends the slot; a new session never leaves a handshake
\* frame behind.
LEMMA HandleSeals ==
  ASSUME CardInv, phase \in Ended, NEW r, Handle(r),
         late' = Nothing \/ (IsFrame(late') /\ late'.fresh = FALSE)
  PROVE  CardInv'
<1>1. pdReply' = pdReply
  BY DEF Handle, Broken, WrongSequence, AskAgain, HandshakeRefused, CommandRefused,
         Panics, HandshakeBroken, Usable, Complete, pdVars
<1>2. CASE Panics(r)
  BY <1>1, <1>2 DEF Panics, cpVars, session, CardInv, HandshakesFirst, CardsAreSealed,
                    OldAnswers
<1>3. CASE ~Panics(r)
  <2>1. phase' = "idle"
    BY <1>3 DEF Handle, Broken, WrongSequence, AskAgain, HandshakeRefused, CommandRefused,
                HandshakeBroken, Usable, Complete
  <2>2. scNext' => sc' # "active"
    <3>1. CASE Usable(r)
      BY <3>1 DEF Usable, CardInv, HandshakesFirst
    <3>2. CASE ~Usable(r)
      <4>1. ~scNext' \/ UNCHANGED session
        BY <1>3, <3>2 DEF Handle, Broken, WrongSequence, AskAgain, HandshakeRefused,
                          CommandRefused, HandshakeBroken, SecureChannelLost, Fail, session
      <4> QED
        BY <4>1 DEF session, CardInv, HandshakesFirst
    <3> QED
      BY <3>1, <3>2
  <2> QED
    BY <1>1, <2>1, <2>2 DEF CardInv, HandshakesFirst, CardsAreSealed, OldAnswers
<1> QED
  BY <1>2, <1>3

\* A slot opens with no handshake frame left and, in a session, with none on
\* the wire.
LEMMA SlotSeals ==
  ASSUME CardInv, Slot
  PROVE  CardInv'
<1>1. phase' = "sent" /\ ~scNext' /\ (IsHandshake(cmd'.code) => sc' # "active")
  <2>1. CASE Handshake
    BY <2>1 DEF Handshake, Write, CardInv, HandshakesFirst
  <2>2. CASE Ordinary
    <3>1. PICK code \in NextCommands : Write(code, sc = "active")
      BY <2>2 DEF Ordinary
    <3>2. ~IsHandshake(code)
      BY <3>1 DEF NextCommands, IsHandshake
    <3> QED
      BY <2>2, <3>1, <3>2 DEF Ordinary, Write
  <2> QED
    BY <2>1, <2>2 DEF Slot
<1>2. OldAnswers'
  BY DEF Slot, pdVars, CardInv, OldAnswers
<1> QED
  BY <1>1, <1>2 DEF CardInv, HandshakesFirst, CardsAreSealed

\* Every step of the panel and of the reader keeps the invariant.
LEMMA CardStep ==
  ASSUME CardInv, [BusNext]_busVars
  PROVE  CardInv'
<1>1. ASSUME NEW r \in Requests, Send(r) PROVE CardInv'
  BY <1>1 DEF Send, wire, pdVars, session, CardInv, HandshakesFirst, CardsAreSealed,
              OldAnswers
<1>2. CASE Slot
  BY <1>2, SlotSeals
<1>3. CASE Timeout
  <2>1. /\ phase' = "idle" /\ late' = late /\ pdReply' = pdReply
        /\ ~scNext' \/ UNCHANGED session
    BY <1>3 DEF Timeout, Complete, Fail, pdVars, session
  <2> QED
    BY <2>1 DEF session, CardInv, HandshakesFirst, CardsAreSealed, OldAnswers
<1>4. CASE Receive
  BY <1>4, HandleSeals DEF Receive, CardInv, OldAnswers
<1>5. CASE ReceiveLate
  <2>1. late' = Nothing \/ (IsFrame(late') /\ late'.fresh = FALSE)
    BY <1>5 DEF ReceiveLate, IsFrame, CardInv, CardsAreSealed
  <2> QED
    BY <1>5, <2>1, HandleSeals DEF ReceiveLate
<1>6. CASE ReaderStep
  BY <1>6, ReaderSeals
<1>7. CASE UNCHANGED busVars
  BY <1>7 DEF busVars, wire, pdVars, cpVars, session, CardInv, HandshakesFirst,
              CardsAreSealed, OldAnswers
<1> QED
  BY <1>1, <1>2, <1>3, <1>4, <1>5, <1>6, <1>7 DEF BusNext, BusStep

\* Only an answer that is usable delivers a credential, and a slot is under way.
LEMMA OnlyUsableServes ==
  ASSUME CardInv, BusNext, served' # served
  PROVE  /\ phase # "idle"
         /\ \E r : /\ Usable(r) /\ Delivers(r)
                   /\ (r = rx /\ phase = "answered") \/ r.fresh = FALSE
<1>1. ASSUME NEW r, Handle(r) PROVE Usable(r) /\ Delivers(r)
  BY <1>1 DEF Handle, Broken, WrongSequence, AskAgain, HandshakeRefused, CommandRefused,
              Panics, HandshakeBroken, Usable, SecureChannelLost, Fail, cpVars
<1>2. Receive \/ ReceiveLate
  BY DEF BusNext, BusStep, Send, Slot, Timeout, Fail, ReaderStep, cpVars
<1> QED
  BY <1>1, <1>2 DEF Receive, ReceiveLate, CardInv, OldAnswers

\* The deliveries are counted.
ServedTyped == served \in [Badges -> Nat]

\* A step counts one delivery at most.
LEMMA ServedStep ==
  ASSUME ServedTyped, [BusNext]_busVars
  PROVE  ServedTyped'
<1>1. ASSUME NEW r, Handle(r) PROVE ServedTyped'
  <2>1. \/ UNCHANGED served
        \/ served' = [served EXCEPT ![r.badge] = @ + 1]
    BY <1>1 DEF Handle, Broken, WrongSequence, AskAgain, HandshakeRefused, CommandRefused,
                Panics, HandshakeBroken, Usable, SecureChannelLost, Fail, cpVars
  <2> QED
    BY <2>1 DEF ServedTyped
<1>2. Receive \/ ReceiveLate \/ UNCHANGED served
  BY DEF BusNext, BusStep, Send, Slot, Timeout, Fail, ReaderStep, cpVars, busVars
<1> QED
  BY <1>1, <1>2 DEF Receive, ReceiveLate, ServedTyped

\* On a reader that requires a session no credential is ever served that did
\* not come sealed, in that session, in answer to the command just sent, for
\* any number of badges, faults and late replies.
THEOREM CredentialsAreSealed == BusSpec => CredentialOnlySecure
<1>1. BusInit => CardInv /\ ServedTyped
  BY DEF BusInit, ReaderInit, CardInv, HandshakesFirst, CardsAreSealed, OldAnswers,
         ServedTyped
<1>2. CardInv /\ ServedTyped /\ [BusNext]_busVars => (CardInv /\ ServedTyped)'
  BY CardStep, ServedStep
<1>3. CardInv /\ ServedTyped /\ [BusNext]_busVars =>
        [ RequireSC => \A b \in Badges :
            served'[b] > served[b] => /\ sc = "active" /\ sc' = "active"
                                      /\ pdSc = "active" /\ paired ]_busVars
  <2> SUFFICES ASSUME CardInv, ServedTyped, BusNext, RequireSC,
                      NEW b \in Badges, served'[b] > served[b]
               PROVE  sc = "active" /\ sc' = "active" /\ pdSc = "active" /\ paired
    OBVIOUS
  <2>1. served' # served
    BY DEF ServedTyped
  <2>2. PICK r : /\ Usable(r) /\ Delivers(r)
                 /\ (r = rx /\ phase = "answered") \/ r.fresh = FALSE
    BY <2>1, OnlyUsableServes
  <2>3. sc = "active" /\ sc' = "active" /\ r.code = "RAW"
    BY <2>2 DEF Usable, Delivers, CredentialsBlocked
  <2>4. r.sealed /\ r.fresh
    <3>1. phase # "idle"
      BY <2>1, OnlyUsableServes
    <3>2. Unseals
      BY <2>3, <3>1 DEF Unseals, CardInv, HandshakesFirst
    <3> QED
      BY <2>2, <3>2 DEF Usable, InStep, Opened, Genuine
  <2> QED
    BY <2>2, <2>3, <2>4 DEF CardInv, CardsAreSealed
<1> QED
  BY <1>1, <1>2, <1>3, PTL DEF BusSpec, CredentialOnlySecure
-----------------------------------------------------------------------------
(***************************************************************************)
(* The types of both ends.  A slot that has begun has a command, and one   *)
(* that was answered has an answer: a frame is only ever read where there  *)
(* is one.                                                                 *)
(***************************************************************************)
Commands == [code : Codes, seq : 0..3, sealed : BOOLEAN, req : Requests \cup {Nothing}]

InSlot ==
  /\ phase # "idle" => cmd \in Commands
  /\ phase = "answered" => rx \in Frames

TypeInv == BusTypeOK /\ InSlot

\* Counting one up, at a place the function has or not.
LEMMA CountUp ==
  ASSUME NEW S, NEW f \in [S -> Nat], NEW x
  PROVE  [f EXCEPT ![x] = @ + 1] \in [S -> Nat]
<1> DEFINE g == [f EXCEPT ![x] = @ + 1]
<1>1. g = [y \in S |-> IF y = x THEN f[x] + 1 ELSE f[y]]
  OBVIOUS
<1>2. \A y \in S : (IF y = x THEN f[x] + 1 ELSE f[y]) \in Nat
  OBVIOUS
<1> QED
  BY <1>1, <1>2, Zenon

\* The reader's end, the wire and its faults.
LEMMA ReaderTypes ==
  ASSUME TypeInv, ReaderStep
  PROVE  TypeInv'
<1>1. UNCHANGED cpVars
  BY DEF ReaderStep
<1>2. ReaderTypeOK' /\ InSlot'
  <2> USE DEF TypeInv, BusTypeOK, ReaderTypeOK, InSlot
  <2>1. ASSUME NEW code \in Replies, NEW badge \in Badges \cup {0}, NEW sealed \in BOOLEAN,
               phase = "sent"
        PROVE  Reply(code, badge, sealed) \in Frames
    BY <2>1 DEF Reply, Frames, Commands
  <2>2. phase = "sent" => cmd.seq \in 0..3
    BY DEF Commands
  <2>3. CASE Replay
    <3>1. rx' \in Frames
      BY <2>3 DEF Replay, Repeated, Frames
    <3> QED BY <2>3, <3>1 DEF Replay, bounds, pdVars
  <2>4. CASE Unsealable \/ LoseCommand \/ LoseReply \/ DropSession
    BY <2>4, ReaderConstants
    DEF Unsealable, LoseCommand, LoseReply, DropSession, Silence, Fault, bounds
  <2>a. ASSUME NEW code \in Replies, NEW badge \in Badges \cup {0}, NEW sealed \in BOOLEAN,
               phase = "sent", Answer(Reply(code, badge, sealed)), pdSeq' = cmd.seq,
               pdSc' \in {"none", "challenged", "active"}, pdQueue' \in Seq(Badges),
               executed' \in [Requests -> Nat], paired' \in BOOLEAN, chained' \in BOOLEAN,
               faults' \in 0..MaxFaults, lates' \in 0..MaxLate
        PROVE  ReaderTypeOK' /\ InSlot'
    <3>1. rx' \in Frames /\ pdReply' \in Frames
      BY <2>1, <2>a DEF Answer
    <3>2. pdSeq' \in -1..3
      BY <2>2, <2>a
    <3> QED BY <2>a, <3>1, <3>2 DEF Answer
  <2>b. Seals => chained' \in BOOLEAN
    BY DEF Seals
  <2>c. (pdSc = "active") \in BOOLEAN
    OBVIOUS
  <2>d. {"NAK", "NAKSEQ", "BUSY", "CCRYPT", "RMACI"} \subseteq Replies
    BY DEF Replies
  <2>e. UNCHANGED bounds => faults' \in 0..MaxFaults /\ lates' \in 0..MaxLate
    BY DEF bounds
  <2>5. CASE NoSession
    BY <2>5, <2>a, <2>d, <2>e DEF NoSession
  <2>6. CASE OutOfSequence
    BY <2>6, <2>a, <2>b, <2>c, <2>d, <2>e DEF OutOfSequence, Accepted
  <2>7. CASE Serve
    <3> DEFINE card == cmd.code = "POLL" /\ pdQueue # <<>>
    <3>1. phase = "sent" /\ cmd.code \in {"POLL", "STAT", "ID", "CAP", "OUT"}
      BY <2>7 DEF Serve, Accepted, IsHandshake, Commands, Codes
    <3>2. card => Head(pdQueue) \in Badges /\ Tail(pdQueue) \in Seq(Badges)
      OBVIOUS
    <3>3. PICK code \in Replies :
            Answer(Reply(code, IF card THEN Head(pdQueue) ELSE 0, pdSc = "active"))
      BY <2>7, <3>1 DEF Serve, Replies
    <3>5. pdQueue' \in Seq(Badges)
      BY <2>7, <3>2 DEF Serve
    <3>6. executed' \in [Requests -> Nat]
      <4>1. executed' = IF cmd.code = "OUT" THEN [executed EXCEPT ![cmd.req] = @ + 1]
                                            ELSE executed
        BY <2>7 DEF Serve
      <4>2. executed \in [Requests -> Nat]
        OBVIOUS
      <4> HIDE DEF TypeInv
      <4> QED BY <4>1, <4>2, CountUp
    <3>7. (IF card THEN Head(pdQueue) ELSE 0) \in Badges \cup {0}
      BY <3>2
    <3>8. /\ pdSeq' = cmd.seq /\ Seals
          /\ UNCHANGED <<bounds, pdSc, paired>>
      BY <2>7 DEF Serve
    <3> QED
      BY <2>a, <2>b, <2>c, <2>e, <3>1, <3>3, <3>5, <3>6, <3>7, <3>8
  <2>8. CASE ServeChallenge
    BY <2>8, <2>a, <2>d, <2>e DEF ServeChallenge, Accepted
  <2>9. CASE ServeSCrypt
    BY <2>9, <2>a, <2>d, <2>e DEF ServeSCrypt, Accepted
  <2>f. Fault /\ UNCHANGED lates => faults' \in 0..MaxFaults /\ lates' \in 0..MaxLate
    BY ReaderConstants DEF Fault
  <2>10. CASE Busy
    BY <2>10, <2>a, <2>b, <2>c, <2>d, <2>f DEF Busy, Accepted
  <2>14. CASE Refuse
    BY <2>14, <2>a, <2>b, <2>c, <2>d, <2>f DEF Refuse, Accepted
  <2>11. CASE DelayReply
    <3>1. late' \in Frames
      BY <2>11 DEF DelayReply, Frames
    <3> QED BY <2>11, <3>1, ReaderConstants DEF DelayReply, Fault, pdVars
  <2>12. CASE PowerCycle
    BY <2>12, ReaderConstants DEF PowerCycle, Fault, NoSeq, wire
  <2>13. CASE PresentCard
    BY <2>13 DEF PresentCard, wire, bounds
  <2> QED
    BY <2>3, <2>4, <2>5, <2>6, <2>7, <2>8, <2>9, <2>10, <2>11, <2>12, <2>13,
       <2>14
    DEF ReaderStep, PDHandle, ReaderFault
<1> QED
  BY <1>1, <1>2 DEF TypeInv, BusTypeOK, cpVars, identity, session, sends

\* A slot writes a command.
LEMMA SlotTypes ==
  ASSUME TypeInv, Slot
  PROVE  TypeInv'
<1> USE BusConstants DEF TypeInv, BusTypeOK, ReaderTypeOK, InSlot
<1>1. Drained \in Requests \cup {Nothing}
  BY DEF Drained
<1>2. NextSeq \in 0..3
  BY DEF NextSeq, NextSequence
<1>3. cmd' \in Commands /\ phase' = "sent"
  <2>1. PICK code \in Codes, sealed \in BOOLEAN : Write(code, sealed)
    BY DEF Slot, Handshake, Ordinary, NextCommands, Codes
  <2> QED BY <2>1, <1>1, <1>2 DEF Write, Commands
<1>4. /\ queue' = <<>> /\ pending' = Drained
      /\ outcome' \in [Requests -> {"none", "waiting", "ok", "error"}]
  BY DEF Slot, DrainCommands
<1>5. sc' \in {"none", "challenged", "crypted", "active", "failed"} /\ scNext' \in BOOLEAN
      /\ paired' \in BOOLEAN
  BY DEF Slot, Handshake, Ordinary
<1>6. /\ status' \in {"offline", "identifying", "securing", "online"}
      /\ resetSeq' \in BOOLEAN /\ announced' \in BOOLEAN
      /\ told' \in {"offline", "clear", "secure"}
      /\ infoKnown' \in BOOLEAN /\ capsKnown' \in BOOLEAN
  BY DEF Slot, identity
<1>7. polls' \in 0..MinPollsPerStatus
  BY DEF Slot, StatusNotYet
<1>8. sinceGood' \in 0..SupervisionSlots + 1 /\ retryLeft' \in Nat
  <2> HIDE DEF TypeInv, BusTypeOK, ReaderTypeOK, InSlot
  <2>1. /\ sinceGood' = IF sinceGood > SupervisionSlots THEN sinceGood ELSE sinceGood + 1
        /\ retryLeft' = IF retryLeft > 0 THEN retryLeft - 1 ELSE 0
    BY DEF Slot
  <2>2. sinceGood \in 0..SupervisionSlots + 1 /\ retryLeft \in Nat
    BY DEF TypeInv, BusTypeOK
  <2>3. sinceGood' \in 0..SupervisionSlots + 1
    BY <2>1, <2>2
  <2>4. retryLeft' \in Nat
    BY <2>1, <2>2
  <2> QED BY <2>3, <2>4
<1>9. UNCHANGED <<rx, bounds, pdVars, chained, config, failures, served>>
      /\ late' \in {late, Nothing} /\ seq' = NextSeq
  BY DEF Slot
<1> QED
  BY <1>1, <1>2, <1>3, <1>4, <1>5, <1>6, <1>7, <1>8, <1>9 DEF bounds, pdVars, Commands

\* What the end of a transaction leaves of the panel's fields.
PanelTyped ==
  /\ status \in {"offline", "identifying", "securing", "online"}
  /\ resetSeq \in BOOLEAN /\ infoKnown \in BOOLEAN /\ capsKnown \in BOOLEAN
  /\ failures \in 0..OfflineAfter /\ announced \in BOOLEAN
  /\ sinceGood \in 0..SupervisionSlots + 1
  /\ sc \in {"none", "challenged", "crypted", "active", "failed"}
  /\ scNext \in BOOLEAN /\ retryLeft \in Nat
  /\ told \in {"offline", "clear", "secure"}
  /\ served \in [Badges -> Nat]

\* fail, and what it clears.
LEMMA FailTypes ==
  ASSUME TypeInv, NEW n \in 0..OfflineAfter, Fail(n), resetSeq' \in BOOLEAN
  PROVE  PanelTyped'
<1> USE BusConstants DEF TypeInv, BusTypeOK
<1>1. failures' \in 0..OfflineAfter
  BY DEF Fail
<1>2. retryLeft' \in Nat
  BY DEF Fail, session
<1>3. /\ status' \in {"offline", "identifying", "securing", "online"}
      /\ announced' \in BOOLEAN /\ told' \in {"offline", "clear", "secure"}
      /\ infoKnown' \in BOOLEAN /\ capsKnown' \in BOOLEAN
      /\ sc' \in {"none", "challenged", "crypted", "active", "failed"}
      /\ scNext' \in BOOLEAN
  BY DEF Fail, identity, session
<1>4. UNCHANGED <<sinceGood, served>>
  BY DEF Fail
<1> QED
  BY <1>1, <1>2, <1>3, <1>4 DEF PanelTyped

\* secureChannelLost.
LEMMA LostTypes ==
  ASSUME TypeInv, SecureChannelLost, resetSeq' \in BOOLEAN, failures' \in 0..OfflineAfter
  PROVE  PanelTyped'
  BY BusConstants DEF TypeInv, BusTypeOK, PanelTyped, SecureChannelLost, identity

\* Any answer, whatever it says.
LEMMA HandleTypes ==
  ASSUME TypeInv, NEW r, Handle(r)
  PROVE  PanelTyped' /\ chained' \in BOOLEAN
<1> USE BusConstants DEF TypeInv, BusTypeOK, ReaderTypeOK
<1>1. CASE Broken(r)
  BY <1>1, LostTypes DEF Broken
<1>2. CASE WrongSequence(r)
  <2>1. PanelTyped' BY <1>2, FailTypes DEF WrongSequence
  <2> QED BY <1>2, <2>1 DEF WrongSequence, Follows
<1>3. CASE AskAgain(r)
  BY <1>3 DEF AskAgain, Follows, PanelTyped, identity, session
<1>4. CASE HandshakeRefused(r)
  <2>1. PanelTyped' BY <1>4, LostTypes DEF HandshakeRefused
  <2> QED BY <1>4, <2>1 DEF HandshakeRefused, Follows
<1>5. CASE CommandRefused(r)
  <2>1. resetSeq' \in BOOLEAN /\ chained' \in BOOLEAN
    BY <1>5 DEF CommandRefused, Follows
  <2>2. CASE pending # Nothing
    BY <1>5, <2>1, <2>2 DEF CommandRefused, PanelTyped, identity, session
  <2>3. CASE pending = Nothing
    <3>1. Fail(0) /\ chained' \in BOOLEAN
      BY <1>5, <2>1, <2>3 DEF CommandRefused
    <3>2. 0 \in 0..OfflineAfter
      BY BusConstants
    <3> HIDE <1>5
    <3> QED BY <2>1, <3>1, <3>2, FailTypes
  <2> QED BY <2>1, <2>2, <2>3
<1>6. CASE Panics(r)
  BY <1>6 DEF Panics, PanelTyped, cpVars, identity, session
<1>7. CASE HandshakeBroken(r)
  <2>1. PanelTyped' BY <1>7, LostTypes DEF HandshakeBroken
  <2> QED BY <1>7, <2>1 DEF HandshakeBroken, Follows
<1>8. CASE Usable(r)
  <2>1. status' \in {"offline", "identifying", "securing", "online"}
        /\ told' \in {"offline", "clear", "secure"}
        /\ sc' \in {"none", "challenged", "crypted", "active", "failed"}
    BY <1>8 DEF Usable
  <2>2. served' \in [Badges -> Nat]
    <3>1. served' = served \/ served' = [served EXCEPT ![r.badge] = @ + 1]
      BY <1>8 DEF Usable
    <3>2. served \in [Badges -> Nat]
      OBVIOUS
    <3> HIDE DEF TypeInv
    <3> QED BY <3>1, <3>2, CountUp
  <2>3. /\ failures' = 0 /\ sinceGood' = 0 /\ announced' = FALSE
        /\ UNCHANGED <<resetSeq, retryLeft>>
    BY <1>8 DEF Usable
  <2>4. /\ infoKnown' \in BOOLEAN /\ capsKnown' \in BOOLEAN /\ scNext' \in BOOLEAN
        /\ chained' \in BOOLEAN
    BY <1>8 DEF Usable
  <2>5. failures' \in 0..OfflineAfter /\ sinceGood' \in 0..SupervisionSlots + 1
    BY <2>3
  <2>6. announced' \in BOOLEAN
    BY <2>3
  <2>7. resetSeq' \in BOOLEAN /\ retryLeft' \in Nat
    BY <2>3
  <2> HIDE DEF TypeInv
  <2> QED BY <2>1, <2>2, <2>4, <2>5, <2>6, <2>7 DEF PanelTyped
<1> QED
  BY <1>1, <1>2, <1>3, <1>4, <1>5, <1>6, <1>7, <1>8 DEF Handle

\* Handling an answer completes the transaction or stops the panel.
LEMMA HandleEnds ==
  ASSUME NEW r, Handle(r)
  PROVE  \/ Complete("ok") \/ Complete("error")
         \/ phase' = "panicked" /\ UNCHANGED <<cmd, rx, pdVars, paired, cpVars>>
  BY DEF Handle, Broken, WrongSequence, AskAgain, HandshakeRefused, CommandRefused, Panics,
         HandshakeBroken, Usable

\* The end of a transaction, with what is left on the wire.
LEMMA EndTypes ==
  ASSUME TypeInv, phase # "idle", PanelTyped', chained' \in BOOLEAN,
         late' \in Frames \cup {Nothing}, faults' \in 0..MaxFaults, lates' \in 0..MaxLate,
         \/ Complete("ok") \/ Complete("error")
         \/ phase' = "panicked" /\ UNCHANGED <<cmd, rx, pdVars, paired, cpVars>>
  PROVE  TypeInv'
<1> USE BusConstants DEF TypeInv, BusTypeOK, ReaderTypeOK, InSlot, PanelTyped, pdVars
<1>1. ASSUME NEW result \in {"ok", "error"}, Complete(result) PROVE TypeInv'
  BY <1>1 DEF Complete
<1>2. CASE phase' = "panicked" /\ UNCHANGED <<cmd, rx, pdVars, paired, cpVars>>
  BY <1>2 DEF cpVars, sends
<1> QED
  BY <1>1, <1>2

\* Every step of the panel and of the reader keeps the types.
LEMMA TypeStep ==
  ASSUME TypeInv, [BusNext]_busVars
  PROVE  TypeInv'
<1>1. ASSUME NEW r \in Requests, Send(r) PROVE TypeInv'
  BY <1>1 DEF Send, TypeInv, BusTypeOK, ReaderTypeOK, InSlot, wire, bounds, pdVars,
     identity,
              session
<1>2. CASE Slot
  BY <1>2, SlotTypes
<1>3. CASE Timeout
  <2>1. PanelTyped'
    BY <1>3, FailTypes DEF Timeout, TypeInv, BusTypeOK
  <2> QED
    BY <1>3, <2>1, EndTypes DEF Timeout, bounds, TypeInv, BusTypeOK, ReaderTypeOK
<1>4. CASE Receive
  <2>1. PanelTyped' /\ chained' \in BOOLEAN
    BY <1>4, HandleTypes DEF Receive
  <2>2. \/ Complete("ok") \/ Complete("error")
        \/ phase' = "panicked" /\ UNCHANGED <<cmd, rx, pdVars, paired, cpVars>>
    BY <1>4, HandleEnds DEF Receive
  <2> QED
    BY <1>4, <2>1, <2>2, EndTypes DEF Receive, bounds, TypeInv, BusTypeOK, ReaderTypeOK
<1>5. CASE ReceiveLate
  <2>1. PanelTyped' /\ chained' \in BOOLEAN
    BY <1>5, HandleTypes DEF ReceiveLate
  <2>2. \/ Complete("ok") \/ Complete("error")
        \/ phase' = "panicked" /\ UNCHANGED <<cmd, rx, pdVars, paired, cpVars>>
    BY <1>5, HandleEnds DEF ReceiveLate
  <2>3. late' \in Frames \cup {Nothing}
    BY <1>5 DEF ReceiveLate, TypeInv, BusTypeOK, ReaderTypeOK, Frames
  <2>4. faults' \in 0..MaxFaults /\ lates' \in 0..MaxLate
    BY <1>5, ReaderConstants DEF ReceiveLate, Fault, bounds, TypeInv, BusTypeOK,
       ReaderTypeOK
  <2> QED
    BY <1>5, <2>1, <2>2, <2>3, <2>4, EndTypes DEF ReceiveLate
<1>6. CASE ReaderStep
  BY <1>6, ReaderTypes
<1>7. CASE UNCHANGED busVars
  BY <1>7 DEF busVars, wire, bounds, pdVars, cpVars, identity, session, sends, TypeInv,
              BusTypeOK, ReaderTypeOK, InSlot
<1> QED
  BY <1>1, <1>2, <1>3, <1>4, <1>5, <1>6, <1>7 DEF BusNext, BusStep

\* The types hold at the start.
LEMMA TypeInit == BusInit => TypeInv
<1> SUFFICES ASSUME BusInit PROVE TypeInv
  OBVIOUS
<1>1. ReaderTypeOK /\ InSlot
  <2>1. pdSeq \in -1..3 /\ faults \in 0..MaxFaults /\ lates \in 0..MaxLate
    BY ReaderConstants DEF BusInit, ReaderInit, NoSeq
  <2>2. executed \in [Requests -> Nat] /\ pdQueue \in Seq(Badges)
    BY DEF BusInit, ReaderInit
  <2> QED BY <2>1, <2>2 DEF BusInit, ReaderInit, ReaderTypeOK, InSlot
<1>2. failures \in 0..OfflineAfter /\ sinceGood \in 0..SupervisionSlots + 1
      /\ polls \in 0..MinPollsPerStatus /\ seq \in 0..3 /\ retryLeft \in Nat
  BY BusConstants DEF BusInit
<1>3. queue \in Seq(Requests) /\ served \in [Badges -> Nat]
      /\ outcome \in [Requests -> {"none", "waiting", "ok", "error"}]
  BY DEF BusInit
<1> QED
  BY <1>1, <1>2, <1>3 DEF BusInit, TypeInv, BusTypeOK

\* Both ends of the bus keep their types, for any number of requests, badges,
\* faults and late replies and every configuration.
THEOREM BusTypes == BusSpec => []BusTypeOK
<1>1. TypeInv /\ [BusNext]_busVars => TypeInv'
  BY TypeStep
<1>2. TypeInv => BusTypeOK
  BY DEF TypeInv
<1> QED
  BY TypeInit, <1>1, <1>2, PTL DEF BusSpec
-----------------------------------------------------------------------------
(***************************************************************************)
(* A badge and the answers that carry it, where a session is required.  A  *)
(* badge is at one place at a time: not yet presented, in the reader's     *)
(* queue, in the fresh answer of this slot, or served or lost.             *)
(***************************************************************************)
Waiting == {pdQueue[k] : k \in 1..Len(pdQueue)}

InAnswer == phase = "answered" /\ rx.code = "RAW" /\ rx.fresh

OnePlace ==
  /\ presented \in Nat
  /\ \A k, l \in 1..Len(pdQueue) : pdQueue[k] = pdQueue[l] => k = l
  /\ \A b \in Waiting : served[b] = 0 /\ b <= presented
  /\ InAnswer => /\ rx.badge \in Badges /\ rx.badge \notin Waiting
                 /\ rx.badge <= presented /\ served[rx.badge] = 0
  /\ \A b \in Badges : b > presented => served[b] = 0
  /\ EachBadgeServedOnce

AllSecured == \A c \in Configs : c.required

BadgeInv == TypeInv /\ CardInv /\ OnePlace

\* Only a fresh answer delivers a badge.
LEMMA FreshServes ==
  ASSUME AllSecured, BadgeInv, BusNext, served' # served
  PROVE  InAnswer /\ served' = [served EXCEPT ![rx.badge] = @ + 1] /\ phase' = "idle"
         /\ UNCHANGED <<pdQueue, presented>>
<1>1. RequireSC
  BY DEF AllSecured, BadgeInv, TypeInv, BusTypeOK, RequireSC
<1>2. PICK r : /\ Usable(r) /\ Delivers(r)
               /\ (r = rx /\ phase = "answered") \/ r.fresh = FALSE
  BY OnlyUsableServes DEF BadgeInv
<1>3. phase # "idle"
  BY OnlyUsableServes DEF BadgeInv
<1>4. sc = "active" /\ r.code = "RAW"
  BY <1>1, <1>2 DEF Delivers, CredentialsBlocked
<1>5. Unseals
  BY <1>3, <1>4 DEF Unseals, BadgeInv, CardInv, HandshakesFirst
<1>6. r.sealed /\ r.fresh
  BY <1>2, <1>5 DEF Usable, InStep, Opened, Genuine
<1>7. r = rx /\ phase = "answered"
  BY <1>2, <1>6
<1> QED
  BY <1>2, <1>4, <1>6, <1>7 DEF Usable, Complete, InAnswer, pdVars

\* A step that delivers nothing moves a badge from the reader's hand to its
\* queue, from the queue into an answer, or drops it.
LEMMA BadgeMoves ==
  ASSUME BadgeInv, BusNext, served' = served, TypeInv', CardInv'
  PROVE  OnePlace'
<1> USE DEF BadgeInv
<1>a. pdQueue \in Seq(Badges) /\ presented \in Nat /\ Badges \subseteq Nat
  BY ReaderConstants DEF TypeInv, BusTypeOK, ReaderTypeOK, OnePlace
<1>b. Len(pdQueue) \in Nat /\ \A k \in 1..Len(pdQueue) : pdQueue[k] \in Badges
  BY <1>a
<1>1. CASE PresentCard
  <2>1. /\ presented' = presented + 1 /\ presented + 1 \in Badges
        /\ pdQueue' = Append(pdQueue, presented + 1) /\ UNCHANGED <<phase, rx>> /\ phase = "idle"
    BY <1>1 DEF PresentCard, wire
  <2>a. /\ Len(pdQueue') = Len(pdQueue) + 1 /\ pdQueue'[Len(pdQueue) + 1] = presented + 1
        /\ \A k \in 1..Len(pdQueue) : pdQueue'[k] = pdQueue[k]
    BY <1>a, <2>1
  <2>2. Waiting' = Waiting \cup {presented + 1}
    BY <1>b, <2>a DEF Waiting
  <2>3. presented + 1 \notin Waiting
    BY <1>a DEF OnePlace
  <2>4. \A k, l \in 1..Len(pdQueue') : pdQueue'[k] = pdQueue'[l] => k = l
    <3>1. \A k \in 1..Len(pdQueue) : pdQueue[k] # presented + 1
      BY <2>3 DEF Waiting
    <3> QED BY <1>b, <2>a, <3>1 DEF OnePlace
  <2>5. \A b \in Waiting' : served'[b] = 0 /\ b <= presented'
    <3>1. \A b \in Waiting : b \in Badges /\ b \in Nat /\ b <= presented
      BY <1>a, <1>b DEF OnePlace, Waiting
    <3> QED BY <1>a, <2>1, <2>2, <3>1 DEF OnePlace
  <2>6. \A b \in Badges : b > presented' => served'[b] = 0
    BY <1>a, <2>1 DEF OnePlace
  <2>7. ~InAnswer' /\ EachBadgeServedOnce'
    BY <2>1 DEF InAnswer, OnePlace, EachBadgeServedOnce
  <2>8. presented' \in Nat
    BY <1>a, <2>1
  <2> QED BY <2>4, <2>5, <2>6, <2>7, <2>8 DEF OnePlace
<1>2. CASE Serve
  <2> DEFINE card == cmd.code = "POLL" /\ pdQueue # <<>>
  <2>1. /\ presented' = presented /\ phase' = "answered"
        /\ pdQueue' = IF card THEN Tail(pdQueue) ELSE pdQueue
        /\ rx'.badge = IF card THEN Head(pdQueue) ELSE 0
        /\ rx'.code = "RAW" => card
    <3>1. cmd.code \in {"POLL", "STAT", "ID", "CAP", "OUT"}
      BY <1>2 DEF Serve, Accepted, IsHandshake, TypeInv, InSlot, Commands, Codes
    <3>2. PICK code : /\ Answer(Reply(code, IF card THEN Head(pdQueue) ELSE 0, pdSc = "active"))
                      /\ code = "RAW" => card
      BY <1>2, <3>1 DEF Serve
    <3>3. pdQueue' = IF card THEN Tail(pdQueue) ELSE pdQueue
      BY <1>2 DEF Serve
    <3> QED BY <3>2, <3>3 DEF Answer, Reply
  <2>2. CASE ~card
    BY <2>1, <2>2 DEF OnePlace, InAnswer, Waiting, EachBadgeServedOnce
  <2>3. CASE card
    <3>1. /\ Len(pdQueue) \in Nat \ {0} /\ pdQueue' = Tail(pdQueue)
          /\ Len(pdQueue') = Len(pdQueue) - 1 /\ rx'.badge = pdQueue[1]
          /\ pdQueue[1] \in Badges
      BY <1>a, <2>1, <2>3
    <3>2. \A k \in 1..Len(pdQueue') : pdQueue'[k] = pdQueue[k + 1] /\ k + 1 \in 1..Len(pdQueue)
      BY <1>a, <2>3, <3>1
    <3>3. ASSUME NEW k \in 1..Len(pdQueue'), NEW l \in 1..Len(pdQueue'),
                 pdQueue'[k] = pdQueue'[l]
          PROVE  k = l
      <4>1. pdQueue[k + 1] = pdQueue[l + 1] /\ {k + 1, l + 1} \subseteq 1..Len(pdQueue)
        BY <3>2, <3>3
      <4>2. k + 1 = l + 1
        BY <4>1 DEF OnePlace
      <4> QED BY <3>1, <4>2
    <3>4. Waiting' \subseteq Waiting
      BY <3>1, <3>2 DEF Waiting
    <3>5. rx'.badge \notin Waiting'
      BY <3>1, <3>2 DEF OnePlace, Waiting
    <3>6. rx'.badge \in Waiting
      BY <3>1 DEF Waiting
    <3> QED
      BY <2>1, <3>1, <3>3, <3>4, <3>5, <3>6 DEF OnePlace, InAnswer, EachBadgeServedOnce
  <2> QED BY <2>2, <2>3
<1>3. CASE PowerCycle
  <2>1. pdQueue' = <<>> /\ phase' = "idle" /\ presented' = presented
    BY <1>3 DEF PowerCycle, wire
  <2>2. Waiting' = {}
    BY <2>1 DEF Waiting
  <2> QED BY <2>1, <2>2 DEF OnePlace, InAnswer, EachBadgeServedOnce
<1>4. CASE ReaderStep /\ ~PresentCard /\ ~Serve /\ ~PowerCycle
  <2>1. pdQueue' = pdQueue /\ presented' = presented
    BY <1>4 DEF ReaderStep, PDHandle, Replay, Unsealable, NoSession, OutOfSequence,
                ServeChallenge, ServeSCrypt, ReaderFault, Busy, Refuse, LoseCommand,
                LoseReply, DelayReply, DropSession, Answer, Silence, pdVars
  <2>2. ~InAnswer'
    <3>1. CASE Replay
      BY <3>1 DEF Replay, Repeated, TypeInv, BusTypeOK, ReaderTypeOK, Frames, InAnswer
    <3>2. CASE NoSession \/ OutOfSequence \/ ServeChallenge \/ ServeSCrypt \/ Busy \/ Refuse
      BY <3>2 DEF NoSession, OutOfSequence, ServeChallenge, ServeSCrypt, Busy, Refuse,
         Answer,
                  Reply, InAnswer
    <3>3. CASE Unsealable \/ LoseCommand \/ LoseReply \/ DropSession \/ DelayReply
      BY <3>3 DEF Unsealable, LoseCommand, LoseReply, DropSession, DelayReply, Silence,
         InAnswer
    <3> QED BY <1>4, <3>1, <3>2, <3>3 DEF ReaderStep, PDHandle, ReaderFault
  <2> QED BY <2>1, <2>2 DEF OnePlace, Waiting, EachBadgeServedOnce
<1>5. CASE ~ReaderStep
  <2>1. pdQueue' = pdQueue /\ presented' = presented
        /\ (phase' # "answered" \/ UNCHANGED <<phase, rx>>)
    <3>1. ASSUME NEW r, Handle(r) PROVE pdQueue' = pdQueue /\ presented' = presented
                                         /\ phase' # "answered"
      BY <3>1, HandleEnds DEF Complete, pdVars
    <3>2. ASSUME NEW r \in Requests, Send(r)
          PROVE  UNCHANGED <<pdQueue, presented, phase, rx>>
      BY <3>2 DEF Send, wire, pdVars
    <3>3. CASE Slot
      BY <3>3 DEF Slot, Handshake, Ordinary, Write, pdVars
    <3>4. CASE Timeout
      BY <3>4 DEF Timeout, Complete, pdVars
    <3>5. CASE Receive \/ ReceiveLate
      BY <3>1, <3>5 DEF Receive, ReceiveLate
    <3> QED BY <1>5, <3>2, <3>3, <3>4, <3>5 DEF BusNext, BusStep
  <2> QED BY <2>1 DEF OnePlace, Waiting, InAnswer, EachBadgeServedOnce
<1> QED
  BY <1>1, <1>2, <1>3, <1>4, <1>5 DEF ReaderStep

\* Every step keeps each badge in its one place.
LEMMA BadgeStep ==
  ASSUME AllSecured, BadgeInv, [BusNext]_busVars
  PROVE  BadgeInv'
<1>1. TypeInv' /\ CardInv'
  BY TypeStep, CardStep DEF BadgeInv
<1>2. CASE BusNext /\ served' = served
  BY <1>1, <1>2, BadgeMoves DEF BadgeInv
<1>3. CASE BusNext /\ served' # served
  <2>1. /\ InAnswer /\ served' = [served EXCEPT ![rx.badge] = @ + 1] /\ phase' = "idle"
        /\ UNCHANGED <<pdQueue, presented>>
    BY <1>3, FreshServes
  <2>2. Waiting' = Waiting
    BY <2>1 DEF Waiting
  <2>3. \A b \in Waiting : b \in Badges
    BY DEF Waiting, BadgeInv, TypeInv, BusTypeOK, ReaderTypeOK
  <2>4. OnePlace'
    BY <2>1, <2>2, <2>3, ReaderConstants
    DEF BadgeInv, OnePlace, InAnswer, TypeInv, BusTypeOK, EachBadgeServedOnce
  <2> QED BY <1>1, <2>4 DEF BadgeInv
<1>4. CASE UNCHANGED busVars
  BY <1>1, <1>4 DEF busVars, wire, pdVars, cpVars, BadgeInv, OnePlace, Waiting, InAnswer,
                    EachBadgeServedOnce
<1> QED
  BY <1>2, <1>3, <1>4

\* Where a session is required, a badge presented once is served at most once,
\* whatever the wire loses, repeats or delays.  Without a session it is not so:
\* a reader that missed two polls takes the third for a retransmission and
\* repeats its card.
THEOREM BadgesOnce ==
  ASSUME AllSecured
  PROVE  BusSpec => []EachBadgeServedOnce
<1>1. BusInit => BadgeInv
  <2> SUFFICES ASSUME BusInit PROVE BadgeInv
    OBVIOUS
  <2>1. CardInv
    BY DEF BusInit, ReaderInit, CardInv, HandshakesFirst, CardsAreSealed, OldAnswers
  <2>2. OnePlace
    BY ReaderConstants DEF BusInit, ReaderInit, OnePlace, Waiting, InAnswer,
                           EachBadgeServedOnce
  <2> QED BY <2>1, <2>2, TypeInit DEF BadgeInv
<1>2. BadgeInv /\ [BusNext]_busVars => BadgeInv'
  BY BadgeStep
<1>3. BadgeInv => EachBadgeServedOnce
  BY DEF BadgeInv, OnePlace
<1> QED
  BY <1>1, <1>2, <1>3, PTL DEF BusSpec
-----------------------------------------------------------------------------
(***************************************************************************)
(* A Send answered in a session.  The flag of the session is the one under *)
(* which the command was sealed (SealedInSession), a sealed slot with a    *)
(* request pending carries that request (SealedCarries), and a fresh       *)
(* answer to it that is no refusal comes from a reader that has executed   *)
(* it (AnswerMeansDone).                                                   *)
(***************************************************************************)
SealedInSession ==
  phase # "idle" /\ cmd.sealed => sc = "active" /\ ~IsHandshake(cmd.code)

SealedCarries ==
  phase # "idle" /\ cmd.sealed /\ pending # Nothing =>
    cmd.code = "OUT" /\ cmd.req = pending

AnswerMeansDone ==
  phase = "answered" /\ cmd.code = "OUT" /\ rx.fresh
    /\ rx.code \notin {"NAK", "NAKSEQ", "BUSY"} => executed[cmd.req] = 1

HonestInv == SealedInSession /\ SealedCarries /\ AnswerMeansDone

\* The reader does not touch the command, and answers it in good faith.
LEMMA ReaderIsHonest ==
  ASSUME TypeInv, SendInv, HonestInv, ReaderStep
  PROVE  HonestInv'
<1>1. sc' = sc /\ pending' = pending
  BY DEF ReaderStep, cpVars, session, sends
<1>2. /\ phase = "idle" => phase' = "idle"
      /\ phase # "idle" => cmd' = cmd
  BY DEF ReaderStep, PDHandle, Replay, Unsealable, NoSession, OutOfSequence, Serve,
         ServeChallenge, ServeSCrypt, ReaderFault, Busy, Refuse, LoseCommand, LoseReply,
         DelayReply, DropSession, PowerCycle, PresentCard, Accepted, Answer, Silence, wire
<1>3. SealedInSession' /\ SealedCarries'
  BY <1>1, <1>2 DEF HonestInv, SealedInSession, SealedCarries
<1>4. AnswerMeansDone'
  <2>1. CASE Serve
    <3>1. phase = "sent" /\ cmd' = cmd /\ (cmd.code = "OUT" =>
             executed' = [executed EXCEPT ![cmd.req] = @ + 1])
      BY <2>1 DEF Serve, Accepted, Answer
    <3>2. ASSUME cmd.code = "OUT"
          PROVE  cmd.req \in Requests /\ executed[cmd.req] = 0
      <4>1. cmd.req = pending /\ pending \in Requests
        BY <3>1, <3>2 DEF SendInv, CarriesPending
      <4>2. outcome[pending] = "waiting"
        BY <4>1, BusConstants DEF SendInv, Fresh
      <4> QED BY <3>1, <4>1, <4>2 DEF SendInv, Unanswered
    <3>3. executed \in [Requests -> Nat]
      BY DEF SendInv, SendsTyped
    <3> QED BY <3>1, <3>2, <3>3 DEF AnswerMeansDone
  <2>2. CASE Replay
    BY <2>2 DEF Replay, Repeated, TypeInv, BusTypeOK, ReaderTypeOK, Frames, AnswerMeansDone
  <2>3. CASE NoSession \/ OutOfSequence \/ Busy \/ Refuse
    BY <2>3 DEF NoSession, OutOfSequence, Busy, Refuse, Answer, Reply, AnswerMeansDone
  <2>4. CASE ServeChallenge \/ ServeSCrypt
    BY <2>4 DEF ServeChallenge, ServeSCrypt, Answer, AnswerMeansDone
  <2>5. CASE Unsealable \/ LoseCommand \/ LoseReply \/ DropSession \/ DelayReply
    BY <2>5 DEF Unsealable, LoseCommand, LoseReply, DropSession, DelayReply, Silence,
                AnswerMeansDone
  <2>6. CASE PowerCycle \/ PresentCard
    BY <2>6 DEF PowerCycle, PresentCard, wire, AnswerMeansDone
  <2> QED
    BY <2>1, <2>2, <2>3, <2>4, <2>5, <2>6 DEF ReaderStep, PDHandle, ReaderFault
<1> QED
  BY <1>3, <1>4 DEF HonestInv

\* A slot seals only what it sends in a session, and a request goes first.
LEMMA SlotIsHonest ==
  ASSUME Slot
  PROVE  HonestInv'
<1>1. phase' = "sent" /\ pending' = Drained
  BY DEF Slot, DrainCommands, Handshake, Ordinary, Write
<1>2. cmd'.sealed => /\ sc' = "active" /\ ~IsHandshake(cmd'.code)
                     /\ Drained # Nothing => cmd'.code = "OUT" /\ cmd'.req = Drained
  <2>1. CASE Handshake
    BY <2>1 DEF Handshake, Write
  <2>2. CASE Ordinary
    <3>1. PICK code \in NextCommands : Write(code, sc = "active")
      BY <2>2 DEF Ordinary
    <3>2. ~IsHandshake(code) /\ (Drained # Nothing => code = "OUT")
      BY <3>1 DEF NextCommands, IsHandshake
    <3> QED BY <2>2, <3>1, <3>2 DEF Ordinary, Write
  <2> QED BY <2>1, <2>2 DEF Slot
<1> QED
  BY <1>1, <1>2 DEF HonestInv, SealedInSession, SealedCarries, AnswerMeansDone

\* Every step of the panel and of the reader keeps the invariant.
LEMMA HonestStep ==
  ASSUME TypeInv, SendInv, HonestInv, [BusNext]_busVars
  PROVE  HonestInv'
<1>1. ASSUME NEW r \in Requests, Send(r) PROVE HonestInv'
  BY <1>1 DEF Send, wire, pdVars, session, HonestInv, SealedInSession, SealedCarries,
              AnswerMeansDone
<1>2. CASE Slot
  BY <1>2, SlotIsHonest
<1>3. ASSUME phase' = "idle" PROVE HonestInv'
  BY <1>3 DEF HonestInv, SealedInSession, SealedCarries, AnswerMeansDone
<1>4. ASSUME NEW r, Handle(r), phase # "idle" PROVE HonestInv'
  <2>1. CASE phase' = "panicked" /\ UNCHANGED <<cmd, rx, pdVars, paired, cpVars>>
    BY <1>4, <2>1 DEF cpVars, session, sends, HonestInv, SealedInSession, SealedCarries,
                      AnswerMeansDone
  <2> QED BY <1>3, <1>4, <2>1, HandleEnds DEF Complete
<1>5. CASE Timeout
  BY <1>3, <1>5 DEF Timeout, Complete
<1>6. CASE Receive \/ ReceiveLate
  BY <1>4, <1>6 DEF Receive, ReceiveLate
<1>7. CASE ReaderStep
  BY <1>7, ReaderIsHonest
<1>8. CASE UNCHANGED busVars
  BY <1>8 DEF busVars, wire, pdVars, cpVars, session, sends, HonestInv, SealedInSession,
              SealedCarries, AnswerMeansDone
<1> QED
  BY <1>1, <1>2, <1>5, <1>6, <1>7, <1>8 DEF BusNext, BusStep

\* An application whose Send was answered "ok" in a session has had its strike
\* driven, for any number of requests, faults and late replies.
THEOREM SealedAnswersAreHonest == BusSpec => SealedSendIsHonest
<1> DEFINE I == TypeInv /\ SendInv /\ CardInv /\ HonestInv
<1>1. BusInit => I
  <2> SUFFICES ASSUME BusInit PROVE CardInv /\ HonestInv
    BY TypeInit, SendInit
  <2> QED
    BY DEF BusInit, ReaderInit, CardInv, HandshakesFirst, CardsAreSealed, OldAnswers,
           HonestInv, SealedInSession, SealedCarries, AnswerMeansDone
<1>2. I /\ [BusNext]_busVars => I'
  BY TypeStep, SendStep, CardStep, HonestStep
<1>3. I /\ [BusNext]_busVars =>
        [ \A r \in Requests :
            outcome[r] = "waiting" /\ outcome'[r] = "ok" /\ cmd.sealed
              => executed[r] = 1 ]_busVars
  <2> SUFFICES ASSUME I, BusNext, NEW r \in Requests, outcome[r] = "waiting",
                      outcome'[r] = "ok", cmd.sealed
               PROVE  executed[r] = 1
    OBVIOUS
  <2>1. outcome \in [Requests -> {"none", "waiting", "ok", "error"}]
    BY DEF SendInv, SendsTyped
  <2>2. ASSUME NEW result, Complete(result) PROVE result = "ok" /\ pending = r
    BY <2>1, <2>2 DEF Complete
  <2>3. Receive \/ ReceiveLate
    <3>1. ASSUME NEW q \in Requests, Send(q) PROVE FALSE
      BY <2>1, <3>1 DEF Send
    <3>2. CASE Slot
      BY <3>2 DEF Slot, DrainCommands
    <3>3. CASE Timeout
      BY <2>2, <3>3 DEF Timeout
    <3>4. CASE ReaderStep
      BY <3>4 DEF ReaderStep, cpVars, sends
    <3> QED BY <3>1, <3>2, <3>3, <3>4 DEF BusNext, BusStep
  <2>4. PICK f : /\ Handle(f) /\ phase # "idle"
                 /\ (f = rx /\ phase = "answered") \/ f.fresh = FALSE
    BY <2>3 DEF Receive, ReceiveLate, CardInv, OldAnswers
  <2>5. Usable(f) /\ pending = r
    <3>1. CASE Panics(f)
      BY <3>1 DEF Panics, cpVars, sends
    <3> QED
      BY <2>2, <2>4, <3>1 DEF Handle, Broken, WrongSequence, AskAgain, HandshakeRefused,
                              CommandRefused, HandshakeBroken, Usable
  <2>6. Unseals
    BY <2>4 DEF Unseals, HonestInv, SealedInSession
  <2>7. f.fresh /\ ~IsNak(f) /\ f.code # "BUSY"
    BY <2>5, <2>6 DEF Usable, InStep, Opened, Genuine
  <2>8. f = rx /\ phase = "answered"
    BY <2>4, <2>7
  <2>9. cmd.code = "OUT" /\ cmd.req = r
    BY <2>4, <2>5, BusConstants DEF HonestInv, SealedCarries
  <2> QED
    BY <2>7, <2>8, <2>9 DEF HonestInv, AnswerMeansDone, IsNak
<1> QED
  BY <1>1, <1>2, <1>3, PTL DEF BusSpec, SealedSendIsHonest

---------------------------------------------------------------------------
(***************************************************************************)
(* What the controller is told.  The slot's invariant comes first: who is  *)
(* in a handshake, what a fresh answer may be, and that only a reader that *)
(* is not in service is asked who it is.                                   *)
(***************************************************************************)
ShakesHands ==
  /\ scNext => sc = "crypted"
  /\ phase # "idle" /\ IsHandshake(cmd.code) => sc \in {"challenged", "crypted"}
  /\ phase # "idle" /\ ~IsHandshake(cmd.code) => (cmd.sealed <=> sc = "active")
  /\ ~HasKey => sc = "none"
  /\ sc = "failed" => ~RequireSC

Identifies ==
  phase # "idle" /\ cmd.code \in {"ID", "CAP"} => status \in {"offline", "identifying"}

AnswersMatch ==
  phase = "answered" =>
    /\ pdReply # Nothing /\ rx.code = pdReply.code /\ pdSeq = cmd.seq
    /\ ~rx.fresh => cmd.seq # 0
    /\ rx.fresh /\ rx.code = "PDID" => cmd.code = "ID"
    /\ rx.fresh /\ rx.code = "PDCAP" => cmd.code = "CAP" /\ (cmd.sealed => rx.sealed)

Numbered == phase # "idle" => cmd.seq = seq /\ (resetSeq => status = "offline")

SlotInv == ShakesHands /\ Identifies /\ AnswersMatch /\ Numbered

\* The reader leaves the panel and the command alone.
LEMMA ReaderLeaves ==
  ASSUME ReaderStep
  PROVE  /\ phase = "idle" => phase' = "idle"
         /\ phase # "idle" => phase' # "idle" /\ cmd' = cmd
         /\ UNCHANGED <<config, status, seq, resetSeq, infoKnown, capsKnown, failures,
                        announced, sc, scNext, told>>
<1>1. UNCHANGED <<config, status, seq, resetSeq, infoKnown, capsKnown, failures,
                  announced, sc, scNext, told>>
  BY DEF ReaderStep, cpVars, session, identity
<1> QED
  BY <1>1 DEF ReaderStep, PDHandle, Replay, Unsealable, NoSession, OutOfSequence, Serve,
         ServeChallenge, ServeSCrypt, ReaderFault, Busy, Refuse, LoseCommand, LoseReply,
         DelayReply, DropSession, PowerCycle, PresentCard, Accepted, Answer, Silence, wire

\* What a step of the reader does to its answers: it repeats the last one to a
\* command it takes for a retransmission, makes a fresh one, or says nothing.
LEMMA ReaderAnswers ==
  ASSUME TypeInv, ReaderStep
  PROVE  \/ /\ phase = "sent" /\ phase' = "answered"
            /\ pdReply # Nothing /\ pdReply' = pdReply
            /\ pdSeq = cmd.seq /\ cmd.seq # 0 /\ pdSeq' = pdSeq
            /\ rx'.code = pdReply.code /\ ~rx'.fresh
         \/ /\ phase = "sent" /\ phase' = "answered"
            /\ pdReply' = rx' /\ rx'.fresh /\ pdSeq' = cmd.seq /\ pdReply' # Nothing
            /\ rx'.code = "PDID" => cmd.code = "ID"
            /\ rx'.code = "PDCAP" => cmd.code = "CAP" /\ (cmd.sealed => rx'.sealed)
         \/ phase \in {"sent", "answered"} /\ phase' = "silent" /\ UNCHANGED <<pdReply, pdSeq>>
         \/ phase' = phase /\ phase = "idle" /\ (pdReply' = Nothing \/ UNCHANGED <<pdReply, pdSeq>>)
<1>0. phase' = "answered" => rx' \in Frames /\ rx' # Nothing
  BY ReaderTypes, NothingIsNoFrame DEF TypeInv, InSlot
<1>1. CASE Replay
  <2>1. pdReply \in Frames
    BY <1>1 DEF Replay, Repeated, TypeInv, BusTypeOK, ReaderTypeOK
  <2> QED BY <1>1, <2>1 DEF Replay, Repeated, pdVars, Frames
<1>2. CASE Serve
  <2>1. phase = "sent" /\ cmd.code \in {"POLL", "STAT", "ID", "CAP", "OUT"}
    BY <1>2 DEF Serve, Accepted, IsHandshake, TypeInv, InSlot, Commands, Codes
  <2>2. cmd.sealed => pdSc = "active"
    BY <1>2 DEF Serve, Accepted
  <2> QED BY <1>0, <1>2, <2>1, <2>2 DEF Serve, Answer, Reply
<1>a. ASSUME NEW code \in {"NAK", "NAKSEQ", "BUSY", "CCRYPT", "RMACI"}, NEW sealed,
             phase = "sent", Answer(Reply(code, 0, sealed)), pdSeq' = cmd.seq
      PROVE  /\ phase = "sent" /\ phase' = "answered" /\ pdReply' = rx' /\ rx'.fresh
             /\ pdSeq' = cmd.seq /\ rx'.code \notin {"PDID", "PDCAP"}
  BY <1>a DEF Answer, Reply
<1>3. CASE NoSession \/ OutOfSequence \/ ServeChallenge \/ ServeSCrypt \/ Busy \/ Refuse
  <2>1. /\ phase = "sent" /\ pdSeq' = cmd.seq
        /\ \E code \in {"NAK", "NAKSEQ", "BUSY", "CCRYPT", "RMACI"}, sealed \in BOOLEAN :
             Answer(Reply(code, 0, sealed))
    BY <1>3 DEF NoSession, OutOfSequence, ServeChallenge, ServeSCrypt, Busy, Refuse, Accepted
  <2> QED BY <1>0, <1>a, <2>1
<1>4. CASE Unsealable \/ LoseCommand \/ LoseReply \/ DropSession
  BY <1>4 DEF Unsealable, LoseCommand, LoseReply, DropSession, Silence
<1>5. CASE DelayReply
  BY <1>5 DEF DelayReply, pdVars
<1>6. CASE PowerCycle \/ PresentCard
  BY <1>6 DEF PowerCycle, PresentCard, wire
<1> QED
  BY <1>1, <1>2, <1>3, <1>4, <1>5, <1>6 DEF ReaderStep, PDHandle, ReaderFault

\* A slot that begins: a handshake, in which case the reader was not in a
\* session, or an ordinary command.
LEMMA SlotBegins ==
  ASSUME Slot
  PROVE  /\ phase = "idle" /\ phase' = "sent"
         /\ cmd'.seq = NextSeq /\ seq' = NextSeq
         /\ UNCHANGED <<config, failures, pdReply, pdSeq>>
         /\ ~scNext'
         /\ \/ /\ scNext /\ IsHandshake(cmd'.code) /\ ~cmd'.sealed /\ sc' = sc
               /\ cmd'.code \notin {"ID", "CAP"}
            \/ /\ ~scNext /\ WantsSecureChannel /\ IsHandshake(cmd'.code) /\ ~cmd'.sealed
               /\ cmd'.code \notin {"ID", "CAP"} /\ sc' = "challenged"
            \/ /\ ~scNext /\ ~WantsSecureChannel /\ ~IsHandshake(cmd'.code) /\ sc' = sc
               /\ cmd'.sealed <=> sc = "active"
               /\ cmd'.code \in {"ID", "CAP"} => status \in {"offline", "identifying"}
         /\ \/ /\ announced' = TRUE /\ status' = "offline" /\ told' = "offline"
               /\ infoKnown' = FALSE /\ capsKnown' = FALSE
            \/ /\ status' = IF ~scNext /\ WantsSecureChannel THEN "securing" ELSE status
               /\ resetSeq' = FALSE
               /\ UNCHANGED <<announced, told, infoKnown, capsKnown>>
<1>1. phase = "idle" /\ seq' = NextSeq /\ UNCHANGED <<config, failures, pdReply, pdSeq>>
  BY DEF Slot, pdVars
<1>2. \/ /\ announced' = TRUE /\ status' = "offline" /\ told' = "offline"
         /\ infoKnown' = FALSE /\ capsKnown' = FALSE
      \/ /\ status' = IF ~scNext /\ WantsSecureChannel THEN "securing" ELSE status
         /\ resetSeq' = FALSE
         /\ UNCHANGED <<announced, told, infoKnown, capsKnown>>
  BY DEF Slot, identity
<1>3. CASE Handshake
  BY <1>1, <1>2, <1>3 DEF Handshake, Write, IsHandshake
<1>4. CASE Ordinary
  <2>1. PICK code \in NextCommands : Write(code, sc = "active")
    BY <1>4 DEF Ordinary
  <2>2. ~IsHandshake(code) /\ (code \in {"ID", "CAP"} => status \in {"offline", "identifying"})
    BY <2>1 DEF NextCommands, IsHandshake
  <2> QED BY <1>1, <1>2, <1>4, <2>1, <2>2 DEF Ordinary, Write
<1> QED
  BY <1>3, <1>4 DEF Slot

\* How handling an answer ends.  The session is lost, a failure is counted, the
\* reader is asked again, or the answer is used; or the panel stops.
Loses(r) ==
  /\ SecureChannelLost
  /\ \/ Unseals /\ ~Genuine(r) /\ UNCHANGED <<failures, resetSeq>>
     \/ sc # "none" /\ r.code \in {"NAK", "NAKSEQ", "CCRYPT", "RMACI"}

Counts(r) ==
  /\ \E n \in 0..OfflineAfter : Fail(n)
  /\ r.code \in {"NAK", "NAKSEQ"} \/ Fail(failures)

Repeats(r) ==
  /\ UNCHANGED <<status, told, announced, infoKnown, capsKnown, sc, scNext>>
  /\ r.code \in {"BUSY", "NAK", "NAKSEQ"}

\* Whatever the answer, handling it ends in a panic, or ends the transaction in one
\* of four ways: the session is lost, a failure is counted, the frame is to be sent
\* again, or the answer is usable.
LEMMA HandleKinds ==
  ASSUME TypeInv, SlotInv, phase # "idle", NEW r, Handle(r)
  PROVE  /\ UNCHANGED <<config, seq, pdReply, pdSeq>>
         /\ \/ phase' = "idle" /\ (Loses(r) \/ Counts(r) \/ Repeats(r) \/ Usable(r))
            \/ /\ phase' = "panicked" /\ sc = "none"
               /\ UNCHANGED <<cmd, status, told, announced, infoKnown, capsKnown, sc, scNext,
                              resetSeq, failures>>
<1>0. failures \in 0..OfflineAfter /\ 0 \in 0..OfflineAfter
  BY BusConstants DEF TypeInv, BusTypeOK
<1>1. ASSUME NEW result, Complete(result)
      PROVE  phase' = "idle" /\ UNCHANGED <<config, seq, pdReply, pdSeq>>
  BY <1>1 DEF Complete, pdVars
<1>2. CASE Broken(r)
  BY <1>1, <1>2 DEF Broken, Loses
<1>3. CASE WrongSequence(r)
  BY <1>0, <1>1, <1>3 DEF WrongSequence, Counts
<1>4. CASE AskAgain(r)
  BY <1>1, <1>4 DEF AskAgain, Repeats, identity, session
<1>5. CASE HandshakeRefused(r)
  BY <1>1, <1>5 DEF HandshakeRefused, IsNak, Loses, SlotInv, ShakesHands
<1>6. CASE CommandRefused(r)
  <2>1. CASE pending # Nothing
    BY <1>1, <1>6, <2>1 DEF CommandRefused, IsNak, Repeats, identity, session
  <2>2. CASE pending = Nothing
    BY <1>0, <1>1, <1>6, <2>2 DEF CommandRefused, IsNak, Counts
  <2> QED BY <2>1, <2>2
<1>7. CASE Panics(r)
  BY <1>7 DEF Panics, pdVars, cpVars, session, identity
<1>8. CASE HandshakeBroken(r)
  BY <1>1, <1>8 DEF HandshakeBroken, HandshakeStep, Loses
<1>9. CASE Usable(r)
  BY <1>1, <1>9 DEF Usable
<1> QED
  BY <1>2, <1>3, <1>4, <1>5, <1>6, <1>7, <1>8, <1>9 DEF Handle

\* A session that is lost: what the panel does with the reader.
LEMMA LostSession ==
  ASSUME TypeInv, SlotInv, phase # "idle", NEW r, Loses(r)
  PROVE  /\ sc # "none" /\ HasKey /\ ~scNext' /\ UNCHANGED <<infoKnown, capsKnown>>
         /\ RequireSC => /\ sc' = "none" /\ status' = "offline" /\ announced'
                         /\ told' = IF announced THEN told ELSE "offline"
         /\ ~RequireSC =>
              /\ sc' = "failed" /\ announced' = announced
              /\ status' = IF status \in {"securing", "online"} THEN "online" ELSE status
              /\ told' = IF status \in {"securing", "online"} THEN "clear" ELSE told
<1>1. sc # "none"
  BY DEF Loses, Unseals
<1>2. HasKey
  BY <1>1 DEF SlotInv, ShakesHands
<1>3. SecureChannelLost
  BY DEF Loses
<1>5. CASE RequireSC
  BY <1>1, <1>2, <1>3, <1>5 DEF SecureChannelLost, identity
<1>6. CASE ~RequireSC
  BY <1>1, <1>2, <1>3, <1>6 DEF SecureChannelLost, identity
<1> QED
  BY <1>5, <1>6

\* A failure that is counted: the reader goes offline, or nothing is said yet.
LEMMA CountedFailure ==
  ASSUME TypeInv, NEW n \in 0..OfflineAfter, Fail(n)
  PROVE  /\ failures' >= 1 /\ failures' \in Nat
         /\ \/ /\ announced' = TRUE /\ status' = "offline" /\ told' = "offline"
               /\ infoKnown' = FALSE /\ capsKnown' = FALSE /\ sc' = "none" /\ scNext' = FALSE
            \/ /\ UNCHANGED <<announced, status, told, infoKnown, capsKnown, sc, scNext>>
               /\ ~announced => n + 1 < OfflineAfter /\ failures' = n + 1
<1>1. failures' = IF n < OfflineAfter THEN n + 1 ELSE n
  BY DEF Fail
<1>2. OfflineAfter \in Nat \ {0}
  BY BusConstants
<1>3. CASE n + 1 >= OfflineAfter /\ ~announced
  <2>1. /\ announced' = TRUE /\ status' = "offline" /\ told' = "offline"
        /\ infoKnown' = FALSE /\ capsKnown' = FALSE /\ sc' = "none" /\ scNext' = FALSE
    BY <1>3, Zenon DEF Fail
  <2>2. failures' >= 1 /\ failures' \in Nat
    BY <1>1, <1>2
  <2> QED BY <2>1, <2>2
<1>4. CASE ~(n + 1 >= OfflineAfter /\ ~announced)
  BY <1>1, <1>2, <1>4 DEF Fail, identity, session
<1> QED
  BY <1>3, <1>4

\* A usable answer.
LEMMA UsableSays ==
  ASSUME TypeInv, CardInv, SlotInv, phase # "idle", NEW r, Usable(r)
  PROVE  /\ ~announced' /\ UNCHANGED resetSeq
         /\ infoKnown' = (infoKnown \/ r.code = "PDID")
         /\ capsKnown' = (capsKnown \/ r.code = "PDCAP")
         /\ sc = "active" => r.fresh /\ ~scNext' /\ r.code \notin {"CCRYPT", "RMACI"}
         /\ \/ r.code = "PDID" /\ status' = "identifying" /\ UNCHANGED <<told, sc>>
            \/ r.code = "PDCAP" /\ HasKey /\ status' = "securing" /\ UNCHANGED <<told, sc>>
            \/ r.code = "PDCAP" /\ ~HasKey /\ status' = "online" /\ told' = "clear"
               /\ UNCHANGED sc
            \/ r.code = "RMACI" /\ status' = "online" /\ told' = "secure" /\ sc' = "active"
               /\ sc = "crypted" /\ r.fresh
            \/ r.code = "CCRYPT" /\ sc = "challenged" /\ sc' = "crypted" /\ r.fresh
               /\ UNCHANGED <<status, told>>
            \/ r.code \notin {"PDID", "PDCAP", "RMACI", "CCRYPT"}
               /\ UNCHANGED <<status, told, sc>>
         /\ scNext' => r.code = "CCRYPT"
<1>1. ~scNext
  BY DEF CardInv, HandshakesFirst
<1>2. sc = "active" => Unseals
  BY DEF Unseals, SlotInv, ShakesHands
<1>3. sc = "active" => r.fresh
  BY <1>2 DEF Usable, InStep, Opened, Genuine
<1>4. r.code \in {"CCRYPT", "RMACI"} =>
        r.fresh /\ ((r.code = "CCRYPT" /\ sc = "challenged") \/ (r.code = "RMACI" /\ sc = "crypted"))
  BY DEF Usable, HandshakeStep, Advances
<1>5. /\ status' = CASE r.code = "PDID" -> "identifying"
                     [] r.code = "PDCAP" -> IF HasKey THEN "securing" ELSE "online"
                     [] r.code = "RMACI" -> "online"
                     [] OTHER -> status
      /\ told' = CASE r.code = "PDCAP" /\ ~HasKey -> "clear"
                   [] r.code = "RMACI" -> "secure"
                   [] OTHER -> told
      /\ sc' = CASE r.code = "CCRYPT" -> "crypted"
                 [] r.code = "RMACI" -> "active"
                 [] OTHER -> sc
      /\ scNext' = (scNext \/ r.code = "CCRYPT")
      /\ announced' = FALSE /\ UNCHANGED resetSeq
      /\ infoKnown' = (infoKnown \/ r.code = "PDID")
      /\ capsKnown' = (capsKnown \/ r.code = "PDCAP")
  BY DEF Usable
<1>6. CASE r.code = "PDID"
  BY <1>1, <1>3, <1>5, <1>6
<1>7. CASE r.code = "PDCAP"
  BY <1>1, <1>3, <1>5, <1>7
<1>8. CASE r.code = "RMACI"
  BY <1>1, <1>3, <1>4, <1>5, <1>8
<1>9. CASE r.code = "CCRYPT"
  BY <1>1, <1>3, <1>4, <1>5, <1>9
<1>10. CASE r.code \notin {"PDID", "PDCAP", "RMACI", "CCRYPT"}
  BY <1>1, <1>3, <1>5, <1>10
<1> QED
  BY <1>6, <1>7, <1>8, <1>9, <1>10

\* Handling an answer keeps the slot's invariant.
LEMMA HandleKeepsSlot ==
  ASSUME TypeInv, CardInv, SlotInv, phase # "idle", NEW r, Handle(r)
  PROVE  SlotInv'
<1>1. config' = config
  BY HandleKinds
<1>2. CASE phase' = "panicked" /\ UNCHANGED <<cmd, status, sc, scNext, resetSeq>>
  BY <1>1, <1>2, HandleKinds DEF SlotInv, ShakesHands, Identifies, AnswersMatch, Numbered,
                                 HasKey, RequireSC
<1>3. ASSUME phase' = "idle", scNext' => sc' = "crypted", ~HasKey => sc' = "none",
             sc' = "failed" => ~RequireSC
      PROVE  SlotInv'
  BY <1>1, <1>3 DEF SlotInv, ShakesHands, Identifies, AnswersMatch, Numbered, HasKey,
                    RequireSC
<1>4. CASE phase' = "idle" /\ Loses(r)
  BY <1>3, <1>4, LostSession
<1>5. CASE phase' = "idle" /\ Counts(r)
  <2>1. (sc' = "none" /\ scNext' = FALSE) \/ UNCHANGED <<sc, scNext>>
    BY <1>5, CountedFailure DEF Counts
  <2> QED BY <1>3, <1>5, <2>1 DEF SlotInv, ShakesHands
<1>6. CASE phase' = "idle" /\ Repeats(r)
  BY <1>3, <1>6 DEF Repeats, SlotInv, ShakesHands
<1>7. CASE phase' = "idle" /\ Usable(r)
  BY <1>3, <1>7, UsableSays DEF SlotInv, ShakesHands
<1> QED
  BY <1>2, <1>4, <1>5, <1>6, <1>7, HandleKinds

\* Every step of the panel and of the reader keeps the slot's invariant.
LEMMA SlotInvStep ==
  ASSUME TypeInv, CardInv, SlotInv, [BusNext]_busVars
  PROVE  SlotInv'
<1>1. ASSUME NEW r \in Requests, Send(r) PROVE SlotInv'
  BY <1>1 DEF Send, wire, pdVars, session, SlotInv, ShakesHands, Identifies, AnswersMatch,
              Numbered, HasKey, RequireSC
<1>2. CASE Slot
  <2>1. ShakesHands'
    BY <1>2, SlotBegins DEF SlotInv, ShakesHands, HasKey, RequireSC, WantsSecureChannel
  <2>2. Identifies'
    BY <1>2, SlotBegins DEF Identifies
  <2>3. AnswersMatch' /\ Numbered'
    BY <1>2, SlotBegins DEF AnswersMatch, Numbered
  <2> QED BY <2>1, <2>2, <2>3 DEF SlotInv
<1>3. CASE Timeout
  <2>1. /\ phase' = "idle" /\ config' = config
        /\ (sc' = "none" /\ scNext' = FALSE) \/ UNCHANGED <<sc, scNext>>
    <3>1. Fail(failures) /\ failures \in 0..OfflineAfter
      BY <1>3 DEF Timeout, TypeInv, BusTypeOK
    <3>2. phase' = "idle" /\ config' = config
      BY <1>3 DEF Timeout, Complete
    <3> QED BY <3>1, <3>2, CountedFailure
  <2> QED BY <2>1 DEF SlotInv, ShakesHands, Identifies, AnswersMatch, Numbered, HasKey,
                      RequireSC
<1>4. CASE Receive \/ ReceiveLate
  BY <1>4, HandleKeepsSlot DEF Receive, ReceiveLate
<1>5. CASE ReaderStep
  <2>1. ShakesHands' /\ Identifies' /\ Numbered'
    BY <1>5, ReaderLeaves DEF SlotInv, ShakesHands, Identifies, Numbered, HasKey, RequireSC
  <2>2. AnswersMatch'
    BY <1>5, ReaderLeaves, ReaderAnswers DEF AnswersMatch
  <2> QED BY <2>1, <2>2 DEF SlotInv
<1>6. CASE UNCHANGED busVars
  BY <1>6 DEF busVars, wire, pdVars, cpVars, session, SlotInv, ShakesHands, Identifies,
              AnswersMatch, Numbered, HasKey, RequireSC
<1> QED
  BY <1>1, <1>2, <1>3, <1>4, <1>5, <1>6 DEF BusNext, BusStep

(***************************************************************************)
(* The announcements.  A reader that was announced is in service, in the   *)
(* session it was announced with, and one whose failure was reported is    *)
(* not announced.                                                          *)
(***************************************************************************)
Announcements ==
  /\ told # "offline" <=> status = "online"
  /\ told = "secure" => sc = "active"
  /\ told = "clear" /\ HasKey => sc = "failed"
  /\ announced => told = "offline"

\* The announcements are kept by any step that does not take the answer of a
\* reader in service for one about its identity.
LEMMA AnnouncementsStep ==
  ASSUME TypeInv, CardInv, SlotInv, Announcements, [BusNext]_busVars,
         ~RequireSC /\ announced => status = "offline",
         \A r : /\ Usable(r) /\ phase # "idle" /\ status = "online"
                /\ (r = rx /\ phase = "answered") \/ (r = late /\ late # Nothing)
                => r.code # "PDID" /\ (HasKey => r.code # "PDCAP")
  PROVE  Announcements'
<1>0. config' = config
  BY DEF BusNext, BusStep, Send, Slot, Timeout, Receive, ReceiveLate, Handle, Broken,
         WrongSequence, AskAgain, HandshakeRefused, CommandRefused, Panics, HandshakeBroken,
         Usable, Complete, ReaderStep, cpVars, busVars
<1>1. ASSUME UNCHANGED <<status, told, sc, announced>> PROVE Announcements'
  BY <1>0, <1>1 DEF Announcements, HasKey
<1>2. ASSUME NEW r \in Requests, Send(r) PROVE Announcements'
  BY <1>1, <1>2 DEF Send, session
<1>3. CASE Slot
  <2>1. CASE announced' = TRUE /\ status' = "offline" /\ told' = "offline"
    BY <2>1 DEF Announcements
  <2>2. CASE /\ status' = IF ~scNext /\ WantsSecureChannel THEN "securing" ELSE status
             /\ UNCHANGED <<announced, told>>
    <3>1. CASE ~scNext /\ WantsSecureChannel
      <4>1. told = "offline"
        BY <3>1 DEF WantsSecureChannel, Announcements, TypeInv, BusTypeOK
      <4> QED BY <2>2, <3>1, <4>1 DEF Announcements
    <3>2. CASE ~(~scNext /\ WantsSecureChannel)
      BY <1>1, <1>3, <2>2, <3>2, SlotBegins
    <3> QED BY <3>1, <3>2
  <2> QED BY <1>3, <2>1, <2>2, SlotBegins
<1>4. ASSUME NEW n \in 0..OfflineAfter, Fail(n) PROVE Announcements'
  <2>1. CASE announced' = TRUE /\ status' = "offline" /\ told' = "offline"
    BY <2>1 DEF Announcements
  <2>2. CASE UNCHANGED <<announced, status, told, sc>>
    BY <1>1, <2>2
  <2> QED BY <1>4, <2>1, <2>2, CountedFailure
<1>5. CASE Timeout
  BY <1>4, <1>5 DEF Timeout, TypeInv, BusTypeOK
<1>6. ASSUME NEW r, Handle(r), phase # "idle",
             (r = rx /\ phase = "answered") \/ (r = late /\ late # Nothing)
      PROVE  Announcements'
  <2>1. CASE Loses(r)
    <3>1. CASE RequireSC
      BY <1>0, <1>6, <2>1, <3>1, LostSession DEF Announcements
    <3>2. CASE ~RequireSC
      BY <1>0, <1>6, <2>1, <3>2, LostSession DEF Announcements
    <3> QED BY <3>1, <3>2
  <2>2. CASE Counts(r)
    BY <1>4, <2>2 DEF Counts
  <2>3. CASE Repeats(r)
    BY <1>1, <2>3 DEF Repeats
  <2>4. CASE Usable(r)
    <3>1. /\ ~announced'
          /\ \/ r.code = "PDID" /\ status' = "identifying" /\ UNCHANGED <<told, sc>>
             \/ r.code = "PDCAP" /\ HasKey /\ status' = "securing" /\ UNCHANGED <<told, sc>>
             \/ r.code = "PDCAP" /\ ~HasKey /\ status' = "online" /\ told' = "clear"
                /\ UNCHANGED sc
             \/ status' = "online" /\ told' = "secure" /\ sc' = "active"
             \/ sc = "challenged" /\ sc' = "crypted" /\ UNCHANGED <<status, told>>
             \/ UNCHANGED <<status, told, sc>>
      BY <1>6, <2>4, UsableSays
    <3>2. status = "online" => r.code # "PDID" /\ (HasKey => r.code # "PDCAP")
      BY <1>6, <2>4
    <3>3. sc = "challenged" => HasKey
      BY DEF SlotInv, ShakesHands
    <3>4. told \in {"offline", "clear", "secure"}
      BY DEF TypeInv, BusTypeOK
    <3> QED BY <1>0, <3>1, <3>2, <3>3, <3>4 DEF Announcements, HasKey
  <2>5. CASE UNCHANGED <<status, told, announced, sc>>
    BY <1>1, <2>5
  <2> QED BY <1>6, <2>1, <2>2, <2>3, <2>4, <2>5, HandleKinds
<1>7. CASE Receive \/ ReceiveLate
  BY <1>6, <1>7 DEF Receive, ReceiveLate
<1>8. CASE ReaderStep
  BY <1>1, <1>8, ReaderLeaves
<1>9. CASE UNCHANGED busVars
  BY <1>1, <1>9 DEF busVars, cpVars, session
<1> QED
  BY <1>2, <1>3, <1>5, <1>7, <1>8, <1>9 DEF BusNext, BusStep

\* A fresh answer about the identity of a reader answers the question, and that
\* is not put to a reader in service.
LEMMA FreshIdentity ==
  ASSUME SlotInv, phase = "answered", rx.fresh, rx.code \in {"PDID", "PDCAP"}
  PROVE  status \in {"offline", "identifying"}
  BY DEF SlotInv, AnswersMatch, Identifies

\* In a session only a fresh answer is used.
LEMMA SessionAnswers ==
  ASSUME TypeInv, CardInv, SlotInv, phase # "idle", sc = "active", NEW r, Usable(r),
         (r = rx /\ phase = "answered") \/ (r = late /\ late # Nothing)
  PROVE  r = rx /\ phase = "answered" /\ rx.fresh
<1>1. r.fresh
  BY UsableSays
<1>2. late # Nothing => late.fresh = FALSE
  BY DEF CardInv, OldAnswers
<1> QED
  BY <1>1, <1>2

(***************************************************************************)
(* A reader that need not be encrypted, on a wire without late replies.    *)
(* It is only at risk from the repetition of a PDID or a PDCAP, which the  *)
(* reader makes when a sequence number comes round: after two commands     *)
(* that it did not get.  NoIdentity rules out the PDID.  A PDCAP can be    *)
(* the last answer of a reader in service in one way: it was asked for in  *)
(* a session that supervision had given up, and its repetition has then    *)
(* broken that session.  One failure at least was counted before that      *)
(* (Counted), and two more bring the third, so that the reader is offline  *)
(* before the PDCAP could come a second time (ComesRound).                 *)
(***************************************************************************)
LastIsCap == pdReply # Nothing /\ pdReply.code = "PDCAP"

NoIdentity ==
  /\ announced => status = "offline" /\ ~capsKnown
  /\ capsKnown => status \in {"securing", "online"}
  /\ status \in {"securing", "online"} /\ pdReply # Nothing => pdReply.code # "PDID"
  /\ sc = "active" /\ status = "online" => ~LastIsCap

Counted ==
  sc = "active" /\ status = "securing" /\ LastIsCap =>
    \/ failures >= 1
    \/ phase = "idle" /\ seq = pdSeq
    \/ phase = "sent" /\ (cmd.seq = 0 \/ cmd.seq # pdSeq)
    \/ phase = "silent"

ComesRound ==
  sc = "failed" /\ status = "online" /\ LastIsCap =>
    /\ pdSeq \in 1..3 /\ ~resetSeq /\ phase \in {"idle", "sent", "silent"}
    /\ phase = "idle" => \/ seq = pdSeq /\ failures >= 1
                         \/ seq = NextSequence(pdSeq) /\ failures >= 2
    /\ phase # "idle" => \/ seq = NextSequence(pdSeq) /\ failures >= 1
                         \/ seq = NextSequence(NextSequence(pdSeq)) /\ failures >= 2

\* No reply comes after its slot, and three failures take a reader offline, as
\* Options.Defaults has it, or fewer.
Prompt == MaxLate = 0 /\ OfflineAfter <= 3

OpenInv == late = Nothing /\ NoIdentity /\ Counted /\ ComesRound

\* Without late replies none is ever under way.
LEMMA NoneIsLate ==
  ASSUME TypeInv, Prompt, late = Nothing, [BusNext]_busVars
  PROVE  late' = Nothing /\ ~ReceiveLate
<1>1. lates = 0
  BY DEF Prompt, TypeInv, BusTypeOK, ReaderTypeOK
<1>2. ~DelayReply /\ ~ReceiveLate
  BY <1>1 DEF DelayReply, ReceiveLate, Prompt
<1> QED
  BY <1>2 DEF BusNext, BusStep, Send, Slot, Timeout, Receive, ReaderStep, PDHandle, Replay,
              Unsealable, NoSession, OutOfSequence, Serve, ServeChallenge, ServeSCrypt,
              ReaderFault, Busy, Refuse, LoseCommand, LoseReply, DropSession, PowerCycle,
              PresentCard, Answer, Silence, wire, busVars

\* Such a reader, in service, never has an answer taken for its identity.
LEMMA OpenAnswers ==
  ASSUME TypeInv, CardInv, SlotInv, Announcements, OpenInv, NEW r, Usable(r),
         phase = "answered", r = rx, status = "online"
  PROVE  r.code # "PDID" /\ (HasKey => r.code # "PDCAP")
<1>1. CASE rx.fresh
  BY <1>1, FreshIdentity
<1>2. CASE ~rx.fresh
  <2>1. rx.code = pdReply.code /\ pdSeq = cmd.seq /\ cmd.seq # 0
    BY <1>2 DEF SlotInv, AnswersMatch
  <2>2. rx.code \in Replies /\ (pdReply = Nothing \/ IsFrame(pdReply))
    BY DEF TypeInv, InSlot, Frames, CardInv, OldAnswers
  <2>3. sc # "active"
    BY <1>2, SessionAnswers
  <2>4. HasKey => sc = "failed"
    BY <2>3 DEF Announcements, TypeInv, BusTypeOK
  <2>5. pdReply # Nothing
    BY DEF SlotInv, AnswersMatch
  <2> QED BY <2>1, <2>4, <2>5 DEF OpenInv, NoIdentity, ComesRound, LastIsCap
<1> QED
  BY <1>1, <1>2

\* Two successors on, a sequence number has not come round.
LEMMA TwoOn ==
  ASSUME NEW s \in 1..3
  PROVE  /\ NextSequence(s) # s /\ NextSequence(NextSequence(s)) # s
         /\ NextSequence(s) # 0 /\ NextSequence(NextSequence(s)) # 0
  BY DEF NextSequence

\* The reader's part: it repeats its last answer, gives a fresh one that is no
\* PDCAP unless it was asked, or is silent.
LEMMA ReaderKeepsOpen ==
  ASSUME TypeInv, CardInv, SlotInv, NoIdentity, Counted, ComesRound, ReaderStep
  PROVE  NoIdentity' /\ Counted' /\ ComesRound'
<1> USE ReaderLeaves
<1>1. CASE /\ phase = "sent" /\ phase' = "answered"
           /\ pdReply # Nothing /\ pdReply' = pdReply
           /\ pdSeq = cmd.seq /\ cmd.seq # 0 /\ pdSeq' = pdSeq
  <2>1. NoIdentity'
    BY <1>1 DEF NoIdentity, LastIsCap
  <2>2. Counted'
    BY <1>1 DEF Counted, LastIsCap
  <2>3. ~(sc = "failed" /\ status = "online" /\ LastIsCap)
    BY <1>1, TwoOn DEF ComesRound, SlotInv, Numbered
  <2>4. ComesRound'
    BY <1>1, <2>3 DEF ComesRound, LastIsCap
  <2> QED BY <2>1, <2>2, <2>4
<1>2. CASE /\ phase = "sent" /\ phase' = "answered" /\ pdReply' = rx'
           /\ rx'.code = "PDID" => cmd.code = "ID"
           /\ rx'.code = "PDCAP" => cmd.code = "CAP"
  <2>1. rx'.code \in {"PDID", "PDCAP"} => status \in {"offline", "identifying"}
    BY <1>2 DEF SlotInv, Identifies
  <2>2. status \in {"securing", "online"} => pdReply'.code # "PDID" /\ ~LastIsCap'
    BY <1>2, <2>1 DEF LastIsCap
  <2> QED BY <2>2 DEF NoIdentity, Counted, ComesRound
<1>3. CASE /\ phase \in {"sent", "answered"} /\ phase' = "silent"
           /\ UNCHANGED <<pdReply, pdSeq>>
  BY <1>3 DEF NoIdentity, Counted, ComesRound, LastIsCap
<1>4. CASE phase' = phase /\ phase = "idle" /\ UNCHANGED <<pdReply, pdSeq>>
  BY <1>4 DEF NoIdentity, Counted, ComesRound, LastIsCap
<1>5. CASE pdReply' = Nothing
  BY <1>5 DEF NoIdentity, Counted, ComesRound, LastIsCap
<1> QED
  BY <1>1, <1>2, <1>3, <1>4, <1>5, ReaderAnswers

\* A slot moves the sequence number on.
LEMMA SlotKeepsOpen ==
  ASSUME TypeInv, CardInv, SlotInv, NoIdentity, Counted, ComesRound, Slot
  PROVE  NoIdentity' /\ Counted' /\ ComesRound'
<1> USE SlotBegins
<1>1. CASE announced' = TRUE /\ status' = "offline" /\ capsKnown' = FALSE
  BY <1>1 DEF NoIdentity, Counted, ComesRound
<1>2. CASE /\ status' = IF ~scNext /\ WantsSecureChannel THEN "securing" ELSE status
           /\ resetSeq' = FALSE
           /\ UNCHANGED <<announced, told, infoKnown, capsKnown>>
  <2>1. NoIdentity'
    BY <1>2 DEF NoIdentity, LastIsCap, WantsSecureChannel
  <2>2. ASSUME sc' \in {"active", "failed"} PROVE sc' = sc /\ status' = status
    BY <1>2, <2>2 DEF SlotInv, ShakesHands
  <2>3. Counted'
    <3>1. seq \in 0..3 => NextSeq = 0 \/ NextSeq # seq
      BY DEF NextSeq, NextSequence
    <3> QED BY <1>2, <2>2, <3>1 DEF Counted, LastIsCap, TypeInv, BusTypeOK
  <2>4. ComesRound'
    <3> SUFFICES ASSUME sc' = "failed", status' = "online", LastIsCap'
                 PROVE  /\ pdSeq \in 1..3
                        /\ \/ seq' = NextSequence(pdSeq) /\ failures >= 1
                           \/ seq' = NextSequence(NextSequence(pdSeq)) /\ failures >= 2
      BY <1>2 DEF ComesRound
    <3>1. sc = "failed" /\ status = "online" /\ LastIsCap
      BY <2>2 DEF LastIsCap
    <3>2. seq' = NextSequence(seq)
      BY <3>1 DEF NextSeq, ComesRound
    <3> QED BY <3>1, <3>2 DEF ComesRound
  <2> QED BY <2>1, <2>3, <2>4
<1> QED
  BY <1>1, <1>2

\* A silent slot counts a failure.
LEMMA TimeoutKeepsOpen ==
  ASSUME TypeInv, SlotInv, NoIdentity, Counted, ComesRound, Prompt, Timeout
  PROVE  NoIdentity' /\ Counted' /\ ComesRound'
<1>1. /\ phase = "silent" /\ phase' = "idle" /\ UNCHANGED <<seq, pdReply, pdSeq>>
      /\ Fail(failures) /\ failures \in 0..OfflineAfter
      /\ announced' = announced => resetSeq' = resetSeq
  BY DEF Timeout, Complete, pdVars, TypeInv, BusTypeOK
<1>2. CASE announced' = TRUE /\ status' = "offline" /\ capsKnown' = FALSE
  BY <1>2 DEF NoIdentity, Counted, ComesRound
<1>3. CASE /\ UNCHANGED <<announced, status, told, infoKnown, capsKnown, sc, scNext>>
           /\ failures' >= 1
           /\ ~announced => failures + 1 < OfflineAfter /\ failures' = failures + 1
  <2>1. NoIdentity' /\ Counted'
    BY <1>1, <1>3 DEF NoIdentity, Counted, LastIsCap
  <2>2. ASSUME sc' = "failed", status' = "online", LastIsCap'
        PROVE  /\ pdSeq \in 1..3 /\ ~resetSeq
               /\ seq = NextSequence(pdSeq) /\ failures' >= 2
    <3>1. sc = "failed" /\ status = "online" /\ LastIsCap /\ ~announced
      BY <1>1, <1>3, <2>2 DEF LastIsCap, NoIdentity
    <3>2. failures < 2 /\ failures' = failures + 1
      BY <1>1, <1>3, <3>1, BusConstants DEF Prompt
    <3>3. seq = NextSequence(pdSeq) /\ failures >= 1 /\ pdSeq \in 1..3 /\ ~resetSeq
      BY <1>1, <3>1, <3>2 DEF ComesRound
    <3> QED BY <1>1, <3>2, <3>3
  <2>3. ComesRound'
    BY <1>1, <1>3, <2>2 DEF ComesRound
  <2> QED BY <2>1, <2>3
<1> QED
  BY <1>1, <1>2, <1>3, CountedFailure

\* An answer that is handled: the PDCAP that breaks a session has come round.
LEMMA ReceiveKeepsOpen ==
  ASSUME TypeInv, CardInv, SlotInv, ~RequireSC, NoIdentity, Counted, ComesRound,
         phase = "answered", Handle(rx)
  PROVE  NoIdentity' /\ Counted' /\ ComesRound'
<1>0. /\ UNCHANGED <<config, seq, pdReply, pdSeq>>
      /\ \/ phase' = "idle" /\ (Loses(rx) \/ Counts(rx) \/ Repeats(rx) \/ Usable(rx))
         \/ /\ phase' = "panicked" /\ sc = "none"
            /\ UNCHANGED <<cmd, status, told, announced, infoKnown, capsKnown, sc, scNext,
                           resetSeq, failures>>
  BY HandleKinds
<1>1. pdReply # Nothing /\ rx.code = pdReply.code /\ pdSeq = cmd.seq /\ cmd.seq = seq
  BY DEF SlotInv, AnswersMatch, Numbered
<1>2. ~(sc = "failed" /\ status = "online" /\ LastIsCap)
  BY DEF ComesRound
<1>3. CASE phase' = "idle" /\ Loses(rx)
  <2>1. /\ sc' = "failed" /\ announced' = announced /\ capsKnown' = capsKnown
        /\ status' = IF status \in {"securing", "online"} THEN "online" ELSE status
    BY <1>3, LostSession
  <2>2. NoIdentity' /\ Counted'
    BY <1>0, <2>1 DEF NoIdentity, Counted, LastIsCap
  <2>3. ASSUME status' = "online", LastIsCap'
        PROVE  /\ pdSeq \in 1..3 /\ ~resetSeq' /\ failures' >= 1
    <3>1. rx.code = "PDCAP" /\ LastIsCap /\ status \in {"securing", "online"}
      BY <1>0, <1>1, <2>1, <2>3 DEF LastIsCap
    <3>2. Unseals /\ ~Genuine(rx) /\ UNCHANGED <<failures, resetSeq>>
      BY <1>3, <3>1 DEF Loses
    <3>3. cmd.sealed /\ sc = "active"
      BY <3>2 DEF Unseals, SlotInv, ShakesHands
    <3>4. ~rx.fresh /\ cmd.seq # 0
      BY <3>1, <3>2, <3>3 DEF Genuine, SlotInv, AnswersMatch
    <3>5. status = "securing"
      BY <3>1, <3>3 DEF NoIdentity
    <3>6. failures >= 1 /\ ~resetSeq
      BY <3>1, <3>3, <3>5 DEF Counted, SlotInv, Numbered
    <3>7. seq \in 0..3
      BY DEF TypeInv, BusTypeOK
    <3> QED BY <1>1, <3>2, <3>4, <3>6, <3>7
  <2>4. ComesRound'
    BY <1>0, <1>1, <1>3, <2>3 DEF ComesRound
  <2> QED BY <2>2, <2>4
<1>4. CASE phase' = "idle" /\ Counts(rx)
  <2>1. \/ announced' = TRUE /\ status' = "offline" /\ capsKnown' = FALSE
        \/ UNCHANGED <<announced, status, capsKnown, sc>> /\ failures' >= 1
    BY <1>4, CountedFailure DEF Counts
  <2> QED BY <1>0, <1>2, <2>1 DEF NoIdentity, Counted, ComesRound, LastIsCap
<1>5. CASE phase' = "idle" /\ Repeats(rx)
  <2>1. ~LastIsCap
    BY <1>1, <1>5 DEF Repeats, LastIsCap
  <2> QED BY <1>0, <1>5, <2>1 DEF Repeats, NoIdentity, Counted, ComesRound, LastIsCap
<1>6. CASE phase' = "idle" /\ Usable(rx)
  <2>1. rx.code = "PDID" => ~capsKnown
    <3>1. CASE rx.fresh
      BY <3>1, FreshIdentity DEF NoIdentity
    <3>2. CASE ~rx.fresh
      BY <1>1 DEF NoIdentity, TypeInv, BusTypeOK
    <3> QED BY <3>1, <3>2
  <2>2. /\ ~announced' /\ capsKnown' = (capsKnown \/ rx.code = "PDCAP")
        /\ sc = "active" => rx.fresh
        /\ \/ rx.code = "PDID" /\ status' = "identifying" /\ sc' = sc
           \/ rx.code = "PDCAP" /\ HasKey /\ status' = "securing" /\ sc' = sc
           \/ rx.code = "PDCAP" /\ ~HasKey /\ status' = "online" /\ sc' = sc
           \/ rx.code = "RMACI" /\ status' = "online" /\ sc' = "active"
           \/ rx.code = "CCRYPT" /\ sc' = "crypted" /\ status' = status
           \/ rx.code \notin {"PDID", "PDCAP", "RMACI", "CCRYPT"} /\ UNCHANGED <<status, sc>>
    BY <1>6, UsableSays
  <2>3. ~HasKey => sc = "none"
    BY DEF SlotInv, ShakesHands
  <2>4. NoIdentity'
    BY <1>0, <1>1, <2>1, <2>2, <2>3 DEF NoIdentity, LastIsCap
  <2>5. Counted'
    BY <1>0, <1>1, <1>6, <2>2, <2>3 DEF Counted, LastIsCap
  <2>6. ComesRound'
    BY <1>0, <1>1, <1>2, <2>2, <2>3 DEF ComesRound, LastIsCap
  <2> QED BY <2>4, <2>5, <2>6
<1>7. CASE /\ phase' = "panicked" /\ sc = "none"
           /\ UNCHANGED <<status, announced, capsKnown, sc>>
  BY <1>0, <1>7 DEF NoIdentity, Counted, ComesRound, LastIsCap
<1> QED
  BY <1>0, <1>3, <1>4, <1>5, <1>6, <1>7

\* Every step keeps what is known of such a reader.
LEMMA OpenStep ==
  ASSUME TypeInv, CardInv, SlotInv, ~RequireSC, Prompt, OpenInv, [BusNext]_busVars
  PROVE  OpenInv'
<1>1. late' = Nothing /\ ~ReceiveLate
  BY NoneIsLate DEF OpenInv
<1>2. ASSUME UNCHANGED <<status, seq, resetSeq, capsKnown, failures, announced, sc,
                         phase, cmd, pdReply, pdSeq>>
      PROVE  NoIdentity' /\ Counted' /\ ComesRound'
  BY <1>2 DEF OpenInv, NoIdentity, Counted, ComesRound, LastIsCap
<1>3. ASSUME NEW r \in Requests, Send(r) PROVE NoIdentity' /\ Counted' /\ ComesRound'
  BY <1>2, <1>3 DEF Send, wire, pdVars, session, identity
<1>4. ASSUME UNCHANGED busVars PROVE NoIdentity' /\ Counted' /\ ComesRound'
  BY <1>2, <1>4 DEF busVars, wire, pdVars, cpVars, session, identity
<1>5. NoIdentity' /\ Counted' /\ ComesRound'
  BY <1>1, <1>3, <1>4, SlotKeepsOpen, TimeoutKeepsOpen, ReceiveKeepsOpen, ReaderKeepsOpen
  DEF OpenInv, BusNext, BusStep, Receive
<1> QED
  BY <1>1, <1>5 DEF OpenInv

\* What is known of every reader, and of those that need not be encrypted.
TruthInv ==
  /\ TypeInv /\ CardInv /\ SlotInv
  /\ RequireSC \/ Prompt => Announcements
  /\ ~RequireSC /\ Prompt => OpenInv

\* Every step keeps it.
LEMMA TruthStep ==
  ASSUME TruthInv, [BusNext]_busVars
  PROVE  TruthInv'
<1>1. (TypeInv /\ CardInv /\ SlotInv)'
  BY TypeStep, CardStep, SlotInvStep DEF TruthInv
<1>2. RequireSC' = RequireSC
  BY DEF BusNext, BusStep, Send, Slot, Timeout, Receive, ReceiveLate, Handle, Broken,
         WrongSequence, AskAgain, HandshakeRefused, CommandRefused, Panics, HandshakeBroken,
         Usable, Complete, ReaderStep, cpVars, busVars, RequireSC
<1>3. ASSUME RequireSC PROVE Announcements'
  <2>1. Announcements /\ TypeInv /\ CardInv /\ SlotInv
    BY <1>3 DEF TruthInv
  <2>2. ASSUME NEW r, Usable(r), phase # "idle", status = "online",
               (r = rx /\ phase = "answered") \/ (r = late /\ late # Nothing)
        PROVE  r.code \notin {"PDID", "PDCAP"}
    <3>1. HasKey
      BY <1>3, <2>1, BusConstants DEF TypeInv, BusTypeOK, HasKey, RequireSC
    <3>2. sc = "active"
      BY <1>3, <2>1, <2>2, <3>1 DEF Announcements, SlotInv, ShakesHands, TypeInv, BusTypeOK
    <3> QED BY <2>1, <2>2, <3>2, SessionAnswers, FreshIdentity
  <2> QED BY <1>3, <2>1, <2>2, AnnouncementsStep
<1>4. ASSUME ~RequireSC, Prompt PROVE Announcements' /\ OpenInv'
  <2>1. Announcements /\ OpenInv /\ TypeInv /\ CardInv /\ SlotInv
    BY <1>4 DEF TruthInv
  <2>2. announced => status = "offline"
    BY <2>1 DEF OpenInv, NoIdentity
  <2>3. ASSUME NEW r, Usable(r), phase # "idle", status = "online",
               (r = rx /\ phase = "answered") \/ (r = late /\ late # Nothing)
        PROVE  r.code # "PDID" /\ (HasKey => r.code # "PDCAP")
    BY <2>1, <2>3, OpenAnswers DEF OpenInv
  <2> QED BY <1>4, <2>1, <2>2, <2>3, AnnouncementsStep, OpenStep
<1>5. (RequireSC \/ Prompt => Announcements') /\ (~RequireSC /\ Prompt => OpenInv')
  BY <1>3, <1>4
<1>6. Prompt' = Prompt
  BY DEF Prompt
<1> QED
  BY <1>1, <1>2, <1>5, <1>6 DEF TruthInv

\* The controller is told the truth about a reader that requires a session,
\* whatever the wire loses, repeats or delays and however many failures are
\* allowed; and about any reader if no reply comes after its slot and three
\* failures take it offline, which is what the code sets.
THEOREM TheControllerIsToldTheTruth ==
  ASSUME AllSecured \/ Prompt
  PROVE  BusSpec => []ToldTheTruth
<1>1. BusInit => TruthInv
  <2> SUFFICES ASSUME BusInit PROVE CardInv /\ SlotInv /\ Announcements /\ OpenInv
    BY TypeInit DEF TruthInv
  <2>1. CardInv
    BY DEF BusInit, ReaderInit, CardInv, HandshakesFirst, CardsAreSealed, OldAnswers
  <2>2. SlotInv /\ Announcements
    BY DEF BusInit, ReaderInit, SlotInv, ShakesHands, Identifies, AnswersMatch, Numbered,
           Announcements
  <2>3. OpenInv
    BY DEF BusInit, ReaderInit, OpenInv, NoIdentity, Counted, ComesRound, LastIsCap
  <2> QED BY <2>1, <2>2, <2>3
<1>2. TruthInv /\ [BusNext]_busVars => TruthInv'
  BY TruthStep
<1>3. TruthInv => ToldTheTruth
  <2> SUFFICES ASSUME TruthInv PROVE ToldTheTruth
    OBVIOUS
  <2>1. RequireSC \/ Prompt
    BY DEF TruthInv, TypeInv, BusTypeOK, AllSecured, RequireSC
  <2> QED BY <2>1 DEF TruthInv, Announcements, ToldTheTruth
<1> QED
  BY <1>1, <1>2, <1>3, PTL DEF BusSpec
===============================================================================
