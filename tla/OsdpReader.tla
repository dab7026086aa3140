----------------------------- MODULE OsdpReader -----------------------------
(***************************************************************************)
(* The peripheral end of one OSDP reader (infra/access/osdp/pd.go), and    *)
(* the half-duplex wire between it and the control panel (OsdpBus).        *)
(*                                                                         *)
(* The cryptography is abstracted to what its checks decide.  A sealed     *)
(* command verifies at the reader when both ends hold the session of the   *)
(* same handshake (paired) and the same chaining MAC (chained).  Sealing a *)
(* reply advances the reader's MAC; the panel's follows only when it gets  *)
(* that reply.  A sealed reply verifies at the panel only when it answers  *)
(* the command the panel sent last, which is what "fresh" records.         *)
(***************************************************************************)
EXTENDS Integers, Sequences

CONSTANTS
  Badges,       \* credentials that may be presented, each once: 1..n
  Requests,     \* Send calls an application may make
  MaxFaults,    \* bound: faults of the wire and the reader in a behaviour
  MaxLate,      \* bound: how many of them may be late replies
  Nothing       \* no frame, no request

ASSUME ReaderConstants ==
  Badges \subseteq Nat \ {0} /\ MaxFaults \in Nat /\ MaxLate \in Nat

VARIABLES
  phase,        \* "idle" | "sent" | "answered" | "silent" | "panicked"
  cmd,          \* the command on the wire in this slot
  rx,           \* the reader's answer in this slot, or Nothing
  late,         \* an answer still travelling after its slot, or Nothing
  faults, lates,        \* how many faults have happened
  pdSeq,        \* lastSeq, or NoSeq before the first command (haveSeq)
  pdReply,      \* lastRply: re-sent when a sequence number is repeated
  pdSc,         \* "none" | "challenged" | "active"
  pdQueue,      \* PD.pending: credentials waiting for a poll
  presented,    \* how many of Badges have been presented
  paired, chained,      \* see above
  executed      \* how often each request's OUT has driven the strike

wire == <<phase, cmd, rx, late>>
bounds == <<faults, lates>>
pdVars == <<pdSeq, pdReply, pdSc, pdQueue, presented, executed>>

NoSeq == -1
Codes == {"POLL", "STAT", "ID", "CAP", "OUT", "CHLNG", "SCRYPT"}
Replies == {"ACK", "STATR", "PDID", "PDCAP", "OSTATR", "RAW", "NAK", "NAKSEQ",
            "BUSY", "CCRYPT", "RMACI"}
IsHandshake(c) == c \in {"CHLNG", "SCRYPT"}

\* Mutant: the sequence number counts on instead of wrapping to 1.
NextSequenceUnwrapped(cur) == cur + 1

\* Zero starts a session and is never a successor.
NextSequence(cur) == IF cur = 3 THEN 1 ELSE cur + 1

\* The answer to the command on the wire.  Handshake replies carry their own
\* security block and go out unsealed; all others are sealed in a session.
Reply(code, badge, sealed) ==
  [code |-> code, seq |-> cmd.seq, badge |-> badge, sealed |-> sealed, fresh |-> TRUE]

ReaderInit ==
  /\ phase = "idle" /\ cmd = Nothing /\ rx = Nothing /\ late = Nothing
  /\ faults = 0 /\ lates = 0
  /\ pdSeq = NoSeq /\ pdReply = Nothing /\ pdSc = "none"
  /\ pdQueue = <<>> /\ presented = 0
  /\ paired = FALSE /\ chained = FALSE
  /\ executed = [r \in Requests |-> 0]

Fault == faults < MaxFaults /\ faults' = faults + 1

Answer(reply) ==
  /\ phase' = "answered"
  /\ rx' = reply
  /\ pdReply' = reply
  /\ UNCHANGED <<cmd, late, presented>>

Silence ==
  /\ phase' = "silent"
  /\ rx' = Nothing
  /\ UNCHANGED <<cmd, late, presented, pdReply>>
-----------------------------------------------------------------------------
(***************************************************************************)
(* Handle, up to the dispatch.                                             *)
(***************************************************************************)
\* A repeated sequence number is taken for a retransmission.
Repeated == cmd.seq # 0 /\ pdSeq = cmd.seq /\ pdReply # Nothing

Replay ==
  /\ phase = "sent" /\ Repeated
  /\ phase' = "answered"
  /\ rx' = [pdReply EXCEPT !.fresh = FALSE]
  /\ UNCHANGED <<cmd, late, bounds, pdVars, paired, chained>>

InSession == pdSc = "active" /\ ~IsHandshake(cmd.code)
Verifies == cmd.sealed /\ paired /\ chained

\* Cleartext or a wrong MAC in a session: tear it down and say nothing.
Unsealable ==
  /\ phase = "sent" /\ ~Repeated
  /\ InSession /\ ~Verifies
  /\ pdSc' = "none"
  /\ Silence
  /\ UNCHANGED <<bounds, pdSeq, pdQueue, executed, paired, chained>>

\* Session traffic with no session is refused in the clear.
NoSession ==
  /\ phase = "sent" /\ ~Repeated
  /\ pdSc # "active" /\ cmd.sealed
  /\ pdSeq' = cmd.seq
  /\ Answer(Reply("NAK", 0, FALSE))
  /\ UNCHANGED <<bounds, pdSc, pdQueue, executed, paired, chained>>

Accepted ==
  /\ phase = "sent" /\ ~Repeated
  /\ InSession => Verifies
  /\ pdSc # "active" => ~cmd.sealed

(***************************************************************************)
(* dispatch and command.  Sealing a reply advances the reader's MAC.       *)
(***************************************************************************)
InSequence == cmd.seq = 0 \/ pdSeq = NoSeq \/ cmd.seq = NextSequence(pdSeq)

Seals == chained' = (chained /\ pdSc # "active")

OutOfSequence ==
  /\ Accepted /\ ~InSequence
  /\ pdSeq' = cmd.seq
  /\ Answer(Reply("NAKSEQ", 0, pdSc = "active"))
  /\ Seals
  /\ UNCHANGED <<bounds, pdSc, pdQueue, executed, paired>>

\* Every command but the handshake's.
Serve ==
  /\ Accepted /\ InSequence /\ ~IsHandshake(cmd.code)
  /\ pdSeq' = cmd.seq
  /\ LET card == cmd.code = "POLL" /\ pdQueue # <<>>
         code == CASE card -> "RAW"
                   [] cmd.code = "POLL" /\ ~card -> "ACK"
                   [] cmd.code = "STAT" -> "STATR"
                   [] cmd.code = "ID" -> "PDID"
                   [] cmd.code = "CAP" -> "PDCAP"
                   [] cmd.code = "OUT" -> "OSTATR"
     IN  /\ Answer(Reply(code, IF card THEN Head(pdQueue) ELSE 0, pdSc = "active"))
         /\ pdQueue' = IF card THEN Tail(pdQueue) ELSE pdQueue
  /\ executed' = IF cmd.code = "OUT" THEN [executed EXCEPT ![cmd.req] = @ + 1]
                                     ELSE executed
  /\ Seals
  /\ UNCHANGED <<bounds, pdSc, paired>>

\* CHLNG answers with CCRYPT and replaces whatever session there was.
ServeChallenge ==
  /\ Accepted /\ InSequence /\ cmd.code = "CHLNG"
  /\ pdSeq' = cmd.seq
  /\ pdSc' = "challenged"
  /\ paired' = TRUE /\ chained' = FALSE
  /\ Answer(Reply("CCRYPT", 0, FALSE))
  /\ UNCHANGED <<bounds, pdQueue, executed>>

\* SCRYPT completes the session this reader was challenged for, or ends it.
ServeSCrypt ==
  /\ Accepted /\ InSequence /\ cmd.code = "SCRYPT"
  /\ pdSeq' = cmd.seq
  /\ LET proved == pdSc = "challenged" /\ paired
     IN  /\ pdSc' = IF proved THEN "active" ELSE "none"
         /\ Answer(Reply(IF proved THEN "RMACI" ELSE "NAK", 0, FALSE))
  /\ chained' = FALSE
  /\ UNCHANGED <<bounds, pdQueue, executed, paired>>

PDHandle ==
  \/ Replay \/ Unsealable \/ NoSession \/ OutOfSequence
  \/ Serve \/ ServeChallenge \/ ServeSCrypt
-----------------------------------------------------------------------------
(***************************************************************************)
(* The Faults of pd.go, a power cycle, and the wire's own.                 *)
(***************************************************************************)
Busy ==
  /\ Fault
  /\ Accepted /\ InSequence /\ cmd.seq # 0
  /\ pdSeq' = cmd.seq
  /\ Answer(Reply("BUSY", 0, pdSc = "active"))
  /\ Seals
  /\ UNCHANGED <<lates, pdSc, pdQueue, executed, paired>>

\* RefuseSecureChannel: the reader will not encrypt.
Refuse ==
  /\ Fault
  /\ Accepted /\ InSequence /\ IsHandshake(cmd.code)
  /\ pdSeq' = cmd.seq
  /\ Answer(Reply("NAK", 0, pdSc = "active"))
  /\ Seals
  /\ UNCHANGED <<lates, pdSc, pdQueue, executed, paired>>

\* The command never reaches the reader.
LoseCommand ==
  /\ Fault
  /\ phase = "sent"
  /\ Silence
  /\ UNCHANGED <<lates, pdSeq, pdSc, pdQueue, executed, paired, chained>>

\* The answer is lost, or fails its CRC, which the panel treats as silence.
LoseReply ==
  /\ Fault
  /\ phase = "answered"
  /\ Silence
  /\ UNCHANGED <<lates, pdSeq, pdSc, pdQueue, executed, paired, chained>>

\* The answer comes after the reply timeout.
DelayReply ==
  /\ Fault /\ lates < MaxLate /\ lates' = lates + 1
  /\ phase = "answered" /\ late = Nothing
  /\ late' = [rx EXCEPT !.fresh = FALSE]
  /\ phase' = "silent" /\ rx' = Nothing
  /\ UNCHANGED <<cmd, pdVars, paired, chained>>

\* DropSecureChannel: the reader loses its session and says nothing.
DropSession ==
  /\ Fault
  /\ phase = "sent" /\ ~Repeated /\ InSession
  /\ pdSc' = "none"
  /\ Silence
  /\ UNCHANGED <<lates, pdSeq, pdQueue, executed, paired, chained>>

\* The reader restarts between two slots.
PowerCycle ==
  /\ Fault
  /\ phase = "idle"
  /\ pdSeq' = NoSeq /\ pdReply' = Nothing /\ pdSc' = "none" /\ pdQueue' = <<>>
  /\ UNCHANGED <<wire, lates, presented, executed, paired, chained>>

ReaderFault ==
  \/ Busy \/ Refuse \/ LoseCommand \/ LoseReply \/ DelayReply
  \/ DropSession \/ PowerCycle

\* Somebody holds a badge to the reader.
PresentCard ==
  /\ phase = "idle" /\ presented + 1 \in Badges
  /\ presented' = presented + 1
  /\ pdQueue' = Append(pdQueue, presented + 1)
  /\ UNCHANGED <<wire, bounds, pdSeq, pdReply, pdSc, executed, paired, chained>>
-----------------------------------------------------------------------------
Frames == [code : Replies, seq : 0..3, badge : Badges \cup {0},
           sealed : BOOLEAN, fresh : BOOLEAN]

ASSUME NothingIsNoFrame == Nothing \notin Frames

ReaderTypeOK ==
  /\ phase \in {"idle", "sent", "answered", "silent", "panicked"}
  /\ cmd \in [code : Codes, seq : 0..3, sealed : BOOLEAN, req : Requests \cup {Nothing}]
             \cup {Nothing}
  /\ rx \in Frames \cup {Nothing} /\ late \in Frames \cup {Nothing}
  /\ pdReply \in Frames \cup {Nothing}
  /\ faults \in 0..MaxFaults /\ lates \in 0..MaxLate
  /\ pdSeq \in -1..3
  /\ pdSc \in {"none", "challenged", "active"}
  /\ pdQueue \in Seq(Badges)
  /\ presented \in Badges \cup {0}
  /\ paired \in BOOLEAN /\ chained \in BOOLEAN
  /\ executed \in [Requests -> Nat]
=============================================================================
