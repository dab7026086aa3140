---------------------------- MODULE LiveViewport ----------------------------
(***************************************************************************)
(* One live tile of a camera wall (LiveViewport in components/previews.js  *)
(* of mymatasan; myseliasan carries the same code for the cameras of a     *)
(* node).                                                                  *)
(*                                                                         *)
(* The tile is a React component keyed by its camera, so the camera is     *)
(* fixed and the tile is unmounted when another one takes its place.  What *)
(* does change under it are the camera's health and the stream settings:   *)
(* each change cleans up the running effect and runs it again.  Every      *)
(* await of connect and of startTalk is a place where that can happen, so  *)
(* the handlers are split there.  A run of the effect is known by its      *)
(* number; a run that is not the current one is what the code calls        *)
(* cancelled.                                                              *)
(***************************************************************************)
EXTENDS Integers

CONSTANT MaxRuns        \* bound: how often the effect runs
ASSUME RunsAssumption == MaxRuns \in Nat \ {0}

Runs == 1..MaxRuns

VARIABLES
  mounted, offline,
  config,       \* WebRTC is to be tried; MJPEG is allowed as a fallback
  run,          \* the current run of the effect
  conn,         \* where connect stands, for each run
  peer,         \* the RTCPeerConnection of each run
  shown,        \* the status on the tile, and the run that wrote it
  fallback,     \* the run that set fallbackSrc, 0 when it is empty
  video, audio, \* the run whose track the element plays, 0 for none
  cap, probe,   \* talkCap, and whether the question is out
  talk,         \* where startTalk stands
  mic,          \* the microphone is open, with a connection to the camera
  talking, talkBusy

tileVars == <<mounted, offline, config, run>>
liveVars == <<conn, peer, shown, fallback, video, audio>>
talkVars == <<talk, mic, talking, talkBusy>>
vars == <<tileVars, liveVars, cap, probe, talkVars>>

Config == [rtc : BOOLEAN, mjpeg : BOOLEAN]

Init ==
  /\ mounted = FALSE /\ offline = FALSE
  /\ config \in Config
  /\ run = 0
  /\ conn = [i \in Runs |-> "none"]
  /\ peer = [i \in Runs |-> "none"]
  /\ shown = [text |-> "", by |-> 0]
  /\ fallback = 0 /\ video = 0 /\ audio = 0
  /\ cap = "unknown" /\ probe = FALSE
  /\ talk = "off" /\ mic = FALSE /\ talking = FALSE /\ talkBusy = FALSE

Shows(i, s) == shown' = [text |-> s, by |-> i]

-----------------------------------------------------------------------------
(* The live effect and its cleanup.                                        *)

\* The cleanup clears the start timer of the current run.
Stopped == [j \in Runs |-> IF conn[j] = "timer" THEN "over" ELSE conn[j]]

\* It closes the connection of the current run.
Closed ==
  [j \in Runs |-> IF j = run /\ peer[j] = "open" THEN "closed" ELSE peer[j]]

\* The effect runs with the properties off and c, after the cleanup of the run
\* before it.  Only a tile that is to use WebRTC makes a connection, and its
\* start is staggered by a timer.
Effect(off, c) ==
  LET i == run + 1
      attempt == ~off /\ c.rtc
  IN /\ run' = i
     /\ offline' = off /\ config' = c
     /\ video' = 0 /\ audio' = 0
     /\ fallback' = IF ~off /\ ~c.rtc /\ c.mjpeg THEN i ELSE 0
     /\ Shows(i, IF off THEN "offline"
                 ELSE IF c.rtc THEN "connecting"
                 ELSE IF c.mjpeg THEN "mjpeg" ELSE "unavailable")
     /\ conn' = IF attempt THEN [Stopped EXCEPT ![i] = "timer"] ELSE Stopped
     /\ peer' = IF attempt THEN [Closed EXCEPT ![i] = "open"] ELSE Closed

\* The talk-back probe is an effect of its own, on the camera and on offline.
Probe(off) ==
  /\ cap' = IF off THEN "unknown" ELSE cap
  /\ probe' = ~off

Mount(off) ==
  /\ run = 0
  /\ mounted' = TRUE
  /\ Effect(off, config)
  /\ Probe(off)
  /\ UNCHANGED talkVars

\* The health monitor or the settings page hands the tile new properties; also
\* a change that makes no difference here runs the effect again.
Change(off, c) ==
  /\ mounted /\ run < MaxRuns
  /\ Effect(off, c)
  /\ IF off = offline THEN UNCHANGED <<cap, probe>> ELSE Probe(off)
  /\ UNCHANGED <<mounted, talkVars>>

\* stopTalk: the tracks are stopped and the connection closed, if there are any.
StopTalk == mic' = FALSE /\ talking' = FALSE

\* The tile goes, or another camera takes its place.
Unmount ==
  /\ mounted
  /\ mounted' = FALSE
  /\ conn' = Stopped /\ peer' = Closed
  /\ video' = 0 /\ audio' = 0
  /\ probe' = FALSE
  /\ StopTalk
  /\ UNCHANGED <<offline, config, run, shown, fallback, cap, talk, talkBusy>>
-----------------------------------------------------------------------------
(* connect, for run i.                                                     *)

Current(i) == mounted /\ i = run

\* The start timer fires.
Start(i) ==
  /\ conn[i] = "timer"
  /\ conn' = [conn EXCEPT ![i] = "offering"]
  /\ UNCHANGED <<tileVars, peer, shown, fallback, video, audio, cap, probe, talkVars>>

\* createOffer, setLocalDescription, and the candidates, for three seconds at
\* most: the offer is posted, also by a run that was cancelled while it waited
\* for the candidates.  A connection closed before refuses, see ConnectFails.
Offer(i) ==
  /\ conn[i] = "offering"
  /\ conn' = [conn EXCEPT ![i] = "posted"]
  /\ UNCHANGED <<tileVars, peer, shown, fallback, video, audio, cap, probe, talkVars>>

\* The answer is here: a cancelled run stops, another one hands the answer to
\* its connection.
Answer(i) ==
  /\ conn[i] = "posted"
  /\ conn' = [conn EXCEPT ![i] = IF Current(i) THEN "accepting" ELSE "over"]
  /\ UNCHANGED <<tileVars, peer, shown, fallback, video, audio, cap, probe, talkVars>>

Accept(i) ==
  /\ conn[i] = "accepting" /\ peer[i] = "open"
  /\ conn' = [conn EXCEPT ![i] = "linked"]
  /\ UNCHANGED <<tileVars, peer, shown, fallback, video, audio, cap, probe, talkVars>>

\* The way to MJPEG, or the plain statement that there is none.  With a
\* fallback an <img> takes the place of the <video>.
GiveUp(i) ==
  /\ Shows(i, IF config.mjpeg THEN "mjpeg" ELSE "failed")
  /\ fallback' = IF config.mjpeg THEN i ELSE fallback
  /\ video' = IF config.mjpeg THEN 0 ELSE video

\* Mutant: the catch does not look at cancelled.
ConnectFailsAnyway(i) ==
  /\ conn[i] \in {"offering", "posted", "accepting"}
  /\ conn' = [conn EXCEPT ![i] = "over"]
  /\ GiveUp(i)
  /\ peer' = [peer EXCEPT ![i] = "closed"]
  /\ UNCHANGED <<tileVars, audio, cap, probe, talkVars>>

\* Mutant: the catch closes the connection and says nothing.
ConnectFailsSilently(i) ==
  /\ conn[i] \in {"offering", "posted", "accepting"}
  /\ conn' = [conn EXCEPT ![i] = "over"]
  /\ peer' = [peer EXCEPT ![i] = "closed"]
  /\ UNCHANGED <<tileVars, shown, fallback, video, audio, cap, probe, talkVars>>

\* Any await of connect rejects: the catch.
ConnectFails(i) ==
  /\ conn[i] \in {"offering", "posted", "accepting"}
  /\ conn' = [conn EXCEPT ![i] = "over"]
  /\ IF Current(i)
     THEN GiveUp(i) /\ peer' = [peer EXCEPT ![i] = "closed"]
     ELSE UNCHANGED <<peer, shown, fallback, video>>
  /\ UNCHANGED <<tileVars, audio, cap, probe, talkVars>>

\* The events of a connection (the browser's; none comes from a closed one).
Live(i) == conn[i] = "linked" /\ peer[i] = "open"

VideoTrack(i) ==
  /\ Live(i) /\ Current(i) /\ video # i
  /\ video' = i
  /\ Shows(i, "live")
  /\ UNCHANGED <<tileVars, conn, peer, fallback, audio, cap, probe, talkVars>>

AudioTrack(i) ==
  /\ Live(i) /\ Current(i) /\ audio # i
  /\ audio' = i
  /\ UNCHANGED <<tileVars, conn, peer, shown, fallback, video, cap, probe, talkVars>>

\* "disconnected" may mend by itself; nothing is written when it does.
Disconnected(i) ==
  /\ Live(i) /\ Current(i)
  /\ Shows(i, "reconnecting")
  /\ UNCHANGED <<tileVars, conn, peer, fallback, video, audio, cap, probe, talkVars>>

\* "failed": the tile gives up, the connection stays open until the cleanup.
LinkFailed(i) ==
  /\ Live(i) /\ Current(i)
  /\ conn' = [conn EXCEPT ![i] = "over"]
  /\ GiveUp(i)
  /\ UNCHANGED <<tileVars, peer, audio, cap, probe, talkVars>>

Connect(i) ==
  \/ Start(i) \/ Offer(i) \/ Answer(i) \/ Accept(i) \/ ConnectFails(i)
  \/ VideoTrack(i)
-----------------------------------------------------------------------------
(* Talk-back.                                                              *)

\* The answer of the probe; the one of a cancelled probe is not looked at.
ProbeAnswers ==
  /\ probe
  /\ probe' = FALSE
  /\ cap' \in {"unknown", "no", "yes"}
  /\ UNCHANGED <<tileVars, liveVars, talkVars>>

\* The talk button is rendered, and it can be pressed.
TalkRendered == mounted /\ ~offline /\ cap = "yes"
TalkButton == TalkRendered /\ ~talkBusy

\* startTalk, up to getUserMedia.
StartTalk ==
  /\ TalkButton /\ ~talking /\ talk = "off"
  /\ talkBusy' = TRUE
  /\ talk' = "asking"
  /\ UNCHANGED <<tileVars, liveVars, cap, probe, mic, talking>>

\* The microphone is granted: it is open from here on, and a connection is made
\* for it.  Nobody asks whether the tile is still there.
MicGranted ==
  /\ talk = "asking"
  /\ mic' = TRUE
  /\ talk' = "offering"
  /\ UNCHANGED <<tileVars, liveVars, cap, probe, talking, talkBusy>>

\* The camera has answered the offer; a connection that stopTalk has closed in
\* the meantime refuses the answer.
TalkUp ==
  /\ talk = "offering" /\ mic
  /\ talking' = TRUE
  /\ talkBusy' = FALSE
  /\ talk' = "off"
  /\ UNCHANGED <<tileVars, liveVars, cap, probe, mic>>

\* Mutant: the catch forgets the microphone.
TalkFailsKeepingMic ==
  /\ talk \in {"asking", "offering"}
  /\ talkBusy' = FALSE
  /\ talk' = "off"
  /\ UNCHANGED <<tileVars, liveVars, cap, probe, mic, talking>>

\* Any await of startTalk rejects.
TalkFails ==
  /\ talk \in {"asking", "offering"}
  /\ StopTalk
  /\ talkBusy' = FALSE
  /\ talk' = "off"
  /\ UNCHANGED <<tileVars, liveVars, cap, probe>>

\* toggleTalk while talking.
ToggleOff ==
  /\ TalkButton /\ talking
  /\ StopTalk
  /\ UNCHANGED <<tileVars, liveVars, cap, probe, talk, talkBusy>>

\* The talk connection is lost.
TalkLost ==
  /\ mic /\ talk = "off"
  /\ StopTalk
  /\ UNCHANGED <<tileVars, liveVars, cap, probe, talk, talkBusy>>

Next ==
  \/ \E off \in BOOLEAN : Mount(off) \/ \E c \in Config : Change(off, c)
  \/ Unmount
  \/ \E i \in Runs : \/ Connect(i)
                     \/ AudioTrack(i) \/ Disconnected(i) \/ LinkFailed(i)
  \/ ProbeAnswers
  \/ StartTalk \/ MicGranted \/ TalkUp \/ TalkFails \/ ToggleOff \/ TalkLost

Spec == Init /\ [][Next]_vars

\* Timers fire, every await ends one way or the other, and an accepted answer
\* brings its video track.  Nothing is asked of the links, of the people or of
\* the camera's health.
FairSpec == Spec /\ \A i \in Runs : WF_vars(Connect(i))
-----------------------------------------------------------------------------
\* Whatever comes back late, the tile is the work of the current run: its
\* status, its picture, its sound and its fallback, and no other connection is
\* left open, neither by a change of properties nor by an unmount.  A tile
\* known to be offline has no picture and holds no connection at all ("skip
\* the WebRTC/MJPEG attempt entirely", previews.js).
OnlyTheCurrentRun ==
  /\ shown.by = run
  /\ {fallback, video, audio} \subseteq {0, run}
  /\ \A i \in Runs : peer[i] = "open" => Current(i) /\ ~offline
  /\ offline => fallback = 0 /\ video = 0

\* A tile that says "connecting" has somebody at work on it: a timer, a request
\* or an accepted answer of the current run, on a connection that is still open
\* and has yet to bring its picture.  So there is always a next step.
ConnectingIsAtWork ==
  mounted /\ shown.text = "connecting" =>
    /\ conn[run] \in {"timer", "offering", "posted", "accepting", "linked"}
    /\ peer[run] = "open" /\ video # run

\* Where there is a talk button it tells the truth: it says "Stop talking" when
\* the microphone is open and "Talk to camera" when it is not, whatever fails and
\* in whatever order the button, the camera and the browser get there.  While
\* startTalk is at work it is disabled, and a tile that is offline, or whose
\* camera is not known to have a speaker, shows none (OpenMicHasAButton).
ButtonIsHonest == TalkButton => (mic <=> talking)

\* "Connecting" is never the last word: the tile goes on to a picture, to
\* MJPEG or to a failure, or the run is over.
ConnectingEnds ==
  \A i \in Runs : (Current(i) /\ shown.text = "connecting")
                    ~> ~(Current(i) /\ shown.text = "connecting")

\* "Stop any live mic session when the camera changes or the tile unmounts"
\* (previews.js).
MicStopsWithTheTile == ~mounted => ~mic

\* "a mic button next to the speaker toggle in live view lets an operator speak"
\* (README.md of mymatasan): as long as the tile is there, an open microphone has
\* the button that shows it and ends it.
OpenMicHasAButton == mounted /\ mic => TalkRendered
=============================================================================
