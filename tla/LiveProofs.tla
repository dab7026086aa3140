----------------------------- MODULE LiveProofs -----------------------------
(***************************************************************************)
(* The live tile, for any number of runs of its effect: whatever comes     *)
(* back late, the tile is the work of its current run, somebody is at work *)
(* on it while it says so, and its talk button, where it has one, says     *)
(* whether the microphone is open.                                         *)
(***************************************************************************)
EXTENDS LiveViewport, TLAPS

Types ==
  /\ mounted \in BOOLEAN /\ offline \in BOOLEAN
  /\ config \in Config
  /\ run \in 0..MaxRuns
  /\ conn \in [Runs -> {"none", "timer", "offering", "posted", "accepting", "linked", "over"}]
  /\ peer \in [Runs -> {"none", "open", "closed"}]

\* A run that has not begun has neither a connection nor one on its way, and a
\* start timer belongs to the run that set it: the cleanup clears it.
Begun ==
  /\ run = 0 => ~mounted
  /\ \A i \in Runs : /\ i > run => conn[i] = "none" /\ peer[i] = "none"
                     /\ conn[i] = "timer" => Current(i)

\* A tile that is offline has neither a timer nor an attempt of its run.
OfflineIsIdle ==
  offline /\ run # 0 => conn[run] \in {"none", "over"}

IInv == Types /\ Begun /\ OfflineIsIdle /\ OnlyTheCurrentRun
-----------------------------------------------------------------------------
\* The invariant holds at the start.
LEMMA InitIInv == Init => IInv
<1> SUFFICES ASSUME Init PROVE IInv
  OBVIOUS
<1>1. Types
  <2>1. mounted \in BOOLEAN /\ offline \in BOOLEAN BY DEF Init
  <2>2. run \in 0..MaxRuns
    <3>1. run = 0 BY DEF Init
    <3> QED BY <3>1, RunsAssumption
  <2>3. config \in Config BY DEF Init
  <2>4. conn = [i \in Runs |-> "none"] /\ peer = [i \in Runs |-> "none"] BY DEF Init
  <2> QED BY <2>1, <2>2, <2>3, <2>4 DEF Types
<1>2. Begun /\ OfflineIsIdle BY DEF Init, Begun, OfflineIsIdle
<1>3. OnlyTheCurrentRun BY DEF Init, OnlyTheCurrentRun
<1> QED BY <1>1, <1>2, <1>3 DEF IInv

\* The effect with new properties: the run before it leaves nothing behind.
LEMMA EffectKeeps ==
  ASSUME IInv, NEW off \in BOOLEAN, NEW c \in Config, Effect(off, c), run < MaxRuns,
         mounted' = TRUE
  PROVE IInv'
<1> USE RunsAssumption DEF IInv, Types, Runs
<1> DEFINE i == run + 1
<1>1. i \in Runs /\ run' = i /\ offline' = off
  BY DEF Effect
<1>2. conn' = [j \in Runs |-> IF j = i /\ ~off /\ c.rtc THEN "timer"
                              ELSE IF conn[j] = "timer" THEN "over" ELSE conn[j]]
  BY <1>1 DEF Effect, Stopped
<1>3. peer' = [j \in Runs |-> IF j = i /\ ~off /\ c.rtc THEN "open"
                              ELSE IF j = run /\ peer[j] = "open" THEN "closed" ELSE peer[j]]
  BY <1>1 DEF Effect, Closed
<1>4. Types'
  <2>1. conn' \in [Runs -> {"none", "timer", "offering", "posted", "accepting", "linked", "over"}]
    BY <1>2
  <2>2. peer' \in [Runs -> {"none", "open", "closed"}]
    BY <1>3
  <2>3. config' \in Config /\ mounted' \in BOOLEAN /\ offline' \in BOOLEAN
    BY DEF Effect
  <2> QED BY <1>1, <2>1, <2>2, <2>3
<1>5. Begun'
  BY <1>1, <1>2, <1>3 DEF Begun, Current
<1>6. OfflineIsIdle'
  BY <1>1, <1>2 DEF OfflineIsIdle, Begun
<1>7. OnlyTheCurrentRun'
  <2>1. shown'.by = run' /\ {fallback', video', audio'} \subseteq {0, run'}
    BY <1>1 DEF Effect, Shows
  <2>2. \A j \in Runs : peer'[j] = "open" => Current(j)' /\ ~offline'
    BY <1>1, <1>3 DEF OnlyTheCurrentRun, Current, Begun
  <2>3. offline' => fallback' = 0 /\ video' = 0
    BY <1>1 DEF Effect
  <2> QED BY <2>1, <2>2, <2>3 DEF OnlyTheCurrentRun
<1> QED BY <1>4, <1>5, <1>6, <1>7

\* Connections that say nothing on the tile: only conn moves.
LEMMA QuietKeeps ==
  ASSUME IInv, NEW i \in Runs, Start(i) \/ Offer(i) \/ Answer(i) \/ Accept(i) PROVE IInv'
<1> USE DEF IInv, Types, tileVars
<1>1. /\ UNCHANGED <<tileVars, peer, shown, fallback, video, audio>>
      /\ \E s \in {"offering", "posted", "accepting", "linked", "over"} :
           conn' = [conn EXCEPT ![i] = s]
  BY DEF Start, Offer, Answer, Accept
<1>2. conn[i] \notin {"none", "over"}
  BY DEF Start, Offer, Answer, Accept
<1>3. Types' BY <1>1
<1>4. Begun' BY <1>1, <1>2 DEF Begun, Current
<1>5. OfflineIsIdle' BY <1>1, <1>2 DEF OfflineIsIdle, Runs
<1>6. OnlyTheCurrentRun' BY <1>1 DEF OnlyTheCurrentRun, Current
<1> QED BY <1>3, <1>4, <1>5, <1>6

\* Connections that speak: they look at cancelled first, so it is the current
\* run that does, and it is not offline.
LEMMA SpeakingKeeps ==
  ASSUME IInv, NEW i \in Runs,
         \/ ConnectFails(i) \/ VideoTrack(i) \/ AudioTrack(i) \/ Disconnected(i)
         \/ LinkFailed(i)
  PROVE IInv'
<1> USE DEF IInv, Types, tileVars
<1>1. /\ UNCHANGED tileVars
      /\ conn' \in {conn, [conn EXCEPT ![i] = "over"]}
      /\ peer' \in {peer, [peer EXCEPT ![i] = "closed"]}
  BY DEF ConnectFails, VideoTrack, AudioTrack, Disconnected, LinkFailed
<1>2. conn[i] \notin {"none", "over", "timer"}
  BY DEF ConnectFails, VideoTrack, AudioTrack, Disconnected, LinkFailed, Live
<1>3. Types' BY <1>1
<1>4. Begun' BY <1>1, <1>2 DEF Begun, Current
<1>5. OfflineIsIdle'
  <2>1. CASE conn' = conn
    BY <1>1, <2>1 DEF OfflineIsIdle
  <2>2. CASE conn' = [conn EXCEPT ![i] = "over"]
    <3>1. run \in Runs /\ offline => i # run
      BY <1>2, RunsAssumption DEF OfflineIsIdle, Runs
    <3>2. run # 0 => run \in Runs
      BY RunsAssumption DEF Runs
    <3> QED BY <1>1, <2>2, <3>1, <3>2 DEF OfflineIsIdle
  <2> QED BY <1>1, <2>1, <2>2
<1>6. OnlyTheCurrentRun'
  <2>1. CASE ~Current(i)
    <3>1. UNCHANGED <<shown, fallback, video, audio>>
      BY <2>1 DEF ConnectFails, VideoTrack, AudioTrack, Disconnected, LinkFailed
    <3> QED BY <1>1, <3>1 DEF OnlyTheCurrentRun, Current
  <2>2. CASE Current(i)
    <3>1. i = run /\ run # 0 /\ ~offline
      BY <1>2, <2>2, RunsAssumption DEF Current, OfflineIsIdle, Runs
    <3>2. /\ shown'.by \in {shown.by, i}
          /\ fallback' \in {fallback, i}
          /\ video' \in {0, video, i} /\ audio' \in {audio, i}
      BY DEF ConnectFails, VideoTrack, AudioTrack, Disconnected, LinkFailed, GiveUp, Shows
    <3> QED BY <1>1, <3>1, <3>2 DEF OnlyTheCurrentRun, Current
  <2> QED BY <2>1, <2>2
<1> QED BY <1>3, <1>4, <1>5, <1>6

\* The tile goes and takes its connection with it.
LEMMA UnmountKeeps ==
  ASSUME IInv, Unmount PROVE IInv'
<1> USE DEF IInv, Types, Unmount
<1>1. Types' BY DEF Stopped, Closed
<1>2. Begun' BY DEF Begun, Stopped, Closed, Current
<1>3. OfflineIsIdle' BY DEF OfflineIsIdle, Stopped, Runs
<1>4. OnlyTheCurrentRun' BY DEF OnlyTheCurrentRun, Closed, Current
<1> QED BY <1>1, <1>2, <1>3, <1>4

\* The inductive invariant of the tile.
THEOREM LiveSafety == Spec => []IInv
<1>1. IInv /\ [Next]_vars => IInv'
  <2> SUFFICES ASSUME IInv, [Next]_vars PROVE IInv'
    OBVIOUS
  <2>1. ASSUME NEW off \in BOOLEAN, Mount(off) PROVE IInv'
    BY <2>1, EffectKeeps, RunsAssumption DEF Mount, IInv, Types
  <2>2. ASSUME NEW off \in BOOLEAN, NEW c \in Config, Change(off, c) PROVE IInv'
    BY <2>2, EffectKeeps DEF Change
  <2>3. CASE Unmount
    BY <2>3, UnmountKeeps
  <2>4. ASSUME NEW i \in Runs,
               Connect(i) \/ AudioTrack(i) \/ Disconnected(i) \/ LinkFailed(i)
        PROVE IInv'
    BY <2>4, QuietKeeps, SpeakingKeeps DEF Connect
  <2>5. CASE \/ ProbeAnswers \/ StartTalk \/ MicGranted \/ TalkUp \/ TalkFails
             \/ ToggleOff \/ TalkLost \/ UNCHANGED vars
    <3>1. UNCHANGED <<tileVars, liveVars>>
      BY <2>5 DEF ProbeAnswers, StartTalk, MicGranted, TalkUp, TalkFails, ToggleOff,
                  TalkLost, vars
    <3> QED BY <3>1 DEF IInv, Types, Begun, OfflineIsIdle, OnlyTheCurrentRun, Current,
                        tileVars, liveVars
  <2> QED BY <2>1, <2>2, <2>3, <2>4, <2>5 DEF Next
<1> QED BY InitIInv, <1>1, PTL DEF Spec

\* No run but the current one is seen, heard or left open, for any number of
\* changes of the camera's health and of the settings, and an offline tile
\* holds nothing (the cancelled checks and the cleanup of previews.js).
THEOREM TileIsCurrent == Spec => []OnlyTheCurrentRun
<1>1. IInv => OnlyTheCurrentRun BY DEF IInv
<1> QED BY <1>1, LiveSafety, PTL
-----------------------------------------------------------------------------
(***************************************************************************)
(* What the tile says is being done.                                       *)
(***************************************************************************)
\* The run that is at work holds its connection until it gives up.
LEMMA AtWorkStep ==
  ASSUME IInv, ConnectingIsAtWork, [Next]_vars
  PROVE  ConnectingIsAtWork'
<1> USE RunsAssumption DEF IInv, Types, Runs
<1>1. ASSUME NEW off \in BOOLEAN, NEW c \in Config, Effect(off, c), run < MaxRuns
      PROVE  ConnectingIsAtWork'
  <2>1. run + 1 \in Runs /\ run' = run + 1 /\ video' = 0
    BY <1>1 DEF Effect
  <2>2. shown'.text = "connecting" => ~off /\ c.rtc
    BY <1>1 DEF Effect, Shows
  <2>3. ~off /\ c.rtc => conn'[run + 1] = "timer" /\ peer'[run + 1] = "open"
    BY <1>1, <2>1 DEF Effect, Stopped, Closed
  <2> QED BY <2>1, <2>2, <2>3 DEF ConnectingIsAtWork
<1>2. ASSUME NEW off \in BOOLEAN, Mount(off) PROVE ConnectingIsAtWork'
  BY <1>1, <1>2 DEF Mount
<1>3. ASSUME NEW off \in BOOLEAN, NEW c \in Config, Change(off, c) PROVE ConnectingIsAtWork'
  BY <1>1, <1>3 DEF Change
<1>4. CASE Unmount
  BY <1>4 DEF Unmount, ConnectingIsAtWork
<1>5. ASSUME NEW i \in Runs, Start(i) \/ Offer(i) \/ Answer(i) \/ Accept(i)
      PROVE  ConnectingIsAtWork'
  <2>1. UNCHANGED <<mounted, run, peer, shown, video>>
    BY <1>5 DEF Start, Offer, Answer, Accept, tileVars
  <2>2. mounted => run \in Runs
    BY DEF Begun
  <2>3. PICK w \in {"offering", "posted", "accepting", "linked", "over"} :
          /\ conn' = [conn EXCEPT ![i] = w]
          /\ w = "over" => ~Current(i)
    BY <1>5 DEF Start, Offer, Answer, Accept
  <2>4. mounted => conn'[run] \in {conn[run], "offering", "posted", "accepting", "linked"}
    BY <2>2, <2>3 DEF Current
  <2> QED BY <2>1, <2>4 DEF ConnectingIsAtWork
<1>6. ASSUME NEW i \in Runs, ConnectFails(i), ~Current(i) PROVE ConnectingIsAtWork'
  <2>1. UNCHANGED <<mounted, run, peer, shown, video>>
    BY <1>6 DEF ConnectFails, tileVars
  <2>2. mounted => conn'[run] = conn[run]
    BY <1>6 DEF ConnectFails, Current
  <2> QED BY <2>1, <2>2 DEF ConnectingIsAtWork
<1>7. ASSUME NEW i \in Runs,
             \/ ConnectFails(i) /\ Current(i)
             \/ VideoTrack(i) \/ Disconnected(i) \/ LinkFailed(i)
      PROVE  ConnectingIsAtWork'
  <2>1. shown'.text \in {"mjpeg", "failed", "live", "reconnecting"}
    BY <1>7 DEF ConnectFails, VideoTrack, Disconnected, LinkFailed, GiveUp, Shows
  <2> QED BY <2>1 DEF ConnectingIsAtWork
<1>8. ASSUME UNCHANGED <<tileVars, conn, peer, shown, video>> PROVE ConnectingIsAtWork'
  BY <1>8 DEF ConnectingIsAtWork, tileVars
<1>9. ASSUME NEW i \in Runs, AudioTrack(i) PROVE ConnectingIsAtWork'
  BY <1>8, <1>9 DEF AudioTrack
<1>10. CASE \/ ProbeAnswers \/ StartTalk \/ MicGranted \/ TalkUp \/ TalkFails
            \/ ToggleOff \/ TalkLost \/ UNCHANGED vars
  BY <1>8, <1>10 DEF ProbeAnswers, StartTalk, MicGranted, TalkUp, TalkFails, ToggleOff,
                     TalkLost, vars, liveVars
<1> QED
  BY <1>2, <1>3, <1>4, <1>5, <1>6, <1>7, <1>9, <1>10 DEF Next, Connect

\* "Connecting" is never an idle promise: the current run holds an open connection
\* and is on its way, for any number of changes and of late answers.
THEOREM ConnectingHasANextStep == Spec => []ConnectingIsAtWork
<1>1. Init => ConnectingIsAtWork
  BY DEF Init, ConnectingIsAtWork
<1>2. IInv /\ ConnectingIsAtWork /\ [Next]_vars => ConnectingIsAtWork'
  BY AtWorkStep
<1> QED BY <1>1, <1>2, LiveSafety, PTL DEF Spec

\* startTalk is under way exactly while the button is busy; at all other times
\* the tile has noted whether its microphone is open, on show or not.
MicIsNoted ==
  /\ talkBusy <=> talk # "off"
  /\ mic => talking \/ talkBusy
  /\ talking => mic

\* The talk button of previews.js, where it is rendered and not disabled, says
\* whether the microphone is open, through every failure of startTalk, every
\* press of the button, the loss of the link and every change of the tile.
THEOREM TalkButtonIsHonest == Spec => []ButtonIsHonest
<1>1. Init => MicIsNoted
  BY DEF Init, MicIsNoted
<1>2. MicIsNoted /\ [Next]_vars => MicIsNoted'
  <2> SUFFICES ASSUME MicIsNoted, [Next]_vars PROVE MicIsNoted'
    OBVIOUS
  <2>1. CASE UNCHANGED talkVars
    BY <2>1 DEF talkVars, MicIsNoted
  <2>2. CASE Unmount
    BY <2>2 DEF Unmount, StopTalk, MicIsNoted
  <2>3. CASE StartTalk \/ MicGranted \/ TalkUp
    BY <2>3 DEF StartTalk, MicGranted, TalkUp, MicIsNoted
  <2>4. CASE TalkFails \/ ToggleOff \/ TalkLost
    BY <2>4 DEF TalkFails, ToggleOff, TalkLost, StopTalk, MicIsNoted
  <2>5. ASSUME \/ \E off \in BOOLEAN : Mount(off) \/ \E c \in Config : Change(off, c)
               \/ \E i \in Runs : \/ Connect(i)
                                  \/ AudioTrack(i) \/ Disconnected(i) \/ LinkFailed(i)
               \/ ProbeAnswers \/ UNCHANGED vars
        PROVE  UNCHANGED talkVars
    BY <2>5 DEF Mount, Change, Connect, Start, Offer, Answer, Accept, ConnectFails,
                VideoTrack, AudioTrack, Disconnected, LinkFailed, ProbeAnswers, vars
  <2> QED BY <2>1, <2>2, <2>3, <2>4, <2>5 DEF Next
<1>3. ASSUME MicIsNoted PROVE ButtonIsHonest
  <2> SUFFICES ASSUME ~talkBusy PROVE mic <=> talking
    BY DEF ButtonIsHonest, TalkButton
  <2>1. (mic => talking) /\ (talking => mic)
    BY <1>3 DEF MicIsNoted
  <2> HIDE <1>3
  <2> QED BY <2>1
<1> QED BY <1>1, <1>2, <1>3, PTL DEF Spec
=============================================================================
