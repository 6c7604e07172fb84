-------------------------------- MODULE Alarm --------------------------------
(***************************************************************************)
(* The alarm of a camera and the recording it controls (player.py: the     *)
(* Python Player; glwidget.py: renderCallback, timerCallback, buildImage,  *)
(* alarmBroadcast; systemtab.py; camerapanel.py; listen.py).               *)
(*                                                                         *)
(* Two threads of the player detect alarms, with the video and with the    *)
(* audio, or the frames of a client load the alarm states its server has   *)
(* broadcast.  A detection sets alarm_state and (re)starts the lag timer,  *)
(* which belongs to the window: the timer, the record button and the       *)
(* settings act on the same Reader::recording, a flag that is only ever    *)
(* toggled.  What the record button allows was decided when syncGUI() last *)
(* looked.  Sounds, pictures and last_alarm_state are left out.  The       *)
(* camera has one stream, shown and recorded, and is the selected one.     *)
(***************************************************************************)
EXTENDS Naturals, Sequences, FiniteSets

CONSTANTS
  Options,      \* the cameras: records of the fields of opts
  Lag,          \* the post-alarm lag time, in ticks
  Expiry,       \* ticks without a message after which alarm_states is emptied
  MaxDelay,     \* ticks a broadcast may be on its way
  MaxSignals,   \* bound: signals waiting for the window when a frame comes
  MaxClicks,    \* bound: things the user does
  MaxLosses     \* bound: times the stream ends

Kinds == {"video", "audio", "remote"}

ASSUME AlarmAssumption ==
  /\ Options \subseteq [detectors : SUBSET Kinds, always : BOOLEAN, slow : BOOLEAN,
                        clicks : SUBSET {"record", "key", "analyze", "enable", "stop"}]
  /\ {Lag, Expiry, MaxDelay, MaxSignals, MaxClicks, MaxLosses} \subseteq Nat
  /\ Lag > 0

Off     == Lag + 1          \* a timer that is not active
Remote  == Lag + MaxDelay + Expiry + 1
Forever == Lag + Remote + 1

VARIABLES
  opts,         \* detectors: the threads that detect; always: record_always,
                \* otherwise record_alarm; slow: getOutputFilename() waits
                \* for the disk, so that other threads run; clicks: what the
                \* user does ("key": Ctrl+R)
  enable,       \* record_enable
  setting,      \* the analysis asked for in the settings of the profile
  analyze,      \* analyze_video or analyze_audio of the player
  stream,       \* "down"; "connect" from the creation of the reader until
                \* mediaPlayingStarted; "play"; "stop" after terminate()
  recording,    \* Reader::recording
  manual,       \* camera.manual_recording
  by,           \* the latest toggle of recording: "hand" is the record button,
                \* "blind" one by the user that a button up to date would
                \* refuse, "late" one that waited for the disk until the alarm
                \* it was for had been cleared; or "auto"
  early,        \* recording was toggled before mediaPlayingStarted
  alarm,        \* alarm_state
  timer,        \* ticks left of the lag timer
  signals,      \* start and stop signals queued to the window for the timer
  button,       \* the record button is enabled
  pending,      \* onMediaStarted() or onMediaStopped() is queued to the window
  at, gui,      \* what a detector, and the window, has still to do
  scene, since, \* the alarm in front of the camera, the ticks since there was,
                \* without those in which the window waits for the disk
  net,          \* broadcasts under way: their age and what they say
  states, last, age, \* alarm_states of this camera ("none": empty), the age of
                \* the latest message handled, the ticks since
  clicks, losses

record   == <<recording, by, early>>
panel    == <<button, pending>>
feed     == <<net, states, last, age>>
settings == <<enable, setting, clicks>>
world    == <<opts, scene, since, feed>>
vars == <<opts, enable, setting, analyze, stream, record, manual, alarm, timer, signals,
          panel, at, gui, scene, since, feed, clicks, losses>>

Init ==
  /\ opts \in Options
  /\ enable \in BOOLEAN /\ setting = TRUE /\ analyze = FALSE /\ stream = "down"
  /\ recording = FALSE /\ manual = FALSE /\ by = "auto" /\ early = FALSE
  /\ button = FALSE /\ pending = FALSE
  /\ alarm = FALSE /\ timer = Off /\ signals = <<>>
  /\ at = [d \in opts.detectors |-> "idle"] /\ gui = "idle"
  /\ scene = FALSE /\ since = Forever
  /\ net = {} /\ states = "none" /\ last = MaxDelay + 1 /\ age = Expiry + 1
  /\ clicks = 0 /\ losses = 0

Idle(d) == at[d] = "idle"
Waiting == gui \in {"click", "enable"}
Quiet == /\ gui = "idle" /\ signals = <<>> /\ ~pending
         /\ \A d \in opts.detectors : Idle(d)

-----------------------------------------------------------------------------
(* Player::toggleRecording(); without a reader nothing happens.            *)
Toggle(how) ==
  IF stream = "down" THEN UNCHANGED record
  ELSE /\ recording' = ~recording /\ by' = how
       /\ early' = (early \/ stream = "connect")
Unless(late) == IF late THEN "late" ELSE "auto"

(* syncGUI(); the button is disabled while a recording of an alarm or of   *)
(* record_always runs.  Without a reader there may be a player, or none.   *)
SyncGUI ==
  button' \in IF stream = "down" THEN BOOLEAN
              ELSE {~(recording' /\ enable' /\ (opts.always \/ alarm'))}
SyncIfToggled == IF recording' = recording THEN UNCHANGED button ELSE SyncGUI

(* What setAlarmState(0) will still do: emit stop and, with "+", end a     *)
(* recording.  It has read record_alarm and manual_recording before.       *)
OffPlanOn == IF ~opts.always /\ ~manual THEN "start+" ELSE "start" \* mutant
OffPlan == IF ~opts.always /\ ~manual THEN "stop+" ELSE "stop"
OnPlanOnce ==                                                    \* mutant
  IF ~opts.always /\ enable /\ ~alarm THEN "start+" ELSE "start"
OnPlan  == IF ~opts.always /\ enable THEN "start+" ELSE "start"

(* A frame: the model found an alarm in it, or alarm_states says so.       *)
Seen(d) == IF d = "remote" THEN states = "on" ELSE scene
Analysed(d) ==
  /\ Idle(d) /\ stream \in {"play", "stop"} /\ Len(signals) < MaxSignals
  /\ IF d = "remote" THEN states # "none" ELSE analyze

(* handleAlarm(): an alarm that has passed is left to the timer.           *)
HandleAlarm(d) ==
  /\ Analysed(d)
  /\ IF analyze /\ Seen(d) THEN alarm' = TRUE /\ at' = [at EXCEPT ![d] = OnPlan]
     ELSE /\ ~analyze
          /\ alarm' = FALSE /\ at' = [at EXCEPT ![d] = OffPlan]

Frame(d) ==
  /\ HandleAlarm(d)
  /\ UNCHANGED <<world, settings, analyze, stream, record, manual, timer, signals, panel,
                 gui, losses>>

(* The rest of setAlarmState() in a thread of the player: the signal, then *)
(* the recording, between whose test and toggle getOutputFilename() may    *)
(* wait for the disk.                                                      *)
EmitStop(d) == signals' = Append(signals, "stop")                \* mutant
Emit(d) ==
  signals' = Append(signals, IF at[d] \in {"start", "start+"} THEN "start" ELSE "stop")
Act(d) ==
  /\ at[d] \in {"start", "start+", "stop", "stop+"}
  /\ Emit(d)
  /\ IF at[d] = "start+" /\ ~recording /\ opts.slow
     THEN at' = [at EXCEPT ![d] = "toggle"] /\ UNCHANGED record
     ELSE /\ at' = [at EXCEPT ![d] = "idle"]
          /\ IF at[d] = (IF recording THEN "stop+" ELSE "start+")
             THEN Toggle("auto") ELSE UNCHANGED record
  /\ UNCHANGED <<world, settings, analyze, stream, manual, alarm, timer, pending, gui, losses>>
  /\ SyncIfToggled

Late(d) ==
  /\ at[d] = "toggle" /\ at' = [at EXCEPT ![d] = "idle"]
  /\ Toggle(Unless(~alarm))
  /\ UNCHANGED <<world, settings, analyze, stream, manual, alarm, timer, signals, pending,
                 gui, losses>>
  /\ SyncIfToggled

-----------------------------------------------------------------------------
(* The window.                                                             *)
Signal ==
  /\ gui = "idle" /\ signals # <<>> /\ signals' = Tail(signals)
  /\ timer' = IF Head(signals) = "start" THEN Lag ELSE Off
  /\ UNCHANGED <<world, settings, analyze, stream, record, manual, alarm, panel, at, gui,
                 losses>>

(* Player.timeout(), and buildImage() when nothing is analysed any more.   *)
Clear ==
  /\ gui = "idle"
  /\ timer = 0 \/ (stream = "play" /\ alarm /\ ~analyze)
  /\ alarm' = FALSE /\ gui' = OffPlan
  /\ UNCHANGED <<world, settings, analyze, stream, record, manual, timer, signals, panel, at,
                 losses>>

ClearRest ==
  /\ gui \in {"stop", "stop+"} /\ gui' = "idle" /\ timer' = Off
  /\ IF gui = "stop+" /\ recording THEN Toggle("auto") ELSE UNCHANGED record
  /\ UNCHANGED <<world, settings, analyze, stream, manual, alarm, signals, pending, at,
                 losses>>
  /\ SyncIfToggled

(* onMediaStarted() and onMediaStopped(); the other handlers that call     *)
(* syncGUI(), such as btnMuteClicked().                                    *)
Media ==
  /\ gui = "idle" /\ pending /\ pending' = FALSE
  /\ UNCHANGED <<world, settings, analyze, stream, record, manual, alarm, timer, signals, at,
                 gui, losses>>
  /\ SyncGUI
Refresh ==
  /\ gui = "idle"
  /\ UNCHANGED <<world, settings, analyze, stream, record, manual, alarm, timer, signals,
                 pending, at, gui, losses>>
  /\ SyncGUI

(* btnRecordClicked(), by the button or by Ctrl+R, which does not ask      *)
(* whether it is enabled.                                                  *)
May(c) == c \in opts.clicks /\ clicks < MaxClicks /\ gui = "idle" /\ clicks' = clicks + 1
ClickAnyway(key) == TRUE                                         \* mutant
Enabled(key) == key \/ button
Click(key) ==
  /\ May(IF key THEN "key" ELSE "record") /\ Enabled(key)
  /\ IF recording
     THEN Toggle(IF key \/ pending THEN "blind" ELSE "hand") /\ manual' = FALSE /\ gui' = gui
     ELSE IF opts.slow THEN gui' = "click" /\ UNCHANGED <<record, manual>>
     ELSE Toggle("hand") /\ manual' = TRUE /\ gui' = gui
  /\ UNCHANGED <<world, enable, setting, analyze, stream, alarm, timer, signals, pending, at,
                 losses>>
  /\ IF gui' = gui THEN SyncGUI ELSE UNCHANGED button

(* The rest of btnRecordClicked() and of managePlayers() after the wait.   *)
ClickRest ==
  /\ Waiting /\ gui' = "idle"
  /\ IF gui = "click" THEN Toggle("hand") /\ manual' = TRUE
     ELSE Toggle(Unless(~alarm /\ ~opts.always)) /\ UNCHANGED manual
  /\ UNCHANGED <<world, settings, analyze, stream, alarm, timer, signals, pending, at,
                 losses>>
  /\ SyncGUI

(* setAlarmState(0) in the thread of the window, for the other clicks.     *)
ClearNow ==
  /\ alarm' = FALSE /\ timer' = Off
  /\ IF OffPlan = "stop+" /\ recording THEN Toggle("auto") ELSE UNCHANGED record

(* chkAnalyzeVideoChecked() and chkAnalyzeAudioChecked().                  *)
SetAnalyze ==
  /\ May("analyze") /\ setting' = ~setting
  /\ IF stream = "down" THEN UNCHANGED <<record, analyze, alarm, timer>>
     ELSE analyze' = setting' /\ ClearNow
  /\ UNCHANGED <<world, enable, stream, manual, signals, pending, at, gui, losses>>
  /\ SyncIfToggled

(* setRecordAlarmEnabled() with managePlayers().                           *)
SetEnable ==
  /\ May("enable") /\ enable' = ~enable
  /\ LET on == enable' /\ (opts.always \/ alarm) IN
     IF on /\ ~recording /\ opts.slow /\ stream # "down"
     THEN gui' = "enable" /\ UNCHANGED record
     ELSE gui' = gui /\ IF recording # on THEN Toggle("auto") ELSE UNCHANGED record
  /\ UNCHANGED <<world, setting, analyze, stream, manual, alarm, timer, signals, pending, at,
                 losses>>
  /\ IF gui' = gui THEN SyncGUI ELSE UNCHANGED button

-----------------------------------------------------------------------------
(* playMedia(): a new player, whose reader appears; mediaPlayingStarted(); *)
(* requestShutdown(); the end of the stream, by itself or after it.        *)
Connect ==
  /\ stream = "down" /\ gui = "idle" /\ ~pending /\ losses < MaxLosses
  /\ stream' = "connect" /\ analyze' = setting
  /\ UNCHANGED <<world, settings, record, manual, alarm, timer, signals, panel, at, gui,
                 losses>>

Started ==
  /\ stream = "connect" /\ stream' = "play" /\ pending' = TRUE
  /\ IF opts.always /\ enable
     THEN recording' = ~recording /\ by' = "auto" /\ UNCHANGED early
     ELSE UNCHANGED record
  /\ UNCHANGED <<world, settings, analyze, manual, alarm, timer, signals, button, at, gui,
                 losses>>

RequestShutdown ==
  /\ May("stop") /\ stream \in {"connect", "play"}
  /\ ClearNow /\ analyze' = FALSE /\ stream' = "stop"
  /\ UNCHANGED <<world, enable, setting, manual, signals, pending, at, gui, losses>>
  /\ SyncGUI

Ended ==
  /\ stream # "down" /\ gui \notin {"stop", "stop+"} /\ \A d \in opts.detectors : Idle(d)
  /\ stream' = "down" /\ analyze' = FALSE /\ alarm' = FALSE /\ timer' = Off
  /\ signals' = <<>> /\ recording' = FALSE /\ by' = "auto" /\ early' = FALSE
  /\ pending' = TRUE /\ losses' = losses + 1
  /\ UNCHANGED <<world, settings, manual, button, at, gui>>

-----------------------------------------------------------------------------
(* alarmBroadcast() of the server, at most once in a tick: the alarm_state *)
(* of its own player, set for at most the lag time after the scene         *)
(* (AlarmFresh of a camera without a server); the network; the listener's  *)
(* callback(), which drops a message with the time stamp of the latest     *)
(* one; timerCallback(), which empties alarm_states.                       *)
Broadcast(sent) ==
  /\ TRUE \in sent => since' <= Lag
  /\ net' = {[m EXCEPT !.age = @ + 1] : m \in {m \in net : m.age < MaxDelay}}
              \cup {[age |-> 0, on |-> on] : on \in sent}

Receive(m, again) ==
  /\ net' = IF again THEN net ELSE net \ {m}
  /\ last' = m.age
  /\ IF m.age = last THEN UNCHANGED <<states, age>>
     ELSE states' = (IF m.on THEN "on" ELSE "off") /\ age' = 0
  /\ UNCHANGED <<opts, scene, since, settings, analyze, stream, record, manual, alarm, timer,
                 signals, panel, at, gui, losses>>

StaleOff == age > Expiry /\ states = "off"                        \* mutant
Stale == age > Expiry /\ states # "none"
Expire ==
  /\ gui = "idle" /\ Stale /\ states' = "none"
  /\ UNCHANGED <<opts, scene, since, net, last, age, settings, analyze, stream, record,
                 manual, alarm, timer, signals, panel, at, gui, losses>>

(* Time passes: a frame, a signal and a timer are handled within a tick,   *)
(* but a detector, or the window and all it has to do, may wait for the    *)
(* disk as long as it takes.                                               *)
Upto(n, max) == IF n < max THEN n + 1 ELSE n
Tick ==
  /\ \A d \in opts.detectors : at[d] \in {"idle", "toggle"}
  /\ Waiting \/ (gui = "idle" /\ signals = <<>> /\ ~pending /\ timer # 0 /\ ~Stale)
  /\ timer' = IF timer \in {0, Off} THEN timer ELSE timer - 1
  /\ since' = IF scene THEN 0 ELSE IF Waiting THEN since ELSE Upto(since, Forever)
  /\ IF "remote" \in opts.detectors
     THEN (\E sent \in {{}, {TRUE}, {FALSE}} : Broadcast(sent))
          /\ last' = Upto(last, MaxDelay + 1) /\ age' = Upto(age, Expiry + 1)
     ELSE UNCHANGED <<net, last, age>>
  /\ UNCHANGED <<opts, states, scene, settings, analyze, stream, record, manual, alarm,
                 signals, panel, at, gui, losses>>

Scene ==
  /\ scene' = ~scene /\ since' = 0
  /\ UNCHANGED <<opts, feed, settings, analyze, stream, record, manual, alarm, timer,
                 signals, panel, at, gui, losses>>

Detect(d) == Frame(d) \/ Act(d) \/ Late(d)
Window    == Signal \/ Clear \/ ClearRest \/ ClickRest \/ Media \/ Expire
User      == Click(FALSE) \/ Click(TRUE) \/ SetAnalyze \/ SetEnable \/ RequestShutdown

Next ==
  \/ \E d \in opts.detectors : Detect(d)
  \/ Window \/ User \/ Refresh \/ Connect \/ Started \/ Ended \/ Tick \/ Scene
  \/ \E m \in net, again \in BOOLEAN : Receive(m, again)

Spec == Init /\ [][Next]_vars
FairSpec ==
  /\ Spec /\ WF_vars(Window)
  /\ \A d \in Kinds : WF_vars(d \in opts.detectors /\ Detect(d))
=============================================================================
