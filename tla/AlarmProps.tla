----------------------------- MODULE AlarmProps -----------------------------
(* What the alarm of a camera and its recording are for.                   *)
EXTENDS Alarm

TypeOK ==
  /\ opts \in Options
  /\ {enable, setting, analyze, recording, manual, early, alarm, scene, button, pending}
       \subseteq BOOLEAN
  /\ by \in {"auto", "hand", "blind", "late"}
  /\ stream \in {"down", "connect", "play", "stop"}
  /\ timer \in 0..Off /\ since \in 0..Forever
  /\ signals \in Seq({"start", "stop"}) /\ Len(signals) < MaxSignals + Cardinality(Kinds)
  /\ at \in [opts.detectors -> {"idle", "start", "start+", "stop", "stop+", "toggle"}]
  /\ gui \in {"idle", "stop", "stop+", "click", "enable"}
  /\ net \subseteq [age : 0..MaxDelay, on : BOOLEAN]
  /\ states \in {"none", "off", "on"} /\ last \in 0..(MaxDelay + 1) /\ age \in 0..(Expiry + 1)
  /\ clicks \in 0..MaxClicks /\ losses \in 0..MaxLosses

(* The frames of a client load the states of its server, and its audio     *)
(* thread may detect alarms as well: when the analysis is then switched on *)
(* between the two, the stop signal of the one ends the timer of the other.*)
(* (The cameras of the properties do not do both.)                         *)
Unmixed ==
  "remote" \in opts.detectors => opts.detectors = {"remote"} \/ "analyze" \notin opts.clicks

(* An alarm does not outlive what caused it: a camera alarms only while    *)
(* something was in front of it within the lag time, or, on a client, the  *)
(* lag time of its server, its own, and the time a broadcast and the 10    *)
(* seconds of GLWidget.timerCallback (glwidget.py:190) take, whatever      *)
(* messages are lost, late or doubled.  (The time in which the window      *)
(* itself waits for the disk comes on top: it handles no timer then.)      *)
AlarmFresh ==
  Unmixed /\ alarm => since <= Lag + (IF "remote" \in opts.detectors THEN Remote ELSE 0)

(* Nothing of an alarm is left behind: when the lag timer is not running   *)
(* and no thread is in setAlarmState() (player.py:109), the camera does    *)
(* not alarm, and unless it records always it records only at the user's   *)
(* request (manual_recording), however the detectors of video and audio,   *)
(* the timer, the record button and the analysis interleaved.  (Unless a   *)
(* thread waited for the disk, player.py:126 or systemtab.py:263, until    *)
(* the timer had expired or the analysis was switched off: the recording   *)
(* it then starts has no timer.)                                           *)
AtRest == Quiet /\ timer = Off /\ stream = "play"
Settled ==
  Unmixed /\ AtRest => ~alarm /\ (recording /\ ~opts.always => manual \/ by = "late")

(* A camera that records always does, from mediaPlayingStarted()           *)
(* (main.py:643) to the end of the stream, and the record button does not  *)
(* end it.  Named exceptions: the recording was switched on while it was   *)
(* connecting; a click on the button was then waiting for the disk; and    *)
(* the user ended it by Ctrl+R, which does not look at the button, or by   *)
(* the button before the window had handled onMediaStarted().              *)
AlwaysRecorded ==
  stream = "play" /\ opts.always /\ enable /\ ~early /\ ~opts.slow
    => recording \/ by = "blind"

(* As long as something is in front of the camera, its recording is always *)
(* switched on again (setAlarmState(), player.py:120-127), even when the   *)
(* two detectors have switched it on at once, and so off again.            *)
Watching ==
  /\ stream = "play" /\ analyze /\ enable /\ ~opts.always /\ scene
  /\ "remote" \notin opts.detectors
AlarmRecorded == <>[]Watching => []<>recording

(* The recording of an alarm is turned off when the lag time has passed,   *)
(* README.md:1455: once the timer has stopped, the camera records only if  *)
(* the user has started this recording.                                    *)
AlarmOver == AtRest /\ recording /\ ~opts.always => by = "hand"
=============================================================================
