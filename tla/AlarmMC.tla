------------------------------ MODULE AlarmMC ------------------------------
EXTENDS AlarmProps

Camera(ds, a, s, u) ==
  [detectors |-> ds, always |-> a, slow |-> s, clicks |-> u]

(* Two detectors and a slow disk; two, and everything the user does; a     *)
(* camera that records always; a client of a server that detects.          *)
Cameras ==
  {Camera({"video", "audio"}, FALSE, TRUE, {"record", "analyze", "enable", "stop"}),
   Camera({"video", "audio"}, FALSE, FALSE, {"record", "analyze", "enable", "stop"}),
   Camera({"video"}, TRUE, FALSE, {"record", "key", "analyze", "enable", "stop"}),
   Camera({"remote"}, FALSE, FALSE, {"analyze"})}

Plain == {Camera({"video"}, FALSE, FALSE, {"record", "stop"})}
=============================================================================
