------------------------------ MODULE Playback ------------------------------
(***************************************************************************)
(* What a player is to its owner, who sees only its callbacks:             *)
(* mediaPlayingStarted once or errorCallback at most once, frames between  *)
(* the start and the end of a player that did not fail, and                *)
(* mediaPlayingStopped as the last thing of all (when the connection       *)
(* fails, errorCallback comes in the same step).  Module Player implements *)
(* it.                                                                     *)
(***************************************************************************)
CONSTANT Blank  \* the picture before the first frame

VARIABLES
  phase,        \* "starting", "playing", "failed" or "over"
  picture       \* what was rendered last

Init == phase = "starting" /\ picture = Blank

Started  == phase = "starting" /\ phase' = "playing" /\ UNCHANGED picture
Failed   == phase = "starting" /\ phase' = "failed" /\ UNCHANGED picture
Rendered == phase = "playing" /\ UNCHANGED phase
Ended    == phase # "over" /\ phase' = "over" /\ UNCHANGED picture

Next == Started \/ Failed \/ Rendered \/ Ended

Spec == Init /\ [][Next]_<<phase, picture>>
=============================================================================
