----------------------------- MODULE RecorderMC -----------------------------
(* Constants of module Recorder for model checking: kinds of source.       *)
EXTENDS RecorderProps

From(s, steps, key, end) ==
  [source |-> s, fed |-> s, written |-> s, steps |-> steps, keyStart |-> key,
   ends |-> end, fails |-> {}]

Camera    == From({"video"}, {1}, TRUE, MaxTime)
Radio     == From({"audio"}, {1}, TRUE, MaxTime)
(* a stream that pauses for longer than the cache lasts                    *)
Gaps      == From({"audio"}, {1, 3}, TRUE, MaxTime)
AVCamera  == From({"video", "audio"}, {1}, FALSE, 4)
(* video disabled by the user, and audio only listened to, not recorded    *)
NoVideo   == [AVCamera EXCEPT !.fed = {"audio"}, !.written = {"audio"}]
NoAudio   == [AVCamera EXCEPT !.written = {"video"}, !.ends = 3]
(* a disk that is gone, and disks that are full now and then               *)
NoDisk    == [Camera EXCEPT !.fails = {"alloc", "open", "close"}, !.ends = 4]
FullDisk  == [Camera EXCEPT !.fails = {"write", "close"}, !.ends = 3]
FullAudio == [Radio EXCEPT !.fails = {"write"}, !.ends = 5]

Sources    == {Camera, Radio, Gaps, AVCamera, NoVideo, NoAudio, NoDisk, FullDisk, FullAudio}
OneCamera  == {Camera}
OneAV      == {AVCamera}
=============================================================================
