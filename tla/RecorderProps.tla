---------------------------- MODULE RecorderProps ----------------------------
(***************************************************************************)
(* What the recorder of a live stream promises.                            *)
(***************************************************************************)
EXTENDS Recorder

(* Types.                                                                  *)
TypeOK ==
  /\ opts \in Options
  /\ cache \in [Streams -> Seq(Packet)]
  /\ fmt \in {"null", "open", "bad"} /\ file \in [Streams -> Seq(Packet)]
  /\ {recording, saw, gone, fault, want, on, failed} \subseteq BOOLEAN
  /\ wr \in {"pop", "work", "done"} /\ hand \in Packet \cup {Null}
  /\ user \in {"idle", "toggle"} /\ brk \in {"idle", "poll", "resume"}
  /\ taken \in [Streams -> Seq(Packet)] /\ due \subseteq Packet
  /\ recorded \subseteq Packet /\ refused \subseteq Packet
  /\ lag \in 0..slept /\ slept \in Nat /\ nask \in 0..MaxAsks /\ nbreak \in 0..MaxBreaks

-----------------------------------------------------------------------------
(* The packets that have gone through push_cache_pkt().                    *)
Past(s) == IF hand # Null /\ hand.stream = s THEN Front(taken[s]) ELSE taken[s]
Keys(q) == {i \in DOMAIN q : q[i].key}

(* The caches are what came last.  That of the video reaches back to the   *)
(* start of the stream or CacheTime before the newest key frame, and that  *)
(* of the audio as far as that of the video: the moments before an alarm   *)
(* are there when it starts a recording.                                   *)
CacheCovers ==
  LET v == cache["video"]  past == Past("video")
  IN  /\ \A s \in Streams : IsSuffix(cache[s], Past(s))
      /\ \/ v = past
         \/ Keys(past) # {} /\ Head(v).pts <= past[Greatest(Keys(past))].pts - CacheTime
         \/ Keys(past) # {} /\ Head(v).n = Least(Keys(past))
      /\ v # <<>> => \A p \in Range(Past("audio")) :
           p.pts >= Head(v).pts => p \in Range(cache["audio"])

(* The video cache is trimmed as far as that allows: only its first key    *)
(* frame is that much older than the newest, and once there is a second    *)
(* one it begins with a key frame.                                         *)
VideoTrimmed ==
  LET v == cache["video"]
  IN  /\ \A i, j \in Keys(v) : 1 < i /\ i < j /\ Least(Keys(v)) < i
                                 => v[j].pts - v[i].pts < CacheTime
      /\ Cardinality(Keys(v)) > 1 => Head(v).key

(* The first packet of the video cache is always a key frame.              *)
KeyFront == cache["video"] # <<>> => Head(cache["video"]).key

(* Cached audio is of the last CacheTime, or of the time the video cache   *)
(* covers: the cache does not grow with the length of the stream.          *)
AudioBounded ==
  LET a == cache["audio"]
  IN  \A i \in DOMAIN a : cache["video"] = <<>> => Last(a).pts - a[i].pts <= CacheTime

-----------------------------------------------------------------------------
(* A file is opened with all packets of the cache: they are in it, but for *)
(* those the muxer refuses ...                                             *)
PreAlarmKept ==
  [][fmt = "null" /\ fmt' = "open" => \A s \in opts.written :
       Range(cache[s]) \subseteq Range(file'[s])]_vars

(* ... or at least with all that is older than the end of the other cache: *)
(* a stream that is alone in the caches is written whole.                  *)
PreAlarmMerged ==
  [][fmt = "null" /\ fmt' = "open" => \A s \in opts.written :
       \A p \in Range(cache[s]) :
         (\A o \in Streams \ {s} : cache[o] # <<>> => p.pts < Last(cache[o]).pts)
           => p \in Range(file'[s])]_vars

(* What has been given to the muxer of some file.                          *)
Given == recorded \cup refused

(* Sources of one stream that begin with a key frame, as long as no file   *)
(* failed to open or close and the stream has not gone on, while           *)
(* file_break() slept, for as long as the cache lasts.                     *)
Whole == /\ Cardinality(opts.fed) = 1 /\ opts.written = opts.fed /\ opts.keyStart
         /\ \A d \in opts.steps : slept + d <= CacheTime
         /\ ~failed

(* A failed write costs the one packet, and nothing else is lost: what the *)
(* muxer of a file is given has no gap and begins with a key frame, is in  *)
(* the file unless it was refused, and each packet from the moment a       *)
(* request sets the flag is given to a file, or is in the cache the next   *)
(* file begins with, also across breaks.                                   *)
NothingLost == Whole =>
  /\ fmt = "open" => \A s \in opts.fed :
       /\ \A i \in 1..(Len(file[s]) - 1) : file[s][i + 1].n = file[s][i].n + 1
       /\ s = "video" => Head(file[s]).key
       /\ Range(file[s]) \ refused \subseteq recorded
  /\ \A p \in due \ {hand} : p \in Given \/ p \in Range(cache[p.stream])

(* Adjacent files of one recording overlap (Writer.hpp:227): some packet   *)
(* goes to both, and is in both unless the muxer of one refuses it.        *)
Overlap == [][Whole /\ fmt = "null" /\ fmt' = "open" /\ due \cap Given # {} =>
  \E s \in opts.fed : \E p \in Range(file'[s]) : p \in Given]_vars

(* A file break takes effect: while file_break() waits for the writer to   *)
(* close the file, the writer does not decide to add to it.                *)
FileLimited == [][brk = "poll" /\ want /\ fmt = "open" /\ wr = "pop" => ~saw']_vars

(* A request is kept: recording stays on, or off, until the next one.      *)
AskKept == user = "idle" /\ brk = "idle" => recording = want

(* Another packet of the stream can still come.                            *)
Lasts == \A s \in opts.fed : \E d \in opts.steps : LastPts(s) + d <= opts.ends

(* file_break() does not wait for the stream to end: while it goes on the  *)
(* writer closes its file and file_break() returns, unless the file cannot *)
(* be closed or a request sets the flag again while it polls; then it      *)
(* waits for as long as the recording lasts (FileLimited).                 *)
BreakEnds == (brk = "poll" /\ Lasts) ~> (brk = "idle" \/ recording \/ fault \/ fmt = "bad")
=============================================================================
