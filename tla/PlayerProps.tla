----------------------------- MODULE PlayerProps -----------------------------
(***************************************************************************)
(* What a Player promises.                                                 *)
(***************************************************************************)
EXTENDS Player

(* Types and queue capacities: no push() ever exceeds max_size.            *)
TypeQueues ==
  /\ pkts \in [Outs -> Seq(Packets)]     /\ \A o \in Outs : Len(pkts[o]) <= PktCap
  /\ decoded \in [Streams -> Seq(Frames)]
  /\ \A m \in Streams : Len(decoded[m]) <= FrameCap
  /\ filtered \in [Streams -> Seq(Frames)]
  /\ \A m \in Streams : Len(filtered[m]) <= FrameCap
  /\ attached \subseteq Outs

TypeFlags ==
  /\ closed \in BOOLEAN /\ terminated \in BOOLEAN /\ paused \in BOOLEAN
  /\ seek \in 0..MaxSeeks /\ oneShot \in BOOLEAN /\ fault \in BOOLEAN

TypeReader ==
  /\ rd \in {"off", "top", "reading", "clear1", "seekreading", "clear2", "deref",
             "push", "eof_video", "eof_audio", "eof_writer", "error", "done"}
  /\ rhand \in Outs \X Frames
  /\ nread \in 0..MaxPkts /\ cut \in 0..MaxPkts /\ sought \in 0..MaxSeeks

TypeDecoders ==
  /\ dec \in [Streams -> {"off", "pop", "check", "emit", "done"}]
  /\ dhand \in [Streams -> Packets]
  /\ dout \in [Streams -> Seq(Frames)] /\ held \in [Streams -> Seq(Pkt)]

TypeFilters ==
  /\ fil \in [Streams -> {"off", "pop", "check", "push", "done"}]
  /\ fout \in [Streams -> Seq(Frames)]

TypeSinks ==
  /\ snk \in [Streams -> {"off", "top", "fetch", "pop", "check", "done"}]
  /\ shand \in [Streams -> Frames] /\ shown \in [Streams -> Pkt \cup {0}]

TypeCalls ==
  /\ clr \in [{"reader", "gui"} -> [at : {"idle", "pkts", "frames", "flush"},
                                    todo : SUBSET Streams]]
  /\ term \in [Callers -> [at : {"idle", "queues", "push", "detach", "done"},
                           todo : SUBSET Outs]]

TypePlay ==
  /\ opts \in Options /\ wr \in {"off", "pop", "done"}
  /\ play \in {"connect", "setup", "audio", "display", "catch", "join", "done"}
  /\ gui \in {"idle", "set", "clear"} /\ stop \in {"no", "lost", "sent"}
  /\ nseek \in 0..MaxSeeks /\ npause \in 0..MaxPauses

TypeOK == TypeQueues /\ TypeFlags /\ TypeReader /\ TypeDecoders /\ TypeFilters
          /\ TypeSinks /\ TypeCalls /\ TypePlay

-----------------------------------------------------------------------------
HasNull(q) == \E i \in 1..Len(q) : q[i] = Null

(* No stage waits on a dead one: when the decoder of a stream is gone the  *)
(* filter is gone too or still has a null frame coming, and likewise the   *)
(* end of the pipeline behind a filter that is gone, unless terminated     *)
(* makes it leave without one.                                             *)
FilterFed(m) == dec[m] = "done" =>
  fil[m] = "done" \/ HasNull(decoded[m]) \/ HasNull(fout[m])
SinkFed(m) == fil[m] = "done" =>
  \/ snk[m] = "done" \/ HasNull(filtered[m])
  \/ snk[m] = "check" /\ shand[m] = Null
  \/ snk[m] = "top" /\ terminated
StagesFed == \A m \in Streams : FilterFed(m) /\ SinkFed(m)

(* A reader that is gone has left, or a thread in terminate() is about to  *)
(* leave, a null packet for the decoder of the video stream.               *)
DecoderFed == rd = "done" /\ "video" \in Media =>
  \/ dec["video"] \in {"off", "done"} \/ HasNull(pkts["video"])
  \/ dec["video"] \in {"check", "emit"} /\ dhand["video"] = Null
  \/ \E c \in Callers : term[c].at = "push" /\ "video" \in term[c].todo

(* The writer of a live stream is never left waiting by its decoders.      *)
WriterFed == wr = "pop" /\ (\E m \in Streams : dec[m] = "done") => HasNull(pkts["writer"])

(* Frames of a stream are rendered in the order they were read, whatever   *)
(* is dropped, cleared or flushed on the way, and those of a file, until   *)
(* the first seek, without a gap ...                                       *)
InOrder ==
  [][/\ \A m \in Streams : shown'[m] >= shown[m]
     /\ nseek = 0 => shown["video"]' \in {shown["video"], shown["video"] + 1}]_vars
(* ... up to its last packet, however the user pauses it.                  *)
PlayedOut == play = "done" /\ nseek = 0 /\ ~terminated /\ ~Live => shown["video"] = nread

(* A codec is never given a packet of one side of a seek while it holds    *)
(* packets of the other: it would decode it against the wrong references.  *)
(* (When the user neither pauses nor stops the player: the queues are then *)
(* cleared by another thread as well, and the flush packet can be lost.)   *)
Codec(m) == {p \in Pkt : \/ \E i \in 1..Len(dout[m]) : dout[m][i] = p
                         \/ \E i \in 1..Len(held[m]) : held[m][i] = p}
FlushedBySeek == npause = 0 =>
    \A m \in Streams : \A p, q \in Codec(m) : ~(p <= cut /\ cut < q)

(* A seek the user made stays pending until av_seek_frame executed it or   *)
(* the stream ended: the position asked for is never dropped.              *)
SeekNotLost == [][seek # 0 /\ seek' = 0 => sought = seek \/ closed']_vars

-----------------------------------------------------------------------------
(* A thread is blocked in push() on a queue whose consumer has left or was *)
(* never started: one of the two ways, without seeks, in which play()      *)
(* cannot join its threads.                                                *)
BlockedPush ==
  \/ \E m \in Streams :
       \/ fil[m] \in {"off", "done"} /\ dec[m] = "emit" /\ Full(decoded[m], FrameCap)
       \/ snk[m] \in {"off", "done"} /\ fil[m] = "push" /\ Full(filtered[m], FrameCap)
       \/ wr = "done" /\ dec[m] = "emit" /\ Full(pkts["writer"], PktCap)
       \/ dec[m] = "done" /\ rd = "push" /\ rhand[1] = m /\ Full(pkts[m], PktCap)
  \/ wr = "done" /\ rd = "push" /\ rhand[1] = "writer" /\ Full(pkts["writer"], PktCap)

(* The audio callback of a live stream removed the null packet itself to   *)
(* reduce latency: the decoder waits at an empty queue nobody fills.       *)
EndDropped == /\ "audio" \in Media /\ Live /\ rd = "done"
              /\ dec["audio"] = "pop" /\ pkts["audio"] = <<>>

Returned == play = "done" \/ fault

(* Clicking stop on a stream stops it: play() returns.                     *)
StopReturns == (stop = "sent") ~> Returned
(* It does, and so it does when the stream ends or fails, unless a thread  *)
(* is left blocked in push(), or the end of the audio stream was dropped.  *)
LiveEnds == (stop = "sent" \/ rd = "done") ~> (Returned \/ BlockedPush \/ EndDropped)

(* The clear_queues() of a seek made in a pause runs in the user's thread  *)
(* and removed the null element the reader's end had sent down.            *)
EndCleared == nseek > 0 /\ npause > 0 /\ ~StagesFed

(* When a file ends play() returns, unless the user holds the pause, a     *)
(* seek was still pending when the reader left - it stays pending, and a   *)
(* decoder drops the null packet for it - or a paused seek removed it.     *)
FileEnds == (rd = "done") ~> (Returned \/ paused \/ (closed /\ seek # 0) \/ EndCleared)

-----------------------------------------------------------------------------
(* The player as its owner sees it.  The call of mediaPlayingStarted is in *)
(* the step that leaves set-up, that of errorCallback in PlayThrow, that of*)
(* mediaPlayingStopped in Join.                                            *)
Phase == IF play = "done" THEN "over"
         ELSE IF term["play"].at # "idle" THEN "failed"
         ELSE IF play \in {"connect", "setup", "audio"} THEN "starting" ELSE "playing"

Owner == INSTANCE Playback WITH phase <- Phase, picture <- shown["video"],
                                Blank <- 0

(* A player is a Playback: no picture is rendered before it has started,   *)
(* after it failed, or after mediaPlayingStopped, and each callback comes  *)
(* once.  (Sound may be played before: the device is opened first.)        *)
PlaysBack == Owner!Spec
=============================================================================
