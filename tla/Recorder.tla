------------------------------ MODULE Recorder ------------------------------
(***************************************************************************)
(* The writer of a live stream (libavio/include/Writer.hpp) and those who  *)
(* start and stop it: the user or an alarm toggles Reader::recording, and  *)
(* file_break() splits a long recording by clearing the flag, waiting for  *)
(* the writer to close its file and setting the flag again.                *)
(*                                                                         *)
(* The writer keeps the latest packets in a cache per stream, trimmed when *)
(* a video key frame arrives, and begins every file with it.  Times are    *)
(* those of Reader::real_time(), so that a pts of either stream is one.    *)
(***************************************************************************)
EXTENDS AvioQueue, FiniteSets, SequencesExt

CONSTANTS
  Options,      \* the sources: records of the fields of opts
  CacheTime,    \* cache_size_in_seconds
  MaxSkew,      \* how far the time of one stream may be ahead of the other's
  MaxTime,      \* bound: the time of a source's last packet
  MaxAsks,      \* bound: requests to start or to stop recording
  MaxBreaks,    \* bound: calls of startFileBreak()
  Null          \* the null packet

Streams == {"video", "audio"}

(* The n-th packet of a stream.                                            *)
Packet == [stream : Streams, n : Nat, pts : Nat, key : BOOLEAN]

ASSUME RecorderAssumption ==
  /\ Options \subseteq [source : SUBSET Streams, fed : SUBSET Streams,
                        written : SUBSET Streams, steps : SUBSET (Nat \ {0}),
                        keyStart : BOOLEAN, ends : 0..MaxTime,
                        fails : SUBSET {"alloc", "open", "write", "close"}]
  /\ \A o \in Options : o.written \subseteq o.fed /\ o.fed \subseteq o.source
  /\ CacheTime \in Nat \ {0}
  /\ {MaxSkew, MaxTime, MaxAsks, MaxBreaks} \subseteq Nat
  /\ Null \notin Packet

VARIABLES
  opts,         \* source: the streams the source has; fed: those that reach
                \* the writer; written: those it writes (not disabled, with a
                \* supported codec); steps: the distances between the times
                \* of a stream's packets; keyStart: the first video packet
                \* is a key frame; ends: the time of the last packet;
                \* fails: the calls on its files that may throw
  cache,        \* video_cache and audio_cache
  fmt,          \* fmt_ctx: "null", "open", or "bad" after open() or close()
                \* threw and left the context allocated
  file,         \* the packets of each stream given to the muxer for the
                \* current file
  recording,    \* Reader::recording
  wr, hand, saw,\* the writer thread: the packet it popped, the flag it read
  gone,         \* play() has deleted the writer and the reader
  fault,        \* a null pointer or a context without a file was used
  user,         \* the thread that asks for recording to start or stop
  brk,          \* the thread in file_break()
  taken,        \* the packets of each stream the writer popped so far
  recorded,     \* every packet written to a file so far
  refused,      \* every packet the muxer did not take: write_packet() logs
                \* the exception and drops it
  want, on,     \* recording is asked for; the last request has set the flag
  due,          \* the packets popped since it did
  failed,       \* open() or close() has thrown
  lag, slept,   \* how much of the stream passed while file_break() slept,
                \* since a file was last open and at most
  nask, nbreak

fileVars  == <<file, recorded, refused>>
cacheVars == <<cache, fileVars, fmt, failed>>
lagVars   == <<lag, slept>>
askVars   == <<user, want, on, nask>>
brkVars   == <<brk, nbreak>>
vars == <<opts, cacheVars, recording, wr, hand, saw, gone, fault, askVars, brkVars,
          taken, due, lagVars>>

Nothing == [s \in Streams |-> <<>>]
LastPts(s) == IF taken[s] = <<>> THEN 0 ELSE Last(taken[s]).pts

Init ==
  /\ opts \in Options /\ failed = FALSE
  /\ cache = Nothing
  /\ fmt = "null" /\ file = Nothing /\ recording = FALSE
  /\ wr = "pop" /\ hand = Null /\ saw = FALSE /\ gone = FALSE /\ fault = FALSE
  /\ user = "idle" /\ brk = "idle"
  /\ taken = Nothing /\ recorded = {} /\ refused = {} /\ due = {}
  /\ want = FALSE /\ on = FALSE
  /\ lag = 0 /\ slept = 0 /\ nask = 0 /\ nbreak = 0

-----------------------------------------------------------------------------
(* push_cache_pkt().                                                       *)

(* The audio cache begins with the first packet of the given time or later *)
(* and is left alone when it has none.                                     *)
TrimAudioOffByOne(q, time) ==                                    \* mutant
  IF FindPts(q, time) = NotFound THEN q ELSE EraseFront(q, FindPts(q, time) + 1)
TrimAudio(q, time) ==
  IF FindPts(q, time) = NotFound THEN q ELSE EraseFront(q, FindPts(q, time))

(* When a key frame enters: from the back, the first key frame that leaves *)
(* CacheTime of video before the new one becomes the front of the cache,   *)
(* and if none is old enough the first key frame does.                     *)
KeysOf(q) == {i \in 0..(Len(q) - 1) : q[i + 1].key}
FrontKeyLatest(q, time) == Greatest(KeysOf(q))                   \* mutant
FrontKeyFirst(q, time) == Least(KeysOf(q))                       \* mutant
FrontKeyOrZero(q, time) ==                                       \* mutant
  LET early == {i \in KeysOf(q) : time - q[i + 1].pts >= CacheTime}
  IN  IF early # {} THEN Greatest(early) ELSE 0
FrontKey(q, time) ==
  LET early == {i \in KeysOf(q) : time - q[i + 1].pts >= CacheTime}
  IN  IF early # {} THEN Greatest(early) ELSE Least(KeysOf(q))

CacheVideo(p) ==
  LET q == cache["video"]
  IN  IF p.key /\ FindLastKeyFrame(q, Len(q) - 1) # NotFound
      THEN LET k == FrontKey(q, p.pts)
           IN  [video |-> Push(EraseFront(q, k), p),
                audio |-> TrimAudio(cache["audio"], q[k + 1].pts)]
      ELSE [cache EXCEPT !["video"] = Push(@, p)]

(* Without a video stream the audio cache is trimmed by time.              *)
CacheAudio(p) ==
  LET q == cache["audio"]
  IN  [cache EXCEPT !["audio"] =
         Push(IF "video" \in opts.source THEN q ELSE TrimAudio(q, p.pts - CacheTime), p)]

PushCache(p) == IF p.stream = "video" THEN CacheVideo(p) ELSE CacheAudio(p)

(* The loop that trims it looks at the front of the cache it has emptied.  *)
Overtrims(p) ==
  /\ p.stream = "audio" /\ "video" \notin opts.source /\ cache["audio"] # <<>>
  /\ FindPts(cache["audio"], p.pts - CacheTime) = NotFound

-----------------------------------------------------------------------------
(* write_cache(): the two caches merged by time, until one is exhausted;   *)
(* the other one is written on its own only when the first was empty.  A   *)
(* turn writes one video packet, or the audio up to the next video packet. *)
(* The muxer interleaves what it is given: a file is a list per stream.    *)
MergedVideo(v, a) == <<Len(v), 0>>                               \* mutant
Merged(v, a) ==
  LET m[at \in (0..Len(v)) \X (0..Len(a))] ==
        LET i == at[1]  j == at[2]
        IN  IF i = Len(v) \/ j = Len(a) THEN at
            ELSE IF v[i + 1].pts <= a[j + 1].pts THEN m[<<i + 1, j>>]
            ELSE m[<<i, Least({x \in j..Len(a) : x < Len(a) => a[x + 1].pts > v[i + 1].pts})>>]
  IN  m[<<0, 0>>]

WriteCacheNot == Nothing                                         \* mutant
WriteCache ==
  LET v == cache["video"]  a == cache["audio"]  end == Merged(v, a)
  IN  IF v = <<>> \/ a = <<>> THEN cache
      ELSE [video |-> SubSeq(v, 1, end[1]), audio |-> SubSeq(a, 1, end[2])]

(* write_packet(): a disabled stream is not written, and a packet that     *)
(* av_interleaved_write_frame() fails on is lost while the file goes on.   *)
With(q, p) == [q EXCEPT ![p.stream] = Append(@, p)]
Writable(q) == [s \in Streams |-> IF s \in opts.written THEN q[s] ELSE <<>>]

AddToFile(old, q) ==
  LET new == UNION {Range(Writable(q)[s]) : s \in Streams}
  IN  /\ file' = [s \in Streams |-> old[s] \o Writable(q)[s]]
      /\ \E bad \in IF "write" \in opts.fails THEN SUBSET new ELSE {{}} :
           /\ recorded' = recorded \cup (new \ bad)
           /\ refused' = refused \cup bad
      /\ UNCHANGED fault

-----------------------------------------------------------------------------
(* Writer::write(): the writer takes the next packet of either stream, or  *)
(* the null packet, and reads the flag.                                    *)
Take(p) ==
  /\ wr = "pop" /\ wr' = "work" /\ hand' = p /\ saw' = recording
  /\ taken' = IF p = Null THEN taken ELSE With(taken, p)
  /\ due' = IF on /\ p # Null THEN due \cup {p} ELSE due
  /\ UNCHANGED <<opts, cacheVars, recording, gone, fault, askVars, brkVars>>

Sleeping == brk \in {"poll", "resume"} /\ fmt = "null"

TakePacket == \E s \in opts.fed, d \in opts.steps :
  LET pts == LastPts(s) + d
  IN  /\ pts <= opts.ends /\ \A o \in opts.fed \ {s} : pts - LastPts(o) <= MaxSkew
      /\ lag' = IF Sleeping THEN lag + d ELSE 0
      /\ slept' = IF lag' > slept THEN lag' ELSE slept
      /\ \E key \in IF s = "audio" THEN {FALSE}
                    ELSE IF taken[s] = <<>> THEN {opts.keyStart} ELSE BOOLEAN :
           Take([stream |-> s, n |-> Len(taken[s]) + 1, pts |-> pts, key |-> key])

TakeNull == Take(Null) /\ UNCHANGED lagVars

(* The file is opened when it is not, and begins with the cache.           *)
OpenFile ==
  /\ fmt = "null"
  /\ \/ fmt' = "open" /\ AddToFile(Nothing, With(WriteCache, hand)) /\ UNCHANGED failed
     \/ /\ \/ "alloc" \in opts.fails /\ UNCHANGED fmt
           \/ "open" \in opts.fails /\ fmt' = "bad"
        /\ failed' = TRUE /\ UNCHANGED <<fileVars, fault>>

WriteFile ==
  /\ \/ fmt = "open" /\ AddToFile(file, With(Nothing, hand))
     \/ fmt = "bad" /\ fault' \in BOOLEAN /\ UNCHANGED fileVars
  /\ UNCHANGED <<fmt, failed>>

CloseFileAtEnd ==                                                \* mutant
  /\ fmt' = IF hand = Null THEN "null" ELSE fmt
  /\ UNCHANGED <<fileVars, fault, failed>>

(* close(): a failure leaves fmt_ctx set, and closing such a context again *)
(* may succeed, fail, or flush a file that is not there.                   *)
CloseFile ==
  /\ UNCHANGED fileVars
  /\ \/ fmt = "null" /\ UNCHANGED <<fmt, fault>>
     \/ fmt # "null" /\ fmt' = "null" /\ UNCHANGED fault
     \/ fmt = "open" /\ "close" \in opts.fails /\ fmt' = "bad" /\ UNCHANGED fault
     \/ fmt = "bad" /\ fault' \in BOOLEAN /\ UNCHANGED fmt
  /\ failed' = (failed \/ fmt' = "bad")

CachePacketNull ==                                               \* mutant
  /\ cache' = [cache EXCEPT !["video"] = Push(@, hand)]
  /\ wr' = IF hand = Null THEN "done" ELSE "pop"
CachePacket ==
  IF hand = Null THEN wr' = "done" /\ UNCHANGED cache
  ELSE cache' = PushCache(hand) /\ wr' = "pop"

Write ==
  /\ wr = "work"
  /\ IF saw /\ hand # Null THEN OpenFile \/ WriteFile ELSE CloseFile
  /\ CachePacket
  /\ hand' = Null /\ saw' = FALSE
  /\ UNCHANGED <<opts, recording, gone, askVars, brkVars, taken, due, lagVars>>

(* The loop of push_cache_pkt() past the end of the audio cache.           *)
WriteFault ==
  /\ wr = "work" /\ hand # Null /\ Overtrims(hand) /\ fault' = TRUE
  /\ UNCHANGED <<opts, cacheVars, recording, wr, hand, saw, gone, askVars, brkVars,
                 taken, due, lagVars>>

(* play() joined the writer thread and deletes the writer, which closes a  *)
(* context that is left, and the reader.                                   *)
Delete ==
  /\ wr = "done" /\ ~gone /\ gone' = TRUE
  /\ fmt' = "null" /\ fault' \in IF fmt = "bad" THEN BOOLEAN ELSE {FALSE}
  /\ UNCHANGED <<opts, cache, fileVars, failed, recording, wr, hand, saw, askVars,
                 brkVars, taken, due, lagVars>>

Writing ==
  /\ ~fault
  /\ \/ TakePacket \/ Delete
     \/ IF wr = "work" /\ hand # Null /\ Overtrims(hand) THEN WriteFault ELSE Write

Writer == Writing \/ (~fault /\ TakeNull)

-----------------------------------------------------------------------------
(* An alarm or the user: isRecording() first, toggleRecording() if it is   *)
(* not what is wanted.                                                     *)
Rest == UNCHANGED <<opts, cacheVars, wr, hand, saw, taken>>

Ask == \E b \in BOOLEAN :
  /\ user = "idle" /\ ~gone /\ nask < MaxAsks
  /\ want' = b /\ nask' = nask + 1
  /\ user' = IF recording # b THEN "toggle" ELSE "idle"
  /\ UNCHANGED <<on, due, recording, gone, fault, brkVars, lagVars>> /\ Rest

ToggleRecording ==
  /\ user = "toggle" /\ user' = "idle"
  /\ IF gone THEN UNCHANGED <<recording, on, due>>
     ELSE recording' = ~recording /\ on' = recording' /\ due' = {}
  /\ UNCHANGED <<want, nask, gone, fault, brkVars, lagVars>> /\ Rest

User == ~fault /\ (Ask \/ ToggleRecording)

-----------------------------------------------------------------------------
(* file_break(), on a detached thread.                                     *)
StartFileBreak ==
  /\ brk = "idle" /\ ~gone /\ nbreak < MaxBreaks
  /\ nbreak' = nbreak + 1
  /\ IF recording THEN brk' = "poll" /\ recording' = FALSE
                  ELSE UNCHANGED <<brk, recording>>
  /\ UNCHANGED <<gone, fault, askVars, due, lagVars>> /\ Rest

(* The loop ends when the writer has closed its file.  After the deletion  *)
(* the thread returns, or uses the writer it had just found to be there.   *)
BreakPoll ==
  /\ brk = "poll"
  /\ \/ ~gone /\ fmt = "null" /\ brk' = "resume" /\ UNCHANGED fault
     \/ gone /\ brk' = "idle" /\ UNCHANGED fault
     \/ gone /\ fault' = TRUE /\ UNCHANGED brk
  /\ UNCHANGED <<recording, nbreak, gone, askVars, due, lagVars>> /\ Rest

BreakResume ==
  /\ brk = "resume" /\ brk' = "idle"
  /\ IF gone THEN fault' \in BOOLEAN /\ UNCHANGED recording
             ELSE recording' = TRUE /\ UNCHANGED fault
  /\ UNCHANGED <<nbreak, gone, askVars, due, lagVars>> /\ Rest

Resuming  == ~fault /\ (BreakPoll \/ BreakResume)
FileBreak == ~fault /\ (StartFileBreak \/ BreakPoll \/ BreakResume)

Over == fault \/ (gone /\ user = "idle" /\ brk = "idle")
Ended == Over /\ UNCHANGED vars

Next == Writer \/ User \/ FileBreak \/ Ended

Spec == Init /\ [][Next]_vars

(* Packets keep coming, a stream need not end, and threads that can run do;*)
(* nobody has to ask for anything.                                         *)
Fairness == WF_vars(Writing) /\ WF_vars(~fault /\ ToggleRecording) /\ WF_vars(Resuming)

FairSpec == Spec /\ Fairness
=============================================================================
