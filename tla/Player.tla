------------------------------- MODULE Player -------------------------------
(***************************************************************************)
(* One avio::Player at work: play() connects the reader, starts a thread   *)
(* per stage and joins them when the stream is over.                       *)
(*                                                                         *)
(*   reader --pkts[m]--> decoder[m] --decoded[m]--> filter[m]              *)
(*                            |                        |                   *)
(*                     pkts["writer"]              filtered[m]             *)
(*                            v                        v                   *)
(*                         writer          display / audio callback        *)
(*                                                                         *)
(* Stages are ended by a null element (Null) that travels down the queues, *)
(* and by the flag Reader::terminated.  The user's thread stops, seeks and *)
(* pauses at any moment.  Every blocking queue call and every read of a    *)
(* flag another thread writes is a step of its own.                        *)
(*                                                                         *)
(* A packet is the number it was read as; the frames it decodes to carry   *)
(* the same number.                                                        *)
(***************************************************************************)
EXTENDS AvioQueue, FiniteSets

CONSTANTS
  Options,      \* the kinds of player: records of the fields of opts
  PktCap,       \* capacity of the packet queues (128 in the code; 1 would
                \* not hold a null packet and the reader's last packet)
  FrameCap,     \* capacity of the frame queues (1 in the code)
  Null, Flush,  \* the null element and the "FLUSH" packet
  MayDrop,      \* packetDrop is installed: full video queue drops packets
  FilterOut,    \* how many frames a filter may return for one frame
  MaxDelay,     \* frames a codec may hold back until it is drained
  MaxPkts,      \* bound: packets of a source
  MaxSeeks,     \* bound: seeks the user makes
  MaxPauses     \* bound: times the user toggles the pause

Streams == {"video", "audio"}
Outs    == Streams \cup {"writer"}
Callers == {"gui", "play", "reader"}     \* the threads that run terminate()

ASSUME PlayerAssumption ==
  /\ Options \subseteq [media : SUBSET Streams, live : BOOLEAN, hidden : BOOLEAN,
                        packets : 0..MaxPkts, user : SUBSET {"stop", "seek", "pause"},
                        fails : SUBSET {"connect", "setup", "audio", "read"}]
  /\ \A o \in Options : o.hidden => o.live /\ o.media = {}
  /\ MayDrop \in BOOLEAN
  /\ PktCap \in Nat \ {0, 1} /\ FrameCap \in Nat \ {0}
  /\ Null \notin Nat /\ Flush \notin Nat /\ Null # Flush
  /\ FilterOut \subseteq Nat
  /\ MaxDelay \in Nat /\ MaxPkts \in Nat /\ MaxSeeks \in Nat /\ MaxPauses \in Nat

VARIABLES
  opts,         \* media: the streams played, the others are disabled; live:
                \* a writer thread runs, no seeking or pausing; hidden: the
                \* reader feeds the writer only; packets: the source has;
                \* user: what the user may do; fails: calls that may throw
  pkts,         \* [Outs -> packets]: video_pkts, audio_pkts, writer_pkts
  decoded,      \* [Streams -> frames] between decoder and filter
  filtered,     \* [Streams -> frames] between filter and display or audio
  attached,     \* the queues Reader's pointers are not null for
  closed, terminated, paused,   \* flags of Reader
  seek,         \* Reader::seek_pts: 0 is AV_NOPTS_VALUE, k the k-th request
  oneShot,      \* Display::one_shot
  rd, rhand,    \* reader thread: where it is, <<stream, packet>> in hand
  dec, dhand, dout, held,       \* decoder threads: packet in hand, elements
                                \* still to push, packets the codec holds
  fil, fout,    \* filter threads, elements still to push
  snk, shand,   \* display thread and SDL audio callback, frame in hand
  wr,           \* writer thread
  play,         \* the thread in play()
  clr,          \* clear_queues() as run by the reader and by the user
  term,         \* terminate() as run by each caller
  gui,          \* the user's thread inside seek()
  stop,         \* the user's stop: "no", "lost" (no reader yet), "sent"
  fault,        \* a null or deleted object was used: the process is gone
  nread, nseek, npause,         \* packets read, seeks and pauses so far
  sought, cut,  \* last request av_seek_frame executed, packets read by then
  shown         \* [Streams -> last frame rendered]

queues     == <<pkts, decoded, filtered, attached>>
flags      == <<closed, terminated, paused, seek, oneShot>>
readerVars == <<rd, rhand, nread, sought, cut>>
decVars    == <<dec, dhand, dout, held>>
filVars    == <<fil, fout>>
snkVars    == <<snk, shand, shown>>
guiVars    == <<gui, stop, nseek, npause>>
callVars   == <<clr, term>>
vars == <<opts, queues, flags, readerVars, decVars, filVars, snkVars, wr, play,
          callVars, guiVars, fault>>

Media  == opts.media
Live   == opts.live
Hidden == opts.hidden

Pkt     == 1..MaxPkts
Packets == Pkt \cup {Null, Flush}
Frames  == Pkt \cup {Null}

Idle == [at |-> "idle", todo |-> {}]

(* The reader object exists, and no thread has brought the process down.   *)
HasReader == play \notin {"connect", "done"}
Alive == ~fault

-----------------------------------------------------------------------------
(* Before play(): the constructor leaves every pointer null.               *)
Init ==
  /\ opts \in Options
  /\ pkts = [o \in Outs |-> <<>>]
  /\ decoded = [m \in Streams |-> <<>>] /\ filtered = [m \in Streams |-> <<>>]
  /\ attached = {}
  /\ closed = FALSE /\ terminated = FALSE /\ paused = FALSE
  /\ seek = 0 /\ oneShot = FALSE
  /\ rd = "off" /\ rhand = <<"writer", Null>>
  /\ dec = [m \in Streams |-> "off"] /\ dhand = [m \in Streams |-> Null]
  /\ dout = [m \in Streams |-> <<>>] /\ held = [m \in Streams |-> <<>>]
  /\ fil = [m \in Streams |-> "off"] /\ fout = [m \in Streams |-> <<>>]
  /\ snk = [m \in Streams |-> "off"] /\ shand = [m \in Streams |-> Null]
  /\ wr = "off" /\ play = "connect"
  /\ clr = [c \in {"reader", "gui"} |-> Idle]
  /\ term = [c \in Callers |-> Idle]
  /\ gui = "idle" /\ stop = "no" /\ fault = FALSE
  /\ nread = 0 /\ nseek = 0 /\ npause = 0 /\ sought = 0 /\ cut = 0
  /\ shown = [m \in Streams |-> 0]

-----------------------------------------------------------------------------
(* push() to a packet queue; the thread waits for room.                    *)
PushPktLossy(o, e) ==                                            \* mutant
  pkts' = IF Room(pkts[o], PktCap) THEN [pkts EXCEPT ![o] = Push(@, e)] ELSE pkts
PushPkt(o, e) ==
  Room(pkts[o], PktCap) /\ pkts' = [pkts EXCEPT ![o] = Push(@, e)]

-----------------------------------------------------------------------------
(* Reader::terminate(), run by the user's detached thread, by play() after *)
(* an exception and by the reader after a read error.  The flags come last.*)

TermFirst(S) == IF "video" \in S THEN "video"
                ELSE IF "audio" \in S THEN "audio" ELSE "writer"

StartTermFlagsOnly(c) ==                                         \* mutant
  term' = [term EXCEPT ![c] = [at |-> "queues", todo |-> {}]]
StartTerm(c) == term' = [term EXCEPT ![c] = [at |-> "queues", todo |-> Outs]]

TermRest == UNCHANGED <<opts, decoded, filtered, paused, seek, oneShot, readerVars,
                        decVars, filVars, snkVars, wr, play, clr, guiVars>>

TermQueue(c) ==
  LET o == TermFirst(term[c].todo)
  IN  /\ term[c].at = "queues" /\ term[c].todo # {} /\ HasReader
      /\ IF o \in attached /\ (o = "writer" \/ (~closed /\ ~terminated))
         THEN /\ pkts' = IF o = "writer" THEN pkts ELSE [pkts EXCEPT ![o] = <<>>]
              /\ term' = [term EXCEPT ![c].at = "push"]
         ELSE /\ term' = [term EXCEPT ![c].todo = @ \ {o}]
              /\ UNCHANGED pkts
      /\ UNCHANGED <<attached, closed, terminated, fault>> /\ TermRest

TermPush(c) ==
  LET o == TermFirst(term[c].todo)
  IN  /\ term[c].at = "push" /\ HasReader
      /\ IF o \in attached
         THEN /\ PushPkt(o, Null)
              /\ term' = [term EXCEPT ![c].at = "detach"]
              /\ UNCHANGED fault
         ELSE fault' = TRUE /\ UNCHANGED <<pkts, term>>
      /\ UNCHANGED <<attached, closed, terminated>> /\ TermRest

TermDetach(c) ==
  LET o == TermFirst(term[c].todo)
  IN  /\ term[c].at = "detach" /\ HasReader
      /\ attached' = attached \ {o}
      /\ term' = [term EXCEPT ![c] = [at |-> "queues", todo |-> @.todo \ {o}]]
      /\ UNCHANGED <<pkts, closed, terminated, fault>> /\ TermRest

TermFlags(c) ==
  /\ term[c].at = "queues" /\ term[c].todo = {} /\ HasReader
  /\ closed' = TRUE /\ terminated' = TRUE
  /\ term' = [term EXCEPT ![c] = [at |-> "done", todo |-> {}]]
  /\ UNCHANGED <<pkts, attached, fault>> /\ TermRest

(* The detached thread goes on after play() deleted the reader.            *)
TermOrphan ==
  /\ term["gui"].at \in {"queues", "push", "detach"} /\ play = "done"
  /\ fault' = TRUE
  /\ UNCHANGED <<pkts, attached, closed, terminated, term>> /\ TermRest

Terminate(c) == Alive /\ ( \/ TermQueue(c) \/ TermPush(c) \/ TermDetach(c)
                           \/ TermFlags(c) \/ (c = "gui" /\ TermOrphan) )

-----------------------------------------------------------------------------
(* Player::clear_queues(), run by the reader around av_seek_frame and by   *)
(* the user's thread when the player is paused.                            *)

ClearFirst(S) == IF "audio" \in S THEN "audio" ELSE "video"

StartClear(c) == clr' = [clr EXCEPT ![c] = [at |-> "pkts", todo |-> {}]]

ClearRest == UNCHANGED <<opts, attached, flags, readerVars, decVars, filVars, snkVars,
                         wr, play, term, guiVars, fault>>

ClearPkts(c) ==
  /\ clr[c].at = "pkts"
  /\ IF closed
     THEN clr' = [clr EXCEPT ![c] = Idle] /\ UNCHANGED pkts
     ELSE /\ clr' = [clr EXCEPT ![c] = [at |-> "frames", todo |-> Media]]
          /\ pkts' = [o \in Outs |-> IF o \in attached \ {"writer"}
                                     THEN <<>> ELSE pkts[o]]
  /\ UNCHANGED <<decoded, filtered>> /\ ClearRest

ClearFrames(c) ==
  LET m == ClearFirst(clr[c].todo)
  IN  /\ clr[c].at = "frames" /\ clr[c].todo # {}
      /\ decoded' = [decoded EXCEPT ![m] = <<>>]
      /\ clr' = [clr EXCEPT ![c].at = "flush"]
      /\ UNCHANGED <<pkts, filtered>> /\ ClearRest

ClearFlush(c) ==
  LET m == ClearFirst(clr[c].todo)
  IN  /\ clr[c].at = "flush" /\ PushPkt(m, Flush)
      /\ clr' = [clr EXCEPT ![c] = [at |-> "frames", todo |-> @.todo \ {m}]]
      /\ UNCHANGED <<decoded, filtered>> /\ ClearRest

ClearOutputs(c) ==
  /\ clr[c].at = "frames" /\ clr[c].todo = {}
  /\ filtered' = [m \in Streams |-> <<>>]
  /\ clr' = [clr EXCEPT ![c] = Idle]
  /\ UNCHANGED <<pkts, decoded>> /\ ClearRest

ClearQueues(c) ==
  Alive /\ HasReader /\ ( \/ ClearPkts(c) \/ ClearFrames(c)
                          \/ ClearFlush(c) \/ ClearOutputs(c) )

-----------------------------------------------------------------------------
(* Reader::read(), called in a loop until it returns 0.                    *)

ReaderRest == UNCHANGED <<opts, decoded, filtered, paused, oneShot, decVars, filVars,
                          snkVars, wr, play, guiVars>>

ReadTop ==
  /\ rd = "top"
  /\ IF seek = 0 THEN rd' = "reading" /\ UNCHANGED clr
                 ELSE rd' = "clear1" /\ StartClear("reader")
  /\ UNCHANGED <<pkts, attached, closed, terminated, seek, rhand, nread, sought,
                 cut, term, fault>> /\ ReaderRest

(* clear_callback returned: av_seek_frame moves to the request it finds.   *)
ReadSeek ==
  /\ rd = "clear1" /\ clr["reader"].at = "idle"
  /\ rd' = "seekreading" /\ sought' = seek /\ cut' = nread
  /\ UNCHANGED <<pkts, attached, closed, terminated, seek, rhand, nread, clr,
                 term, fault>> /\ ReaderRest

(* The packet is looked at: a closed reader returns, a packet whose queue  *)
(* is gone is freed.                                                       *)
Route(o) == rd' = IF closed THEN "done" ELSE IF o \in attached THEN "deref" ELSE "top"

(* av_read_frame returns a packet of a stream.                             *)
ReadPacket(o) ==
  /\ rd \in {"reading", "seekreading"} /\ nread < opts.packets
  /\ o \in IF Hidden THEN {"writer"} ELSE Media
  /\ nread' = nread + 1 /\ rhand' = <<o, nread + 1>>
  /\ IF rd = "reading" THEN Route(o) /\ UNCHANGED clr
                       ELSE rd' = "clear2" /\ StartClear("reader")
  /\ UNCHANGED <<pkts, attached, closed, terminated, seek, sought, cut, term,
                 fault>> /\ ReaderRest

ReadSeekDone ==
  /\ rd = "clear2" /\ clr["reader"].at = "idle"
  /\ seek' = 0 /\ Route(rhand[1])
  /\ UNCHANGED <<pkts, attached, closed, terminated, rhand, nread, sought, cut,
                 clr, term, fault>> /\ ReaderRest

(* The queue pointer is read again for full() and push().  terminate() may *)
(* have set it to null since: a data race, whose outcome is the null       *)
(* pointer or the value the compiler kept.                                 *)
ReadDeref ==
  /\ rd = "deref"
  /\ \/ /\ rd' = IF MayDrop /\ rhand[1] = "video" /\ Full(pkts["video"], PktCap)
                 THEN IF closed THEN "done" ELSE "top"
                 ELSE "push"
        /\ UNCHANGED fault
     \/ rhand[1] \notin attached /\ fault' = TRUE /\ UNCHANGED rd
  /\ UNCHANGED <<pkts, attached, closed, terminated, seek, rhand, nread, sought,
                 cut, clr, term>> /\ ReaderRest

ReadPush ==
  /\ rd = "push" /\ PushPkt(rhand[1], rhand[2])
  /\ rd' = IF closed THEN "done" ELSE "top"
  /\ UNCHANGED <<attached, closed, terminated, seek, rhand, nread, sought, cut,
                 clr, term, fault>> /\ ReaderRest

(* The end of the stream, or a timeout that is reported as one: closed is  *)
(* set, the seek forgotten, and every queue in turn gets a null packet.    *)
ReadEOF ==
  /\ rd \in {"reading", "seekreading"}
  /\ rd' = "eof_video" /\ closed' = TRUE /\ seek' = 0
  /\ UNCHANGED <<pkts, attached, terminated, rhand, nread, sought, cut, clr,
                 term, fault>> /\ ReaderRest

EofNextNoVideo == [eof_video  |-> <<"audio", "eof_audio">>,       \* mutant
                   eof_audio  |-> <<"audio", "eof_writer">>,
                   eof_writer |-> <<"writer", "done">>]
EofNext == [eof_video  |-> <<"video", "eof_audio">>,
            eof_audio  |-> <<"audio", "eof_writer">>,
            eof_writer |-> <<"writer", "done">>]

ReadEndMarker ==
  /\ rd \in DOMAIN EofNext
  /\ LET o == EofNext[rd][1]
     IN  IF o \in attached THEN PushPkt(o, Null) ELSE UNCHANGED pkts
  /\ rd' = EofNext[rd][2]
  /\ UNCHANGED <<attached, closed, terminated, seek, rhand, nread, sought, cut,
                 clr, term, fault>> /\ ReaderRest

(* Any other error: terminate().                                           *)
ReadError ==
  /\ rd \in {"reading", "seekreading"} /\ "read" \in opts.fails
  /\ rd' = "error" /\ StartTerm("reader")
  /\ UNCHANGED <<pkts, attached, closed, terminated, seek, rhand, nread, sought,
                 cut, clr, fault>> /\ ReaderRest

ReadErrorDone ==
  /\ rd = "error" /\ term["reader"].at = "done"
  /\ rd' = "done"
  /\ UNCHANGED <<pkts, attached, closed, terminated, seek, rhand, nread, sought,
                 cut, clr, term, fault>> /\ ReaderRest

Reader ==
  Alive /\ ( \/ ReadTop \/ ReadSeek \/ (\E o \in Outs : ReadPacket(o))
             \/ ReadSeekDone \/ ReadDeref \/ ReadPush \/ ReadEOF
             \/ ReadEndMarker \/ ReadError \/ ReadErrorDone )

-----------------------------------------------------------------------------
(* Decoder::decode() of stream m.                                          *)

DecRest == UNCHANGED <<opts, filtered, attached, flags, readerVars, filVars, snkVars,
                       wr, play, callVars, guiVars, fault>>

DecPop(m) ==
  /\ dec[m] = "pop" /\ pkts[m] # <<>>
  /\ dhand' = [dhand EXCEPT ![m] = Head(pkts[m])]
  /\ pkts' = [pkts EXCEPT ![m] = Tail(@)]
  /\ dec' = [dec EXCEPT ![m] = "check"]
  /\ UNCHANGED <<decoded, dout, held>> /\ DecRest

(* Terminated: the output is emptied and ends with a null frame.           *)
DecTerminated(m) ==
  /\ dec[m] = "check" /\ terminated
  /\ decoded' = [decoded EXCEPT ![m] = <<>>]
  /\ dout' = [dout EXCEPT ![m] = <<Null>>]
  /\ dhand' = [dhand EXCEPT ![m] = Null]
  /\ dec' = [dec EXCEPT ![m] = "emit"]
  /\ UNCHANGED <<pkts, held>> /\ DecRest

(* What avcodec_flush_buffers leaves in the codec.                         *)
FlushedNot(m) == held[m]                                         \* mutant
Flushed(m) == <<>>

DecFlush(m) ==
  /\ dec[m] = "check" /\ ~terminated /\ dhand[m] = Flush
  /\ held' = [held EXCEPT ![m] = Flushed(m)]
  /\ dec' = [dec EXCEPT ![m] = "pop"]
  /\ dhand' = [dhand EXCEPT ![m] = Null]
  /\ UNCHANGED <<pkts, decoded, dout>> /\ DecRest

(* A pending seek drops the element in hand, whatever it is.               *)
DecSkip(m) ==
  /\ dec[m] = "check" /\ ~terminated /\ dhand[m] # Flush /\ seek # 0
  /\ dec' = [dec EXCEPT ![m] = "pop"]
  /\ dhand' = [dhand EXCEPT ![m] = Null]
  /\ UNCHANGED <<pkts, decoded, dout, held>> /\ DecRest

(* The null packet makes the codec give what it holds; a null frame is     *)
(* pushed after it.                                                        *)
DrainedNoEnd(m) == held[m]                                       \* mutant
DrainedNot(m) == <<Null>>                                        \* mutant
Drained(m) == Append(held[m], Null)

(* avcodec_send_packet and the frames it makes available: a packet adds to *)
(* what the codec holds; a codec that rejects a packet is logged and       *)
(* ignored.                                                                *)
DecDecode(m) ==
  /\ dec[m] = "check" /\ ~terminated /\ dhand[m] # Flush /\ seek = 0
  /\ IF dhand[m] = Null
     THEN /\ dout' = [dout EXCEPT ![m] = Drained(m)]
          /\ held' = [held EXCEPT ![m] = <<>>]
     ELSE LET all == Append(held[m], dhand[m])
          IN  \E n \in 0..Len(all) :
                /\ Len(all) - n <= MaxDelay
                /\ dout' = [dout EXCEPT ![m] = SubSeq(all, 1, n)]
                /\ held' = [held EXCEPT ![m] = SubSeq(all, n + 1, Len(all))]
  /\ dec' = [dec EXCEPT ![m] = "emit"]
  /\ UNCHANGED <<pkts, decoded, dhand>> /\ DecRest

DecEmit(m) ==
  /\ dec[m] = "emit" /\ dout[m] # <<>> /\ Room(decoded[m], FrameCap)
  /\ decoded' = [decoded EXCEPT ![m] = Push(@, Head(dout[m]))]
  /\ dout' = [dout EXCEPT ![m] = Tail(@)]
  /\ UNCHANGED <<pkts, dec, dhand, held>> /\ DecRest

(* writer_pkts is set in the decoders of a live stream.                    *)
ToWriterNoEnd(m) == Live /\ dhand[m] # Null                      \* mutant
ToWriter(m) == Live

(* The packet itself goes to the writer; the null packet ends the thread.  *)
DecPass(m) ==
  /\ dec[m] = "emit" /\ dout[m] = <<>>
  /\ IF ToWriter(m) THEN PushPkt("writer", dhand[m]) ELSE UNCHANGED pkts
  /\ dec' = [dec EXCEPT ![m] = IF dhand[m] = Null THEN "done" ELSE "pop"]
  /\ dhand' = [dhand EXCEPT ![m] = Null]
  /\ UNCHANGED <<decoded, dout, held>> /\ DecRest

Decoder(m) == Alive /\ ( \/ DecPop(m) \/ DecTerminated(m) \/ DecFlush(m)
                         \/ DecSkip(m) \/ DecDecode(m) \/ DecEmit(m) \/ DecPass(m) )

-----------------------------------------------------------------------------
(* Filter::filter() of stream m; the frame in hand is kept in fout.        *)

FilRest == UNCHANGED <<opts, pkts, attached, flags, readerVars, decVars, snkVars,
                       wr, play, callVars, guiVars, fault>>

FilPop(m) ==
  /\ fil[m] = "pop" /\ decoded[m] # <<>>
  /\ fout' = [fout EXCEPT ![m] = <<Head(decoded[m])>>]
  /\ decoded' = [decoded EXCEPT ![m] = Tail(@)]
  /\ fil' = [fil EXCEPT ![m] = "check"]
  /\ UNCHANGED filtered /\ FilRest

FilTerminated(m) ==
  /\ fil[m] = "check" /\ terminated
  /\ filtered' = [filtered EXCEPT ![m] = <<>>]
  /\ fout' = [fout EXCEPT ![m] = <<Null>>]
  /\ fil' = [fil EXCEPT ![m] = "push"]
  /\ UNCHANGED decoded /\ FilRest

(* The null frame passes, a pending seek drops a frame, otherwise the      *)
(* filter graph returns some number of frames.                             *)
FilFrame(m) ==
  /\ fil[m] = "check" /\ ~terminated
  /\ IF fout[m] = <<Null>>
     THEN fil' = [fil EXCEPT ![m] = "push"] /\ UNCHANGED fout
     ELSE \E n \in IF seek # 0 THEN {0} ELSE FilterOut :
            /\ fout' = [fout EXCEPT ![m] = [i \in 1..n |-> Head(fout[m])]]
            /\ fil' = [fil EXCEPT ![m] = IF n = 0 THEN "pop" ELSE "push"]
  /\ UNCHANGED <<decoded, filtered>> /\ FilRest

FilPush(m) ==
  /\ fil[m] = "push" /\ Room(filtered[m], FrameCap)
  /\ filtered' = [filtered EXCEPT ![m] = Push(@, Head(fout[m]))]
  /\ fout' = [fout EXCEPT ![m] = Tail(@)]
  /\ fil' = [fil EXCEPT ![m] = IF Head(fout[m]) = Null THEN "done"
                               ELSE IF Tail(fout[m]) = <<>> THEN "pop" ELSE "push"]
  /\ UNCHANGED decoded /\ FilRest

Filter(m) == Alive /\ (FilPop(m) \/ FilTerminated(m) \/ FilFrame(m) \/ FilPush(m))

-----------------------------------------------------------------------------
(* The ends of the pipeline: Display::render() for the video stream, the   *)
(* SDL callback of Audio.hpp for the audio stream.                         *)

SnkRest == UNCHANGED <<opts, decoded, attached, closed, terminated, paused, seek,
                       readerVars, decVars, filVars, wr, play, callVars, guiVars>>

(* A new turn: terminated ends it; a paused display shows the last frame   *)
(* again and a paused callback plays silence.                              *)
SnkTop(m) ==
  /\ snk[m] = "top"
  /\ terminated \/ ~paused \/ (m = "video" /\ oneShot)
  /\ snk' = [snk EXCEPT ![m] = IF terminated THEN "done"
                               ELSE IF m = "video" THEN "pop" ELSE "fetch"]
  /\ filtered' = IF terminated THEN [filtered EXCEPT ![m] = <<>>] ELSE filtered
  /\ UNCHANGED <<pkts, oneShot, shand, shown, fault>> /\ SnkRest

(* The callback of a live stream drops the packets that wait, through a    *)
(* pointer terminate() may have set to null.                               *)
AudioFetch ==
  /\ snk["audio"] = "fetch"
  /\ IF Live /\ "audio" \notin attached
     THEN fault' = TRUE /\ UNCHANGED <<pkts, snk>>
     ELSE /\ pkts' = IF Live THEN [pkts EXCEPT !["audio"] = RemoveLatency(@)] ELSE pkts
          /\ snk' = [snk EXCEPT !["audio"] = "pop"]
          /\ UNCHANGED fault
  /\ UNCHANGED <<filtered, oneShot, shand, shown>> /\ SnkRest

SnkPop(m) ==
  /\ snk[m] = "pop" /\ filtered[m] # <<>>
  /\ shand' = [shand EXCEPT ![m] = Head(filtered[m])]
  /\ filtered' = [filtered EXCEPT ![m] = Tail(@)]
  /\ snk' = [snk EXCEPT ![m] = "check"]
  /\ UNCHANGED <<pkts, oneShot, shown, fault>> /\ SnkRest

(* The null frame ends the stage; a pending seek drops the frame; else it  *)
(* is rendered, and the callback may need a further frame in the same call.*)
SnkFrame(m) ==
  LET ends == shand[m] = Null \/ (m = "audio" /\ terminated)
  IN  /\ snk[m] = "check"
      /\ IF ends \/ seek # 0
         THEN /\ snk' = [snk EXCEPT ![m] = IF ends THEN "done" ELSE "top"]
              /\ UNCHANGED <<shown, oneShot>>
         ELSE /\ shown' = [shown EXCEPT ![m] = shand[m]]
              /\ oneShot' = IF m = "video" THEN FALSE ELSE oneShot
              /\ \E next \in IF m = "video" THEN {"top"} ELSE {"top", "fetch"} :
                   snk' = [snk EXCEPT ![m] = next]
      /\ shand' = [shand EXCEPT ![m] = Null]
      /\ UNCHANGED <<pkts, filtered, fault>> /\ SnkRest

Sink(m) == Alive /\ ( \/ SnkTop(m) \/ (m = "audio" /\ AudioFetch)
                      \/ SnkPop(m) \/ SnkFrame(m) )

-----------------------------------------------------------------------------
(* Writer::write() as the pipeline sees it: the thread takes packets until *)
(* the first null one.  Module Recorder models what it does with them.     *)
Writer ==
  /\ Alive /\ wr = "pop" /\ pkts["writer"] # <<>>
  /\ pkts' = [pkts EXCEPT !["writer"] = Tail(@)]
  /\ wr' = IF Head(pkts["writer"]) = Null THEN "done" ELSE "pop"
  /\ UNCHANGED <<opts, decoded, filtered, attached, flags, readerVars, decVars,
                 filVars, snkVars, play, callVars, guiVars, fault>>

-----------------------------------------------------------------------------
(* Player::play().                                                         *)

PlayRest == UNCHANGED <<opts, pkts, decoded, filtered, flags, rhand, nread, sought, cut,
                        dhand, dout, held, fout, shand, shown, clr, guiVars, fault>>
NoThread == UNCHANGED <<rd, dec, fil, snk, wr>>

(* The Reader is constructed: it connects, or throws.                      *)
Connect ==
  /\ play = "connect"
  /\ \/ /\ play' = "setup"
        /\ attached' = IF Hidden THEN {"writer"} ELSE Media
     \/ "connect" \in opts.fails /\ play' = "done" /\ UNCHANGED attached
  /\ UNCHANGED term /\ NoThread /\ PlayRest

(* Decoders and filters are constructed and every thread is started.       *)
StartDisplayFirst ==                                             \* mutant
  /\ play = "setup"
  /\ play' = (IF "audio" \in Media THEN "audio" ELSE "display") /\ rd' = "top"
  /\ dec' = [m \in Streams |-> IF m \in Media THEN "pop" ELSE "off"] /\ fil' = dec'
  /\ wr' = IF Live THEN "pop" ELSE "off"
  /\ snk' = [snk EXCEPT !["video"] = IF "video" \in Media THEN "top" ELSE @]
  /\ UNCHANGED <<attached, term>> /\ PlayRest
StartThreads ==
  /\ play = "setup"
  /\ play' = (IF "audio" \in Media THEN "audio" ELSE "display") /\ rd' = "top"
  /\ dec' = [m \in Streams |-> IF m \in Media THEN "pop" ELSE "off"] /\ fil' = dec'
  /\ wr' = IF Live THEN "pop" ELSE "off"
  /\ UNCHANGED <<attached, term, snk>> /\ PlayRest

OpenAudio ==
  /\ play = "audio" /\ play' = "display"
  /\ snk' = [snk EXCEPT !["audio"] = "top"]
  /\ UNCHANGED <<attached, term, rd, dec, fil, wr>> /\ PlayRest

(* The constructor of a stage, or of Audio, throws: terminate() and join.  *)
PlayThrow ==
  /\ \/ play = "setup" /\ "setup" \in opts.fails
     \/ play = "audio" /\ "audio" \in opts.fails
  /\ play' = "catch" /\ StartTerm("play")
  /\ UNCHANGED attached /\ NoThread /\ PlayRest

PlayCaught ==
  /\ play = "catch" /\ term["play"].at = "done" /\ play' = "join"
  /\ UNCHANGED <<attached, term>> /\ NoThread /\ PlayRest

StartDisplay ==
  /\ play = "display" /\ play' = "join"
  /\ snk' = [snk EXCEPT !["video"] = IF "video" \in Media THEN "top" ELSE @]
  /\ UNCHANGED <<attached, term, rd, dec, fil, wr>> /\ PlayRest

(* Every thread is joined.  The audio callback is waited for at most 1 s,  *)
(* but closing its device waits for a call in progress.                    *)
Joined ==
  /\ {rd, wr} \subseteq {"off", "done"}
  /\ \A m \in Streams : {dec[m], fil[m]} \subseteq {"off", "done"}
  /\ snk["video"] \in {"off", "done"} /\ snk["audio"] \in {"off", "done", "top"}

Join ==
  /\ play = "join" /\ Joined /\ play' = "done"
  /\ snk' = [m \in Streams |-> "done"]
  /\ UNCHANGED <<attached, term, rd, dec, fil, wr>> /\ PlayRest

Play == Alive /\ ( \/ Connect \/ StartThreads \/ OpenAudio \/ PlayThrow
                   \/ PlayCaught \/ StartDisplay \/ Join )

-----------------------------------------------------------------------------
(* The user's thread.                                                      *)

GuiRest == UNCHANGED <<opts, queues, closed, terminated, readerVars, decVars, filVars,
                       snkVars, wr, play, fault>>

(* Player::terminate(): without a reader the request is forgotten.         *)
Stop ==
  /\ "stop" \in opts.user /\ stop # "sent" /\ play # "done"
  /\ stop' = IF HasReader THEN "sent" ELSE "lost"
  /\ IF HasReader THEN StartTerm("gui") ELSE UNCHANGED term
  /\ UNCHANGED <<paused, seek, oneShot, clr, gui, nseek, npause>> /\ GuiRest

(* Player::seek(): closed is read first, seek_pts set later.               *)
SeekCheck ==
  /\ "seek" \in opts.user /\ nseek < MaxSeeks
  /\ ~Live /\ gui = "idle" /\ HasReader /\ ~closed
  /\ gui' = "set"
  /\ UNCHANGED <<paused, seek, oneShot, clr, term, stop, nseek, npause>> /\ GuiRest

SeekSet ==
  /\ gui = "set" /\ HasReader
  /\ nseek' = nseek + 1 /\ seek' = nseek + 1
  /\ IF paused THEN gui' = "clear" /\ StartClear("gui")
               ELSE gui' = "idle" /\ UNCHANGED clr
  /\ UNCHANGED <<paused, oneShot, term, stop, npause>> /\ GuiRest

SeekOneShot ==
  /\ gui = "clear" /\ clr["gui"].at = "idle" /\ HasReader
  /\ gui' = "idle" /\ oneShot' = IF snk["video"] # "off" THEN TRUE ELSE oneShot
  /\ UNCHANGED <<paused, seek, clr, term, stop, nseek, npause>> /\ GuiRest

TogglePaused ==
  /\ "pause" \in opts.user /\ npause < MaxPauses /\ ~Live /\ HasReader
  /\ paused' = ~paused /\ npause' = npause + 1
  /\ UNCHANGED <<seek, oneShot, clr, term, gui, stop, nseek>> /\ GuiRest

(* play() deleted the reader under a seek in progress.                     *)
SeekOrphan ==
  /\ gui # "idle" /\ play = "done" /\ fault' = TRUE
  /\ UNCHANGED <<opts, queues, flags, readerVars, decVars, filVars, snkVars, wr,
                 play, callVars, guiVars>>

Seeking == Alive /\ (SeekSet \/ SeekOneShot \/ SeekOrphan)
User    == Alive /\ (Stop \/ SeekCheck \/ TogglePaused)

(* The end: play() returned or the process is gone.                        *)
Over == fault \/ (play = "done" /\ gui = "idle" /\ term["gui"].at \in {"idle", "done"})
Ended == Over /\ UNCHANGED vars

Next ==
  \/ Play \/ Reader \/ Writer \/ User \/ Seeking \/ Ended
  \/ \E m \in Streams : Decoder(m) \/ Filter(m) \/ Sink(m)
  \/ \E c \in Callers : Terminate(c)
  \/ \E c \in {"reader", "gui"} : ClearQueues(c)

Spec == Init /\ [][Next]_vars

(* Every thread that can run does: the operating system schedules them, a  *)
(* device calls back, a read returns by MAX_TIMEOUT.  The user may do      *)
(* nothing at all.                                                         *)
Fairness ==
  /\ WF_vars(Play) /\ WF_vars(Reader) /\ WF_vars(Writer) /\ WF_vars(Seeking)
  /\ \A m \in Streams : WF_vars(Decoder(m)) /\ WF_vars(Filter(m)) /\ WF_vars(Sink(m))
  /\ \A c \in Callers : WF_vars(Terminate(c))
  /\ \A c \in {"reader", "gui"} : WF_vars(ClearQueues(c))

FairSpec == Spec /\ Fairness
=============================================================================
