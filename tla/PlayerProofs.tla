----------------------------- MODULE PlayerProofs -----------------------------
(***************************************************************************)
(* Proofs about module Player, for all values of its constants.            *)
(***************************************************************************)
EXTENDS PlayerProps, SequenceTheorems, TLAPS

-----------------------------------------------------------------------------
(* Lemmas on the queue operators.                                          *)

(* A queue stays within its capacity, and its elements keep their type.    *)
LEMMA PushType ==
  ASSUME NEW S, NEW q \in Seq(S), NEW e \in S, NEW cap \in Nat,
         Len(q) <= cap, Room(q, cap)
  PROVE  Push(q, e) \in Seq(S) /\ Len(Push(q, e)) <= cap
BY DEF Push, Room

LEMMA PopType ==
  ASSUME NEW S, NEW q \in Seq(S), q # <<>>
  PROVE  Head(q) \in S /\ Tail(q) \in Seq(S) /\ Len(Tail(q)) = Len(q) - 1
BY HeadTailProperties

LEMMA RemoveLatencyType ==
  ASSUME NEW S, NEW q \in Seq(S)
  PROVE  RemoveLatency(q) \in Seq(S) /\ Len(RemoveLatency(q)) <= Len(q)
<1>1. CASE Len(q) > 1
  <2>1. RemoveLatency(q) = SubSeq(q, Len(q), Len(q))
    BY <1>1 DEF RemoveLatency, EraseFront
  <2>2. SubSeq(q, Len(q), Len(q)) \in Seq(S) /\ Len(SubSeq(q, Len(q), Len(q))) = 1
    BY <1>1, SubSeqProperties
  <2> QED BY <1>1, <2>1, <2>2
<1>2. CASE ~(Len(q) > 1)
  BY <1>2 DEF RemoveLatency
<1> QED BY <1>1, <1>2

(* n copies of an element.                                                 *)
LEMMA CopiesType ==
  ASSUME NEW S, NEW e \in S, NEW n \in Nat
  PROVE  [i \in 1..n |-> e] \in Seq(S) /\ Len([i \in 1..n |-> e]) = n
BY IsASeq

-----------------------------------------------------------------------------
(* Types.  Beyond TypeOK the induction needs that a filter has a frame in  *)
(* hand exactly where its code says so, that no thread runs before play()  *)
(* starts them, and that the request SeekSet counts was checked.           *)
InHand ==
  /\ \A m \in Streams :
       /\ fil[m] \in {"check", "push"} => fout[m] # <<>>
       /\ fil[m] = "check" => Tail(fout[m]) = <<>>
       /\ fil[m] \in {"off", "pop"} => fout[m] = <<>>
  /\ gui = "set" => nseek < MaxSeeks

Startup ==
  /\ play \in {"connect", "setup"} =>
       \A m \in Streams : dec[m] = "off" /\ fil[m] = "off"
  /\ play \in {"connect", "setup", "audio"} => snk["audio"] = "off"
  /\ play \in {"connect", "setup", "audio", "display"} => snk["video"] = "off"

TypeInv == TypeOK /\ InHand

LEMMA TypeInit == Init => TypeInv
<1> SUFFICES ASSUME Init PROVE TypeInv
  OBVIOUS
<1> USE PlayerAssumption, EmptySeq DEF Init, Frames, Packets, Outs, Streams, Callers
<1>1. TypeQueues
  BY DEF TypeQueues
<1>2d. TypeFlags
  <2>1. seek \in 0..MaxSeeks
    OBVIOUS
  <2> QED BY <2>1, Zenon DEF TypeFlags
<1>2a. TypePlay
  BY DEF TypePlay
<1>2b. TypeReader 
  BY DEF TypeReader
<1>2c. TypeSinks
  BY DEF TypeSinks
<1>3. TypeDecoders /\ TypeFilters
  BY DEF TypeDecoders, TypeFilters
<1>4. TypeCalls
  BY DEF TypeCalls, Idle
<1>5. InHand
  BY DEF InHand
<1> QED BY <1>1, <1>2a, <1>2d, <1>2b, <1>2c, <1>3, <1>4, <1>5 DEF TypeInv, TypeOK

(* push() to a packet queue keeps the types of the packet queues.          *)
LEMMA PushPktType ==
  ASSUME TypeQueues, NEW o \in Outs, NEW e \in Packets, PushPkt(o, e)
  PROVE  pkts' \in [Outs -> Seq(Packets)] /\ \A u \in Outs : Len(pkts'[u]) <= PktCap
BY PushType, PlayerAssumption DEF TypeQueues, PushPkt

LEMMA TermType ==
  ASSUME TypeInv, NEW c \in Callers, Terminate(c)
  PROVE  TypeInv'
<1> DEFINE o == TermFirst(term[c].todo)
<1> USE DEF TypeInv, TypeOK, TermRest, readerVars, decVars, filVars, snkVars, guiVars
<1>1. TypeReader' /\ TypeDecoders' /\ TypeFilters' /\ TypeSinks' /\ TypePlay' /\ InHand'
  BY DEF Terminate, TermQueue, TermPush, TermDetach, TermFlags, TermOrphan,
         TypeReader, TypeDecoders, TypeFilters, TypeSinks, TypePlay, InHand
<1>2. o \in Outs
  BY DEF TermFirst, Outs, Streams
<1>3. TypeFlags'
  BY DEF Terminate, TermQueue, TermPush, TermDetach, TermFlags, TermOrphan, TypeFlags
<1>4. TypeCalls'
  BY <1>2 DEF Terminate, TermQueue, TermPush, TermDetach, TermFlags, TermOrphan, TypeCalls
<1>5. TypeQueues'
  <2>1. CASE TermQueue(c)
    <3>1. pkts' \in [Outs -> Seq(Packets)] /\ \A u \in Outs : Len(pkts'[u]) <= PktCap
      <4>1. pkts' = pkts \/ pkts' = [pkts EXCEPT ![o] = <<>>]
        BY <2>1 DEF TermQueue
      <4>2. <<>> \in Seq(Packets) /\ Len(<<>>) <= PktCap
        BY PlayerAssumption
      <4>3. QED BY <1>2, <4>1, <4>2 DEF TypeQueues
    <3> QED BY <2>1, <3>1 DEF TermQueue, TypeQueues
  <2>2. CASE TermPush(c)
    BY <2>2, <1>2, PushPktType DEF TermPush, TypeQueues, Packets
  <2>3. CASE TermDetach(c) \/ TermFlags(c) \/ TermOrphan
    BY <2>3 DEF TermDetach, TermFlags, TermOrphan, TypeQueues
  <2> QED BY <2>1, <2>2, <2>3 DEF Terminate
<1> QED BY <1>1, <1>3, <1>4, <1>5

LEMMA ClearType ==
  ASSUME TypeInv, NEW c \in {"reader", "gui"}, ClearQueues(c)
  PROVE  TypeInv'
<1> DEFINE m == ClearFirst(clr[c].todo)
<1> USE DEF TypeInv, TypeOK, ClearRest, flags, readerVars, decVars, filVars, snkVars, guiVars
<1>1. /\ TypeFlags' /\ TypeReader' /\ TypeDecoders' /\ TypeFilters' /\ TypeSinks'
      /\ TypePlay' /\ InHand'
  BY DEF ClearQueues, ClearPkts, ClearFrames, ClearFlush, ClearOutputs, TypeFlags,
         TypeReader, TypeDecoders, TypeFilters, TypeSinks, TypePlay, InHand
<1>2. m \in Streams /\ Media \in SUBSET Streams
  BY PlayerAssumption DEF ClearFirst, Streams, Media, TypePlay
<1>3. TypeCalls'
  BY <1>2 DEF ClearQueues, ClearPkts, ClearFrames, ClearFlush, ClearOutputs, TypeCalls, Idle
<1>4. <<>> \in Seq(Packets) /\ <<>> \in Seq(Frames) /\ Len(<<>>) <= PktCap /\ Len(<<>>) <= FrameCap
  BY PlayerAssumption
<1>5. TypeQueues'
  <2>1. CASE ClearPkts(c)
    BY <2>1, <1>4 DEF ClearPkts, TypeQueues
  <2>2. CASE ClearFrames(c)
    BY <2>2, <1>2, <1>4 DEF ClearFrames, TypeQueues
  <2>3. CASE ClearFlush(c)
    BY <2>3, <1>2, PushPktType DEF ClearFlush, TypeQueues, Packets, Outs
  <2>4. CASE ClearOutputs(c)
    BY <2>4, <1>4 DEF ClearOutputs, TypeQueues
  <2> QED BY <2>1, <2>2, <2>3, <2>4 DEF ClearQueues
<1> QED BY <1>1, <1>3, <1>5

LEMMA ReaderType ==
  ASSUME TypeInv, Reader
  PROVE  TypeInv'
<1> USE DEF TypeInv, TypeOK, ReaderRest, decVars, filVars, snkVars, guiVars
<1>1. TypeDecoders' /\ TypeFilters' /\ TypeSinks' /\ TypePlay' /\ InHand'
  BY DEF Reader, ReadTop, ReadSeek, ReadPacket, ReadSeekDone, ReadDeref, ReadPush, ReadEOF,
         ReadEndMarker, ReadError, ReadErrorDone,
         TypeDecoders, TypeFilters, TypeSinks, TypePlay, InHand
<1>2. TypeFlags'
  <2>1. seek' \in {seek, 0} /\ 0 \in 0..MaxSeeks
    BY PlayerAssumption DEF Reader, ReadTop, ReadSeek, ReadPacket, ReadSeekDone, ReadDeref,
           ReadPush, ReadEOF, ReadEndMarker, ReadError, ReadErrorDone
  <2>2. closed' \in {closed, TRUE} /\ fault' \in {fault, TRUE} /\ UNCHANGED <<terminated, paused, oneShot>>
    BY DEF Reader, ReadTop, ReadSeek, ReadPacket, ReadSeekDone, ReadDeref,
           ReadPush, ReadEOF, ReadEndMarker, ReadError, ReadErrorDone
  <2> QED BY <2>1, <2>2 DEF TypeFlags
<1>3. TypeCalls'
  BY DEF Reader, ReadTop, ReadSeek, ReadPacket, ReadSeekDone, ReadDeref, ReadPush, ReadEOF,
         ReadEndMarker, ReadError, ReadErrorDone, StartTerm, StartClear, TypeCalls, Callers
<1>4. TypeReader'
  <2>1. ASSUME NEW o \in Outs, ReadPacket(o)
        PROVE  TypeReader'
    BY <2>1, PlayerAssumption DEF ReadPacket, Route, TypeReader, TypePlay, Frames, Pkt
  <2>2. CASE ReadTop \/ ReadSeek \/ ReadSeekDone \/ ReadDeref \/ ReadPush
    BY <2>2 DEF ReadTop, ReadSeek, ReadSeekDone, ReadDeref, ReadPush, Route, TypeReader, TypeFlags
  <2>3. CASE ReadEOF \/ ReadEndMarker \/ ReadError \/ ReadErrorDone
    BY <2>3 DEF ReadEOF, ReadEndMarker, EofNext, ReadError, ReadErrorDone, TypeReader
  <2> QED BY <2>1, <2>2, <2>3 DEF Reader
<1>5. TypeQueues'
  <2>1. CASE ReadPush
    <3>1. rhand[1] \in Outs /\ rhand[2] \in Packets
      BY DEF TypeReader, Packets, Frames
    <3> QED BY <2>1, <3>1, PushPktType DEF ReadPush, TypeQueues
  <2>2. CASE ReadEndMarker
    <3>1. EofNext[rd][1] \in Outs /\ Null \in Packets
      BY <2>2 DEF ReadEndMarker, EofNext, Outs, Streams, Packets
    <3> QED BY <2>2, <3>1, PushPktType DEF ReadEndMarker, TypeQueues
  <2>3. CASE UNCHANGED <<pkts, attached>>
    BY <2>3 DEF TypeQueues, Reader, ReadTop, ReadSeek, ReadPacket, ReadSeekDone, ReadDeref,
                ReadPush, ReadEOF, ReadEndMarker, ReadError, ReadErrorDone
  <2> QED BY <2>1, <2>2, <2>3 DEF Reader, ReadTop, ReadSeek, ReadPacket, ReadSeekDone,
                ReadDeref, ReadEOF, ReadError, ReadErrorDone
<1> QED BY <1>1, <1>2, <1>3, <1>4, <1>5

(* A sequence of packets cut in two is two sequences of packets.           *)
LEMMA SplitType ==
  ASSUME NEW S, NEW q \in Seq(S), NEW n \in 0..Len(q)
  PROVE  SubSeq(q, 1, n) \in Seq(S) /\ SubSeq(q, n + 1, Len(q)) \in Seq(S)
BY SubSeqProperties

LEMMA DecoderType ==
  ASSUME TypeInv, NEW m \in Streams, Decoder(m)
  PROVE  TypeInv'
<1> USE DEF TypeInv, TypeOK, DecRest, flags, readerVars, filVars, snkVars, callVars, guiVars
<1>1. /\ TypeFlags' /\ TypeReader' /\ TypeFilters' /\ TypeSinks' /\ TypeCalls'
      /\ TypePlay' /\ InHand' /\ UNCHANGED <<filtered, attached>>
  BY DEF Decoder, DecPop, DecTerminated, DecFlush, DecSkip, DecDecode, DecEmit, DecPass,
         TypeFlags, TypeReader, TypeFilters, TypeSinks, TypeCalls, TypePlay, InHand
<1>2. Seq(Pkt) \subseteq Seq(Frames) /\ <<>> \in Seq(Pkt) /\ <<Null>> \in Seq(Frames)
      /\ <<>> \in Seq(Frames) /\ Null \in Packets
  BY SeqMonotonic, EmptySeq DEF Frames, Packets
<1>3. CASE DecPop(m)
  <2>1. Head(pkts[m]) \in Packets /\ Tail(pkts[m]) \in Seq(Packets)
        /\ Len(Tail(pkts[m])) <= PktCap
    BY <1>3, PopType, PlayerAssumption DEF DecPop, TypeQueues, Outs
  <2> QED BY <1>1, <1>3, <2>1 DEF DecPop, TypeQueues, TypeDecoders
<1>4. CASE DecTerminated(m)
  BY <1>1, <1>2, <1>4, PlayerAssumption DEF DecTerminated, TypeQueues, TypeDecoders
<1>5. CASE DecFlush(m) \/ DecSkip(m)
  <2>1. UNCHANGED <<pkts, decoded, dout>>
    BY <1>5 DEF DecFlush, DecSkip
  <2>2. /\ dec' = [dec EXCEPT ![m] = "pop"] /\ dhand' = [dhand EXCEPT ![m] = Null]
        /\ held' = held \/ held' = [held EXCEPT ![m] = <<>>]
    BY <1>5 DEF DecFlush, Flushed, DecSkip
  <2> QED BY <1>1, <1>2, <2>1, <2>2 DEF TypeQueues, TypeDecoders
<1>6. CASE DecDecode(m)
  <2>1. CASE dhand[m] = Null
    <3>1. Drained(m) \in Seq(Frames)
      BY <1>2 DEF Drained, TypeDecoders, Frames
    <3> QED BY <1>1, <1>2, <1>6, <2>1, <3>1 DEF DecDecode, TypeQueues, TypeDecoders
  <2>2. CASE dhand[m] # Null
    <3> DEFINE all == Append(held[m], dhand[m])
    <3>1. all \in Seq(Pkt)
      BY <1>6, <2>2 DEF DecDecode, TypeDecoders, Packets
    <3>2. PICK n \in 0..Len(all) :
            /\ dout' = [dout EXCEPT ![m] = SubSeq(all, 1, n)]
            /\ held' = [held EXCEPT ![m] = SubSeq(all, n + 1, Len(all))]
      BY <1>6, <2>2 DEF DecDecode
    <3>3. SubSeq(all, 1, n) \in Seq(Pkt) /\ SubSeq(all, n + 1, Len(all)) \in Seq(Pkt)
      BY <3>1, SplitType
    <3> HIDE DEF all
    <3> QED BY <1>1, <1>2, <1>6, <3>2, <3>3 DEF DecDecode, TypeQueues, TypeDecoders
  <2> QED BY <2>1, <2>2
<1>7. CASE DecEmit(m)
  <2>1. Head(dout[m]) \in Frames /\ Tail(dout[m]) \in Seq(Frames)
    BY <1>7, PopType DEF DecEmit, TypeDecoders
  <2>2. Push(decoded[m], Head(dout[m])) \in Seq(Frames)
        /\ Len(Push(decoded[m], Head(dout[m]))) <= FrameCap
    BY <1>7, <2>1, PushType, PlayerAssumption DEF DecEmit, TypeQueues
  <2> QED BY <1>1, <1>7, <2>1, <2>2 DEF DecEmit, TypeQueues, TypeDecoders
<1>8. CASE DecPass(m)
  <2>1. pkts' \in [Outs -> Seq(Packets)] /\ \A o \in Outs : Len(pkts'[o]) <= PktCap
    BY <1>8, PushPktType DEF DecPass, TypeQueues, TypeDecoders, Outs
  <2> QED BY <1>1, <1>2, <1>8, <2>1 DEF DecPass, TypeQueues, TypeDecoders
<1> QED BY <1>3, <1>4, <1>5, <1>6, <1>7, <1>8 DEF Decoder

LEMMA FilterType ==
  ASSUME TypeInv, NEW m \in Streams, Filter(m)
  PROVE  TypeInv'
<1> USE DEF TypeInv, TypeOK, FilRest, flags, readerVars, decVars, snkVars, callVars, guiVars
<1>1. /\ TypeFlags' /\ TypeReader' /\ TypeDecoders' /\ TypeSinks' /\ TypeCalls'
      /\ TypePlay' /\ UNCHANGED <<pkts, attached, gui, nseek>>
  BY DEF Filter, FilPop, FilTerminated, FilFrame, FilPush,
         TypeFlags, TypeReader, TypeDecoders, TypeSinks, TypeCalls, TypePlay
<1>2. <<>> \in Seq(Frames) /\ Null \in Frames /\ <<Null>> \in Seq(Frames) /\ <<Null>> # <<>>
      /\ Tail(<<Null>>) = <<>> /\ Len(<<>>) <= FrameCap
  BY PlayerAssumption DEF Frames
<1>3. CASE FilPop(m)
  <2>1. Head(decoded[m]) \in Frames /\ Tail(decoded[m]) \in Seq(Frames)
        /\ Len(Tail(decoded[m])) <= FrameCap
    BY <1>3, PopType, PlayerAssumption DEF FilPop, TypeQueues
  <2>2. ASSUME NEW f \in Frames PROVE <<f>> \in Seq(Frames) /\ <<f>> # <<>> /\ Tail(<<f>>) = <<>>
    OBVIOUS
  <2> QED BY <1>1, <1>3, <2>1, <2>2 DEF FilPop, TypeQueues, TypeFilters, InHand
<1>4. CASE FilTerminated(m)
  BY <1>1, <1>2, <1>4 DEF FilTerminated, TypeQueues, TypeFilters, InHand
<1>5. CASE FilFrame(m)
  <2>1. CASE fout[m] = <<Null>>
    BY <1>1, <1>2, <1>5, <2>1 DEF FilFrame, TypeQueues, TypeFilters, InHand
  <2>2. CASE fout[m] # <<Null>>
    <3>1. PICK n \in Nat :
            /\ fout' = [fout EXCEPT ![m] = [i \in 1..n |-> Head(fout[m])]]
            /\ fil' = [fil EXCEPT ![m] = IF n = 0 THEN "pop" ELSE "push"]
      BY <1>5, <2>2, PlayerAssumption DEF FilFrame
    <3>2. Head(fout[m]) \in Frames
      BY <1>5, PopType DEF FilFrame, TypeFilters, InHand
    <3>3. [i \in 1..n |-> Head(fout[m])] \in Seq(Frames) /\ Len([i \in 1..n |-> Head(fout[m])]) = n
      BY <3>2, CopiesType
    <3>4. [i \in 1..n |-> Head(fout[m])] = <<>> <=> n = 0
      BY <3>3, EmptySeq
    <3> QED BY <1>1, <1>5, <2>2, <3>1, <3>3, <3>4 DEF FilFrame, TypeQueues, TypeFilters, InHand
  <2> QED BY <2>1, <2>2
<1>6. CASE FilPush(m)
  <2>1. Head(fout[m]) \in Frames /\ Tail(fout[m]) \in Seq(Frames)
    BY <1>6, PopType DEF FilPush, TypeFilters, InHand
  <2>2. Push(filtered[m], Head(fout[m])) \in Seq(Frames)
        /\ Len(Push(filtered[m], Head(fout[m]))) <= FrameCap
    BY <1>6, <2>1, PushType, PlayerAssumption DEF FilPush, TypeQueues
  <2> QED BY <1>1, <1>6, <2>1, <2>2 DEF FilPush, TypeQueues, TypeFilters, InHand
<1> QED BY <1>3, <1>4, <1>5, <1>6 DEF Filter

LEMMA SinkType ==
  ASSUME TypeInv, NEW m \in Streams, Sink(m)
  PROVE  TypeInv'
<1> USE DEF TypeInv, TypeOK, SnkRest, flags, readerVars, decVars, filVars, callVars, guiVars
<1>1. /\ TypeReader' /\ TypeDecoders' /\ TypeFilters' /\ TypeCalls'
      /\ TypePlay' /\ InHand' /\ UNCHANGED <<decoded, attached>>
  <2>1. SnkRest
    BY DEF Sink, SnkTop, AudioFetch, SnkPop, SnkFrame
  <2> QED BY <2>1 DEF TypeReader, TypeDecoders, TypeFilters, TypeCalls, TypePlay, InHand
<1>2. TypeFlags'
  <2>1. fault' \in {fault, TRUE} /\ oneShot' \in {oneShot, FALSE}
        /\ UNCHANGED <<closed, terminated, paused, seek>>
    BY DEF Sink, SnkTop, AudioFetch, SnkPop, SnkFrame
  <2> QED BY <2>1 DEF TypeFlags
<1>3. CASE SnkTop(m)
  BY <1>1, <1>2, <1>3, PlayerAssumption DEF SnkTop, TypeQueues, TypeSinks
<1>4. CASE AudioFetch
  <2>1. "audio" \in Outs
    BY DEF Outs, Streams
  <2>2. RemoveLatency(pkts["audio"]) \in Seq(Packets) /\ Len(RemoveLatency(pkts["audio"])) <= PktCap
    BY <2>1, RemoveLatencyType, PlayerAssumption DEF TypeQueues
  <2>3. TypeQueues'
    BY <1>1, <1>4, <2>2 DEF AudioFetch, TypeQueues
  <2>4. TypeSinks'
    BY <1>4 DEF AudioFetch, TypeSinks
  <2> QED BY <1>1, <1>2, <2>3, <2>4
<1>5. CASE SnkPop(m)
  <2>1. Head(filtered[m]) \in Frames /\ Tail(filtered[m]) \in Seq(Frames)
        /\ Len(Tail(filtered[m])) <= FrameCap
    BY <1>5, PopType, PlayerAssumption DEF SnkPop, TypeQueues
  <2>2. TypeQueues'
    BY <1>1, <1>5, <2>1 DEF SnkPop, TypeQueues
  <2>3. TypeSinks'
    BY <1>5, <2>1 DEF SnkPop, TypeSinks
  <2> QED BY <1>1, <1>2, <2>2, <2>3
<1>6. CASE SnkFrame(m)
  <2>1. TypeQueues'
    BY <1>1, <1>6 DEF SnkFrame, TypeQueues
  <2>2. TypeSinks'
    BY <1>6 DEF SnkFrame, TypeSinks, Frames
  <2> QED BY <1>1, <1>2, <2>1, <2>2
<1> QED BY <1>3, <1>4, <1>5, <1>6 DEF Sink

LEMMA WriterType ==
  ASSUME TypeInv, Writer
  PROVE  TypeInv'
<1>1. "writer" \in Outs
  BY DEF Outs
<1>2. Tail(pkts["writer"]) \in Seq(Packets) /\ Len(Tail(pkts["writer"])) <= PktCap
  BY <1>1, PopType, PlayerAssumption DEF Writer, TypeInv, TypeOK, TypeQueues
<1>3. TypeQueues'
  BY <1>2 DEF Writer, TypeInv, TypeOK, TypeQueues
<1> QED BY <1>3 DEF Writer, TypeInv, TypeOK, InHand, flags, readerVars, decVars, filVars,
              snkVars, callVars, guiVars, TypeFlags, TypeReader, TypeDecoders, TypeFilters,
              TypeSinks, TypeCalls, TypePlay

LEMMA PlayType ==
  ASSUME TypeInv, Startup, Play
  PROVE  TypeInv'
<1> USE DEF TypeInv, TypeOK, PlayRest, NoThread, flags, guiVars
<1>1. PlayRest
  BY DEF Play, Connect, StartThreads, OpenAudio, PlayThrow, PlayCaught, StartDisplay, Join
<1>2. Media \subseteq Streams
  BY PlayerAssumption DEF Media, TypePlay
<1>3. TypeFlags' /\ TypeQueues'
  BY <1>1, <1>2 DEF Play, Connect, StartThreads, OpenAudio, PlayThrow, PlayCaught,
                    StartDisplay, Join, TypeFlags, TypeQueues, Outs
<1>4. TypeReader' /\ TypePlay'
  BY <1>1 DEF Play, Connect, StartThreads, OpenAudio, PlayThrow, PlayCaught,
              StartDisplay, Join, TypeReader, TypePlay
<1>5. TypeCalls'
  BY <1>1 DEF Play, Connect, StartThreads, OpenAudio, PlayThrow, PlayCaught,
              StartDisplay, Join, StartTerm, TypeCalls, Callers
<1>6. TypeSinks'
  BY <1>1 DEF Play, Connect, StartThreads, OpenAudio, PlayThrow, PlayCaught,
              StartDisplay, Join, TypeSinks, Streams
<1>7. TypeDecoders'
  BY <1>1 DEF Play, Connect, StartThreads, OpenAudio, PlayThrow, PlayCaught,
              StartDisplay, Join, TypeDecoders
<1>8. TypeFilters'
  BY <1>1 DEF Play, Connect, StartThreads, OpenAudio, PlayThrow, PlayCaught,
              StartDisplay, Join, TypeFilters
<1>9. InHand'
  <2>1. CASE StartThreads
    BY <1>1, <2>1 DEF StartThreads, InHand, Startup
  <2>2. CASE ~StartThreads
    BY <1>1, <2>2 DEF Play, Connect, OpenAudio, PlayThrow, PlayCaught,
              StartDisplay, Join, InHand
  <2> QED BY <2>1, <2>2
<1> QED BY <1>3, <1>4, <1>5, <1>6, <1>7, <1>8, <1>9

LEMMA UserType ==
  ASSUME TypeInv, User \/ Seeking
  PROVE  TypeInv'
<1> USE DEF TypeInv, TypeOK
<1>1. /\ TypeQueues' /\ TypeReader' /\ TypeDecoders' /\ TypeFilters' /\ TypeSinks'
      /\ UNCHANGED <<closed, terminated, opts, wr, play>>
  <2>1. UNCHANGED <<queues, readerVars, decVars, filVars, snkVars, closed, terminated, opts, wr, play>>
    BY DEF User, Stop, SeekCheck, TogglePaused, Seeking, SeekSet, SeekOneShot, SeekOrphan,
           GuiRest, flags
  <2> QED BY <2>1 DEF TypeQueues, TypeReader, TypeDecoders, TypeFilters, TypeSinks, queues,
                      readerVars, decVars, filVars, snkVars
<1>2. ASSUME TypeCalls', TypePlay', TypeFlags', gui' = "set" => nseek' < MaxSeeks
      PROVE  TypeInv'
  <2>1. UNCHANGED <<dec, fil, fout, play>>
    BY DEF User, Stop, SeekCheck, TogglePaused, Seeking, SeekSet, SeekOneShot, SeekOrphan,
           GuiRest, filVars, decVars
  <2> QED BY <1>1, <1>2, <2>1 DEF InHand
<1>3. CASE Stop
  BY <1>1, <1>2, <1>3 DEF Stop, StartTerm, GuiRest, TypeCalls, TypePlay, TypeFlags, InHand, Callers
<1>4. CASE SeekCheck
  BY <1>1, <1>2, <1>4 DEF SeekCheck, GuiRest, TypeCalls, TypePlay, TypeFlags
<1>5. CASE SeekSet
  <2>1. nseek' \in 0..MaxSeeks /\ seek' \in 0..MaxSeeks /\ gui' \in {"idle", "clear"}
    BY <1>5, PlayerAssumption DEF SeekSet, TypePlay, InHand
  <2>2. TypeCalls'
    BY <1>5 DEF SeekSet, StartClear, TypeCalls
  <2> QED BY <1>1, <1>2, <1>5, <2>1, <2>2 DEF SeekSet, GuiRest, TypePlay, TypeFlags
<1>6. CASE SeekOneShot
  <2>1. /\ oneShot' \in {TRUE, oneShot} /\ gui' = "idle"
        /\ UNCHANGED <<paused, seek, clr, term, stop, nseek, npause>>
    BY <1>6 DEF SeekOneShot
  <2>2. UNCHANGED <<opts, closed, terminated, play, fault>>
    BY <1>6 DEF SeekOneShot, GuiRest
  <2>3. TypeFlags'
    BY <2>1, <2>2 DEF TypeFlags
  <2>4. TypePlay'
    BY <1>1, <2>1, <2>2 DEF TypePlay
  <2>5. TypeCalls'
    BY <2>1 DEF TypeCalls
  <2> QED BY <1>2, <2>1, <2>3, <2>4, <2>5
<1>7. CASE TogglePaused
  <2>1. npause' \in 0..MaxPauses
    BY <1>7, PlayerAssumption DEF TogglePaused, TypePlay
  <2>2. paused' \in BOOLEAN
    BY <1>7 DEF TogglePaused, TypeFlags
  <2> QED BY <1>1, <1>2, <1>7, <2>1, <2>2 DEF TogglePaused, GuiRest, TypeCalls, TypePlay, TypeFlags, InHand
<1>8. CASE SeekOrphan
  BY <1>1, <1>2, <1>8 DEF SeekOrphan, flags, callVars, guiVars, TypeCalls, TypePlay, TypeFlags, InHand
<1> QED BY <1>3, <1>4, <1>5, <1>6, <1>7, <1>8 DEF User, Seeking

(* What a step of the end of a pipeline leaves alone.                      *)
LEMMA SinkFrame ==
  ASSUME TypeInv, NEW m \in Streams, Sink(m)
  PROVE  /\ UNCHANGED <<play, dec, dhand, dout, decoded, fil, fout, terminated>>
         /\ snk[m] # "off" /\ snk'[m] # "off"
         /\ \A k \in Streams \ {m} : UNCHANGED <<filtered[k], snk[k], shand[k]>>
<1> USE DEF SnkRest, decVars, filVars, TypeInv, TypeOK, TypeSinks, TypeQueues
<1>1. CASE SnkTop(m)
  BY <1>1 DEF SnkTop
<1>2. CASE AudioFetch /\ m = "audio"
  BY <1>2 DEF AudioFetch
<1>3. CASE SnkPop(m)
  BY <1>3 DEF SnkPop
<1>4. CASE SnkFrame(m)
  <2>1. PICK x \in {"top", "fetch", "done"} : snk' = [snk EXCEPT ![m] = x]
    BY <1>4 DEF SnkFrame
  <2> QED BY <1>4, <2>1 DEF SnkFrame
<1> QED BY <1>1, <1>2, <1>3, <1>4 DEF Sink

LEMMA StartupStep ==
  ASSUME TypeInv, Startup, Next
  PROVE  Startup'
<1>1. CASE Play
  BY <1>1 DEF Play, Connect, StartThreads, OpenAudio, PlayThrow, PlayCaught, StartDisplay, Join,
              NoThread, TypeInv, TypeOK, TypeSinks, Startup, Streams
<1>2. ASSUME UNCHANGED play,
             \A m \in Streams : /\ dec[m] = "off" => dec'[m] = "off"
                                /\ fil[m] = "off" => fil'[m] = "off"
                                /\ snk[m] = "off" => snk'[m] = "off"
      PROVE  Startup'
  BY <1>2 DEF Startup, Streams
<1>3. ASSUME NEW m \in Streams, Decoder(m)
      PROVE  Startup'
  BY <1>2, <1>3 DEF Decoder, DecPop, DecTerminated, DecFlush, DecSkip, DecDecode, DecEmit, DecPass,
                    DecRest, filVars, snkVars, TypeInv, TypeOK, TypeDecoders
<1>4. ASSUME NEW m \in Streams, Filter(m)
      PROVE  Startup'
  BY <1>2, <1>4 DEF Filter, FilPop, FilTerminated, FilFrame, FilPush, FilRest, decVars, snkVars,
                    TypeInv, TypeOK, TypeFilters
<1>5. ASSUME NEW m \in Streams, Sink(m)
      PROVE  Startup'
  BY <1>2, <1>5, SinkFrame
<1>6. CASE UNCHANGED <<play, decVars, filVars, snkVars>>
  BY <1>6 DEF Startup, decVars, filVars, snkVars
<1>7. CASE Reader \/ Writer \/ User \/ Seeking \/ Ended
  BY <1>6, <1>7
     DEF Reader, ReadTop, ReadSeek, ReadPacket, ReadSeekDone, ReadDeref, ReadPush, ReadEOF,
         ReadEndMarker, ReadError, ReadErrorDone, ReaderRest, Writer, User, Stop, SeekCheck,
         TogglePaused, Seeking, SeekSet, SeekOneShot, SeekOrphan, GuiRest, Ended, vars
<1>8. CASE (\E c \in Callers : Terminate(c)) \/ (\E c \in {"reader", "gui"} : ClearQueues(c))
  BY <1>6, <1>8
     DEF Terminate, TermQueue, TermPush, TermDetach, TermFlags, TermOrphan, TermRest,
         ClearQueues, ClearPkts, ClearFrames, ClearFlush, ClearOutputs, ClearRest
<1> QED BY <1>1, <1>3, <1>4, <1>5, <1>7, <1>8 DEF Next

LEMMA TypeStep == TypeInv /\ Startup /\ [Next]_vars => TypeInv' /\ Startup'
<1> SUFFICES ASSUME TypeInv, Startup, [Next]_vars PROVE TypeInv' /\ Startup'
  OBVIOUS
<1>1. CASE UNCHANGED vars
  BY <1>1 DEF TypeInv, TypeOK, InHand, Startup, vars, queues, flags, readerVars, decVars, filVars,
              snkVars, callVars, guiVars, TypeQueues, TypeFlags, TypeReader, TypeDecoders,
              TypeFilters, TypeSinks, TypeCalls, TypePlay
<1>2. CASE Next
  <2>1. Startup'
    BY <1>2, StartupStep
  <2>2. TypeInv'
    BY <1>2, PlayType, ReaderType, WriterType, UserType, DecoderType, FilterType,
       SinkType, TermType, ClearType, <1>1 DEF Next, Ended
  <2> QED BY <2>1, <2>2
<1> QED BY <1>1, <1>2

(* The values of the variables have their types and, what matters, no      *)
(* queue ever exceeds its capacity, whichever threads push to it and for   *)
(* every capacity, source and number of seeks.                             *)
THEOREM TypeCorrect == Spec => []TypeOK
<1>1. Init => TypeInv /\ Startup
  BY TypeInit DEF Init, Startup, Streams
<1>2. TypeInv => TypeOK
  BY DEF TypeInv
<1> QED BY <1>1, TypeStep, <1>2, PTL DEF Spec

-----------------------------------------------------------------------------
(* No stage waits on a dead one, until the first seek: only clear_queues() *)
(* can remove a null frame on its way.  The induction needs that nothing   *)
(* clears a queue before a seek was made, and that a decoder that is about *)
(* to end still has the null frame to push, or has pushed it.              *)
Quiet ==
  /\ seek = 0 /\ gui # "clear" /\ rd \notin {"clear1", "seekreading", "clear2"}
  /\ \A c \in {"reader", "gui"} : clr[c].at = "idle"

FilterGets(m) == fil[m] = "done" \/ HasNull(decoded[m]) \/ HasNull(fout[m])

EndsFed(m) ==
  dec[m] = "emit" /\ dhand[m] = Null => HasNull(dout[m]) \/ FilterGets(m)

Fed(m) == EndsFed(m) /\ FilterFed(m) /\ SinkFed(m)

FedInv == TypeInv /\ Startup /\ (nseek = 0 => Quiet /\ \A m \in Streams : Fed(m))

LEMMA HasNullHead ==
  ASSUME NEW S, NEW q \in Seq(S), q # <<>>
  PROVE  HasNull(q) <=> Head(q) = Null \/ HasNull(Tail(q))
<1>1. ASSUME HasNull(q), Head(q) # Null PROVE HasNull(Tail(q))
  <2>1. PICK i \in 1..Len(q) : q[i] = Null
    BY <1>1 DEF HasNull
  <2>2. i - 1 \in 1..Len(Tail(q)) /\ Tail(q)[i - 1] = Null
    BY <1>1, <2>1, HeadTailProperties
  <2> QED BY <2>2 DEF HasNull
<1>2. ASSUME HasNull(Tail(q)) PROVE HasNull(q)
  <2>1. PICK i \in 1..Len(Tail(q)) : Tail(q)[i] = Null
    BY <1>2 DEF HasNull
  <2>2. i + 1 \in 1..Len(q) /\ q[i + 1] = Null
    BY <2>1, HeadTailProperties
  <2> QED BY <2>2 DEF HasNull
<1>3. ASSUME Head(q) = Null PROVE HasNull(q)
  BY <1>3 DEF HasNull
<1> QED BY <1>1, <1>2, <1>3

LEMMA HasNullPush ==
  ASSUME NEW S, NEW q \in Seq(S), NEW e \in S
  PROVE  HasNull(Push(q, e)) <=> HasNull(q) \/ e = Null
<1>1. ASSUME HasNull(q) PROVE HasNull(Push(q, e))
  BY <1>1 DEF HasNull, Push
<1>2. ASSUME e = Null PROVE HasNull(Push(q, e))
  BY <1>2 DEF HasNull, Push
<1>3. ASSUME HasNull(Push(q, e)), e # Null PROVE HasNull(q)
  BY <1>3 DEF HasNull, Push
<1> QED BY <1>1, <1>2, <1>3

LEMMA HasNullShort == HasNull(<<Null>>) /\ ~HasNull(<<>>)
BY DEF HasNull

LEMMA FedInit == Init => FedInv
<1> SUFFICES ASSUME Init PROVE FedInv
  OBVIOUS
<1>1. Quiet
  BY DEF Init, Quiet, Idle
<1>2. ASSUME NEW m \in Streams PROVE Fed(m)
  BY DEF Init, Fed, EndsFed, FilterFed, SinkFed
<1>3. Startup
  BY DEF Init, Startup, Streams
<1> QED BY <1>1, <1>2, <1>3, TypeInit DEF FedInv

(* Without a request nobody clears the queues.                             *)
LEMMA QuietStep ==
  ASSUME TypeInv, Quiet, Next, nseek' = 0
  PROVE  Quiet'
<1>1. ~(\E c \in {"reader", "gui"} : ClearQueues(c))
  BY DEF ClearQueues, ClearPkts, ClearFrames, ClearFlush, ClearOutputs, Quiet
<1>2. CASE Reader
  BY <1>2 DEF Reader, ReadTop, ReadSeek, ReadPacket, Route, ReadSeekDone, ReadDeref, ReadPush,
              ReadEOF, ReadEndMarker, EofNext, ReadError, ReadErrorDone, ReaderRest, guiVars, Quiet
<1>3. CASE User \/ Seeking
  <2>1. ~SeekSet
    BY PlayerAssumption DEF SeekSet, TypeInv, TypeOK, TypePlay
  <2>2. ~SeekOneShot
    BY DEF SeekOneShot, Quiet
  <2> QED BY <1>3, <2>1, <2>2 DEF User, Stop, SeekCheck, TogglePaused, Seeking, SeekOrphan,
              GuiRest, flags, readerVars, callVars, guiVars, Quiet
<1>4. CASE Play
  BY <1>4 DEF Play, Connect, StartThreads, OpenAudio, PlayThrow, PlayCaught, StartDisplay, Join,
              PlayRest, NoThread, flags, guiVars, Quiet
<1>5. CASE UNCHANGED <<seek, gui, rd, clr>>
  BY <1>5 DEF Quiet
<1>6. ASSUME NEW m \in Streams, Decoder(m) \/ Filter(m) \/ Sink(m)
      PROVE  UNCHANGED <<seek, gui, rd, clr>>
  BY <1>6 DEF Decoder, DecPop, DecTerminated, DecFlush, DecSkip, DecDecode, DecEmit, DecPass, DecRest,
              Filter, FilPop, FilTerminated, FilFrame, FilPush, FilRest,
              Sink, SnkTop, AudioFetch, SnkPop, SnkFrame, SnkRest,
              flags, readerVars, callVars, guiVars
<1>7. ASSUME NEW c \in Callers, Terminate(c)
      PROVE  UNCHANGED <<seek, gui, rd, clr>>
  BY <1>7 DEF Terminate, TermQueue, TermPush, TermDetach, TermFlags, TermOrphan, TermRest,
              readerVars, guiVars
<1>8. CASE Writer \/ Ended
  BY <1>8 DEF Writer, Ended, vars, flags, readerVars, callVars, guiVars, Quiet
<1> QED BY <1>1, <1>2, <1>3, <1>4, <1>5, <1>6, <1>7, <1>8 DEF Next

(* The steps of the other threads leave what Fed is about alone.           *)
FedVars(m) == <<dec[m], dhand[m], dout[m], decoded[m], fil[m], fout[m], filtered[m],
                snk[m], shand[m]>>

LEMMA FedUnchanged ==
  ASSUME NEW m \in Streams, Fed(m), terminated => terminated', UNCHANGED FedVars(m)
  PROVE  Fed(m)'
BY DEF Fed, EndsFed, FilterFed, SinkFed, FilterGets, HasNull, FedVars

LEMMA FedDecoder ==
  ASSUME TypeInv, NEW m \in Streams, Fed(m), Decoder(m)
  PROVE  Fed(m)'
<1> USE DEF Fed, EndsFed, FilterFed, FilterGets
<1>1. SinkFed(m)'
  BY DEF Decoder, DecPop, DecTerminated, DecFlush, DecSkip, DecDecode, DecEmit, DecPass,
         DecRest, filVars, snkVars, flags, SinkFed, HasNull
<1>2. CASE DecPop(m) \/ DecFlush(m) \/ DecSkip(m)
  BY <1>1, <1>2 DEF DecPop, DecFlush, DecSkip, TypeInv, TypeOK, TypeDecoders
<1>3. CASE DecTerminated(m)
  BY <1>1, <1>3, HasNullShort DEF DecTerminated, TypeInv, TypeOK, TypeDecoders
<1>4. CASE DecDecode(m)
  <2>1. held[m] \in Seq(Frames) /\ Null \in Frames
    BY SeqMonotonic DEF TypeInv, TypeOK, TypeDecoders, Frames
  <2>2. HasNull(Drained(m))
    BY <2>1, HasNullPush DEF Drained, Push
  <2> QED BY <1>1, <1>4, <2>2 DEF DecDecode, TypeInv, TypeOK, TypeDecoders
<1>5. CASE DecEmit(m)
  <2>1. dout[m] \in Seq(Frames) /\ dout[m] # <<>> /\ Head(dout[m]) \in Frames
        /\ decoded[m] \in Seq(Frames)
    BY <1>5, PopType DEF DecEmit, TypeInv, TypeOK, TypeDecoders, TypeQueues
  <2>2. /\ decoded'[m] = Push(decoded[m], Head(dout[m])) /\ dout'[m] = Tail(dout[m])
        /\ dec[m] = "emit" /\ dec'[m] = "emit" /\ UNCHANGED <<dhand, fil, fout>>
    BY <1>5 DEF DecEmit, DecRest, filVars, TypeInv, TypeOK, TypeDecoders, TypeQueues
  <2>3. HasNull(dout[m]) => HasNull(decoded'[m]) \/ HasNull(dout'[m])
    BY <2>1, <2>2, HasNullPush, HasNullHead
  <2>4. HasNull(decoded[m]) => HasNull(decoded'[m])
    BY <2>1, <2>2, HasNullPush
  <2> QED BY <1>1, <2>2, <2>3, <2>4
<1>6. CASE DecPass(m)
  <2>1. UNCHANGED <<decoded, fil, fout>> /\ dec[m] = "emit" /\ dout[m] = <<>>
    BY <1>6 DEF DecPass, DecRest, filVars
  <2>2. dec'[m] = (IF dhand[m] = Null THEN "done" ELSE "pop")
    BY <1>6 DEF DecPass, TypeInv, TypeOK, TypeDecoders
  <2> QED BY <1>1, <2>1, <2>2, HasNullShort
<1> QED BY <1>2, <1>3, <1>4, <1>5, <1>6 DEF Decoder

LEMMA FedFilter ==
  ASSUME TypeInv, NEW m \in Streams, Fed(m), Filter(m)
  PROVE  Fed(m)'
<1>1. UNCHANGED <<dec, dhand, dout, snk, shand, terminated>>
  BY DEF Filter, FilPop, FilTerminated, FilFrame, FilPush, FilRest, decVars, snkVars, flags
<1>2. ASSUME FilterGets(m) PROVE FilterGets(m)'
  <2>1. CASE FilPop(m)
    <3>1. HasNull(decoded[m])
      BY <1>2, <2>1, HasNullShort DEF FilPop, FilterGets, TypeInv, InHand
    <3>2. /\ decoded[m] \in Seq(Frames) /\ decoded[m] # <<>>
          /\ decoded'[m] = Tail(decoded[m]) /\ fout'[m] = <<Head(decoded[m])>>
      BY <2>1 DEF FilPop, TypeInv, TypeOK, TypeQueues, TypeFilters
    <3> QED BY <3>1, <3>2, HasNullHead, HasNullShort DEF FilterGets
  <2>2. CASE FilTerminated(m)
    BY <2>2, HasNullShort DEF FilTerminated, FilterGets, TypeInv, TypeOK, TypeFilters
  <2>3. CASE FilFrame(m)
    <3>1. UNCHANGED decoded /\ fil[m] = "check"
      BY <2>3 DEF FilFrame
    <3>2. CASE fout[m] = <<Null>>
      BY <2>3, <3>2, HasNullShort DEF FilFrame, FilterGets
    <3>3. CASE fout[m] # <<Null>>
      <4>1. fout[m] \in Seq(Frames) /\ fout[m] # <<>> /\ Tail(fout[m]) = <<>>
        BY <3>1 DEF TypeInv, TypeOK, TypeFilters, InHand
      <4>2. Head(fout[m]) # Null
        <5>1. Len(Tail(fout[m])) = Len(fout[m]) - 1 /\ Len(fout[m]) \in Nat
          BY <4>1, PopType
        <5>2. Len(Tail(fout[m])) = 0
          BY <4>1, PopType, EmptySeq
        <5>3. Len(fout[m]) = 1
          BY <5>1, <5>2
        <5> QED BY <3>3, <4>1, <5>3
      <4>3. ~HasNull(fout[m])
        BY <4>1, <4>2, HasNullHead, HasNullShort
      <4> QED BY <1>2, <3>1, <4>3 DEF FilterGets
    <3> QED BY <3>2, <3>3
  <2>4. CASE FilPush(m)
    <3>1. fout[m] \in Seq(Frames) /\ fout[m] # <<>> /\ fil[m] = "push"
      BY <2>4 DEF FilPush, TypeInv, TypeOK, TypeFilters, InHand
    <3>2. /\ fout'[m] = Tail(fout[m]) /\ UNCHANGED decoded
          /\ Head(fout[m]) = Null => fil'[m] = "done"
      BY <2>4 DEF FilPush, TypeInv, TypeOK, TypeFilters
    <3> QED BY <1>2, <3>1, <3>2, HasNullHead DEF FilterGets
  <2> QED BY <2>1, <2>2, <2>3, <2>4 DEF Filter
<1>3. SinkFed(m)'
  <2>1. CASE FilPush(m)
    <3>1. fout[m] \in Seq(Frames) /\ Head(fout[m]) \in Frames /\ filtered[m] \in Seq(Frames)
      BY <2>1, PopType DEF FilPush, TypeInv, TypeOK, TypeFilters, TypeQueues, InHand
    <3>2. filtered'[m] = Push(filtered[m], Head(fout[m])) /\ (fil'[m] = "done" => Head(fout[m]) = Null)
      BY <2>1 DEF FilPush, TypeInv, TypeOK, TypeFilters, TypeQueues
    <3> QED BY <3>1, <3>2, HasNullPush DEF SinkFed
  <2>2. CASE ~FilPush(m)
    BY <2>2 DEF Filter, FilPop, FilTerminated, FilFrame, SinkFed, TypeInv, TypeOK, TypeFilters
  <2> QED BY <2>1, <2>2
<1> QED BY <1>1, <1>2, <1>3 DEF Fed, EndsFed, FilterFed, FilterGets

LEMMA FedSink ==
  ASSUME TypeInv, NEW m \in Streams, Fed(m), Sink(m)
  PROVE  Fed(m)'
<1>1. EndsFed(m)' /\ FilterFed(m)' /\ UNCHANGED <<fil, terminated>>
  BY DEF Sink, SnkTop, AudioFetch, SnkPop, SnkFrame, SnkRest, decVars, filVars,
         Fed, EndsFed, FilterFed, FilterGets, HasNull
<1>2. CASE SnkTop(m)
  BY <1>1, <1>2 DEF SnkTop, Fed, SinkFed, TypeInv, TypeOK, TypeSinks, TypeQueues
<1>3. CASE AudioFetch /\ m = "audio"
  BY <1>1, <1>3 DEF AudioFetch, Fed, SinkFed, TypeInv, TypeOK, TypeSinks, TypeQueues
<1>4. CASE SnkPop(m)
  <2>1. filtered[m] \in Seq(Frames) /\ filtered[m] # <<>>
    BY <1>4 DEF SnkPop, TypeInv, TypeOK, TypeQueues
  <2>2. /\ filtered'[m] = Tail(filtered[m]) /\ shand'[m] = Head(filtered[m])
        /\ snk[m] = "pop" /\ snk'[m] = "check"
    BY <1>4 DEF SnkPop, TypeInv, TypeOK, TypeQueues, TypeSinks
  <2> QED BY <1>1, <2>1, <2>2, HasNullHead DEF Fed, SinkFed
<1>5. CASE SnkFrame(m)
  BY <1>1, <1>5 DEF SnkFrame, Fed, SinkFed, TypeInv, TypeOK, TypeSinks, TypeQueues
<1> QED BY <1>2, <1>3, <1>4, <1>5 DEF Sink

(* The number of requests only grows.                                      *)
LEMMA SeekCounts ==
  ASSUME TypeInv, TypeInv', [Next]_vars, nseek' = 0
  PROVE  nseek = 0
<1>1. nseek \in Nat /\ nseek' \in Nat
  BY PlayerAssumption DEF TypeInv, TypeOK, TypePlay
<1>2. nseek' \in {nseek, nseek + 1}
  <2>1. ASSUME Play \/ Reader \/ Writer PROVE UNCHANGED nseek
    BY <2>1 DEF Play, Connect, StartThreads, OpenAudio, PlayThrow, PlayCaught, StartDisplay,
                Join, PlayRest, Reader, ReadTop, ReadSeek, ReadPacket, ReadSeekDone, ReadDeref,
                ReadPush, ReadEOF, ReadEndMarker, ReadError, ReadErrorDone, ReaderRest,
                Writer, guiVars
  <2>2. ASSUME User \/ Seeking PROVE nseek' \in {nseek, nseek + 1}
    BY <2>2 DEF User, Stop, SeekCheck, TogglePaused, Seeking, SeekSet, SeekOneShot,
                SeekOrphan, guiVars
  <2>3. ASSUME NEW m \in Streams, Decoder(m) \/ Filter(m) \/ Sink(m) PROVE UNCHANGED nseek
    BY <2>3 DEF Decoder, DecPop, DecTerminated, DecFlush, DecSkip, DecDecode, DecEmit, DecPass,
                DecRest, Filter, FilPop, FilTerminated, FilFrame, FilPush, FilRest,
                Sink, SnkTop, AudioFetch, SnkPop, SnkFrame, SnkRest, guiVars
  <2>4. ASSUME (\E c \in Callers : Terminate(c)) \/ (\E c \in {"reader", "gui"} : ClearQueues(c))
        PROVE  UNCHANGED nseek
    BY <2>4 DEF Terminate, TermQueue, TermPush, TermDetach, TermFlags, TermOrphan, TermRest,
                ClearQueues, ClearPkts, ClearFrames, ClearFlush, ClearOutputs, ClearRest, guiVars
  <2>5. ASSUME UNCHANGED vars \/ Ended PROVE UNCHANGED nseek
    BY <2>5 DEF Ended, vars, guiVars
  <2> QED BY <2>1, <2>2, <2>3, <2>4, <2>5 DEF Next
<1> QED BY <1>1, <1>2

LEMMA FedStep == FedInv /\ [Next]_vars => FedInv'
<1> SUFFICES ASSUME FedInv, [Next]_vars PROVE FedInv'
  OBVIOUS
<1>1. TypeInv /\ TypeInv' /\ Startup /\ Startup'
  BY TypeStep DEF FedInv
<1> SUFFICES ASSUME nseek' = 0 PROVE Quiet' /\ \A m \in Streams : Fed(m)'
  BY <1>1 DEF FedInv
<1>2. nseek = 0
  BY <1>1, SeekCounts
<1>3. Quiet /\ \A m \in Streams : Fed(m)
  BY <1>2 DEF FedInv
<1>4. CASE UNCHANGED vars
  <2>1. ASSUME NEW m \in Streams PROVE Fed(m)'
    BY <1>3, <1>4, FedUnchanged DEF vars, FedVars, decVars, filVars, snkVars, queues, flags
  <2>2. Quiet'
    BY <1>3, <1>4 DEF Quiet, vars, flags, readerVars, callVars, guiVars
  <2> QED BY <2>1, <2>2
<1>5. CASE Next
  <2>1. Quiet'
    BY <1>1, <1>3, <1>5, QuietStep
  <2>2. ASSUME NEW m \in Streams, Decoder(m) \/ Filter(m) \/ Sink(m), NEW k \in Streams
        PROVE  Fed(k)'
    <3>1. CASE k = m
      BY <1>1, <1>3, <2>2, <3>1, FedDecoder, FedFilter, FedSink
    <3>2. CASE k # m
      <4>1. CASE Decoder(m)
        <5>1. UNCHANGED <<fil, fout, filtered, snk, shand, terminated>>
          BY <4>1 DEF Decoder, DecPop, DecTerminated, DecFlush, DecSkip, DecDecode, DecEmit,
                      DecPass, DecRest, flags, filVars, snkVars
        <5>2. UNCHANGED <<dhand[k], dout[k], decoded[k], dec[k]>>
          <6>1. k \in DOMAIN dhand /\ k \in DOMAIN dout /\ k \in DOMAIN decoded /\ k \in DOMAIN dec
            BY <1>1 DEF TypeInv, TypeOK, TypeDecoders, TypeQueues
          <6> QED BY <3>2, <4>1, <6>1
             DEF Decoder, DecPop, DecTerminated, DecFlush, DecSkip, DecDecode, DecEmit, DecPass
        <5> QED BY <1>3, <5>1, <5>2, FedUnchanged DEF FedVars
      <4>2. CASE Filter(m)
        <5>1. /\ UNCHANGED <<decoded[k], fil[k], fout[k], filtered[k]>>
              /\ UNCHANGED <<dec, dhand, dout, snk, shand, terminated>>
          BY <1>1, <3>2, <4>2
             DEF Filter, FilPop, FilTerminated, FilFrame, FilPush, FilRest,
                 flags, decVars, snkVars, TypeInv, TypeOK, TypeFilters, TypeQueues
        <5> QED BY <1>3, <5>1, FedUnchanged DEF FedVars
      <4>3. CASE Sink(m)
        <5>1. UNCHANGED FedVars(k) /\ UNCHANGED terminated
          BY <1>1, <3>2, <4>3, SinkFrame DEF FedVars
        <5> QED BY <1>3, <5>1, FedUnchanged
      <4> QED BY <2>2, <4>1, <4>2, <4>3
    <3> QED BY <3>1, <3>2
  <2>3. ASSUME Play, NEW k \in Streams
        PROVE  Fed(k)'
    <3>1. Fed(k) /\ TypeInv /\ Startup
      BY <1>1, <1>3
    <3>2. /\ UNCHANGED <<dhand, dout, decoded, fout, filtered, shand, terminated>>
          /\ StartThreads \/ UNCHANGED <<dec, fil>>
      BY <2>3 DEF Play, Connect, StartThreads, OpenAudio, PlayThrow, PlayCaught, StartDisplay, Join,
                  PlayRest, NoThread, flags
    <3>3. CASE StartThreads
      <4>1. dec'[k] \in {"pop", "off"} /\ fil'[k] \in {"pop", "off"}
        BY <3>3 DEF StartThreads
      <4> QED BY <4>1 DEF Fed, EndsFed, FilterFed, SinkFed
    <3>4. CASE UNCHANGED <<dec, fil>>
      <4>1. snk'[k] = snk[k] \/ snk'[k] = "done" \/ (snk[k] = "off" /\ snk'[k] = "top")
        BY <2>3, <3>1
           DEF Play, Connect, StartThreads, OpenAudio, PlayThrow, PlayCaught, StartDisplay, Join,
               NoThread, TypeInv, TypeOK, TypeSinks, Startup, Streams
      <4> QED BY <3>1, <3>2, <3>4, <4>1 DEF Fed, EndsFed, FilterFed, SinkFed, FilterGets, HasNull
    <3> QED BY <3>2, <3>3, <3>4
  <2>4. ASSUME Reader \/ Writer \/ User \/ Seeking \/ Ended \/ \E c \in Callers : Terminate(c),
               NEW k \in Streams
        PROVE  Fed(k)'
    <3>1. CASE Reader \/ Writer \/ Ended
      BY <1>3, <3>1, FedUnchanged
         DEF Reader, ReadTop, ReadSeek, ReadPacket, ReadSeekDone, ReadDeref, ReadPush, ReadEOF,
             ReadEndMarker, ReadError, ReadErrorDone, ReaderRest, Writer, Ended, vars, queues,
             flags, decVars, filVars, snkVars, FedVars
    <3>2. CASE User \/ Seeking
      <4>1. UNCHANGED <<queues, decVars, filVars, snkVars, terminated>>
        BY <3>2 DEF User, Stop, SeekCheck, TogglePaused, Seeking, SeekSet, SeekOneShot, SeekOrphan,
             GuiRest, flags
      <4> QED BY <1>3, <4>1, FedUnchanged DEF queues, decVars, filVars, snkVars, FedVars
    <3>3. CASE \E c \in Callers : Terminate(c)
      BY <1>3, <3>3, FedUnchanged
         DEF Terminate, TermQueue, TermPush, TermDetach, TermFlags, TermOrphan, TermRest,
             decVars, filVars, snkVars, FedVars
    <3> QED BY <2>4, <3>1, <3>2, <3>3
  <2>6. ~(\E c \in {"reader", "gui"} : ClearQueues(c))
    BY <1>3 DEF ClearQueues, ClearPkts, ClearFrames, ClearFlush, ClearOutputs, Quiet
  <2> QED BY <1>5, <2>1, <2>2, <2>3, <2>4, <2>6 DEF Next
<1> QED BY <1>4, <1>5

(* Until the first seek no stage of the pipeline is left waiting for a     *)
(* stage that is gone: at the end of a stream, after stop, after an error  *)
(* and whatever the interleaving, each thread that ends has left a null    *)
(* frame to the next one, or terminated makes that one leave.              *)
THEOREM StagesAlwaysFed == Spec => [](nseek = 0 => StagesFed)
<1>1. FedInv => (nseek = 0 => StagesFed)
  BY DEF FedInv, Fed, StagesFed
<1> QED BY FedInit, FedStep, <1>1, PTL DEF Spec

-----------------------------------------------------------------------------
(* The writer of a live stream is never left waiting by its decoders.  The *)
(* induction needs that only live streams start a writer, which is when    *)
(* the decoders pass their packets on to it.                               *)
WriterInv == (wr = "pop" => Live) /\ WriterFed

(* The steps that do not end a decoder keep the null packet of the writer. *)
LEMMA WriterKept ==
  ASSUME WriterInv, pkts["writer"] \in Seq(Packets), UNCHANGED <<opts, wr>>,
         \A m \in Streams : dec'[m] = "done" => dec[m] = "done",
         \/ pkts'["writer"] = pkts["writer"]
         \/ \E e \in Packets : pkts'["writer"] = Push(pkts["writer"], e)
  PROVE  WriterInv'
<1>1. ASSUME HasNull(pkts["writer"])
      PROVE  HasNull(pkts'["writer"])
  <2>1. CASE pkts'["writer"] = pkts["writer"]
    BY <1>1, <2>1
  <2>2. ASSUME NEW e \in Packets, pkts'["writer"] = Push(pkts["writer"], e)
        PROVE  HasNull(pkts'["writer"])
    BY <1>1, <2>2, HasNullPush
  <2> QED BY <2>1, <2>2
<1>2. wr' = "pop" /\ (\E m \in Streams : dec'[m] = "done") => HasNull(pkts["writer"])
  BY DEF WriterInv, WriterFed
<1>3. wr' = "pop" => opts'.live
  BY DEF WriterInv, Live
<1> QED BY <1>1, <1>2, <1>3 DEF WriterInv, WriterFed, Live, HasNull

LEMMA WriterStep == TypeInv /\ WriterInv /\ [Next]_vars => WriterInv'
<1> SUFFICES ASSUME TypeInv, WriterInv, [Next]_vars PROVE WriterInv'
  OBVIOUS
<1>0. pkts["writer"] \in Seq(Packets) /\ "writer" \in Outs /\ "writer" \notin Streams
  BY DEF TypeInv, TypeOK, TypeQueues, Outs, Streams
<1> DEFINE Kept == \/ pkts'["writer"] = pkts["writer"]
                   \/ \E e \in Packets : pkts'["writer"] = Push(pkts["writer"], e)
<1>1. ASSUME NEW o \in Outs, NEW e \in Packets, PushPkt(o, e)
      PROVE  Kept
  BY <1>0, <1>1 DEF PushPkt, TypeInv, TypeOK, TypeQueues
<1>2. CASE Writer
  <2>1. /\ pkts["writer"] # <<>> /\ pkts'["writer"] = Tail(pkts["writer"])
        /\ wr' = IF Head(pkts["writer"]) = Null THEN "done" ELSE "pop"
        /\ wr = "pop" /\ UNCHANGED <<opts, dec>>
    BY <1>0, <1>2 DEF Writer, decVars, TypeInv, TypeOK, TypeQueues
  <2> QED BY <1>0, <2>1, HasNullHead DEF WriterInv, WriterFed, Live
<1>3. CASE Play
  <2>1. CASE StartThreads
    BY <2>1 DEF StartThreads, PlayRest, WriterInv, WriterFed, Live
  <2>2. CASE ~StartThreads
    BY <1>0, <1>3, <2>2, WriterKept
       DEF Play, Connect, OpenAudio, PlayThrow, PlayCaught, StartDisplay, Join, PlayRest, NoThread
  <2> QED BY <2>1, <2>2
<1>4. CASE Reader
  <2>1. Kept
    <3>1. CASE ReadPush
      BY <1>1, <3>1 DEF ReadPush, TypeInv, TypeOK, TypeReader, Packets, Frames
    <3>2. CASE ReadEndMarker
      <4>1. EofNext[rd][1] \in Outs /\ Null \in Packets
        BY <3>2 DEF ReadEndMarker, EofNext, Outs, Streams, Packets
      <4> QED BY <1>1, <3>2, <4>1 DEF ReadEndMarker
    <3>3. CASE UNCHANGED pkts
      BY <3>3
    <3> QED BY <1>4, <3>1, <3>2, <3>3 DEF Reader, ReadTop, ReadSeek, ReadPacket, ReadSeekDone,
               ReadDeref, ReadEOF, ReadError, ReadErrorDone
  <2>2. UNCHANGED <<opts, wr, dec>>
    BY <1>4 DEF Reader, ReadTop, ReadSeek, ReadPacket, ReadSeekDone, ReadDeref, ReadPush, ReadEOF,
            ReadEndMarker, ReadError, ReadErrorDone, ReaderRest, decVars
  <2> QED BY <1>0, <2>1, <2>2, WriterKept
<1>5. ASSUME NEW m \in Streams, Decoder(m)
      PROVE  WriterInv'
  <2>1. CASE DecPass(m)
    <3>1. dhand[m] \in Packets /\ dec'[m] = (IF dhand[m] = Null THEN "done" ELSE "pop")
          /\ \A k \in Streams \ {m} : dec'[k] = dec[k]
      BY <2>1 DEF DecPass, TypeInv, TypeOK, TypeDecoders
    <3>2. UNCHANGED <<opts, wr>>
      BY <2>1 DEF DecPass, DecRest
    <3>3. CASE Live
      <4>1. pkts'["writer"] = Push(pkts["writer"], dhand[m])
        BY <1>0, <2>1, <3>3 DEF DecPass, ToWriter, PushPkt, TypeInv, TypeOK, TypeQueues
      <4> QED BY <1>0, <3>1, <3>2, <3>3, <4>1, HasNullPush DEF WriterInv, WriterFed, Live
    <3>4. CASE ~Live
      BY <3>2, <3>4 DEF WriterInv, WriterFed, Live
    <3> QED BY <3>3, <3>4
  <2>2. CASE ~DecPass(m)
    <3>1. /\ UNCHANGED <<opts, wr>> /\ pkts'["writer"] = pkts["writer"]
          /\ \A k \in Streams : dec'[k] = "done" => dec[k] = "done"
      BY <1>0, <1>5, <2>2
         DEF Decoder, DecPop, DecTerminated, DecFlush, DecSkip, DecDecode, DecEmit, DecRest,
             TypeInv, TypeOK, TypeDecoders, TypeQueues
    <3> QED BY <1>0, <3>1, WriterKept
  <2> QED BY <2>1, <2>2
<1>6. ASSUME NEW m \in Streams, Filter(m) \/ Sink(m)
      PROVE  WriterInv'
  <2>1. UNCHANGED <<opts, wr, dec>> /\ pkts'["writer"] = pkts["writer"]
    BY <1>0, <1>6 DEF Filter, FilPop, FilTerminated, FilFrame, FilPush, FilRest,
           Sink, SnkTop, AudioFetch, SnkPop, SnkFrame, SnkRest, decVars, TypeInv, TypeOK, TypeQueues
  <2> QED BY <1>0, <2>1, WriterKept
<1>7. ASSUME NEW c \in Callers, Terminate(c)
      PROVE  WriterInv'
  <2>1. UNCHANGED <<opts, wr, dec>>
    BY <1>7 DEF Terminate, TermQueue, TermPush, TermDetach, TermFlags, TermOrphan, TermRest, decVars
  <2>2. Kept
    <3>1. CASE TermPush(c)
      <4>1. TermFirst(term[c].todo) \in Outs /\ Null \in Packets
        BY DEF TermFirst, Outs, Streams, Packets
      <4> QED BY <1>1, <3>1, <4>1 DEF TermPush
    <3>2. CASE ~TermPush(c)
      BY <1>0, <1>7, <3>2 DEF Terminate, TermQueue, TermDetach, TermFlags, TermOrphan,
                              TypeInv, TypeOK, TypeQueues
    <3> QED BY <3>1, <3>2
  <2> QED BY <1>0, <2>1, <2>2, WriterKept
<1>8. ASSUME NEW c \in {"reader", "gui"}, ClearQueues(c)
      PROVE  WriterInv'
  <2>1. UNCHANGED <<opts, wr, dec>>
    BY <1>8 DEF ClearQueues, ClearPkts, ClearFrames, ClearFlush, ClearOutputs, ClearRest, decVars
  <2>2. Kept
    <3>1. CASE ClearFlush(c)
      <4>1. ClearFirst(clr[c].todo) \in Outs /\ Flush \in Packets
        BY DEF ClearFirst, Outs, Streams, Packets
      <4> QED BY <1>1, <3>1, <4>1 DEF ClearFlush
    <3>2. CASE ~ClearFlush(c)
      BY <1>0, <1>8, <3>2 DEF ClearQueues, ClearPkts, ClearFrames, ClearOutputs
    <3> QED BY <3>1, <3>2
  <2> QED BY <1>0, <2>1, <2>2, WriterKept
<1>9. CASE User \/ Seeking
  BY <1>0, <1>9, WriterKept
     DEF User, Stop, SeekCheck, TogglePaused, Seeking, SeekSet, SeekOneShot, SeekOrphan, GuiRest,
         queues, decVars
<1>10. CASE UNCHANGED vars
  BY <1>0, <1>10, WriterKept DEF vars, queues, decVars
<1> QED BY <1>2, <1>3, <1>4, <1>5, <1>6, <1>7, <1>8, <1>9, <1>10 DEF Next, Ended

(* A decoder that ends has passed a null packet to the writer, or another  *)
(* thread has, so that play() never waits for a writer whose packets have  *)
(* stopped.  Seeks, stops and errors do not matter.                        *)
THEOREM WriterAlwaysFed == Spec => []WriterFed
<1>1. Init => TypeInv /\ Startup /\ WriterInv
  BY TypeInit DEF Init, Startup, Streams, WriterInv, WriterFed
<1>2. TypeInv /\ Startup /\ WriterInv /\ [Next]_vars => TypeInv' /\ Startup' /\ WriterInv'
  BY TypeStep, WriterStep
<1>3. WriterInv => WriterFed
  BY DEF WriterInv
<1> QED BY <1>1, <1>2, <1>3, PTL DEF Spec
-----------------------------------------------------------------------------
(* The decoder of the video stream is never left waiting.  The induction   *)
(* follows the null packet from the two places that send it, the reader's  *)
(* end and terminate(), which look at each other's flags and pointers: a   *)
(* closed reader, a queue that is gone and a terminate() that is past the  *)
(* video queue each mean that the null packet is on its way.               *)
Due(c)    == term[c].at = "push" /\ "video" \in term[c].todo
InDecoder == \/ dec["video"] \in {"check", "emit"} /\ dhand["video"] = Null
             \/ dec["video"] = "done"
Coming    == HasNull(pkts["video"]) \/ InDecoder \/ \E c \in Callers : Due(c)

PastVideo(c) == term[c].at \in {"queues", "push", "detach"} /\ "video" \notin term[c].todo
Pushed(c)    == term[c].at = "detach" /\ "video" \in term[c].todo
Ending       == {"eof_video", "eof_audio", "eof_writer", "done"}

ClosedSet  == /\ terminated \/ rd \in Ending => closed
              /\ \A c \in Callers : term[c].at = "done" => closed
ClosedFed  == closed /\ rd # "eof_video" => Coming
GoneFed    == (HasReader \/ rd # "off") /\ "video" \notin attached => Coming
PastFed    == \A c \in Callers : PastVideo(c) => Coming \/ rd = "eof_video"
PushedFed  == \A c \in Callers : Pushed(c) => Coming
EndInv     == ClosedSet /\ ClosedFed /\ GoneFed /\ PastFed /\ PushedFed

(* The reader does not run before play() starts it, nor terminate() in a   *)
(* thread that has not yet called it.                                      *)
Unstarted == play \in {"connect", "setup"} => rd = "off"
Unused ==
  /\ Unstarted
  /\ term["reader"].at # "idle" => rd \in {"error", "done"}
  /\ play \in {"connect", "setup", "audio", "display"} => term["play"].at = "idle"
  /\ stop # "sent" => term["gui"].at = "idle"

DecInv == Unused /\ (nseek = 0 /\ "video" \in Media => EndInv)

Fresh(t) == t.at = "queues" /\ "video" \in t.todo

(* A step that leaves the flags and the pointers alone, starts terminate() *)
(* at most, keeps the null packet, and moves the reader neither from its   *)
(* start nor to or past the end of the video stream unless it is closed.   *)
LEMMA EndKept ==
  ASSUME EndInv, UNCHANGED <<attached, closed, terminated>>,
         \A c \in Callers : term'[c] = term[c] \/ Fresh(term'[c]),
         Coming => Coming',
         \/ rd' = rd
         \/ rd' # "off" /\ rd # "off" /\ rd' # "eof_video" /\ rd # "eof_video"
            /\ (rd' \in Ending => closed),
         HasReader' => HasReader
  PROVE  EndInv'
<1>2. ClosedSet'
  BY DEF EndInv, ClosedSet, Fresh
<1>3. ClosedFed'
  BY DEF EndInv, ClosedFed
<1>4. GoneFed'
  BY DEF EndInv, GoneFed
<1>5. PastFed'
  BY DEF EndInv, PastFed, PastVideo, Fresh
<1>6. PushedFed'
  BY DEF EndInv, PushedFed, Pushed, Fresh
<1> QED BY <1>2, <1>3, <1>4, <1>5, <1>6 DEF EndInv

(* Pushing to a queue of packets never removes the null packet.            *)
LEMMA ComingKept ==
  ASSUME TypeInv,
         \/ UNCHANGED pkts
         \/ \E o \in Outs, e \in Packets : PushPkt(o, e),
         UNCHANGED <<dec["video"], dhand["video"]>>,
         \A c \in Callers : term[c].at = "push" => term'[c] = term[c], Coming
  PROVE  Coming'
<1>1. pkts["video"] \in Seq(Packets) /\ pkts \in [Outs -> Seq(Packets)] /\ "video" \in Outs
  BY DEF TypeInv, TypeOK, TypeQueues, Outs, Streams
<1>2. ASSUME HasNull(pkts["video"])
      PROVE  HasNull(pkts'["video"])
  <2>1. ASSUME NEW o \in Outs, NEW e \in Packets, PushPkt(o, e)
        PROVE  HasNull(pkts'["video"])
    <3>1. pkts'["video"] = pkts["video"] \/ pkts'["video"] = Push(pkts["video"], e)
      BY <1>1, <2>1 DEF PushPkt
    <3> QED BY <1>1, <1>2, <3>1, HasNullPush
  <2>2. CASE UNCHANGED pkts
    BY <1>2, <2>2
  <2> QED BY <2>1, <2>2
<1>3. HasNull(pkts'["video"]) => HasNull(pkts["video"])'
  BY DEF HasNull
<1> QED BY <1>2, <1>3 DEF Coming, InDecoder, Due

LEMMA EndDecoder ==
  ASSUME TypeInv, seek = 0, EndInv, NEW m \in Streams, Decoder(m)
  PROVE  EndInv'
<1>1. UNCHANGED <<attached, closed, terminated, term, rd, play>>
  BY DEF Decoder, DecPop, DecTerminated, DecFlush, DecSkip, DecDecode, DecEmit, DecPass, DecRest,
         flags, readerVars, callVars
<1>2. pkts \in [Outs -> Seq(Packets)] /\ "video" \in Outs /\ "video" \in Streams /\ Null # Flush
      /\ dec \in [Streams -> {"off", "pop", "check", "emit", "done"}]
      /\ dhand \in [Streams -> Packets] /\ "writer" \in Outs /\ "writer" # "video"
  BY PlayerAssumption DEF TypeInv, TypeOK, TypeQueues, TypeDecoders, Outs, Streams
<1>3. ASSUME Coming PROVE Coming'
  <2>1. CASE DecPop(m)
    <3>1. CASE m = "video" /\ HasNull(pkts["video"])
      <4>1. pkts["video"] # <<>> /\ pkts["video"] \in Seq(Packets)
        BY <1>2, <2>1, <3>1 DEF DecPop
      <4>2. pkts'["video"] = Tail(pkts["video"]) /\ dhand'["video"] = Head(pkts["video"])
            /\ dec'["video"] = "check"
        BY <1>2, <2>1, <3>1 DEF DecPop
      <4>3. dhand'["video"] = Null \/ HasNull(pkts'["video"])
        BY <3>1, <4>1, <4>2, HasNullHead
      <4> QED BY <4>2, <4>3 DEF Coming, InDecoder, HasNull
    <3>2. CASE m = "video" /\ ~HasNull(pkts["video"])
      <4>1. \E c \in Callers : Due(c)
        BY <1>3, <2>1, <3>2 DEF Coming, InDecoder, DecPop
      <4> QED BY <1>1, <4>1 DEF Coming, Due
    <3>3. CASE m # "video"
      <4>1. pkts'["video"] = pkts["video"] /\ UNCHANGED <<dec["video"], dhand["video"], term>>
        BY <1>1, <1>2, <2>1, <3>3 DEF DecPop
      <4> QED BY <1>3, <4>1 DEF Coming, InDecoder, Due, HasNull
    <3> QED BY <3>1, <3>2, <3>3
  <2>2. CASE ~DecPop(m) /\ ~DecPass(m)
    <3>1. UNCHANGED pkts
      BY <2>2 DEF Decoder, DecTerminated, DecFlush, DecSkip, DecDecode, DecEmit
    <3>2. InDecoder => InDecoder'
      <4>1. CASE m = "video"
        <5>1. ~DecSkip(m)
          BY DEF DecSkip
        <5>2. CASE DecFlush(m)
          BY <1>2, <4>1, <5>2 DEF DecFlush, InDecoder
        <5>3. CASE DecTerminated(m)
          BY <1>2, <4>1, <5>3 DEF DecTerminated, InDecoder
        <5>4. CASE DecDecode(m)
          BY <1>2, <4>1, <5>4 DEF DecDecode, InDecoder
        <5>5. CASE DecEmit(m)
          BY <1>2, <4>1, <5>5 DEF DecEmit, InDecoder
        <5> QED BY <2>2, <5>1, <5>2, <5>3, <5>4, <5>5 DEF Decoder
      <4>2. CASE m # "video"
        <5>1. UNCHANGED <<dec["video"], dhand["video"]>>
          BY <1>2, <2>2, <4>2 DEF Decoder, DecTerminated, DecFlush, DecSkip, DecDecode, DecEmit
        <5> QED BY <5>1 DEF InDecoder
      <4> QED BY <4>1, <4>2
    <3> QED BY <1>1, <1>3, <3>1, <3>2 DEF Coming, Due, HasNull
  <2>3. CASE DecPass(m)
    <3>1. pkts'["video"] = pkts["video"]
      BY <1>2, <2>3 DEF DecPass, PushPkt
    <3>2. InDecoder => InDecoder'
      BY <1>2, <2>3 DEF DecPass, InDecoder
    <3> QED BY <1>1, <1>3, <3>1, <3>2 DEF Coming, Due, HasNull
  <2> QED BY <2>1, <2>2, <2>3
<1> QED BY <1>1, <1>3, EndKept DEF HasReader

LEMMA EndReader ==
  ASSUME TypeInv, Unused, Quiet, EndInv, Reader
  PROVE  EndInv'
<1>1. UNCHANGED <<attached, terminated, play, dec, dhand, decoded, filtered>>
  BY DEF Reader, ReadTop, ReadSeek, ReadPacket, ReadSeekDone, ReadDeref, ReadPush, ReadEOF,
         ReadEndMarker, ReadError, ReadErrorDone, ReaderRest, decVars
<1>2. \/ UNCHANGED pkts
      \/ \E o \in Outs, e \in Packets : PushPkt(o, e)
  <2>1. CASE ReadPush
    <3>1. rhand[1] \in Outs /\ rhand[2] \in Packets
      BY DEF TypeInv, TypeOK, TypeReader, Packets, Frames
    <3> QED BY <2>1, <3>1 DEF ReadPush
  <2>2. CASE ReadEndMarker
    <3>1. EofNext[rd][1] \in Outs /\ Null \in Packets
      BY <2>2 DEF ReadEndMarker, EofNext, Outs, Streams, Packets
    <3> QED BY <2>2, <3>1 DEF ReadEndMarker
  <2>3. CASE UNCHANGED pkts
    BY <2>3
  <2> QED BY <2>1, <2>2, <2>3 DEF Reader, ReadTop, ReadSeek, ReadPacket, ReadSeekDone,
             ReadDeref, ReadEOF, ReadError, ReadErrorDone
<1>3. UNCHANGED term => (Coming => Coming')
  BY <1>1, <1>2, ComingKept
<1>4. CASE ReadEOF
  <2>1. UNCHANGED term /\ closed' = TRUE /\ rd' = "eof_video"
        /\ rd # "off"
    BY <1>4 DEF ReadEOF
  <2> QED BY <1>1, <1>3, <2>1 DEF EndInv, ClosedSet, ClosedFed, GoneFed, PastFed,
                                   PushedFed, PastVideo, Pushed, HasReader
<1>5. CASE ReadEndMarker
  <2>1. UNCHANGED <<term, closed>> /\ rd \in Ending /\ rd' \in Ending /\ rd # "off" /\ rd' # "off"
        /\ rd' # "eof_video"
    BY <1>5 DEF ReadEndMarker, EofNext, Ending
  <2>2. closed
    BY <2>1 DEF EndInv, ClosedSet
  <2>3. CASE rd = "eof_video"
    <3>1. Coming'
      <4>1. CASE "video" \in attached
        <5>1. PushPkt("video", Null)
          BY <1>5, <2>3, <4>1 DEF ReadEndMarker, EofNext
        <5>2. pkts["video"] \in Seq(Packets) /\ Null \in Packets
              /\ pkts'["video"] = Push(pkts["video"], Null)
          BY <5>1 DEF PushPkt, TypeInv, TypeOK, TypeQueues, Outs, Streams, Packets
        <5>3. HasNull(pkts'["video"])
          BY <5>2, HasNullPush
        <5> QED BY <5>3 DEF Coming, HasNull
      <4>2. CASE "video" \notin attached
        BY <1>3, <2>1, <4>2 DEF EndInv, GoneFed
      <4> QED BY <4>1, <4>2
    <3> QED BY <1>1, <1>3, <2>1, <2>2, <3>1 DEF EndInv, ClosedSet, ClosedFed, GoneFed,
                        PastFed, PushedFed, PastVideo, Pushed, HasReader
  <2>4. CASE rd # "eof_video"
    BY <1>1, <1>3, <2>1, <2>2, <2>4, EndKept DEF HasReader
  <2> QED BY <2>3, <2>4
<1>6. CASE ReadError
  <2>1. UNCHANGED closed /\ rd' = "error" /\ rd # "off" /\ rd # "eof_video" /\ "error" \notin Ending
        /\ term' = [term EXCEPT !["reader"] = [at |-> "queues", todo |-> Outs]] /\ UNCHANGED pkts
        /\ term["reader"].at = "idle"
    BY <1>6 DEF ReadError, StartTerm, Ending, Unused
  <2>2. term \in [Callers -> [at : {"idle", "queues", "push", "detach", "done"}, todo : SUBSET Outs]]
        /\ "video" \in Outs
    BY DEF TypeInv, TypeOK, TypeCalls, Outs, Streams
  <2>3. \A c \in Callers : /\ term'[c] = term[c] \/ Fresh(term'[c])
                           /\ term[c].at = "push" => term'[c] = term[c]
    BY <2>1, <2>2 DEF Fresh
  <2>4. Coming => Coming'
    BY <1>1, <2>1, <2>3, ComingKept
  <2> QED BY <1>1, <2>1, <2>3, <2>4, EndKept DEF HasReader
<1>7. CASE ~ReadEOF /\ ~ReadEndMarker /\ ~ReadError
  <2>1. UNCHANGED <<term, closed>>
    BY <1>7 DEF Reader, ReadTop, ReadSeek, ReadPacket, ReadSeekDone, ReadDeref, ReadPush, ReadErrorDone
  <2>2. /\ rd \notin {"off", "eof_video"} /\ rd' \notin {"off", "eof_video"}
        /\ rd' \in Ending => closed
    BY <1>7 DEF Reader, ReadTop, ReadSeek, ReadPacket, Route, ReadSeekDone, ReadDeref, ReadPush,
                ReadErrorDone, Ending, EndInv, ClosedSet, Callers
  <2> QED BY <1>1, <1>3, <2>1, <2>2, EndKept DEF HasReader
<1> QED BY <1>4, <1>5, <1>6, <1>7

LEMMA EndTerminate ==
  ASSUME TypeInv, EndInv, NEW c \in Callers, Terminate(c)
  PROVE  EndInv'
<1> DEFINE o == TermFirst(term[c].todo)
<1>1. UNCHANGED <<rd, play, dec, dhand>>
  BY DEF Terminate, TermQueue, TermPush, TermDetach, TermFlags, TermOrphan, TermRest,
         readerVars, decVars
<1>2. /\ term \in [Callers -> [at : {"idle", "queues", "push", "detach", "done"}, todo : SUBSET Outs]]
      /\ pkts \in [Outs -> Seq(Packets)] /\ "video" \in Outs /\ Null \in Packets
      /\ o \in Outs /\ (o = "video" <=> "video" \in term[c].todo)
  BY DEF TypeInv, TypeOK, TypeCalls, TypeQueues, Outs, Streams, Packets, TermFirst
<1>3. ASSUME NEW t, term' = [term EXCEPT ![c] = t],
             Coming => Coming', UNCHANGED <<attached, closed, terminated>>,
             t.at # "done" /\ (PastVideo(c)' => PastVideo(c) \/ Coming' \/ rd = "eof_video")
             /\ (Pushed(c)' => Coming')
      PROVE  EndInv'
  <2>1. \A d \in Callers \ {c} : term'[d] = term[d]
    BY <1>2, <1>3
  <2>2. term'[c] = t
    BY <1>2, <1>3
  <2>3. ClosedFed' /\ GoneFed'
    BY <1>1, <1>3 DEF EndInv, ClosedFed, GoneFed, HasReader
  <2>4. ClosedSet'
    BY <1>1, <1>3, <2>1, <2>2 DEF EndInv, ClosedSet
  <2>5. PastFed'
    BY <1>1, <1>3, <2>1, <2>2 DEF EndInv, PastFed, PastVideo
  <2>6. PushedFed'
    BY <1>1, <1>3, <2>1, <2>2 DEF EndInv, PushedFed, Pushed
  <2> QED BY <2>3, <2>4, <2>5, <2>6 DEF EndInv
<1>4. CASE TermQueue(c)
  <2>1. UNCHANGED <<attached, closed, terminated>> /\ term[c].at = "queues" /\ HasReader
    BY <1>4 DEF TermQueue
  <2>2. CASE o \in attached /\ (o = "writer" \/ (~closed /\ ~terminated))
    <3>1. term' = [term EXCEPT ![c] = [term[c] EXCEPT !.at = "push"]]
          /\ pkts' = IF o = "writer" THEN pkts ELSE [pkts EXCEPT ![o] = <<>>]
      BY <1>2, <1>4, <2>2 DEF TermQueue
    <3> DEFINE t == [term[c] EXCEPT !.at = "push"]
    <3>4. t.at = "push" /\ term'[c] = t /\ t.todo = term[c].todo
      BY <1>2, <3>1
    <3> HIDE DEF t
    <3>5. term' = [term EXCEPT ![c] = t]
      BY <3>1 DEF t
    <3>2. CASE "video" \in term[c].todo
      <4>1. Due(c)'
        BY <3>2, <3>4 DEF Due
      <4>2. Coming'
        BY <4>1 DEF Coming
      <4> QED BY <1>3, <2>1, <3>4, <3>5, <4>2
    <3>3. CASE "video" \notin term[c].todo
      <4>1. pkts'["video"] = pkts["video"]
        BY <1>2, <3>1, <3>3
      <4>2. Coming => Coming'
        BY <1>1, <1>2, <2>1, <3>1, <4>1 DEF Coming, InDecoder, Due, HasNull
      <4>3. PastVideo(c)
        BY <2>1, <3>3 DEF PastVideo
      <4>4. ~Pushed(c)'
        BY <3>4 DEF Pushed
      <4> QED BY <1>3, <2>1, <3>4, <3>5, <4>2, <4>3, <4>4
    <3> QED BY <3>2, <3>3
  <2>3. CASE ~(o \in attached /\ (o = "writer" \/ (~closed /\ ~terminated)))
    <3>1. term' = [term EXCEPT ![c] = [term[c] EXCEPT !.todo = @ \ {o}]] /\ UNCHANGED pkts
      BY <1>2, <1>4, <2>3 DEF TermQueue
    <3>2. Coming => Coming'
      BY <1>1, <1>2, <2>1, <3>1 DEF Coming, InDecoder, Due, HasNull
    <3>3. term'[c].at = "queues" /\ term'[c].todo = term[c].todo \ {o}
      BY <1>2, <2>1, <3>1
    <3>4. PastVideo(c) \/ Coming \/ rd = "eof_video"
      <4>1. CASE o = "video"
        BY <2>1, <2>3, <4>1 DEF EndInv, GoneFed, ClosedFed, ClosedSet
      <4>2. CASE o # "video"
        BY <1>2, <2>1, <4>2 DEF PastVideo
      <4> QED BY <4>1, <4>2
    <3>5. ~Pushed(c)'
      BY <3>3 DEF Pushed
    <3> QED BY <1>2, <1>3, <2>1, <3>1, <3>2, <3>3, <3>4, <3>5
  <2> QED BY <2>2, <2>3
<1>5. CASE TermPush(c)
  <2>1. UNCHANGED <<attached, closed, terminated>> /\ term[c].at = "push" /\ HasReader
    BY <1>5 DEF TermPush
  <2>2. CASE o \in attached
    <3>1. PushPkt(o, Null) /\ term' = [term EXCEPT ![c] = [term[c] EXCEPT !.at = "detach"]]
      BY <1>2, <1>5, <2>2 DEF TermPush
    <3>2. term'[c].at = "detach" /\ term'[c].todo = term[c].todo
          /\ \A d \in Callers \ {c} : term'[d] = term[d]
      BY <1>2, <3>1
    <3>3. pkts'[o] = Push(pkts[o], Null) /\ \A u \in Outs \ {o} : pkts'[u] = pkts[u]
      BY <1>2, <3>1 DEF PushPkt
    <3>4. CASE o = "video"
      <4>1. HasNull(pkts["video"])'
        BY <1>2, <3>3, <3>4, HasNullPush DEF HasNull
      <4>2. Coming'
        BY <4>1 DEF Coming
      <4> QED BY <1>2, <1>3, <2>1, <3>1, <3>2, <4>2
    <3>5. CASE o # "video"
      <4>1. Coming => Coming'
        BY <1>1, <1>2, <2>1, <3>2, <3>3, <3>5 DEF Coming, InDecoder, Due, HasNull
      <4>2. PastVideo(c) /\ ~Pushed(c)'
        BY <1>2, <2>1, <3>2, <3>5 DEF PastVideo, Pushed
      <4> QED BY <1>3, <2>1, <3>1, <3>2, <4>1, <4>2, <1>2
    <3> QED BY <3>4, <3>5
  <2>3. CASE o \notin attached
    <3>1. UNCHANGED <<pkts, term>>
      BY <1>5, <2>3 DEF TermPush
    <3>2. Coming => Coming'
      BY <1>1, <3>1 DEF Coming, InDecoder, Due, HasNull
    <3> QED BY <1>1, <2>1, <3>1, <3>2, EndKept DEF HasReader
  <2> QED BY <2>2, <2>3
<1>6. CASE TermDetach(c)
  <2>1. /\ UNCHANGED <<pkts, closed, terminated>> /\ term[c].at = "detach" /\ HasReader
        /\ attached' = attached \ {o}
        /\ term' = [term EXCEPT ![c] = [at |-> "queues", todo |-> term[c].todo \ {o}]]
    BY <1>2, <1>6 DEF TermDetach
  <2>2. term'[c].at = "queues" /\ term'[c].todo = term[c].todo \ {o}
        /\ \A d \in Callers \ {c} : term'[d] = term[d]
    BY <1>2, <2>1
  <2>3. Coming => Coming'
    BY <1>1, <2>1, <2>2 DEF Coming, InDecoder, Due, HasNull
  <2>4. CASE o = "video"
    <3>1. Coming'
      BY <1>2, <2>1, <2>3, <2>4 DEF EndInv, PushedFed, Pushed
    <3> QED BY <1>1, <2>1, <2>2, <3>1 DEF EndInv, ClosedSet, ClosedFed, GoneFed, PastFed,
                                           PushedFed
  <2>5. CASE o # "video"
    <3>1. "video" \notin attached' => "video" \notin attached
      BY <2>1, <2>5
    <3>2. PastVideo(c)
      BY <1>2, <2>1, <2>5 DEF PastVideo
    <3>3. ClosedFed' /\ GoneFed'
      BY <1>1, <2>1, <2>3, <3>1 DEF EndInv, ClosedFed, GoneFed, HasReader
    <3>4. ClosedSet'
      BY <1>1, <2>1, <2>2 DEF EndInv, ClosedSet
    <3>5. PastFed' /\ PushedFed'
      BY <1>1, <2>2, <2>3, <3>2 DEF EndInv, PastFed, PushedFed, PastVideo, Pushed
    <3> QED BY <3>3, <3>4, <3>5 DEF EndInv
  <2> QED BY <2>4, <2>5
<1>7. CASE TermFlags(c)
  <2>1. UNCHANGED <<pkts, attached>> /\ term[c].at = "queues" /\ term[c].todo = {} /\ HasReader
        /\ closed' = TRUE /\ terminated' = TRUE
        /\ term' = [term EXCEPT ![c] = [at |-> "done", todo |-> {}]]
    BY <1>7 DEF TermFlags
  <2>2. term'[c].at = "done" /\ \A d \in Callers \ {c} : term'[d] = term[d]
    BY <1>2, <2>1
  <2>3. Coming => Coming'
    BY <1>1, <2>1, <2>2 DEF Coming, InDecoder, Due, HasNull
  <2>4. Coming' \/ rd = "eof_video"
    BY <2>1, <2>3 DEF EndInv, PastFed, PastVideo
  <2>5. ClosedFed' /\ GoneFed' /\ ClosedSet'
    BY <1>1, <2>1, <2>3, <2>4 DEF EndInv, ClosedFed, GoneFed, HasReader, ClosedSet
  <2>6. PastFed' /\ PushedFed'
    BY <1>1, <2>2, <2>3 DEF EndInv, PastFed, PushedFed, PastVideo, Pushed
  <2> QED BY <2>5, <2>6 DEF EndInv
<1>8. CASE TermOrphan
  <2>1. UNCHANGED <<pkts, attached, closed, terminated, term>>
    BY <1>8 DEF TermOrphan
  <2>2. Coming => Coming'
    BY <1>1, <2>1 DEF Coming, InDecoder, Due, HasNull
  <2> QED BY <1>1, <2>1, <2>2, EndKept DEF HasReader
<1> QED BY <1>4, <1>5, <1>6, <1>7, <1>8 DEF Terminate

LEMMA EndPlay ==
  ASSUME TypeInv, Startup, Unused, EndInv, "video" \in Media, Play
  PROVE  EndInv'
<1>1. UNCHANGED <<pkts, closed, terminated, dhand, opts>>
  BY DEF Play, Connect, StartThreads, OpenAudio, PlayThrow, PlayCaught, StartDisplay, Join, PlayRest,
         flags
<1>2. /\ dec \in [Streams -> {"off", "pop", "check", "emit", "done"}] /\ "video" \in Streams
      /\ term \in [Callers -> [at : {"idle", "queues", "push", "detach", "done"}, todo : SUBSET Outs]]
      /\ "video" \in Outs /\ "play" \in Callers
  BY DEF TypeInv, TypeOK, TypeDecoders, TypeCalls, Streams, Outs, Callers
<1>3. CASE Connect
  <2>1. UNCHANGED <<term, rd, dec>> /\ play = "connect" /\ play' \in {"setup", "done"}
        /\ rd = "off"
    BY <1>3 DEF Connect, NoThread, Unused, Unstarted
  <2>2. play' = "done" \/ "video" \in attached'
    BY <1>3, PlayerAssumption DEF Connect, Hidden, Media, TypeInv, TypeOK, TypePlay
  <2>3. Coming => Coming'
    BY <1>1, <2>1 DEF Coming, InDecoder, Due, HasNull
  <2> QED BY <1>1, <2>1, <2>2, <2>3 DEF EndInv, ClosedSet, ClosedFed, GoneFed, PastFed,
                                         PushedFed, PastVideo, Pushed, HasReader
<1>4. CASE StartThreads
  <2>1. UNCHANGED <<attached, term>> /\ play = "setup" /\ play' \in {"audio", "display"}
        /\ rd' = "top" /\ dec'["video"] = "pop"
    BY <1>2, <1>4 DEF StartThreads, Media
  <2>2. rd = "off" /\ HasReader
    BY <2>1 DEF Unused, Unstarted, HasReader
  <2>3. Coming => Coming'
    BY <1>1, <1>2, <2>1 DEF Coming, InDecoder, Due, HasNull, Startup
  <2> QED BY <1>1, <2>1, <2>2, <2>3 DEF EndInv, ClosedSet, ClosedFed, GoneFed,
                     PastFed, PushedFed, PastVideo, Pushed, HasReader, Ending, Startup
<1>5. CASE OpenAudio \/ PlayThrow \/ PlayCaught \/ StartDisplay \/ Join
  <2>1. UNCHANGED <<attached, rd, dec>> /\ (HasReader' => HasReader)
    BY <1>5 DEF OpenAudio, PlayThrow, PlayCaught, StartDisplay, Join, NoThread, HasReader
  <2>2. \A c \in Callers : /\ term'[c] = term[c] \/ Fresh(term'[c])
                           /\ term[c].at = "push" => term'[c] = term[c]
    <3>1. CASE PlayThrow
      <4>1. term' = [term EXCEPT !["play"] = [at |-> "queues", todo |-> Outs]]
            /\ term["play"].at = "idle"
        BY <3>1 DEF PlayThrow, StartTerm, Unused
      <4> QED BY <1>2, <4>1 DEF Fresh
    <3>2. CASE ~PlayThrow
      BY <1>5, <3>2 DEF OpenAudio, PlayCaught, StartDisplay, Join
    <3> QED BY <3>1, <3>2
  <2>3. Coming => Coming'
    BY <1>1, <2>1, <2>2, ComingKept
  <2> QED BY <1>1, <2>1, <2>2, <2>3, EndKept
<1> QED BY <1>3, <1>4, <1>5 DEF Play

LEMMA EndUser ==
  ASSUME TypeInv, Unused, EndInv, User \/ Seeking
  PROVE  EndInv'
<1>1. UNCHANGED <<pkts, attached, closed, terminated, dec, dhand, rd, play>>
  BY DEF User, Stop, SeekCheck, TogglePaused, Seeking, SeekSet, SeekOneShot, SeekOrphan, GuiRest,
         queues, flags, decVars, readerVars
<1>2. \A c \in Callers : /\ term'[c] = term[c] \/ Fresh(term'[c])
                         /\ term[c].at = "push" => term'[c] = term[c]
  <2>1. CASE Stop
    <3>1. /\ term \in [Callers -> [at : {"idle", "queues", "push", "detach", "done"},
                                    todo : SUBSET Outs]]
          /\ "gui" \in Callers /\ "video" \in Outs
      BY DEF TypeInv, TypeOK, TypeCalls, Outs, Streams, Callers
    <3>2. term["gui"].at = "idle"
          /\ (term' = term \/ term' = [term EXCEPT !["gui"] = [at |-> "queues", todo |-> Outs]])
      BY <2>1 DEF Stop, StartTerm, Unused
    <3> QED BY <3>1, <3>2 DEF Fresh
  <2>2. CASE ~Stop
    BY <2>2 DEF User, SeekCheck, TogglePaused, Seeking, SeekSet, SeekOneShot, SeekOrphan, callVars
  <2> QED BY <2>1, <2>2
<1>3. Coming => Coming'
  BY <1>1, <1>2, ComingKept
<1> QED BY <1>1, <1>2, <1>3, EndKept DEF HasReader

LEMMA EndOthers ==
  ASSUME TypeInv, EndInv,
         \/ Writer \/ UNCHANGED vars
         \/ \E m \in Streams : Filter(m) \/ Sink(m)
  PROVE  EndInv'
<1>1. UNCHANGED <<attached, closed, terminated, dec, dhand, rd, play, term>>
  BY DEF Writer, vars, queues, Filter, FilPop, FilTerminated, FilFrame, FilPush, FilRest,
         Sink, SnkTop, AudioFetch, SnkPop, SnkFrame, SnkRest, flags, decVars, readerVars, callVars
<1>2. pkts'["video"] = pkts["video"]
  BY DEF Writer, vars, queues, Filter, FilPop, FilTerminated, FilFrame, FilPush, FilRest,
         Sink, SnkTop, AudioFetch, SnkPop, SnkFrame, SnkRest, TypeInv, TypeOK, TypeQueues, Outs, Streams
<1>3. Coming => Coming'
  BY <1>1, <1>2 DEF Coming, InDecoder, Due, HasNull
<1> QED BY <1>1, <1>3, EndKept DEF HasReader

LEMMA UnusedStep ==
  ASSUME TypeInv, Unused, [Next]_vars
  PROVE  Unused'
<1>1. /\ term \in [Callers -> [at : {"idle", "queues", "push", "detach", "done"}, todo : SUBSET Outs]]
      /\ Callers = {"gui", "play", "reader"}
  BY DEF TypeInv, TypeOK, TypeCalls, Callers
<1>2. CASE Reader
  <2>1. UNCHANGED <<play, stop>>
    BY <1>2 DEF Reader, ReadTop, ReadSeek, ReadPacket, ReadSeekDone, ReadDeref, ReadPush, ReadEOF,
           ReadEndMarker, ReadError, ReadErrorDone, ReaderRest, guiVars
  <2>2. CASE ReadError
    BY <1>1, <2>1, <2>2 DEF ReadError, StartTerm, Unused, Unstarted
  <2>3. CASE ~ReadError
    BY <1>2, <2>1, <2>3 DEF Reader, ReadTop, ReadSeek, ReadPacket, Route, ReadSeekDone, ReadDeref,
           ReadPush, ReadEOF, ReadEndMarker, EofNext, ReadErrorDone, Unused, Unstarted
  <2> QED BY <2>2, <2>3
<1>3. CASE Play
  <2>1. UNCHANGED stop /\ (rd' = rd \/ rd = "off" \/ play = "setup")
    BY <1>3 DEF Play, Connect, StartThreads, OpenAudio, PlayThrow, PlayCaught, StartDisplay, Join,
           PlayRest, NoThread, guiVars
  <2>2. CASE PlayThrow
    BY <1>1, <2>1, <2>2 DEF PlayThrow, StartTerm, NoThread, Unused, Unstarted
  <2>3. CASE ~PlayThrow
    BY <1>3, <2>1, <2>3 DEF Play, Connect, StartThreads, OpenAudio, PlayCaught, StartDisplay, Join,
           NoThread, Unused, Unstarted
  <2> QED BY <2>2, <2>3
<1>4. CASE User \/ Seeking
  <2>1. UNCHANGED <<rd, play>>
    BY <1>4 DEF User, Stop, SeekCheck, TogglePaused, Seeking, SeekSet, SeekOneShot, SeekOrphan,
           GuiRest, readerVars
  <2>2. CASE Stop
    BY <1>1, <2>1, <2>2 DEF Stop, StartTerm, Unused, Unstarted
  <2>3. CASE ~Stop
    BY <1>4, <2>1, <2>3 DEF User, SeekCheck, TogglePaused, Seeking, SeekSet, SeekOneShot, SeekOrphan,
           callVars, guiVars, Unused, Unstarted
  <2> QED BY <2>2, <2>3
<1>5. ASSUME NEW c \in Callers, Terminate(c)
      PROVE  Unused'
  <2>1. UNCHANGED <<rd, play, stop>>
    BY <1>5 DEF Terminate, TermQueue, TermPush, TermDetach, TermFlags, TermOrphan, TermRest,
           readerVars, guiVars
  <2>2. \A d \in Callers : term[d].at = "idle" => term'[d] = term[d]
    BY <1>1, <1>5 DEF Terminate, TermQueue, TermPush, TermDetach, TermFlags, TermOrphan
  <2> QED BY <1>1, <2>1, <2>2 DEF Unused, Unstarted
<1>6. CASE UNCHANGED <<rd, play, stop, term>>
  BY <1>6 DEF Unused, Unstarted
<1>7. ASSUME NEW m \in Streams, Decoder(m) \/ Filter(m) \/ Sink(m)
      PROVE  UNCHANGED <<rd, play, stop, term>>
  BY <1>7 DEF Decoder, DecPop, DecTerminated, DecFlush, DecSkip, DecDecode, DecEmit, DecPass, DecRest,
         Filter, FilPop, FilTerminated, FilFrame, FilPush, FilRest,
         Sink, SnkTop, AudioFetch, SnkPop, SnkFrame, SnkRest, readerVars, callVars, guiVars
<1>8. ASSUME NEW c \in {"reader", "gui"}, ClearQueues(c)
      PROVE  UNCHANGED <<rd, play, stop, term>>
  BY <1>8 DEF ClearQueues, ClearPkts, ClearFrames, ClearFlush, ClearOutputs, ClearRest,
         readerVars, guiVars
<1>9. CASE Writer \/ UNCHANGED vars
  BY <1>6, <1>9 DEF Writer, vars, readerVars, callVars, guiVars
<1> QED BY <1>2, <1>3, <1>4, <1>5, <1>6, <1>7, <1>8, <1>9 DEF Next, Ended

(* What kind of player it is never changes.                                *)
LEMMA OptsKept ==
  ASSUME [Next]_vars
  PROVE  opts' = opts
<1>1. ASSUME Play \/ Reader \/ Writer \/ User \/ Seeking \/ Ended \/ UNCHANGED vars
      PROVE  opts' = opts
  BY <1>1 DEF Play, Connect, StartThreads, OpenAudio, PlayThrow, PlayCaught, StartDisplay,
         Join, PlayRest, Reader, ReadTop, ReadSeek, ReadPacket, ReadSeekDone, ReadDeref,
         ReadPush, ReadEOF, ReadEndMarker, ReadError, ReadErrorDone, ReaderRest, Writer,
         User, Stop, SeekCheck, TogglePaused, Seeking, SeekSet, SeekOneShot, SeekOrphan, GuiRest,
         Ended, vars
<1>2. ASSUME NEW m \in Streams, Decoder(m) \/ Filter(m) \/ Sink(m) PROVE opts' = opts
  BY <1>2 DEF Decoder, DecPop, DecTerminated, DecFlush, DecSkip, DecDecode, DecEmit, DecPass,
         DecRest, Filter, FilPop, FilTerminated, FilFrame, FilPush, FilRest,
         Sink, SnkTop, AudioFetch, SnkPop, SnkFrame, SnkRest
<1>3. ASSUME (\E c \in Callers : Terminate(c)) \/ (\E c \in {"reader", "gui"} : ClearQueues(c))
      PROVE  opts' = opts
  BY <1>3 DEF Terminate, TermQueue, TermPush, TermDetach, TermFlags, TermOrphan, TermRest,
         ClearQueues, ClearPkts, ClearFrames, ClearFlush, ClearOutputs, ClearRest
<1> QED BY <1>1, <1>2, <1>3 DEF Next

LEMMA DecStep == FedInv /\ DecInv /\ [Next]_vars => DecInv'
<1> SUFFICES ASSUME FedInv, DecInv, [Next]_vars PROVE DecInv'
  OBVIOUS
<1>1. TypeInv /\ TypeInv' /\ Startup /\ Unused
  BY TypeStep DEF FedInv, DecInv
<1>2. Unused'
  BY <1>1, UnusedStep
<1> SUFFICES ASSUME nseek' = 0, "video" \in opts'.media PROVE EndInv'
  BY <1>2 DEF DecInv, Media
<1>3. nseek = 0
  BY <1>1, SeekCounts
<1>4. opts' = opts
  BY OptsKept
<1>5. "video" \in Media /\ EndInv /\ Quiet
  BY <1>3, <1>4 DEF DecInv, FedInv, Media
<1>6. ~(\E c \in {"reader", "gui"} : ClearQueues(c))
  BY <1>5 DEF ClearQueues, ClearPkts, ClearFrames, ClearFlush, ClearOutputs, Quiet
<1>7. seek = 0
  BY <1>5 DEF Quiet
<1> QED BY <1>1, <1>5, <1>6, <1>7, EndPlay, EndReader, EndUser, EndTerminate, EndDecoder, EndOthers
       DEF Next, Ended

LEMMA DecInit == Init => DecInv
<1> SUFFICES ASSUME Init PROVE DecInv
  OBVIOUS
<1>1. /\ \A c \in Callers : term[c].at = "idle"
      /\ rd = "off" /\ ~closed /\ ~terminated /\ ~HasReader /\ play = "connect"
  BY DEF Init, Idle, HasReader
<1> QED BY <1>1 DEF DecInv, Unused, Unstarted, EndInv, ClosedSet, ClosedFed, GoneFed, PastFed,
                    PushedFed, PastVideo, Pushed, Ending, Callers

(* Until the first seek, a reader that is gone never leaves the decoder of *)
(* the video stream waiting at an empty queue: whether it left at the end  *)
(* of the stream, after an error or because a stop closed it, the null     *)
(* packet is in the queue, in the decoder, or about to be pushed by a      *)
(* thread in terminate(), in every interleaving of the three.              *)
THEOREM DecoderAlwaysFed == Spec => [](nseek = 0 => DecoderFed)
<1>1. Init => DecInv
  BY DecInit
<1>2. DecInv => (nseek = 0 => DecoderFed)
  <2> SUFFICES ASSUME DecInv, nseek = 0, rd = "done", "video" \in Media
               PROVE  Coming
    BY DEF DecoderFed, Coming, InDecoder, Due
  <2> QED BY DEF DecInv, EndInv, ClosedSet, ClosedFed, Ending
<1> QED BY FedInit, FedStep, DecStep, <1>1, <1>2, PTL DEF Spec

-----------------------------------------------------------------------------
(* A player is a Playback.  The induction needs when play() may have called *)
(* terminate(), and that no display runs once it has or play() is over.     *)
ShowsNothing == snk["video"] \in {"off", "done"}

OwnerInv ==
  /\ play \in {"connect", "setup", "audio", "display"} => term["play"].at = "idle"
  /\ play = "catch" => term["play"].at # "idle"
  /\ term["play"].at # "idle" => play \in {"catch", "join", "done"} /\ ShowsNothing
  /\ play = "done" => ShowsNothing

(* All the owner can see of a player.                                      *)
OwnerView == <<play, term["play"], snk["video"], shown["video"]>>

LEMMA OwnerUnseen ==
  ASSUME OwnerInv, UNCHANGED OwnerView
  PROVE  OwnerInv' /\ UNCHANGED <<Phase, shown["video"]>>
BY DEF OwnerInv, OwnerView, ShowsNothing, Phase

(* terminate() in the thread of play() goes on, in another thread it does  *)
(* not concern the owner.                                                  *)
LEMMA OwnerTerminate ==
  ASSUME TypeInv, OwnerInv, NEW c \in Callers, Terminate(c)
  PROVE  OwnerInv' /\ UNCHANGED <<Phase, shown["video"]>>
<1>1. UNCHANGED <<play, snk, shown>>
  BY DEF Terminate, TermQueue, TermPush, TermDetach, TermFlags, TermOrphan, TermRest, snkVars
<1>2. term["play"].at = "idle" <=> term'["play"].at = "idle"
  <2>1. "play" \in Callers /\ term \in [Callers -> [at : {"idle", "queues", "push", "detach", "done"},
                                                   todo : SUBSET Outs]]
    BY DEF Callers, TypeInv, TypeOK, TypeCalls
  <2>2. CASE c = "play"
    BY <2>1, <2>2 DEF Terminate, TermQueue, TermPush, TermDetach, TermFlags, TermOrphan
  <2>3. CASE c # "play"
    BY <2>1, <2>3 DEF Terminate, TermQueue, TermPush, TermDetach, TermFlags, TermOrphan
  <2> QED BY <2>2, <2>3
<1> QED BY <1>1, <1>2 DEF OwnerInv, ShowsNothing, Phase

(* Only a display that runs renders a picture.                             *)
LEMMA OwnerSink ==
  ASSUME TypeInv, Startup, OwnerInv, NEW m \in Streams, Sink(m)
  PROVE  OwnerInv' /\ [Owner!Next]_<<Phase, shown["video"]>>
<1>1. UNCHANGED <<play, term>>
  BY DEF Sink, SnkTop, AudioFetch, SnkPop, SnkFrame, SnkRest, callVars
<1>2. snk \in [Streams -> {"off", "top", "fetch", "pop", "check", "done"}]
      /\ shown \in [Streams -> Pkt \cup {0}] /\ {"video", "audio"} = Streams
  BY DEF TypeInv, TypeOK, TypeSinks, Streams
<1>3. CASE m = "audio"
  <2>1. UNCHANGED OwnerView
    BY <1>1, <1>2, <1>3 DEF Sink, SnkTop, AudioFetch, SnkPop, SnkFrame, OwnerView
  <2> QED BY <2>1, OwnerUnseen
<1>4. CASE m = "video"
  <2>1. ~ShowsNothing
    BY <1>2, <1>4 DEF Sink, SnkTop, SnkPop, SnkFrame, ShowsNothing
  <2>2. term["play"].at = "idle" /\ play \notin {"connect", "setup", "audio", "display", "catch", "done"}
    BY <2>1 DEF OwnerInv, Startup, ShowsNothing
  <2>3. Phase = "playing" /\ Phase' = "playing"
    BY <1>1, <2>2 DEF Phase
  <2>4. OwnerInv'
    BY <1>1, <2>2 DEF OwnerInv
  <2> QED BY <2>3, <2>4 DEF Owner!Next, Owner!Rendered
<1> QED BY <1>2, <1>3, <1>4

(* play() itself: set-up, the failure of a stage, the end.                 *)
LEMMA OwnerPlay ==
  ASSUME TypeInv, Startup, OwnerInv, Play
  PROVE  OwnerInv' /\ [Owner!Next]_<<Phase, shown["video"]>>
<1>1. shown' = shown /\ snk \in [Streams -> {"off", "top", "fetch", "pop", "check", "done"}]
      /\ "video" \in Streams
  BY DEF Play, Connect, StartThreads, OpenAudio, PlayThrow, PlayCaught, StartDisplay, Join,
         PlayRest, TypeInv, TypeOK, TypeSinks, Streams
<1>2. term \in [Callers -> [at : {"idle", "queues", "push", "detach", "done"}, todo : SUBSET Outs]]
      /\ "play" \in Callers
  BY DEF Callers, TypeInv, TypeOK, TypeCalls
<1>3. CASE Connect
  <2>1. term' = term /\ snk' = snk /\ play = "connect" /\ play' \in {"setup", "done"}
    BY <1>3 DEF Connect, NoThread
  <2>2. OwnerInv' /\ Phase = "starting" /\ Phase' \in {"starting", "over"}
    BY <2>1 DEF OwnerInv, Startup, ShowsNothing, Phase
  <2> QED BY <1>1, <2>2 DEF Owner!Next, Owner!Ended
<1>4. CASE StartThreads \/ OpenAudio
  <2>1. /\ term' = term /\ snk'["video"] = snk["video"] /\ play \in {"setup", "audio"}
        /\ play' \in {"audio", "display"}
    BY <1>1, <1>4 DEF StartThreads, OpenAudio
  <2>2. OwnerInv' /\ Phase = "starting" /\ Phase' \in {"starting", "playing"}
    BY <2>1 DEF OwnerInv, Startup, ShowsNothing, Phase
  <2> QED BY <1>1, <2>2 DEF Owner!Next, Owner!Started
<1>5. CASE PlayThrow
  <2>1. /\ term'["play"].at = "queues" /\ snk' = snk /\ play \in {"setup", "audio"}
        /\ play' = "catch"
    BY <1>2, <1>5 DEF PlayThrow, StartTerm, NoThread
  <2>2. OwnerInv' /\ Phase = "starting" /\ Phase' = "failed"
    BY <2>1 DEF OwnerInv, Startup, ShowsNothing, Phase
  <2> QED BY <1>1, <2>2 DEF Owner!Next, Owner!Failed
<1>6. CASE PlayCaught
  <2>1. term' = term /\ snk' = snk /\ play = "catch" /\ play' = "join"
    BY <1>6 DEF PlayCaught, NoThread
  <2>2. OwnerInv' /\ UNCHANGED Phase
    BY <2>1 DEF OwnerInv, ShowsNothing, Phase
  <2> QED BY <1>1, <2>2
<1>7. CASE StartDisplay
  <2>1. term' = term /\ play = "display" /\ play' = "join"
    BY <1>7 DEF StartDisplay
  <2>2. OwnerInv' /\ UNCHANGED Phase
    BY <2>1 DEF OwnerInv, Phase
  <2> QED BY <1>1, <2>2
<1>8. CASE Join
  <2>1. term' = term /\ play = "join" /\ play' = "done" /\ snk'["video"] = "done"
    BY <1>1, <1>8 DEF Join
  <2>2. OwnerInv' /\ Phase # "over" /\ Phase' = "over"
    BY <2>1 DEF OwnerInv, ShowsNothing, Phase
  <2> QED BY <1>1, <2>2 DEF Owner!Next, Owner!Ended
<1> QED BY <1>3, <1>4, <1>5, <1>6, <1>7, <1>8 DEF Play

LEMMA OwnerStep ==
  ASSUME TypeInv, Startup, OwnerInv, [Next]_vars
  PROVE  OwnerInv' /\ [Owner!Next]_<<Phase, shown["video"]>>
<1>1. CASE Reader \/ Writer \/ User \/ Seeking \/ Ended \/ UNCHANGED vars
  <2>1. UNCHANGED <<play, snk, shown>>
    BY <1>1 DEF Reader, ReadTop, ReadSeek, ReadPacket, ReadSeekDone, ReadDeref, ReadPush,
           ReadEOF, ReadEndMarker, ReadError, ReadErrorDone, ReaderRest, Writer, User, Stop,
           SeekCheck, TogglePaused, GuiRest, Seeking, SeekSet, SeekOneShot, SeekOrphan, Ended,
           vars, snkVars
  <2>2. term'["play"] = term["play"]
    BY <1>1 DEF Reader, ReadTop, ReadSeek, ReadPacket, ReadSeekDone, ReadDeref, ReadPush,
           ReadEOF, ReadEndMarker, ReadError, ReadErrorDone, Writer, User, Stop, SeekCheck,
           TogglePaused, Seeking, SeekSet, SeekOneShot, SeekOrphan, Ended, vars, callVars,
           StartTerm, TypeInv, TypeOK, TypeCalls, Callers
  <2> QED BY <2>1, <2>2, OwnerUnseen DEF OwnerView
<1>2. ASSUME NEW m \in Streams, Decoder(m) \/ Filter(m)
      PROVE  OwnerInv' /\ UNCHANGED <<Phase, shown["video"]>>
  BY <1>2, OwnerUnseen
     DEF Decoder, DecPop, DecTerminated, DecFlush, DecSkip, DecDecode, DecEmit, DecPass, DecRest,
         Filter, FilPop, FilTerminated, FilFrame, FilPush, FilRest, snkVars, callVars, OwnerView
<1>3. ASSUME NEW c \in {"reader", "gui"}, ClearQueues(c)
      PROVE  OwnerInv' /\ UNCHANGED <<Phase, shown["video"]>>
  BY <1>3, OwnerUnseen
     DEF ClearQueues, ClearPkts, ClearFrames, ClearFlush, ClearOutputs, ClearRest, snkVars, OwnerView
<1> QED BY <1>1, <1>2, <1>3, OwnerTerminate, OwnerSink, OwnerPlay DEF Next

(* The owner of a player sees a Playback: each of its callbacks once and   *)
(* in order, no picture before play() has started every stage, after it    *)
(* failed to, or after it returned, however its threads interleave.        *)
THEOREM PlayerIsPlayback == Spec => PlaysBack
<1>1. Init => OwnerInv /\ Owner!Init
  BY DEF Init, OwnerInv, ShowsNothing, Owner!Init, Phase, Idle, Callers, Streams
<1>2. Init => TypeInv /\ Startup
  BY TypeInit DEF Init, Startup, Streams
<1>3. TypeInv /\ Startup /\ OwnerInv /\ [Next]_vars
      => TypeInv' /\ Startup' /\ OwnerInv' /\ [Owner!Next]_<<Phase, shown["video"]>>
  BY TypeStep, OwnerStep
<1> QED BY <1>1, <1>2, <1>3, PTL DEF Spec, PlaysBack, Owner!Spec
=============================================================================
