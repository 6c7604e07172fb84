-------------------------- MODULE PlayerFileProofs --------------------------
(***************************************************************************)
(* Proofs about a Player that plays a file, for all values of the          *)
(* constants: until the first seek every frame of a video is rendered, the *)
(* last one included, and a seek never mixes packets in a codec.           *)
(***************************************************************************)
EXTENDS PlayerOrderProofs

(* A file of a video stream that can be read, which the user may pause and *)
(* seek in but does not stop, without packetDrop and with a filter that    *)
(* returns a frame for every frame.                                        *)
WholeFile ==
  /\ ~MayDrop /\ 0 \notin FilterOut
  /\ Media = {"video"} /\ ~Live
  /\ opts.user \subseteq {"pause", "seek"} /\ opts.fails \subseteq {"connect"}

-----------------------------------------------------------------------------
(* No packet read is missing on its way to the screen.                     *)
Carried(m) == InSink(m) \cup Nums(filtered[m]) \cup Nums(fout[m]) \cup Nums(decoded[m])
                \cup Nums(dout[m]) \cup Nums(held[m]) \cup InDec(m) \cup Nums(pkts[m])
                \cup InReader(m)
Covered    == \A n \in Nat : shown["video"] < n /\ n <= nread => n \in Carried("video")

(* Nobody terminates the player, the reader pushes what it read as long as *)
(* it is not closed, and there is no flush packet.                         *)
Untouched == ~terminated /\ \A c \in Callers : term[c].at = "idle"
Fetching ==
  /\ closed => rd \in Ending
  /\ play = "setup" \/ rd # "off" => attached = {"video"}
  /\ rd \in {"deref", "push"} => rhand[1] = "video" /\ rhand[2] \in Pkt
NoFlush ==
  /\ \A i \in 1..Len(pkts["video"]) : pkts["video"][i] # Flush
  /\ dhand["video"] # Flush

(* The null element is the last one everywhere: a stage that has it in     *)
(* hand, or is past it, has nothing before it and no stage before it that  *)
(* still works.                                                            *)
Tidy(q)  == \A i \in 1..Len(q) : q[i] = Null => i = Len(q)
Sent     == rd \in {"eof_audio", "eof_writer", "done"}
DecEnd   == \/ dec["video"] = "done"
            \/ dec["video"] \in {"check", "emit"} /\ dhand["video"] = Null
DecGone  == \/ dec["video"] = "done"
            \/ dec["video"] = "emit" /\ dhand["video"] = Null /\ dout["video"] = <<>>
FilEnd   == fil["video"] = "done" \/ HasNull(fout["video"])
SnkEnd   == \/ snk["video"] = "done"
            \/ snk["video"] = "check" /\ shand["video"] = Null

PktsLast     == Tidy(pkts["video"]) /\ (HasNull(pkts["video"]) => Sent)
DecLast      == /\ DecEnd => pkts["video"] = <<>> /\ Sent
                /\ DecEnd /\ dec["video"] # "check" => held["video"] = <<>>
DoutLast     == Tidy(dout["video"]) /\ (HasNull(dout["video"]) => DecEnd)
DecodedLast  == Tidy(decoded["video"]) /\ (HasNull(decoded["video"]) => DecGone)
FilLast      == /\ FilEnd => decoded["video"] = <<>> /\ DecGone
                /\ HasNull(fout["video"]) => fout["video"] = <<Null>>
                /\ fil["video"] = "done" => fout["video"] = <<>>
FilteredLast == Tidy(filtered["video"]) /\ (HasNull(filtered["video"]) => fil["video"] = "done")
SnkLast      == /\ SnkEnd => filtered["video"] = <<>> /\ fil["video"] = "done"
                /\ snk["video"] # "check" => shand["video"] = Null
NullLast     == /\ PktsLast /\ DecLast /\ DoutLast /\ DecodedLast
                /\ FilLast /\ FilteredLast /\ SnkLast

(* What play() has started, and that it returns when all has been shown.   *)
Started ==
  /\ play # "catch"
  /\ play \in {"audio", "display", "join"} =>
       dec["video"] # "off" /\ fil["video"] # "off" /\ rd # "off"
  /\ play = "join" => snk["video"] # "off"
  /\ rd = "off" => nread = 0
AllShown ==
  play = "done" => /\ shown["video"] = nread
                   /\ rd \in {"off", "done"} /\ snk["video"] \in {"off", "done"}

FileInv == Covered /\ Untouched /\ Fetching /\ NoFlush /\ NullLast /\ Started /\ AllShown

(* What the steps start from.                                              *)
FileBase == /\ TypeInv /\ Startup /\ Unstarted /\ OrderInv /\ Quiet
            /\ WholeFile /\ FileInv

-----------------------------------------------------------------------------
(* Queues whose only null element is the last.                             *)
LEMMA TidyNone ==
  /\ Tidy(<<>>) /\ ~HasNull(<<>>) /\ Nums(<<>>) = {}
  /\ \A e : Tidy(<<e>>) /\ (HasNull(<<e>>) <=> e = Null)
BY EmptySeq DEF Tidy, HasNull, Nums

LEMMA TidyPush ==
  ASSUME NEW S, NEW q \in Seq(S), NEW e \in S, ~HasNull(q)
  PROVE  Tidy(Push(q, e)) /\ (HasNull(Push(q, e)) <=> e = Null)
<1>1. /\ Len(q) \in Nat /\ Len(Push(q, e)) = Len(q) + 1
      /\ \A i \in 1..Len(q) : Push(q, e)[i] = q[i]
  BY AppendProperties, LenProperties DEF Push
<1>2. \A i \in 1..Len(q) : q[i] # Null
  BY DEF HasNull
<1>3. Tidy(Push(q, e))
  BY <1>1, <1>2 DEF Tidy
<1> QED BY <1>3, HasNullPush

LEMMA TidyPop ==
  ASSUME NEW S, NEW q \in Seq(S), q # <<>>, Tidy(q)
  PROVE  /\ Tidy(Tail(q)) /\ (HasNull(q) <=> Head(q) = Null \/ HasNull(Tail(q)))
         /\ Head(q) = Null => Tail(q) = <<>>
<1> DEFINE p == Tail(q)
<1>1. /\ Len(q) \in Nat /\ Len(q) >= 1 /\ Len(p) = Len(q) - 1 /\ Head(q) = q[1]
      /\ \A i \in 1..Len(p) : p[i] = q[i + 1]
      /\ p \in Seq(S)
  BY HeadTailProperties, LenProperties, EmptySeq
<1>2. HasNull(q) <=> Head(q) = Null \/ HasNull(p)
  BY HasNullHead
<1> HIDE DEF p
<1>3. Tidy(p)
  <2> SUFFICES ASSUME NEW i \in 1..Len(p), p[i] = Null PROVE i = Len(p)
    BY DEF Tidy
  <2>1. i + 1 \in 1..Len(q) /\ q[i + 1] = Null
    BY <1>1
  <2>2. i + 1 = Len(q)
    BY <2>1 DEF Tidy
  <2> QED BY <1>1, <2>2
<1>4. ASSUME Head(q) = Null PROVE p = <<>>
  <2>1. 1 \in 1..Len(q) /\ q[1] = Null
    BY <1>1, <1>4
  <2>2. 1 = Len(q)
    BY <2>1 DEF Tidy
  <2>3. Len(p) = 0
    BY <1>1, <2>2
  <2> QED BY <1>1, <2>3, EmptySeq
<1> QED BY <1>2, <1>3, <1>4 DEF p

LEMMA PushesOther ==
  ASSUME NEW S, NEW q \in Seq(S), NEW e \in S, e # Flush, \A i \in 1..Len(q) : q[i] # Flush
  PROVE  \A i \in 1..Len(Push(q, e)) : Push(q, e)[i] # Flush
BY AppendProperties, LenProperties DEF Push

(* Frames that come from packets.                                          *)
LEMMA NoNullPkts ==
  ASSUME NEW q \in Seq(Pkt)
  PROVE  ~HasNull(q) /\ Tidy(q)
<1>1. \A i \in 1..Len(q) : q[i] \in Pkt
  BY ElementOfSeq
<1> QED BY <1>1, PlayerAssumption DEF HasNull, Tidy, Pkt

-----------------------------------------------------------------------------
(* Each thread's steps keep it.                                            *)
LEMMA FileReader ==
  ASSUME FileBase, Reader
  PROVE  FileInv'
<1>1. /\ TypeQueues /\ TypeReader /\ Untouched /\ Fetching /\ NoFlush /\ NullLast /\ Started /\ AllShown
      /\ Covered /\ "read" \notin opts.fails /\ Media = {"video"} /\ ~Hidden /\ seek = 0
      /\ rd \notin {"clear1", "seekreading", "clear2", "off", "done"} /\ ~MayDrop
      /\ pkts \in [Outs -> Seq(Packets)] /\ "video" \in Outs /\ pkts["video"] \in Seq(Packets)
      /\ Null \in Packets /\ Null # Flush /\ Pkt \subseteq Packets /\ Null \notin Pkt /\ Flush \notin Pkt
      /\ nread \in Nat /\ attached = {"video"}
  <2>1. /\ TypeQueues /\ TypeReader /\ FileInv /\ Quiet /\ WholeFile /\ opts \in Options
    BY DEF FileBase, TypeInv, TypeOK, TypePlay
  <2>2. rd \notin {"off", "done"}
    BY DEF Reader, ReadTop, ReadSeek, ReadPacket, ReadSeekDone, ReadDeref, ReadPush, ReadEOF,
       ReadEndMarker, EofNext, ReadError, ReadErrorDone
  <2>3. ~Hidden
    BY <2>1, PlayerAssumption DEF WholeFile, Live, Hidden
  <2> QED BY <2>1, <2>2, <2>3, PlayerAssumption
          DEF FileInv, Quiet, WholeFile, TypeQueues, TypeReader, Outs, Streams, Packets, Pkt, Fetching
<1>2. UNCHANGED <<decVars, filVars, snkVars, decoded, filtered, play, attached, term, terminated>>
  BY <1>1 DEF Reader, ReadTop, ReadSeek, ReadPacket, ReadSeekDone, ReadDeref, ReadPush, ReadEOF,
     ReadEndMarker, ReadError, ReadErrorDone, ReaderRest
<1>3. play # "done"
  BY <1>1 DEF AllShown
<1>4. /\ Untouched' /\ AllShown' /\ (rd' # "off" => Started')
      /\ DoutLast' /\ DecodedLast' /\ FilLast' /\ FilteredLast' /\ SnkLast'
      /\ DecEnd' = DecEnd
  BY <1>1, <1>2, <1>3 DEF Untouched, AllShown, Started, NullLast, DoutLast, DecodedLast, FilLast,
     FilteredLast, SnkLast, DecEnd, DecGone, FilEnd, SnkEnd, HasNull, Tidy, decVars, filVars, snkVars
<1>5. ASSUME Carried("video") \subseteq Carried("video")', nread' = nread
      PROVE  Covered'
  BY <1>1, <1>2, <1>5 DEF Covered, snkVars
<1>6. ASSUME pkts' = pkts, Sent => Sent'
      PROVE  NoFlush' /\ NullLast'
  BY <1>1, <1>2, <1>4, <1>6 DEF NoFlush, NullLast, PktsLast, DecLast, HasNull, Tidy, decVars
<1>7. /\ InSink("video")' = InSink("video") /\ InDec("video")' = InDec("video")
      /\ UNCHANGED <<shown, filtered, fout, decoded, dout, held>>
  BY <1>2 DEF InSink, InDec, decVars, filVars, snkVars
<1>8. ASSUME InReader("video") \subseteq InReader("video")', pkts' = pkts
      PROVE  Carried("video") \subseteq Carried("video")'
  BY <1>7, <1>8 DEF Carried
<1>9. CASE ReadTop \/ ReadDeref \/ ReadEOF
  <2>1. /\ UNCHANGED <<pkts, rhand, nread>> /\ rd' # "off" /\ ~Sent
        /\ closed' => rd' \in Ending \/ closed
        /\ rd' \in {"deref", "push"} <=> rd \in {"deref", "push"}
        /\ rd' # "clear2"
    BY <1>1, <1>9 DEF ReadTop, ReadDeref, ReadEOF, Sent, Ending, Fetching
  <2>2. Fetching'
    <3>1. closed => rd = "eof_video" \/ Sent
      BY <1>1 DEF Fetching, Ending, Sent
    <3>2. closed' => rd' \in Ending
      BY <1>1, <1>9, <2>1, <3>1 DEF ReadTop, ReadDeref, ReadEOF
    <3> QED BY <1>1, <1>2, <2>1, <3>2 DEF Fetching
  <2>3. InReader("video") \subseteq InReader("video")'
    BY <1>1, <2>1 DEF InReader
  <2> QED BY <1>4, <1>5, <1>6, <1>8, <2>1, <2>2, <2>3 DEF FileInv
<1>10. CASE \E o \in Outs : ReadPacket(o)
  <2>1. ReadPacket("video") /\ rd = "reading"
    BY <1>1, <1>10 DEF ReadPacket
  <2>2. ~closed
    BY <1>1, <2>1 DEF Fetching, Ending
  <2>3. /\ UNCHANGED <<pkts, closed>> /\ nread' = nread + 1 /\ rhand' = <<"video", nread + 1>>
        /\ rd' = "deref" /\ ~Sent
    BY <1>1, <2>1, <2>2 DEF ReadPacket, Route, Sent
  <2>4. nread + 1 \in Pkt
    <3>1. opts.packets \in 0..MaxPkts /\ nread < opts.packets
      BY <2>1, PlayerAssumption DEF ReadPacket, FileBase, TypeInv, TypeOK, TypePlay
    <3> QED BY <1>1, <3>1, PlayerAssumption DEF Pkt
  <2>5. Fetching'
    BY <1>1, <1>2, <2>2, <2>3, <2>4 DEF Fetching
  <2>6. InReader("video") = {} /\ InReader("video")' = {nread + 1}
    BY <1>1, <2>1, <2>3 DEF InReader
  <2>7. Carried("video")' = Carried("video") \cup {nread + 1}
    BY <1>7, <2>3, <2>6 DEF Carried
  <2>8. Covered'
    <3> SUFFICES ASSUME NEW n \in Nat, shown'["video"] < n, n <= nread' PROVE n \in Carried("video")'
      BY DEF Covered
    <3>1. n <= nread \/ n = nread + 1
      BY <1>1, <2>3
    <3> QED BY <1>1, <1>7, <2>7, <3>1 DEF Covered
  <2> QED BY <1>4, <1>6, <2>3, <2>5, <2>8 DEF FileInv
<1>11. CASE ReadPush
  <2>1. /\ rd = "push" /\ rhand[1] = "video" /\ rhand[2] \in Pkt /\ ~closed
    BY <1>1, <1>11 DEF ReadPush, Fetching, Ending
  <2>2. /\ UNCHANGED <<rhand, nread, closed>> /\ rd' = "top" /\ ~Sent
        /\ pkts' = [pkts EXCEPT !["video"] = Push(@, rhand[2])]
    BY <1>11, <2>1 DEF ReadPush, PushPkt, Sent
  <2>3. pkts'["video"] = Push(pkts["video"], rhand[2]) /\ rhand[2] \in Packets
    BY <1>1, <2>1, <2>2
  <2>4. ~HasNull(pkts["video"])
    BY <1>1, <2>2 DEF NullLast, PktsLast
  <2>5. PktsLast' /\ DecLast'
    <3>1. Tidy(pkts'["video"]) /\ ~HasNull(pkts'["video"])
      BY <1>1, <2>1, <2>3, <2>4, TidyPush
    <3>2. ~DecEnd
      BY <1>1, <2>2 DEF NullLast, DecLast
    <3> QED BY <1>4, <3>1, <3>2 DEF PktsLast, DecLast
  <2>6. NoFlush'
    BY <1>1, <1>2, <2>1, <2>3, PushesOther DEF NoFlush, decVars
  <2>7. Fetching'
    BY <1>1, <1>2, <2>1, <2>2 DEF Fetching
  <2>8. Carried("video") \subseteq Carried("video")'
    <3>1. Nums(pkts'["video"]) = Nums(pkts["video"]) \cup ({rhand[2]} \cap Nat)
      <4>1. Nums(Push(pkts["video"], rhand[2])) = Nums(pkts["video"]) \cup ({rhand[2]} \cap Nat)
        <5>1. pkts["video"] \in Seq(Packets) /\ rhand[2] \in Packets
          BY <1>1, <2>3
        <5>2. \A e \in Packets : Nums(Push(pkts["video"], e)) = Nums(pkts["video"]) \cup ({e} \cap Nat)
          BY <1>1, NumsPush
        <5> QED BY <5>1, <5>2
      <4> QED BY <2>3, <4>1
    <3>2. InReader("video") = {rhand[2]} \cap Nat
      BY <2>1 DEF InReader
    <3> QED BY <1>7, <3>1, <3>2 DEF Carried
  <2> QED BY <1>4, <1>5, <2>2, <2>5, <2>6, <2>7, <2>8 DEF FileInv, NullLast
<1>12. CASE ReadEndMarker
  <2>1. /\ UNCHANGED <<rhand, nread, closed>> /\ rd' \in {"eof_audio", "eof_writer", "done"}
        /\ rd \in {"eof_video", "eof_audio", "eof_writer"}
    BY <1>12 DEF ReadEndMarker, EofNext
  <2>2. \/ /\ rd = "eof_video" /\ pkts' = [pkts EXCEPT !["video"] = Push(@, Null)]
        \/ rd # "eof_video" /\ pkts' = pkts
    BY <1>1, <1>12 DEF ReadEndMarker, EofNext, PushPkt
  <2>3. Fetching' /\ Sent'
    BY <1>1, <1>2, <2>1 DEF Fetching, Sent, Ending
  <2>4. InReader("video") = {}
    BY <2>1 DEF InReader
  <2>5. CASE rd # "eof_video"
    <3>1. Carried("video") \subseteq Carried("video")'
      BY <1>8, <2>2, <2>4, <2>5
    <3> QED BY <1>4, <1>5, <1>6, <2>1, <2>2, <2>3, <2>5, <3>1 DEF FileInv
  <2>6. CASE rd = "eof_video"
    <3>1. pkts'["video"] = Push(pkts["video"], Null) /\ ~Sent
      BY <1>1, <2>2, <2>6 DEF Sent
    <3>2. ~HasNull(pkts["video"]) /\ ~DecEnd
      BY <1>1, <3>1 DEF NullLast, PktsLast, DecLast
    <3>3. PktsLast' /\ DecLast'
      <4>1. Tidy(pkts'["video"])
        BY <1>1, <3>1, <3>2, TidyPush
      <4> QED BY <1>4, <2>3, <3>2, <4>1 DEF PktsLast, DecLast
    <3>4. NoFlush'
      BY <1>1, <1>2, <3>1, PushesOther DEF NoFlush, decVars
    <3>5. Carried("video") \subseteq Carried("video")'
      <4>1. Nums(pkts["video"]) \subseteq Nums(pkts'["video"])
        <5>1. Nums(Push(pkts["video"], Null)) = Nums(pkts["video"]) \cup ({Null} \cap Nat)
          BY <1>1, NumsPush
        <5> QED BY <3>1, <5>1
      <4> QED BY <1>7, <2>4, <4>1 DEF Carried
    <3> QED BY <1>4, <1>5, <2>1, <2>3, <3>3, <3>4, <3>5 DEF FileInv, NullLast
  <2> QED BY <2>5, <2>6
<1>13. ~ReadSeek /\ ~ReadSeekDone /\ ~ReadError /\ ~ReadErrorDone
  BY <1>1 DEF ReadSeek, ReadSeekDone, ReadError, ReadErrorDone, Untouched, Callers
<1> QED BY <1>9, <1>10, <1>11, <1>12, <1>13 DEF Reader

LEMMA FileDecoder ==
  ASSUME FileBase, Decoder("video")
  PROVE  FileInv'
<1>1. /\ Untouched /\ Fetching /\ NoFlush /\ NullLast /\ Started /\ AllShown /\ Covered
      /\ ~Live /\ seek = 0 /\ dout["video"] \in Seq(Frames) /\ decoded["video"] \in Seq(Frames)
      /\ held["video"] \in Seq(Pkt) /\ held["video"] \in Seq(Frames)
      /\ pkts["video"] \in Seq(Packets) /\ dhand["video"] \in Packets
      /\ dec["video"] # "emit" => dout["video"] = <<>>
      /\ Null # Flush /\ Null \notin Nat /\ Flush \notin Nat
  <2>1. /\ TypeQueues /\ TypeDecoders /\ FileInv /\ Quiet /\ WholeFile /\ NoOutput("video")
    BY DEF FileBase, TypeInv, TypeOK, OrderInv, InOrderOf, Streams
  <2>2. held["video"] \in Seq(Pkt) /\ held["video"] \in Seq(Frames)
    BY <2>1, SeqMonotonic DEF TypeDecoders, Streams, Frames
  <2> QED BY <2>1, <2>2, PlayerAssumption
          DEF FileInv, Quiet, WholeFile, TypeQueues, TypeDecoders, Outs, Streams, NoOutput
<1>2. /\ UNCHANGED <<filVars, snkVars, filtered, rd, rhand, nread, play, attached, closed, term, terminated>>
  BY DEF Decoder, DecPop, DecTerminated, DecFlush, DecSkip, DecDecode, DecEmit, DecPass, DecRest,
     flags, readerVars, callVars
<1>3. /\ Untouched' /\ AllShown' /\ Fetching' /\ FilteredLast' /\ SnkLast' /\ Sent' = Sent
      /\ dec'["video"] # "off" => Started'
  BY <1>1, <1>2 DEF Untouched, AllShown, Fetching, Started, NullLast, FilteredLast, SnkLast, SnkEnd, Sent,
     HasNull, Tidy, filVars, snkVars
<1>4. ASSUME Carried("video") \subseteq Carried("video")'
      PROVE  Covered'
  BY <1>1, <1>2, <1>4 DEF Covered, snkVars
<1>5. /\ InSink("video")' = InSink("video") /\ InReader("video")' = InReader("video")
      /\ UNCHANGED <<filtered, fout, fil, shown>>
  BY <1>2 DEF InSink, InReader, filVars, snkVars
<1>6. ASSUME ~DecGone, ~DecGone', decoded' = decoded
      PROVE  DecodedLast' /\ FilLast'
  BY <1>1, <1>5, <1>6 DEF NullLast, DecodedLast, FilLast, FilEnd, HasNull, Tidy
<1>7. CASE DecPop("video")
  <2>1. /\ UNCHANGED <<decoded, dout, held>> /\ pkts["video"] # <<>>
        /\ dec["video"] = "pop" /\ dec'["video"] = "check"
        /\ dhand'["video"] = Head(pkts["video"]) /\ pkts'["video"] = Tail(pkts["video"])
    BY <1>7 DEF DecPop, FileBase, TypeInv, TypeOK, TypeDecoders, TypeQueues, Streams, Outs
  <2>2. dout["video"] = <<>> /\ ~DecGone /\ ~DecGone'
    BY <1>1, <2>1 DEF DecGone
  <2>3. /\ Tidy(pkts'["video"]) /\ (HasNull(pkts["video"]) <=> Head(pkts["video"]) = Null \/ HasNull(pkts'["video"]))
        /\ Head(pkts["video"]) = Null => pkts'["video"] = <<>>
    BY <1>1, <2>1, TidyPop DEF NullLast, PktsLast
  <2>4. PktsLast' /\ DecLast' /\ DoutLast'
    BY <1>1, <1>3, <2>1, <2>2, <2>3, TidyNone DEF NullLast, PktsLast, DecLast, DoutLast, DecEnd
  <2>5. NoFlush'
    <3>1. /\ Len(pkts["video"]) \in Nat /\ Len(pkts["video"]) >= 1
          /\ Len(Tail(pkts["video"])) = Len(pkts["video"]) - 1 /\ Head(pkts["video"]) = pkts["video"][1]
          /\ \A i \in 1..(Len(pkts["video"]) - 1) : Tail(pkts["video"])[i] = pkts["video"][i + 1]
      BY <1>1, <2>1, HeadTailProperties, LenProperties, EmptySeq
    <3>2. Head(pkts["video"]) # Flush
      BY <1>1, <3>1 DEF NoFlush
    <3>3. \A i \in 1..(Len(pkts["video"]) - 1) : i + 1 \in 1..Len(pkts["video"])
      BY <3>1
    <3> QED BY <1>1, <2>1, <3>1, <3>2, <3>3 DEF NoFlush
  <2>6. Carried("video") \subseteq Carried("video")'
    <3>1. Nums(pkts["video"]) = Nums(pkts'["video"]) \cup ({dhand'["video"]} \cap Nat)
      BY <1>1, <2>1, NumsPop
    <3>2. InDec("video") = {} /\ InDec("video")' = {dhand'["video"]} \cap Nat
      BY <2>1 DEF InDec
    <3> QED BY <1>5, <2>1, <3>1, <3>2 DEF Carried
  <2> QED BY <1>3, <1>4, <1>6, <2>1, <2>2, <2>4, <2>5, <2>6 DEF FileInv, NullLast
<1>8. CASE DecDecode("video")
  <2>1. /\ UNCHANGED <<decoded, pkts, dhand>> /\ dec["video"] = "check" /\ dec'["video"] = "emit"
    BY <1>8 DEF DecDecode, FileBase, TypeInv, TypeOK, TypeDecoders, Streams
  <2>2. /\ dout["video"] = <<>> /\ ~DecGone /\ DecEnd' = DecEnd /\ (DecEnd <=> dhand["video"] = Null)
    BY <1>1, <2>1 DEF DecGone, DecEnd
  <2>3. PktsLast' /\ NoFlush' /\ (DecEnd => pkts'["video"] = <<>> /\ Sent')
    BY <1>1, <1>3, <2>1 DEF NullLast, PktsLast, DecLast, NoFlush, HasNull, Tidy
  <2>4. InDec("video") = {dhand["video"]} \cap Nat /\ InDec("video")' = {}
    BY <2>1 DEF InDec
  <2>5. CASE dhand["video"] = Null
    <3>1. dout'["video"] = Push(held["video"], Null) /\ held'["video"] = <<>>
      BY <1>8, <2>5 DEF DecDecode, Drained, Push, FileBase, TypeInv, TypeOK, TypeDecoders, Streams
    <3>2. Tidy(dout'["video"]) /\ HasNull(dout'["video"])
      BY <1>1, <3>1, TidyPush, NoNullPkts DEF Frames
    <3>3. ~DecGone' /\ DoutLast' /\ DecLast'
      BY <2>1, <2>2, <2>3, <2>5, <3>1, <3>2, TidyNone DEF DecGone, DoutLast, DecLast
    <3>4. Nums(held["video"]) \subseteq Nums(dout'["video"])
      <4>1. held["video"] \in Seq(Frames) /\ Null \in Frames
        BY <1>1 DEF Frames
      <4>2. Nums(Push(held["video"], Null)) = Nums(held["video"]) \cup ({Null} \cap Nat)
        BY <4>1, NumsAdd
      <4> QED BY <3>1, <4>2
    <3>5. Carried("video") \subseteq Carried("video")'
      <4>1. {dhand["video"]} \cap Nat = {}
        BY <1>1, <2>5
      <4> QED BY <1>5, <2>1, <2>2, <2>4, <3>4, <4>1, TidyNone DEF Carried
    <3> QED BY <1>3, <1>4, <1>6, <2>1, <2>2, <2>3, <3>3, <3>5 DEF FileInv, NullLast
  <2>6. CASE dhand["video"] # Null
    <3> DEFINE all == Push(held["video"], dhand["video"])
    <3>1. dhand["video"] \in Pkt /\ InDec("video") = {dhand["video"]}
      BY <1>1, <2>4, <2>6 DEF Packets, NoFlush, Pkt
    <3>2. all \in Seq(Pkt) /\ Len(all) \in Nat
      BY <1>1, <3>1, AppendProperties, LenProperties DEF Push
    <3>3. PICK n \in 0..Len(all) : /\ dout'["video"] = SubSeq(all, 1, n)
                                   /\ held'["video"] = SubSeq(all, n + 1, Len(all))
      <4>1. PICK n \in 0..Len(all) : /\ dout' = [dout EXCEPT !["video"] = SubSeq(all, 1, n)]
                                     /\ held' = [held EXCEPT !["video"] = SubSeq(all, n + 1, Len(all))]
        BY <1>8, <2>6 DEF DecDecode, Push
      <4> QED BY <4>1 DEF FileBase, TypeInv, TypeOK, TypeDecoders, Streams
    <3>4. Nums(all) = Nums(held["video"]) \cup {dhand["video"]}
      <4>1. Nums(all) = Nums(held["video"]) \cup ({dhand["video"]} \cap Nat)
        BY <1>1, <3>1, NumsAdd
      <4> QED BY <3>1, <4>1 DEF Pkt
    <3> HIDE DEF all
    <3>5. Nums(all) \subseteq Nums(dout'["video"]) \cup Nums(held'["video"])
      <4>1. /\ 1 \in 1..(Len(all) + 1) /\ n \in 0..Len(all) /\ 1 <= n + 1
            /\ n + 1 \in 1..(Len(all) + 1) /\ Len(all) \in 0..Len(all) /\ n + 1 <= Len(all) + 1
        BY <3>2
      <4>2. \A a : a \in Nums(SubSeq(all, 1, n)) <=> a \in Nat /\ \E i \in 1..n : all[i] = a
        BY <3>2, <4>1, NumsPart
      <4>3. \A a : a \in Nums(SubSeq(all, n + 1, Len(all)))
              <=> a \in Nat /\ \E i \in (n + 1)..Len(all) : all[i] = a
        BY <3>2, <4>1, NumsPart
      <4> SUFFICES ASSUME NEW a \in Nums(all) PROVE a \in Nums(dout'["video"]) \cup Nums(held'["video"])
        OBVIOUS
      <4>4. PICK i \in 1..Len(all) : all[i] = a /\ a \in Nat
        BY DEF Nums
      <4>5. i \in 1..n \/ i \in (n + 1)..Len(all)
        BY <3>2
      <4> QED BY <3>3, <4>2, <4>3, <4>4, <4>5
    <3>6. ~HasNull(dout'["video"]) /\ Tidy(dout'["video"])
      <4>1. dout'["video"] \in Seq(Pkt)
        <5>1. \A i \in 1..n : all[i] \in Pkt
          BY <3>2, ElementOfSeq
        <5> QED BY <3>2, <3>3, <5>1, SubSeqProperties
      <4> QED BY <4>1, NoNullPkts
    <3>7. ~DecGone' /\ DoutLast' /\ DecLast'
      BY <2>1, <2>2, <2>6, <3>6 DEF DecGone, DoutLast, DecLast
    <3>8. Carried("video") \subseteq Carried("video")'
      BY <1>5, <2>1, <2>2, <2>4, <3>1, <3>4, <3>5, TidyNone DEF Carried
    <3> QED BY <1>3, <1>4, <1>6, <2>1, <2>2, <2>3, <3>7, <3>8 DEF FileInv, NullLast
  <2> QED BY <2>5, <2>6
<1>9. CASE DecEmit("video")
  <2>1. /\ UNCHANGED <<pkts, dec, dhand, held>> /\ dec["video"] = "emit" /\ dout["video"] # <<>>
        /\ decoded'["video"] = Push(decoded["video"], Head(dout["video"]))
        /\ dout'["video"] = Tail(dout["video"]) /\ Head(dout["video"]) \in Frames
    <3>1. dout["video"] # <<>>
      BY <1>9 DEF DecEmit
    <3>2. Head(dout["video"]) \in Frames
      BY <1>1, <3>1, PopType
    <3> QED BY <1>9, <3>1, <3>2 DEF DecEmit, FileBase, TypeInv, TypeOK, TypeDecoders, TypeQueues, Streams
  <2>2. ~DecGone /\ DecEnd' = DecEnd
    BY <2>1 DEF DecGone, DecEnd
  <2>3. PktsLast' /\ DecLast' /\ NoFlush'
    BY <1>1, <1>3, <2>1, <2>2 DEF NullLast, PktsLast, DecLast, NoFlush, HasNull, Tidy
  <2>4. /\ Tidy(dout'["video"])
        /\ HasNull(dout["video"]) <=> Head(dout["video"]) = Null \/ HasNull(dout'["video"])
        /\ Head(dout["video"]) = Null => dout'["video"] = <<>>
    BY <1>1, <2>1, TidyPop DEF NullLast, DoutLast
  <2>5. ~HasNull(decoded["video"]) /\ ~FilEnd
    BY <1>1, <2>2 DEF NullLast, DecodedLast, FilLast
  <2>6. Tidy(decoded'["video"]) /\ (HasNull(decoded'["video"]) => Head(dout["video"]) = Null)
    BY <1>1, <2>1, <2>5, TidyPush
  <2>7. DoutLast' /\ DecodedLast'
    BY <1>1, <2>1, <2>2, <2>4, <2>6 DEF NullLast, DoutLast, DecodedLast, DecGone, DecEnd
  <2>8. FilLast'
    BY <1>1, <1>5, <2>5 DEF NullLast, FilLast, FilEnd
  <2>9. Carried("video") \subseteq Carried("video")'
    <3>1. Nums(dout["video"]) = Nums(dout'["video"]) \cup ({Head(dout["video"])} \cap Nat)
      BY <1>1, <2>1, NumsPop
    <3>2. Nums(decoded'["video"]) = Nums(decoded["video"]) \cup ({Head(dout["video"])} \cap Nat)
      <4>1. \A e \in Frames : Nums(Push(decoded["video"], e)) = Nums(decoded["video"]) \cup ({e} \cap Nat)
        BY <1>1, NumsAdd
      <4> QED BY <2>1, <4>1
    <3>3. InDec("video")' = InDec("video")
      BY <2>1 DEF InDec
    <3> QED BY <1>5, <2>1, <3>1, <3>2, <3>3 DEF Carried
  <2> QED BY <1>3, <1>4, <2>1, <2>3, <2>7, <2>8, <2>9 DEF FileInv, NullLast
<1>10. CASE DecPass("video")
  <2>1. /\ UNCHANGED <<decoded, dout, held, pkts>> /\ dec["video"] = "emit" /\ dout["video"] = <<>>
        /\ dec'["video"] = (IF dhand["video"] = Null THEN "done" ELSE "pop")
        /\ dhand'["video"] = Null
    BY <1>1, <1>10 DEF DecPass, ToWriter, FileBase, TypeInv, TypeOK, TypeDecoders, Streams
  <2>2. DecGone' = DecGone /\ DecEnd' = DecEnd
    BY <2>1 DEF DecGone, DecEnd
  <2>3. NoFlush' /\ NullLast'
    <3>1. NoFlush' /\ PktsLast'
      BY <1>1, <1>3, <2>1 DEF NullLast, PktsLast, NoFlush, HasNull, Tidy
    <3>2. DecLast' /\ DoutLast'
      BY <1>1, <1>3, <2>1, <2>2, TidyNone DEF NullLast, DecLast, DoutLast
    <3>3. DecodedLast' /\ FilLast'
      BY <1>1, <1>5, <2>1, <2>2 DEF NullLast, DecodedLast, FilLast, FilEnd, HasNull, Tidy
    <3> QED BY <1>3, <3>1, <3>2, <3>3 DEF NullLast
  <2>4. Carried("video") \subseteq Carried("video")'
    <3>1. InDec("video") = {} /\ InDec("video")' = {}
      BY <2>1 DEF InDec
    <3> QED BY <1>5, <2>1, <3>1 DEF Carried
  <2> QED BY <1>3, <1>4, <2>1, <2>3, <2>4 DEF FileInv
<1>11. ~DecTerminated("video") /\ ~DecFlush("video") /\ ~DecSkip("video")
  BY <1>1 DEF DecTerminated, DecFlush, DecSkip, Untouched, NoFlush
<1> QED BY <1>7, <1>8, <1>9, <1>10, <1>11 DEF Decoder

LEMMA FileFilter ==
  ASSUME FileBase, Filter("video")
  PROVE  FileInv'
<1>1. /\ Untouched /\ Fetching /\ NoFlush /\ NullLast /\ Started /\ AllShown /\ Covered
      /\ seek = 0 /\ 0 \notin FilterOut /\ FilterOut \subseteq Nat
      /\ decoded["video"] \in Seq(Frames) /\ filtered["video"] \in Seq(Frames)
      /\ fout["video"] \in Seq(Frames)
      /\ fil["video"] \in {"check", "push"} => fout["video"] # <<>>
      /\ fil["video"] = "check" => Tail(fout["video"]) = <<>>
      /\ fil["video"] \in {"off", "pop"} => fout["video"] = <<>>
  <2>1. /\ TypeQueues /\ TypeFilters /\ InHand /\ FileInv /\ Quiet /\ WholeFile
    BY DEF FileBase, TypeInv, TypeOK
  <2> QED BY <2>1, PlayerAssumption
          DEF FileInv, Quiet, WholeFile, TypeQueues, TypeFilters, InHand, Streams
<1>2. /\ UNCHANGED <<decVars, snkVars, pkts, rd, rhand, nread, play, attached, closed, term, terminated>>
  BY DEF Filter, FilPop, FilTerminated, FilFrame, FilPush, FilRest, flags, readerVars, callVars
<1>3. /\ Untouched' /\ AllShown' /\ Fetching' /\ NoFlush' /\ PktsLast' /\ DecLast' /\ DoutLast'
      /\ fil'["video"] # "off" => Started'
      /\ DecGone' = DecGone /\ snk'["video"] = snk["video"] /\ shand'["video"] = shand["video"]
  BY <1>1, <1>2 DEF Untouched, AllShown, Fetching, NoFlush, Started, NullLast, PktsLast, DecLast, DoutLast,
     DecEnd, DecGone, Sent, HasNull, Tidy, decVars, snkVars
<1>4. ASSUME Carried("video") \subseteq Carried("video")'
      PROVE  Covered'
  BY <1>1, <1>2, <1>4 DEF Covered, snkVars
<1>5. /\ InSink("video")' = InSink("video") /\ InDec("video")' = InDec("video")
      /\ InReader("video")' = InReader("video") /\ UNCHANGED <<dout, held, pkts>>
  BY <1>2 DEF InSink, InDec, InReader, decVars, snkVars
<1>6. ASSUME fil["video"] # "done"
      PROVE  ~HasNull(filtered["video"]) /\ ~SnkEnd /\ (snk["video"] # "check" => shand["video"] = Null)
  BY <1>1, <1>6 DEF NullLast, FilteredLast, SnkLast
<1>7. ASSUME filtered' = filtered, fil["video"] # "done"
      PROVE  FilteredLast' /\ SnkLast'
  BY <1>1, <1>3, <1>6, <1>7 DEF NullLast, FilteredLast, SnkLast, SnkEnd, HasNull
<1>8. CASE FilPop("video")
  <2>1. /\ UNCHANGED filtered /\ decoded["video"] # <<>>
        /\ fil["video"] = "pop" /\ fil'["video"] = "check" /\ fout["video"] = <<>>
        /\ fout'["video"] = <<Head(decoded["video"])>> /\ decoded'["video"] = Tail(decoded["video"])
    BY <1>1, <1>8 DEF FilPop, FileBase, TypeInv, TypeOK, TypeFilters, TypeQueues, Streams
  <2>2. /\ Tidy(decoded'["video"])
        /\ HasNull(decoded["video"]) <=> Head(decoded["video"]) = Null \/ HasNull(decoded'["video"])
        /\ Head(decoded["video"]) = Null => decoded'["video"] = <<>>
    BY <1>1, <2>1, TidyPop DEF NullLast, DecodedLast
  <2>3. HasNull(fout'["video"]) <=> Head(decoded["video"]) = Null
    BY <2>1, TidyNone
  <2>4. DecodedLast' /\ FilLast'
    BY <1>1, <1>3, <2>1, <2>2, <2>3 DEF NullLast, DecodedLast, FilLast, FilEnd
  <2>5. Carried("video") \subseteq Carried("video")'
    <3>1. Nums(decoded["video"]) = Nums(decoded'["video"]) \cup ({Head(decoded["video"])} \cap Nat)
      BY <1>1, <2>1, NumsPop
    <3>2. Nums(fout'["video"]) = {Head(decoded["video"])} \cap Nat /\ Nums(fout["video"]) = {}
      BY <2>1, NumsOne, NumsNone
    <3> QED BY <1>5, <2>1, <3>1, <3>2 DEF Carried
  <2> QED BY <1>3, <1>4, <1>7, <2>1, <2>4, <2>5 DEF FileInv, NullLast
<1>9. CASE FilFrame("video")
  <2>1. UNCHANGED <<decoded, filtered>> /\ fil["video"] = "check" /\ fout["video"] # <<>>
    BY <1>1, <1>9 DEF FilFrame
  <2>2. DecodedLast'
    BY <1>1, <1>3, <2>1 DEF NullLast, DecodedLast, HasNull, Tidy
  <2>3. CASE fout["video"] = <<Null>>
    <3>1. fil'["video"] = "push" /\ fout' = fout
      BY <1>9, <2>3 DEF FilFrame, FileBase, TypeInv, TypeOK, TypeFilters, Streams
    <3>2. FilLast'
      BY <1>1, <1>3, <2>1, <2>3, <3>1, TidyNone DEF NullLast, FilLast, FilEnd
    <3>3. Carried("video") \subseteq Carried("video")'
      BY <1>5, <2>1, <3>1 DEF Carried
    <3> QED BY <1>3, <1>4, <1>7, <2>1, <2>2, <3>1, <3>2, <3>3 DEF FileInv, NullLast
  <2>4. CASE fout["video"] # <<Null>>
    <3>1. PICK n \in FilterOut : /\ fout' = [fout EXCEPT !["video"] = [i \in 1..n |-> Head(fout["video"])]]
                                 /\ fil' = [fil EXCEPT !["video"] = IF n = 0 THEN "pop" ELSE "push"]
      BY <1>1, <1>9, <2>4 DEF FilFrame
    <3>2. n \in Nat /\ n # 0
      BY <1>1
    <3>3. fout'["video"] = [i \in 1..n |-> Head(fout["video"])] /\ fil'["video"] = "push"
      BY <3>1, <3>2 DEF FileBase, TypeInv, TypeOK, TypeFilters, Streams
    <3>4. Head(fout["video"]) # Null /\ ~HasNull(fout'["video"])
      <4>1. ~HasNull(fout["video"])
        BY <1>1, <2>4 DEF NullLast, FilLast
      <4>2. Head(fout["video"]) # Null
        BY <1>1, <2>1, <4>1, HasNullHead
      <4>3. Len(fout'["video"]) = n /\ \A i \in 1..n : fout'["video"][i] = Head(fout["video"])
        BY <3>2, <3>3, CopiesType
      <4> QED BY <4>2, <4>3 DEF HasNull
    <3>5. FilLast'
      BY <3>3, <3>4 DEF FilLast, FilEnd
    <3>6. Nums(fout["video"]) \subseteq Nums(fout'["video"])
      <4>1. Nums(fout["video"]) = Nums(Tail(fout["video"])) \cup ({Head(fout["video"])} \cap Nat)
        BY <1>1, <2>1, NumsPop
      <4>2. Nums(Tail(fout["video"])) = {}
        BY <1>1, <2>1, NumsNone
      <4>3. Nums(fout'["video"]) = {Head(fout["video"])} \cap Nat
        BY <3>2, <3>3, NumsCopies
      <4> QED BY <4>1, <4>2, <4>3
    <3>7. Carried("video") \subseteq Carried("video")'
      BY <1>5, <2>1, <3>6 DEF Carried
    <3> QED BY <1>3, <1>4, <1>7, <2>1, <2>2, <3>3, <3>5, <3>7 DEF FileInv, NullLast
  <2> QED BY <2>3, <2>4
<1>10. CASE FilPush("video")
  <2>1. /\ UNCHANGED decoded /\ fil["video"] = "push" /\ fout["video"] # <<>>
        /\ filtered'["video"] = Push(filtered["video"], Head(fout["video"]))
        /\ fout'["video"] = Tail(fout["video"])
        /\ fil'["video"] = (IF Head(fout["video"]) = Null THEN "done"
                            ELSE IF Tail(fout["video"]) = <<>> THEN "pop" ELSE "push")
    BY <1>1, <1>10 DEF FilPush, FileBase, TypeInv, TypeOK, TypeFilters, TypeQueues, Streams
  <2>2. Head(fout["video"]) \in Frames
    BY <1>1, <2>1, PopType
  <2>3. HasNull(fout["video"]) <=> Head(fout["video"]) = Null \/ HasNull(fout'["video"])
    BY <1>1, <2>1, HasNullHead
  <2>4. HasNull(fout["video"]) => Head(fout["video"]) = Null /\ fout'["video"] = <<>>
    <3>1. Head(<<Null>>) = Null /\ Tail(<<Null>>) = <<>>
      OBVIOUS
    <3> QED BY <1>1, <2>1, <3>1 DEF NullLast, FilLast
  <2>5. DecodedLast' /\ FilLast'
    <3>1. DecodedLast'
      BY <1>1, <1>3, <2>1 DEF NullLast, DecodedLast, HasNull, Tidy
    <3>2. CASE Head(fout["video"]) = Null
      BY <1>1, <1>3, <2>1, <2>3, <2>4, <3>1, <3>2, TidyNone DEF NullLast, FilLast, FilEnd
    <3>3. CASE Head(fout["video"]) # Null
      <4>1. ~HasNull(fout'["video"]) /\ fil'["video"] # "done"
        BY <2>1, <2>3, <2>4, <3>3
      <4> QED BY <3>1, <4>1 DEF FilLast, FilEnd
    <3> QED BY <3>2, <3>3
  <2>6. FilteredLast' /\ SnkLast'
    <3>1. ~HasNull(filtered["video"]) /\ ~SnkEnd /\ (snk["video"] # "check" => shand["video"] = Null)
      BY <1>6, <2>1
    <3>2. Tidy(filtered'["video"]) /\ (HasNull(filtered'["video"]) => Head(fout["video"]) = Null)
      BY <1>1, <2>1, <2>2, <3>1, TidyPush
    <3> QED BY <1>3, <2>1, <3>1, <3>2 DEF FilteredLast, SnkLast, SnkEnd
  <2>7. Carried("video") \subseteq Carried("video")'
    <3>1. Nums(fout["video"]) = Nums(fout'["video"]) \cup ({Head(fout["video"])} \cap Nat)
      BY <1>1, <2>1, NumsPop
    <3>2. Nums(filtered'["video"]) = Nums(filtered["video"]) \cup ({Head(fout["video"])} \cap Nat)
      <4>1. \A e \in Frames : Nums(Push(filtered["video"], e)) = Nums(filtered["video"]) \cup ({e} \cap Nat)
        BY <1>1, NumsAdd
      <4> QED BY <2>1, <2>2, <4>1
    <3> QED BY <1>5, <2>1, <3>1, <3>2 DEF Carried
  <2>8. fil'["video"] # "off"
    BY <2>1
  <2> QED BY <1>3, <1>4, <2>5, <2>6, <2>7, <2>8 DEF FileInv, NullLast
<1>11. ~FilTerminated("video")
  BY <1>1 DEF FilTerminated, Untouched
<1> QED BY <1>8, <1>9, <1>10, <1>11 DEF Filter

LEMMA FileSink ==
  ASSUME FileBase, Sink("video")
  PROVE  FileInv' /\ shown'["video"] \in {shown["video"], shown["video"] + 1}
<1>1. /\ Untouched /\ Fetching /\ NoFlush /\ NullLast /\ Started /\ AllShown /\ Covered
      /\ seek = 0 /\ filtered["video"] \in Seq(Frames) /\ InOrderOf("video")
      /\ shown["video"] \in Nat /\ nread \in Nat /\ Null \notin Nat /\ Frames = Pkt \cup {Null}
      /\ shand["video"] \in Frames /\ Pkt \subseteq Nat
  <2>1. /\ TypeQueues /\ TypeSinks /\ TypeReader /\ FileInv /\ Quiet /\ OrderInv
    BY DEF FileBase, TypeInv, TypeOK
  <2> QED BY <2>1, PlayerAssumption
          DEF FileInv, Quiet, OrderInv, TypeQueues, TypeSinks, TypeReader, Streams, Pkt, Frames
<1>2. /\ UNCHANGED <<decVars, filVars, decoded, rd, rhand, nread, play, attached, closed, term, terminated>>
  BY DEF Sink, SnkTop, AudioFetch, SnkPop, SnkFrame, SnkRest, readerVars, callVars
<1>3. play # "done" /\ snk["video"] \in {"top", "pop", "check"}
  BY <1>1 DEF Sink, SnkTop, SnkPop, SnkFrame, AllShown
<1>4. /\ Untouched' /\ Fetching' /\ AllShown' /\ DecodedLast' /\ FilLast' /\ DoutLast'
      /\ snk'["video"] # "off" => Started'
      /\ pkts' = pkts => NoFlush' /\ PktsLast' /\ DecLast'
  BY <1>1, <1>2, <1>3 DEF Untouched, AllShown, Fetching, NoFlush, Started, NullLast, PktsLast, DecLast,
     DoutLast, DecodedLast, FilLast, FilEnd, DecEnd, DecGone, Sent, HasNull, Tidy, decVars, filVars
<1>5. ASSUME Carried("video") \subseteq Carried("video")', shown' = shown
      PROVE  Covered'
  BY <1>1, <1>2, <1>5 DEF Covered
<1>6. /\ InDec("video")' = InDec("video") /\ InReader("video")' = InReader("video")
      /\ UNCHANGED <<fout, decoded, dout, held, fil>>
  BY <1>2 DEF InDec, InReader, decVars, filVars
<1>7. CASE SnkTop("video")
  <2>1. /\ UNCHANGED <<pkts, filtered, shand, shown>> /\ snk["video"] = "top" /\ snk'["video"] = "pop"
    BY <1>1, <1>7 DEF SnkTop, Untouched, FileBase, TypeInv, TypeOK, TypeSinks, Streams
  <2>2. FilteredLast' /\ SnkLast'
    BY <1>1, <1>6, <2>1 DEF NullLast, FilteredLast, SnkLast, SnkEnd, HasNull, Tidy
  <2>3. Carried("video") \subseteq Carried("video")'
    BY <1>6, <2>1 DEF Carried, InSink
  <2> QED BY <1>4, <1>5, <2>1, <2>2, <2>3 DEF FileInv, NullLast
<1>8. CASE SnkPop("video")
  <2>1. /\ UNCHANGED <<pkts, shown>> /\ snk["video"] = "pop" /\ snk'["video"] = "check"
        /\ filtered["video"] # <<>> /\ filtered'["video"] = Tail(filtered["video"])
        /\ shand'["video"] = Head(filtered["video"])
    BY <1>8 DEF SnkPop, FileBase, TypeInv, TypeOK, TypeSinks, TypeQueues, Streams
  <2>2. /\ Tidy(filtered'["video"])
        /\ HasNull(filtered["video"]) <=> Head(filtered["video"]) = Null \/ HasNull(filtered'["video"])
        /\ Head(filtered["video"]) = Null => filtered'["video"] = <<>>
    BY <1>1, <2>1, TidyPop DEF NullLast, FilteredLast
  <2>3. FilteredLast' /\ SnkLast'
    BY <1>1, <1>6, <2>1, <2>2 DEF NullLast, FilteredLast, SnkLast, SnkEnd
  <2>4. Carried("video") \subseteq Carried("video")'
    <3>1. Nums(filtered["video"]) = Nums(filtered'["video"]) \cup ({shand'["video"]} \cap Nat)
      BY <1>1, <2>1, NumsPop
    <3>2. InSink("video") = {}
      BY <1>1, <2>1 DEF NullLast, SnkLast, InSink
    <3> QED BY <1>6, <2>1, <3>1, <3>2 DEF Carried, InSink
  <2> QED BY <1>4, <1>5, <2>1, <2>2, <2>3, <2>4 DEF FileInv, NullLast
<1>9. CASE SnkFrame("video")
  <2>1. /\ UNCHANGED <<pkts, filtered>> /\ snk["video"] = "check" /\ shand'["video"] = Null
        /\ IF shand["video"] = Null
           THEN snk'["video"] = "done" /\ shown' = shown
           ELSE snk'["video"] = "top" /\ shown'["video"] = shand["video"]
    BY <1>1, <1>9 DEF SnkFrame, Untouched, FileBase, TypeInv, TypeOK, TypeSinks, Streams
  <2>2. FilteredLast' /\ SnkLast'
    BY <1>1, <1>6, <2>1 DEF NullLast, FilteredLast, SnkLast, SnkEnd, HasNull, Tidy
  <2>3. Carried("video") = Carried("video")' \cup ({shand["video"]} \cap Nat)
    <3>1. InSink("video")' = {}
      BY <1>1, <2>1 DEF InSink
    <3> QED BY <1>6, <2>1, <3>1 DEF Carried, InSink
  <2>4. CASE shand["video"] = Null
    BY <1>1, <1>4, <1>5, <2>1, <2>2, <2>3, <2>4 DEF FileInv, NullLast
  <2>5. CASE shand["video"] # Null
    <3>1. shand["video"] \in Nat /\ InSink("video") = {shand["video"]}
      BY <1>1, <2>5 DEF InSink
    <3>2. shown["video"] <= shand["video"] /\ shand["video"] <= nread
      <4>1. Below(Contents("video")[1], Contents("video")[2]) /\ Below(Contents("video")[2], Contents("video")[11])
        BY <1>1 DEF InOrderOf, Ordered
      <4>2. Below({shown["video"]}, {shand["video"]}) /\ Below({shand["video"]}, {nread})
        BY <3>1, <4>1, Places
      <4> QED BY <4>2 DEF Below
    <3>3. shand["video"] <= shown["video"] + 1
      <4> SUFFICES ASSUME shown["video"] + 1 < shand["video"] PROVE FALSE
        BY <1>1, <3>1
      <4> DEFINE n == shown["video"] + 1
      <4>1. n \in Nat /\ shown["video"] < n /\ n <= nread /\ n # shand["video"]
        BY <1>1, <3>1, <3>2
      <4>2. n \in Carried("video")
        BY <1>1, <4>1 DEF Covered
      <4> HIDE DEF n
      <4>3. \E i \in 3..10 : n \in Contents("video")[i]
        <5>1. /\ 3 \in 3..10 /\ 4 \in 3..10 /\ 5 \in 3..10 /\ 6 \in 3..10 /\ 7 \in 3..10
              /\ 8 \in 3..10 /\ 9 \in 3..10 /\ 10 \in 3..10
          OBVIOUS
        <5>2. \/ n \in Contents("video")[3] \/ n \in Contents("video")[4] \/ n \in Contents("video")[5]
              \/ n \in Contents("video")[6] \/ n \in Contents("video")[7] \/ n \in Contents("video")[8]
              \/ n \in Contents("video")[9] \/ n \in Contents("video")[10]
          BY <3>1, <4>1, <4>2, Places DEF Carried
        <5> QED BY <5>1, <5>2
      <4>4. PICK i \in 3..10 : n \in Contents("video")[i]
        BY <4>3
      <4>5. Below(Contents("video")[2], Contents("video")[i])
        <5>1. 2 \in 1..11 /\ i \in 1..11 /\ 2 < i
          OBVIOUS
        <5> QED BY <1>1, <5>1 DEF InOrderOf, Ordered
      <4>6. shand["video"] <= n
        BY <3>1, <4>4, <4>5, Places DEF Below
      <4> QED BY <1>1, <3>1, <4>6 DEF n
    <3>4. Covered'
      <4> SUFFICES ASSUME NEW n \in Nat, shown'["video"] < n, n <= nread' PROVE n \in Carried("video")'
        BY DEF Covered
      <4>1. shown["video"] < n /\ n # shand["video"] /\ n <= nread
        BY <1>1, <1>2, <2>1, <2>5, <3>1, <3>2
      <4> QED BY <1>1, <2>3, <4>1 DEF Covered
    <3>5. shown'["video"] \in {shown["video"], shown["video"] + 1}
      BY <1>1, <2>1, <2>5, <3>1, <3>2, <3>3
    <3> QED BY <1>4, <2>1, <2>2, <3>4, <3>5 DEF FileInv, NullLast
  <2> QED BY <2>4, <2>5
<1> QED BY <1>7, <1>8, <1>9 DEF Sink

LEMMA FilePlay ==
  ASSUME FileBase, Play
  PROVE  FileInv'
<1>1. /\ Untouched /\ Fetching /\ NoFlush /\ NullLast /\ Started /\ AllShown /\ Covered /\ Startup /\ Unstarted
      /\ Media = {"video"} /\ ~Hidden /\ opts.fails \subseteq {"connect"} /\ InOrderOf("video")
      /\ shown["video"] \in Nat /\ nread \in Nat /\ "audio" # "video"
  <2>1. /\ TypeSinks /\ TypeReader /\ FileInv /\ OrderInv /\ WholeFile /\ Startup /\ Unstarted /\ opts \in Options
    BY DEF FileBase, TypeInv, TypeOK, TypePlay
  <2>2. ~Hidden
    BY <2>1, PlayerAssumption DEF WholeFile, Live, Hidden
  <2> QED BY <2>1, <2>2, PlayerAssumption
          DEF FileInv, WholeFile, OrderInv, TypeSinks, TypeReader, Streams, Pkt
<1>2. UNCHANGED <<opts, pkts, decoded, filtered, flags, rhand, nread, dhand, dout, held, fout, shand, shown>>
  BY DEF Play, Connect, StartThreads, OpenAudio, PlayThrow, PlayCaught, StartDisplay, Join, PlayRest
<1>3. ~PlayThrow /\ ~PlayCaught
  BY <1>1 DEF PlayThrow, PlayCaught, Started
<1>4. term' = term
  BY <1>3 DEF Play, Connect, StartThreads, OpenAudio, StartDisplay, Join
<1>5. Untouched' /\ NoFlush'
  BY <1>1, <1>2, <1>4 DEF Untouched, NoFlush, flags
<1>6. shown["video"] <= nread
  <2>1. Below(Contents("video")[1], Contents("video")[11])
    BY <1>1 DEF InOrderOf, Ordered
  <2>2. Below({shown["video"]}, {nread})
    BY <2>1, Places
  <2> QED BY <2>2 DEF Below
<1>7. ASSUME UNCHANGED <<rd, dec, fil>>
      PROVE  /\ Covered' /\ PktsLast' /\ DecLast' /\ DoutLast' /\ DecodedLast' /\ FilLast' /\ FilteredLast'
             /\ (snk'["video"] = snk["video"] => SnkLast')
  <2>1. Carried("video")' = Carried("video")
    BY <1>2, <1>7 DEF Carried, InSink, InDec, InReader
  <2>2. Covered'
    BY <1>1, <1>2, <2>1 DEF Covered
  <2>3. /\ PktsLast' /\ DecLast' /\ DoutLast' /\ DecodedLast' /\ FilLast' /\ FilteredLast'
        /\ (snk'["video"] = snk["video"] => SnkLast')
    BY <1>1, <1>2, <1>7 DEF NullLast, PktsLast, DecLast, DoutLast, DecodedLast, FilLast, FilteredLast,
       SnkLast, SnkEnd, FilEnd, DecEnd, DecGone, Sent, HasNull, Tidy
  <2> QED BY <2>2, <2>3
<1>8. CASE Connect
  <2>1. /\ UNCHANGED <<rd, dec, fil, snk>> /\ rd = "off" /\ nread = 0 /\ snk["video"] = "off"
        /\ \/ play' = "setup" /\ attached' = {"video"}
           \/ play' = "done" /\ attached' = attached
    BY <1>1, <1>8 DEF Connect, NoThread, Started, Startup, Unstarted
  <2>2. shown["video"] = 0
    BY <1>1, <1>6, <2>1
  <2>3. Fetching' /\ Started' /\ AllShown'
    BY <1>1, <1>2, <2>1, <2>2 DEF Fetching, Started, AllShown, flags
  <2> QED BY <1>5, <1>7, <2>1, <2>3 DEF FileInv, NullLast
<1>9. CASE StartThreads
  <2>1. /\ UNCHANGED <<attached, snk>> /\ rd = "off" /\ dec["video"] = "off" /\ fil["video"] = "off"
        /\ play = "setup" /\ play' = "display" /\ rd' = "top"
        /\ dec'["video"] = "pop" /\ fil'["video"] = "pop"
    BY <1>1, <1>9 DEF StartThreads, Startup, Unstarted, Streams
  <2>2. /\ ~Sent /\ ~Sent' /\ ~DecEnd /\ ~DecEnd' /\ ~DecGone /\ ~DecGone'
    BY <2>1 DEF Sent, DecEnd, DecGone
  <2>3. /\ ~HasNull(pkts["video"]) /\ ~HasNull(dout["video"]) /\ ~HasNull(decoded["video"])
        /\ ~HasNull(fout["video"]) /\ ~HasNull(filtered["video"]) /\ ~SnkEnd
        /\ snk["video"] # "check" => shand["video"] = Null
    BY <1>1, <2>1, <2>2 DEF NullLast, PktsLast, DoutLast, DecodedLast, FilLast, FilEnd, FilteredLast, SnkLast
  <2>4. NullLast'
    <3>1. PktsLast' /\ DecLast' /\ DoutLast' /\ DecodedLast'
      BY <1>1, <1>2, <2>2, <2>3 DEF NullLast, PktsLast, DecLast, DoutLast, DecodedLast, HasNull, Tidy
    <3>2. FilLast' /\ FilteredLast' /\ SnkLast'
      BY <1>1, <1>2, <2>1, <2>3 DEF NullLast, FilLast, FilEnd, FilteredLast, SnkLast, SnkEnd, HasNull, Tidy
    <3> QED BY <3>1, <3>2 DEF NullLast
  <2>5. Carried("video")' = Carried("video")
    <3>1. /\ InSink("video")' = InSink("video") /\ InDec("video")' = InDec("video")
          /\ InReader("video")' = InReader("video")
      BY <1>2, <2>1 DEF InSink, InDec, InReader
    <3> QED BY <1>2, <3>1 DEF Carried
  <2>6. Covered' /\ Fetching' /\ Started' /\ AllShown'
    BY <1>1, <1>2, <2>1, <2>5 DEF Covered, Fetching, Ending, Started, AllShown, flags
  <2> QED BY <1>5, <2>4, <2>6 DEF FileInv
<1>10. CASE OpenAudio \/ StartDisplay
  <2>1. /\ UNCHANGED <<attached, rd, dec, fil>> /\ play \in {"audio", "display"}
        /\ play' \in {"display", "join"}
        /\ \/ snk'["video"] = snk["video"] /\ play' = "display"
           \/ snk'["video"] = "top" /\ snk["video"] = "off"
    BY <1>1, <1>10 DEF OpenAudio, StartDisplay, Startup, FileBase, TypeInv, TypeOK, TypeSinks, Streams
  <2>2. SnkLast'
    <3>1. CASE snk'["video"] = snk["video"]
      BY <1>7, <2>1, <3>1
    <3>2. CASE snk'["video"] = "top" /\ snk["video"] = "off"
      BY <1>1, <1>2, <3>2 DEF NullLast, SnkLast, SnkEnd
    <3> QED BY <2>1, <3>1, <3>2
  <2>3. Fetching' /\ Started' /\ AllShown'
    BY <1>1, <1>2, <2>1 DEF Fetching, Ending, Started, AllShown, flags
  <2> QED BY <1>5, <1>7, <2>1, <2>2, <2>3 DEF FileInv, NullLast
<1>11. CASE Join
  <2>1. /\ UNCHANGED <<attached, rd, dec, fil>> /\ play = "join" /\ play' = "done"
        /\ rd = "done" /\ dec["video"] = "done" /\ fil["video"] = "done"
        /\ snk["video"] = "done" /\ snk'["video"] = "done"
    BY <1>1, <1>11 DEF Join, Joined, Started, Streams
  <2>2. /\ filtered["video"] = <<>> /\ shand["video"] = Null
        /\ fout["video"] = <<>> /\ decoded["video"] = <<>>
    BY <1>1, <2>1 DEF NullLast, SnkLast, SnkEnd, FilLast, FilEnd
  <2>3. dout["video"] = <<>> /\ held["video"] = <<>> /\ pkts["video"] = <<>>
    BY <1>1, <2>1 DEF NullLast, DecLast, DecEnd, InOrderOf, NoOutput
  <2>4. InSink("video") = {} /\ InDec("video") = {} /\ InReader("video") = {}
    BY <2>1, <2>2, PlayerAssumption DEF InSink, InDec, InReader
  <2>5. Carried("video") = {}
    BY <2>2, <2>3, <2>4, NumsNone DEF Carried
  <2>6. shown["video"] = nread
    <3>1. ~(shown["video"] < nread)
      BY <1>1, <2>5 DEF Covered
    <3> QED BY <1>1, <1>6, <3>1
  <2>7. Fetching' /\ Started' /\ AllShown'
    BY <1>1, <1>2, <2>1, <2>6 DEF Fetching, Ending, Started, AllShown, flags
  <2> QED BY <1>5, <1>7, <2>1, <2>7 DEF FileInv, NullLast
<1> QED BY <1>3, <1>8, <1>9, <1>10, <1>11 DEF Play

(* The other steps that can be taken leave the stream alone.               *)
FileView == <<View("video"), fil["video"], snk["video"], play, attached, closed, terminated, term>>

LEMMA FileOthers ==
  ASSUME FileInv, UNCHANGED FileView
  PROVE  FileInv'
<1>1. /\ Covered' /\ Untouched' /\ Fetching' /\ NoFlush'
  BY DEF FileInv, FileView, View, Covered, Carried, InSink, InDec, InReader, Untouched, Fetching, NoFlush
<1>2. PktsLast' /\ DecLast' /\ DoutLast' /\ DecodedLast'
  BY DEF FileInv, FileView, View, NullLast, PktsLast, DecLast, DoutLast, DecodedLast, DecEnd, DecGone, Sent,
     HasNull, Tidy
<1>3. FilLast' /\ FilteredLast' /\ SnkLast'
  BY DEF FileInv, FileView, View, NullLast, FilLast, FilteredLast, SnkLast, FilEnd, SnkEnd, DecGone,
     HasNull, Tidy
<1>4. Started' /\ AllShown'
  BY DEF FileInv, FileView, View, Started, AllShown
<1> QED BY <1>1, <1>2, <1>3, <1>4 DEF FileInv, NullLast

LEMMA FileStep ==
  ASSUME FileBase, [Next]_vars, nseek' = nseek
  PROVE  FileInv' /\ shown'["video"] \in {shown["video"], shown["video"] + 1}
<1>1. FileInv /\ Untouched /\ Quiet /\ WholeFile /\ TypeQueues /\ TypeDecoders /\ TypeFilters /\ TypeSinks
      /\ nseek \in Nat
  BY PlayerAssumption DEF FileBase, FileInv, TypeInv, TypeOK, TypePlay
<1>2. ASSUME UNCHANGED FileView
      PROVE  FileInv' /\ shown'["video"] \in {shown["video"], shown["video"] + 1}
  BY <1>1, <1>2, FileOthers DEF FileView, View
<1>3. ~\E c \in Callers : Terminate(c)
  BY <1>1 DEF Terminate, TermQueue, TermPush, TermDetach, TermFlags, TermOrphan, Untouched, Callers
<1>4. ~\E c \in {"reader", "gui"} : ClearQueues(c)
  BY <1>1 DEF ClearQueues, ClearPkts, ClearFrames, ClearFlush, ClearOutputs, Quiet
<1>5. CASE Play \/ Reader \/ Decoder("video") \/ Filter("video")
  <2>1. FileInv'
    BY <1>5, FilePlay, FileReader, FileDecoder, FileFilter
  <2>2. shown' = shown
    BY <1>5 DEF Play, Connect, StartThreads, OpenAudio, PlayThrow, PlayCaught, StartDisplay, Join, PlayRest,
       Reader, ReadTop, ReadSeek, ReadPacket, ReadSeekDone, ReadDeref, ReadPush, ReadEOF,
       ReadEndMarker, ReadError, ReadErrorDone, ReaderRest,
       Decoder, DecPop, DecTerminated, DecFlush, DecSkip, DecDecode, DecEmit, DecPass, DecRest,
       Filter, FilPop, FilTerminated, FilFrame, FilPush, FilRest, snkVars
  <2> QED BY <2>1, <2>2
<1>6. CASE Sink("video")
  BY <1>6, FileSink
<1>7. CASE Writer \/ User \/ Seeking \/ UNCHANGED vars
  <2>1. /\ ~Stop /\ ~SeekSet
    BY <1>1 DEF Stop, SeekSet, WholeFile
  <2>2. UNCHANGED <<decVars, filVars, snkVars, filtered, decoded, readerVars, play, attached, closed,
                    terminated, term>>
    BY <1>7, <2>1 DEF Writer, User, SeekCheck, TogglePaused, Seeking, SeekOneShot, SeekOrphan,
       GuiRest, queues, flags, callVars, vars
  <2>3. pkts'["video"] = pkts["video"]
    <3>1. UNCHANGED pkts \/ pkts' = [pkts EXCEPT !["writer"] = Tail(@)]
      BY <1>7, <2>1 DEF Writer, User, SeekCheck, TogglePaused, Seeking, SeekOneShot, SeekOrphan,
         GuiRest, queues, vars
    <3> QED BY <1>1, <3>1 DEF TypeQueues, Outs, Streams
  <2>4. UNCHANGED FileView
    BY <2>2, <2>3 DEF FileView, View, decVars, filVars, snkVars, readerVars
  <2> QED BY <1>2, <2>4
<1>8. CASE Decoder("audio") \/ Filter("audio") \/ Sink("audio")
  <2>1. UNCHANGED <<rd, rhand, nread, play, attached, closed, terminated, term>>
    BY <1>8 DEF Decoder, DecPop, DecTerminated, DecFlush, DecSkip, DecDecode, DecEmit, DecPass, DecRest,
       Filter, FilPop, FilTerminated, FilFrame, FilPush, FilRest,
       Sink, SnkTop, AudioFetch, SnkPop, SnkFrame, SnkRest, flags, readerVars, callVars
  <2>2. CASE Decoder("audio")
    <3>1. /\ UNCHANGED <<filVars, snkVars, filtered>>
          /\ dec'["video"] = dec["video"] /\ dhand'["video"] = dhand["video"]
          /\ dout'["video"] = dout["video"] /\ held'["video"] = held["video"]
          /\ decoded'["video"] = decoded["video"] /\ pkts'["video"] = pkts["video"]
      BY <1>1, <2>2 DEF Decoder, DecPop, DecTerminated, DecFlush, DecSkip, DecDecode, DecEmit,
         DecPass, DecRest, PushPkt, TypeDecoders, TypeQueues, Outs, Streams
    <3>2. UNCHANGED FileView
      BY <2>1, <3>1 DEF FileView, View, filVars, snkVars
    <3> QED BY <1>2, <3>2
  <2>3. CASE Filter("audio")
    <3>1. /\ UNCHANGED <<decVars, snkVars, pkts>> /\ fil'["video"] = fil["video"]
          /\ fout'["video"] = fout["video"] /\ decoded'["video"] = decoded["video"]
          /\ filtered'["video"] = filtered["video"]
      BY <1>1, <2>3 DEF Filter, FilPop, FilTerminated, FilFrame, FilPush, FilRest, TypeFilters,
         TypeQueues, Streams
    <3>2. UNCHANGED FileView
      BY <2>1, <3>1 DEF FileView, View, decVars, snkVars
    <3> QED BY <1>2, <3>2
  <2>4. CASE Sink("audio")
    <3>1. UNCHANGED <<decVars, filVars, decoded>>
      BY <2>4 DEF Sink, SnkTop, AudioFetch, SnkPop, SnkFrame, SnkRest
    <3>2. /\ snk'["video"] = snk["video"] /\ shand'["video"] = shand["video"]
          /\ shown'["video"] = shown["video"] /\ filtered'["video"] = filtered["video"]
          /\ pkts'["video"] = pkts["video"]
      <4>1. CASE AudioFetch
        BY <1>1, <4>1 DEF AudioFetch, TypeQueues, TypeSinks, Outs, Streams
      <4>2. CASE SnkTop("audio") \/ SnkPop("audio")
        BY <1>1, <4>2 DEF SnkTop, SnkPop, TypeQueues, TypeSinks, Outs, Streams
      <4>3. CASE SnkFrame("audio")
        BY <1>1, <4>3 DEF SnkFrame, TypeQueues, TypeSinks, Outs, Streams
      <4> QED BY <2>4, <4>1, <4>2, <4>3 DEF Sink
    <3>3. UNCHANGED FileView
      BY <2>1, <3>1, <3>2 DEF FileView, View, decVars, filVars
    <3> QED BY <1>2, <3>3
  <2> QED BY <1>8, <2>2, <2>3, <2>4
<1>9. \A m \in Streams : m = "video" \/ m = "audio"
  BY DEF Streams
<1> QED BY <1>3, <1>4, <1>5, <1>6, <1>7, <1>8, <1>9 DEF Next, Ended

-----------------------------------------------------------------------------
WholeInv == FedInv /\ DecInv /\ OrderInv /\ WholeFile /\ (nseek = 0 => FileInv)

LEMMA WholeInit == Init /\ WholeFile => WholeInv
<1> SUFFICES ASSUME Init, WholeFile PROVE WholeInv
  OBVIOUS
<1>1. FedInv /\ OrderInv /\ DecInv
  BY FedInit, OrderInit, DecInit
<1>2. /\ nread = 0 /\ rd = "off" /\ play = "connect" /\ ~closed /\ ~terminated
      /\ snk["video"] = "off" /\ dec["video"] = "off" /\ fil["video"] = "off"
      /\ pkts["video"] = <<>> /\ dout["video"] = <<>> /\ decoded["video"] = <<>>
      /\ fout["video"] = <<>> /\ filtered["video"] = <<>> /\ shand["video"] = Null
      /\ dhand["video"] = Null /\ shown["video"] = 0
  BY DEF Init, Streams, Outs
<1>3. Covered /\ NoFlush
  BY <1>2, PlayerAssumption, EmptySeq DEF Covered, NoFlush
<1>4. Untouched /\ Fetching /\ Started /\ AllShown
  BY <1>2 DEF Init, Idle, Untouched, Fetching, Started, AllShown
<1>5. NullLast
  BY <1>2, TidyNone DEF NullLast, PktsLast, DecLast, DoutLast, DecodedLast, FilLast, FilteredLast, SnkLast,
     DecEnd, DecGone, FilEnd, SnkEnd
<1> QED BY <1>1, <1>3, <1>4, <1>5 DEF WholeInv, FileInv

LEMMA WholeStep ==
  ASSUME WholeInv, [Next]_vars
  PROVE  /\ WholeInv'
         /\ nseek = 0 /\ nseek' = 0 => shown'["video"] \in {shown["video"], shown["video"] + 1}
<1>1. FedInv' /\ DecInv' /\ TypeInv /\ Startup /\ Unstarted /\ TypeInv'
  BY FedStep, DecStep DEF WholeInv, FedInv, DecInv, Unused
<1>2. OrderInv'
  BY <1>1, OrderStep DEF WholeInv
<1>3. WholeFile'
  BY OptsKept DEF WholeInv, WholeFile, Media, Live
<1>4. ASSUME nseek' = 0
      PROVE  FileInv' /\ shown'["video"] \in {shown["video"], shown["video"] + 1}
  <2>1. nseek = 0
    BY <1>1, <1>4, SeekCounts
  <2>2. FileBase
    BY <1>1, <2>1 DEF FileBase, WholeInv, FedInv
  <2> QED BY <1>4, <2>1, <2>2, FileStep
<1> QED BY <1>1, <1>2, <1>3, <1>4 DEF WholeInv

(* The frames of a file are rendered in the order they were read and,      *)
(* until the first seek, without a gap: display(), filter and decoder hand *)
(* on every frame, and pausing loses none.                                 *)
THEOREM NothingSkipped == Spec /\ WholeFile => InOrder
<1> DEFINE Step == /\ \A m \in Streams : shown'[m] >= shown[m]
                   /\ nseek = 0 => shown["video"]' \in {shown["video"], shown["video"] + 1}
<1>1. WholeInv /\ [Next]_vars => WholeInv'
  BY WholeStep
<1>2. WholeInv /\ [Next]_vars => [Step]_vars
  <2> SUFFICES ASSUME WholeInv, [Next]_vars PROVE [Step]_vars
    OBVIOUS
  <2>1. \A m \in Streams : shown'[m] >= shown[m]
    BY OrderStep DEF WholeInv, FedInv
  <2>2. ASSUME nseek = 0
        PROVE  shown["video"]' \in {shown["video"], shown["video"] + 1}
    <3>1. CASE nseek' = 0
      BY <2>2, <3>1, WholeStep
    <3>2. CASE nseek' # 0
      <4>1. shown["video"] \in {shown["video"], shown["video"] + 1}
        OBVIOUS
      <4> QED BY <2>2, <3>2, <4>1, OnlySinksShow
    <3> QED BY <3>1, <3>2
  <2> QED BY <2>1, <2>2
<1> QED BY WholeInit, <1>1, <1>2, PTL DEF Spec, InOrder

(* When play() of a file returns and no seek was made, the last packet of  *)
(* the file has been rendered, whenever and however long it was paused.    *)
THEOREM PlayedToTheEnd == Spec /\ WholeFile => []PlayedOut
<1>1. WholeInv /\ [Next]_vars => WholeInv'
  BY WholeStep
<1>2. WholeInv => PlayedOut
  BY DEF WholeInv, FileInv, AllShown, PlayedOut
<1> QED BY WholeInit, <1>1, <1>2, PTL DEF Spec

-----------------------------------------------------------------------------
(* Seeking.  Around av_seek_frame the reader clears the queues twice and   *)
(* leaves a flush packet; packets up to cut were read before it.  A stop,  *)
(* and an audio device that cannot be opened, make another thread clear    *)
(* the queues while the reader goes on.                                    *)
Unstopped == "stop" \notin opts.user /\ "audio" \notin opts.fails

UpTo(S, k)   == \A x \in S : x <= k
After(S, k)  == \A x \in S : k < x
Splits(q, k) == \E i \in 1..Len(q) :
                  /\ q[i] = Flush
                  /\ \A j \in 1..(i - 1) : q[j] \in Nat => q[j] <= k
                  /\ \A j \in (i + 1)..Len(q) : q[j] \in Nat => k < q[j]

(* The codec, the decoder's hand and the queue before it: all is from one  *)
(* side of the cut, or the flush packet is between the two sides, or the   *)
(* reader has still to push it, or nothing is decoded any more.            *)
InCodec(m)     == Nums(dout[m]) \cup Nums(held[m])
AllAfter(m)    == After(InCodec(m), cut) /\ After(InDec(m), cut) /\ After(Nums(pkts[m]), cut)
FlushInHand(m) == /\ dec[m] = "check" /\ dhand[m] = Flush
                  /\ UpTo(InCodec(m), cut) /\ After(Nums(pkts[m]), cut)
FlushComing(m) == UpTo(InCodec(m), cut) /\ UpTo(InDec(m), cut) /\ Splits(pkts[m], cut)
Unflushed(m)   == \/ rd \in {"clear1", "seekreading", "error"} \cup Ending
                  \/ rd = "clear2" /\ clr["reader"].at = "pkts"
                  \/ rd = "clear2" /\ clr["reader"].at # "idle" /\ m \in clr["reader"].todo
FlushDue(m)    == /\ Unflushed(m) /\ UpTo(InCodec(m), cut) /\ UpTo(InDec(m), cut)
                  /\ UpTo(Nums(pkts[m]), cut)
DecodesNoMore(m) == /\ terminated /\ UpTo(InCodec(m), cut)
                    /\ dec[m] = "done" \/ (dec[m] = "emit" /\ dhand[m] = Null)
FlushInv(m)    == \/ AllAfter(m) \/ FlushInHand(m) \/ FlushComing(m) \/ FlushDue(m)
                  \/ DecodesNoMore(m)

(* Who clears and closes, when the user neither stops nor pauses.          *)
SeekFlags ==
  /\ cut <= nread /\ (rd = "off" => cut = 0)
  /\ closed => \/ rd \in Ending \cup {"error"}
               \/ rd = "off" /\ play \notin {"connect", "setup"}
  /\ stop = "no" /\ (term["play"].at # "idle" => rd = "off")
  /\ clr["reader"].at # "idle" => rd \in {"clear1", "clear2"}
  /\ clr["gui"].at = "idle" /\ ~paused /\ gui # "clear"
  /\ \A m \in Streams : After(InReader(m), cut)

(* A decoder that is not started holds nothing.                            *)
Absent(m) == m \notin Media => dec[m] = "off" /\ dout[m] = <<>> /\ held[m] = <<>>

SeekBase == /\ TypeInv /\ Startup /\ Unused /\ OrderInv /\ Unstopped /\ ~Live
            /\ SeekFlags

LEMMA SplitsPop ==
  ASSUME NEW S, NEW q \in Seq(S), q # <<>>, NEW k, Splits(q, k)
  PROVE  \/ Head(q) = Flush /\ After(Nums(Tail(q)), k)
         \/ (Head(q) \in Nat => Head(q) <= k) /\ Splits(Tail(q), k)
<1> DEFINE p == Tail(q)
<1>1. /\ Len(q) \in Nat /\ Len(q) >= 1 /\ Len(p) = Len(q) - 1 /\ Head(q) = q[1]
      /\ \A i \in 1..Len(p) : p[i] = q[i + 1]
  BY HeadTailProperties, LenProperties, EmptySeq
<1> HIDE DEF p
<1>2. PICK i \in 1..Len(q) : /\ q[i] = Flush
                             /\ \A j \in 1..(i - 1) : q[j] \in Nat => q[j] <= k
                             /\ \A j \in (i + 1)..Len(q) : q[j] \in Nat => k < q[j]
  BY DEF Splits
<1>3. CASE i = 1
  <2>1. ASSUME NEW x \in Nums(p) PROVE k < x
    <3>1. PICK j \in 1..Len(p) : p[j] = x /\ x \in Nat
      BY DEF Nums
    <3>2. j + 1 \in (i + 1)..Len(q) /\ q[j + 1] = x
      BY <1>1, <1>3, <3>1
    <3> QED BY <1>2, <3>1, <3>2
  <2> QED BY <1>1, <1>2, <1>3, <2>1 DEF After, p
<1>4. CASE i # 1
  <2>1. Head(q) \in Nat => Head(q) <= k
    <3>1. 1 \in 1..(i - 1)
      BY <1>4
    <3> QED BY <1>1, <1>2, <3>1
  <2>2. i - 1 \in 1..Len(p) /\ p[i - 1] = Flush
    BY <1>1, <1>2, <1>4
  <2>3. ASSUME NEW j \in 1..(i - 1 - 1), p[j] \in Nat PROVE p[j] <= k
    <3>1. j + 1 \in 1..(i - 1) /\ p[j] = q[j + 1]
      BY <1>1
    <3> QED BY <1>2, <2>3, <3>1
  <2>4. ASSUME NEW j \in (i - 1 + 1)..Len(p), p[j] \in Nat PROVE k < p[j]
    <3>1. j + 1 \in (i + 1)..Len(q) /\ p[j] = q[j + 1]
      BY <1>1
    <3> QED BY <1>2, <2>4, <3>1
  <2>5. Splits(p, k)
    BY <2>2, <2>3, <2>4 DEF Splits
  <2> QED BY <2>1, <2>5 DEF p
<1> QED BY <1>3, <1>4

LEMMA SplitsPush ==
  ASSUME NEW S, NEW q \in Seq(S), NEW e \in S, NEW k
  PROVE  /\ Splits(q, k) /\ (e \in Nat => k < e) => Splits(Push(q, e), k)
         /\ UpTo(Nums(q), k) /\ e = Flush => Splits(Push(q, e), k)
<1> DEFINE p == Push(q, e)
<1>1. /\ Len(q) \in Nat /\ Len(p) = Len(q) + 1 /\ p[Len(q) + 1] = e
      /\ \A i \in 1..Len(q) : p[i] = q[i]
  BY AppendProperties, LenProperties DEF Push
<1> HIDE DEF p
<1>2. ASSUME Splits(q, k), e \in Nat => k < e PROVE Splits(p, k)
  <2>1. PICK i \in 1..Len(q) : /\ q[i] = Flush
                               /\ \A j \in 1..(i - 1) : q[j] \in Nat => q[j] <= k
                               /\ \A j \in (i + 1)..Len(q) : q[j] \in Nat => k < q[j]
    BY <1>2 DEF Splits
  <2>2. i \in 1..Len(p) /\ p[i] = Flush
    BY <1>1, <2>1
  <2>3. ASSUME NEW j \in 1..(i - 1), p[j] \in Nat PROVE p[j] <= k
    <3>1. j \in 1..Len(q)
      BY <1>1
    <3> QED BY <1>1, <2>1, <2>3, <3>1
  <2>4. ASSUME NEW j \in (i + 1)..Len(p), p[j] \in Nat PROVE k < p[j]
    <3>1. CASE j = Len(q) + 1
      BY <1>1, <1>2, <2>4, <3>1
    <3>2. CASE j # Len(q) + 1
      <4>1. j \in (i + 1)..Len(q) /\ j \in 1..Len(q)
        BY <1>1, <3>2
      <4> QED BY <1>1, <2>1, <2>4, <4>1
    <3> QED BY <3>1, <3>2
  <2> QED BY <2>2, <2>3, <2>4 DEF Splits
<1>3. ASSUME UpTo(Nums(q), k), e = Flush PROVE Splits(p, k)
  <2> DEFINE i == Len(q) + 1
  <2>1. i \in 1..Len(p) /\ p[i] = Flush /\ (i + 1)..Len(p) = {}
    BY <1>1, <1>3
  <2>2. ASSUME NEW j \in 1..(i - 1), p[j] \in Nat PROVE p[j] <= k
    <3>1. j \in 1..Len(q) /\ p[j] = q[j]
      BY <1>1
    <3>2. p[j] \in Nums(q)
      BY <2>2, <3>1 DEF Nums
    <3> QED BY <1>3, <3>2 DEF UpTo
  <2> QED BY <2>1, <2>2 DEF Splits
<1> QED BY <1>2, <1>3 DEF p

(* Before the first av_seek_frame all is after the cut.                    *)
LEMMA NumsIn ==
  ASSUME NEW S, NEW q \in Seq(S)
  PROVE  Nums(q) \subseteq S
<1> SUFFICES ASSUME NEW n \in Nums(q) PROVE n \in S
  OBVIOUS
<1>1. PICK i \in 1..Len(q) : q[i] = n
  BY DEF Nums
<1> QED BY <1>1, ElementOfSeq

LEMMA InNat ==
  ASSUME TypeInv, NEW m \in Streams
  PROVE  /\ InCodec(m) \subseteq Pkt /\ InDec(m) \subseteq Pkt /\ Nums(pkts[m]) \subseteq Pkt
         /\ Pkt \subseteq Nat /\ Null \notin Nat /\ Flush \notin Nat /\ Null # Flush
<1>1. /\ dout[m] \in Seq(Frames) /\ held[m] \in Seq(Pkt) /\ pkts[m] \in Seq(Packets)
      /\ dhand[m] \in Packets /\ Null \notin Nat /\ Flush \notin Nat /\ Pkt \subseteq Nat
  BY PlayerAssumption DEF TypeInv, TypeOK, TypeQueues, TypeDecoders, Outs, Streams, Pkt
<1>2. Nums(dout[m]) \subseteq Frames /\ Nums(held[m]) \subseteq Pkt /\ Nums(pkts[m]) \subseteq Packets
  BY <1>1, NumsIn
<1>3. \A q : Nums(q) \subseteq Nat
  BY DEF Nums
<1>4. Nums(dout[m]) \subseteq Pkt /\ Nums(pkts[m]) \subseteq Pkt
  BY <1>1, <1>2, <1>3 DEF Frames, Packets
<1>5. InDec(m) \subseteq Pkt
  BY <1>1 DEF InDec, Packets
<1> QED BY <1>1, <1>2, <1>4, <1>5, PlayerAssumption DEF InCodec

LEMMA FlushZero ==
  ASSUME TypeInv, NEW m \in Streams, cut = 0
  PROVE  AllAfter(m)
<1>1. \A S : S \subseteq Pkt => After(S, cut)
  BY DEF After, Pkt
<1> QED BY <1>1, InNat DEF AllAfter

(* Steps that only take packets out of the codec and its queue.            *)
LEMMA FlushKept ==
  ASSUME NEW m, FlushInv(m), cut' = cut, Unflushed(m) => Unflushed(m)',
         InCodec(m)' \subseteq InCodec(m), InDec(m)' \subseteq InDec(m),
         Nums(pkts'[m]) \subseteq Nums(pkts[m]),
         FlushInHand(m) => dec'[m] = dec[m] /\ dhand'[m] = dhand[m],
         Splits(pkts[m], cut) => Splits(pkts'[m], cut) \/ (Unflushed(m)' /\ Nums(pkts'[m]) = {}),
         DecodesNoMore(m) => DecodesNoMore(m)'
  PROVE  FlushInv(m)'
<1>1. AllAfter(m) => AllAfter(m)'
  BY DEF AllAfter, After
<1>2. FlushInHand(m) => FlushInHand(m)'
  BY DEF FlushInHand, After, UpTo
<1>3. FlushComing(m) => FlushComing(m)' \/ FlushDue(m)'
  BY DEF FlushComing, FlushDue, UpTo
<1>4. FlushDue(m) => FlushDue(m)'
  BY DEF FlushDue, UpTo
<1> QED BY <1>1, <1>2, <1>3, <1>4 DEF FlushInv

LEMMA FlushDecoder ==
  ASSUME SeekBase, NEW m \in Streams, FlushInv(m), Decoder(m)
  PROVE  FlushInv(m)'
<1>1. /\ UNCHANGED <<rd, cut, clr, terminated>> /\ ~Live /\ (dec[m] # "emit" => dout[m] = <<>>)
      /\ dout[m] \in Seq(Frames) /\ held[m] \in Seq(Pkt) /\ pkts[m] \in Seq(Packets)
      /\ dec \in [Streams -> {"off", "pop", "check", "emit", "done"}]
      /\ dhand \in [Streams -> Packets] /\ dout \in [Streams -> Seq(Frames)]
      /\ held \in [Streams -> Seq(Pkt)] /\ pkts \in [Outs -> Seq(Packets)] /\ m \in Outs
  <2>1. UNCHANGED <<rd, cut, clr, terminated>>
    BY DEF Decoder, DecPop, DecTerminated, DecFlush, DecSkip, DecDecode, DecEmit, DecPass, DecRest,
       flags, readerVars, callVars
  <2>2. TypeQueues /\ TypeDecoders /\ NoOutput(m) /\ ~Live
    BY DEF SeekBase, TypeInv, TypeOK, OrderInv, InOrderOf
  <2> QED BY <2>1, <2>2 DEF TypeQueues, TypeDecoders, NoOutput, Outs, Streams
<1>2. Null \notin Nat /\ Flush \notin Nat /\ Null # Flush /\ Pkt \subseteq Nat
  BY PlayerAssumption DEF Pkt
<1>3. Unflushed(m)' = Unflushed(m)
  BY <1>1 DEF Unflushed
<1>4. CASE DecPop(m)
  <2>1. /\ UNCHANGED <<dout, held>> /\ pkts[m] # <<>> /\ dec[m] = "pop" /\ dec'[m] = "check"
        /\ dhand'[m] = Head(pkts[m]) /\ pkts'[m] = Tail(pkts[m])
    BY <1>1, <1>4 DEF DecPop
  <2>2. Nums(pkts[m]) = Nums(pkts'[m]) \cup ({Head(pkts[m])} \cap Nat)
    BY <1>1, <2>1, NumsPop
  <2>3. InDec(m)' = {Head(pkts[m])} \cap Nat /\ InCodec(m)' = InCodec(m)
    BY <2>1 DEF InDec, InCodec
  <2>4. AllAfter(m) => AllAfter(m)'
    BY <1>1, <2>2, <2>3 DEF AllAfter, After
  <2>5. FlushDue(m) => FlushDue(m)'
    BY <1>1, <1>3, <2>2, <2>3 DEF FlushDue, UpTo
  <2>6. ASSUME FlushComing(m) PROVE FlushInv(m)'
    <3>1. CASE Head(pkts[m]) = Flush /\ After(Nums(Tail(pkts[m])), cut)
      BY <1>1, <2>1, <2>3, <2>6, <3>1 DEF FlushComing, FlushInHand, FlushInv
    <3>2. CASE (Head(pkts[m]) \in Nat => Head(pkts[m]) <= cut) /\ Splits(Tail(pkts[m]), cut)
      <4>1. UpTo(InDec(m)', cut)
        BY <2>3, <3>2 DEF UpTo
      <4> QED BY <1>1, <2>1, <2>3, <2>6, <3>2, <4>1 DEF FlushComing, FlushInv
    <3> QED BY <1>1, <2>1, <2>6, <3>1, <3>2, SplitsPop DEF FlushComing
  <2> QED BY <2>1, <2>4, <2>5, <2>6 DEF FlushInv, FlushInHand, DecodesNoMore
<1>5. CASE DecTerminated(m)
  <2>1. /\ UNCHANGED <<pkts, held>> /\ dout'[m] = <<Null>> /\ dhand'[m] = Null
        /\ dec[m] = "check" /\ dec'[m] = "emit" /\ terminated
    BY <1>1, <1>5 DEF DecTerminated
  <2>2. InDec(m)' = {} /\ InCodec(m)' \subseteq InCodec(m)
    <3>1. Nums(<<Null>>) = {}
      BY <1>2, NumsOne
    <3> QED BY <2>1, <3>1 DEF InDec, InCodec
  <2>3. FlushInHand(m) => DecodesNoMore(m)'
    BY <1>1, <2>1, <2>2 DEF FlushInHand, DecodesNoMore, UpTo
  <2>4. CASE ~FlushInHand(m)
    BY <1>1, <1>3, <2>1, <2>2, <2>4, FlushKept DEF DecodesNoMore
  <2> QED BY <2>3, <2>4 DEF FlushInv
<1>6. CASE DecFlush(m)
  <2>1. /\ UNCHANGED <<pkts, dout>> /\ held'[m] = <<>> /\ dec[m] = "check" /\ dec'[m] = "pop"
        /\ dout[m] = <<>>
    BY <1>1, <1>6 DEF DecFlush, Flushed
  <2>2. InDec(m)' = {} /\ InCodec(m)' = {}
    BY <2>1, NumsNone DEF InDec, InCodec
  <2>3. FlushInHand(m) => AllAfter(m)'
    BY <1>1, <2>1, <2>2 DEF FlushInHand, AllAfter, After
  <2>4. CASE ~FlushInHand(m)
    BY <1>1, <1>3, <2>1, <2>2, <2>4, FlushKept DEF DecodesNoMore
  <2> QED BY <2>3, <2>4 DEF FlushInv
<1>7. CASE DecSkip(m) \/ DecEmit(m) \/ DecPass(m)
  <2>1. pkts'[m] = pkts[m] /\ ~FlushInHand(m)
    BY <1>1, <1>7 DEF DecSkip, DecEmit, DecPass, ToWriter, FlushInHand
  <2>2. InDec(m)' \subseteq InDec(m) /\ InCodec(m)' \subseteq InCodec(m)
    <3>1. CASE DecSkip(m) \/ DecPass(m)
      BY <1>1, <3>1 DEF DecSkip, DecPass, InDec, InCodec
    <3>2. CASE DecEmit(m)
      <4>1. dout[m] # <<>> /\ dout'[m] = Tail(dout[m]) /\ dec'[m] = "emit" /\ held' = held
        BY <1>1, <3>2 DEF DecEmit
      <4>2. Nums(dout'[m]) \subseteq Nums(dout[m])
        BY <1>1, <4>1, NumsPop
      <4> QED BY <4>1, <4>2 DEF InDec, InCodec
    <3> QED BY <1>7, <3>1, <3>2
  <2>3. DecodesNoMore(m) => DecodesNoMore(m)'
    <3>1. UpTo(InCodec(m), cut) => UpTo(InCodec(m)', cut)
      BY <2>2 DEF UpTo
    <3> QED BY <1>1, <1>7, <3>1 DEF DecodesNoMore, DecSkip, DecEmit, DecPass
  <2> QED BY <1>1, <1>3, <2>1, <2>2, <2>3, FlushKept
<1>8. CASE DecDecode(m)
  <2>1. pkts' = pkts /\ dec[m] = "check" /\ dec'[m] = "emit" /\ dhand[m] # Flush /\ dout[m] = <<>>
    BY <1>1, <1>8 DEF DecDecode
  <2>2. InDec(m)' = {} /\ InDec(m) = {dhand[m]} \cap Nat /\ InCodec(m) = Nums(held[m])
    BY <2>1, NumsNone DEF InDec, InCodec
  <2>3. InCodec(m)' \subseteq InCodec(m) \cup InDec(m)
    <3>1. CASE dhand[m] = Null
      <4>1. dout'[m] = Push(held[m], Null) /\ held'[m] = <<>>
        BY <1>1, <1>8, <3>1 DEF DecDecode, Drained, Push
      <4>2. held[m] \in Seq(Frames) /\ Null \in Frames
        BY <1>1, SeqMonotonic DEF Frames
      <4>3. Nums(Push(held[m], Null)) = Nums(held[m]) \cup ({Null} \cap Nat)
        BY <4>2, NumsAdd
      <4> QED BY <1>2, <2>2, <4>1, <4>3, NumsNone DEF InCodec
    <3>2. CASE dhand[m] # Null
      <4> DEFINE all == Push(held[m], dhand[m])
      <4>1. dhand[m] \in Pkt
        BY <1>1, <2>1, <3>2 DEF Packets
      <4>2. PICK n \in 0..Len(all) : /\ dout'[m] = SubSeq(all, 1, n)
                                     /\ held'[m] = SubSeq(all, n + 1, Len(all))
        <5>1. PICK n \in 0..Len(all) : /\ dout' = [dout EXCEPT ![m] = SubSeq(all, 1, n)]
                                       /\ held' = [held EXCEPT ![m] = SubSeq(all, n + 1, Len(all))]
          BY <1>8, <3>2 DEF DecDecode, Push
        <5> QED BY <1>1, <5>1
      <4>3. all \in Seq(Pkt) /\ Len(all) \in Nat
        BY <1>1, <4>1, AppendProperties, LenProperties DEF Push
      <4>4. Nums(all) = Nums(held[m]) \cup ({dhand[m]} \cap Nat)
        BY <1>1, <4>1, NumsAdd
      <4> HIDE DEF all
      <4>5. /\ 1 \in 1..(Len(all) + 1) /\ n \in 0..Len(all) /\ 1 <= n + 1
            /\ n + 1 \in 1..(Len(all) + 1) /\ Len(all) \in 0..Len(all) /\ n + 1 <= Len(all) + 1
        BY <4>3
      <4>6. Thinner(SubSeq(all, 1, n), all) /\ Thinner(SubSeq(all, n + 1, Len(all)), all)
        BY <4>3, <4>5, NumsPart
      <4> QED BY <2>2, <4>2, <4>4, <4>6 DEF InCodec, Thinner
    <3> QED BY <3>1, <3>2
  <2>4. AllAfter(m) => AllAfter(m)'
    BY <1>1, <2>1, <2>2, <2>3 DEF AllAfter, After
  <2>5. FlushComing(m) => FlushComing(m)'
    BY <1>1, <2>1, <2>2, <2>3 DEF FlushComing, UpTo
  <2>6. FlushDue(m) => FlushDue(m)'
    BY <1>1, <1>3, <2>1, <2>2, <2>3 DEF FlushDue, UpTo
  <2> QED BY <2>1, <2>4, <2>5, <2>6 DEF FlushInv, FlushInHand, DecodesNoMore
<1> QED BY <1>4, <1>5, <1>6, <1>7, <1>8 DEF Decoder

LEMMA ReaderFlags ==
  ASSUME SeekBase, Reader
  PROVE  SeekFlags'
<1>1. /\ UNCHANGED <<paused, play, gui, stop>> /\ clr'["gui"] = clr["gui"] /\ rd # "off"
      /\ term'["play"] = term["play"] /\ nread \in Nat /\ cut \in Nat
  <2>1. UNCHANGED <<paused, play, gui, stop>> /\ rd # "off"
    BY DEF Reader, ReadTop, ReadSeek, ReadPacket, ReadSeekDone, ReadDeref, ReadPush, ReadEOF,
       ReadEndMarker, EofNext, ReadError, ReadErrorDone, ReaderRest, guiVars
  <2>2. TypeCalls /\ TypeReader
    BY DEF SeekBase, TypeInv, TypeOK
  <2>3. clr'["gui"] = clr["gui"]
    BY <2>2 DEF Reader, ReadTop, ReadSeek, ReadPacket, ReadSeekDone, ReadDeref, ReadPush, ReadEOF,
       ReadEndMarker, ReadError, ReadErrorDone, StartClear, TypeCalls
  <2>4. term'["play"] = term["play"]
    BY <2>2 DEF Reader, ReadTop, ReadSeek, ReadPacket, ReadSeekDone, ReadDeref, ReadPush, ReadEOF,
       ReadEndMarker, ReadError, ReadErrorDone, StartTerm, TypeCalls, Callers
  <2> QED BY <2>1, <2>2, <2>3, <2>4, PlayerAssumption DEF TypeReader
<1>2. SeekFlags /\ TypeCalls
  BY DEF SeekBase, TypeInv, TypeOK
<1>3. cut' <= nread' /\ rd' # "off"
  <2>1. \/ cut' = cut /\ nread' \in {nread, nread + 1}
        \/ cut' = nread /\ nread' = nread
    BY DEF Reader, ReadTop, ReadSeek, ReadPacket, ReadSeekDone, ReadDeref, ReadPush, ReadEOF,
       ReadEndMarker, ReadError, ReadErrorDone
  <2>2. rd' # "off"
    BY <1>1 DEF Reader, ReadTop, ReadSeek, ReadPacket, ReadSeekDone, Route, ReadDeref, ReadPush, ReadEOF,
       ReadEndMarker, EofNext, ReadError, ReadErrorDone
  <2> QED BY <1>1, <1>2, <2>1, <2>2 DEF SeekFlags
<1>4. closed' => rd' \in Ending \cup {"error"}
  <2>1. CASE closed
    <3>1. rd \in Ending \cup {"error"}
      BY <1>1, <1>2, <2>1 DEF SeekFlags
    <3>2. ReadEndMarker \/ ReadErrorDone
      BY <3>1 DEF Reader, ReadTop, ReadSeek, ReadPacket, ReadSeekDone, ReadDeref, ReadPush, ReadEOF,
         ReadError, Ending
    <3>3. rd' \in {"eof_audio", "eof_writer", "done"}
      BY <3>2 DEF ReadEndMarker, EofNext, ReadErrorDone
    <3> QED BY <3>3 DEF Ending
  <2>2. CASE ~closed
    BY <2>2 DEF Reader, ReadTop, ReadSeek, ReadPacket, ReadSeekDone, ReadDeref, ReadPush, ReadEOF,
       ReadEndMarker, ReadError, ReadErrorDone, Ending
  <2> QED BY <2>1, <2>2
<1>5. clr'["reader"].at # "idle" => rd' \in {"clear1", "clear2"}
  <2>1. CASE clr' = clr
    <3>1. CASE clr["reader"].at = "idle"
      BY <2>1, <3>1
    <3>2. CASE clr["reader"].at # "idle"
      <4>1. rd \in {"clear1", "clear2"}
        BY <1>2, <3>2 DEF SeekFlags
      <4> QED BY <3>2, <4>1 DEF Reader, ReadTop, ReadSeek, ReadPacket, ReadSeekDone, ReadDeref, ReadPush,
              ReadEOF, ReadEndMarker, EofNext, ReadError, ReadErrorDone
    <3> QED BY <3>1, <3>2
  <2>2. CASE clr' # clr
    BY <2>2 DEF Reader, ReadTop, ReadSeek, ReadPacket, ReadSeekDone, ReadDeref, ReadPush,
       ReadEOF, ReadEndMarker, ReadError, ReadErrorDone
  <2> QED BY <2>1, <2>2
<1>6. ASSUME NEW m \in Streams PROVE After(InReader(m)', cut')
  <2>1. After(InReader(m), cut)
    BY <1>2 DEF SeekFlags
  <2>2. CASE \E o \in Outs : ReadPacket(o)
    <3>1. rhand'[2] = nread + 1 /\ cut' = cut
      BY <2>2 DEF ReadPacket
    <3>2. InReader(m)' \subseteq {nread + 1}
      BY <3>1 DEF InReader
    <3> QED BY <1>1, <1>2, <3>1, <3>2 DEF After, SeekFlags
  <2>3. CASE ReadSeek
    <3>1. InReader(m)' = {}
      BY <2>3 DEF ReadSeek, InReader
    <3> QED BY <3>1 DEF After
  <2>4. CASE ReadEndMarker
    <3>1. InReader(m)' = {}
      BY <2>4 DEF ReadEndMarker, EofNext, InReader
    <3> QED BY <3>1 DEF After
  <2>5. CASE ReadTop \/ ReadSeekDone \/ ReadDeref \/ ReadPush \/ ReadEOF \/ ReadError \/ ReadErrorDone
    <3>1. InReader(m)' \subseteq InReader(m) /\ cut' = cut
      BY <2>5 DEF ReadTop, ReadSeekDone, ReadDeref, ReadPush, ReadEOF, ReadError, ReadErrorDone,
         Route, InReader
    <3> QED BY <2>1, <3>1 DEF After
  <2> QED BY <2>2, <2>3, <2>4, <2>5 DEF Reader
<1> QED BY <1>1, <1>2, <1>3, <1>4, <1>5, <1>6 DEF SeekFlags

LEMMA FlushReader ==
  ASSUME SeekBase, NEW m \in Streams, FlushInv(m), Reader
  PROVE  FlushInv(m)'
<1>1. /\ UNCHANGED <<decVars, terminated>> /\ Null \notin Nat /\ Null \in Packets
      /\ pkts \in [Outs -> Seq(Packets)] /\ rhand \in Outs \X Frames /\ m \in Outs
      /\ nread \in Nat /\ After(InReader(m), cut)
  <2>1. TypeQueues /\ TypeReader /\ SeekFlags
    BY DEF SeekBase, TypeInv, TypeOK
  <2>2. Null \notin Nat /\ Null \in Packets /\ nread \in Nat
    BY <2>1, PlayerAssumption DEF TypeReader, Packets
  <2> QED BY <2>1, <2>2 DEF Reader, ReadTop, ReadSeek, ReadPacket, ReadSeekDone, ReadDeref, ReadPush,
          ReadEOF, ReadEndMarker, ReadError, ReadErrorDone, ReaderRest, TypeReader, TypeQueues, SeekFlags,
          Outs, Streams
<1>2. /\ InCodec(m)' = InCodec(m) /\ InDec(m)' = InDec(m)
      /\ dec'[m] = dec[m] /\ dhand'[m] = dhand[m] /\ terminated' = terminated
  BY <1>1 DEF InCodec, InDec, decVars
<1>3. ASSUME cut' = cut, pkts'[m] = pkts[m], Unflushed(m) => Unflushed(m)'
      PROVE  FlushInv(m)'
  BY <1>2, <1>3, FlushKept DEF DecodesNoMore
<1>4. CASE ReadTop \/ ReadSeekDone \/ ReadDeref
  <2>1. UNCHANGED <<cut, pkts>> /\ ~Unflushed(m)
    BY <1>4 DEF ReadTop, ReadSeekDone, ReadDeref, Unflushed, Ending
  <2> QED BY <1>3, <2>1
<1>5. CASE ReadSeek
  <2>1. cut' = nread /\ nread' = nread /\ pkts' = pkts /\ rd' = "seekreading"
    BY <1>5 DEF ReadSeek
  <2>2. Ordered(Contents(m)) /\ nread \in Contents(m)[11]
    BY Places DEF SeekBase, OrderInv, InOrderOf
  <2>3. \A i \in 1..10 : UpTo(Contents(m)[i], nread)
    BY <2>2 DEF Ordered, Below, UpTo
  <2>4. /\ UpTo(Contents(m)[6], nread) /\ UpTo(Contents(m)[7], nread)
        /\ UpTo(Contents(m)[8], nread) /\ UpTo(Contents(m)[9], nread)
    BY <2>3
  <2>5. UpTo(InCodec(m), nread) /\ UpTo(InDec(m), nread) /\ UpTo(Nums(pkts[m]), nread)
    BY <2>4, Places DEF UpTo, InCodec
  <2>6. Unflushed(m)'
    BY <2>1 DEF Unflushed
  <2>7. FlushDue(m)'
    BY <1>2, <2>1, <2>5, <2>6 DEF FlushDue
  <2> QED BY <2>7 DEF FlushInv
<1>6. CASE \E o \in Outs : ReadPacket(o)
  <2>1. UNCHANGED <<cut, pkts>> /\ (Unflushed(m) => Unflushed(m)')
    <3>1. CASE rd = "reading"
      BY <1>6, <3>1 DEF ReadPacket, Unflushed, Ending
    <3>2. CASE rd = "seekreading"
      <4>1. rd' = "clear2" /\ clr'["reader"].at = "pkts" /\ UNCHANGED <<cut, pkts>>
        BY <1>6, <3>2 DEF ReadPacket, StartClear, SeekBase, TypeInv, TypeOK, TypeCalls
      <4> QED BY <4>1 DEF Unflushed
    <3> QED BY <1>6, <3>1, <3>2 DEF ReadPacket
  <2> QED BY <1>3, <2>1
<1>7. CASE ReadEOF \/ ReadError \/ ReadErrorDone
  <2>1. UNCHANGED <<cut, pkts>> /\ Unflushed(m)'
    BY <1>7 DEF ReadEOF, ReadError, ReadErrorDone, Unflushed, Ending
  <2> QED BY <1>3, <2>1
<1>8. CASE ReadEndMarker
  <2>1. cut' = cut /\ Unflushed(m)'
    BY <1>8 DEF ReadEndMarker, EofNext, Unflushed, Ending
  <2>2. EofNext[rd][1] \in Outs
    BY <1>8 DEF ReadEndMarker, EofNext, Outs, Streams
  <2>3. pkts' = pkts \/ pkts' = [pkts EXCEPT ![EofNext[rd][1]] = Push(@, Null)]
    BY <1>8 DEF ReadEndMarker, PushPkt
  <2>4. pkts'[m] = pkts[m] \/ pkts'[m] = Push(pkts[m], Null)
    BY <1>1, <2>2, <2>3
  <2>5. Nums(pkts'[m]) \subseteq Nums(pkts[m])
    <3>1. Nums(Push(pkts[m], Null)) = Nums(pkts[m]) \cup ({Null} \cap Nat)
      BY <1>1, NumsAdd
    <3> QED BY <1>1, <2>4, <3>1
  <2>6. Splits(pkts[m], cut) => Splits(pkts'[m], cut)
    BY <1>1, <2>4, SplitsPush
  <2> QED BY <1>2, <2>1, <2>5, <2>6, FlushKept DEF DecodesNoMore
<1>9. CASE ReadPush
  <2> DEFINE o == rhand[1]
  <2>1. /\ rd = "push" /\ cut' = cut /\ ~Unflushed(m) /\ o \in Outs /\ rhand[2] \in Packets
        /\ pkts' = [pkts EXCEPT ![o] = Push(@, rhand[2])]
    BY <1>1, <1>9 DEF ReadPush, PushPkt, Unflushed, Ending, Frames, Packets
  <2>2. CASE o # m
    <3>1. pkts'[m] = pkts[m]
      BY <1>1, <2>1, <2>2
    <3> QED BY <1>3, <2>1, <3>1
  <2>3. CASE o = m
    <3>1. /\ pkts'[m] = Push(pkts[m], rhand[2]) /\ pkts[m] \in Seq(Packets)
          /\ InReader(m) = {rhand[2]} \cap Nat
      BY <1>1, <2>1, <2>3 DEF InReader
    <3>2. Nums(pkts'[m]) = Nums(pkts[m]) \cup InReader(m)
      BY <2>1, <3>1, NumsAdd
    <3>3. rhand[2] \in Nat => cut < rhand[2]
      BY <1>1, <3>1 DEF After
    <3>4. AllAfter(m) => AllAfter(m)'
      BY <1>1, <1>2, <2>1, <3>2 DEF AllAfter, After
    <3>5. FlushInHand(m) => FlushInHand(m)'
      BY <1>1, <1>2, <2>1, <3>2 DEF FlushInHand, After
    <3>6. FlushComing(m) => FlushComing(m)'
      <4>1. Splits(pkts[m], cut) => Splits(Push(pkts[m], rhand[2]), cut)
        BY <2>1, <3>1, <3>3, SplitsPush
      <4> QED BY <1>2, <2>1, <3>1, <4>1 DEF FlushComing
    <3>7. DecodesNoMore(m) => DecodesNoMore(m)'
      BY <1>2, <2>1 DEF DecodesNoMore
    <3> QED BY <2>1, <3>4, <3>5, <3>6, <3>7 DEF FlushInv, FlushDue
  <2> QED BY <2>2, <2>3
<1> QED BY <1>4, <1>5, <1>6, <1>7, <1>8, <1>9 DEF Reader

(* Only the reader clears the queues; only the reader after an error, and  *)
(* play() when no reader was started, terminate.                           *)
LEMMA CallFlags ==
  ASSUME SeekBase,
         \/ \E c \in Callers : Terminate(c)
         \/ \E c \in {"reader", "gui"} : ClearQueues(c)
  PROVE  SeekFlags'
<1>1. /\ UNCHANGED <<readerVars, paused, play, gui, stop>> /\ SeekFlags /\ Unused /\ TypeCalls
  BY DEF SeekBase, TypeInv, TypeOK, Terminate, TermQueue, TermPush, TermDetach, TermFlags, TermOrphan,
     TermRest, ClearQueues, ClearPkts, ClearFrames, ClearFlush, ClearOutputs, ClearRest, flags, guiVars
<1>2. /\ cut' <= nread' /\ (rd' = "off" => cut' = 0) /\ rd' = rd
      /\ \A m \in Streams : After(InReader(m)', cut')
  BY <1>1 DEF SeekFlags, InReader, readerVars
<1>3. CASE \E c \in Callers : Terminate(c)
  <2>1. PICK c \in Callers : Terminate(c)
    BY <1>3
  <2>2. clr' = clr
    BY <2>1 DEF Terminate, TermQueue, TermPush, TermDetach, TermFlags, TermOrphan, TermRest
  <2>3. term[c].at # "idle"
    BY <2>1 DEF Terminate, TermQueue, TermPush, TermDetach, TermFlags, TermOrphan
  <2>4. \/ c = "reader" /\ rd \in {"error", "done"}
        \/ c = "play" /\ rd = "off" /\ play \notin {"connect", "setup"}
    BY <1>1, <2>3 DEF Callers, SeekFlags, Unused
  <2>5. term'["play"].at # "idle" => rd' = "off"
    <3>1. CASE c = "reader"
      <4>1. term'["play"] = term["play"]
        BY <1>1, <2>1, <3>1 DEF Terminate, TermQueue, TermPush, TermDetach, TermFlags, TermOrphan,
           TypeCalls, Callers
      <4> QED BY <1>1, <1>2, <4>1 DEF SeekFlags
    <3> QED BY <1>2, <2>4, <3>1
  <2> QED BY <1>1, <1>2, <2>2, <2>4, <2>5 DEF SeekFlags, Ending
<1>4. CASE \E c \in {"reader", "gui"} : ClearQueues(c)
  <2>1. ClearQueues("reader")
    BY <1>1, <1>4 DEF SeekFlags, ClearQueues, ClearPkts, ClearFrames, ClearFlush, ClearOutputs
  <2>2. UNCHANGED <<closed, term>> /\ clr["reader"].at # "idle" /\ clr'["gui"] = clr["gui"]
    BY <1>1, <2>1 DEF ClearQueues, ClearPkts, ClearFrames, ClearFlush, ClearOutputs, ClearRest, flags,
       TypeCalls
  <2> QED BY <1>1, <1>2, <2>2 DEF SeekFlags
<1> QED BY <1>3, <1>4

LEMMA FlushTerminate ==
  ASSUME SeekBase, NEW m \in Streams, FlushInv(m), NEW c \in Callers, Terminate(c)
  PROVE  FlushInv(m)'
<1>1. /\ UNCHANGED <<decVars, rd, cut, clr>> /\ (terminated => terminated')
      /\ Null \notin Nat /\ Null \in Packets /\ pkts \in [Outs -> Seq(Packets)] /\ m \in Outs
      /\ m # "writer" /\ SeekFlags /\ Unused /\ TypeInv
  <2>1. TypeQueues /\ Null \notin Nat /\ SeekFlags /\ Unused /\ TypeInv
    BY PlayerAssumption DEF SeekBase, TypeInv, TypeOK
  <2>2. UNCHANGED <<decVars, rd, cut, clr>> /\ (terminated => terminated')
    BY DEF Terminate, TermQueue, TermPush, TermDetach, TermFlags, TermOrphan, TermRest, readerVars
  <2> QED BY <2>1, <2>2 DEF TypeQueues, Outs, Streams, Packets
<1>2. term[c].at # "idle"
  BY DEF Terminate, TermQueue, TermPush, TermDetach, TermFlags, TermOrphan
<1>3. rd \in {"error", "done"} \/ cut = 0
  BY <1>1, <1>2 DEF Callers, SeekFlags, Unused
<1>4. /\ InCodec(m)' = InCodec(m) /\ InDec(m)' = InDec(m)
      /\ dec'[m] = dec[m] /\ dhand'[m] = dhand[m]
  BY <1>1 DEF InCodec, InDec, decVars
<1>5. pkts'[m] = pkts[m] \/ pkts'[m] = <<>> \/ pkts'[m] = Push(pkts[m], Null)
  BY <1>1 DEF Terminate, TermQueue, TermPush, TermDetach, TermFlags, TermOrphan, PushPkt
<1>6. Nums(pkts'[m]) \subseteq Nums(pkts[m])
  <2>1. Nums(Push(pkts[m], Null)) = Nums(pkts[m]) \cup ({Null} \cap Nat)
    BY <1>1, NumsAdd
  <2> QED BY <1>1, <1>5, <2>1, NumsNone
<1>7. CASE cut = 0
  BY <1>1, <1>4, <1>6, <1>7, FlushZero DEF FlushInv, AllAfter, After
<1>8. CASE rd \in {"error", "done"}
  <2>1. Unflushed(m)'
    BY <1>1, <1>8 DEF Unflushed, Ending
  <2>2. Splits(pkts[m], cut) => Splits(pkts'[m], cut) \/ Nums(pkts'[m]) = {}
    BY <1>1, <1>5, SplitsPush, NumsNone
  <2> QED BY <1>1, <1>4, <1>6, <2>1, <2>2, FlushKept DEF DecodesNoMore
<1> QED BY <1>3, <1>7, <1>8

LEMMA FlushClear ==
  ASSUME SeekBase, NEW m \in Media, FlushInv(m), ClearQueues("reader")
  PROVE  FlushInv(m)'
<1>1. /\ UNCHANGED <<decVars, rd, cut, terminated>> /\ Null \notin Nat /\ Flush \notin Nat
      /\ Flush \in Packets /\ pkts \in [Outs -> Seq(Packets)] /\ m \in Outs /\ m \in Streams
      /\ SeekFlags /\ clr["reader"] \in [at : {"idle", "pkts", "frames", "flush"}, todo : SUBSET Streams]
      /\ clr \in [{"reader", "gui"} -> [at : {"idle", "pkts", "frames", "flush"}, todo : SUBSET Streams]]
  <2>1. Media \subseteq Streams /\ TypeQueues /\ TypeCalls /\ SeekFlags
    BY PlayerAssumption DEF SeekBase, TypeInv, TypeOK, TypePlay, Media
  <2> QED BY <2>1, PlayerAssumption DEF TypeQueues, TypeCalls, Outs, Packets, readerVars, flags,
          ClearQueues, ClearPkts, ClearFrames, ClearFlush, ClearOutputs, ClearRest
<1>2. /\ InCodec(m)' = InCodec(m) /\ InDec(m)' = InDec(m)
      /\ dec'[m] = dec[m] /\ dhand'[m] = dhand[m]
  BY <1>1 DEF InCodec, InDec, decVars
<1>3. ASSUME Unflushed(m) => Unflushed(m)', pkts'[m] = pkts[m]
      PROVE  FlushInv(m)'
  BY <1>1, <1>2, <1>3, FlushKept DEF DecodesNoMore
<1>4. rd \in {"clear1", "clear2"} /\ ~closed
  <2>1. clr["reader"].at # "idle"
    BY DEF ClearQueues, ClearPkts, ClearFrames, ClearFlush, ClearOutputs
  <2> QED BY <1>1, <2>1 DEF SeekFlags, Ending
<1>5. CASE ClearPkts("reader")
  <2>1. clr'["reader"] = [at |-> "frames", todo |-> Media] /\ (pkts'[m] = pkts[m] \/ pkts'[m] = <<>>)
    BY <1>1, <1>4, <1>5 DEF ClearPkts
  <2>2. Unflushed(m)'
    BY <1>1, <1>4, <2>1 DEF Unflushed
  <2>3. CASE pkts'[m] = <<>>
    BY <1>1, <1>2, <2>2, <2>3, FlushKept, NumsNone DEF DecodesNoMore
  <2> QED BY <1>3, <2>1, <2>2, <2>3
<1>6. CASE ClearFrames("reader") \/ ClearOutputs("reader")
  <2>1. pkts' = pkts
    BY <1>6 DEF ClearFrames, ClearOutputs
  <2>2. ASSUME Unflushed(m) PROVE Unflushed(m)'
    <3>1. CASE rd = "clear1"
      BY <1>1, <3>1 DEF Unflushed
    <3>2. CASE rd = "clear2" /\ ClearFrames("reader")
      <4>1. clr'["reader"].at = "flush" /\ clr'["reader"].todo = clr["reader"].todo
            /\ clr["reader"].at = "frames"
        BY <1>1, <3>2 DEF ClearFrames
      <4> QED BY <1>1, <2>2, <3>2, <4>1 DEF Unflushed, Ending
    <3>3. CASE rd = "clear2" /\ ClearOutputs("reader")
      BY <2>2, <3>3 DEF Unflushed, Ending, ClearOutputs
    <3> QED BY <1>4, <1>6, <3>1, <3>2, <3>3
  <2> QED BY <1>3, <2>1, <2>2
<1>7. CASE ClearFlush("reader")
  <2> DEFINE k == ClearFirst(clr["reader"].todo)
  <2>1. /\ k \in Outs /\ pkts' = [pkts EXCEPT ![k] = Push(@, Flush)]
        /\ clr'["reader"].todo = clr["reader"].todo \ {k} /\ clr'["reader"].at = "frames"
        /\ clr["reader"].at = "flush"
    BY <1>1, <1>7 DEF ClearFlush, PushPkt, ClearFirst, Outs, Streams
  <2>2. CASE k # m
    <3>1. pkts'[m] = pkts[m]
      BY <1>1, <2>1, <2>2
    <3>2. Unflushed(m) => Unflushed(m)'
      BY <1>1, <2>1, <2>2 DEF Unflushed
    <3> QED BY <1>3, <3>1, <3>2
  <2>3. CASE k = m
    <3>1. pkts'[m] = Push(pkts[m], Flush) /\ pkts[m] \in Seq(Packets)
      BY <1>1, <2>1, <2>3
    <3>2. Nums(pkts'[m]) = Nums(pkts[m])
      <4>1. Nums(Push(pkts[m], Flush)) = Nums(pkts[m]) \cup ({Flush} \cap Nat)
        BY <1>1, <3>1, NumsAdd
      <4> QED BY <1>1, <3>1, <4>1
    <3>3. /\ Splits(pkts[m], cut) => Splits(pkts'[m], cut)
          /\ UpTo(Nums(pkts[m]), cut) => Splits(pkts'[m], cut)
      BY <1>1, <3>1, SplitsPush
    <3>4. AllAfter(m) => AllAfter(m)'
      BY <1>1, <1>2, <3>2 DEF AllAfter
    <3>5. FlushInHand(m) => FlushInHand(m)'
      BY <1>1, <1>2, <3>2 DEF FlushInHand
    <3>6. FlushComing(m) \/ FlushDue(m) => FlushComing(m)'
      BY <1>1, <1>2, <3>3 DEF FlushComing, FlushDue
    <3>7. DecodesNoMore(m) => DecodesNoMore(m)'
      BY <1>1, <1>2 DEF DecodesNoMore
    <3> QED BY <3>4, <3>5, <3>6, <3>7 DEF FlushInv
  <2> QED BY <2>2, <2>3
<1> QED BY <1>5, <1>6, <1>7 DEF ClearQueues

(* The other threads: play() starts the reader before anything was read,   *)
(* and the user only asks for a seek.                                      *)
LEMMA OthersFlags ==
  ASSUME SeekBase, npause' = npause,
         \/ Play \/ Writer \/ User \/ Seeking \/ UNCHANGED vars
         \/ \E k \in Streams : Decoder(k) \/ Filter(k) \/ Sink(k)
  PROVE  SeekFlags'
<1>1. /\ SeekFlags /\ Unused /\ Unstopped /\ npause \in Nat /\ TypeCalls
  BY PlayerAssumption DEF SeekBase, TypeInv, TypeOK, TypePlay
<1>2. ASSUME UNCHANGED <<rd, rhand, nread, cut, closed, play, stop, clr, paused, gui>>,
             term'["play"] = term["play"]
      PROVE  SeekFlags'
  <2>1. \A m \in Streams : InReader(m)' = InReader(m)
    BY <1>2 DEF InReader
  <2> QED BY <1>1, <1>2, <2>1 DEF SeekFlags
<1>3. CASE Play
  <2>1. UNCHANGED <<rhand, nread, cut, closed, stop, clr, paused, gui>>
    BY <1>3 DEF Play, Connect, StartThreads, OpenAudio, PlayThrow, PlayCaught, StartDisplay, Join, PlayRest,
       flags, guiVars
  <2>2. CASE StartThreads
    <3>1. rd = "off" /\ ~closed /\ rd' = "top" /\ UNCHANGED term /\ term["play"].at = "idle"
          /\ clr["reader"].at = "idle"
      BY <1>1, <2>2 DEF StartThreads, Unused, Unstarted, SeekFlags, Ending
    <3>2. \A m \in Streams : InReader(m)' = {}
      BY <3>1 DEF InReader
    <3> QED BY <1>1, <2>1, <3>1, <3>2 DEF SeekFlags, After
  <2>3. CASE Connect \/ OpenAudio \/ PlayThrow \/ PlayCaught \/ StartDisplay \/ Join
    <3>1. rd' = rd /\ (play \in {"connect", "setup"} => ~closed)
      BY <1>1, <2>3 DEF Connect, OpenAudio, PlayThrow, PlayCaught, StartDisplay, Join, NoThread,
         Unused, Unstarted, SeekFlags, Ending
    <3>2. closed => play' \notin {"connect", "setup"} \/ rd # "off"
      BY <1>1, <2>3, <3>1 DEF Connect, OpenAudio, PlayThrow, PlayCaught, StartDisplay, Join
    <3>3. term'["play"].at # "idle" => rd = "off"
      <4>1. CASE PlayThrow
        BY <1>1, <4>1 DEF PlayThrow, Unstopped, Unused, Unstarted
      <4>2. CASE ~PlayThrow
        BY <1>1, <2>3, <4>2 DEF Connect, OpenAudio, PlayCaught, StartDisplay, Join, SeekFlags
      <4> QED BY <4>1, <4>2
    <3>4. \A m \in Streams : InReader(m)' = InReader(m)
      BY <2>1, <3>1 DEF InReader
    <3> QED BY <1>1, <2>1, <3>1, <3>2, <3>3, <3>4 DEF SeekFlags
  <2> QED BY <1>3, <2>2, <2>3 DEF Play
<1>4. CASE Writer \/ UNCHANGED vars \/ \E k \in Streams : Decoder(k) \/ Filter(k) \/ Sink(k)
  <2>1. UNCHANGED <<rd, rhand, nread, cut, closed, play, stop, clr, paused, gui, term>>
    <3>1. CASE Writer \/ UNCHANGED vars
      BY <3>1 DEF Writer, vars, flags, readerVars, callVars, guiVars
    <3>2. CASE \E k \in Streams : Decoder(k)
      BY <3>2 DEF Decoder, DecPop, DecTerminated, DecFlush, DecSkip, DecDecode, DecEmit, DecPass, DecRest,
         flags, readerVars, callVars, guiVars
    <3>3. CASE \E k \in Streams : Filter(k)
      BY <3>3 DEF Filter, FilPop, FilTerminated, FilFrame, FilPush, FilRest,
         flags, readerVars, callVars, guiVars
    <3>4. CASE \E k \in Streams : Sink(k)
      BY <3>4 DEF Sink, SnkTop, AudioFetch, SnkPop, SnkFrame, SnkRest, readerVars, callVars, guiVars
    <3> QED BY <1>4, <3>1, <3>2, <3>3, <3>4
  <2> QED BY <1>2, <2>1
<1>5. CASE User \/ Seeking
  <2>1. UNCHANGED <<rd, rhand, nread, cut, closed, play>> /\ ~Stop /\ ~TogglePaused
    <3>1. UNCHANGED <<rd, rhand, nread, cut, closed, play>>
      BY <1>5 DEF User, Stop, SeekCheck, TogglePaused, Seeking, SeekSet, SeekOneShot, SeekOrphan,
         GuiRest, flags, readerVars
    <3>2. ~Stop
      BY <1>1 DEF Stop, Unstopped
    <3>3. ~TogglePaused
      BY <1>1 DEF TogglePaused
    <3> QED BY <3>1, <3>2, <3>3
  <2>2. UNCHANGED <<stop, clr, paused, term>> /\ gui' # "clear"
    BY <1>1, <1>5, <2>1 DEF User, SeekCheck, Seeking, SeekSet, SeekOneShot, SeekOrphan,
       flags, guiVars, callVars, SeekFlags
  <2>3. \A m \in Streams : InReader(m)' = InReader(m)
    BY <2>1 DEF InReader
  <2> QED BY <1>1, <2>1, <2>2, <2>3 DEF SeekFlags
<1> QED BY <1>3, <1>4, <1>5

LEMMA FlushOthers ==
  ASSUME SeekBase, NEW m \in Streams, FlushInv(m), npause' = npause,
         \/ Play \/ Writer \/ User \/ Seeking \/ UNCHANGED vars
         \/ \E k \in Streams : Filter(k) \/ Sink(k)
         \/ \E k \in Streams \ {m} : Decoder(k)
  PROVE  FlushInv(m)'
<1>1. /\ SeekFlags /\ Unused /\ ~Live /\ TypeQueues /\ TypeDecoders /\ TypeInv
  BY DEF SeekBase, TypeInv, TypeOK
<1>2. ASSUME UNCHANGED <<rd, cut, clr, terminated>>, dec'[m] = dec[m], dhand'[m] = dhand[m],
             dout'[m] = dout[m], held'[m] = held[m], pkts'[m] = pkts[m]
      PROVE  FlushInv(m)'
  <2>1. InCodec(m)' = InCodec(m) /\ InDec(m)' = InDec(m) /\ Unflushed(m)' = Unflushed(m)
    BY <1>2 DEF InCodec, InDec, Unflushed
  <2> QED BY <1>2, <2>1, FlushKept DEF DecodesNoMore
<1>3. CASE Play
  <2>1. UNCHANGED <<cut, clr, terminated, dhand, dout, held, pkts>>
    BY <1>3 DEF Play, Connect, StartThreads, OpenAudio, PlayThrow, PlayCaught, StartDisplay, Join, PlayRest,
       flags
  <2>2. CASE StartThreads
    <3>1. cut = 0 /\ dec'[m] \in {"pop", "off"}
      BY <1>1, <2>2 DEF StartThreads, Unused, Unstarted, SeekFlags
    <3>2. InCodec(m)' = InCodec(m) /\ InDec(m)' = {}
      BY <2>1, <3>1 DEF InCodec, InDec
    <3>3. AllAfter(m)'
      BY <1>1, <2>1, <3>1, <3>2, FlushZero DEF AllAfter, After
    <3> QED BY <3>3 DEF FlushInv
  <2>3. CASE Connect \/ OpenAudio \/ PlayThrow \/ PlayCaught \/ StartDisplay \/ Join
    <3>1. UNCHANGED <<rd, dec>>
      BY <2>3 DEF Connect, OpenAudio, PlayThrow, PlayCaught, StartDisplay, Join, NoThread
    <3> QED BY <1>2, <2>1, <3>1
  <2> QED BY <1>3, <2>2, <2>3 DEF Play
<1>4. CASE Writer \/ UNCHANGED vars
  <2>1. UNCHANGED <<rd, cut, clr, terminated, decVars>>
        /\ (pkts' = pkts \/ pkts' = [pkts EXCEPT !["writer"] = Tail(@)])
    BY <1>4 DEF Writer, vars, flags, readerVars, callVars, queues
  <2>2. pkts'[m] = pkts[m]
    BY <1>1, <2>1 DEF TypeQueues, Outs, Streams
  <2> QED BY <1>2, <2>1, <2>2 DEF decVars
<1>5. CASE User \/ Seeking
  <2>1. UNCHANGED <<rd, cut, terminated, decVars, pkts>>
    BY <1>5 DEF User, Stop, SeekCheck, TogglePaused, Seeking, SeekSet, SeekOneShot, SeekOrphan,
       GuiRest, flags, readerVars, queues
  <2>2. clr' = clr
    BY <1>1, <1>5 DEF User, Stop, SeekCheck, TogglePaused, Seeking, SeekSet, SeekOneShot,
       SeekOrphan, callVars, SeekFlags
  <2> QED BY <1>2, <2>1, <2>2 DEF decVars
<1>6. CASE \E k \in Streams : Filter(k)
  BY <1>2, <1>6 DEF Filter, FilPop, FilTerminated, FilFrame, FilPush, FilRest,
     flags, readerVars, decVars, callVars
<1>7. CASE \E k \in Streams : Sink(k)
  <2>1. UNCHANGED <<rd, cut, clr, terminated, decVars>>
    BY <1>7 DEF Sink, SnkTop, AudioFetch, SnkPop, SnkFrame, SnkRest, readerVars, callVars
  <2>2. pkts' = pkts
    BY <1>1, <1>7 DEF Sink, SnkTop, AudioFetch, SnkPop, SnkFrame
  <2> QED BY <1>2, <2>1, <2>2 DEF decVars
<1>8. CASE \E k \in Streams \ {m} : Decoder(k)
  <2>1. PICK k \in Streams : k # m /\ Decoder(k)
    BY <1>8
  <2>2. UNCHANGED <<rd, cut, clr, terminated>>
    BY <2>1 DEF Decoder, DecPop, DecTerminated, DecFlush, DecSkip, DecDecode, DecEmit, DecPass, DecRest,
       flags, readerVars, callVars
  <2>3. dec'[m] = dec[m] /\ dhand'[m] = dhand[m] /\ dout'[m] = dout[m] /\ held'[m] = held[m]
    BY <1>1, <2>1 DEF Decoder, DecPop, DecTerminated, DecFlush, DecSkip, DecDecode, DecEmit,
       DecPass, TypeDecoders
  <2>4. pkts'[m] = pkts[m]
    <3>1. pkts' = pkts \/ pkts' = [pkts EXCEPT ![k] = Tail(@)]
      BY <1>1, <2>1 DEF Decoder, DecPop, DecTerminated, DecFlush, DecSkip, DecDecode, DecEmit,
         DecPass, ToWriter
    <3> QED BY <1>1, <2>1, <3>1 DEF TypeQueues, Outs, Streams
  <2> QED BY <1>2, <2>2, <2>3, <2>4
<1> QED BY <1>3, <1>4, <1>5, <1>6, <1>7, <1>8

(* A stream that is not played has no decoder.                             *)
LEMMA AbsentStep ==
  ASSUME TypeInv, NEW m \in Streams, Absent(m), [Next]_vars
  PROVE  Absent(m)'
<1>1. opts' = opts /\ TypeDecoders
  BY OptsKept DEF TypeInv, TypeOK
<1>2. SUFFICES ASSUME m \notin Media, dec[m] = "off", dout[m] = <<>>, held[m] = <<>>
               PROVE  dec'[m] = "off" /\ dout'[m] = <<>> /\ held'[m] = <<>>
  BY <1>1 DEF Absent, Media
<1>3. CASE \E k \in Streams : Decoder(k)
  <2>1. PICK k \in Streams : Decoder(k)
    BY <1>3
  <2>2. k # m
    BY <1>2, <2>1 DEF Decoder, DecPop, DecTerminated, DecFlush, DecSkip, DecDecode, DecEmit, DecPass
  <2> QED BY <1>1, <1>2, <2>1, <2>2 DEF Decoder, DecPop, DecTerminated, DecFlush, DecSkip, DecDecode,
          DecEmit, DecPass, TypeDecoders
<1>4. CASE Play
  <2>1. UNCHANGED <<dout, held>>
    BY <1>4 DEF Play, Connect, StartThreads, OpenAudio, PlayThrow, PlayCaught, StartDisplay, Join, PlayRest
  <2>2. dec'[m] = dec[m]
    BY <1>2, <1>4 DEF Play, Connect, StartThreads, OpenAudio, PlayThrow, PlayCaught, StartDisplay, Join,
       NoThread
  <2> QED BY <1>2, <2>1, <2>2
<1>5. CASE \/ Reader \/ Writer \/ User \/ Seeking \/ UNCHANGED vars
           \/ \E k \in Streams : Filter(k) \/ Sink(k)
           \/ \E c \in Callers : Terminate(c)
           \/ \E c \in {"reader", "gui"} : ClearQueues(c)
  <2>1. UNCHANGED decVars
    <3>1. CASE Reader
      BY <3>1 DEF Reader, ReadTop, ReadSeek, ReadPacket, ReadSeekDone, ReadDeref, ReadPush,
         ReadEOF, ReadEndMarker, ReadError, ReadErrorDone, ReaderRest
    <3>2. CASE Writer \/ User \/ Seeking \/ UNCHANGED vars
      BY <3>2 DEF Writer, User, Stop, SeekCheck, TogglePaused, Seeking, SeekSet, SeekOneShot, SeekOrphan,
         GuiRest, vars
    <3>3. CASE \E k \in Streams : Filter(k) \/ Sink(k)
      BY <3>3 DEF Filter, FilPop, FilTerminated, FilFrame, FilPush, FilRest,
         Sink, SnkTop, AudioFetch, SnkPop, SnkFrame, SnkRest
    <3>4. CASE (\E c \in Callers : Terminate(c)) \/ (\E c \in {"reader", "gui"} : ClearQueues(c))
      BY <3>4 DEF Terminate, TermQueue, TermPush, TermDetach, TermFlags, TermOrphan, TermRest,
         ClearQueues, ClearPkts, ClearFrames, ClearFlush, ClearOutputs, ClearRest
    <3> QED BY <1>5, <3>1, <3>2, <3>3, <3>4
  <2> QED BY <1>2, <2>1 DEF decVars
<1> QED BY <1>3, <1>4, <1>5 DEF Next, Ended

LEMMA PauseCounts ==
  ASSUME TypeInv, [Next]_vars, npause' = 0
  PROVE  npause = 0
<1>1. npause \in Nat
  BY PlayerAssumption DEF TypeInv, TypeOK, TypePlay
<1>2. npause' \in {npause, npause + 1}
  <2>1. CASE \E m \in Streams : Decoder(m) \/ Filter(m) \/ Sink(m)
    BY <2>1 DEF Decoder, DecPop, DecTerminated, DecFlush, DecSkip, DecDecode, DecEmit, DecPass, DecRest,
       Filter, FilPop, FilTerminated, FilFrame, FilPush, FilRest,
       Sink, SnkTop, AudioFetch, SnkPop, SnkFrame, SnkRest, guiVars
  <2>2. CASE Play \/ Reader \/ Writer \/ UNCHANGED vars
    BY <2>2 DEF Play, Connect, StartThreads, OpenAudio, PlayThrow, PlayCaught, StartDisplay, Join, PlayRest,
       Reader, ReadTop, ReadSeek, ReadPacket, ReadSeekDone, ReadDeref, ReadPush, ReadEOF,
       ReadEndMarker, ReadError, ReadErrorDone, ReaderRest, Writer, guiVars, vars
  <2>3. CASE User \/ Seeking
    BY <2>3 DEF User, Stop, SeekCheck, TogglePaused, Seeking, SeekSet, SeekOneShot, SeekOrphan, guiVars
  <2>4. CASE (\E c \in Callers : Terminate(c)) \/ (\E c \in {"reader", "gui"} : ClearQueues(c))
    BY <2>4 DEF Terminate, TermQueue, TermPush, TermDetach, TermFlags, TermOrphan, TermRest,
       ClearQueues, ClearPkts, ClearFrames, ClearFlush, ClearOutputs, ClearRest, guiVars
  <2> QED BY <2>1, <2>2, <2>3, <2>4 DEF Next, Ended
<1> QED BY <1>1, <1>2

(* A camera is not sought in, and without a seek nothing is cut.           *)
CutBySeek == /\ nseek = 0 => cut = 0
             /\ Live => nseek = 0 /\ gui = "idle"

LEMMA CutStep ==
  ASSUME FedInv, FedInv', CutBySeek, [Next]_vars
  PROVE  CutBySeek'
<1>1. TypeInv /\ TypeInv' /\ opts' = opts
  BY OptsKept DEF FedInv
<1>2. ASSUME nseek' = 0 PROVE cut' = 0
  <2>1. nseek = 0 /\ Quiet
    BY <1>1, <1>2, SeekCounts DEF FedInv
  <2>2. ~ReadSeek
    BY <2>1 DEF ReadSeek, Quiet
  <2>3. cut' = cut
    <3>1. CASE \E m \in Streams : Decoder(m) \/ Filter(m) \/ Sink(m)
      BY <3>1 DEF Decoder, DecPop, DecTerminated, DecFlush, DecSkip, DecDecode, DecEmit, DecPass, DecRest,
         Filter, FilPop, FilTerminated, FilFrame, FilPush, FilRest,
         Sink, SnkTop, AudioFetch, SnkPop, SnkFrame, SnkRest, readerVars
    <3>2. CASE Play \/ Reader \/ Writer \/ UNCHANGED vars
      BY <2>2, <3>2 DEF Play, Connect, StartThreads, OpenAudio, PlayThrow, PlayCaught, StartDisplay, Join,
         PlayRest, Reader, ReadTop, ReadPacket, ReadSeekDone, ReadDeref, ReadPush, ReadEOF,
         ReadEndMarker, ReadError, ReadErrorDone, ReaderRest, Writer, readerVars, vars
    <3>3. CASE User \/ Seeking
      BY <3>3 DEF User, Stop, SeekCheck, TogglePaused, Seeking, SeekSet, SeekOneShot, SeekOrphan, GuiRest,
         readerVars
    <3>4. CASE (\E c \in Callers : Terminate(c)) \/ (\E c \in {"reader", "gui"} : ClearQueues(c))
      BY <3>4 DEF Terminate, TermQueue, TermPush, TermDetach, TermFlags, TermOrphan, TermRest,
         ClearQueues, ClearPkts, ClearFrames, ClearFlush, ClearOutputs, ClearRest, readerVars
    <3> QED BY <3>1, <3>2, <3>3, <3>4 DEF Next, Ended
  <2> QED BY <2>1, <2>3 DEF CutBySeek
<1>3. ASSUME Live PROVE nseek' = 0 /\ gui' = "idle"
  <2>1. nseek = 0 /\ gui = "idle"
    BY <1>3 DEF CutBySeek
  <2>2. UNCHANGED <<nseek, gui>>
    <3>1. CASE \E m \in Streams : Decoder(m) \/ Filter(m) \/ Sink(m)
      BY <3>1 DEF Decoder, DecPop, DecTerminated, DecFlush, DecSkip, DecDecode, DecEmit, DecPass, DecRest,
         Filter, FilPop, FilTerminated, FilFrame, FilPush, FilRest,
         Sink, SnkTop, AudioFetch, SnkPop, SnkFrame, SnkRest, guiVars
    <3>2. CASE Play \/ Reader \/ Writer \/ UNCHANGED vars
      BY <3>2 DEF Play, Connect, StartThreads, OpenAudio, PlayThrow, PlayCaught, StartDisplay, Join,
         PlayRest, Reader, ReadTop, ReadSeek, ReadPacket, ReadSeekDone, ReadDeref, ReadPush, ReadEOF,
         ReadEndMarker, ReadError, ReadErrorDone, ReaderRest, Writer, guiVars, vars
    <3>3. CASE User \/ Seeking
      BY <1>3, <2>1, <3>3 DEF User, Stop, SeekCheck, TogglePaused, Seeking, SeekSet, SeekOneShot, SeekOrphan,
         guiVars
    <3>4. CASE (\E c \in Callers : Terminate(c)) \/ (\E c \in {"reader", "gui"} : ClearQueues(c))
      BY <3>4 DEF Terminate, TermQueue, TermPush, TermDetach, TermFlags, TermOrphan, TermRest,
         ClearQueues, ClearPkts, ClearFrames, ClearFlush, ClearOutputs, ClearRest, guiVars
    <3> QED BY <3>1, <3>2, <3>3, <3>4 DEF Next, Ended
  <2> QED BY <2>1, <2>2
<1> QED BY <1>1, <1>2, <1>3 DEF CutBySeek, Live

FileCut == SeekFlags /\ \A m \in Media : FlushInv(m)
SeekInv == /\ FedInv /\ DecInv /\ OrderInv /\ CutBySeek /\ (Live \/ Unstopped)
           /\ \A m \in Streams : Absent(m)
           /\ ~Live /\ npause = 0 => FileCut

LEMMA SeekInit == Init /\ (Live \/ Unstopped) => SeekInv
<1> SUFFICES ASSUME Init, Live \/ Unstopped PROVE SeekInv
  OBVIOUS
<1>1. FedInv /\ OrderInv /\ DecInv /\ TypeInv /\ Media \subseteq Streams
  BY FedInit, OrderInit, DecInit, PlayerAssumption DEF FedInv, TypeInv, TypeOK, TypePlay, Media
<1>2. CutBySeek /\ \A m \in Streams : Absent(m)
  BY DEF Init, CutBySeek, Absent
<1>3. \A m \in Media : FlushInv(m)
  BY <1>1, FlushZero DEF Init, FlushInv
<1>4. \A m \in Streams : InReader(m) = {}
  BY DEF Init, InReader
<1>5. SeekFlags
  BY <1>4 DEF Init, SeekFlags, Idle, Callers, After
<1> QED BY <1>1, <1>2, <1>3, <1>5 DEF SeekInv, FileCut

LEMMA SeekStep == SeekInv /\ [Next]_vars => SeekInv'
<1> SUFFICES ASSUME SeekInv, [Next]_vars PROVE SeekInv'
  OBVIOUS
<1>1. FedInv' /\ DecInv' /\ TypeInv /\ Startup /\ Unused /\ opts' = opts
  BY FedStep, DecStep, OptsKept DEF SeekInv, FedInv, DecInv
<1>2. OrderInv' /\ CutBySeek' /\ \A m \in Streams : Absent(m)'
  BY <1>1, OrderStep, CutStep, AbsentStep DEF SeekInv
<1>3. (Live \/ Unstopped)'
  BY <1>1 DEF SeekInv, Live, Unstopped
<1>4. ASSUME ~Live', npause' = 0 PROVE FileCut'
  <2>1. /\ npause = 0 /\ ~Live /\ npause' = npause /\ FileCut /\ SeekBase
        /\ Media' = Media /\ Media \subseteq Streams
    <3>1. npause = 0 /\ ~Live /\ npause' = npause /\ Media' = Media
      BY <1>1, <1>4, PauseCounts DEF Live, Media
    <3>2. Media \subseteq Streams
      BY <1>1, PlayerAssumption DEF TypeInv, TypeOK, TypePlay, Media
    <3> QED BY <1>1, <3>1, <3>2 DEF SeekInv, SeekBase, FileCut
  <2>2. SeekFlags'
    <3>1. CASE Reader
      BY <2>1, <3>1, ReaderFlags
    <3>2. CASE (\E c \in Callers : Terminate(c)) \/ (\E c \in {"reader", "gui"} : ClearQueues(c))
      BY <2>1, <3>2, CallFlags
    <3>3. CASE \/ Play \/ Writer \/ User \/ Seeking \/ UNCHANGED vars
               \/ \E k \in Streams : Decoder(k) \/ Filter(k) \/ Sink(k)
      BY <2>1, <3>3, OthersFlags
    <3> QED BY <3>1, <3>2, <3>3 DEF Next, Ended
  <2>3. ASSUME NEW m \in Media PROVE FlushInv(m)'
    <3>1. FlushInv(m) /\ m \in Streams
      BY <2>1 DEF FileCut
    <3>2. CASE Reader \/ Decoder(m)
      BY <2>1, <3>1, <3>2, FlushReader, FlushDecoder
    <3>3. CASE \E c \in Callers : Terminate(c)
      BY <2>1, <3>1, <3>3, FlushTerminate
    <3>4. CASE \E c \in {"reader", "gui"} : ClearQueues(c)
      <4>1. ClearQueues("reader")
        BY <2>1, <3>4 DEF FileCut, SeekFlags, ClearQueues, ClearPkts, ClearFrames, ClearFlush, ClearOutputs
      <4> QED BY <2>1, <3>1, <4>1, FlushClear
    <3>5. CASE \/ Play \/ Writer \/ User \/ Seeking \/ UNCHANGED vars
               \/ \E k \in Streams : Filter(k) \/ Sink(k)
               \/ \E k \in Streams \ {m} : Decoder(k)
      BY <2>1, <3>1, <3>5, FlushOthers
    <3> QED BY <3>2, <3>3, <3>4, <3>5 DEF Next, Ended
  <2> QED BY <2>1, <2>2, <2>3 DEF FileCut
<1> QED BY <1>1, <1>2, <1>3, <1>4 DEF SeekInv

(* A codec never holds packets of both sides of a seek: the flush packet   *)
(* of clear_queues() reaches every decoder between them, whatever a seek   *)
(* and its two clears find in the queues, for a camera and for a file that *)
(* the user neither pauses nor stops, whose clears could remove it.        *)
THEOREM AlwaysFlushedBySeek == Spec /\ (Live \/ Unstopped) => []FlushedBySeek
<1>1. SeekInv => FlushedBySeek
  <2> SUFFICES ASSUME SeekInv, npause = 0, NEW m \in Streams, NEW p \in Codec(m), NEW q \in Codec(m),
                      p <= cut, cut < q
               PROVE  FALSE
    BY DEF FlushedBySeek
  <2>1. p \in Pkt /\ q \in Pkt /\ p \in InCodec(m) /\ q \in InCodec(m) /\ cut \in Nat
    <3>1. cut \in Nat
      BY PlayerAssumption DEF SeekInv, FedInv, TypeInv, TypeOK, TypeReader
    <3> QED BY <3>1 DEF Codec, InCodec, Nums, Pkt
  <2>2. CASE Live
    <3>1. cut = 0
      BY <2>2 DEF SeekInv, CutBySeek
    <3> QED BY <2>1, <3>1 DEF Pkt
  <2>3. CASE ~Live /\ m \in Media
    <3>1. FlushInv(m)
      BY <2>3 DEF SeekInv, FileCut
    <3>2. After(InCodec(m), cut) \/ UpTo(InCodec(m), cut)
      BY <3>1 DEF FlushInv, AllAfter, FlushInHand, FlushComing, FlushDue, DecodesNoMore
    <3> QED BY <2>1, <3>2 DEF After, UpTo, Pkt
  <2>4. CASE m \notin Media
    <3>1. InCodec(m) = {}
      BY <2>4, NumsNone DEF SeekInv, Absent, InCodec
    <3> QED BY <2>1, <3>1
  <2> QED BY <2>2, <2>3, <2>4
<1> QED BY SeekInit, SeekStep, <1>1, PTL DEF Spec
=============================================================================
