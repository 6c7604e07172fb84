-------------------------- MODULE PlayerOrderProofs --------------------------
(***************************************************************************)
(* Proofs about the order of what module Player plays, for all values of   *)
(* its constants: frames are rendered in the order they were read, and     *)
(* those of a file without a gap up to the last one.                       *)
(***************************************************************************)
EXTENDS PlayerProofs

-----------------------------------------------------------------------------
(* The packets in a queue, and a queue whose packets are in order.  Null   *)
(* and Flush are not numbers.                                              *)
Nums(q)     == {n \in Nat : \E i \in 1..Len(q) : q[i] = n}
Below(A, B) == \A a \in A, b \in B : a <= b
Sorted(q)   == \A i, j \in 1..Len(q) : i < j /\ q[i] \in Nat /\ q[j] \in Nat => q[i] <= q[j]

(* A queue that has lost packets only.                                     *)
Thinner(p, q) == Nums(p) \subseteq Nums(q) /\ (Sorted(q) => Sorted(p))

LEMMA NumsNone ==
  /\ Nums(<<>>) = {} /\ Sorted(<<>>)
  /\ \A q : Thinner(<<>>, q) /\ Thinner(q, q)
<1>1. Len(<<>>) = 0
  BY EmptySeq
<1>2. Nums(<<>>) = {}
  BY <1>1 DEF Nums
<1>3. Sorted(<<>>)
  BY <1>1 DEF Sorted
<1> QED BY <1>2, <1>3 DEF Thinner

LEMMA NumsOne ==
  ASSUME NEW e
  PROVE  Nums(<<e>>) = {e} \cap Nat /\ Sorted(<<e>>)
BY DEF Nums, Sorted

LEMMA NumsAdd ==
  ASSUME NEW S, NEW q \in Seq(S), NEW e \in S
  PROVE  Nums(Push(q, e)) = Nums(q) \cup ({e} \cap Nat)
<1> DEFINE p == Push(q, e)
<1>1. /\ Len(q) \in Nat /\ Len(p) = Len(q) + 1 /\ p[Len(q) + 1] = e
      /\ \A i \in 1..Len(q) : p[i] = q[i]
  BY AppendProperties, LenProperties DEF Push
<1> HIDE DEF p
<1>2. Nums(p) = Nums(q) \cup ({e} \cap Nat)
  <2>1. ASSUME NEW n \in Nums(p) PROVE n \in Nums(q) \cup ({e} \cap Nat)
    <3>1. PICK i \in 1..Len(p) : p[i] = n /\ n \in Nat
      BY <2>1 DEF Nums
    <3>2. CASE i \in 1..Len(q)
      BY <1>1, <3>1, <3>2 DEF Nums
    <3>3. CASE i = Len(q) + 1
      BY <1>1, <3>1, <3>3
    <3> QED BY <1>1, <3>1, <3>2, <3>3
  <2>2. ASSUME NEW n \in Nums(q) PROVE n \in Nums(p)
    <3>1. PICK i \in 1..Len(q) : q[i] = n /\ n \in Nat
      BY <2>2 DEF Nums
    <3>2. i \in 1..Len(p) /\ p[i] = n
      BY <1>1, <3>1
    <3> QED BY <3>1, <3>2 DEF Nums
  <2>3. e \in Nat => e \in Nums(p)
    <3>1. Len(q) + 1 \in 1..Len(p)
      BY <1>1
    <3> QED BY <1>1, <3>1 DEF Nums
  <2> QED BY <2>1, <2>2, <2>3
<1> QED BY <1>2 DEF p

LEMMA NumsPush ==
  ASSUME NEW S, NEW q \in Seq(S), NEW e \in S
  PROVE  /\ Nums(Push(q, e)) = Nums(q) \cup ({e} \cap Nat)
         /\ Sorted(q) /\ Below(Nums(q), {e} \cap Nat) => Sorted(Push(q, e))
         /\ e \notin Nat => Thinner(Push(q, e), q)
<1> DEFINE p == Push(q, e)
<1>1. /\ Len(q) \in Nat /\ Len(p) = Len(q) + 1 /\ p[Len(q) + 1] = e
      /\ \A i \in 1..Len(q) : p[i] = q[i]
  BY AppendProperties, LenProperties DEF Push
<1>2. Nums(p) = Nums(q) \cup ({e} \cap Nat)
  BY NumsAdd
<1> HIDE DEF p
<1>3. ASSUME Sorted(q), Below(Nums(q), {e} \cap Nat) PROVE Sorted(p)
  <2> SUFFICES ASSUME NEW i \in 1..Len(p), NEW j \in 1..Len(p), i < j, p[i] \in Nat, p[j] \in Nat
               PROVE  p[i] <= p[j]
    BY DEF Sorted
  <2>1. i \in 1..Len(q) /\ (j \in 1..Len(q) \/ j = Len(q) + 1)
    BY <1>1
  <2>2. CASE j \in 1..Len(q)
    BY <1>1, <1>3, <2>1, <2>2 DEF Sorted
  <2>3. CASE j = Len(q) + 1
    <3>1. p[i] \in Nums(q) /\ p[j] = e
      BY <1>1, <2>1, <2>3 DEF Nums
    <3> QED BY <1>3, <3>1 DEF Below
  <2> QED BY <2>1, <2>2, <2>3
<1>4. e \notin Nat => Below(Nums(q), {e} \cap Nat)
  BY DEF Below
<1> QED BY <1>2, <1>3, <1>4 DEF p, Thinner

LEMMA NumsPop ==
  ASSUME NEW S, NEW q \in Seq(S), q # <<>>
  PROVE  /\ Nums(q) = Nums(Tail(q)) \cup ({Head(q)} \cap Nat)
         /\ Thinner(Tail(q), q)
         /\ Sorted(q) => Below({Head(q)} \cap Nat, Nums(Tail(q)))
<1> DEFINE p == Tail(q)
<1>1. /\ Len(q) \in Nat /\ Len(q) >= 1 /\ Len(p) = Len(q) - 1 /\ Head(q) = q[1]
      /\ \A i \in 1..Len(p) : p[i] = q[i + 1]
  BY HeadTailProperties, LenProperties, EmptySeq
<1> HIDE DEF p
<1>2. \A i \in 1..Len(p) : i + 1 \in 1..Len(q)
  BY <1>1
<1>3. \A i \in 1..Len(q) : i = 1 \/ (i - 1 \in 1..Len(p) /\ q[i] = p[i - 1])
  BY <1>1
<1>4. Nums(q) = Nums(p) \cup ({Head(q)} \cap Nat)
  <2>1. ASSUME NEW n \in Nums(q) PROVE n \in Nums(p) \cup ({Head(q)} \cap Nat)
    <3>1. PICK i \in 1..Len(q) : q[i] = n /\ n \in Nat
      BY <2>1 DEF Nums
    <3> QED BY <1>1, <1>3, <3>1 DEF Nums
  <2>2. ASSUME NEW n \in Nums(p) PROVE n \in Nums(q)
    <3>1. PICK i \in 1..Len(p) : p[i] = n /\ n \in Nat
      BY <2>2 DEF Nums
    <3> QED BY <1>1, <1>2, <3>1 DEF Nums
  <2>3. q[1] \in Nat => q[1] \in Nums(q)
    <3>1. 1 \in 1..Len(q)
      BY <1>1
    <3> QED BY <3>1 DEF Nums
  <2> QED BY <1>1, <2>1, <2>2, <2>3
<1>5. ASSUME Sorted(q) PROVE Sorted(p)
  <2> SUFFICES ASSUME NEW i \in 1..Len(p), NEW j \in 1..Len(p), i < j, p[i] \in Nat, p[j] \in Nat
               PROVE  p[i] <= p[j]
    BY DEF Sorted
  <2>1. i + 1 \in 1..Len(q) /\ j + 1 \in 1..Len(q) /\ i + 1 < j + 1 /\ p[i] = q[i + 1] /\ p[j] = q[j + 1]
    BY <1>1, <1>2
  <2> QED BY <1>5, <2>1 DEF Sorted
<1>6. ASSUME Sorted(q) PROVE Below({Head(q)} \cap Nat, Nums(p))
  <2> SUFFICES ASSUME Head(q) \in Nat, NEW n \in Nums(p) PROVE Head(q) <= n
    BY DEF Below
  <2>1. PICK i \in 1..Len(p) : p[i] = n /\ n \in Nat
    BY DEF Nums
  <2>2. i + 1 \in 1..Len(q) /\ 1 \in 1..Len(q) /\ 1 < i + 1 /\ q[i + 1] = n
    BY <1>1, <1>2, <2>1
  <2> QED BY <1>1, <1>6, <2>1, <2>2 DEF Sorted
<1> QED BY <1>4, <1>5, <1>6 DEF p, Thinner

(* A part of a queue.                                                      *)
LEMMA NumsPart ==
  ASSUME NEW S, NEW q \in Seq(S), NEW a \in 1..(Len(q) + 1), NEW b \in 0..Len(q), a <= b + 1
  PROVE  /\ Thinner(SubSeq(q, a, b), q)
         /\ \A n : n \in Nums(SubSeq(q, a, b)) <=> n \in Nat /\ \E i \in a..b : q[i] = n
<1> DEFINE p == SubSeq(q, a, b)
<1>1. /\ Len(q) \in Nat /\ Len(p) = b - a + 1
      /\ \A i \in 1..(b - a + 1) : p[i] = q[a + i - 1]
  BY LenProperties, SubSeqProperties
<1> HIDE DEF p
<1>2. \A i \in 1..Len(p) : a + i - 1 \in a..b /\ a + i - 1 \in 1..Len(q) /\ p[i] = q[a + i - 1]
  BY <1>1
<1>3. \A i \in a..b : i - a + 1 \in 1..Len(p) /\ q[i] = p[i - a + 1]
  BY <1>1
<1>4. ASSUME NEW n
      PROVE  n \in Nums(p) <=> n \in Nat /\ \E i \in a..b : q[i] = n
  BY <1>2, <1>3 DEF Nums
<1>5. Nums(p) \subseteq Nums(q)
  BY <1>2 DEF Nums
<1>6. ASSUME Sorted(q) PROVE Sorted(p)
  <2> SUFFICES ASSUME NEW i \in 1..Len(p), NEW j \in 1..Len(p), i < j, p[i] \in Nat, p[j] \in Nat
               PROVE  p[i] <= p[j]
    BY DEF Sorted
  <2>1. /\ a + i - 1 \in 1..Len(q) /\ a + j - 1 \in 1..Len(q) /\ a + i - 1 < a + j - 1
        /\ p[i] = q[a + i - 1] /\ p[j] = q[a + j - 1]
    BY <1>2
  <2> QED BY <1>6, <2>1 DEF Sorted
<1> QED BY <1>4, <1>5, <1>6 DEF p, Thinner

LEMMA NumsLatest ==
  ASSUME NEW S, NEW q \in Seq(S)
  PROVE  Thinner(RemoveLatency(q), q)
<1>1. CASE Len(q) > 1
  <2>1. Len(q) \in 1..(Len(q) + 1) /\ Len(q) \in 0..Len(q) /\ Len(q) <= Len(q) + 1
    BY <1>1, LenProperties
  <2>2. RemoveLatency(q) = SubSeq(q, Len(q), Len(q))
    BY <1>1, <2>1 DEF RemoveLatency, EraseFront
  <2> QED BY <2>1, <2>2, NumsPart
<1>2. CASE ~(Len(q) > 1)
  BY <1>2, NumsNone DEF RemoveLatency
<1> QED BY <1>1, <1>2

LEMMA NumsCopies ==
  ASSUME NEW e, NEW n \in Nat
  PROVE  LET c == [i \in 1..n |-> e] IN
         Nums(c) \subseteq {e} \cap Nat /\ (n # 0 => Nums(c) = {e} \cap Nat) /\ Sorted(c)
<1> DEFINE c == [i \in 1..n |-> e]
<1>1. c \in Seq({e}) /\ Len(c) = n /\ \A i \in 1..n : c[i] = e
  BY CopiesType
<1> HIDE DEF c
<1>2. Nums(c) \subseteq {e} \cap Nat
  BY <1>1 DEF Nums
<1>3. ASSUME n # 0 PROVE {e} \cap Nat \subseteq Nums(c)
  <2>1. 1 \in 1..n
    BY <1>3
  <2> QED BY <1>1, <2>1 DEF Nums
<1>4. Sorted(c)
  <2> SUFFICES ASSUME NEW i \in 1..Len(c), NEW j \in 1..Len(c), c[i] \in Nat, c[j] \in Nat
               PROVE  c[i] <= c[j]
    BY DEF Sorted
  <2> QED BY <1>1
<1> QED BY <1>2, <1>3, <1>4 DEF c

-----------------------------------------------------------------------------
(* Where the packets of a stream are, from the picture on the screen back  *)
(* to the last packet read: everything further down was read earlier.      *)
InSink(m)   == {shand[m]} \cap Nat
InDec(m)    == IF dec[m] = "check" THEN {dhand[m]} \cap Nat ELSE {}
InReader(m) == IF rhand[1] = m /\ rd \in {"clear2", "deref", "push"}
               THEN {rhand[2]} \cap Nat ELSE {}
Contents(m) == << {shown[m]}, InSink(m), Nums(filtered[m]), Nums(fout[m]), Nums(decoded[m]),
                  Nums(dout[m]), Nums(held[m]), InDec(m), Nums(pkts[m]), InReader(m), {nread} >>
Ordered(S)  == \A i, j \in 1..11 : i < j => Below(S[i], S[j])

AllSorted(m) == /\ Sorted(filtered[m]) /\ Sorted(fout[m]) /\ Sorted(decoded[m])
                /\ Sorted(dout[m]) /\ Sorted(held[m]) /\ Sorted(pkts[m])
NoOutput(m)  == dec[m] # "emit" => dout[m] = <<>>

InOrderOf(m) == NoOutput(m) /\ AllSorted(m) /\ Ordered(Contents(m))
OrderInv     == \A m \in Streams : InOrderOf(m)

LEMMA Places ==
  ASSUME NEW m
  PROVE  /\ Contents(m)[1] = {shown[m]} /\ Contents(m)[2] = InSink(m)
         /\ Contents(m)[3] = Nums(filtered[m]) /\ Contents(m)[4] = Nums(fout[m])
         /\ Contents(m)[5] = Nums(decoded[m]) /\ Contents(m)[6] = Nums(dout[m])
         /\ Contents(m)[7] = Nums(held[m]) /\ Contents(m)[8] = InDec(m)
         /\ Contents(m)[9] = Nums(pkts[m]) /\ Contents(m)[10] = InReader(m)
         /\ Contents(m)[11] = {nread}
BY DEF Contents

LEMMA PlacesNext ==
  ASSUME NEW m
  PROVE  /\ Contents(m)'[1] = {shown'[m]} /\ Contents(m)'[2] = InSink(m)'
         /\ Contents(m)'[3] = Nums(filtered'[m]) /\ Contents(m)'[4] = Nums(fout'[m])
         /\ Contents(m)'[5] = Nums(decoded'[m]) /\ Contents(m)'[6] = Nums(dout'[m])
         /\ Contents(m)'[7] = Nums(held'[m]) /\ Contents(m)'[8] = InDec(m)'
         /\ Contents(m)'[9] = Nums(pkts'[m]) /\ Contents(m)'[10] = InReader(m)'
         /\ Contents(m)'[11] = {nread'}
BY DEF Contents

(* A packet moves one place down, or is dropped: the order is kept.        *)
LEMMA Moved ==
  ASSUME NEW S, NEW T, NEW k \in 1..10, Ordered(S),
         \A i \in 1..11 \ {k} : T[i] \subseteq S[i],
         T[k] \subseteq S[k] \cup S[k + 1], Below(T[k], T[k + 1])
  PROVE  Ordered(T)
<1> SUFFICES ASSUME NEW i \in 1..11, NEW j \in 1..11, i < j, NEW a \in T[i], NEW b \in T[j]
             PROVE  a <= b
  BY DEF Ordered, Below
<1>1. CASE i = k /\ j = k + 1
  BY <1>1 DEF Below
<1>2. CASE i = k /\ j # k + 1
  <2>1. b \in S[j] /\ (a \in S[k] \/ a \in S[k + 1]) /\ k < j /\ k + 1 < j /\ k + 1 \in 1..11
    BY <1>2
  <2> QED BY <2>1 DEF Ordered, Below
<1>3. CASE j = k
  <2>1. a \in S[i] /\ (b \in S[k] \/ b \in S[k + 1]) /\ i < k /\ i < k + 1 /\ k + 1 \in 1..11
    BY <1>3
  <2> QED BY <2>1 DEF Ordered, Below
<1>4. CASE i # k /\ j # k
  <2>1. a \in S[i] /\ b \in S[j]
    BY <1>4
  <2> QED BY <2>1 DEF Ordered, Below
<1> QED BY <1>1, <1>2, <1>3, <1>4

LEMMA Dropped ==
  ASSUME NEW S, NEW T, Ordered(S), \A i \in 1..11 : T[i] \subseteq S[i]
  PROVE  Ordered(T)
BY DEF Ordered, Below

(* The steps that drop packets of a stream at most.                        *)
Fewer(m) ==
  /\ NoOutput(m)' /\ shown'[m] = shown[m] /\ nread' = nread
  /\ InSink(m)' \subseteq InSink(m) /\ InDec(m)' \subseteq InDec(m)
  /\ InReader(m)' \subseteq InReader(m)
  /\ Thinner(filtered'[m], filtered[m]) /\ Thinner(fout'[m], fout[m])
  /\ Thinner(decoded'[m], decoded[m]) /\ Thinner(dout'[m], dout[m])
  /\ Thinner(held'[m], held[m]) /\ Thinner(pkts'[m], pkts[m])

LEMMA OrderFewer ==
  ASSUME NEW m, InOrderOf(m), Fewer(m)
  PROVE  InOrderOf(m)'
<1>1. \A i \in 1..11 : Contents(m)'[i] \subseteq Contents(m)[i]
  <2>1. /\ Contents(m)'[1] \subseteq Contents(m)[1] /\ Contents(m)'[2] \subseteq Contents(m)[2]
        /\ Contents(m)'[3] \subseteq Contents(m)[3] /\ Contents(m)'[4] \subseteq Contents(m)[4]
        /\ Contents(m)'[5] \subseteq Contents(m)[5] /\ Contents(m)'[6] \subseteq Contents(m)[6]
        /\ Contents(m)'[7] \subseteq Contents(m)[7] /\ Contents(m)'[8] \subseteq Contents(m)[8]
        /\ Contents(m)'[9] \subseteq Contents(m)[9] /\ Contents(m)'[10] \subseteq Contents(m)[10]
        /\ Contents(m)'[11] \subseteq Contents(m)[11]
    BY Places, PlacesNext DEF Fewer, Thinner
  <2> QED BY <2>1
<1>2. Ordered(Contents(m)')
  BY <1>1, Dropped DEF InOrderOf
<1>3. AllSorted(m)'
  BY DEF Fewer, Thinner, InOrderOf, AllSorted
<1> QED BY <1>2, <1>3 DEF InOrderOf, Fewer, Ordered

(* ... and those of the threads that do not touch it.                      *)
View(m) == <<shown[m], shand[m], filtered[m], fout[m], decoded[m], dout[m], held[m],
             dec[m], dhand[m], pkts[m], rd, rhand, nread>>

LEMMA FewerSame ==
  ASSUME NEW m, InOrderOf(m), UNCHANGED View(m)
  PROVE  Fewer(m)
BY NumsNone DEF View, Fewer, InOrderOf, NoOutput, InSink, InDec, InReader

(* The order holds at first: nothing has been read.                        *)
LEMMA OrderInit == Init => OrderInv
<1> SUFFICES ASSUME Init, NEW m \in Streams PROVE InOrderOf(m)
  BY DEF OrderInv
<1>1. /\ shown[m] = 0 /\ nread = 0 /\ InSink(m) = {} /\ InDec(m) = {} /\ InReader(m) = {}
      /\ Nums(filtered[m]) = {} /\ Nums(fout[m]) = {} /\ Nums(decoded[m]) = {} /\ Nums(dout[m]) = {}
      /\ Nums(held[m]) = {} /\ Nums(pkts[m]) = {}
  BY NumsNone, PlayerAssumption DEF Init, InSink, InDec, InReader, Outs, Streams
<1>2. AllSorted(m) /\ NoOutput(m)
  BY NumsNone DEF Init, AllSorted, NoOutput, Outs
<1>3. \A i \in 1..11 : Contents(m)[i] \in {{}, {0}}
  <2>1. /\ Contents(m)[1] = {0} /\ Contents(m)[2] = {} /\ Contents(m)[3] = {} /\ Contents(m)[4] = {}
        /\ Contents(m)[5] = {} /\ Contents(m)[6] = {} /\ Contents(m)[7] = {} /\ Contents(m)[8] = {}
        /\ Contents(m)[9] = {} /\ Contents(m)[10] = {} /\ Contents(m)[11] = {0}
    BY <1>1, Places
  <2> QED BY <2>1
<1>4. Ordered(Contents(m))
  <2> SUFFICES ASSUME NEW i \in 1..11, NEW j \in 1..11, NEW a \in Contents(m)[i], NEW b \in Contents(m)[j]
               PROVE  a <= b
    BY DEF Ordered, Below
  <2>1. a = 0 /\ b = 0
    BY <1>3
  <2> QED BY <2>1
<1> QED BY <1>2, <1>4 DEF InOrderOf

-----------------------------------------------------------------------------
(* The steps of each thread keep the order.                                *)
Shrinks(m, i) == Contents(m)'[i] \subseteq Contents(m)[i]

LEMMA OrderMoved ==
  ASSUME NEW m, InOrderOf(m), NEW k \in 1..10, NoOutput(m)', AllSorted(m)',
         \A i \in 1..11 \ {k} : Shrinks(m, i),
         Contents(m)'[k] \subseteq Contents(m)[k] \cup Contents(m)[k + 1],
         Below(Contents(m)'[k], Contents(m)'[k + 1])
  PROVE  InOrderOf(m)'
<1>1. Ordered(Contents(m)')
  BY Moved DEF InOrderOf, Shrinks
<1> QED BY <1>1 DEF InOrderOf, Ordered

LEMMA SinkOrder ==
  ASSUME TypeInv, NEW m \in Streams, InOrderOf(m), Sink(m)
  PROVE  InOrderOf(m)' /\ shown'[m] >= shown[m]
<1>1. /\ UNCHANGED <<decVars, filVars, decoded, rd, rhand, nread>> /\ Null \notin Nat
      /\ shown \in [Streams -> Pkt \cup {0}] /\ shand \in [Streams -> Frames]
      /\ filtered \in [Streams -> Seq(Frames)] /\ pkts \in [Outs -> Seq(Packets)] /\ "audio" \in Outs
      /\ \A n \in Frames : n = Null \/ n \in Pkt
  BY PlayerAssumption DEF Sink, SnkTop, AudioFetch, SnkPop, SnkFrame, SnkRest, readerVars, TypeInv,
     TypeOK, TypeSinks, TypeQueues, Outs, Streams, Frames
<1>2. /\ NoOutput(m)' /\ InDec(m)' = InDec(m) /\ InReader(m)' = InReader(m)
      /\ UNCHANGED <<fout, decoded, dout, held, nread>>
  BY <1>1 DEF InOrderOf, NoOutput, InDec, InReader, decVars, filVars
<1>3. shown[m] \in Nat /\ shown[m] <= shown[m]
  BY <1>1 DEF Pkt
<1>4. ASSUME shown'[m] = shown[m], InSink(m)' = InSink(m), Thinner(filtered'[m], filtered[m]),
             Thinner(pkts'[m], pkts[m])
      PROVE  InOrderOf(m)' /\ shown'[m] >= shown[m]
  <2>1. Fewer(m)
    BY <1>2, <1>4, NumsNone DEF Fewer
  <2> QED BY <1>3, <1>4, <2>1, OrderFewer
<1>5. CASE SnkTop(m)
  <2>1. /\ UNCHANGED <<pkts, shand, shown>>
        /\ filtered'[m] = <<>> \/ filtered'[m] = filtered[m]
    BY <1>1, <1>5 DEF SnkTop
  <2> QED BY <1>4, <2>1, NumsNone DEF InSink
<1>6. CASE m = "audio" /\ AudioFetch
  <2>1. /\ UNCHANGED <<filtered, shand, shown>>
        /\ pkts'[m] = RemoveLatency(pkts[m]) \/ pkts'[m] = pkts[m]
    BY <1>1, <1>6 DEF AudioFetch
  <2>2. Thinner(pkts'[m], pkts[m])
    BY <1>1, <1>6, <2>1, NumsLatest, NumsNone
  <2> QED BY <1>4, <2>1, <2>2, NumsNone DEF InSink
<1>7. CASE SnkPop(m)
  <2>1. /\ UNCHANGED <<pkts, shown>> /\ filtered[m] \in Seq(Frames) /\ filtered[m] # <<>>
        /\ shand'[m] = Head(filtered[m]) /\ filtered'[m] = Tail(filtered[m])
    BY <1>1, <1>7 DEF SnkPop
  <2>2. /\ Nums(filtered[m]) = Nums(filtered'[m]) \cup InSink(m)'
        /\ Thinner(filtered'[m], filtered[m]) /\ Below(InSink(m)', Nums(filtered'[m]))
    BY <2>1, NumsPop DEF InSink, InOrderOf, AllSorted
  <2>3. AllSorted(m)'
    BY <1>2, <2>1, <2>2 DEF InOrderOf, AllSorted, Thinner
  <2>4. \A i \in 1..11 \ {2} : Shrinks(m, i)
    <3>1. /\ Shrinks(m, 1) /\ Shrinks(m, 3) /\ Shrinks(m, 4) /\ Shrinks(m, 5) /\ Shrinks(m, 6)
          /\ Shrinks(m, 7) /\ Shrinks(m, 8) /\ Shrinks(m, 9) /\ Shrinks(m, 10) /\ Shrinks(m, 11)
      BY <1>2, <2>1, <2>2, Places, PlacesNext DEF Shrinks
    <3> QED BY <3>1
  <2>5. /\ Contents(m)'[2] \subseteq Contents(m)[2] \cup Contents(m)[3]
        /\ Below(Contents(m)'[2], Contents(m)'[3])
    BY <2>2, Places, PlacesNext
  <2>6. InOrderOf(m)'
    BY <1>2, <2>3, <2>4, <2>5, OrderMoved
  <2> QED BY <1>3, <2>1, <2>6
<1>8. CASE SnkFrame(m)
  <2>1. /\ UNCHANGED <<pkts, filtered>> /\ shand'[m] = Null
        /\ shown'[m] = shown[m] \/ (shown'[m] = shand[m] /\ shand[m] # Null)
    BY <1>1, <1>8 DEF SnkFrame
  <2>2. InSink(m)' = {} /\ (shown'[m] # shown[m] => shown'[m] \in InSink(m))
    BY <1>1, <2>1 DEF InSink, Pkt
  <2>3. AllSorted(m)'
    BY <1>2, <2>1 DEF InOrderOf, AllSorted
  <2>4. \A i \in 1..11 \ {1} : Shrinks(m, i)
    <3>1. /\ Shrinks(m, 2) /\ Shrinks(m, 3) /\ Shrinks(m, 4) /\ Shrinks(m, 5) /\ Shrinks(m, 6)
          /\ Shrinks(m, 7) /\ Shrinks(m, 8) /\ Shrinks(m, 9) /\ Shrinks(m, 10) /\ Shrinks(m, 11)
      BY <1>2, <2>1, <2>2, Places, PlacesNext DEF Shrinks
    <3> QED BY <3>1
  <2>5. /\ Contents(m)'[1] \subseteq Contents(m)[1] \cup Contents(m)[2]
        /\ Below(Contents(m)'[1], Contents(m)'[2])
    BY <2>2, Places, PlacesNext DEF Below
  <2>6. InOrderOf(m)'
    BY <1>2, <2>3, <2>4, <2>5, OrderMoved
  <2>7. shown'[m] >= shown[m]
    <3>1. CASE shown'[m] # shown[m]
      <4>1. Below(Contents(m)[1], Contents(m)[2])
        BY DEF InOrderOf, Ordered
      <4> QED BY <2>2, <3>1, <4>1, Places DEF Below, InSink
    <3> QED BY <1>3, <3>1
  <2> QED BY <2>6, <2>7
<1> QED BY <1>5, <1>6, <1>7, <1>8 DEF Sink

LEMMA FilterOrder ==
  ASSUME TypeInv, NEW m \in Streams, InOrderOf(m), Filter(m)
  PROVE  InOrderOf(m)'
<1>1. /\ UNCHANGED <<decVars, snkVars, pkts, rd, rhand, nread>> /\ Null \notin Nat
      /\ filtered \in [Streams -> Seq(Frames)] /\ decoded \in [Streams -> Seq(Frames)]
      /\ fout \in [Streams -> Seq(Frames)]
  BY PlayerAssumption DEF Filter, FilPop, FilTerminated, FilFrame, FilPush, FilRest, readerVars, TypeInv,
     TypeOK, TypeFilters, TypeQueues
<1>2. /\ NoOutput(m)' /\ InSink(m)' = InSink(m) /\ InDec(m)' = InDec(m) /\ InReader(m)' = InReader(m)
      /\ UNCHANGED <<shown, dout, held, pkts, nread>>
  BY <1>1 DEF InOrderOf, NoOutput, InSink, InDec, InReader, decVars, snkVars
<1>3. ASSUME Thinner(filtered'[m], filtered[m]), Thinner(fout'[m], fout[m]),
             Thinner(decoded'[m], decoded[m])
      PROVE  InOrderOf(m)'
  <2>1. Fewer(m)
    BY <1>2, <1>3, NumsNone DEF Fewer
  <2> QED BY <2>1, OrderFewer
<1>4. CASE FilPop(m)
  <2>1. /\ UNCHANGED filtered /\ decoded[m] \in Seq(Frames) /\ decoded[m] # <<>>
        /\ fout'[m] = <<Head(decoded[m])>> /\ decoded'[m] = Tail(decoded[m])
    BY <1>1, <1>4 DEF FilPop
  <2>2. Nums(fout'[m]) = {Head(decoded[m])} \cap Nat /\ Sorted(fout'[m])
    BY <2>1, NumsOne
  <2>3. /\ Nums(decoded[m]) = Nums(decoded'[m]) \cup Nums(fout'[m])
        /\ Thinner(decoded'[m], decoded[m]) /\ Below(Nums(fout'[m]), Nums(decoded'[m]))
    BY <2>1, <2>2, NumsPop DEF InOrderOf, AllSorted
  <2>4. AllSorted(m)'
    BY <1>2, <2>1, <2>2, <2>3 DEF InOrderOf, AllSorted, Thinner
  <2>5. \A i \in 1..11 \ {4} : Shrinks(m, i)
    <3>1. /\ Shrinks(m, 1) /\ Shrinks(m, 2) /\ Shrinks(m, 3) /\ Shrinks(m, 5) /\ Shrinks(m, 6)
          /\ Shrinks(m, 7) /\ Shrinks(m, 8) /\ Shrinks(m, 9) /\ Shrinks(m, 10) /\ Shrinks(m, 11)
      BY <1>2, <2>1, <2>3, Places, PlacesNext DEF Shrinks
    <3> QED BY <3>1
  <2>6. /\ Contents(m)'[4] \subseteq Contents(m)[4] \cup Contents(m)[5]
        /\ Below(Contents(m)'[4], Contents(m)'[5])
    BY <2>3, Places, PlacesNext
  <2> QED BY <1>2, <2>4, <2>5, <2>6, OrderMoved
<1>5. CASE FilTerminated(m)
  <2>1. UNCHANGED decoded /\ filtered'[m] = <<>> /\ fout'[m] = <<Null>>
    BY <1>1, <1>5 DEF FilTerminated
  <2>2. Thinner(<<Null>>, fout[m])
    BY <1>1, NumsOne DEF Thinner
  <2> QED BY <1>3, <2>1, <2>2, NumsNone
<1>6. CASE FilFrame(m)
  <2>1. UNCHANGED <<decoded, filtered>>
    BY <1>6 DEF FilFrame
  <2>2. Thinner(fout'[m], fout[m])
    <3>1. CASE fout[m] = <<Null>>
      BY <1>6, <3>1, NumsNone DEF FilFrame
    <3>2. CASE fout[m] # <<Null>>
      <4>1. PICK n \in Nat : fout' = [fout EXCEPT ![m] = [i \in 1..n |-> Head(fout[m])]]
        BY <1>6, <3>2, PlayerAssumption DEF FilFrame
      <4>2. fout[m] \in Seq(Frames) /\ fout[m] # <<>>
        BY <1>1, <1>6 DEF FilFrame, TypeInv, InHand
      <4>3. {Head(fout[m])} \cap Nat \subseteq Nums(fout[m])
        BY <4>2, NumsPop
      <4>4. Nums(fout'[m]) \subseteq {Head(fout[m])} \cap Nat /\ Sorted(fout'[m])
        BY <1>1, <4>1, NumsCopies
      <4> QED BY <4>3, <4>4 DEF Thinner
    <3> QED BY <3>1, <3>2
  <2> QED BY <1>3, <2>1, <2>2, NumsNone
<1>7. CASE FilPush(m)
  <2>1. /\ UNCHANGED decoded /\ fout[m] \in Seq(Frames) /\ fout[m] # <<>>
        /\ filtered'[m] = Push(filtered[m], Head(fout[m])) /\ fout'[m] = Tail(fout[m])
        /\ filtered[m] \in Seq(Frames)
    BY <1>1, <1>7 DEF FilPush, TypeInv, InHand
  <2>2. Head(fout[m]) \in Frames
    BY <2>1, PopType
  <2> DEFINE one == {Head(fout[m])} \cap Nat
  <2>3. /\ Nums(fout[m]) = Nums(fout'[m]) \cup one
        /\ Thinner(fout'[m], fout[m]) /\ Below(one, Nums(fout'[m]))
    BY <2>1, NumsPop DEF InOrderOf, AllSorted
  <2>4. Below(Contents(m)[3], Contents(m)[4])
    BY DEF InOrderOf, Ordered
  <2>5. Below(Nums(filtered[m]), Nums(fout[m]))
    BY <2>4, Places
  <2>6. Nums(filtered'[m]) = Nums(filtered[m]) \cup one /\ Sorted(filtered'[m])
    <3>1. Below(Nums(filtered[m]), one)
      BY <2>3, <2>5 DEF Below
    <3> QED BY <2>1, <2>2, <3>1, NumsPush DEF InOrderOf, AllSorted
  <2>7. AllSorted(m)'
    BY <1>2, <2>1, <2>3, <2>6 DEF InOrderOf, AllSorted, Thinner
  <2> HIDE DEF one
  <2>8. \A i \in 1..11 \ {3} : Shrinks(m, i)
    <3>1. /\ Shrinks(m, 1) /\ Shrinks(m, 2) /\ Shrinks(m, 4) /\ Shrinks(m, 5) /\ Shrinks(m, 6)
          /\ Shrinks(m, 7) /\ Shrinks(m, 8) /\ Shrinks(m, 9) /\ Shrinks(m, 10) /\ Shrinks(m, 11)
      BY <1>2, <2>1, <2>3, Places, PlacesNext DEF Shrinks
    <3> QED BY <3>1
  <2>9. Contents(m)'[3] \subseteq Contents(m)[3] \cup Contents(m)[4]
    BY <2>3, <2>6, Places, PlacesNext
  <2>10. Below(Contents(m)'[3], Contents(m)'[4])
    <3>1. Below(Nums(filtered'[m]), Nums(fout'[m]))
      BY <2>3, <2>5, <2>6 DEF Below
    <3> QED BY <3>1, PlacesNext
  <2> QED BY <1>2, <2>7, <2>8, <2>9, <2>10, OrderMoved
<1> QED BY <1>4, <1>5, <1>6, <1>7 DEF Filter

(* A decoder: the codec takes a packet in and gives some of the oldest.    *)
LEMMA DecoderOrder ==
  ASSUME TypeInv, NEW m \in Streams, InOrderOf(m), Decoder(m)
  PROVE  InOrderOf(m)'
<1>1. /\ UNCHANGED <<filVars, snkVars, filtered, rd, rhand, nread>> /\ Null \notin Nat /\ Flush \notin Nat
      /\ decoded \in [Streams -> Seq(Frames)] /\ dout \in [Streams -> Seq(Frames)]
      /\ held \in [Streams -> Seq(Pkt)] /\ pkts \in [Outs -> Seq(Packets)]
      /\ dec \in [Streams -> {"off", "pop", "check", "emit", "done"}]
      /\ dhand \in [Streams -> Packets] /\ m \in Outs /\ m # "writer"
  BY PlayerAssumption DEF Decoder, DecPop, DecTerminated, DecFlush, DecSkip, DecDecode, DecEmit, DecPass,
     DecRest, readerVars, TypeInv, TypeOK, TypeDecoders, TypeQueues, Outs, Streams
<1>2. /\ InSink(m)' = InSink(m) /\ InReader(m)' = InReader(m)
      /\ UNCHANGED <<shown, filtered, fout, nread>>
  BY <1>1 DEF InSink, InReader, snkVars, filVars
<1>3. ASSUME NoOutput(m)', InDec(m)' \subseteq InDec(m), Thinner(decoded'[m], decoded[m]),
             Thinner(dout'[m], dout[m]), Thinner(held'[m], held[m]), Thinner(pkts'[m], pkts[m])
      PROVE  InOrderOf(m)'
  <2>1. Fewer(m)
    BY <1>2, <1>3, NumsNone DEF Fewer
  <2> QED BY <2>1, OrderFewer
<1>4. CASE DecPop(m)
  <2>1. /\ UNCHANGED <<decoded, dout, held>> /\ pkts[m] \in Seq(Packets) /\ pkts[m] # <<>>
        /\ dhand'[m] = Head(pkts[m]) /\ pkts'[m] = Tail(pkts[m])
        /\ dec[m] = "pop" /\ dec'[m] = "check"
    BY <1>1, <1>4 DEF DecPop
  <2>2. NoOutput(m)' /\ InDec(m)' = {Head(pkts[m])} \cap Nat
    BY <2>1 DEF InOrderOf, NoOutput, InDec
  <2>3. /\ Nums(pkts[m]) = Nums(pkts'[m]) \cup InDec(m)'
        /\ Thinner(pkts'[m], pkts[m]) /\ Below(InDec(m)', Nums(pkts'[m]))
    BY <2>1, <2>2, NumsPop DEF InOrderOf, AllSorted
  <2>4. AllSorted(m)'
    BY <1>2, <2>1, <2>3 DEF InOrderOf, AllSorted, Thinner
  <2>5. \A i \in 1..11 \ {8} : Shrinks(m, i)
    <3>1. /\ Shrinks(m, 1) /\ Shrinks(m, 2) /\ Shrinks(m, 3) /\ Shrinks(m, 4) /\ Shrinks(m, 5)
          /\ Shrinks(m, 6) /\ Shrinks(m, 7) /\ Shrinks(m, 9) /\ Shrinks(m, 10) /\ Shrinks(m, 11)
      BY <1>2, <2>1, <2>3, Places, PlacesNext DEF Shrinks
    <3> QED BY <3>1
  <2>6. /\ Contents(m)'[8] \subseteq Contents(m)[8] \cup Contents(m)[9]
        /\ Below(Contents(m)'[8], Contents(m)'[9])
    BY <2>3, Places, PlacesNext
  <2> QED BY <2>2, <2>4, <2>5, <2>6, OrderMoved
<1>5. CASE DecTerminated(m)
  <2>1. /\ UNCHANGED <<pkts, held>> /\ decoded'[m] = <<>> /\ dout'[m] = <<Null>>
        /\ dec'[m] = "emit"
    BY <1>1, <1>5 DEF DecTerminated
  <2>2. Thinner(<<Null>>, dout[m])
    BY <1>1, NumsOne DEF Thinner
  <2>3. NoOutput(m)' /\ InDec(m)' = {}
    BY <2>1 DEF NoOutput, InDec
  <2> QED BY <1>3, <2>1, <2>2, <2>3, NumsNone
<1>6. CASE DecFlush(m) \/ DecSkip(m)
  <2>1. /\ UNCHANGED <<pkts, decoded, dout>> /\ (held'[m] = <<>> \/ held'[m] = held[m])
        /\ dec[m] = "check" /\ dec'[m] = "pop"
    BY <1>1, <1>6 DEF DecFlush, DecSkip, Flushed
  <2>2. NoOutput(m)' /\ InDec(m)' = {}
    BY <2>1 DEF InOrderOf, NoOutput, InDec
  <2> QED BY <1>3, <2>1, <2>2, NumsNone
<1>7. CASE DecDecode(m)
  <2>1. /\ UNCHANGED <<pkts, decoded>> /\ dec[m] = "check" /\ dec'[m] = "emit" /\ dhand[m] # Flush
        /\ held[m] \in Seq(Pkt) /\ Pkt \subseteq Nat
    BY <1>1, <1>7 DEF DecDecode, Pkt
  <2>2. NoOutput(m)' /\ InDec(m)' = {} /\ InDec(m) = {dhand[m]} \cap Nat
    BY <2>1 DEF NoOutput, InDec
  <2>3. CASE dhand[m] = Null
    <3>1. dout'[m] = Append(held[m], Null) /\ held'[m] = <<>>
      BY <1>1, <1>7, <2>3 DEF DecDecode, Drained
    <3>2. held[m] \in Seq(Frames) /\ Null \in Frames
      BY <2>1 DEF Frames
    <3>3. Thinner(dout'[m], held[m])
      <4>1. Thinner(Push(held[m], Null), held[m])
        BY <1>1, <3>2, NumsPush
      <4> QED BY <3>1, <4>1 DEF Push
    <3>4. AllSorted(m)'
      BY <1>2, <2>1, <3>1, <3>3, NumsNone DEF InOrderOf, AllSorted, Thinner
    <3>5. \A i \in 1..11 \ {6} : Shrinks(m, i)
      <4>1. /\ Shrinks(m, 1) /\ Shrinks(m, 2) /\ Shrinks(m, 3) /\ Shrinks(m, 4) /\ Shrinks(m, 5)
            /\ Shrinks(m, 7) /\ Shrinks(m, 8) /\ Shrinks(m, 9) /\ Shrinks(m, 10) /\ Shrinks(m, 11)
        BY <1>2, <2>1, <2>2, <3>1, NumsNone, Places, PlacesNext DEF Shrinks
      <4> QED BY <4>1
    <3>6. /\ Contents(m)'[6] \subseteq Contents(m)[6] \cup Contents(m)[7]
          /\ Contents(m)'[7] = {}
      <4>1. Nums(dout'[m]) \subseteq Nums(held[m]) /\ Nums(held'[m]) = {}
        BY <3>1, <3>3, NumsNone DEF Thinner
      <4> QED BY <4>1, Places, PlacesNext
    <3>7. Below(Contents(m)'[6], Contents(m)'[7])
      BY <3>6 DEF Below
    <3> QED BY <2>2, <3>4, <3>5, <3>6, <3>7, OrderMoved
  <2>4. CASE dhand[m] # Null
    <3> DEFINE all == Append(held[m], dhand[m])
    <3>1. dhand[m] \in Pkt /\ InDec(m) = {dhand[m]}
      BY <1>1, <2>1, <2>2, <2>4 DEF Packets
    <3>2. PICK n \in 0..Len(all) : /\ dout'[m] = SubSeq(all, 1, n)
                                   /\ held'[m] = SubSeq(all, n + 1, Len(all))
      <4>1. PICK n \in 0..Len(all) : /\ dout' = [dout EXCEPT ![m] = SubSeq(all, 1, n)]
                                     /\ held' = [held EXCEPT ![m] = SubSeq(all, n + 1, Len(all))]
        BY <1>7, <2>4 DEF DecDecode
      <4> QED BY <1>1, <4>1
    <3>3. all \in Seq(Pkt) /\ Len(all) \in Nat
      BY <2>1, <3>1, AppendProperties, LenProperties
    <3>4. /\ Below(Contents(m)[7], Contents(m)[8]) /\ Sorted(held[m])
      BY DEF InOrderOf, AllSorted, Ordered
    <3>5. Nums(all) = Nums(held[m]) \cup InDec(m) /\ Sorted(all)
      <4>1. Below(Nums(held[m]), {dhand[m]} \cap Nat)
        BY <2>2, <3>4, Places
      <4>2. /\ Nums(Push(held[m], dhand[m])) = Nums(held[m]) \cup ({dhand[m]} \cap Nat)
            /\ Sorted(Push(held[m], dhand[m]))
        BY <2>1, <3>1, <3>4, <4>1, NumsPush
      <4> QED BY <2>2, <4>2 DEF Push
    <3> HIDE DEF all
    <3>6. /\ Thinner(dout'[m], all) /\ Thinner(held'[m], all)
          /\ \A a \in Nums(dout'[m]) : \E i \in 1..n : all[i] = a
          /\ \A b \in Nums(held'[m]) : \E j \in (n + 1)..Len(all) : all[j] = b
      <4>1. /\ 1 \in 1..(Len(all) + 1) /\ n \in 0..Len(all) /\ 1 <= n + 1
            /\ n + 1 \in 1..(Len(all) + 1) /\ Len(all) \in 0..Len(all) /\ n + 1 <= Len(all) + 1
        BY <3>3
      <4>2. /\ Thinner(SubSeq(all, 1, n), all)
            /\ \A a : a \in Nums(SubSeq(all, 1, n)) <=> a \in Nat /\ \E i \in 1..n : all[i] = a
        BY <3>3, <4>1, NumsPart
      <4>3. /\ Thinner(SubSeq(all, n + 1, Len(all)), all)
            /\ \A a : a \in Nums(SubSeq(all, n + 1, Len(all)))
                 <=> a \in Nat /\ \E i \in (n + 1)..Len(all) : all[i] = a
        BY <3>3, <4>1, NumsPart
      <4> QED BY <3>2, <4>2, <4>3
    <3>7. Below(Nums(dout'[m]), Nums(held'[m]))
      <4> SUFFICES ASSUME NEW a \in Nums(dout'[m]), NEW b \in Nums(held'[m]) PROVE a <= b
        BY DEF Below
      <4>1. PICK i \in 1..n : all[i] = a
        BY <3>6
      <4>2. PICK j \in (n + 1)..Len(all) : all[j] = b
        BY <3>6
      <4>3. i \in 1..Len(all) /\ j \in 1..Len(all) /\ i < j /\ a \in Nat /\ b \in Nat
        BY <3>3 DEF Nums
      <4> QED BY <3>5, <4>1, <4>2, <4>3 DEF Sorted
    <3>8. AllSorted(m)'
      BY <1>2, <2>1, <3>5, <3>6 DEF InOrderOf, AllSorted, Thinner
    <3> DEFINE T == [i \in 1..11 |-> IF i = 7 THEN Nums(all)
                                     ELSE IF i = 8 THEN {} ELSE Contents(m)[i]]
    <3>9. /\ T[1] = Contents(m)[1] /\ T[2] = Contents(m)[2] /\ T[3] = Contents(m)[3]
           /\ T[4] = Contents(m)[4] /\ T[5] = Contents(m)[5] /\ T[6] = Contents(m)[6]
           /\ T[7] = Nums(all) /\ T[8] = {} /\ T[9] = Contents(m)[9]
           /\ T[10] = Contents(m)[10] /\ T[11] = Contents(m)[11]
      OBVIOUS
    <3> HIDE DEF T
    <3>10. Ordered(T)
      <4>1. \A i \in 1..11 \ {7} : T[i] \subseteq Contents(m)[i]
        <5>1. /\ T[1] \subseteq Contents(m)[1] /\ T[2] \subseteq Contents(m)[2]
              /\ T[3] \subseteq Contents(m)[3] /\ T[4] \subseteq Contents(m)[4]
              /\ T[5] \subseteq Contents(m)[5] /\ T[6] \subseteq Contents(m)[6]
              /\ T[8] \subseteq Contents(m)[8] /\ T[9] \subseteq Contents(m)[9]
              /\ T[10] \subseteq Contents(m)[10] /\ T[11] \subseteq Contents(m)[11]
          BY <3>9
        <5> QED BY <5>1
      <4>2. T[7] \subseteq Contents(m)[7] \cup Contents(m)[8] /\ Below(T[7], T[8])
        BY <3>5, <3>9, Places DEF Below
      <4>3. 7 \in 1..10 /\ 7 + 1 = 8
        OBVIOUS
      <4> QED BY <4>1, <4>2, <4>3, Moved DEF InOrderOf
    <3>11. \A i \in 1..11 \ {6} : Contents(m)'[i] \subseteq T[i]
      <4>1. /\ Contents(m)'[1] \subseteq T[1] /\ Contents(m)'[2] \subseteq T[2]
            /\ Contents(m)'[3] \subseteq T[3] /\ Contents(m)'[4] \subseteq T[4]
            /\ Contents(m)'[5] \subseteq T[5] /\ Contents(m)'[7] \subseteq T[7]
            /\ Contents(m)'[8] \subseteq T[8] /\ Contents(m)'[9] \subseteq T[9]
            /\ Contents(m)'[10] \subseteq T[10] /\ Contents(m)'[11] \subseteq T[11]
        BY <1>2, <2>1, <2>2, <3>6, <3>9, Places, PlacesNext DEF Thinner
      <4> QED BY <4>1
    <3>12. /\ Contents(m)'[6] \subseteq T[6] \cup T[6 + 1]
           /\ Below(Contents(m)'[6], Contents(m)'[6 + 1])
      BY <3>6, <3>7, <3>9, PlacesNext DEF Thinner
    <3>13. Ordered(Contents(m)')
      BY <3>10, <3>11, <3>12, Moved
    <3> QED BY <2>2, <3>8, <3>13 DEF InOrderOf, Ordered
  <2> QED BY <2>3, <2>4
<1>8. CASE DecEmit(m)
  <2>1. /\ UNCHANGED <<pkts, dec, dhand, held>> /\ dec[m] = "emit"
        /\ dout[m] \in Seq(Frames) /\ dout[m] # <<>> /\ decoded[m] \in Seq(Frames)
        /\ decoded'[m] = Push(decoded[m], Head(dout[m])) /\ dout'[m] = Tail(dout[m])
    BY <1>1, <1>8 DEF DecEmit
  <2>2. NoOutput(m)' /\ InDec(m)' = InDec(m) /\ Head(dout[m]) \in Frames
    BY <2>1, PopType DEF NoOutput, InDec
  <2> DEFINE one == {Head(dout[m])} \cap Nat
  <2>3. /\ Nums(dout[m]) = Nums(dout'[m]) \cup one
        /\ Thinner(dout'[m], dout[m]) /\ Below(one, Nums(dout'[m]))
    BY <2>1, NumsPop DEF InOrderOf, AllSorted
  <2>4. Below(Contents(m)[5], Contents(m)[6])
    BY DEF InOrderOf, Ordered
  <2>5. Below(Nums(decoded[m]), Nums(dout[m]))
    BY <2>4, Places
  <2>6. Nums(decoded'[m]) = Nums(decoded[m]) \cup one /\ Sorted(decoded'[m])
    <3>1. Below(Nums(decoded[m]), one)
      BY <2>3, <2>5 DEF Below
    <3> QED BY <2>1, <2>2, <3>1, NumsPush DEF InOrderOf, AllSorted
  <2>7. AllSorted(m)'
    BY <1>2, <2>1, <2>3, <2>6 DEF InOrderOf, AllSorted, Thinner
  <2> HIDE DEF one
  <2>8. \A i \in 1..11 \ {5} : Shrinks(m, i)
    <3>1. /\ Shrinks(m, 1) /\ Shrinks(m, 2) /\ Shrinks(m, 3) /\ Shrinks(m, 4) /\ Shrinks(m, 6)
          /\ Shrinks(m, 7) /\ Shrinks(m, 8) /\ Shrinks(m, 9) /\ Shrinks(m, 10) /\ Shrinks(m, 11)
      BY <1>2, <2>1, <2>2, <2>3, Places, PlacesNext DEF Shrinks
    <3> QED BY <3>1
  <2>9. Contents(m)'[5] \subseteq Contents(m)[5] \cup Contents(m)[6]
    BY <2>3, <2>6, Places, PlacesNext
  <2>10. Below(Contents(m)'[5], Contents(m)'[6])
    <3>1. Below(Nums(decoded'[m]), Nums(dout'[m]))
      BY <2>3, <2>5, <2>6 DEF Below
    <3> QED BY <3>1, PlacesNext
  <2> QED BY <2>2, <2>7, <2>8, <2>9, <2>10, OrderMoved
<1>9. CASE DecPass(m)
  <2>1. /\ UNCHANGED <<decoded, dout, held>> /\ dout[m] = <<>> /\ dec[m] = "emit"
        /\ dec'[m] \in {"done", "pop"}
    BY <1>1, <1>9 DEF DecPass
  <2>2. pkts'[m] = pkts[m]
    <3>1. UNCHANGED pkts \/ pkts' = [pkts EXCEPT !["writer"] = Push(@, dhand[m])]
      BY <1>9 DEF DecPass, PushPkt
    <3> QED BY <1>1, <3>1
  <2>3. NoOutput(m)' /\ InDec(m)' = {}
    BY <2>1 DEF NoOutput, InDec
  <2> QED BY <1>3, <2>1, <2>2, <2>3, NumsNone
<1> QED BY <1>4, <1>5, <1>6, <1>7, <1>8, <1>9 DEF Decoder

(* The reader: what it reads is newer than all it has read.                *)
LEMMA ReaderOrder ==
  ASSUME TypeInv, NEW m \in Streams, InOrderOf(m), Reader
  PROVE  InOrderOf(m)'
<1>1. /\ UNCHANGED <<decVars, filVars, snkVars, filtered, decoded>> /\ Null \notin Nat
      /\ pkts \in [Outs -> Seq(Packets)] /\ rhand \in Outs \X Frames /\ m \in Outs
      /\ nread \in 0..MaxPkts /\ Null \in Packets
  BY PlayerAssumption DEF Reader, ReadTop, ReadSeek, ReadPacket, ReadSeekDone, ReadDeref, ReadPush, ReadEOF,
     ReadEndMarker, ReadError, ReadErrorDone, ReaderRest, TypeInv, TypeOK, TypeReader, TypeQueues, Outs,
     Streams, Packets
<1>2. /\ NoOutput(m)' /\ InSink(m)' = InSink(m) /\ InDec(m)' = InDec(m)
      /\ UNCHANGED <<shown, filtered, fout, decoded, dout, held>>
  BY <1>1 DEF InOrderOf, NoOutput, InSink, InDec, decVars, filVars, snkVars
<1>3. ASSUME nread' = nread, InReader(m)' \subseteq InReader(m), Thinner(pkts'[m], pkts[m])
      PROVE  InOrderOf(m)'
  <2>1. Fewer(m)
    BY <1>2, <1>3, NumsNone DEF Fewer
  <2> QED BY <2>1, OrderFewer
<1>4. CASE \E o \in Outs : ReadPacket(o)
  <2>1. PICK o \in Outs : ReadPacket(o)
    BY <1>4
  <2>2. /\ nread' = nread + 1 /\ rhand'[2] = nread + 1 /\ pkts' = pkts
        /\ rd \notin {"clear2", "deref", "push"}
    BY <2>1 DEF ReadPacket
  <2>3. InReader(m) = {} /\ InReader(m)' \subseteq {nread + 1}
    BY <2>2 DEF InReader
  <2>4. AllSorted(m)'
    BY <1>2, <2>2 DEF InOrderOf, AllSorted
  <2>5. \A i \in 1..9 : Shrinks(m, i)
    <3>1. /\ Shrinks(m, 1) /\ Shrinks(m, 2) /\ Shrinks(m, 3) /\ Shrinks(m, 4) /\ Shrinks(m, 5)
          /\ Shrinks(m, 6) /\ Shrinks(m, 7) /\ Shrinks(m, 8) /\ Shrinks(m, 9)
      BY <1>2, <2>2, Places, PlacesNext DEF Shrinks
    <3> QED BY <3>1
  <2>6. /\ Contents(m)'[10] \subseteq {nread + 1} /\ Contents(m)'[11] = {nread + 1}
        /\ Contents(m)[11] = {nread}
    BY <2>2, <2>3, Places, PlacesNext
  <2>7. Ordered(Contents(m)')
    <3> SUFFICES ASSUME NEW i \in 1..11, NEW j \in 1..11, i < j,
                        NEW a \in Contents(m)'[i], NEW b \in Contents(m)'[j]
                 PROVE  a <= b
      BY DEF Ordered, Below
    <3>1. CASE j \in 1..9
      <4>1. i \in 1..9
        BY <3>1
      <4> QED BY <2>5, <3>1, <4>1 DEF Shrinks, InOrderOf, Ordered, Below
    <3>2. CASE j \in 10..11
      <4>1. b = nread + 1
        BY <2>6, <3>2
      <4>2. CASE i \in 1..9
        <5>1. a \in Contents(m)[i] /\ i < 11 /\ 11 \in 1..11 /\ nread \in Contents(m)[11]
          BY <2>5, <2>6, <4>2 DEF Shrinks
        <5>2. a <= nread
          BY <5>1 DEF InOrderOf, Ordered, Below
        <5>3. a \in Nat
          <6>1. /\ Contents(m)[1] \subseteq Nat /\ Contents(m)[2] \subseteq Nat
                /\ Contents(m)[3] \subseteq Nat /\ Contents(m)[4] \subseteq Nat
                /\ Contents(m)[5] \subseteq Nat /\ Contents(m)[6] \subseteq Nat
                /\ Contents(m)[7] \subseteq Nat /\ Contents(m)[8] \subseteq Nat
                /\ Contents(m)[9] \subseteq Nat
            <7>1. {shown[m]} \subseteq Nat /\ InSink(m) \subseteq Nat /\ InDec(m) \subseteq Nat
              BY DEF InSink, InDec, TypeInv, TypeOK, TypeSinks, Pkt
            <7>2. \A q : Nums(q) \subseteq Nat
              BY DEF Nums
            <7>3. /\ Nums(filtered[m]) \subseteq Nat /\ Nums(fout[m]) \subseteq Nat
                  /\ Nums(decoded[m]) \subseteq Nat /\ Nums(dout[m]) \subseteq Nat
                  /\ Nums(held[m]) \subseteq Nat /\ Nums(pkts[m]) \subseteq Nat
              BY <7>2
            <7> QED BY <7>1, <7>3, Places
          <6> QED BY <4>2, <5>1, <6>1
        <5> QED BY <1>1, <4>1, <5>2, <5>3
      <4>3. CASE i = 10
        <5>1. a = nread + 1
          BY <2>6, <4>3
        <5> QED BY <1>1, <4>1, <5>1
      <4> QED BY <3>2, <4>2, <4>3
    <3> QED BY <3>1, <3>2
  <2> QED BY <1>2, <2>4, <2>7 DEF InOrderOf, Ordered
<1>5. CASE ReadTop \/ ReadSeek \/ ReadSeekDone \/ ReadDeref \/ ReadEOF \/ ReadError \/ ReadErrorDone
  <2>1. /\ UNCHANGED <<pkts, rhand, nread>>
        /\ rd' \in {"clear2", "deref", "push"} => rd \in {"clear2", "deref", "push"}
    BY <1>5 DEF ReadTop, ReadSeek, ReadSeekDone, ReadDeref, ReadEOF, ReadError, ReadErrorDone, Route
  <2> QED BY <1>3, <2>1, NumsNone DEF InReader
<1>6. CASE ReadPush
  <2> DEFINE o == rhand[1]
  <2>1. /\ UNCHANGED <<rhand, nread>> /\ rd = "push" /\ rd' \in {"done", "top"}
        /\ pkts' = [pkts EXCEPT ![o] = Push(@, rhand[2])] /\ o \in Outs /\ rhand[2] \in Frames
    BY <1>1, <1>6 DEF ReadPush, PushPkt
  <2>2. InReader(m)' = {}
    BY <2>1 DEF InReader
  <2>3. CASE o # m
    <3>1. pkts'[m] = pkts[m]
      BY <1>1, <2>1, <2>3
    <3> QED BY <1>3, <2>1, <2>2, <3>1, NumsNone
  <2>4. CASE o = m
    <3>1. /\ pkts'[m] = Push(pkts[m], rhand[2]) /\ InReader(m) = {rhand[2]} \cap Nat
          /\ pkts[m] \in Seq(Packets) /\ rhand[2] \in Packets
      BY <1>1, <2>1, <2>4 DEF InReader, Frames, Packets
    <3>2. Below(Contents(m)[9], Contents(m)[10]) /\ Sorted(pkts[m])
      BY DEF InOrderOf, Ordered, AllSorted
    <3>3. Nums(pkts'[m]) = Nums(pkts[m]) \cup InReader(m) /\ Sorted(pkts'[m])
      <4>1. Below(Nums(pkts[m]), {rhand[2]} \cap Nat)
        BY <3>1, <3>2, Places
      <4> QED BY <3>1, <3>2, <4>1, NumsPush
    <3>4. AllSorted(m)'
      BY <1>2, <3>3 DEF InOrderOf, AllSorted
    <3>5. \A i \in 1..11 \ {9} : Shrinks(m, i)
      <4>1. /\ Shrinks(m, 1) /\ Shrinks(m, 2) /\ Shrinks(m, 3) /\ Shrinks(m, 4) /\ Shrinks(m, 5)
            /\ Shrinks(m, 6) /\ Shrinks(m, 7) /\ Shrinks(m, 8) /\ Shrinks(m, 10) /\ Shrinks(m, 11)
        BY <1>2, <2>1, <2>2, Places, PlacesNext DEF Shrinks
      <4> QED BY <4>1
    <3>6. /\ Contents(m)'[9] \subseteq Contents(m)[9] \cup Contents(m)[10]
          /\ Below(Contents(m)'[9], Contents(m)'[10])
      BY <2>2, <3>3, Places, PlacesNext DEF Below
    <3> QED BY <1>2, <3>4, <3>5, <3>6, OrderMoved
  <2> QED BY <2>3, <2>4
<1>7. CASE ReadEndMarker
  <2>1. /\ UNCHANGED <<rhand, nread>> /\ rd' \notin {"clear2", "deref", "push"}
        /\ \E o \in Outs : pkts' = pkts \/ pkts' = [pkts EXCEPT ![o] = Push(@, Null)]
    <3>1. UNCHANGED <<rhand, nread>>
      BY <1>7 DEF ReadEndMarker
    <3>2. rd' \notin {"clear2", "deref", "push"}
      BY <1>7 DEF ReadEndMarker, EofNext
    <3>3. EofNext[rd][1] \in Outs
      BY <1>7 DEF ReadEndMarker, EofNext, Outs, Streams
    <3>4. \/ pkts' = pkts
          \/ pkts' = [pkts EXCEPT ![EofNext[rd][1]] = Push(@, Null)]
      BY <1>7 DEF ReadEndMarker, PushPkt
    <3> QED BY <3>1, <3>2, <3>3, <3>4
  <2>2. Thinner(pkts'[m], pkts[m])
    <3>1. pkts'[m] = pkts[m] \/ pkts'[m] = Push(pkts[m], Null)
      BY <1>1, <2>1
    <3>2. Thinner(Push(pkts[m], Null), pkts[m])
      BY <1>1, NumsPush
    <3> QED BY <3>1, <3>2, NumsNone
  <2> QED BY <1>3, <2>1, <2>2 DEF InReader
<1> QED BY <1>4, <1>5, <1>6, <1>7 DEF Reader

(* terminate() and clear_queues() empty queues, and push elements that are *)
(* not packets.                                                            *)
LEMMA CallOrder ==
  ASSUME TypeInv, NEW m \in Streams, InOrderOf(m),
         \/ \E c \in Callers : Terminate(c)
         \/ \E c \in {"reader", "gui"} : ClearQueues(c)
  PROVE  InOrderOf(m)'
<1>1. /\ UNCHANGED <<decVars, filVars, snkVars, rd, rhand, nread>>
      /\ Null \notin Nat /\ Flush \notin Nat /\ Null \in Packets /\ Flush \in Packets
      /\ pkts \in [Outs -> Seq(Packets)] /\ m \in Outs
      /\ decoded \in [Streams -> Seq(Frames)] /\ filtered \in [Streams -> Seq(Frames)]
  BY PlayerAssumption DEF Terminate, TermQueue, TermPush, TermDetach, TermFlags, TermOrphan, TermRest,
     ClearQueues, ClearPkts, ClearFrames, ClearFlush, ClearOutputs, ClearRest, readerVars, TypeInv, TypeOK,
     TypeQueues, Outs, Streams, Packets
<1>2. /\ NoOutput(m)' /\ InSink(m)' = InSink(m) /\ InDec(m)' = InDec(m) /\ InReader(m)' = InReader(m)
      /\ UNCHANGED <<shown, fout, dout, held, nread>>
  BY <1>1 DEF InOrderOf, NoOutput, InSink, InDec, InReader, decVars, filVars, snkVars
<1>3. \/ UNCHANGED pkts \/ (\A o \in Outs : pkts'[o] = <<>> \/ pkts'[o] = pkts[o])
      \/ \E o, e : pkts' = [pkts EXCEPT ![o] = Push(@, e)] /\ e \in {Null, Flush}
  <2>1. CASE \E c \in Callers : Terminate(c)
    BY <1>1, <2>1 DEF Terminate, TermQueue, TermPush, TermDetach, TermFlags, TermOrphan, PushPkt
  <2>2. CASE \E c \in {"reader", "gui"} : ClearQueues(c)
    BY <1>1, <2>2 DEF ClearQueues, ClearPkts, ClearFrames, ClearFlush, ClearOutputs, PushPkt
  <2> QED BY <2>1, <2>2
<1>4. Thinner(pkts'[m], pkts[m])
  <2>1. \/ pkts'[m] = <<>> \/ pkts'[m] = pkts[m]
        \/ pkts'[m] = Push(pkts[m], Null) \/ pkts'[m] = Push(pkts[m], Flush)
    BY <1>1, <1>3
  <2>2. Thinner(Push(pkts[m], Null), pkts[m]) /\ Thinner(Push(pkts[m], Flush), pkts[m])
    BY <1>1, NumsPush
  <2> QED BY <2>1, <2>2, NumsNone
<1>5. /\ decoded'[m] = decoded[m] \/ decoded'[m] = <<>>
      /\ filtered'[m] = filtered[m] \/ filtered'[m] = <<>>
  BY <1>1 DEF Terminate, TermQueue, TermPush, TermDetach, TermFlags, TermOrphan, TermRest,
     ClearQueues, ClearPkts, ClearFrames, ClearFlush, ClearOutputs, ClearRest
<1>6. Fewer(m)
  BY <1>2, <1>4, <1>5, NumsNone DEF Fewer
<1> QED BY <1>6, OrderFewer

(* The thread in play() starts the others; the user and the writer leave   *)
(* the pipeline alone, and so do the stages of the other stream.           *)
LEMMA OthersOrder ==
  ASSUME TypeInv, Startup, NEW m \in Streams, InOrderOf(m),
         \/ Play \/ Writer \/ User \/ Seeking \/ UNCHANGED vars
         \/ \E k \in Streams \ {m} : Decoder(k) \/ Filter(k) \/ Sink(k)
  PROVE  InOrderOf(m)'
<1>1. CASE Play
  <2>1. /\ UNCHANGED <<dhand, dout, held, filtered, fout, decoded, pkts, shown, shand, rhand, nread>>
        /\ dec'[m] = dec[m] \/ (dec[m] = "off" /\ dec'[m] \in {"pop", "off"})
        /\ rd' = rd \/ rd' = "top"
    BY <1>1 DEF Play, Connect, StartThreads, OpenAudio, PlayThrow, PlayCaught, StartDisplay, Join, PlayRest,
       NoThread, Startup, TypeInv, TypeOK, TypeDecoders, Streams
  <2>2. Fewer(m)
    BY <2>1, NumsNone DEF Fewer, InOrderOf, NoOutput, InSink, InDec, InReader
  <2> QED BY <2>2, OrderFewer
<1>2. CASE Writer \/ User \/ Seeking \/ UNCHANGED vars
  <2>1. UNCHANGED <<decVars, filVars, snkVars, filtered, decoded, readerVars>>
    BY <1>2 DEF Writer, User, Stop, SeekCheck, TogglePaused, Seeking, SeekSet, SeekOneShot, SeekOrphan,
       GuiRest, queues, vars
  <2>2. pkts'[m] = pkts[m]
    <3>1. UNCHANGED pkts \/ pkts' = [pkts EXCEPT !["writer"] = Tail(@)]
      BY <1>2 DEF Writer, User, Stop, SeekCheck, TogglePaused, Seeking, SeekSet, SeekOneShot, SeekOrphan,
         GuiRest, queues, vars
    <3> QED BY <3>1 DEF TypeInv, TypeOK, TypeQueues, Outs, Streams
  <2>3. UNCHANGED View(m)
    BY <2>1, <2>2 DEF View, decVars, filVars, snkVars, readerVars
  <2> QED BY <2>3, FewerSame, OrderFewer
<1>3. CASE \E k \in Streams \ {m} : Decoder(k) \/ Filter(k) \/ Sink(k)
  <2>1. PICK k \in Streams : k # m /\ (Decoder(k) \/ Filter(k) \/ Sink(k))
    BY <1>3
  <2>2. TypeQueues /\ TypeDecoders /\ TypeFilters /\ TypeSinks /\ m # "writer" /\ m \in Outs
    BY DEF TypeInv, TypeOK, Outs, Streams
  <2>3. CASE Decoder(k)
    <3>1. /\ UNCHANGED <<filVars, snkVars, filtered, readerVars>>
          /\ dec'[m] = dec[m] /\ dhand'[m] = dhand[m] /\ dout'[m] = dout[m] /\ held'[m] = held[m]
          /\ decoded'[m] = decoded[m] /\ pkts'[m] = pkts[m]
      BY <2>1, <2>2, <2>3 DEF Decoder, DecPop, DecTerminated, DecFlush, DecSkip, DecDecode, DecEmit,
         DecPass, DecRest, PushPkt, TypeDecoders, TypeQueues
    <3> QED BY <3>1, FewerSame, OrderFewer DEF View, filVars, snkVars, readerVars
  <2>4. CASE Filter(k)
    <3>1. /\ UNCHANGED <<decVars, snkVars, pkts, readerVars>>
          /\ fout'[m] = fout[m] /\ decoded'[m] = decoded[m] /\ filtered'[m] = filtered[m]
      BY <2>1, <2>2, <2>4 DEF Filter, FilPop, FilTerminated, FilFrame, FilPush, FilRest, TypeFilters,
         TypeQueues
    <3> QED BY <3>1, FewerSame, OrderFewer DEF View, decVars, snkVars, readerVars
  <2>5. CASE Sink(k)
    <3>1. /\ UNCHANGED <<decVars, filVars, decoded, readerVars>>
          /\ shand'[m] = shand[m] /\ shown'[m] = shown[m] /\ filtered'[m] = filtered[m]
          /\ pkts'[m] = pkts[m]
      <4>1. CASE k = "audio" /\ AudioFetch
        BY <2>1, <2>2, <4>1 DEF AudioFetch, SnkRest, TypeQueues
      <4>2. CASE SnkTop(k) \/ SnkPop(k)
        BY <2>1, <2>2, <4>2 DEF SnkTop, SnkPop, SnkRest, TypeQueues, TypeSinks
      <4>3. CASE SnkFrame(k)
        <5>1. UNCHANGED <<decVars, filVars, decoded, readerVars, filtered, pkts>>
          BY <4>3 DEF SnkFrame, SnkRest
        <5>2. shand' = [shand EXCEPT ![k] = Null] /\ (shown' = shown \/ shown' = [shown EXCEPT ![k] = shand[k]])
          BY <4>3 DEF SnkFrame
        <5> QED BY <2>1, <2>2, <5>1, <5>2 DEF TypeSinks
      <4> QED BY <2>5, <4>1, <4>2, <4>3 DEF Sink
    <3> QED BY <3>1, FewerSame, OrderFewer DEF View, decVars, filVars, readerVars
  <2> QED BY <2>1, <2>3, <2>4, <2>5
<1> QED BY <1>1, <1>2, <1>3

(* Only the end of the pipeline renders, and makes no request.             *)
LEMMA OnlySinksShow ==
  ASSUME [Next]_vars
  PROVE  shown' = shown \/ (nseek' = nseek /\ \E k \in Streams : Sink(k))
<1>1. CASE \E k \in Streams : Sink(k)
  BY <1>1 DEF Sink, SnkTop, AudioFetch, SnkPop, SnkFrame, SnkRest, guiVars
<1>2. CASE \E k \in Streams : Decoder(k) \/ Filter(k)
  BY <1>2 DEF Decoder, DecPop, DecTerminated, DecFlush, DecSkip, DecDecode, DecEmit, DecPass, DecRest,
     Filter, FilPop, FilTerminated, FilFrame, FilPush, FilRest, snkVars
<1>3. CASE Reader
  BY <1>3 DEF Reader, ReadTop, ReadSeek, ReadPacket, ReadSeekDone, ReadDeref, ReadPush, ReadEOF,
     ReadEndMarker, ReadError, ReadErrorDone, ReaderRest, snkVars
<1>4. CASE (\E c \in Callers : Terminate(c)) \/ (\E c \in {"reader", "gui"} : ClearQueues(c))
  BY <1>4 DEF Terminate, TermQueue, TermPush, TermDetach, TermFlags, TermOrphan, TermRest,
     ClearQueues, ClearPkts, ClearFrames, ClearFlush, ClearOutputs, ClearRest, snkVars
<1>5. CASE Play \/ Writer \/ User \/ Seeking \/ UNCHANGED vars
  BY <1>5 DEF Play, Connect, StartThreads, OpenAudio, PlayThrow, PlayCaught, StartDisplay, Join,
     PlayRest, Writer, User, Stop, SeekCheck, TogglePaused, Seeking, SeekSet, SeekOneShot, SeekOrphan,
     GuiRest, snkVars, vars
<1> QED BY <1>1, <1>2, <1>3, <1>4, <1>5 DEF Next, Ended

LEMMA OrderStep ==
  ASSUME TypeInv, Startup, OrderInv, [Next]_vars
  PROVE  OrderInv' /\ \A m \in Streams : shown'[m] >= shown[m]
<1> SUFFICES ASSUME NEW m \in Streams
             PROVE  InOrderOf(m)' /\ shown'[m] >= shown[m]
  BY DEF OrderInv
<1>1. InOrderOf(m) /\ shown[m] \in Nat
  BY DEF OrderInv, TypeInv, TypeOK, TypeSinks, Pkt
<1>2. InOrderOf(m)'
  <2>1. CASE Decoder(m) \/ Filter(m) \/ Sink(m)
    BY <1>1, <2>1, DecoderOrder, FilterOrder, SinkOrder
  <2>2. CASE Reader
    BY <1>1, <2>2, ReaderOrder
  <2>3. CASE (\E c \in Callers : Terminate(c)) \/ (\E c \in {"reader", "gui"} : ClearQueues(c))
    BY <1>1, <2>3, CallOrder
  <2>4. CASE \/ Play \/ Writer \/ User \/ Seeking \/ UNCHANGED vars
             \/ \E k \in Streams \ {m} : Decoder(k) \/ Filter(k) \/ Sink(k)
    BY <1>1, <2>4, OthersOrder
  <2> QED BY <2>1, <2>2, <2>3, <2>4 DEF Next, Ended
<1>3. CASE Sink(m)
  BY <1>1, <1>2, <1>3, SinkOrder
<1>4. CASE ~Sink(m)
  <2>1. shown'[m] = shown[m]
    <3>1. CASE \E k \in Streams \ {m} : Sink(k)
      BY <3>1 DEF Sink, SnkTop, AudioFetch, SnkPop, SnkFrame, SnkRest, TypeInv, TypeOK, TypeSinks
    <3> QED BY <1>4, <3>1, OnlySinksShow
  <2> QED BY <1>1, <1>2, <2>1
<1> QED BY <1>3, <1>4

(* Frames are rendered in the order their packets were read: no picture or *)
(* sound goes back, whatever is dropped, cleared, flushed or sought.       *)
Forward == \A m \in Streams : shown'[m] >= shown[m]

THEOREM RenderedInOrder == Spec => [][Forward]_vars
<1>1. Init => TypeInv /\ Startup /\ OrderInv
  BY TypeInit, FedInit, OrderInit DEF FedInv
<1>2. TypeInv /\ Startup /\ OrderInv /\ [Next]_vars => (TypeInv /\ Startup /\ OrderInv)'
  BY TypeStep, OrderStep
<1>3. TypeInv /\ Startup /\ OrderInv /\ [Next]_vars => [Forward]_vars
  BY OrderStep DEF Forward
<1> QED BY <1>1, <1>2, <1>3, PTL DEF Spec
=============================================================================
