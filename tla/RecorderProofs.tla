--------------------------- MODULE RecorderProofs ---------------------------
(***************************************************************************)
(* Proofs about module Recorder, for all sources, times and numbers of     *)
(* requests and file breaks.                                               *)
(***************************************************************************)
EXTENDS RecorderProps, SequenceTheorems, FiniteSetTheorems, WellFoundedInduction, TLAPS

-----------------------------------------------------------------------------
(* Lemmas on numbers and sequences.                                        *)

(* A non-empty set of natural numbers has a least element ...              *)
LEMMA LeastOf ==
  ASSUME NEW T \in SUBSET Nat, T # {}
  PROVE  Least(T) \in T /\ \A m \in T : Least(T) <= m
<1>1. PICK n \in T : \A m \in T : ~ (<<m, n>> \in OpToRel(<, Nat))
  BY NatLessThanWellFounded, WFMin
<1>2. \A m \in T : ~ (m < n)
  BY <1>1 DEF OpToRel
<1>3. \A m \in T : n <= m
  BY <1>2
<1> QED BY <1>3 DEF Least

(* Induction: a set that holds 0 and with n also n + 1 has all of them.    *)
LEMMA NatInduct ==
  ASSUME NEW G \in SUBSET Nat, 0 \in G, \A n \in G : n + 1 \in G
  PROVE  \A n \in Nat : n \in G
<1> DEFINE Bad == Nat \ G
<1>1. SUFFICES ASSUME Bad # {} PROVE FALSE
  OBVIOUS
<1>2. Bad \in SUBSET Nat
  OBVIOUS
<1>3. PICK n \in Bad : n \in Nat /\ \A k \in Bad : n <= k
  BY <1>1, <1>2, LeastOf
<1>4. n - 1 \in Nat /\ ~(n <= n - 1) /\ (n - 1) + 1 = n
  BY <1>3
<1>5. n - 1 \in G
  BY <1>3, <1>4
<1> QED BY <1>3, <1>4, <1>5

(* ... and a greatest one, if it is bounded.                               *)
LEMMA GreatestOf ==
  ASSUME NEW N \in Nat, NEW T \in SUBSET (0..N), T # {}
  PROVE  Greatest(T) \in T /\ \A m \in T : m <= Greatest(T)
<1> DEFINE U == {N - m : m \in T}
<1>1. U \in SUBSET Nat /\ U # {}
  <2>1. \A m \in T : N - m \in Nat
    OBVIOUS
  <2>2. PICK m \in T : TRUE
    OBVIOUS
  <2>3. N - m \in U
    OBVIOUS
  <2> QED BY <2>1, <2>3
<1>2. PICK n \in T : Least(U) = N - n
  BY <1>1, LeastOf
<1>3. \A m \in T : N - n <= N - m
  BY <1>1, <1>2, LeastOf
<1>4. \A m \in T : m <= n
  BY <1>3
<1> QED BY <1>4 DEF Greatest

LEMMA EraseFrontIs ==
  ASSUME NEW S, NEW q \in Seq(S), NEW k \in 0..Len(q)
  PROVE  /\ EraseFront(q, k) \in Seq(S) /\ Len(EraseFront(q, k)) = Len(q) - k
         /\ \A i \in 1..(Len(q) - k) : EraseFront(q, k)[i] = q[k + i]
<1>1. CASE k = Len(q)
  BY <1>1, EmptySeq DEF EraseFront
<1>2. CASE k < Len(q)
  <2>1. \A i \in (k + 1)..Len(q) : q[i] \in S
    BY ElementOfSeq
  <2>2. /\ SubSeq(q, k + 1, Len(q)) \in Seq(S)
        /\ Len(SubSeq(q, k + 1, Len(q))) = Len(q) - (k + 1) + 1
        /\ \A i \in 1..(Len(q) - (k + 1) + 1) : SubSeq(q, k + 1, Len(q))[i] = q[k + 1 + i - 1]
    BY <1>2, <2>1, SubSeqProperties
  <2> QED BY <1>2, <2>2 DEF EraseFront
<1> QED BY <1>1, <1>2

LEMMA FrontIs ==
  ASSUME NEW S, NEW q \in Seq(S), q # <<>>
  PROVE  /\ Len(q) \in Nat /\ Len(q) >= 1 /\ Last(q) = q[Len(q)] /\ Last(q) \in S
         /\ Front(q) \in Seq(S) /\ Len(Front(q)) = Len(q) - 1
         /\ \A i \in 1..(Len(q) - 1) : Front(q)[i] = q[i]
<1>1. Len(q) \in Nat /\ Len(q) >= 1
  <2>1. Len(q) \in Nat /\ Len(q) # 0
    BY EmptySeq
  <2> QED BY <2>1
<1>2. \A i \in 1..(Len(q) - 1) : q[i] \in S
  BY <1>1, ElementOfSeq
<1>3. q[Len(q)] \in S
  BY <1>1, ElementOfSeq
<1> DEFINE f == SubSeq(q, 1, Len(q) - 1)
<1>4. /\ f \in Seq(S) /\ Len(f) = IF 1 <= Len(q) - 1 THEN Len(q) - 1 - 1 + 1 ELSE 0
      /\ \A i \in 1..(Len(q) - 1 - 1 + 1) : f[i] = q[1 + i - 1]
  BY <1>1, <1>2, SubSeqProperties
<1>5. Front(q) = f /\ Last(q) = q[Len(q)]
  BY DEF Front, Last
<1> HIDE DEF f
<1>6. Len(f) = Len(q) - 1
  <2>1. CASE Len(q) = 1
    BY <1>4, <2>1
  <2>2. CASE Len(q) >= 2
    BY <1>1, <1>4, <2>2
  <2>3. Len(q) = 1 \/ Len(q) >= 2
    <3>1. \A n \in Nat : n >= 1 => n = 1 \/ n >= 2
      OBVIOUS
    <3> QED BY <1>1, <3>1
  <2> QED BY <2>1, <2>2, <2>3
<1>7. \A i \in 1..(Len(q) - 1) : f[i] = q[i]
  BY <1>1, <1>4
<1> QED BY <1>1, <1>3, <1>4, <1>5, <1>6, <1>7

LEMMA FrontLast ==
  ASSUME NEW S, NEW q \in Seq(S), q # <<>>
  PROVE  q = Append(Front(q), Last(q))
<1>1. Append(Front(q), Last(q)) \in Seq(S) /\ Len(Append(Front(q), Last(q))) = Len(q)
  BY FrontIs, AppendProperties
<1>2. \A i \in 1..Len(q) : Append(Front(q), Last(q))[i] = q[i]
  BY FrontIs, AppendProperties
<1> QED BY <1>1, <1>2, SeqEqual

LEMMA FrontOfAppend ==
  ASSUME NEW S, NEW q \in Seq(S), NEW e \in S
  PROVE  Front(Append(q, e)) = q /\ Last(Append(q, e)) = e
<1> DEFINE r == Append(q, e)
<1>1. /\ r \in Seq(S) /\ r # <<>> /\ Len(r) = Len(q) + 1 /\ r[Len(q) + 1] = e
      /\ \A i \in 1..Len(q) : r[i] = q[i]
  BY AppendProperties
<1> HIDE DEF r
<1>2. Len(q) \in Nat
  BY LenProperties
<1>3. Front(r) \in Seq(S) /\ Len(Front(r)) = Len(q) /\ Last(r) = e
  BY <1>1, <1>2, FrontIs
<1>4. \A i \in 1..Len(q) : Front(r)[i] = q[i]
  BY <1>1, <1>2, FrontIs
<1> QED BY <1>3, <1>4, SeqEqual DEF r

-----------------------------------------------------------------------------
(* Lemmas on the operators of the cache.                                   *)

LEMMA KeysOfIs ==
  ASSUME NEW q \in Seq(Packet)
  PROVE  /\ KeysOf(q) \in SUBSET (0..Len(q)) /\ KeysOf(q) \in SUBSET Nat
         /\ FindLastKeyFrame(q, Len(q) - 1) # NotFound <=> KeysOf(q) # {}
<1>1. Len(q) \in Nat
  BY LenProperties
<1>2. KeysOf(q) \in SUBSET (0..Len(q)) /\ KeysOf(q) \in SUBSET Nat
  BY <1>1 DEF KeysOf
<1>3. {i \in 0..(Len(q) - 1) : i < Len(q) /\ q[i + 1].key} = KeysOf(q)
  BY <1>1 DEF KeysOf
<1>4. KeysOf(q) # {} => Greatest(KeysOf(q)) \in KeysOf(q)
  BY <1>1, <1>2, GreatestOf
<1>5. -1 \notin Nat
  OBVIOUS
<1> QED BY <1>2, <1>3, <1>4, <1>5 DEF FindLastKeyFrame, NotFound

(* The new front is a key frame: the last one that is old enough, or the   *)
(* first.                                                                  *)
LEMMA FrontKeyIs ==
  ASSUME NEW q \in Seq(Packet), KeysOf(q) # {}, NEW time \in Int
  PROVE  LET k == FrontKey(q, time)
         IN  /\ k \in KeysOf(q)
             /\ \/ /\ time - q[k + 1].pts >= CacheTime
                   /\ \A i \in KeysOf(q) : i > k => time - q[i + 1].pts < CacheTime
                \/ \A i \in KeysOf(q) : k <= i /\ time - q[i + 1].pts < CacheTime
<1> DEFINE early == {i \in KeysOf(q) : time - q[i + 1].pts >= CacheTime}  k == FrontKey(q, time)
<1>1. Len(q) \in Nat /\ KeysOf(q) \in SUBSET (0..Len(q)) /\ KeysOf(q) \in SUBSET Nat
  BY KeysOfIs, LenProperties
<1>2. \A i \in KeysOf(q) : q[i + 1] \in Packet
  BY <1>1, ElementOfSeq DEF KeysOf
<1>3. \A i \in KeysOf(q) : time - q[i + 1].pts \in Int /\ CacheTime \in Int
  BY <1>2, RecorderAssumption DEF Packet
<1>4. CASE early # {}
  <2>1. k = Greatest(early)
    BY <1>4 DEF FrontKey
  <2>2. early \in SUBSET (0..Len(q))
    BY <1>1
  <2>3. k \in early /\ \A i \in early : i <= k
    BY <1>1, <1>4, <2>1, <2>2, GreatestOf
  <2> HIDE DEF k
  <2>4. \A i \in KeysOf(q) : i > k => time - q[i + 1].pts < CacheTime
    <3> SUFFICES ASSUME NEW i \in KeysOf(q), i > k PROVE time - q[i + 1].pts < CacheTime
      OBVIOUS
    <3>1. i \notin early
      BY <1>1, <2>3
    <3> QED BY <1>3, <3>1
  <2> QED BY <2>3, <2>4 DEF k
<1>5. CASE early = {}
  <2>1. k = Least(KeysOf(q))
    BY <1>5 DEF FrontKey
  <2>2. k \in KeysOf(q) /\ \A i \in KeysOf(q) : k <= i
    BY <1>1, <2>1, LeastOf
  <2>3. \A i \in KeysOf(q) : time - q[i + 1].pts < CacheTime
    BY <1>3, <1>5
  <2> QED BY <2>2, <2>3
<1> QED BY <1>4, <1>5

(* TrimAudio drops packets that are older, and keeps the last one.         *)
LEMMA TrimAudioIs ==
  ASSUME NEW q \in Seq(Packet), NEW time \in Int
  PROVE  \E d \in 0..Len(q) :
           /\ TrimAudio(q, time) = EraseFront(q, d)
           /\ \A i \in 1..d : q[i].pts < time
           /\ q # <<>> => d < Len(q)
<1> DEFINE hits == {i \in 0..(Len(q) - 1) : q[i + 1].pts >= time}
<1>1. Len(q) \in Nat /\ (q # <<>> => Len(q) > 0)
  BY LenProperties, EmptySeq
<1>2. \A i \in 1..Len(q) : q[i] \in Packet /\ q[i].pts \in Nat
  <2>1. \A i \in 1..Len(q) : q[i] \in Packet
    BY ElementOfSeq
  <2> QED BY <2>1 DEF Packet
<1>3. CASE hits = {}
  <2>1. TrimAudio(q, time) = q
    BY <1>3 DEF TrimAudio, FindPts
  <2>2. EraseFront(q, 0) = q
    <3>1. EraseFront(q, 0) \in Seq(Packet) /\ Len(EraseFront(q, 0)) = Len(q) - 0
      BY <1>1, EraseFrontIs
    <3>2. \A i \in 1..(Len(q) - 0) : EraseFront(q, 0)[i] = q[0 + i]
      BY <1>1, EraseFrontIs
    <3>3. \A i \in 1..Len(q) : EraseFront(q, 0)[i] = q[i]
      BY <1>1, <3>2
    <3> QED BY <1>1, <3>1, <3>3, SeqEqual
  <2> QED BY <1>1, <2>1, <2>2
<1>4. CASE hits # {}
  <2>1. hits \in SUBSET Nat
    BY <1>1
  <2>2. PICK d \in hits : d = Least(hits) /\ \A m \in hits : d <= m
    BY <1>4, <2>1, LeastOf
  <2>3. d \in 0..(Len(q) - 1) /\ d # NotFound
    BY <1>1, <2>2 DEF NotFound
  <2>4. TrimAudio(q, time) = EraseFront(q, d)
    BY <1>4, <2>2, <2>3 DEF TrimAudio, FindPts
  <2>5. \A i \in 1..d : q[i].pts < time
    <3> SUFFICES ASSUME NEW i \in 1..d PROVE q[i].pts < time
      OBVIOUS
    <3>1. i - 1 \in 0..(Len(q) - 1) /\ i - 1 < d /\ (i - 1) + 1 = i /\ i \in 1..Len(q)
      BY <1>1, <2>3
    <3>2. i - 1 \notin hits
      BY <1>1, <2>2, <2>3, <3>1
    <3> QED BY <1>2, <3>1, <3>2
  <2> QED BY <1>1, <2>3, <2>4, <2>5
<1> QED BY <1>3, <1>4

-----------------------------------------------------------------------------
(* write_cache(): the loop comes to an end.                                *)

(* Where the turn that looks at v[i + 1] and a[j + 1] leads.               *)
Stop(v, a, i, j) == {x \in j..Len(a) : x < Len(a) => a[x + 1].pts > v[i + 1].pts}
Turn(m, v, a, at) ==
  LET i == at[1]  j == at[2]
  IN  IF i = Len(v) \/ j = Len(a) THEN at
      ELSE IF v[i + 1].pts <= a[j + 1].pts THEN m[<<i + 1, j>>]
      ELSE m[<<i, Least(Stop(v, a, i, j))>>]

(* Audio that is due by the next video packet is passed over.              *)
LEMMA StopIs ==
  ASSUME NEW v \in Seq(Packet), NEW a \in Seq(Packet), NEW i \in 0..(Len(v) - 1),
         NEW j \in 0..(Len(a) - 1), ~(v[i + 1].pts <= a[j + 1].pts)
  PROVE  LET x == Least(Stop(v, a, i, j))
         IN  /\ x \in (j + 1)..Len(a) /\ a[x].pts <= v[i + 1].pts
             /\ x < Len(a) => a[x + 1].pts > v[i + 1].pts
<1> DEFINE T == Stop(v, a, i, j)  x == Least(T)
<1>1. Len(v) \in Nat /\ Len(a) \in Nat
  BY LenProperties
<1>2. /\ v[i + 1] \in Packet /\ v[i + 1].pts \in Nat
      /\ \A y \in 1..Len(a) : a[y] \in Packet /\ a[y].pts \in Nat
  <2>1. v[i + 1] \in Packet /\ \A y \in 1..Len(a) : a[y] \in Packet
    BY <1>1, ElementOfSeq
  <2> QED BY <2>1 DEF Packet
<1>3. T \in SUBSET Nat /\ Len(a) \in T /\ T \in SUBSET (j..Len(a))
  BY <1>1 DEF Stop
<1>4. x \in T /\ \A y \in T : x <= y
  <2>1. T # {}
    BY <1>3
  <2> HIDE DEF T
  <2> QED BY <1>3, <2>1, LeastOf
<1> HIDE DEF x
<1>5. x \in j..Len(a) /\ (x < Len(a) => a[x + 1].pts > v[i + 1].pts)
  BY <1>4 DEF Stop
<1>6. x # j
  BY <1>1, <1>2, <1>5
<1>7. x \in (j + 1)..Len(a)
  BY <1>1, <1>5, <1>6
<1>8. a[x].pts <= v[i + 1].pts
  <2>1. x - 1 \in j..Len(a) /\ ~(x <= x - 1) /\ (x - 1) + 1 = x /\ x - 1 < Len(a)
    BY <1>1, <1>7
  <2>2. x - 1 \notin T
    BY <1>4, <2>1
  <2>3. ~(a[x].pts > v[i + 1].pts)
    BY <2>1, <2>2 DEF Stop
  <2>4. x \in 1..Len(a)
    BY <1>1, <1>7
  <2> QED BY <1>2, <2>3, <2>4
<1> QED BY <1>5, <1>7, <1>8 DEF x

(* A turn ends the loop, or writes the next video packet or audio.         *)
Places(v, a) == (0..Len(v)) \X (0..Len(a))
Passed(v, a, at, k, l) ==
  \/ k = at[1] + 1 /\ l = at[2] /\ v[k].pts <= a[l + 1].pts
  \/ k = at[1] /\ at[2] < l /\ a[l].pts <= v[k + 1].pts
LEMMA TurnIs ==
  ASSUME NEW v \in Seq(Packet), NEW a \in Seq(Packet), NEW at \in Places(v, a)
  PROVE  \/ (at[1] = Len(v) \/ at[2] = Len(a)) /\ (\A m : Turn(m, v, a, at) = at)
         \/ /\ at[1] < Len(v) /\ at[2] < Len(a)
            /\ \E k \in 0..Len(v), l \in 0..Len(a) :
                 /\ k + l > at[1] + at[2] /\ Passed(v, a, at, k, l)
                 /\ \A m : Turn(m, v, a, at) = m[<<k, l>>]
<1>1. Len(v) \in Nat /\ Len(a) \in Nat
  BY LenProperties
<1>2. PICK i \in 0..Len(v), j \in 0..Len(a) : at = <<i, j>>
  BY DEF Places
<1>3. at[1] = i /\ at[2] = j
  BY <1>2
<1>4. CASE i = Len(v) \/ j = Len(a)
  BY <1>3, <1>4 DEF Turn
<1>5. CASE i < Len(v) /\ j < Len(a) /\ v[i + 1].pts <= a[j + 1].pts
  <2>1. i + 1 \in 0..Len(v) /\ j \in 0..Len(a) /\ (i + 1) + j > i + j /\ ~(i = Len(v) \/ j = Len(a))
    BY <1>1, <1>5
  <2>2. \A m : Turn(m, v, a, at) = m[<<i + 1, j>>]
    BY <1>3, <1>5, <2>1, Zenon DEF Turn
  <2>3. Passed(v, a, at, i + 1, j)
    BY <1>3, <1>5 DEF Passed
  <2> QED BY <1>3, <1>5, <2>1, <2>2, <2>3
<1>6. CASE i < Len(v) /\ j < Len(a) /\ ~(v[i + 1].pts <= a[j + 1].pts)
  <2> DEFINE x == Least(Stop(v, a, i, j))
  <2>1. x \in (j + 1)..Len(a) /\ a[x].pts <= v[i + 1].pts
    BY <1>1, <1>6, StopIs
  <2>2. ~(i = Len(v) \/ j = Len(a))
    BY <1>1, <1>6
  <2>3. \A m : Turn(m, v, a, at) = m[<<i, x>>]
    BY <1>3, <1>6, <2>2, Zenon DEF Turn
  <2> HIDE DEF x
  <2>4. i \in 0..Len(v) /\ x \in 0..Len(a) /\ j < x /\ i + x > i + j
    BY <1>1, <2>1
  <2>5. Passed(v, a, at, i, x)
    BY <1>3, <2>1, <2>4 DEF Passed
  <2> QED BY <1>3, <1>6, <2>3, <2>4, <2>5
<1>7. i < Len(v) \/ i = Len(v)
  BY <1>1
<1>8. j < Len(a) \/ j = Len(a)
  BY <1>1
<1> QED BY <1>4, <1>5, <1>6, <1>7, <1>8

(* There is a function as the recursion in Merged asks for: by induction on*)
(* the number of packets that are left.                                    *)
LEMMA MergeExists ==
  ASSUME NEW v \in Seq(Packet), NEW a \in Seq(Packet)
  PROVE  \E m \in [Places(v, a) -> Places(v, a)] :
            m = [at \in Places(v, a) |-> Turn(m, v, a, at)]
<1> DEFINE D == Places(v, a)
           Left(at) == (Len(v) + Len(a)) - (at[1] + at[2])
           Solves(m, n) == \A at \in D : Left(at) <= n => m[at] = Turn(m, v, a, at)
           Good(n) == \E m \in [D -> D] : Solves(m, n)
<1>1. Len(v) \in Nat /\ Len(a) \in Nat
  BY LenProperties
<1>2. ASSUME NEW at \in D PROVE at[1] \in 0..Len(v) /\ at[2] \in 0..Len(a)
  BY <1>2 DEF Places
<1>3. \A k \in 0..Len(v), l \in 0..Len(a) : <<k, l>> \in D
  BY DEF Places
<1> HIDE DEF D
<1>4. Good(0)
  <2> DEFINE m == [at \in D |-> at]
  <2>1. m \in [D -> D]
    OBVIOUS
  <2>2. ASSUME NEW at \in D, Left(at) <= 0 PROVE m[at] = Turn(m, v, a, at)
    <3>1. at[1] = Len(v)
      BY <1>1, <1>2, <2>2
    <3> QED BY <3>1 DEF Turn
  <2> QED BY <2>1, <2>2
<1>5. ASSUME NEW n \in Nat, Good(n) PROVE Good(n + 1)
  <2>1. PICK g \in [D -> D] : Solves(g, n)
    BY <1>5
  <2> DEFINE h == [at \in D |-> IF Left(at) <= n THEN g[at] ELSE Turn(g, v, a, at)]
  <2>2. ASSUME NEW at \in D PROVE Turn(g, v, a, at) \in D
    <3>1. CASE \A m : Turn(m, v, a, at) = at
      BY <3>1
    <3>2. CASE \E k \in 0..Len(v), l \in 0..Len(a) : \A m : Turn(m, v, a, at) = m[<<k, l>>]
      BY <1>3, <3>2
    <3> QED BY <3>1, <3>2, TurnIs DEF D
  <2>3. h \in [D -> D]
    BY <2>2
  <2>4. ASSUME NEW at \in D, Left(at) <= n + 1 PROVE h[at] = Turn(h, v, a, at)
    <3>1. Turn(h, v, a, at) = Turn(g, v, a, at)
      <4>1. CASE \A m : Turn(m, v, a, at) = at
        BY <4>1
      <4>2. CASE \E k \in 0..Len(v), l \in 0..Len(a) :
                   k + l > at[1] + at[2] /\ \A m : Turn(m, v, a, at) = m[<<k, l>>]
        <5>1. PICK k \in 0..Len(v), l \in 0..Len(a) :
                k + l > at[1] + at[2] /\ \A m : Turn(m, v, a, at) = m[<<k, l>>]
          BY <4>2
        <5>2. (Len(v) + Len(a)) - (k + l) <= n
          BY <1>1, <1>2, <2>4, <5>1
        <5>3. <<k, l>> \in D /\ Left(<<k, l>>) <= n
          BY <1>3, <5>2
        <5>4. h[<<k, l>>] = g[<<k, l>>]
          BY <5>3
        <5> QED BY <5>1, <5>4
      <4> QED BY <4>1, <4>2, TurnIs DEF D
    <3>2. h[at] = IF Left(at) <= n THEN g[at] ELSE Turn(g, v, a, at)
      OBVIOUS
    <3>3. Left(at) <= n => g[at] = Turn(g, v, a, at)
      BY <2>1
    <3> QED BY <3>1, <3>2, <3>3
  <2> HIDE DEF h
  <2> QED BY <2>3, <2>4
<1> HIDE DEF Good
<1>6. \A n \in Nat : Good(n)
  <2> DEFINE G == {n \in Nat : Good(n)}
  <2>1. G \in SUBSET Nat /\ 0 \in G /\ \A n \in G : n + 1 \in G
    BY <1>4, <1>5
  <2> HIDE DEF G
  <2>2. \A n \in Nat : n \in G
    BY <2>1, NatInduct
  <2> QED BY <2>2 DEF G
<1>7. PICK m \in [D -> D] : Solves(m, Len(v) + Len(a))
  <2>1. Len(v) + Len(a) \in Nat
    BY <1>1
  <2> QED BY <1>6, <2>1 DEF Good
<1>8. \A at \in D : m[at] = Turn(m, v, a, at)
  BY <1>1, <1>2, <1>7
<1>9. m = [at \in D |-> m[at]]
  OBVIOUS
<1>10. m = [at \in D |-> Turn(m, v, a, at)]
  BY <1>8, <1>9
<1> QED BY <1>7, <1>10 DEF D

(* Where it ends: with one of the two caches, whose last packet is not     *)
(* later than the next one of the other.                                   *)
MergeEnd(v, a, i, j) ==
  \/ i = Len(v) /\ j < Len(a) /\ v[i].pts <= a[j + 1].pts
  \/ i < Len(v) /\ j = Len(a) /\ a[j].pts <= v[i + 1].pts
LEMMA MergedIs ==
  ASSUME NEW v \in Seq(Packet), NEW a \in Seq(Packet), v # <<>>, a # <<>>
  PROVE  \E i \in 0..Len(v), j \in 0..Len(a) : Merged(v, a) = <<i, j>> /\ MergeEnd(v, a, i, j)
<1> DEFINE D == Places(v, a)
           R(m) == [at \in D |-> Turn(m, v, a, at)]
           m == CHOOSE m : m = R(m)
<1>1. Len(v) \in Nat /\ Len(a) \in Nat
  BY LenProperties
<1>2. m = R(m)
  BY MergeExists
<1>3. Merged(v, a) = m[<<0, 0>>]
  BY DEF Merged, Turn, Stop, Places
<1> HIDE DEF m
<1>4. \A at \in D : m[at] = Turn(m, v, a, at)
  BY <1>2
<1>5. \A at \in D : at[1] \in 0..Len(v) /\ at[2] \in 0..Len(a)
  BY DEF Places
<1>6. \A k \in 0..Len(v), l \in 0..Len(a) : <<k, l>> \in D
  BY DEF Places
<1> HIDE DEF D
<1> DEFINE Left(at) == (Len(v) + Len(a)) - (at[1] + at[2])
           Ends(at) == \E i \in 0..Len(v), j \in 0..Len(a) :
                         m[at] = <<i, j>> /\ MergeEnd(v, a, i, j)
           G == {n \in Nat : \A at \in D :
                   Left(at) <= n /\ at[1] < Len(v) /\ at[2] < Len(a) => Ends(at)}
<1>7. 0 \in G
  <2>1. ASSUME NEW at \in D, Left(at) <= 0, at[1] < Len(v) PROVE FALSE
    BY <1>1, <1>5, <2>1
  <2> QED BY <2>1
<1>8. ASSUME NEW n \in G PROVE n + 1 \in G
  <2> SUFFICES ASSUME NEW at \in D, Left(at) <= n + 1, at[1] < Len(v), at[2] < Len(a)
               PROVE  Ends(at)
    OBVIOUS
  <2>1. at[1] \in 0..Len(v) /\ at[2] \in 0..Len(a)
    BY <1>5
  <2>2. PICK k \in 0..Len(v), l \in 0..Len(a) :
          /\ k + l > at[1] + at[2] /\ Passed(v, a, at, k, l)
          /\ \A f : Turn(f, v, a, at) = f[<<k, l>>]
    <3>1. ~(at[1] = Len(v) \/ at[2] = Len(a))
      BY <1>1, <2>1
    <3> QED BY <3>1, TurnIs DEF D
  <2>3. m[at] = m[<<k, l>>]
    BY <1>4, <2>2
  <2>4. CASE k < Len(v) /\ l < Len(a)
    <3>1. n \in Nat /\ (Len(v) + Len(a)) - (k + l) <= n
      BY <1>1, <2>1, <2>2
    <3>2. <<k, l>> \in D /\ Left(<<k, l>>) <= n /\ <<k, l>>[1] < Len(v) /\ <<k, l>>[2] < Len(a)
      BY <1>6, <2>4, <3>1
    <3>3. Ends(<<k, l>>)
      BY <3>2
    <3> QED BY <2>3, <3>3
  <2>5. CASE k = Len(v) \/ l = Len(a)
    <3>1. <<k, l>> \in D
      BY <1>6
    <3>2. m[<<k, l>>] = <<k, l>>
      BY <1>4, <2>5, <3>1 DEF Turn
    <3>3. MergeEnd(v, a, k, l)
      <4>1. CASE k = at[1] + 1 /\ l = at[2] /\ v[k].pts <= a[l + 1].pts
        <5>1. k = Len(v) /\ l < Len(a)
          BY <1>1, <2>1, <2>5, <4>1
        <5> QED BY <4>1, <5>1 DEF MergeEnd
      <4>2. CASE k = at[1] /\ at[2] < l /\ a[l].pts <= v[k + 1].pts
        <5>1. l = Len(a) /\ k < Len(v)
          BY <1>1, <2>1, <2>5, <4>2
        <5> QED BY <4>2, <5>1 DEF MergeEnd
      <4> QED BY <2>2, <4>1, <4>2 DEF Passed
    <3> QED BY <2>3, <3>2, <3>3
  <2>6. (k < Len(v) \/ k = Len(v)) /\ (l < Len(a) \/ l = Len(a))
    BY <1>1
  <2> QED BY <2>4, <2>5, <2>6
<1>9. Len(v) + Len(a) \in G
  <2>1. G \in SUBSET Nat
    OBVIOUS
  <2> HIDE DEF G
  <2>2. \A n \in Nat : n \in G
    BY <1>7, <1>8, <2>1, NatInduct
  <2>3. Len(v) + Len(a) \in Nat
    BY <1>1
  <2> QED BY <2>2, <2>3
<1>10. 0 < Len(v) /\ 0 < Len(a)
  BY <1>1, EmptySeq
<1>11. <<0, 0>> \in D /\ Left(<<0, 0>>) <= Len(v) + Len(a)
  BY <1>1, <1>6
<1>12. Ends(<<0, 0>>)
  <2>1. <<0, 0>>[1] < Len(v) /\ <<0, 0>>[2] < Len(a)
    BY <1>10
  <2> QED BY <1>9, <1>11, <2>1
<1> QED BY <1>3, <1>12

-----------------------------------------------------------------------------
(* push_cache_pkt().                                                       *)

LEMMA EraseNone ==
  ASSUME NEW S, NEW q \in Seq(S)
  PROVE  EraseFront(q, 0) = q
<1>1. Len(q) \in Nat
  BY LenProperties
<1>2. /\ EraseFront(q, 0) \in Seq(S) /\ Len(EraseFront(q, 0)) = Len(q) - 0
      /\ \A i \in 1..(Len(q) - 0) : EraseFront(q, 0)[i] = q[0 + i]
  BY <1>1, EraseFrontIs
<1>3. Len(EraseFront(q, 0)) = Len(q) /\ \A i \in 1..Len(q) : EraseFront(q, 0)[i] = q[i]
  BY <1>1, <1>2
<1> QED BY <1>2, <1>3, SeqEqual

(* k packets leave the front of the video cache, d that of the audio cache.*)
FrontMoved(p, k, d) ==
  LET v == cache["video"]  a == cache["audio"]
  IN  /\ p.key /\ k \in KeysOf(v)
      /\ \/ /\ p.pts - v[k + 1].pts >= CacheTime
            /\ \A i \in KeysOf(v) : i > k => p.pts - v[i + 1].pts < CacheTime
         \/ \A i \in KeysOf(v) : k <= i /\ p.pts - v[i + 1].pts < CacheTime
      /\ \A i \in 1..d : a[i].pts < v[k + 1].pts
      /\ a # <<>> => d < Len(a)
LEMMA PushVideoIs ==
  ASSUME cache \in [Streams -> Seq(Packet)], NEW p \in Packet, p.stream = "video"
  PROVE  \E k \in 0..Len(cache["video"]), d \in 0..Len(cache["audio"]) :
           /\ PushCache(p) = [video |-> Append(EraseFront(cache["video"], k), p),
                              audio |-> EraseFront(cache["audio"], d)]
           /\ \/ k = 0 /\ d = 0 /\ (p.key => KeysOf(cache["video"]) = {})
              \/ FrontMoved(p, k, d)
<1> DEFINE v == cache["video"]  a == cache["audio"]
<1>1. v \in Seq(Packet) /\ a \in Seq(Packet)
  BY DEF Streams
<1>2. Len(v) \in Nat /\ Len(a) \in Nat
  BY <1>1, LenProperties
<1>3. PushCache(p) = CacheVideo(p)
  BY DEF PushCache
<1>4. CASE ~(p.key /\ KeysOf(v) # {})
  <2>1. PushCache(p) = [cache EXCEPT !["video"] = Append(@, p)]
    BY <1>1, <1>3, <1>4, KeysOfIs DEF CacheVideo, Push
  <2>2. PushCache(p) = [video |-> Append(v, p), audio |-> a]
    BY <2>1 DEF Streams
  <2>3. 0 \in 0..Len(v) /\ 0 \in 0..Len(a) /\ EraseFront(v, 0) = v /\ EraseFront(a, 0) = a
    BY <1>1, <1>2, EraseNone
  <2> QED BY <1>4, <2>2, <2>3
<1>5. CASE p.key /\ KeysOf(v) # {}
  <2> DEFINE k == FrontKey(v, p.pts)  time == v[k + 1].pts
  <2>1. PushCache(p) = [video |-> Append(EraseFront(v, k), p), audio |-> TrimAudio(a, time)]
    BY <1>1, <1>3, <1>5, KeysOfIs DEF CacheVideo, Push
  <2>2. p.pts \in Int
    BY DEF Packet
  <2>3. /\ k \in KeysOf(v)
        /\ \/ /\ p.pts - v[k + 1].pts >= CacheTime
              /\ \A i \in KeysOf(v) : i > k => p.pts - v[i + 1].pts < CacheTime
           \/ \A i \in KeysOf(v) : k <= i /\ p.pts - v[i + 1].pts < CacheTime
    BY <1>1, <1>5, <2>2, FrontKeyIs
  <2> HIDE DEF k
  <2>4. k \in 0..(Len(v) - 1)
    BY <2>3 DEF KeysOf
  <2>5. k \in 0..Len(v) /\ k + 1 \in 1..Len(v)
    BY <1>2, <2>4
  <2>6. v[k + 1] \in Packet
    BY <1>1, <2>5, ElementOfSeq
  <2>7. time \in Int
    BY <2>6 DEF Packet
  <2>8. PICK d \in 0..Len(a) : /\ TrimAudio(a, time) = EraseFront(a, d)
                               /\ \A i \in 1..d : a[i].pts < time
                               /\ a # <<>> => d < Len(a)
    BY <1>1, <2>7, TrimAudioIs
  <2>9. FrontMoved(p, k, d)
    BY <1>5, <2>3, <2>8 DEF FrontMoved
  <2> QED BY <2>1, <2>5, <2>8, <2>9
<1> QED BY <1>4, <1>5

LEMMA PushAudioIs ==
  ASSUME cache \in [Streams -> Seq(Packet)], NEW p \in Packet, p.stream = "audio"
  PROVE  \E d \in 0..Len(cache["audio"]) :
           /\ PushCache(p) = [video |-> cache["video"],
                              audio |-> Append(EraseFront(cache["audio"], d), p)]
           /\ "video" \in opts.source => d = 0
           /\ \A i \in 1..d : cache["audio"][i].pts < p.pts - CacheTime
           /\ cache["audio"] # <<>> => d < Len(cache["audio"])
<1> DEFINE v == cache["video"]  a == cache["audio"]
           b == IF "video" \in opts.source THEN a ELSE TrimAudio(a, p.pts - CacheTime)
<1>1. a \in Seq(Packet)
  BY DEF Streams
<1>2. Len(a) \in Nat /\ (a # <<>> => 0 < Len(a))
  BY <1>1, LenProperties, EmptySeq
<1>3. PushCache(p) = [cache EXCEPT !["audio"] = Append(b, p)]
  BY DEF PushCache, CacheAudio, Push
<1>4. PushCache(p) = [video |-> v, audio |-> Append(b, p)]
  BY <1>3 DEF Streams
<1>5. p.pts - CacheTime \in Int
  BY RecorderAssumption DEF Packet
<1>6. PICK d \in 0..Len(a) :
        /\ b = EraseFront(a, d) /\ ("video" \in opts.source => d = 0)
        /\ \A i \in 1..d : a[i].pts < p.pts - CacheTime
        /\ a # <<>> => d < Len(a)
  <2>1. CASE "video" \in opts.source
    <3>1. b = EraseFront(a, 0) /\ 0 \in 0..Len(a)
      BY <1>1, <1>2, <2>1, EraseNone
    <3>2. \A i \in 1..0 : a[i].pts < p.pts - CacheTime
      OBVIOUS
    <3> QED BY <1>2, <2>1, <3>1, <3>2
  <2>2. CASE "video" \notin opts.source
    <3>1. PICK d \in 0..Len(a) :
            /\ TrimAudio(a, p.pts - CacheTime) = EraseFront(a, d)
            /\ \A i \in 1..d : a[i].pts < p.pts - CacheTime
            /\ a # <<>> => d < Len(a)
      BY <1>1, <1>5, TrimAudioIs
    <3> QED BY <2>2, <3>1
  <2> QED BY <2>1, <2>2
<1> QED BY <1>4, <1>6

LEMMA PairType ==
  ASSUME NEW v \in Seq(Packet), NEW a \in Seq(Packet)
  PROVE  [video |-> v, audio |-> a] \in [Streams -> Seq(Packet)]
  BY DEF Streams

LEMMA PushCacheType ==
  ASSUME cache \in [Streams -> Seq(Packet)], NEW p \in Packet
  PROVE  PushCache(p) \in [Streams -> Seq(Packet)]
<1>1. cache["video"] \in Seq(Packet) /\ cache["audio"] \in Seq(Packet)
  BY DEF Streams
<1>2. CASE p.stream = "video"
  <2>1. PICK k \in 0..Len(cache["video"]), d \in 0..Len(cache["audio"]) :
          PushCache(p) = [video |-> Append(EraseFront(cache["video"], k), p),
                          audio |-> EraseFront(cache["audio"], d)]
    BY <1>2, PushVideoIs
  <2>2. EraseFront(cache["video"], k) \in Seq(Packet) /\ EraseFront(cache["audio"], d) \in Seq(Packet)
    BY <1>1, EraseFrontIs
  <2>3. Append(EraseFront(cache["video"], k), p) \in Seq(Packet)
    BY <2>2, AppendProperties
  <2> QED BY <2>1, <2>2, <2>3, PairType, Zenon
<1>3. CASE p.stream = "audio"
  <2>1. PICK d \in 0..Len(cache["audio"]) :
          PushCache(p) = [video |-> cache["video"],
                          audio |-> Append(EraseFront(cache["audio"], d), p)]
    BY <1>3, PushAudioIs
  <2>2. EraseFront(cache["audio"], d) \in Seq(Packet)
    BY <1>1, EraseFrontIs
  <2>3. Append(EraseFront(cache["audio"], d), p) \in Seq(Packet)
    BY <2>2, AppendProperties
  <2> DEFINE a == Append(EraseFront(cache["audio"], d), p)
  <2>4. cache["video"] \in Seq(Packet) /\ a \in Seq(Packet)
    BY <1>1, <2>3
  <2> HIDE DEF a
  <2>5. [video |-> cache["video"], audio |-> a] \in [Streams -> Seq(Packet)]
    BY <2>4, PairType
  <2> QED BY <2>1, <2>5 DEF a
<1> QED BY <1>2, <1>3 DEF Packet, Streams

(* The cache a file begins with.                                           *)
LEMMA WriteCacheType ==
  ASSUME cache \in [Streams -> Seq(Packet)]
  PROVE  WriteCache \in [Streams -> Seq(Packet)]
<1> DEFINE v == cache["video"]  a == cache["audio"]
<1>1. v \in Seq(Packet) /\ a \in Seq(Packet)
  BY DEF Streams
<1>2. CASE v = <<>> \/ a = <<>>
  BY <1>2 DEF WriteCache
<1>3. CASE v # <<>> /\ a # <<>>
  <2>1. PICK i \in 0..Len(v), j \in 0..Len(a) : Merged(v, a) = <<i, j>>
    BY <1>1, <1>3, MergedIs
  <2>2. WriteCache = [video |-> SubSeq(v, 1, i), audio |-> SubSeq(a, 1, j)]
    BY <1>3, <2>1 DEF WriteCache
  <2>3. Len(v) \in Nat /\ Len(a) \in Nat
    BY <1>1, LenProperties
  <2>4. (\A x \in 1..i : v[x] \in Packet) /\ (\A x \in 1..j : a[x] \in Packet)
    BY <1>1, <2>3, ElementOfSeq
  <2>5. SubSeq(v, 1, i) \in Seq(Packet) /\ SubSeq(a, 1, j) \in Seq(Packet)
    BY <2>3, <2>4, SubSeqProperties
  <2> QED BY <2>2, <2>5, PairType, Zenon
<1> QED BY <1>2, <1>3

LEMMA WithIs ==
  ASSUME NEW q \in [Streams -> Seq(Packet)], NEW p \in Packet
  PROVE  /\ With(q, p) \in [Streams -> Seq(Packet)]
         /\ With(q, p)[p.stream] = Append(q[p.stream], p)
         /\ \A s \in Streams : s # p.stream => With(q, p)[s] = q[s]
<1>1. p.stream \in Streams
  BY DEF Packet
<1>2. Append(q[p.stream], p) \in Seq(Packet)
  BY <1>1, AppendProperties
<1> QED BY <1>1, <1>2 DEF With

LEMMA NothingType == Nothing \in [Streams -> Seq(Packet)]
  BY EmptySeq DEF Nothing

LEMMA WritableType ==
  ASSUME NEW q \in [Streams -> Seq(Packet)]
  PROVE  Writable(q) \in [Streams -> Seq(Packet)]
  BY EmptySeq DEF Writable

-----------------------------------------------------------------------------
(* Types.                                                                  *)
Data ==
  /\ cache \in [Streams -> Seq(Packet)] /\ file \in [Streams -> Seq(Packet)]
  /\ taken \in [Streams -> Seq(Packet)] /\ hand \in Packet \cup {Null}
  /\ due \in SUBSET Packet /\ recorded \in SUBSET Packet /\ refused \in SUBSET Packet
Control ==
  /\ opts \in Options /\ fmt \in {"null", "open", "bad"} /\ wr \in {"pop", "work", "done"}
  /\ user \in {"idle", "toggle"} /\ brk \in {"idle", "poll", "resume"}
  /\ recording \in BOOLEAN /\ saw \in BOOLEAN /\ gone \in BOOLEAN /\ fault \in BOOLEAN
  /\ want \in BOOLEAN /\ on \in BOOLEAN /\ failed \in BOOLEAN
  /\ lag \in 0..slept /\ slept \in Nat /\ nask \in 0..MaxAsks /\ nbreak \in 0..MaxBreaks
TypeInv == Data /\ Control

LEMMA TypeInvOK == TypeInv => TypeOK
<1> SUFFICES ASSUME TypeInv PROVE TypeOK
  OBVIOUS
<1>1. {recording, saw, gone, fault, want, on, failed} \subseteq BOOLEAN
  BY DEF TypeInv, Control
<1> QED BY <1>1 DEF TypeInv, Data, Control, TypeOK

LEMMA OptsType ==
  ASSUME opts \in Options
  PROVE  /\ opts.source \in SUBSET Streams /\ opts.fed \in SUBSET Streams
         /\ opts.written \in SUBSET opts.fed /\ opts.fed \in SUBSET opts.source
         /\ opts.steps \in SUBSET (Nat \ {0}) /\ opts.keyStart \in BOOLEAN
         /\ \A d \in opts.steps : d \in Nat /\ d > 0
<1>1. /\ opts.source \in SUBSET Streams /\ opts.fed \in SUBSET Streams
      /\ opts.written \in SUBSET opts.fed /\ opts.fed \in SUBSET opts.source
      /\ opts.steps \in SUBSET (Nat \ {0}) /\ opts.keyStart \in BOOLEAN
  BY RecorderAssumption
<1>2. \A d \in Nat \ {0} : d \in Nat /\ d > 0
  OBVIOUS
<1> QED BY <1>1, <1>2

LEMMA BoundsType ==
  MaxAsks \in Nat /\ MaxBreaks \in Nat /\ CacheTime \in Nat /\ CacheTime > 0
<1>1. CacheTime \in Nat \ {0} /\ MaxAsks \in Nat /\ MaxBreaks \in Nat
  BY RecorderAssumption
<1> QED BY <1>1

LEMMA LastPtsType ==
  ASSUME taken \in [Streams -> Seq(Packet)], NEW s \in Streams
  PROVE  /\ LastPts(s) \in Nat
         /\ taken[s] # <<>> => LastPts(s) = taken[s][Len(taken[s])].pts
<1>1. CASE taken[s] = <<>>
  BY <1>1 DEF LastPts
<1>2. CASE taken[s] # <<>>
  <2>1. Last(taken[s]) \in Packet /\ Last(taken[s]) = taken[s][Len(taken[s])]
    BY <1>2, FrontIs
  <2> QED BY <1>2, <2>1 DEF LastPts, Packet
<1> QED BY <1>1, <1>2

LEMMA InitType == Init => TypeInv
<1> SUFFICES ASSUME Init PROVE TypeInv
  OBVIOUS
<1>1. Data
  BY NothingType DEF Init, Data
<1>2. Control
  <2>1. 0 \in 0..0 /\ 0 \in 0..MaxAsks /\ 0 \in 0..MaxBreaks
    BY BoundsType
  <2> QED BY <2>1 DEF Init, Control
<1> QED BY <1>1, <1>2 DEF TypeInv

(* The packet that TakePacket takes: the next one of its stream.           *)
NextOf(p) ==
  /\ p.stream \in opts.fed /\ p.n = Len(taken[p.stream]) + 1
  /\ \E d \in opts.steps : /\ p.pts = LastPts(p.stream) + d
                           /\ lag' = IF Sleeping THEN lag + d ELSE 0
                           /\ slept' = IF lag' > slept THEN lag' ELSE slept
  /\ p.key => p.stream = "video"
  /\ p.stream = "video" /\ taken[p.stream] = <<>> => p.key = opts.keyStart
  /\ Take(p)
LEMMA TakePacketIs ==
  ASSUME TypeInv, TakePacket
  PROVE  \E p \in Packet : NextOf(p)
<1>1. PICK s \in opts.fed, d \in opts.steps :
        LET pts == LastPts(s) + d
        IN  /\ lag' = IF Sleeping THEN lag + d ELSE 0
            /\ slept' = IF lag' > slept THEN lag' ELSE slept
            /\ \E key \in IF s = "audio" THEN {FALSE}
                          ELSE IF taken[s] = <<>> THEN {opts.keyStart} ELSE BOOLEAN :
                 Take([stream |-> s, n |-> Len(taken[s]) + 1, pts |-> pts, key |-> key])
  BY Zenon DEF TakePacket
<1>2. PICK key \in IF s = "audio" THEN {FALSE}
                   ELSE IF taken[s] = <<>> THEN {opts.keyStart} ELSE BOOLEAN :
        Take([stream |-> s, n |-> Len(taken[s]) + 1, pts |-> LastPts(s) + d, key |-> key])
  BY <1>1
<1> DEFINE p == [stream |-> s, n |-> Len(taken[s]) + 1, pts |-> LastPts(s) + d, key |-> key]
<1>3. opts \in Options /\ taken \in [Streams -> Seq(Packet)]
  BY DEF TypeInv, Data, Control
<1>4. s \in Streams /\ d \in Nat /\ opts.keyStart \in BOOLEAN
  BY <1>3, OptsType
<1>5. LastPts(s) \in Nat /\ Len(taken[s]) \in Nat
  BY <1>3, <1>4, LastPtsType, LenProperties
<1>6. key \in BOOLEAN /\ (key => s = "video")
                      /\ (s = "video" /\ taken[s] = <<>> => key = opts.keyStart)
  BY <1>2, <1>4 DEF Streams
<1>7. p \in Packet
  BY <1>4, <1>5, <1>6 DEF Packet
<1>8. NextOf(p)
  BY <1>1, <1>2, <1>6 DEF NextOf
<1> QED BY <1>7, <1>8

LEMMA TakePacketType ==
  ASSUME TypeInv, TakePacket
  PROVE  TypeInv'
<1>1. PICK p \in Packet : NextOf(p)
  BY TakePacketIs
<1>2. p # Null
  BY RecorderAssumption
<1>3. taken' = With(taken, p) /\ hand' = p /\ due' = IF on THEN due \cup {p} ELSE due
  BY <1>1, <1>2 DEF NextOf, Take
<1>4. Data'
  <2>1. taken' \in [Streams -> Seq(Packet)]
    BY <1>3, WithIs DEF TypeInv, Data
  <2> QED BY <1>1, <1>3, <2>1 DEF NextOf, Take, TypeInv, Data, cacheVars, fileVars
<1>5. lag' \in 0..slept' /\ slept' \in Nat
  <2>1. opts \in Options /\ lag \in 0..slept /\ slept \in Nat
    BY DEF TypeInv, Control
  <2>2. PICK d \in opts.steps : /\ lag' = IF Sleeping THEN lag + d ELSE 0
                                /\ slept' = IF lag' > slept THEN lag' ELSE slept
    BY <1>1 DEF NextOf
  <2>3. d \in Nat
    BY <2>1, OptsType
  <2>4. lag' \in Nat
    BY <2>1, <2>2, <2>3
  <2> QED BY <2>1, <2>2, <2>4
<1>6. Control'
  BY <1>1, <1>5 DEF NextOf, Take, TypeInv, Control, cacheVars, fileVars, askVars, brkVars, lagVars
<1> QED BY <1>4, <1>6 DEF TypeInv

LEMMA TakeNullType ==
  ASSUME TypeInv, TakeNull
  PROVE  TypeInv'
<1>1. Data'
  BY DEF TakeNull, Take, TypeInv, Data, cacheVars, fileVars
<1>2. Control'
  BY DEF TakeNull, Take, TypeInv, Control, cacheVars, fileVars, askVars, brkVars, lagVars
<1> QED BY <1>1, <1>2 DEF TypeInv

(* What a file holds after more is added to it.                            *)
LEMMA AddType ==
  ASSUME NEW old \in [Streams -> Seq(Packet)], NEW q \in [Streams -> Seq(Packet)],
         recorded \in SUBSET Packet, refused \in SUBSET Packet, AddToFile(old, q)
  PROVE  /\ file' \in [Streams -> Seq(Packet)] /\ fault' = fault
         /\ recorded' \in SUBSET Packet /\ refused' \in SUBSET Packet
<1> DEFINE w == Writable(q)  new == UNION {Range(w[s]) : s \in Streams}
<1>1. w \in [Streams -> Seq(Packet)]
  BY WritableType
<1>2. file' = [s \in Streams |-> old[s] \o w[s]] /\ fault' = fault
  BY DEF AddToFile
<1>3. PICK bad \in SUBSET new : recorded' = recorded \cup (new \ bad) /\ refused' = refused \cup bad
  BY DEF AddToFile
<1> HIDE DEF w
<1>4. \A s \in Streams : old[s] \o w[s] \in Seq(Packet)
  BY <1>1, ConcatProperties
<1>5. \A s \in Streams : Range(w[s]) \in SUBSET Packet
  BY <1>1, RangeOfSeq
<1>6. new \in SUBSET Packet
  BY <1>5
<1> HIDE DEF new
<1> QED BY <1>2, <1>3, <1>4, <1>6

LEMMA WriteType ==
  ASSUME TypeInv, Write
  PROVE  TypeInv'
<1>1. /\ cache \in [Streams -> Seq(Packet)] /\ file \in [Streams -> Seq(Packet)]
      /\ hand \in Packet \cup {Null} /\ recorded \in SUBSET Packet /\ refused \in SUBSET Packet
      /\ fmt \in {"null", "open", "bad"} /\ fault \in BOOLEAN /\ failed \in BOOLEAN
  BY DEF TypeInv, Data, Control
<1>2. cache' \in [Streams -> Seq(Packet)] /\ wr' \in {"pop", "work", "done"}
  BY <1>1, PushCacheType DEF Write, CachePacket
<1>3. /\ file' \in [Streams -> Seq(Packet)] /\ recorded' \in SUBSET Packet /\ refused' \in SUBSET Packet
      /\ fmt' \in {"null", "open", "bad"} /\ fault' \in BOOLEAN /\ failed' \in BOOLEAN
  <2>1. CASE saw /\ hand # Null /\ OpenFile
    <3>1. CASE fmt' = "open" /\ AddToFile(Nothing, With(WriteCache, hand)) /\ UNCHANGED failed
      <4>1. With(WriteCache, hand) \in [Streams -> Seq(Packet)]
        BY <1>1, <2>1, WriteCacheType, WithIs
      <4> QED BY <1>1, <3>1, <4>1, NothingType, AddType
    <3>2. CASE fmt' \in {fmt, "bad"} /\ failed' = TRUE /\ UNCHANGED <<file, recorded, refused, fault>>
      BY <1>1, <3>2
    <3> QED BY <2>1, <3>1, <3>2 DEF OpenFile, fileVars
  <2>2. CASE saw /\ hand # Null /\ WriteFile
    <3>1. CASE AddToFile(file, With(Nothing, hand))
      <4>1. With(Nothing, hand) \in [Streams -> Seq(Packet)]
        BY <1>1, <2>2, NothingType, WithIs
      <4>2. file' \in [Streams -> Seq(Packet)] /\ recorded' \in SUBSET Packet /\ refused' \in SUBSET Packet /\ fault' = fault
        BY <1>1, <3>1, <4>1, AddType
      <4> QED BY <1>1, <2>2, <4>2 DEF WriteFile, fileVars
    <3>2. CASE fault' \in BOOLEAN /\ UNCHANGED <<file, recorded, refused>>
      BY <1>1, <2>2, <3>2 DEF WriteFile, fileVars
    <3> QED BY <2>2, <3>1, <3>2 DEF WriteFile, fileVars
  <2>3. CASE CloseFile
    <3>1. file' = file /\ recorded' = recorded /\ refused' = refused /\ failed' \in BOOLEAN
      BY <2>3 DEF CloseFile, fileVars
    <3>2. fmt' \in {"null", "open", "bad"} /\ fault' \in BOOLEAN
      BY <1>1, <2>3 DEF CloseFile, fileVars
    <3> QED BY <1>1, <3>1, <3>2
  <2> QED BY <2>1, <2>2, <2>3 DEF Write
<1>4. Data'
  BY <1>2, <1>3 DEF Write, TypeInv, Data
<1>5. Control'
  BY <1>2, <1>3 DEF Write, TypeInv, Control, askVars, brkVars, lagVars
<1> QED BY <1>4, <1>5 DEF TypeInv

LEMMA WriterOtherType ==
  ASSUME TypeInv, WriteFault \/ Delete
  PROVE  TypeInv'
<1>1. Data'
  BY DEF WriteFault, Delete, TypeInv, Data, cacheVars, fileVars
<1>2. Control'
  <2>1. CASE WriteFault
    BY <2>1 DEF WriteFault, TypeInv, Control, cacheVars, fileVars, askVars, brkVars, lagVars
  <2>2. CASE Delete
    <3>1. fault' \in BOOLEAN
      BY <2>2 DEF Delete
    <3> QED BY <2>2, <3>1 DEF Delete, TypeInv, Control, askVars, brkVars, lagVars
  <2> QED BY <2>1, <2>2
<1> QED BY <1>1, <1>2 DEF TypeInv

LEMMA UserType ==
  ASSUME TypeInv, Ask \/ ToggleRecording
  PROVE  TypeInv'
<1>1. Data'
  BY DEF Ask, ToggleRecording, Rest, TypeInv, Data, cacheVars, fileVars
<1>2. Control'
  <2>1. CASE Ask
    <3>1. nask' \in 0..MaxAsks
      BY <2>1, BoundsType DEF Ask, TypeInv, Control
    <3> QED BY <2>1, <3>1 DEF Ask, Rest, TypeInv, Control, cacheVars, fileVars, brkVars, lagVars
  <2>2. CASE ToggleRecording
    <3>1. recording' \in BOOLEAN /\ on' \in BOOLEAN
      BY <2>2 DEF ToggleRecording, TypeInv, Control
    <3> QED BY <2>2, <3>1 DEF ToggleRecording, Rest, TypeInv, Control, cacheVars, fileVars, brkVars, lagVars
  <2> QED BY <2>1, <2>2
<1> QED BY <1>1, <1>2 DEF TypeInv

LEMMA FileBreakType ==
  ASSUME TypeInv, StartFileBreak \/ BreakPoll \/ BreakResume
  PROVE  TypeInv'
<1>1. Data'
  BY DEF StartFileBreak, BreakPoll, BreakResume, Rest, TypeInv, Data, cacheVars, fileVars
<1>2. Control'
  <2>1. CASE StartFileBreak
    <3>1. nbreak' \in 0..MaxBreaks
      BY <2>1, BoundsType DEF StartFileBreak, TypeInv, Control
    <3>2. recording' \in BOOLEAN /\ brk' \in {"idle", "poll", "resume"}
      BY <2>1 DEF StartFileBreak, TypeInv, Control
    <3> QED BY <2>1, <3>1, <3>2 DEF StartFileBreak, Rest, TypeInv, Control, cacheVars, fileVars, askVars, lagVars
  <2>2. CASE BreakPoll
    <3>1. brk' \in {"idle", "poll", "resume"} /\ fault' \in BOOLEAN
      BY <2>2 DEF BreakPoll, TypeInv, Control
    <3> QED BY <2>2, <3>1 DEF BreakPoll, Rest, TypeInv, Control, cacheVars, fileVars, askVars, lagVars
  <2>3. CASE BreakResume
    <3>1. recording' \in BOOLEAN /\ fault' \in BOOLEAN
      BY <2>3 DEF BreakResume, TypeInv, Control
    <3> QED BY <2>3, <3>1 DEF BreakResume, Rest, TypeInv, Control, cacheVars, fileVars, askVars, lagVars
  <2> QED BY <2>1, <2>2, <2>3
<1> QED BY <1>1, <1>2 DEF TypeInv

LEMMA SameType ==
  ASSUME TypeInv, UNCHANGED vars
  PROVE  TypeInv'
<1>1. Data'
  BY DEF vars, TypeInv, Data, cacheVars, fileVars
<1>2. Control'
  BY DEF vars, TypeInv, Control, cacheVars, fileVars, askVars, brkVars, lagVars
<1> QED BY <1>1, <1>2 DEF TypeInv

(* Every step is one of these.                                             *)
LEMMA Steps ==
  ASSUME [Next]_vars
  PROVE  TakePacket \/ TakeNull \/ Write \/ (WriteFault \/ Delete)
           \/ (Ask \/ ToggleRecording) \/ (StartFileBreak \/ BreakPoll \/ BreakResume)
           \/ UNCHANGED vars
  BY DEF Next, Writer, Writing, User, FileBreak, Ended

LEMMA TypeStep == TypeInv /\ [Next]_vars => TypeInv'
  BY Steps, TakePacketType, TakeNullType, WriteType, WriterOtherType, UserType, FileBreakType,
     SameType

LEMMA Types == Spec => []TypeInv
<1> QED BY InitType, TypeStep, PTL DEF Spec

(* The recorder never leaves its types, whatever the sources, the requests *)
(* and the failures.                                                       *)
THEOREM RecorderTypes == Spec => []TypeOK
<1> QED BY Types, TypeInvOK, PTL

-----------------------------------------------------------------------------
(* What was taken: the packets of each stream, numbered, in the order of   *)
(* their times, the first of a video a key frame if the source begins with *)
(* one.  A packet in the writer's hand is the last that was taken.         *)
Ordered(s, q, o) ==
  /\ q # <<>> => s \in o.fed /\ (s = "video" /\ o.keyStart => q[1].key)
  /\ \A i \in 1..Len(q) : q[i].stream = s /\ q[i].n = i /\ (q[i].key => s = "video")
  /\ \A i, j \in 1..Len(q) : i < j => q[i].pts < q[j].pts
  /\ \A i \in 1..(Len(q) - 1) : q[i + 1].pts - q[i].pts \in o.steps
InHand ==
  /\ hand # Null => taken[hand.stream] # <<>> /\ hand = Last(taken[hand.stream])
  /\ wr # "work" => hand = Null
TakenInv == InHand /\ \A s \in Streams : Ordered(s, taken[s], opts)

LEMMA SeqIs ==
  ASSUME NEW q \in Seq(Packet)
  PROVE  /\ Len(q) \in Nat /\ DOMAIN q = 1..Len(q) /\ (q # <<>> => Len(q) >= 1)
         /\ \A i \in 1..Len(q) : q[i] \in Packet /\ q[i].pts \in Nat
<1>1. \A i \in 1..Len(q) : q[i] \in Packet
  BY ElementOfSeq
<1>2. \A i \in 1..Len(q) : q[i].pts \in Nat
  BY <1>1 DEF Packet
<1>3. q # <<>> => Len(q) >= 1
  BY FrontIs
<1> QED BY <1>1, <1>2, <1>3, LenProperties

LEMMA OrderedAppend ==
  ASSUME NEW s, NEW o, NEW q \in Seq(Packet), NEW p \in Packet, Ordered(s, q, o), s \in o.fed,
         p.stream = s, p.n = Len(q) + 1, p.key => s = "video",
         q = <<>> /\ s = "video" => p.key = o.keyStart,
         q # <<>> => p.pts - q[Len(q)].pts \in o.steps /\ q[Len(q)].pts < p.pts
  PROVE  Ordered(s, Append(q, p), o)
<1> DEFINE r == Append(q, p)  n == Len(q)
<1>1. n \in Nat /\ r \in Seq(Packet) /\ r # <<>> /\ Len(r) = n + 1 /\ r[n + 1] = p
  BY AppendProperties, LenProperties
<1>2. \A i \in 1..n : r[i] = q[i]
  BY AppendProperties
<1>3. (q # <<>> => n >= 1) /\ \A i \in 1..n : q[i] \in Packet /\ q[i].pts \in Nat
  BY SeqIs
<1>4. p.pts \in Nat
  BY DEF Packet
<1> HIDE DEF r
<1>5. s = "video" /\ o.keyStart => r[1].key
  <2>1. CASE q = <<>>
    <3>1. n = 0 /\ r[1] = p
      BY <1>1, <2>1, EmptySeq
    <3> QED BY <2>1, <3>1
  <2>2. CASE q # <<>>
    BY <1>1, <1>2, <1>3, <2>2 DEF Ordered
  <2> QED BY <2>1, <2>2
<1>6. \A i \in 1..Len(r) : r[i].stream = s /\ r[i].n = i /\ (r[i].key => s = "video")
  <2> SUFFICES ASSUME NEW i \in 1..(n + 1)
               PROVE  r[i].stream = s /\ r[i].n = i /\ (r[i].key => s = "video")
    BY <1>1
  <2>1. CASE i \in 1..n
    BY <1>2, <2>1 DEF Ordered
  <2>2. CASE i = n + 1
    BY <1>1, <2>2
  <2> QED BY <1>1, <2>1, <2>2
<1>7. \A i \in 1..n : q[i].pts < p.pts
  <2> SUFFICES ASSUME NEW i \in 1..n PROVE q[i].pts < p.pts
    OBVIOUS
  <2>1. n \in 1..n /\ q # <<>>
    BY <1>1, EmptySeq
  <2>2. i = n \/ (i < n /\ q[i].pts < q[n].pts)
    BY <1>1, <2>1 DEF Ordered
  <2> QED BY <1>3, <1>4, <2>1, <2>2
<1>8. \A i, j \in 1..Len(r) : i < j => r[i].pts < r[j].pts
  <2> SUFFICES ASSUME NEW i \in 1..(n + 1), NEW j \in 1..(n + 1), i < j
               PROVE  r[i].pts < r[j].pts
    BY <1>1
  <2>1. i \in 1..n
    BY <1>1
  <2>2. CASE j \in 1..n
    BY <1>2, <2>1, <2>2 DEF Ordered
  <2>3. CASE j = n + 1
    BY <1>1, <1>2, <1>7, <2>1, <2>3
  <2> QED BY <1>1, <2>2, <2>3
<1>9. \A i \in 1..(Len(r) - 1) : r[i + 1].pts - r[i].pts \in o.steps
  <2> SUFFICES ASSUME NEW i \in 1..n PROVE r[i + 1].pts - r[i].pts \in o.steps
    BY <1>1
  <2>1. CASE i < n
    <3>1. i \in 1..(n - 1) /\ i + 1 \in 1..n
      BY <1>1, <2>1
    <3> QED BY <1>2, <3>1 DEF Ordered
  <2>2. CASE i = n
    <3>1. q # <<>>
      BY <1>1, EmptySeq
    <3> QED BY <1>1, <1>2, <2>2, <3>1
  <2> QED BY <1>1, <2>1, <2>2
<1> QED BY <1>1, <1>5, <1>6, <1>8, <1>9 DEF Ordered, r

LEMMA InitTaken == Init => TakenInv
<1> SUFFICES ASSUME Init PROVE TakenInv
  OBVIOUS
<1>1. InHand
  BY DEF Init, InHand
<1>2. ASSUME NEW s \in Streams PROVE Ordered(s, taken[s], opts)
  <2>1. taken[s] = <<>> /\ Len(taken[s]) = 0
    BY EmptySeq DEF Init, Nothing
  <2> QED BY <2>1 DEF Ordered
<1> QED BY <1>1, <1>2 DEF TakenInv

LEMMA TakePacketTaken ==
  ASSUME TypeInv, TakenInv, NEW p \in Packet, NextOf(p)
  PROVE  TakenInv'
<1>1. p # Null /\ p.stream \in Streams /\ p.stream \in opts.fed
  BY RecorderAssumption DEF Packet, NextOf
<1>2. /\ taken \in [Streams -> Seq(Packet)] /\ opts \in Options /\ taken' = With(taken, p)
      /\ hand' = p /\ wr' = "work" /\ opts' = opts
  BY <1>1 DEF NextOf, Take, TypeInv, Data, Control
<1> DEFINE q == taken[p.stream]
<1>3. q \in Seq(Packet) /\ taken'[p.stream] = Append(q, p)
                        /\ \A s \in Streams : s # p.stream => taken'[s] = taken[s]
  BY <1>1, <1>2, WithIs
<1>4. q # <<>> => p.pts - q[Len(q)].pts \in opts.steps /\ q[Len(q)].pts < p.pts
  <2>1. PICK d \in opts.steps : p.pts = LastPts(p.stream) + d
    BY DEF NextOf
  <2>2. d \in Nat /\ d > 0
    BY <1>2, OptsType
  <2>3. LastPts(p.stream) \in Nat /\ (q # <<>> => LastPts(p.stream) = q[Len(q)].pts)
    BY <1>1, <1>2, LastPtsType
  <2>4. p.pts - LastPts(p.stream) = d /\ LastPts(p.stream) < p.pts
    BY <2>1, <2>2, <2>3
  <2> QED BY <2>3, <2>4
<1>5. Ordered(p.stream, Append(q, p), opts)
  <2>1. Ordered(p.stream, q, opts)
    BY <1>1 DEF TakenInv
  <2>2. /\ p.n = Len(q) + 1 /\ (p.key => p.stream = "video")
        /\ (q = <<>> /\ p.stream = "video" => p.key = opts.keyStart)
    BY DEF NextOf
  <2> QED BY <1>1, <1>3, <1>4, <2>1, <2>2, OrderedAppend
<1>6. \A s \in Streams : Ordered(s, taken'[s], opts)
  BY <1>3, <1>5 DEF TakenInv
<1>7. Append(q, p) # <<>> /\ Last(Append(q, p)) = p
  BY <1>3, AppendProperties, FrontOfAppend
<1>8. InHand'
  BY <1>2, <1>3, <1>7 DEF InHand
<1> QED BY <1>2, <1>6, <1>8 DEF TakenInv

LEMMA TakenStep == TypeInv /\ TakenInv /\ [Next]_vars => TakenInv'
<1> SUFFICES ASSUME TypeInv, TakenInv, [Next]_vars PROVE TakenInv'
  OBVIOUS
<1>1. CASE TakePacket
  BY <1>1, TakePacketIs, TakePacketTaken
<1>2. CASE ~TakePacket
  <2>1. taken' = taken /\ opts' = opts
    BY <1>2, Steps DEF TakeNull, Take, Write, WriteFault, Delete, Ask, ToggleRecording,
       StartFileBreak, BreakPoll, BreakResume, Rest, vars
  <2>2. (hand' = hand /\ wr' = wr) \/ hand' = Null
    BY <1>2, Steps DEF TakeNull, Take, Write, WriteFault, Delete, Ask, ToggleRecording,
       StartFileBreak, BreakPoll, BreakResume, Rest, vars
  <2>3. InHand'
    BY <2>1, <2>2 DEF TakenInv, InHand
  <2> QED BY <2>1, <2>3 DEF TakenInv
<1> QED BY <1>1, <1>2

(* What went through the cache: all that was taken, without the packet in  *)
(* hand.                                                                   *)
LEMMA PastIs ==
  ASSUME TypeInv, TakenInv, NEW s \in Streams
  PROVE  /\ Past(s) \in Seq(Packet) /\ Ordered(s, Past(s), opts) /\ Ordered(s, taken[s], opts)
         /\ taken[s] \in Seq(Packet)
         /\ IF hand # Null /\ hand.stream = s THEN taken[s] = Append(Past(s), hand)
                                               ELSE taken[s] = Past(s)
<1>1. taken[s] \in Seq(Packet) /\ Ordered(s, taken[s], opts)
  BY DEF TypeInv, Data, TakenInv
<1>2. CASE ~(hand # Null /\ hand.stream = s)
  BY <1>1, <1>2 DEF Past
<1>3. CASE hand # Null /\ hand.stream = s
  <2> DEFINE q == taken[s]
  <2>1. q # <<>> /\ hand = Last(q) /\ Past(s) = Front(q)
    BY <1>3 DEF TakenInv, InHand, Past
  <2>2. Front(q) \in Seq(Packet) /\ q = Append(Front(q), hand)
    BY <1>1, <2>1, FrontIs, FrontLast
  <2>3. /\ Len(q) \in Nat /\ Len(q) >= 1 /\ Len(Front(q)) = Len(q) - 1
        /\ \A i \in 1..(Len(q) - 1) : Front(q)[i] = q[i]
    BY <1>1, <2>1, FrontIs
  <2>4. Ordered(s, Front(q), opts)
    <3> DEFINE f == Front(q)  n == Len(q)
    <3>1. Ordered(s, q, opts) /\ n \in Nat /\ n >= 1 /\ Len(f) = n - 1
          /\ \A i \in 1..(n - 1) : f[i] = q[i]
      BY <1>1, <2>3
    <3>2. f # <<>> => n - 1 >= 1
      BY <2>2, <2>3, SeqIs
    <3> HIDE DEF f
    <3>3. f # <<>> => s \in opts.fed /\ (s = "video" /\ opts.keyStart => f[1].key)
      BY <2>1, <3>1, <3>2 DEF Ordered
    <3>4. \A i \in 1..Len(f) : f[i].stream = s /\ f[i].n = i /\ (f[i].key => s = "video")
      BY <3>1 DEF Ordered
    <3>5. \A i, j \in 1..Len(f) : i < j => f[i].pts < f[j].pts
      BY <3>1 DEF Ordered
    <3>6. \A i \in 1..(Len(f) - 1) : f[i + 1].pts - f[i].pts \in opts.steps
      <4> SUFFICES ASSUME NEW i \in 1..(n - 2) PROVE f[i + 1].pts - f[i].pts \in opts.steps
        BY <3>1
      <4>1. i \in 1..(n - 1) /\ i + 1 \in 1..(n - 1)
        BY <3>1
      <4> QED BY <3>1, <4>1 DEF Ordered
    <3> QED BY <3>3, <3>4, <3>5, <3>6 DEF Ordered, f
  <2> QED BY <1>1, <1>3, <2>1, <2>2, <2>4
<1> QED BY <1>2, <1>3

(* Only Write lets a packet go through it.                                 *)
LEMMA PastKept ==
  ASSUME TypeInv, TakenInv, [Next]_vars, ~(Write /\ hand # Null), NEW s \in Streams
  PROVE  Past(s)' = Past(s)
<1>1. CASE TakePacket
  <2>1. PICK p \in Packet : NextOf(p)
    BY <1>1, TakePacketIs
  <2>2. p # Null /\ p.stream \in Streams
    BY RecorderAssumption DEF Packet
  <2>3. hand = Null /\ hand' = p /\ taken' = With(taken, p) /\ taken \in [Streams -> Seq(Packet)]
    BY <2>1, <2>2 DEF NextOf, Take, TakenInv, InHand, TypeInv, Data
  <2>4. CASE s = p.stream
    <3>1. taken'[s] = Append(taken[s], p) /\ taken[s] \in Seq(Packet)
      BY <2>3, <2>4, WithIs
    <3>2. Front(taken'[s]) = taken[s]
      BY <3>1, FrontOfAppend
    <3> QED BY <2>2, <2>3, <2>4, <3>2 DEF Past
  <2>5. CASE s # p.stream
    <3>1. taken'[s] = taken[s]
      BY <2>3, <2>5, WithIs
    <3> QED BY <2>2, <2>3, <2>5, <3>1 DEF Past
  <2> QED BY <2>4, <2>5
<1>2. CASE ~TakePacket
  <2>1. taken' = taken /\ hand' = hand
    BY <1>2, Steps DEF TakeNull, Take, Write, WriteFault, Delete, Ask, ToggleRecording,
       StartFileBreak, BreakPoll, BreakResume, Rest, vars, TakenInv, InHand
  <2> QED BY <2>1 DEF Past
<1> QED BY <1>1, <1>2

LEMMA PastWritten ==
  ASSUME TypeInv, TakenInv, Write, hand # Null, NEW s \in Streams
  PROVE  Past(s)' = IF s = hand.stream THEN Append(Past(s), hand) ELSE Past(s)
<1>1. taken' = taken /\ hand' = Null
  BY DEF Write
<1>2. Past(s)' = taken[s]
  BY <1>1 DEF Past
<1> QED BY <1>2, PastIs

-----------------------------------------------------------------------------
(* The caches are what came last (IsTail).  That of the video begins with  *)
(* all of the stream or with a key frame that is old enough (VideoBack),   *)
(* and that of the audio reaches as far back (AudioBack).                  *)
IsTail(c, q) ==
  Len(c) <= Len(q) /\ \A i \in 1..Len(c) : c[i] = q[Len(q) - Len(c) + i]
FrontOld(v, past) ==
  \/ v[1].pts <= past[Greatest(Keys(past))].pts - CacheTime
  \/ v[1].n = Least(Keys(past))
VideoBack(v, past) ==
  \/ v = past
  \/ v # <<>> /\ v[1].key /\ Keys(past) # {} /\ FrontOld(v, past)
AudioBack(v, a, past, o) ==
  /\ v # <<>> => /\ "video" \in o.source
                 /\ \A i \in 1..Len(past) : past[i].pts >= v[1].pts => past[i] \in Range(a)
  /\ v = <<>> /\ "video" \in o.source => a = past
Trimmed(v) ==
  /\ \A i, j \in Keys(v) : 1 < i /\ i < j /\ Least(Keys(v)) < i => v[j].pts - v[i].pts < CacheTime
  /\ \A i, j \in Keys(v) : i # j => v[1].key
Backed(c, q) == IsTail(c, q) /\ (c = <<>> => q = <<>>)
CacheInv ==
  /\ \A s \in Streams : Backed(cache[s], Past(s))
  /\ VideoBack(cache["video"], Past("video"))
  /\ AudioBack(cache["video"], cache["audio"], Past("audio"), opts)
  /\ Trimmed(cache["video"])

LEMMA KeysIs ==
  ASSUME NEW q \in Seq(Packet)
  PROVE  /\ Keys(q) = {i \in 1..Len(q) : q[i].key}
         /\ Keys(q) \in SUBSET (0..Len(q)) /\ Keys(q) \in SUBSET Nat
         /\ \A i \in Nat : i \in KeysOf(q) <=> i + 1 \in Keys(q)
<1>1. Len(q) \in Nat /\ DOMAIN q = 1..Len(q)
  BY SeqIs
<1>2. Keys(q) = {i \in 1..Len(q) : q[i].key}
  BY <1>1 DEF Keys
<1>3. Keys(q) \in SUBSET (0..Len(q)) /\ Keys(q) \in SUBSET Nat
  BY <1>1, <1>2
<1>4. \A i \in Nat : i \in 0..(Len(q) - 1) <=> i + 1 \in 1..Len(q)
  BY <1>1
<1>5. \A i \in Nat : i \in KeysOf(q) <=> i + 1 \in Keys(q)
  <2>1. KeysOf(q) = {i \in 0..(Len(q) - 1) : q[i + 1].key}
    BY DEF KeysOf
  <2> QED BY <1>2, <1>4, <2>1
<1> QED BY <1>2, <1>3, <1>5

LEMMA LeastIs ==
  ASSUME NEW T \in SUBSET Nat, NEW x \in T, \A m \in T : x <= m
  PROVE  Least(T) = x
<1>1. Least(T) \in T /\ \A m \in T : Least(T) <= m
  BY LeastOf
<1>2. Least(T) <= x /\ x <= Least(T) /\ x \in Nat /\ Least(T) \in Nat
  BY <1>1
<1> QED BY <1>2

LEMMA GreatestIs ==
  ASSUME NEW N \in Nat, NEW T \in SUBSET (0..N), NEW x \in T, \A m \in T : m <= x
  PROVE  Greatest(T) = x
<1>1. Greatest(T) \in T /\ \A m \in T : m <= Greatest(T)
  BY GreatestOf
<1>2. \A m \in T : m \in Nat
  OBVIOUS
<1>3. Greatest(T) <= x /\ x <= Greatest(T) /\ x \in Nat /\ Greatest(T) \in Nat
  BY <1>1, <1>2
<1> QED BY <1>3

(* The key frames after one more packet.                                   *)
LEMMA KeysAppend ==
  ASSUME NEW q \in Seq(Packet), NEW p \in Packet
  PROVE  /\ \A i \in 1..Len(q) : i \in Keys(Append(q, p)) <=> i \in Keys(q)
         /\ Len(q) + 1 \in Keys(Append(q, p)) <=> p.key
         /\ Keys(Append(q, p)) = IF p.key THEN Keys(q) \cup {Len(q) + 1} ELSE Keys(q)
         /\ Keys(q) # {} => Least(Keys(Append(q, p))) = Least(Keys(q))
         /\ p.key => Greatest(Keys(Append(q, p))) = Len(q) + 1
<1> DEFINE r == Append(q, p)  n == Len(q)
<1>1. n \in Nat /\ r \in Seq(Packet) /\ Len(r) = n + 1 /\ r[n + 1] = p
                /\ \A i \in 1..n : r[i] = q[i]
  BY AppendProperties, LenProperties
<1> HIDE DEF r
<1>2. Keys(r) = {i \in 1..(n + 1) : r[i].key} /\ Keys(q) = {i \in 1..n : q[i].key}
  BY <1>1, KeysIs
<1>3. \A i \in 1..n : i \in Keys(r) <=> i \in Keys(q)
  BY <1>1, <1>2
<1>4. n + 1 \in Keys(r) <=> p.key
  BY <1>1, <1>2
<1>5. \A i \in 1..(n + 1) : i \in 1..n \/ i = n + 1
  BY <1>1
<1>6. Keys(r) = IF p.key THEN Keys(q) \cup {n + 1} ELSE Keys(q)
  BY <1>1, <1>2, <1>3, <1>4, <1>5
<1>7. Keys(r) \in SUBSET Nat /\ Keys(r) \in SUBSET (0..(n + 1)) /\ Keys(q) \in SUBSET Nat
  BY <1>1, KeysIs
<1>8. ASSUME Keys(q) # {} PROVE Least(Keys(r)) = Least(Keys(q))
  <2>1. PICK x \in Keys(q) : x = Least(Keys(q)) /\ \A m \in Keys(q) : x <= m
    BY <1>7, <1>8, LeastOf
  <2>2. x \in Keys(r) /\ x \in 1..n
    BY <1>2, <1>6, <2>1
  <2>3. ASSUME NEW m \in Keys(r) PROVE x <= m
    <3>1. m \in Keys(q) \/ m = n + 1
      BY <1>6
    <3> QED BY <1>1, <2>1, <2>2, <3>1
  <2> QED BY <1>7, <2>1, <2>2, <2>3, LeastIs
<1>9. ASSUME p.key PROVE Greatest(Keys(r)) = n + 1
  <2>1. n + 1 \in Keys(r) /\ \A m \in Keys(r) : m <= n + 1
    BY <1>1, <1>2, <1>4, <1>9
  <2>2. n + 1 \in Nat
    BY <1>1
  <2> QED BY <1>7, <2>1, <2>2, GreatestIs
<1> QED BY <1>3, <1>4, <1>6, <1>8, <1>9 DEF r

(* A cache stays what came last when its front is erased and a packet comes.*)
LEMMA TailErase ==
  ASSUME NEW c \in Seq(Packet), NEW q \in Seq(Packet), NEW k \in 0..Len(c), IsTail(c, q)
  PROVE  IsTail(EraseFront(c, k), q)
<1> DEFINE e == EraseFront(c, k)
<1>1. Len(c) \in Nat /\ Len(q) \in Nat /\ Len(c) <= Len(q)
  BY LenProperties DEF IsTail
<1>2. e \in Seq(Packet) /\ Len(e) = Len(c) - k /\ \A i \in 1..(Len(c) - k) : e[i] = c[k + i]
  BY EraseFrontIs
<1> HIDE DEF e
<1>3. ASSUME NEW i \in 1..Len(e) PROVE e[i] = q[Len(q) - Len(e) + i]
  <2>1. k + i \in 1..Len(c) /\ Len(q) - Len(c) + (k + i) = Len(q) - Len(e) + i
    BY <1>1, <1>2
  <2>2. c[k + i] = q[Len(q) - Len(c) + (k + i)]
    BY <2>1 DEF IsTail
  <2> QED BY <1>2, <2>1, <2>2
<1> QED BY <1>1, <1>2, <1>3 DEF IsTail, e

LEMMA TailPush ==
  ASSUME NEW c \in Seq(Packet), NEW q \in Seq(Packet), NEW p \in Packet, IsTail(c, q)
  PROVE  IsTail(Append(c, p), Append(q, p))
<1> DEFINE d == Append(c, p)  r == Append(q, p)
<1>1. Len(c) \in Nat /\ Len(q) \in Nat /\ Len(c) <= Len(q)
  BY LenProperties DEF IsTail
<1>2. Len(d) = Len(c) + 1 /\ d[Len(c) + 1] = p /\ \A i \in 1..Len(c) : d[i] = c[i]
  BY AppendProperties
<1>3. Len(r) = Len(q) + 1 /\ r[Len(q) + 1] = p /\ \A i \in 1..Len(q) : r[i] = q[i]
  BY AppendProperties
<1> HIDE DEF d, r
<1>4. ASSUME NEW i \in 1..Len(d) PROVE d[i] = r[Len(r) - Len(d) + i]
  <2>1. CASE i \in 1..Len(c)
    <3>1. Len(q) - Len(c) + i \in 1..Len(q) /\ Len(r) - Len(d) + i = Len(q) - Len(c) + i
      BY <1>1, <1>2, <1>3, <2>1
    <3>2. c[i] = q[Len(q) - Len(c) + i]
      BY <2>1 DEF IsTail
    <3> QED BY <1>2, <1>3, <2>1, <3>1, <3>2
  <2>2. CASE i = Len(c) + 1
    <3>1. Len(r) - Len(d) + i = Len(q) + 1
      BY <1>1, <1>2, <1>3, <2>2
    <3> QED BY <1>2, <1>3, <2>2, <3>1
  <2> QED BY <1>1, <1>2, <2>1, <2>2
<1>5. Len(d) <= Len(r)
  BY <1>1, <1>2, <1>3
<1> QED BY <1>4, <1>5 DEF IsTail, d, r

(* ... so that its packets are in order, too.                              *)
LEMMA TailOrdered ==
  ASSUME NEW c \in Seq(Packet), NEW q \in Seq(Packet), NEW s, NEW o, IsTail(c, q), Ordered(s, q, o)
  PROVE  /\ \A i, j \in 1..Len(c) : i < j => c[i].pts < c[j].pts
         /\ \A i \in 1..Len(c) : c[i].stream = s /\ c[i] \in Range(q)
         /\ \A i \in 1..(Len(c) - 1) : c[i + 1].n = c[i].n + 1
<1>1. Len(c) \in Nat /\ Len(q) \in Nat /\ Len(c) <= Len(q) /\ DOMAIN q = 1..Len(q)
  BY LenProperties DEF IsTail
<1> DEFINE d == Len(q) - Len(c)
<1>2. \A i \in 1..Len(c) : d + i \in 1..Len(q) /\ c[i] = q[d + i]
  BY <1>1 DEF IsTail
<1>3. d \in Nat
  BY <1>1
<1> HIDE DEF d
<1>4. \A i, j \in 1..Len(c) : i < j => c[i].pts < c[j].pts
  <2> SUFFICES ASSUME NEW i \in 1..Len(c), NEW j \in 1..Len(c), i < j PROVE c[i].pts < c[j].pts
    OBVIOUS
  <2>1. d + i < d + j
    BY <1>3
  <2> QED BY <1>2, <2>1 DEF Ordered
<1>5. \A i \in 1..Len(c) : c[i].stream = s /\ c[i] \in Range(q)
  BY <1>1, <1>2 DEF Ordered, Range
<1>6. ASSUME NEW i \in 1..(Len(c) - 1) PROVE c[i + 1].n = c[i].n + 1
  <2>1. i \in 1..Len(c) /\ i + 1 \in 1..Len(c) /\ d + (i + 1) = (d + i) + 1
    BY <1>1, <1>3
  <2>2. c[i].n = d + i /\ c[i + 1].n = d + (i + 1)
    BY <1>2, <2>1 DEF Ordered
  <2> QED BY <2>1, <2>2
<1> QED BY <1>4, <1>5, <1>6

LEMMA BackedPush ==
  ASSUME NEW c \in Seq(Packet), NEW q \in Seq(Packet), NEW p \in Packet, NEW k \in 0..Len(c),
         IsTail(c, q)
  PROVE  Backed(Append(EraseFront(c, k), p), Append(q, p))
<1>1. EraseFront(c, k) \in Seq(Packet) /\ IsTail(EraseFront(c, k), q)
  BY EraseFrontIs, TailErase
<1>2. Append(EraseFront(c, k), p) # <<>>
  BY <1>1, AppendProperties
<1>3. IsTail(Append(EraseFront(c, k), p), Append(q, p))
  BY <1>1, TailPush
<1> QED BY <1>2, <1>3 DEF Backed

LEMMA PushErased ==
  ASSUME NEW c \in Seq(Packet), NEW p \in Packet, NEW k \in 0..Len(c)
  PROVE  LET w == Append(EraseFront(c, k), p)  m == Len(c) - k
         IN  /\ w \in Seq(Packet) /\ w # <<>> /\ Len(w) = m + 1 /\ w[m + 1] = p
             /\ m \in Nat /\ \A i \in 1..m : w[i] = c[k + i] /\ k + i \in 1..Len(c)
<1> DEFINE e == EraseFront(c, k)  m == Len(c) - k  w == Append(e, p)
<1>1. Len(c) \in Nat
  BY LenProperties
<1>2. e \in Seq(Packet) /\ Len(e) = m /\ \A i \in 1..m : e[i] = c[k + i]
  BY EraseFrontIs
<1> HIDE DEF e
<1>3. /\ w \in Seq(Packet) /\ w # <<>> /\ Len(w) = Len(e) + 1 /\ w[Len(e) + 1] = p
      /\ \A i \in 1..Len(e) : w[i] = e[i]
  BY <1>2, AppendProperties
<1> HIDE DEF w
<1>4. m \in Nat /\ \A i \in 1..m : k + i \in 1..Len(c)
  BY <1>1
<1> QED BY <1>2, <1>3, <1>4 DEF w, e

(* A video packet comes.                                                   *)
LEMMA VideoPush ==
  ASSUME NEW v \in Seq(Packet), NEW a \in Seq(Packet), NEW pv \in Seq(Packet),
         NEW pa \in Seq(Packet), NEW p \in Packet, NEW o,
         cache = [video |-> v, audio |-> a],
         Backed(v, pv), Backed(a, pa), VideoBack(v, pv), AudioBack(v, a, pa, o), Trimmed(v),
         Ordered("video", pv, o), Ordered("video", Append(pv, p), o), Ordered("audio", pa, o),
         "video" \in o.source, NEW k \in 0..Len(v), NEW d \in 0..Len(a),
         \/ k = 0 /\ d = 0 /\ (p.key => KeysOf(v) = {})
         \/ FrontMoved(p, k, d)
  PROVE  LET w == Append(EraseFront(v, k), p)  b == EraseFront(a, d)
         IN  /\ Backed(w, Append(pv, p)) /\ Backed(b, pa) /\ VideoBack(w, Append(pv, p))
             /\ AudioBack(w, b, pa, o) /\ Trimmed(w)
<1> DEFINE e == EraseFront(v, k)  w == Append(e, p)  b == EraseFront(a, d)  q == Append(pv, p)
           m == Len(v) - k
<1>1. /\ Len(v) \in Nat /\ Len(a) \in Nat /\ Len(pv) \in Nat /\ Len(pa) \in Nat
      /\ IsTail(v, pv) /\ IsTail(a, pa)
  BY SeqIs DEF Backed
<1>3. b \in Seq(Packet) /\ Len(b) = Len(a) - d /\ \A i \in 1..(Len(a) - d) : b[i] = a[d + i]
  BY EraseFrontIs
<1>4. w \in Seq(Packet) /\ w # <<>> /\ Len(w) = m + 1 /\ w[m + 1] = p
  BY PushErased
<1>5. q \in Seq(Packet) /\ Len(q) = Len(pv) + 1 /\ q[Len(pv) + 1] = p
                        /\ \A i \in 1..Len(pv) : q[i] = pv[i]
  BY AppendProperties
<1>6. Backed(w, q)
  BY <1>1, BackedPush DEF e
<1>7. Backed(b, pa)
  <2>1. IsTail(b, pa)
    BY <1>1, TailErase
  <2>2. b = <<>> => a = <<>>
    <3>1. a # <<>> => d < Len(a)
      <4>1. a # <<>> => Len(a) >= 1
        BY SeqIs
      <4> QED BY <1>1, <4>1 DEF FrontMoved
    <3>2. a # <<>> => Len(b) >= 1
      BY <1>1, <1>3, <3>1
    <3>3. Len(b) = 0 => a = <<>>
      BY <3>2
    <3> QED BY <3>3, EmptySeq
  <2> QED BY <2>1, <2>2 DEF Backed
<1>8. m \in Nat /\ m = Len(v) - k /\ \A i \in 1..m : w[i] = v[k + i] /\ k + i \in 1..Len(v)
  BY PushErased
<1> HIDE DEF e, m, w, b, q
<1>9. \A i, j \in 1..Len(v) : i < j => v[i].pts < v[j].pts
  BY <1>1, TailOrdered
<1>10. \A i \in 1..Len(v) : v[i].pts \in Nat /\ v[i] \in Packet
  BY SeqIs
<1>11. p.pts \in Nat
  BY DEF Packet
<1>12. \A i \in 1..Len(pv) : pv[i].pts < p.pts
  <2> SUFFICES ASSUME NEW i \in 1..Len(pv) PROVE pv[i].pts < p.pts
    OBVIOUS
  <2>1. i \in 1..Len(q) /\ Len(pv) + 1 \in 1..Len(q) /\ i < Len(pv) + 1
    BY <1>1, <1>5
  <2>2. q[i].pts < q[Len(pv) + 1].pts
    BY <2>1 DEF Ordered, q
  <2> QED BY <1>5, <2>2
<1>13. \A i \in 1..Len(v) : v[i].pts < p.pts
  <2>1. \A i \in 1..Len(v) : v[i] \in Range(pv)
    BY <1>1, TailOrdered
  <2>2. \A x \in Range(pv) : x.pts < p.pts
    BY <1>12, SeqIs DEF Range
  <2> QED BY <2>1, <2>2
<1>14. ASSUME FrontMoved(p, k, d)
       PROVE  /\ p.key /\ k < Len(v) /\ k + 1 \in Keys(v) /\ v[k + 1].key /\ w[1] = v[k + 1]
              /\ m >= 1
  <2>1. p.key /\ k \in KeysOf(v)
    BY <1>14 DEF FrontMoved
  <2>2. k + 1 \in Keys(v)
    BY <1>1, <2>1, KeysIs
  <2>3. v[k + 1].key /\ k + 1 \in 1..Len(v)
    BY <2>2, KeysIs
  <2>4. k < Len(v) /\ m >= 1 /\ 1 \in 1..m
    BY <1>1, <1>8, <2>3
  <2> QED BY <1>8, <2>1, <2>2, <2>3, <2>4
<1>15. VideoBack(w, q)
  <2>1. CASE v = pv /\ k = 0
    <3>1. w = q
      BY <2>1, EraseNone DEF w, q, e
    <3> QED BY <3>1 DEF VideoBack
  <2>2. CASE v # pv /\ ~FrontMoved(p, k, d)
    <3>1. k = 0 /\ (p.key => KeysOf(v) = {}) /\ v # <<>> /\ v[1].key /\ Keys(pv) # {}
          /\ FrontOld(v, pv)
      BY <2>2 DEF VideoBack
    <3>2. 1 \in 1..Len(v)
      BY <3>1, SeqIs
    <3>3. w[1] = v[1]
      BY <1>8, <3>1, <3>2
    <3>4. ~p.key
      <4>1. Keys(v) = {i \in 1..Len(v) : v[i].key}
        BY KeysIs
      <4>2. 1 \in Keys(v)
        BY <3>1, <3>2, <4>1
      <4>3. 0 \in Nat /\ 0 + 1 = 1
        OBVIOUS
      <4>4. 0 \in KeysOf(v)
        BY <4>2, <4>3, KeysIs
      <4> QED BY <3>1, <4>4
    <3>5. Keys(q) = Keys(pv)
      BY <3>4, KeysAppend DEF q
    <3>6. Greatest(Keys(pv)) \in 1..Len(pv)
      <4>1. Keys(pv) \in SUBSET (0..Len(pv)) /\ Keys(pv) = {i \in 1..Len(pv) : pv[i].key}
        BY KeysIs
      <4> QED BY <1>1, <3>1, <4>1, GreatestOf
    <3>7. FrontOld(w, q)
      BY <1>5, <3>1, <3>3, <3>5, <3>6 DEF FrontOld
    <3> QED BY <1>4, <3>1, <3>3, <3>5, <3>7 DEF VideoBack
  <2>3. CASE FrontMoved(p, k, d)
    <3>1. /\ p.key /\ k < Len(v) /\ k + 1 \in Keys(v) /\ v[k + 1].key /\ w[1] = v[k + 1]
      BY <1>14, <2>3
    <3>2. Keys(q) # {} /\ q[Greatest(Keys(q))] = p
      BY <1>5, <3>1, KeysAppend DEF q
    <3>3. k + 1 \in 1..Len(v)
      BY <1>1, <3>1
    <3>4. FrontOld(w, q)
      <4>1. CASE p.pts - v[k + 1].pts >= CacheTime
        <5>1. v[k + 1].pts <= p.pts - CacheTime
          BY <1>10, <1>11, <3>3, <4>1, BoundsType
        <5> QED BY <3>1, <3>2, <5>1 DEF FrontOld
      <4>2. CASE \A i \in KeysOf(v) : k <= i /\ p.pts - v[i + 1].pts < CacheTime
        <5>1. CASE v = pv
          <6>1. v[k + 1].n = k + 1
            BY <3>3, <5>1 DEF Ordered
          <6>2. \A i \in Keys(v) : k + 1 <= i
            <7> SUFFICES ASSUME NEW i \in Keys(v) PROVE k + 1 <= i
              OBVIOUS
            <7>1. i \in 1..Len(v)
              BY KeysIs
            <7>2. i - 1 \in Nat /\ (i - 1) + 1 = i
              BY <1>1, <7>1
            <7>3. i - 1 \in KeysOf(v)
              BY <7>2, KeysIs
            <7>4. k <= i - 1
              BY <4>2, <7>3
            <7> QED BY <1>1, <7>1, <7>4
          <6>3. Least(Keys(v)) = k + 1
            BY <3>1, <6>2, KeysIs, LeastIs
          <6>4. Least(Keys(q)) = k + 1
            BY <3>1, <5>1, <6>3, KeysAppend DEF q
          <6> QED BY <3>1, <6>1, <6>4 DEF FrontOld
        <5>2. CASE v # pv
          <6>1. v # <<>> /\ v[1].key /\ Keys(pv) # {} /\ FrontOld(v, pv)
            BY <5>2 DEF VideoBack
          <6>2. 1 \in 1..Len(v)
            BY <6>1, SeqIs
          <6>3. 0 \in KeysOf(v)
            <7>1. Keys(v) = {i \in 1..Len(v) : v[i].key}
              BY KeysIs
            <7>2. 1 \in Keys(v)
              BY <6>1, <6>2, <7>1
            <7>3. 0 \in Nat /\ 0 + 1 = 1
              OBVIOUS
            <7> QED BY <7>2, <7>3, KeysIs
          <6>4. k = 0 /\ w[1] = v[1]
            BY <1>1, <3>1, <4>2, <6>3
          <6>5. CASE v[1].n = Least(Keys(pv))
            <7>1. Least(Keys(q)) = Least(Keys(pv))
              BY <6>1, KeysAppend DEF q
            <7> QED BY <6>4, <6>5, <7>1 DEF FrontOld
          <6>6. CASE v[1].pts <= pv[Greatest(Keys(pv))].pts - CacheTime
            <7>1. Greatest(Keys(pv)) \in 1..Len(pv)
              <8>1. Keys(pv) \in SUBSET (0..Len(pv)) /\ Keys(pv) = {i \in 1..Len(pv) : pv[i].key}
                BY KeysIs
              <8> QED BY <1>1, <6>1, <8>1, GreatestOf
            <7>2. pv[Greatest(Keys(pv))].pts < p.pts /\ pv[Greatest(Keys(pv))].pts \in Nat
              BY <1>12, <7>1, SeqIs
            <7>3. v[1].pts <= p.pts - CacheTime
              <8> DEFINE x == pv[Greatest(Keys(pv))].pts
              <8>1. v[1].pts <= x - CacheTime /\ x < p.pts /\ x \in Nat
                BY <6>6, <7>2
              <8>2. p.pts \in Nat /\ CacheTime \in Nat /\ v[1].pts \in Int
                BY <1>10, <1>11, <6>2, BoundsType
              <8> HIDE DEF x
              <8> QED BY <8>1, <8>2
            <7> QED BY <3>2, <6>4, <7>3 DEF FrontOld
          <6> QED BY <6>1, <6>5, <6>6 DEF FrontOld
        <5> QED BY <5>1, <5>2
      <4> QED BY <2>3, <4>1, <4>2 DEF FrontMoved
    <3> QED BY <1>4, <3>1, <3>2, <3>4 DEF VideoBack
  <2> QED BY <2>1, <2>2, <2>3
<1>16. AudioBack(w, b, pa, o)
  <2> SUFFICES ASSUME NEW i \in 1..Len(pa), pa[i].pts >= w[1].pts PROVE pa[i] \in Range(b)
    BY <1>4 DEF AudioBack
  <2>1. pa[i].pts \in Nat
    BY SeqIs
  <2>2. CASE FrontMoved(p, k, d)
    <3>1. k + 1 \in 1..Len(v) /\ 1 \in 1..Len(v) /\ w[1] = v[k + 1] /\ v # <<>>
      BY <1>1, <1>14, <2>2, EmptySeq
    <3>2. v[1].pts <= v[k + 1].pts
      <4>1. k = 0 \/ 1 < k + 1
        OBVIOUS
      <4> QED BY <1>9, <1>10, <3>1, <4>1
    <3>3. pa[i].pts >= v[1].pts
      BY <1>10, <2>1, <3>1, <3>2
    <3>4. pa[i] \in Range(a)
      BY <3>1, <3>3 DEF AudioBack
    <3>5. PICK x \in 1..Len(a) : a[x] = pa[i]
      BY <3>4, SeqIs DEF Range
    <3>6. \A y \in 1..d : a[y].pts < v[k + 1].pts
      BY <2>2 DEF FrontMoved
    <3>7. x \notin 1..d
      <4>1. ~(a[x].pts < v[k + 1].pts)
        BY <1>10, <2>1, <3>1, <3>5
      <4> QED BY <3>6, <4>1
    <3>8. x - d \in 1..(Len(a) - d) /\ d + (x - d) = x
      BY <1>1, <3>5, <3>7
    <3>9. b[x - d] = pa[i] /\ x - d \in DOMAIN b
      BY <1>3, <3>5, <3>8, SeqIs
    <3> QED BY <3>9 DEF Range
  <2>3. CASE ~FrontMoved(p, k, d)
    <3>1. k = 0 /\ d = 0
      BY <2>3
    <3>2. b = a
      BY <3>1, EraseNone DEF b
    <3>3. CASE v = <<>>
      <4>1. b = pa
        BY <3>2, <3>3 DEF AudioBack
      <4> QED BY <4>1, SeqIs DEF Range
    <3>4. CASE v # <<>>
      <4>1. 1 \in 1..Len(v)
        BY <1>1, <3>4, SeqIs
      <4>2. 1 \in 1..m /\ k + 1 = 1
        BY <1>8, <3>1, <4>1
      <4>3. w[1] = v[1]
        BY <1>8, <4>2
      <4> QED BY <3>2, <3>4, <4>3 DEF AudioBack
    <3> QED BY <3>3, <3>4
  <2> QED BY <2>2, <2>3
<1>17. Trimmed(w)
  <2>1. Keys(w) = {i \in 1..(m + 1) : w[i].key} /\ Keys(v) = {i \in 1..Len(v) : v[i].key}
    BY <1>4, KeysIs
  <2>2. CASE ~FrontMoved(p, k, d)
    <3>1. k = 0 /\ d = 0 /\ (p.key => KeysOf(v) = {})
      BY <2>2
    <3>2. m = Len(v) /\ w = Append(v, p) /\ \A i \in 1..m : w[i] = v[i]
      BY <1>8, <3>1, EraseNone DEF w, e
    <3>3. CASE p.key
      <4>1. Keys(v) = {}
        <5> SUFFICES ASSUME NEW i \in Keys(v) PROVE FALSE
          OBVIOUS
        <5>1. i - 1 \in Nat /\ (i - 1) + 1 = i
          BY <1>1, <2>1
        <5> QED BY <3>1, <3>3, <5>1, KeysIs
      <4>2. Keys(w) = {Len(v) + 1}
        BY <3>2, <3>3, <4>1, KeysAppend
      <4> QED BY <1>1, <4>2 DEF Trimmed
    <3>4. CASE ~p.key
      <4>1. Keys(w) = Keys(v)
        BY <3>2, <3>4, KeysAppend
      <4>2. \A i \in Keys(v) : w[i] = v[i] /\ 1 \in 1..m
        BY <1>1, <2>1, <3>2
      <4>3. \A i \in Keys(v) : w[1] = v[1]
        BY <3>2, <4>2
      <4> QED BY <4>1, <4>2, <4>3 DEF Trimmed
    <3> QED BY <3>3, <3>4
  <2>3. CASE FrontMoved(p, k, d)
    <3>1. p.key /\ k < Len(v) /\ k + 1 \in Keys(v) /\ v[k + 1].key /\ w[1] = v[k + 1] /\ m >= 1
      BY <1>14, <2>3
    <3>2. w[1].key
      BY <3>1
    <3>3. ASSUME NEW i \in Keys(w), NEW j \in Keys(w), 1 < i, i < j
          PROVE  w[j].pts - w[i].pts < CacheTime
      <4>1. i \in 1..m /\ j \in 1..(m + 1) /\ w[i].key
        BY <1>8, <2>1, <3>3
      <4>2. w[i] = v[k + i] /\ k + i \in 1..Len(v) /\ v[k + i].key
        BY <1>8, <4>1
      <4>3. k + i - 1 \in KeysOf(v) /\ (k + i - 1) + 1 = k + i /\ k + i - 1 > k
        <5>1. k + i \in Keys(v)
          BY <2>1, <4>2
        <5>2. k + i - 1 \in Nat /\ (k + i - 1) + 1 = k + i /\ k + i - 1 > k
          BY <1>1, <3>3, <4>1
        <5> QED BY <5>1, <5>2, KeysIs
      <4>4. p.pts - v[k + i].pts < CacheTime
        BY <2>3, <4>3 DEF FrontMoved
      <4>5. w[j].pts <= p.pts /\ w[j].pts \in Nat
        <5>1. CASE j = m + 1
          BY <1>4, <1>11, <5>1
        <5>2. CASE j \in 1..m
          <6>1. w[j] = v[k + j] /\ k + j \in 1..Len(v)
            BY <1>8, <5>2
          <6> QED BY <1>10, <1>11, <1>13, <6>1
        <5> QED BY <1>8, <4>1, <5>1, <5>2
      <4>6. v[k + i].pts \in Nat
        BY <1>10, <4>2
      <4> QED BY <1>11, <4>2, <4>4, <4>5, <4>6, BoundsType
    <3> QED BY <3>2, <3>3 DEF Trimmed
  <2> QED BY <2>2, <2>3
<1> QED BY <1>6, <1>7, <1>15, <1>16, <1>17 DEF w, b, q, e

(* An audio packet comes.                                                  *)
LEMMA AudioPush ==
  ASSUME NEW v \in Seq(Packet), NEW a \in Seq(Packet), NEW pa \in Seq(Packet), NEW p \in Packet,
         NEW o, Backed(a, pa), AudioBack(v, a, pa, o),
         NEW d \in 0..Len(a), "video" \in o.source => d = 0
  PROVE  LET b == Append(EraseFront(a, d), p)
         IN  Backed(b, Append(pa, p)) /\ AudioBack(v, b, Append(pa, p), o)
<1> DEFINE b == Append(EraseFront(a, d), p)  q == Append(pa, p)
<1>1. Backed(b, q)
  BY BackedPush DEF Backed
<1>2. AudioBack(v, b, q, o)
  <2>1. CASE "video" \notin o.source
    <3>1. v = <<>>
      BY <2>1 DEF AudioBack
    <3> QED BY <2>1, <3>1 DEF AudioBack
  <2>2. CASE "video" \in o.source
    <3>1. b = Append(a, p)
      BY <2>2, EraseNone
    <3>2. /\ b \in Seq(Packet) /\ Len(b) = Len(a) + 1 /\ b[Len(a) + 1] = p
          /\ \A i \in 1..Len(a) : b[i] = a[i]
      BY <3>1, AppendProperties
    <3>3. q \in Seq(Packet) /\ Len(q) = Len(pa) + 1 /\ q[Len(pa) + 1] = p
                            /\ \A i \in 1..Len(pa) : q[i] = pa[i]
      BY AppendProperties
    <3>4. v = <<>> => b = q
      BY <2>2, <3>1 DEF AudioBack
    <3> HIDE DEF b, q
    <3>5. Len(a) \in Nat /\ Len(pa) \in Nat /\ DOMAIN a = 1..Len(a) /\ DOMAIN b = 1..(Len(a) + 1)
      BY <3>2, SeqIs
    <3>6. Range(a) \subseteq Range(b) /\ p \in Range(b)
      BY <3>2, <3>5 DEF Range
    <3>7. ASSUME v # <<>>, NEW i \in 1..Len(q), q[i].pts >= v[1].pts PROVE q[i] \in Range(b)
      <4>1. CASE i \in 1..Len(pa)
        BY <3>3, <3>6, <3>7, <4>1 DEF AudioBack
      <4>2. CASE i = Len(pa) + 1
        BY <3>3, <3>6, <4>2
      <4> QED BY <3>3, <3>5, <4>1, <4>2
    <3> QED BY <2>2, <3>4, <3>7 DEF AudioBack
  <2> QED BY <2>1, <2>2
<1> QED BY <1>1, <1>2

LEMMA InitCache == Init => CacheInv
<1> SUFFICES ASSUME Init PROVE CacheInv
  OBVIOUS
<1>1. \A s \in Streams : cache[s] = <<>> /\ Past(s) = <<>> /\ Len(cache[s]) = 0
  BY EmptySeq DEF Init, Nothing, Past
<1>2. "video" \in Streams /\ "audio" \in Streams
  BY DEF Streams
<1>3. \A s \in Streams : Backed(cache[s], Past(s))
  <2>1. Len(<<>>) = 0 /\ \A i \in 1..0 : FALSE
    BY EmptySeq
  <2>2. IsTail(<<>>, <<>>)
    BY <2>1 DEF IsTail
  <2> QED BY <1>1, <2>2 DEF Backed
<1>4. Keys(cache["video"]) = {}
  BY <1>1, <1>2 DEF Keys
<1>5. Trimmed(cache["video"])
  BY <1>4 DEF Trimmed
<1> QED BY <1>1, <1>2, <1>3, <1>5 DEF CacheInv, VideoBack, AudioBack

LEMMA CacheStep == TypeInv /\ TakenInv /\ CacheInv /\ [Next]_vars => CacheInv'
<1> SUFFICES ASSUME TypeInv, TakenInv, CacheInv, [Next]_vars PROVE CacheInv'
  OBVIOUS
<1> DEFINE v == cache["video"]  a == cache["audio"]  pv == Past("video")  pa == Past("audio")
<1>1. "video" \in Streams /\ "audio" \in Streams /\ Streams = {"video", "audio"}
  BY DEF Streams
<1>2. /\ cache \in [Streams -> Seq(Packet)] /\ v \in Seq(Packet) /\ a \in Seq(Packet)
      /\ opts \in Options
  BY <1>1 DEF TypeInv, Data, Control
<1>3. opts' = opts
  BY Steps DEF TakePacket, TakeNull, Take, Write, WriteFault, Delete, Ask, ToggleRecording,
     StartFileBreak, BreakPoll, BreakResume, Rest, vars
<1>4. CASE ~(Write /\ hand # Null)
  <2>1. cache' = cache
    BY <1>4, Steps DEF TakePacket, TakeNull, Take, Write, CachePacket, WriteFault, Delete, Ask,
       ToggleRecording, StartFileBreak, BreakPoll, BreakResume, Rest, vars, cacheVars, fileVars
  <2>2. \A s \in Streams : Past(s)' = Past(s)
    BY <1>4, PastKept
  <2> QED BY <1>1, <1>3, <2>1, <2>2 DEF CacheInv
<1>5. CASE Write /\ hand # Null
  <2>1. hand \in Packet /\ hand.stream \in Streams /\ cache' = PushCache(hand)
    BY <1>5 DEF TypeInv, Data, Write, CachePacket, Packet
  <2>2. \A s \in Streams : Past(s)' = IF s = hand.stream THEN Append(Past(s), hand) ELSE Past(s)
    BY <1>5, PastWritten
  <2>3. /\ pv \in Seq(Packet) /\ pa \in Seq(Packet)
        /\ Ordered("video", pv, opts) /\ Ordered("audio", pa, opts)
        /\ hand.stream = "video" => Ordered("video", Append(pv, hand), opts)
    BY <1>1, <1>5, PastIs
  <2>4. /\ Backed(v, pv) /\ Backed(a, pa) /\ VideoBack(v, pv) /\ AudioBack(v, a, pa, opts)
        /\ Trimmed(v)
    BY <1>1 DEF CacheInv
  <2>5. CASE hand.stream = "video"
    <3>1. PICK k \in 0..Len(v), d \in 0..Len(a) :
            /\ PushCache(hand) = [video |-> Append(EraseFront(v, k), hand),
                                  audio |-> EraseFront(a, d)]
            /\ \/ k = 0 /\ d = 0 /\ (hand.key => KeysOf(v) = {})
               \/ FrontMoved(hand, k, d)
      BY <1>2, <2>1, <2>5, PushVideoIs
    <3> DEFINE w == Append(EraseFront(v, k), hand)  b == EraseFront(a, d)
    <3>2. cache'["video"] = w /\ cache'["audio"] = b
      BY <2>1, <3>1
    <3>3. Past("video")' = Append(pv, hand) /\ Past("audio")' = pa
      BY <1>1, <2>2, <2>5
    <3>4. "video" \in opts.source
      <4>1. taken["video"] # <<>>
        BY <1>1, <1>5, <2>5 DEF TakenInv, InHand
      <4> QED BY <1>1, <1>2, <4>1, OptsType DEF TakenInv, Ordered
    <3>5. cache = [video |-> v, audio |-> a]
      BY <1>1, <1>2
    <3>6. /\ Backed(w, Append(pv, hand)) /\ Backed(b, pa) /\ VideoBack(w, Append(pv, hand))
          /\ AudioBack(w, b, pa, opts) /\ Trimmed(w)
      <4> HIDE DEF v, a, pv, pa
      <4> QED BY <1>2, <2>1, <2>3, <2>4, <2>5, <3>1, <3>4, <3>5, VideoPush
    <3> QED BY <1>1, <1>3, <3>2, <3>3, <3>6 DEF CacheInv
  <2>6. CASE hand.stream = "audio"
    <3>1. PICK d \in 0..Len(a) :
            /\ PushCache(hand) = [video |-> v, audio |-> Append(EraseFront(a, d), hand)]
            /\ "video" \in opts.source => d = 0
      BY <1>2, <2>1, <2>6, PushAudioIs
    <3> DEFINE b == Append(EraseFront(a, d), hand)
    <3>2. cache'["video"] = v /\ cache'["audio"] = b
      BY <2>1, <3>1
    <3>3. Past("video")' = pv /\ Past("audio")' = Append(pa, hand)
      BY <1>1, <2>2, <2>6
    <3>4. Backed(b, Append(pa, hand)) /\ AudioBack(v, b, Append(pa, hand), opts)
      <4> HIDE DEF v, a, pv, pa
      <4> QED BY <1>2, <2>1, <2>3, <2>4, <3>1, AudioPush
    <3> QED BY <1>1, <1>3, <2>4, <3>2, <3>3, <3>4 DEF CacheInv
  <2> QED BY <1>1, <2>1, <2>5, <2>6
<1> QED BY <1>4, <1>5

RecInv == TypeInv /\ TakenInv /\ CacheInv

LEMMA Caches == Spec => []RecInv
<1>1. Init => RecInv
  BY InitType, InitTaken, InitCache DEF RecInv
<1>2. RecInv /\ [Next]_vars => RecInv'
  BY TypeStep, TakenStep, CacheStep DEF RecInv
<1> QED BY <1>1, <1>2, PTL DEF Spec

LEMMA TailSuffix ==
  ASSUME NEW c \in Seq(Packet), NEW q \in Seq(Packet), IsTail(c, q)
  PROVE  IsSuffix(c, q)
<1> DEFINE rc == Reverse(c)  rq == Reverse(q)  n == Len(c)
<1>1. /\ Len(c) \in Nat /\ Len(q) \in Nat /\ Len(c) <= Len(q)
      /\ \A i \in 1..Len(c) : c[i] = q[Len(q) - Len(c) + i]
  BY LenProperties DEF IsTail
<1>2. \A x \in Seq(Packet) : Reverse(x) \in [1..Len(x) -> Packet] /\ Len(Reverse(x)) = Len(x)
                               /\ \A i \in 1..Len(x) : Reverse(x)[i] = x[(Len(x) - i) + 1]
  <2> SUFFICES ASSUME NEW x \in Seq(Packet)
               PROVE  Reverse(x) \in [1..Len(x) -> Packet] /\ Len(Reverse(x)) = Len(x)
                        /\ \A i \in 1..Len(x) : Reverse(x)[i] = x[(Len(x) - i) + 1]
    OBVIOUS
  <2>1. Len(x) \in Nat /\ \A i \in 1..Len(x) : x[i] \in Packet
    BY SeqIs
  <2>2. \A i \in 1..Len(x) : (Len(x) - i) + 1 \in 1..Len(x)
    BY <2>1
  <2>3. Reverse(x) = [i \in 1..Len(x) |-> x[(Len(x) - i) + 1]]
    BY DEF Reverse
  <2> QED BY <2>1, <2>2, <2>3
<1>3. /\ \A i \in 1..n : rc[i] \in Packet /\ rc[i] = c[(n - i) + 1]
      /\ \A i \in 1..Len(q) : rq[i] \in Packet /\ rq[i] = q[(Len(q) - i) + 1]
      /\ Len(rc) = n /\ Len(rq) = Len(q)
  BY <1>2
<1> HIDE DEF rc, rq
<1>4. \A i \in 1..n : rc[i] = rq[i]
  <2> SUFFICES ASSUME NEW i \in 1..n PROVE rc[i] = rq[i]
    OBVIOUS
  <2>1. (n - i) + 1 \in 1..n /\ i \in 1..Len(q)
        /\ Len(q) - n + ((n - i) + 1) = (Len(q) - i) + 1
    BY <1>1
  <2> QED BY <1>1, <1>3, <2>1
<1>5. SubSeq(rc, 1, n) = SubSeq(rq, 1, n)
  <2> DEFINE sc == SubSeq(rc, 1, n)  sq == SubSeq(rq, 1, n)
  <2>1. \A i \in 1..n : rc[i] \in Packet /\ rq[i] \in Packet
    BY <1>1, <1>3
  <2>2. /\ sc \in Seq(Packet) /\ Len(sc) = IF 1 <= n THEN n - 1 + 1 ELSE 0
        /\ \A i \in 1..(n - 1 + 1) : sc[i] = rc[1 + i - 1]
    BY <1>1, <2>1, SubSeqProperties
  <2>3. /\ sq \in Seq(Packet) /\ Len(sq) = IF 1 <= n THEN n - 1 + 1 ELSE 0
        /\ \A i \in 1..(n - 1 + 1) : sq[i] = rq[1 + i - 1]
    BY <1>1, <2>1, SubSeqProperties
  <2> HIDE DEF sc, sq
  <2>4. Len(sc) = Len(sq) /\ Len(sc) = n
    BY <1>1, <2>2, <2>3
  <2>5. \A i \in 1..n : sc[i] = sq[i]
    <3> SUFFICES ASSUME NEW i \in 1..n PROVE sc[i] = sq[i]
      OBVIOUS
    <3>1. i \in 1..(n - 1 + 1) /\ 1 + i - 1 = i
      BY <1>1
    <3> QED BY <1>4, <2>2, <2>3, <3>1
  <2>6. sc = sq
    BY <2>2, <2>3, <2>4, <2>5, SeqEqual
  <2> QED BY <2>6 DEF sc, sq
<1> QED BY <1>1, <1>3, <1>5 DEF IsSuffix, IsPrefix, rc, rq

LEMMA RecCovers == RecInv => CacheCovers
<1> SUFFICES ASSUME RecInv PROVE CacheCovers
  OBVIOUS
<1> DEFINE v == cache["video"]  past == Past("video")  pa == Past("audio")
<1>1. "video" \in Streams /\ "audio" \in Streams
  BY DEF Streams
<1>2. \A s \in Streams : cache[s] \in Seq(Packet) /\ Past(s) \in Seq(Packet)
  BY PastIs DEF RecInv, TypeInv, Data
<1>3. \A s \in Streams : IsSuffix(cache[s], Past(s))
  BY <1>2, TailSuffix DEF RecInv, CacheInv, Backed
<1>4. v # <<>> => Head(v) = v[1]
  BY <1>1, <1>2
<1>5. \/ v = past
      \/ Keys(past) # {} /\ Head(v).pts <= past[Greatest(Keys(past))].pts - CacheTime
      \/ Keys(past) # {} /\ Head(v).n = Least(Keys(past))
  BY <1>4 DEF RecInv, CacheInv, VideoBack, FrontOld
<1>6. v # <<>> => \A p \in Range(pa) : p.pts >= Head(v).pts => p \in Range(cache["audio"])
  <2> SUFFICES ASSUME v # <<>>, NEW p \in Range(pa), p.pts >= Head(v).pts
               PROVE  p \in Range(cache["audio"])
    OBVIOUS
  <2>1. PICK i \in 1..Len(pa) : p = pa[i]
    BY <1>1, <1>2, SeqIs DEF Range
  <2> QED BY <1>4, <2>1 DEF RecInv, CacheInv, AudioBack
<1> QED BY <1>3, <1>5, <1>6 DEF CacheCovers

LEMMA RecTrimmed == RecInv => VideoTrimmed
<1> SUFFICES ASSUME RecInv PROVE VideoTrimmed
  OBVIOUS
<1> DEFINE v == cache["video"]
<1>1. v \in Seq(Packet)
  BY DEF RecInv, TypeInv, Data, Streams
<1>2. Trimmed(v)
  BY DEF RecInv, CacheInv
<1> HIDE DEF v
<1>3. ASSUME Cardinality(Keys(v)) > 1 PROVE Head(v).key
  <2>1. PICK i, j \in Keys(v) : i # j
    <3>1. SUFFICES ASSUME \A i, j \in Keys(v) : i = j PROVE FALSE
      OBVIOUS
    <3>2. Keys(v) = {} \/ \E i \in Keys(v) : Keys(v) = {i}
      BY <3>1
    <3>3. Cardinality({}) = 0 /\ \A i : Cardinality({i}) = 1
      BY FS_EmptySet, FS_Singleton
    <3> QED BY <1>3, <3>2, <3>3
  <2>2. v # <<>>
    <3>1. i \in 1..Len(v)
      BY <1>1, <2>1, KeysIs
    <3> QED BY <3>1, EmptySeq
  <2>3. v[1].key /\ Head(v) = v[1]
    BY <1>1, <1>2, <2>1, <2>2 DEF Trimmed
  <2> QED BY <2>3
<1> QED BY <1>2, <1>3 DEF VideoTrimmed, Trimmed, v

(* Whatever comes when from which stream, the caches hold the moments      *)
(* before now: the packets that came last without a gap, the video from    *)
(* its start or from CacheTime before the newest key frame on, the audio   *)
(* as far back as the video.                                               *)
THEOREM CacheCoversAlways == Spec => []CacheCovers
<1> QED BY Caches, RecCovers, PTL

(* ... and the video cache is trimmed as far as that allows.               *)
THEOREM VideoTrimmedAlways == Spec => []VideoTrimmed
<1> QED BY Caches, RecTrimmed, PTL

-----------------------------------------------------------------------------
(* What a file holds.                                                      *)

LEMMA AddIs ==
  ASSUME NEW old \in [Streams -> Seq(Packet)], NEW q \in [Streams -> Seq(Packet)],
         AddToFile(old, q)
  PROVE  /\ \A s \in Streams \cap opts.written :
              file'[s] = old[s] \o q[s] /\ Range(q[s]) \subseteq Given'
         /\ Given \subseteq Given'
         /\ Given' \subseteq Given \cup UNION {Range(q[s]) : s \in Streams \cap opts.written}
<1> DEFINE w == Writable(q)
<1>1. file' = [s \in Streams |-> old[s] \o w[s]]
  BY DEF AddToFile
<1>2. Given' = Given \cup UNION {Range(w[s]) : s \in Streams}
  <2> DEFINE new == UNION {Range(w[s]) : s \in Streams}
  <2>1. PICK bad \in SUBSET new :
          recorded' = recorded \cup (new \ bad) /\ refused' = refused \cup bad
    BY DEF AddToFile
  <2> HIDE DEF new
  <2>2. Given' = Given \cup new
    BY <2>1 DEF Given
  <2> QED BY <2>2 DEF new
<1>3. w = [s \in Streams |-> IF s \in opts.written THEN q[s] ELSE <<>>]
  BY DEF Writable
<1> HIDE DEF w
<1>4. \A s \in Streams : IF s \in opts.written THEN w[s] = q[s] ELSE w[s] = <<>>
  BY <1>3
<1>5. Range(<<>>) = {}
  BY DEF Range
<1>6. \A s \in Streams \cap opts.written : file'[s] = old[s] \o q[s]
  BY <1>1, <1>4
<1>7. \A s \in Streams \cap opts.written : Range(q[s]) \subseteq Given'
  BY <1>2, <1>4
<1>8. Given' \subseteq Given \cup UNION {Range(q[s]) : s \in Streams \cap opts.written}
  <2> SUFFICES ASSUME NEW p \in Given', p \notin Given
               PROVE  \E s \in Streams \cap opts.written : p \in Range(q[s])
    OBVIOUS
  <2>1. PICK s \in Streams : p \in Range(w[s])
    BY <1>2
  <2>2. s \in opts.written
    BY <1>4, <1>5, <2>1
  <2> QED BY <1>4, <2>1, <2>2
<1> QED BY <1>2, <1>6, <1>7, <1>8

(* Only the writer opens a file, when it has read the flag.                *)
LEMMA OpenedIs ==
  ASSUME TypeInv, [Next]_vars, fmt = "null", fmt' = "open"
  PROVE  /\ Write /\ saw /\ hand \in Packet /\ failed' = failed
         /\ AddToFile(Nothing, With(WriteCache, hand))
         /\ With(WriteCache, hand) \in [Streams -> Seq(Packet)]
         /\ WriteCache \in [Streams -> Seq(Packet)]
<1>1. Write
  BY Steps DEF TakePacket, TakeNull, Take, WriteFault, Delete, Ask, ToggleRecording,
     StartFileBreak, BreakPoll, BreakResume, Rest, vars, cacheVars, fileVars
<1>2. ~CloseFile /\ ~WriteFile
  BY DEF CloseFile, WriteFile
<1>3. saw /\ hand # Null /\ OpenFile
  BY <1>1, <1>2 DEF Write
<1>4. AddToFile(Nothing, With(WriteCache, hand)) /\ failed' = failed
  BY <1>3 DEF OpenFile
<1>5. hand \in Packet /\ cache \in [Streams -> Seq(Packet)]
  BY <1>3 DEF TypeInv, Data
<1> QED BY <1>1, <1>3, <1>4, <1>5, WriteCacheType, WithIs

LEMMA AppendRange ==
  ASSUME NEW q \in Seq(Packet), NEW p \in Packet
  PROVE  Range(Append(q, p)) = Range(q) \cup {p}
<1> DEFINE r == Append(q, p)  n == Len(q)
<1>1. n \in Nat /\ r \in Seq(Packet) /\ Len(r) = n + 1 /\ r[n + 1] = p
                /\ \A i \in 1..n : r[i] = q[i]
  BY AppendProperties, LenProperties
<1> HIDE DEF r
<1>2. DOMAIN q = 1..n /\ DOMAIN r = 1..(n + 1)
  BY <1>1, SeqIs
<1>3. \A i \in 1..(n + 1) : i \in 1..n \/ i = n + 1
  BY <1>1
<1>4. Range(r) \subseteq Range(q) \cup {p}
  BY <1>1, <1>2, <1>3 DEF Range
<1>5. Range(q) \subseteq Range(r) /\ p \in Range(r)
  BY <1>1, <1>2 DEF Range
<1> QED BY <1>4, <1>5 DEF r

LEMMA AppendFirst ==
  ASSUME NEW q \in Seq(Packet), q # <<>>, NEW p \in Packet
  PROVE  Append(q, p) # <<>> /\ Append(q, p)[1] = q[1]
<1> DEFINE r == Append(q, p)  n == Len(q)
<1>1. n \in Nat /\ r \in Seq(Packet) /\ Len(r) = n + 1 /\ \A i \in 1..n : r[i] = q[i]
  BY AppendProperties, LenProperties
<1> HIDE DEF r
<1>2. n >= 1
  BY <1>1, SeqIs
<1>3. r[1] = q[1] /\ Len(r) # 0
  BY <1>1, <1>2
<1>4. r # <<>>
  BY <1>3
<1> QED BY <1>3, <1>4 DEF r

LEMMA PrefixHas ==
  ASSUME NEW q \in Seq(Packet), NEW n \in 0..Len(q), NEW x \in 1..n
  PROVE  q[x] \in Range(SubSeq(q, 1, n))
<1> DEFINE f == SubSeq(q, 1, n)
<1>1. Len(q) \in Nat /\ \A i \in 1..n : q[i] \in Packet
  BY SeqIs
<1>2. /\ f \in Seq(Packet) /\ Len(f) = IF 1 <= n THEN n - 1 + 1 ELSE 0
      /\ \A i \in 1..(n - 1 + 1) : f[i] = q[1 + i - 1]
  BY <1>1, SubSeqProperties
<1> HIDE DEF f
<1>3. Len(f) = n
  BY <1>1, <1>2
<1>4. x \in 1..(n - 1 + 1) /\ 1 + x - 1 = x
  BY <1>1
<1>5. f[x] = q[x] /\ x \in DOMAIN f
  BY <1>2, <1>3, <1>4, SeqIs
<1> QED BY <1>5 DEF Range, f

(* What is older than the end of the other cache is written.               *)
LEMMA MergedHas ==
  ASSUME RecInv, NEW s \in Streams, NEW p \in Range(cache[s]),
         \A o \in Streams \ {s} : cache[o] # <<>> => p.pts < Last(cache[o]).pts
  PROVE  p \in Range(WriteCache[s])
<1> DEFINE v == cache["video"]  a == cache["audio"]
<1>1. "video" \in Streams /\ "audio" \in Streams /\ Streams = {"video", "audio"}
  BY DEF Streams
<1>2. v \in Seq(Packet) /\ a \in Seq(Packet)
  BY <1>1 DEF RecInv, TypeInv, Data
<1>3. CASE v = <<>> \/ a = <<>>
  BY <1>3 DEF WriteCache
<1>4. CASE v # <<>> /\ a # <<>>
  <2>1. PICK i \in 0..Len(v), j \in 0..Len(a) : Merged(v, a) = <<i, j>> /\ MergeEnd(v, a, i, j)
    BY <1>2, <1>4, MergedIs
  <2>2. WriteCache = [video |-> SubSeq(v, 1, i), audio |-> SubSeq(a, 1, j)]
    BY <1>4, <2>1 DEF WriteCache
  <2>3. /\ Len(v) \in Nat /\ Len(a) \in Nat /\ Len(v) >= 1 /\ Len(a) >= 1
        /\ DOMAIN v = 1..Len(v) /\ DOMAIN a = 1..Len(a)
        /\ \A x \in 1..Len(v) : v[x].pts \in Nat
        /\ \A x \in 1..Len(a) : a[x].pts \in Nat
    BY <1>2, <1>4, SeqIs
  <2>4. /\ \A x, y \in 1..Len(v) : x < y => v[x].pts < v[y].pts
        /\ \A x, y \in 1..Len(a) : x < y => a[x].pts < a[y].pts
    <3>1. /\ IsTail(v, Past("video")) /\ IsTail(a, Past("audio"))
      BY <1>1 DEF RecInv, CacheInv, Backed
    <3>2. /\ Past("video") \in Seq(Packet) /\ Ordered("video", Past("video"), opts)
          /\ Past("audio") \in Seq(Packet) /\ Ordered("audio", Past("audio"), opts)
      BY <1>1, PastIs DEF RecInv
    <3> HIDE DEF v, a
    <3> QED BY <1>2, <3>1, <3>2, TailOrdered
  <2>5. CASE s = "video"
    <3>1. PICK x \in 1..Len(v) : v[x] = p
      BY <2>3, <2>5 DEF Range
    <3>2. p.pts < a[Len(a)].pts
      BY <1>1, <1>4, <2>5 DEF Last
    <3>3. x \in 1..i
      <4>1. SUFFICES ASSUME x > i PROVE FALSE
        BY <2>3
      <4>2. i < Len(v) /\ j = Len(a) /\ a[j].pts <= v[i + 1].pts
        BY <2>1, <2>3, <4>1 DEF MergeEnd
      <4>3. i + 1 \in 1..Len(v) /\ Len(a) \in 1..Len(a) /\ (x = i + 1 \/ i + 1 < x)
        BY <2>3, <4>1, <4>2
      <4>4. v[i + 1].pts <= v[x].pts
        BY <2>3, <2>4, <4>3
      <4> QED BY <2>3, <3>1, <3>2, <4>2, <4>3, <4>4
    <3>4. p \in Range(SubSeq(v, 1, i))
      BY <1>2, <3>1, <3>3, PrefixHas
    <3> QED BY <2>2, <2>5, <3>4
  <2>6. CASE s = "audio"
    <3>1. PICK x \in 1..Len(a) : a[x] = p
      BY <2>3, <2>6 DEF Range
    <3>2. p.pts < v[Len(v)].pts
      BY <1>1, <1>4, <2>6 DEF Last
    <3>3. x \in 1..j
      <4>1. SUFFICES ASSUME x > j PROVE FALSE
        BY <2>3
      <4>2. i = Len(v) /\ j < Len(a) /\ v[i].pts <= a[j + 1].pts
        BY <2>1, <2>3, <4>1 DEF MergeEnd
      <4>3. j + 1 \in 1..Len(a) /\ Len(v) \in 1..Len(v) /\ (x = j + 1 \/ j + 1 < x)
        BY <2>3, <4>1, <4>2
      <4>4. a[j + 1].pts <= a[x].pts
        BY <2>3, <2>4, <4>3
      <4>5. v[Len(v)].pts \in Nat /\ a[j + 1].pts \in Nat /\ a[x].pts \in Nat
        BY <2>3, <4>3
      <4> QED BY <3>1, <3>2, <4>2, <4>4, <4>5
    <3>4. p \in Range(SubSeq(a, 1, j))
      BY <1>2, <3>1, <3>3, PrefixHas
    <3> QED BY <2>2, <2>6, <3>4
  <2> QED BY <1>1, <2>5, <2>6
<1> QED BY <1>3, <1>4

Open == fmt = "null" /\ fmt' = "open"
Merges == Open => \A s \in opts.written : \A p \in Range(cache[s]) :
            (\A o \in Streams \ {s} : cache[o] # <<>> => p.pts < Last(cache[o]).pts)
              => p \in Range(file'[s])

LEMMA OpenMerges == RecInv /\ [Next]_vars => Merges
<1> SUFFICES ASSUME RecInv, [Next]_vars, Open, NEW s \in opts.written, NEW p \in Range(cache[s]),
                    \A o \in Streams \ {s} : cache[o] # <<>> => p.pts < Last(cache[o]).pts
             PROVE  p \in Range(file'[s])
  BY DEF Merges
<1> DEFINE q == With(WriteCache, hand)
<1>1. TypeInv /\ fmt = "null" /\ fmt' = "open"
  BY DEF RecInv, Open
<1>2. /\ hand \in Packet /\ AddToFile(Nothing, q) /\ q \in [Streams -> Seq(Packet)]
      /\ WriteCache \in [Streams -> Seq(Packet)]
  BY <1>1, OpenedIs
<1>3. s \in Streams
  <2>1. opts \in Options
    BY <1>1 DEF TypeInv, Control
  <2> QED BY <2>1, OptsType
<1>4. file'[s] = q[s]
  <2>1. file'[s] = Nothing[s] \o q[s]
    BY <1>2, <1>3, NothingType, AddIs
  <2>2. Nothing[s] = <<>> /\ q[s] \in Seq(Packet)
    BY <1>2, <1>3 DEF Nothing
  <2> QED BY <2>1, <2>2, ConcatEmptySeq
<1>5. p \in Range(WriteCache[s])
  BY <1>3, MergedHas
<1>6. Range(WriteCache[s]) \subseteq Range(q[s])
  <2>1. CASE s = hand.stream
    <3>1. q[s] = Append(WriteCache[s], hand)
      BY <1>2, <2>1, WithIs
    <3> QED BY <1>2, <1>3, <3>1, AppendRange
  <2>2. CASE s # hand.stream
    BY <1>2, <1>3, <2>2, WithIs
  <2> QED BY <2>1, <2>2
<1> QED BY <1>4, <1>5, <1>6

(* A file begins with all packets of the cache that are older than the end *)
(* of the other one: the moments before an alarm are in its file.          *)
THEOREM PreAlarmMergedAlways == Spec => PreAlarmMerged
<1> QED BY Caches, OpenMerges, PTL DEF Spec, PreAlarmMerged, Merges, Open

-----------------------------------------------------------------------------
(* The requests: while one for recording holds, the flag is set or         *)
(* file_break() is going to set it.                                        *)
AllTaken == UNION {Range(taken[s]) : s \in Streams}
Requested ==
  /\ on => recording \/ brk \in {"poll", "resume"} \/ gone
  /\ ~on => due = {}
  /\ gone => wr = "done"
  /\ fmt = "bad" => failed
  /\ Given \subseteq AllTaken /\ due \subseteq AllTaken

LEMMA TailRange ==
  ASSUME NEW c \in Seq(Packet), NEW q \in Seq(Packet), IsTail(c, q)
  PROVE  Range(c) \subseteq Range(q)
<1>1. /\ Len(c) \in Nat /\ Len(q) \in Nat /\ Len(c) <= Len(q)
      /\ DOMAIN c = 1..Len(c) /\ DOMAIN q = 1..Len(q)
  BY SeqIs DEF IsTail
<1>2. \A i \in 1..Len(c) : Len(q) - Len(c) + i \in 1..Len(q)
  BY <1>1
<1> QED BY <1>1, <1>2 DEF IsTail, Range

LEMMA HandTaken ==
  ASSUME TypeInv, TakenInv, hand # Null
  PROVE  hand \in Packet /\ hand.stream \in Streams /\ hand \in Range(taken[hand.stream])
                         /\ LastPts(hand.stream) = hand.pts
<1>1. hand \in Packet /\ hand.stream \in Streams
  BY DEF TypeInv, Data, Packet
<1> DEFINE q == taken[hand.stream]
<1>2. q \in Seq(Packet) /\ q # <<>> /\ hand = Last(q)
  BY <1>1 DEF TypeInv, Data, TakenInv, InHand
<1>3. Len(q) \in 1..Len(q) /\ DOMAIN q = 1..Len(q) /\ Last(q) = q[Len(q)]
  BY <1>2, SeqIs DEF Last
<1> QED BY <1>1, <1>2, <1>3 DEF Range, LastPts

LEMMA CacheTaken ==
  ASSUME RecInv, NEW s \in Streams
  PROVE  Range(cache[s]) \subseteq Range(taken[s])
<1>1. /\ cache[s] \in Seq(Packet) /\ Past(s) \in Seq(Packet) /\ IsTail(cache[s], Past(s))
  BY PastIs DEF RecInv, TypeInv, Data, CacheInv, Backed
<1>2. Range(cache[s]) \subseteq Range(Past(s))
  BY <1>1, TailRange
<1>3. Range(Past(s)) \subseteq Range(taken[s])
  <2>1. CASE hand # Null /\ hand.stream = s
    <3>1. taken[s] = Append(Past(s), hand) /\ hand \in Packet
      BY <2>1, PastIs DEF RecInv, TypeInv, Data
    <3> QED BY <1>1, <3>1, AppendRange
  <2>2. CASE ~(hand # Null /\ hand.stream = s)
    BY <2>2 DEF Past
  <2> QED BY <2>1, <2>2
<1> QED BY <1>2, <1>3

LEMMA WriteCacheRange ==
  ASSUME TypeInv, NEW s \in Streams
  PROVE  Range(WriteCache[s]) \subseteq Range(cache[s])
<1> DEFINE v == cache["video"]  a == cache["audio"]
<1>1. v \in Seq(Packet) /\ a \in Seq(Packet) /\ Streams = {"video", "audio"}
  BY DEF TypeInv, Data, Streams
<1>2. CASE v = <<>> \/ a = <<>>
  BY <1>2 DEF WriteCache
<1>3. CASE v # <<>> /\ a # <<>>
  <2>1. PICK i \in 0..Len(v), j \in 0..Len(a) : Merged(v, a) = <<i, j>>
    BY <1>1, <1>3, MergedIs
  <2>2. WriteCache = [video |-> SubSeq(v, 1, i), audio |-> SubSeq(a, 1, j)]
    BY <1>3, <2>1 DEF WriteCache
  <2>3. ASSUME NEW q \in Seq(Packet), NEW n \in 0..Len(q)
        PROVE  Range(SubSeq(q, 1, n)) \subseteq Range(q)
    <3> DEFINE f == SubSeq(q, 1, n)
    <3>1. Len(q) \in Nat /\ DOMAIN q = 1..Len(q) /\ \A x \in 1..n : q[x] \in Packet
      BY SeqIs
    <3>2. /\ f \in Seq(Packet) /\ Len(f) = IF 1 <= n THEN n - 1 + 1 ELSE 0
          /\ \A x \in 1..(n - 1 + 1) : f[x] = q[1 + x - 1]
      BY <3>1, SubSeqProperties
    <3> HIDE DEF f
    <3>3. Len(f) = n
      BY <3>1, <3>2
    <3>4. DOMAIN f = 1..n
      BY <3>2, <3>3, SeqIs
    <3>5. \A x \in 1..n : x \in 1..(n - 1 + 1) /\ 1 + x - 1 = x /\ x \in 1..Len(q)
      BY <3>1
    <3>6. \A x \in 1..n : f[x] = q[x]
      BY <3>2, <3>5
    <3>7. Range(f) \subseteq Range(q)
      BY <3>1, <3>4, <3>5, <3>6 DEF Range
    <3> QED BY <3>7 DEF f
  <2>4. Range(SubSeq(v, 1, i)) \subseteq Range(v) /\ Range(SubSeq(a, 1, j)) \subseteq Range(a)
    BY <1>1, <2>3
  <2>5. CASE s = "video"
    BY <2>2, <2>4, <2>5
  <2>6. CASE s = "audio"
    BY <2>2, <2>4, <2>6
  <2> QED BY <1>1, <2>5, <2>6
<1> QED BY <1>2, <1>3

LEMMA WithRange ==
  ASSUME NEW q \in [Streams -> Seq(Packet)], NEW p \in Packet, NEW s \in Streams
  PROVE  Range(With(q, p)[s]) = IF s = p.stream THEN Range(q[s]) \cup {p} ELSE Range(q[s])
<1>1. CASE s = p.stream
  <2>1. With(q, p)[s] = Append(q[s], p) /\ q[s] \in Seq(Packet)
    BY <1>1, WithIs
  <2> QED BY <1>1, <2>1, AppendRange
<1>2. CASE s # p.stream
  BY <1>2, WithIs
<1> QED BY <1>1, <1>2

(* What a step of the writer adds to the files.                            *)
LEMMA RecordedStep ==
  ASSUME RecInv, Write, Given \subseteq AllTaken
  PROVE  Given' \subseteq AllTaken /\ Given \subseteq Given'
<1>1. CASE Given' = Given
  BY <1>1
<1>2. CASE Given' # Given
  <2>1. hand # Null /\ (AddToFile(Nothing, With(WriteCache, hand)) \/ AddToFile(file, With(Nothing, hand)))
    BY <1>2 DEF Write, OpenFile, WriteFile, CloseFile, fileVars, Given, lagVars
  <2>2. /\ hand \in Packet /\ hand.stream \in Streams /\ hand \in Range(taken[hand.stream])
        /\ cache \in [Streams -> Seq(Packet)] /\ file \in [Streams -> Seq(Packet)]
    BY <2>1, HandTaken DEF RecInv, TypeInv, Data
  <2>3. CASE AddToFile(Nothing, With(WriteCache, hand))
    <3> DEFINE q == With(WriteCache, hand)
    <3>1. WriteCache \in [Streams -> Seq(Packet)] /\ q \in [Streams -> Seq(Packet)]
      BY <2>2, WriteCacheType, WithIs
    <3>2. \A s \in Streams : Range(q[s]) \subseteq Range(taken[s])
      <4> SUFFICES ASSUME NEW s \in Streams PROVE Range(q[s]) \subseteq Range(taken[s])
        OBVIOUS
      <4>1. Range(q[s]) = IF s = hand.stream THEN Range(WriteCache[s]) \cup {hand}
                                              ELSE Range(WriteCache[s])
        BY <2>2, <3>1, WithRange
      <4>2. Range(WriteCache[s]) \subseteq Range(taken[s])
        BY WriteCacheRange, CacheTaken DEF RecInv
      <4> QED BY <2>2, <4>1, <4>2
    <3> HIDE DEF q
    <3>3. Given \subseteq Given' /\ Given' \subseteq Given \cup UNION {Range(q[s]) : s \in Streams \cap opts.written}
      BY <2>3, <3>1, NothingType, AddIs DEF q
    <3> QED BY <3>2, <3>3 DEF AllTaken
  <2>4. CASE AddToFile(file, With(Nothing, hand))
    <3> DEFINE q == With(Nothing, hand)
    <3>1. q \in [Streams -> Seq(Packet)]
      BY <2>2, NothingType, WithIs
    <3>2. \A s \in Streams : Range(q[s]) \subseteq Range(taken[s])
      <4>1. \A s \in Streams : Range(Nothing[s]) = {}
        BY DEF Nothing, Range
      <4> SUFFICES ASSUME NEW s \in Streams PROVE Range(q[s]) \subseteq Range(taken[s])
        OBVIOUS
      <4>2. Range(q[s]) = IF s = hand.stream THEN Range(Nothing[s]) \cup {hand} ELSE Range(Nothing[s])
        BY <2>2, NothingType, WithRange
      <4> QED BY <2>2, <4>1, <4>2
    <3> HIDE DEF q
    <3>3. Given \subseteq Given' /\ Given' \subseteq Given \cup UNION {Range(q[s]) : s \in Streams \cap opts.written}
      BY <2>2, <2>4, <3>1, AddIs DEF q
    <3> QED BY <3>2, <3>3 DEF AllTaken
  <2> QED BY <2>1, <2>3, <2>4
<1> QED BY <1>1, <1>2

LEMMA InitRequested == Init => Requested
  BY DEF Init, Requested, Given

LEMMA TakenGrows ==
  ASSUME RecInv, NEW p \in Packet, NextOf(p)
  PROVE  /\ AllTaken' = AllTaken \cup {p} /\ p \notin AllTaken /\ p # Null
         /\ taken' = With(taken, p) /\ hand' = p /\ p.stream \in opts.fed /\ p.stream \in Streams
         /\ due' = IF on THEN due \cup {p} ELSE due
<1>1. p # Null /\ p.stream \in Streams /\ p.stream \in opts.fed
  BY RecorderAssumption DEF Packet, NextOf
<1>2. /\ taken' = With(taken, p) /\ hand' = p /\ taken \in [Streams -> Seq(Packet)]
      /\ due' = IF on THEN due \cup {p} ELSE due
  BY <1>1 DEF NextOf, Take, RecInv, TypeInv, Data
<1>3. \A s \in Streams : Range(taken'[s]) = IF s = p.stream THEN Range(taken[s]) \cup {p}
                                                           ELSE Range(taken[s])
  BY <1>2, WithRange
<1>4. AllTaken' = AllTaken \cup {p}
  BY <1>1, <1>3 DEF AllTaken
<1>5. ASSUME p \in AllTaken PROVE FALSE
  <2>1. PICK s \in Streams : p \in Range(taken[s])
    BY <1>5 DEF AllTaken
  <2>2. taken[s] \in Seq(Packet) /\ Ordered(s, taken[s], opts)
    BY PastIs DEF RecInv
  <2>3. PICK i \in 1..Len(taken[s]) : p = taken[s][i]
    BY <2>1, <2>2, SeqIs DEF Range
  <2>4. p.stream = s /\ p.n = i
    BY <2>2, <2>3 DEF Ordered
  <2>5. p.n = Len(taken[s]) + 1 /\ Len(taken[s]) \in Nat
    BY <2>2, <2>4, SeqIs DEF NextOf
  <2> QED BY <2>3, <2>4, <2>5
<1> QED BY <1>1, <1>2, <1>4, <1>5

LEMMA RequestedStep == RecInv /\ Requested /\ [Next]_vars => Requested'
<1> SUFFICES ASSUME RecInv, Requested, [Next]_vars PROVE Requested'
  OBVIOUS
<1>1. CASE TakePacket
  <2>1. PICK p \in Packet : NextOf(p)
    BY <1>1, TakePacketIs DEF RecInv
  <2>2. /\ AllTaken' = AllTaken \cup {p} /\ p # Null
        /\ due' = IF on THEN due \cup {p} ELSE due
    BY <2>1, TakenGrows
  <2> QED BY <2>1, <2>2 DEF NextOf, Take, Requested, cacheVars, fileVars, askVars, brkVars, Given, lagVars
<1>2. CASE TakeNull
  <2>1. AllTaken' = AllTaken
    BY <1>2 DEF TakeNull, Take, AllTaken
  <2> QED BY <1>2, <2>1 DEF TakeNull, Take, Requested, cacheVars, fileVars, askVars, brkVars, Given, lagVars
<1>3. CASE Write
  <2>1. AllTaken' = AllTaken /\ Given' \subseteq AllTaken
    BY <1>3, RecordedStep DEF Write, AllTaken, Requested
  <2>2. fmt' = "bad" => failed'
    BY <1>3 DEF Write, OpenFile, WriteFile, CloseFile, Requested
  <2>3. gone' = gone /\ (gone => FALSE)
    BY <1>3 DEF Write, Requested
  <2> QED BY <1>3, <2>1, <2>2, <2>3 DEF Write, Requested, askVars, brkVars
<1>4. CASE WriteFault \/ Delete
  <2>1. AllTaken' = AllTaken
    BY <1>4 DEF WriteFault, Delete, AllTaken
  <2>2. CASE WriteFault
    BY <2>1, <2>2 DEF WriteFault, Requested, cacheVars, fileVars, askVars, brkVars, Given, lagVars
  <2>3. CASE Delete
    <3>1. /\ wr' = "done" /\ fmt' = "null" /\ gone' = TRUE
          /\ UNCHANGED <<recorded, refused, failed, recording, on, brk, due>>
      BY <2>3 DEF Delete, askVars, brkVars, fileVars, Given, lagVars
    <3> QED BY <2>1, <3>1 DEF Requested, Given
  <2> QED BY <1>4, <2>2, <2>3
<1>5. CASE Ask \/ ToggleRecording
  <2>1. AllTaken' = AllTaken
    BY <1>5 DEF Ask, ToggleRecording, Rest, AllTaken
  <2> QED BY <1>5, <2>1 DEF Ask, ToggleRecording, Rest, Requested, cacheVars, fileVars, brkVars, Given, lagVars
<1>6. CASE StartFileBreak \/ BreakPoll \/ BreakResume
  <2>1. AllTaken' = AllTaken
    BY <1>6 DEF StartFileBreak, BreakPoll, BreakResume, Rest, AllTaken
  <2> QED BY <1>6, <2>1 DEF StartFileBreak, BreakPoll, BreakResume, Rest, Requested, cacheVars, fileVars,
         askVars, Given, lagVars
<1>7. CASE UNCHANGED vars
  <2>1. AllTaken' = AllTaken
    BY <1>7 DEF vars, AllTaken
  <2> QED BY <1>7, <2>1 DEF vars, Requested, cacheVars, fileVars, askVars, brkVars, Given, lagVars
<1> QED BY <1>1, <1>2, <1>3, <1>4, <1>5, <1>6, <1>7, Steps

-----------------------------------------------------------------------------
(* A source of one stream.  An open file ends with what went through the   *)
(* cache, and all that was taken on request is in a file (FileInv); without*)
(* one it is in a file or in the cache, and is so recent that it stays     *)
(* there until the next packet (KeptInv).                                  *)
FileInv(s) == fmt = "open" =>
  /\ IsTail(file[s], Past(s)) /\ file[s] # <<>> /\ (s = "video" => file[s][1].key)
  /\ Range(file[s]) \subseteq Given /\ due \ {hand} \subseteq Given
Unread == hand = Null \/ ~saw
InReach(s, p) == Unread => \E d \in opts.steps \cup {0} : LastPts(s) - p.pts <= lag + d
Joined(s) == \E p \in Given \cap Range(cache[s]) : InReach(s, p)
KeptInv(s) ==
  /\ due \ {hand} \subseteq Given \cup Range(cache[s])
  /\ fmt = "null" /\ Unread => \A p \in due \ Given : LastPts(s) - p.pts <= lag
  /\ fmt = "null" /\ due \cap Given # {} => Joined(s)
WholeInv == Whole => \A s \in opts.fed : FileInv(s) /\ KeptInv(s)

(* There is one stream, and the cache is written whole.                    *)
OneStream(s) ==
  /\ s \in Streams /\ opts.fed = {s} /\ opts.written = {s} /\ opts.keyStart
  /\ \A d \in opts.steps : d \in Nat /\ d > 0 /\ slept + d <= CacheTime
LEMMA FedIs ==
  ASSUME RecInv, Whole
  PROVE  \E s : opts.fed = {s}
<1>1. opts \in Options
  BY DEF RecInv, TypeInv, Control
<1>2. opts.fed \in SUBSET Streams
  BY <1>1, OptsType
<1>3. IsFiniteSet({"video", "audio"})
  <2>1. IsFiniteSet({"video"}) /\ IsFiniteSet({"video"} \cup {"audio"})
    BY FS_Singleton, FS_AddElement, FS_EmptySet
  <2>2. {"video"} \cup {"audio"} = {"video", "audio"}
    OBVIOUS
  <2> QED BY <2>1, <2>2
<1>4. IsFiniteSet(opts.fed)
  BY <1>2, <1>3, FS_Subset DEF Streams
<1>5. Cardinality(opts.fed) = 1
  BY DEF Whole
<1> QED BY <1>4, <1>5, FS_Singleton

LEMMA WholeIs ==
  ASSUME RecInv, Whole, NEW s \in opts.fed
  PROVE  OneStream(s) /\ ~failed
<1>1. opts \in Options
  BY DEF RecInv, TypeInv, Control
<1>2. s \in Streams /\ opts.fed \in SUBSET Streams /\ \A d \in opts.steps : d \in Nat /\ d > 0
  BY <1>1, OptsType
<1>3. opts.fed = {s}
  BY FedIs
<1> QED BY <1>2, <1>3 DEF Whole, OneStream

LEMMA OneIs ==
  ASSUME RecInv, NEW s, OneStream(s)
  PROVE  /\ \A o \in Streams \ {s} : taken[o] = <<>> /\ cache[o] = <<>>
         /\ hand # Null => hand.stream = s
         /\ WriteCache = cache
         /\ AllTaken = Range(taken[s])
<1>1. \A o \in Streams \ {s} : taken[o] = <<>>
  BY DEF RecInv, TakenInv, Ordered, OneStream
<1>2. hand # Null => hand.stream = s
  <2>1. hand # Null => hand.stream \in Streams
    BY HandTaken DEF RecInv
  <2> QED BY <1>1, <2>1 DEF RecInv, TakenInv, InHand
<1>3. \A o \in Streams \ {s} : cache[o] = <<>>
  <2> SUFFICES ASSUME NEW o \in Streams \ {s} PROVE cache[o] = <<>>
    OBVIOUS
  <2>1. Past(o) = <<>>
    BY <1>1, <1>2 DEF Past
  <2>2. cache[o] \in Seq(Packet) /\ Len(cache[o]) <= Len(<<>>)
    BY <2>1 DEF RecInv, CacheInv, Backed, IsTail, TypeInv, Data
  <2>3. Len(cache[o]) = 0
    BY <2>2, SeqIs, EmptySeq
  <2> QED BY <2>2, <2>3, EmptySeq
<1>4. WriteCache = cache
  BY <1>3 DEF WriteCache, OneStream, Streams
<1>5. Range(<<>>) = {}
  BY DEF Range
<1>6. AllTaken = Range(taken[s])
  BY <1>1, <1>5 DEF AllTaken, OneStream
<1> QED BY <1>1, <1>2, <1>3, <1>4, <1>6

(* Its cache begins with a key frame, if it is a video.                    *)
LEMMA KeyedFront ==
  ASSUME RecInv, OneStream("video"), cache["video"] # <<>>
  PROVE  cache["video"][1].key
<1>1. "video" \in Streams
  BY DEF Streams
<1>2. Ordered("video", Past("video"), opts)
  BY <1>1, PastIs DEF RecInv
<1>3. CASE cache["video"] = Past("video")
  BY <1>2, <1>3 DEF Ordered, OneStream
<1>4. CASE cache["video"] # Past("video")
  BY <1>4 DEF RecInv, CacheInv, VideoBack
<1> QED BY <1>3, <1>4

LEMMA ErasedKeeps ==
  ASSUME NEW c \in Seq(Packet), NEW k \in 0..Len(c), NEW x \in 1..Len(c), k < x, NEW p \in Packet
  PROVE  c[x] \in Range(EraseFront(c, k)) /\ c[x] \in Range(Append(EraseFront(c, k), p))
<1> DEFINE e == EraseFront(c, k)
<1>1. Len(c) \in Nat
  BY LenProperties
<1>2. e \in Seq(Packet) /\ Len(e) = Len(c) - k /\ \A i \in 1..(Len(c) - k) : e[i] = c[k + i]
  BY EraseFrontIs
<1>3. x - k \in 1..(Len(c) - k) /\ k + (x - k) = x
  BY <1>1
<1> HIDE DEF e
<1>4. e[x - k] = c[x] /\ x - k \in DOMAIN e
  BY <1>2, <1>3, SeqIs
<1>5. c[x] \in Range(e)
  BY <1>4 DEF Range
<1>6. Range(Append(e, p)) = Range(e) \cup {p}
  BY <1>2, AppendRange
<1> QED BY <1>5, <1>6 DEF e

(* What is not older than CacheTime stays in the cache.                    *)
LEMMA Stays ==
  ASSUME RecInv, NEW s, OneStream(s), Write, hand # Null
  PROVE  /\ hand \in Range(cache'[s])
         /\ \A p \in Range(cache[s]) : hand.pts - p.pts <= CacheTime => p \in Range(cache'[s])
<1>1. /\ hand \in Packet /\ hand.stream = s /\ s \in Streams /\ s \in {"video", "audio"}
      /\ hand.pts \in Nat
  <2>1. hand \in Packet /\ hand.stream = s /\ s \in Streams
    BY OneIs DEF RecInv, TypeInv, Data, OneStream
  <2> QED BY <2>1 DEF Packet, Streams
<1>2. cache \in [Streams -> Seq(Packet)] /\ cache' = PushCache(hand)
  BY DEF RecInv, TypeInv, Data, Write, CachePacket
<1> DEFINE c == cache[s]
<1>3. c \in Seq(Packet)
  BY <1>1, <1>2
<1>4. CASE s = "video"
  <2>1. PICK k \in 0..Len(c), d \in 0..Len(cache["audio"]) :
          /\ PushCache(hand) = [video |-> Append(EraseFront(c, k), hand),
                                audio |-> EraseFront(cache["audio"], d)]
          /\ \/ k = 0 /\ d = 0
             \/ FrontMoved(hand, k, d)
    BY <1>1, <1>2, <1>4, PushVideoIs
  <2>2. cache'[s] = Append(EraseFront(c, k), hand)
    BY <1>2, <1>4, <2>1
  <2>3. hand \in Range(cache'[s])
    <3>1. EraseFront(c, k) \in Seq(Packet)
      BY <1>3, EraseFrontIs
    <3> HIDE DEF c
    <3> QED BY <1>1, <2>2, <3>1, AppendRange
  <2>4. ASSUME NEW p \in Range(c), hand.pts - p.pts <= CacheTime PROVE p \in Range(cache'[s])
    <3>1. PICK x \in 1..Len(c) : p = c[x]
      BY <1>3, SeqIs DEF Range
    <3>2. /\ Len(c) \in Nat /\ \A i \in 1..Len(c) : c[i].pts \in Nat
      BY <1>3, SeqIs
    <3>3. k < x
      <4>1. CASE k = 0
        BY <4>1
      <4>2. CASE FrontMoved(hand, k, d) /\ k # 0
        <5>1. k \in KeysOf(c) /\ hand.pts - c[k + 1].pts >= CacheTime
          <6>1. c # <<>>
            BY <3>1, <3>2, EmptySeq
          <6>2. c[1].key
            BY <1>4, <6>1, KeyedFront
          <6>3. 0 \in KeysOf(c)
            BY <3>1, <3>2, <6>2 DEF KeysOf
          <6>4. ~(k <= 0)
            BY <4>2
          <6> QED BY <1>4, <4>2, <6>3, <6>4 DEF FrontMoved
        <5>2. k + 1 \in 1..Len(c)
          BY <3>2, <5>1 DEF KeysOf
        <5>3. c[k + 1].pts <= c[x].pts
          BY <1>1, <2>4, <3>1, <3>2, <5>1, <5>2, BoundsType
        <5>4. \A i, j \in 1..Len(c) : i < j => c[i].pts < c[j].pts
          <6>1. IsTail(c, Past(s)) /\ Past(s) \in Seq(Packet) /\ Ordered(s, Past(s), opts)
            BY <1>1, PastIs DEF RecInv, CacheInv, Backed
          <6> HIDE DEF c
          <6> QED BY <1>3, <6>1, TailOrdered
        <5>5. ~(x < k + 1)
          BY <3>2, <5>2, <5>3, <5>4
        <5> QED BY <3>2, <5>5
      <4> QED BY <2>1, <4>1, <4>2
    <3>4. c[x] \in Range(Append(EraseFront(c, k), hand))
      BY <1>1, <1>3, <3>3, ErasedKeeps
    <3> QED BY <2>2, <3>1, <3>4
  <2> QED BY <2>3, <2>4
<1>5. CASE s = "audio"
  <2>1. PICK d \in 0..Len(c) :
          /\ PushCache(hand) = [video |-> cache["video"],
                                audio |-> Append(EraseFront(c, d), hand)]
          /\ \A i \in 1..d : c[i].pts < hand.pts - CacheTime
    BY <1>1, <1>2, <1>5, PushAudioIs
  <2>2. cache'[s] = Append(EraseFront(c, d), hand)
    BY <1>2, <1>5, <2>1
  <2>3. hand \in Range(cache'[s])
    <3>1. EraseFront(c, d) \in Seq(Packet)
      BY <1>3, EraseFrontIs
    <3> HIDE DEF c
    <3> QED BY <1>1, <2>2, <3>1, AppendRange
  <2>4. ASSUME NEW p \in Range(c), hand.pts - p.pts <= CacheTime PROVE p \in Range(cache'[s])
    <3>1. PICK x \in 1..Len(c) : p = c[x]
      BY <1>3, SeqIs DEF Range
    <3>2. c[x].pts \in Nat /\ Len(c) \in Nat
      BY <1>3, SeqIs
    <3>3. ~(c[x].pts < hand.pts - CacheTime)
      BY <1>1, <2>4, <3>1, <3>2, BoundsType
    <3>4. d < x
      BY <2>1, <3>2, <3>3
    <3>5. c[x] \in Range(Append(EraseFront(c, d), hand))
      BY <1>1, <1>3, <3>4, ErasedKeeps
    <3> QED BY <2>2, <3>1, <3>5
  <2> QED BY <2>3, <2>4
<1> QED BY <1>1, <1>4, <1>5

(* The packet before the one in hand is in the cache and a step older.     *)
LEMMA BeforeHand ==
  ASSUME RecInv, NEW s, OneStream(s), hand # Null, NEW c \in Seq(Packet), IsTail(c, Past(s)),
         c # <<>>
  PROVE  \E p \in Range(c) : /\ p \in Range(cache[s])
                             /\ \E d \in opts.steps : hand.pts - p.pts = d
<1> DEFINE q == Past(s)  n == Len(q)
<1>1. s \in Streams /\ hand.stream = s /\ hand \in Packet
  BY OneIs DEF RecInv, TypeInv, Data, OneStream
<1>2. /\ q \in Seq(Packet) /\ taken[s] \in Seq(Packet) /\ taken[s] = Append(q, hand)
      /\ Ordered(s, taken[s], opts)
  BY <1>1, PastIs DEF RecInv
<1> HIDE DEF q
<1>3. /\ Len(c) \in Nat /\ Len(c) >= 1 /\ n \in Nat /\ Len(c) <= n /\ n >= 1
      /\ DOMAIN c = 1..Len(c) /\ c[Len(c)] = q[n]
  <2>1. Len(c) \in Nat /\ Len(c) >= 1 /\ n \in Nat /\ DOMAIN c = 1..Len(c) /\ Len(c) <= n
    BY <1>2, SeqIs DEF IsTail, q
  <2>2. Len(c) \in 1..Len(c) /\ n - Len(c) + Len(c) = n
    BY <2>1
  <2>3. c[Len(c)] = q[n - Len(c) + Len(c)]
    BY <2>2 DEF IsTail, q
  <2> QED BY <2>1, <2>2, <2>3
<1>4. q[n] \in Range(c)
  BY <1>3 DEF Range
<1>5. q[n] \in Range(cache[s])
  <2> DEFINE e == cache[s]
  <2>1. e \in Seq(Packet) /\ IsTail(e, q) /\ (e = <<>> => q = <<>>)
    BY <1>1 DEF RecInv, TypeInv, Data, CacheInv, Backed, q
  <2>2. e # <<>>
    BY <1>3, <2>1, EmptySeq
  <2>3. Len(e) \in 1..Len(e) /\ DOMAIN e = 1..Len(e) /\ n - Len(e) + Len(e) = n
    BY <1>3, <2>1, <2>2, SeqIs
  <2>4. e[Len(e)] = q[n - Len(e) + Len(e)]
    BY <2>1, <2>3 DEF IsTail
  <2> QED BY <2>3, <2>4 DEF Range
<1>6. hand.pts - q[n].pts \in opts.steps
  <2>1. Len(taken[s]) = n + 1 /\ taken[s][n + 1] = hand /\ taken[s][n] = q[n]
    BY <1>1, <1>2, <1>3, AppendProperties
  <2>2. n \in 1..(Len(taken[s]) - 1)
    BY <1>3, <2>1
  <2> QED BY <1>2, <2>1, <2>2 DEF Ordered
<1> QED BY <1>4, <1>5, <1>6

(* With nothing in hand the last packet that was taken is in both.         *)
LEMMA LastTaken ==
  ASSUME RecInv, NEW s, OneStream(s), hand = Null, NEW c \in Seq(Packet), IsTail(c, Past(s)),
         c # <<>>
  PROVE  \E p \in Range(c) : p \in Range(cache[s]) /\ LastPts(s) = p.pts
<1> DEFINE q == taken[s]  n == Len(q)  e == cache[s]
<1>1. /\ s \in Streams /\ Past(s) = q /\ q \in Seq(Packet) /\ e \in Seq(Packet)
      /\ taken \in [Streams -> Seq(Packet)] /\ IsTail(e, q) /\ (e = <<>> => q = <<>>)
  BY DEF OneStream, Past, RecInv, TypeInv, Data, CacheInv, Backed
<1> HIDE DEF e
<1>2. /\ Len(c) \in Nat /\ Len(c) >= 1 /\ n \in Nat /\ Len(c) <= n /\ n >= 1
      /\ DOMAIN c = 1..Len(c)
  <2>1. Len(c) \in Nat /\ Len(c) >= 1 /\ n \in Nat /\ DOMAIN c = 1..Len(c) /\ Len(c) <= n
    BY <1>1, SeqIs DEF IsTail
  <2> QED BY <2>1
<1>3. q # <<>>
  BY <1>2, EmptySeq
<1>4. LastPts(s) = q[n].pts
  BY <1>1, <1>3, LastPtsType
<1>5. q[n] \in Range(c)
  <2>1. Len(c) \in 1..Len(c) /\ n - Len(c) + Len(c) = n
    BY <1>2
  <2>2. c[Len(c)] = q[n - Len(c) + Len(c)]
    BY <1>1, <2>1 DEF IsTail
  <2> QED BY <1>2, <2>1, <2>2 DEF Range
<1>6. q[n] \in Range(e)
  <2>1. Len(e) \in 1..Len(e) /\ DOMAIN e = 1..Len(e) /\ n - Len(e) + Len(e) = n
    BY <1>1, <1>2, <1>3, SeqIs
  <2>2. e[Len(e)] = q[n - Len(e) + Len(e)]
    BY <1>1, <2>1 DEF IsTail
  <2> QED BY <2>1, <2>2 DEF Range
<1> QED BY <1>4, <1>5, <1>6 DEF e

(* Steps that leave the packets alone, or end a request.                   *)
LEMMA WholeQuiet ==
  ASSUME NEW s, FileInv(s), KeptInv(s),
         UNCHANGED <<opts, cache, file, fmt, recorded, refused, taken, hand, lag>>,
         due' \in {due, {}}, hand = Null \/ saw' = saw
  PROVE  FileInv(s)' /\ KeptInv(s)'
<1>1. Past(s)' = Past(s) /\ LastPts(s)' = LastPts(s) /\ (Unread' <=> Unread)
  BY DEF Past, LastPts, Unread
<1>2. FileInv(s)'
  BY <1>1 DEF FileInv, Given
<1>3. Joined(s)' <=> Joined(s)
  BY <1>1 DEF Joined, InReach, Given
<1>4. KeptInv(s)'
  BY <1>1, <1>3 DEF KeptInv, Given
<1> QED BY <1>2, <1>4

(* The file is closed while nothing is in hand.                            *)
LEMMA WholeClosed ==
  ASSUME RecInv, NEW s, OneStream(s), FileInv(s), hand = Null, fmt = "open", fmt' = "null",
         UNCHANGED <<opts, cache, recorded, refused, taken, hand, lag, due>>
  PROVE  FileInv(s)' /\ KeptInv(s)'
<1>1. LastPts(s)' = LastPts(s) /\ s \in Streams /\ lag \in Nat /\ Null \notin Packet
  BY RecorderAssumption, BoundsType DEF LastPts, OneStream, RecInv, TypeInv, Control
<1>2. due \ {hand} \subseteq Given /\ due \in SUBSET Packet
  BY DEF FileInv, RecInv, TypeInv, Data
<1>3. due \subseteq Given
  BY <1>1, <1>2
<1>4. PICK p \in Range(file[s]) : p \in Range(cache[s]) /\ LastPts(s) = p.pts
  <2>1. file[s] \in Seq(Packet) /\ IsTail(file[s], Past(s)) /\ file[s] # <<>>
    BY <1>1 DEF FileInv, RecInv, TypeInv, Data
  <2> QED BY <2>1, LastTaken
<1>5. LastPts(s) - p.pts <= lag + 0
  <2>1. LastPts(s) \in Nat
    BY <1>1, LastPtsType DEF RecInv, TypeInv, Data
  <2> QED BY <1>1, <1>4, <2>1
<1>6. InReach(s, p)'
  BY <1>1, <1>5 DEF InReach
<1>7. p \in Given
  BY <1>4 DEF FileInv
<1>8. Joined(s)'
  BY <1>4, <1>6, <1>7 DEF Joined, Given
<1> QED BY <1>1, <1>3, <1>8 DEF FileInv, KeptInv, Given

(* A packet is taken.                                                      *)
LEMMA WholeTake ==
  ASSUME RecInv, Requested, NEW s, OneStream(s), FileInv(s), KeptInv(s), NEW p \in Packet,
         NextOf(p), [Next]_vars, ~Write
  PROVE  FileInv(s)' /\ KeptInv(s)'
<1>1. /\ AllTaken' = AllTaken \cup {p} /\ p \notin AllTaken /\ p # Null
      /\ hand' = p /\ due' = IF on THEN due \cup {p} ELSE due
      /\ p.stream = s /\ s \in Streams /\ taken' = With(taken, p)
  BY TakenGrows DEF OneStream
<1>2. /\ wr = "pop" /\ saw' = recording /\ hand = Null /\ ~gone
      /\ UNCHANGED <<opts, cache, file, fmt, recorded, refused, recording, brk>>
  BY DEF NextOf, Take, cacheVars, fileVars, brkVars, RecInv, TakenInv, InHand, Requested
<1>3. Past(s)' = Past(s)
  BY <1>1, PastKept DEF RecInv
<1>4. Null \notin due /\ Null \notin Packet
  BY RecorderAssumption DEF RecInv, TypeInv, Data
<1>5. FileInv(s)'
  BY <1>1, <1>2, <1>3, <1>4 DEF FileInv, Given
<1>6. p \notin Given /\ p \notin due
  BY <1>1 DEF Requested
<1>7. LastPts(s) \in Nat /\ LastPts(s)' = p.pts /\ p.pts \in Nat /\ lag \in Nat
  <2>1. taken'[s] = Append(taken[s], p) /\ taken[s] \in Seq(Packet)
    BY <1>1, WithIs DEF RecInv, TypeInv, Data
  <2>2. taken'[s] # <<>> /\ Last(taken'[s]) = p
    BY <2>1, AppendProperties, FrontOfAppend
  <2>3. LastPts(s)' = p.pts
    BY <2>2 DEF LastPts
  <2>4. LastPts(s) \in Nat
    BY <1>1, LastPtsType DEF RecInv, TypeInv, Data
  <2>5. p.pts \in Nat
    BY DEF Packet
  <2>6. lag \in Nat
    BY BoundsType DEF RecInv, TypeInv, Control
  <2> QED BY <2>3, <2>4, <2>5, <2>6
<1>8. PICK d \in opts.steps : p.pts = LastPts(s) + d /\ lag' = IF Sleeping THEN lag + d ELSE 0
  BY <1>1 DEF NextOf
<1>9. d \in Nat /\ \A x \in opts.steps \cup {0} : x \in Nat
  BY DEF OneStream
<1>10. fmt = "null" /\ Unread' /\ due' # {} => Sleeping
  <2> SUFFICES ASSUME fmt = "null", Unread', due' # {} PROVE Sleeping
    OBVIOUS
  <2>1. ~recording
    BY <1>1, <1>2 DEF Unread, RecInv, TypeInv, Control
  <2>2. on
    BY <1>1 DEF Requested
  <2> QED BY <1>2, <2>1, <2>2 DEF Requested, Sleeping
<1>11. due' \ {hand'} \subseteq Given' \cup Range(cache'[s])
  BY <1>1, <1>2, <1>4 DEF KeptInv, Given
<1>12. ASSUME fmt' = "null", Unread', NEW x \in due' \ Given'
       PROVE  LastPts(s)' - x.pts <= lag'
  <2>1. Sleeping /\ fmt = "null"
    BY <1>2, <1>10, <1>12
  <2>2. lag' = lag + d
    BY <1>8, <2>1
  <2>3. CASE x = p
    BY <1>7, <1>9, <2>2, <2>3
  <2>4. CASE x \in due \ Given
    <3>1. LastPts(s) - x.pts <= lag
      BY <1>2, <2>1, <2>4 DEF KeptInv, Unread
    <3>2. x.pts \in Nat
      BY <2>4 DEF RecInv, TypeInv, Data, Packet
    <3> QED BY <1>7, <1>8, <1>9, <2>2, <3>1, <3>2
  <2> QED BY <1>1, <1>2, <1>12, <2>3, <2>4 DEF Given
<1>13. ASSUME fmt' = "null", due' \cap Given' # {} PROVE Joined(s)'
  <2>1. due \cap Given # {} /\ due' # {}
    BY <1>1, <1>2, <1>6, <1>13 DEF Given
  <2>2. PICK x \in Given \cap Range(cache[s]) : InReach(s, x)
    BY <1>2, <1>13, <2>1 DEF KeptInv, Joined
  <2>3. PICK y \in opts.steps \cup {0} : LastPts(s) - x.pts <= lag + y
    BY <1>2, <2>2 DEF InReach, Unread
  <2>4. ASSUME Unread' PROVE LastPts(s)' - x.pts <= lag' + y
    <3>1. Sleeping
      BY <1>2, <1>10, <1>13, <2>1, <2>4
    <3>2. lag' = lag + d
      BY <1>8, <3>1
    <3>3. x.pts \in Nat
      BY <2>2 DEF RecInv, TypeInv, Data, Packet, Given
    <3> QED BY <1>7, <1>8, <1>9, <2>3, <3>2, <3>3
  <2>5. InReach(s, x)'
    BY <1>2, <2>4 DEF InReach
  <2> QED BY <1>2, <2>2, <2>5 DEF Joined, Given
<1>14. KeptInv(s)'
  BY <1>11, <1>12, <1>13 DEF KeptInv
<1> QED BY <1>5, <1>14

(* The packet in hand is handled.                                          *)
LEMMA WholeWrite ==
  ASSUME RecInv, RecInv', Requested, NEW s, OneStream(s), ~failed, ~failed', FileInv(s),
         KeptInv(s), Write, hand # Null
  PROVE  FileInv(s)' /\ KeptInv(s)'
<1>1. /\ hand \in Packet /\ hand.stream = s /\ s \in Streams /\ s \in opts.written /\ s \in opts.fed
      /\ LastPts(s) = hand.pts /\ hand.pts \in Nat /\ WriteCache = cache
      /\ cache \in [Streams -> Seq(Packet)] /\ file \in [Streams -> Seq(Packet)]
  <2>1. /\ hand \in Packet /\ hand.stream = s /\ s \in Streams /\ LastPts(s) = hand.pts
        /\ WriteCache = cache /\ s \in opts.written /\ s \in opts.fed
    BY OneIs, HandTaken DEF RecInv, OneStream
  <2> QED BY <2>1 DEF RecInv, TypeInv, Data, Packet
<1>2. /\ hand' = Null /\ UNCHANGED <<opts, taken, due, lag>>
      /\ Past(s)' = Append(Past(s), hand) /\ LastPts(s)' = hand.pts
  <2>1. hand' = Null /\ UNCHANGED <<opts, taken, due, lag>>
    BY DEF Write, lagVars
  <2>2. Past(s)' = Append(Past(s), hand)
    BY <1>1, PastWritten DEF RecInv
  <2>3. LastPts(s)' = LastPts(s)
    BY <2>1 DEF LastPts
  <2> QED BY <1>1, <2>1, <2>2, <2>3
<1>3. /\ Past(s) \in Seq(Packet) /\ IsTail(cache[s], Past(s)) /\ cache[s] \in Seq(Packet)
      /\ (cache[s] = <<>> => Past(s) = <<>>)
      /\ taken[s] = Append(Past(s), hand) /\ Ordered(s, taken[s], opts)
  BY <1>1, PastIs DEF RecInv, CacheInv, Backed, TypeInv, Data
<1>4. Null \notin due /\ Given \subseteq Given' /\ due' \ {hand'} = due
  BY <1>2, RecorderAssumption, RecordedStep DEF RecInv, TypeInv, Data, Requested
<1>5. hand \in Range(cache'[s])
      /\ \A p \in Range(cache[s]) : hand.pts - p.pts <= CacheTime => p \in Range(cache'[s])
  BY Stays
<1>6. CASE saw /\ fmt = "null"
  <2>1. OpenFile /\ fmt' = "open" /\ AddToFile(Nothing, With(cache, hand))
    BY <1>1, <1>6 DEF Write, OpenFile, WriteFile
  <2> DEFINE q == With(cache, hand)  c == cache[s]  e == Append(c, hand)
  <2>2. q \in [Streams -> Seq(Packet)] /\ q[s] = e /\ c \in Seq(Packet) /\ e \in Seq(Packet)
    BY <1>1, <1>3, WithIs, AppendProperties
  <2>3. file'[s] = e /\ Range(e) \subseteq Given'
    <3> HIDE DEF q, e
    <3>1. file'[s] = Nothing[s] \o q[s] /\ Range(q[s]) \subseteq Given'
      BY <1>1, <2>1, <2>2, NothingType, AddIs DEF q
    <3>2. Nothing[s] = <<>>
      BY <1>1 DEF Nothing
    <3> QED BY <2>2, <3>1, <3>2, ConcatEmptySeq
  <2>4. IsTail(e, Past(s)')
    <3> HIDE DEF c
    <3>1. IsTail(Append(c, hand), Append(Past(s), hand))
      BY <1>1, <1>3, <2>2, TailPush DEF c
    <3> QED BY <1>2, <3>1
  <2>5. e # <<>> /\ (s = "video" => e[1].key)
    <3>1. CASE c = <<>>
      <4>1. taken[s] = Append(<<>>, hand) /\ e = Append(<<>>, hand)
        BY <1>3, <3>1
      <4>2. e # <<>>
        BY <1>1, <2>2, AppendProperties
      <4> QED BY <1>3, <4>1, <4>2 DEF Ordered, OneStream
    <3>2. CASE c # <<>>
      <4>1. s = "video" => c[1].key
        BY <3>2, KeyedFront
      <4>2. e # <<>> /\ e[1] = c[1]
        <5> HIDE DEF c
        <5> QED BY <1>1, <2>2, <3>2, AppendFirst
      <4> QED BY <4>1, <4>2
    <3> QED BY <3>1, <3>2
  <2>6. due \subseteq Given'
    <3>1. hand \in Range(e) /\ Range(c) \subseteq Range(e)
      <4> HIDE DEF c
      <4> QED BY <1>1, <2>2, AppendRange
    <3>2. due \ {hand} \subseteq Given \cup Range(c)
      BY DEF KeptInv
    <3> QED BY <1>4, <2>3, <3>1, <3>2
  <2>7. FileInv(s)'
    BY <1>4, <2>3, <2>4, <2>5, <2>6 DEF FileInv
  <2>8. KeptInv(s)'
    BY <1>4, <2>1, <2>6 DEF KeptInv
  <2> QED BY <2>7, <2>8
<1>7. CASE saw /\ fmt = "open"
  <2>1. fmt' = "open" /\ AddToFile(file, With(Nothing, hand))
    BY <1>7 DEF Write, OpenFile, WriteFile
  <2> DEFINE q == With(Nothing, hand)  f == file[s]  e == Append(f, hand)
  <2>2. q \in [Streams -> Seq(Packet)] /\ q[s] = <<hand>> /\ f \in Seq(Packet)
                                       /\ <<hand>> \in Seq(Packet) /\ e = f \o <<hand>>
    <3>1. q \in [Streams -> Seq(Packet)] /\ q[s] = Append(Nothing[s], hand)
      BY <1>1, NothingType, WithIs
    <3>2. Nothing[s] = <<>> /\ Append(<<>>, hand) = <<hand>>
      BY <1>1 DEF Nothing
    <3> HIDE DEF q
    <3> QED BY <1>1, <3>1, <3>2, AppendIsConcat
  <2>3. file'[s] = e /\ Range(<<hand>>) \subseteq Given'
    <3> HIDE DEF q, e
    <3>1. file'[s] = f \o q[s] /\ Range(q[s]) \subseteq Given'
      BY <1>1, <2>1, <2>2, AddIs DEF q
    <3> QED BY <2>2, <3>1
  <2>4. /\ IsTail(f, Past(s)) /\ f # <<>> /\ (s = "video" => f[1].key)
        /\ Range(f) \subseteq Given /\ due \ {hand} \subseteq Given
    BY <1>7 DEF FileInv
  <2> HIDE DEF f
  <2>5. IsTail(e, Past(s)')
    BY <1>1, <1>2, <1>3, <2>2, <2>4, TailPush
  <2>6. e # <<>> /\ e[1] = f[1] /\ Range(e) = Range(f) \cup {hand}
    BY <1>1, <2>2, <2>4, AppendFirst, AppendRange
  <2>7. hand \in Given'
    <3>1. hand \in Range(<<hand>>)
      BY DEF Range
    <3> QED BY <2>3, <3>1
  <2>8. due \subseteq Given' /\ Range(e) \subseteq Given'
    BY <1>4, <2>4, <2>6, <2>7
  <2> HIDE DEF e
  <2>9. FileInv(s)'
    BY <1>4, <2>3, <2>4, <2>5, <2>6, <2>8 DEF FileInv
  <2>10. KeptInv(s)'
    BY <1>4, <2>1, <2>8 DEF KeptInv
  <2> QED BY <2>9, <2>10
<1>8. CASE ~saw
  <2>1. CloseFile /\ fmt # "bad" /\ fmt' = "null" /\ Given' = Given
    <3>1. CloseFile /\ fmt # "bad" /\ fmt' # "bad"
      BY <1>8 DEF Write, Requested, RecInv, CloseFile
    <3>2. fmt' = "null" /\ UNCHANGED <<recorded, refused>>
      BY <3>1 DEF CloseFile, fileVars
    <3> QED BY <3>1, <3>2 DEF Given
  <2>2. lag \in Nat /\ lag <= slept /\ slept \in Nat /\ CacheTime \in Nat
    BY BoundsType DEF RecInv, TypeInv, Control
  <2>3. \A d \in opts.steps : d \in Nat /\ d > 0 /\ slept + d <= CacheTime
    BY DEF OneStream
  <2>4. due \subseteq Packet /\ \A p \in due : p.pts \in Nat
    BY DEF RecInv, TypeInv, Data, Packet
  <2>5. FileInv(s)'
    BY <2>1 DEF FileInv
  <2>6. CASE fmt = "null"
    <3>1. Unread
      BY <1>8 DEF Unread
    <3>2. \A p \in due \ Given : hand.pts - p.pts <= lag
      BY <1>1, <2>6, <3>1 DEF KeptInv
    <3>3. ASSUME NEW p \in due PROVE p \in Given' \cup Range(cache'[s])
      <4>1. CASE p = hand
        BY <1>5, <4>1
      <4>2. CASE p # hand /\ p \notin Given
        <5>1. p \in Range(cache[s])
          BY <4>2 DEF KeptInv
        <5>2. hand.pts - p.pts <= lag
          BY <3>2, <4>2
        <5>3. cache[s] # <<>>
          BY <5>1 DEF Range
        <5>4. slept <= CacheTime
          <6>1. PICK x \in Range(cache[s]) : \E d \in opts.steps : hand.pts - x.pts = d
            BY <1>3, <5>3, BeforeHand
          <6> QED BY <2>2, <2>3, <6>1
        <5>5. hand.pts - p.pts <= CacheTime
          BY <1>1, <2>2, <2>4, <5>2, <5>4
        <5> QED BY <1>5, <5>1, <5>5
      <4> QED BY <1>4, <4>1, <4>2
    <3>4. ASSUME due \cap Given # {} PROVE Joined(s)'
      <4>1. PICK p \in Given \cap Range(cache[s]) : InReach(s, p)
        BY <2>6, <3>4 DEF KeptInv, Joined
      <4>2. PICK y \in opts.steps \cup {0} : hand.pts - p.pts <= lag + y
        BY <1>1, <3>1, <4>1 DEF InReach
      <4>3. cache[s] # <<>>
        BY <4>1 DEF Range
      <4>4. y \in Nat /\ slept + y <= CacheTime
        <5>1. PICK x \in Range(cache[s]) : \E d \in opts.steps : hand.pts - x.pts = d
          BY <1>3, <4>3, BeforeHand
        <5>2. PICK d \in opts.steps : TRUE
          BY <5>1
        <5>3. slept + d <= CacheTime /\ d \in Nat
          BY <2>3
        <5>4. slept + 0 <= CacheTime
          BY <2>2, <5>3
        <5> QED BY <2>3, <4>2, <5>4
      <4>5. p.pts \in Nat
        BY <4>1 DEF RecInv, TypeInv, Data, Packet, Given
      <4>6. hand.pts - p.pts <= CacheTime
        BY <1>1, <2>2, <4>2, <4>4, <4>5
      <4>7. p \in Range(cache'[s])
        BY <1>5, <4>1, <4>6
      <4>8. InReach(s, p)'
        BY <1>2, <4>2 DEF InReach
      <4> QED BY <2>1, <4>1, <4>7, <4>8 DEF Joined
    <3>5. KeptInv(s)'
      BY <1>2, <1>4, <2>1, <3>2, <3>3, <3>4 DEF KeptInv
    <3> QED BY <2>5, <3>5
  <2>7. CASE fmt = "open"
    <3>1. /\ IsTail(file[s], Past(s)) /\ file[s] # <<>> /\ Range(file[s]) \subseteq Given
          /\ due \ {hand} \subseteq Given /\ file[s] \in Seq(Packet)
      BY <1>1, <2>7 DEF FileInv
    <3>2. PICK p \in Range(file[s]) : /\ p \in Range(cache[s])
                                      /\ \E d \in opts.steps : hand.pts - p.pts = d
      BY <1>1, <3>1, BeforeHand
    <3>3. PICK d \in opts.steps : hand.pts - p.pts = d
      BY <3>2
    <3>4. d \in Nat /\ slept + d <= CacheTime
      BY <2>3
    <3>5. p \in Range(cache'[s])
      <4>1. hand.pts - p.pts <= CacheTime
        BY <2>2, <3>3, <3>4
      <4> QED BY <1>5, <3>2, <4>1
    <3>6. hand.pts - p.pts <= lag + d
      BY <2>2, <3>3, <3>4
    <3>7. InReach(s, p)'
      BY <1>2, <3>6 DEF InReach
    <3>8. Joined(s)'
      BY <2>1, <3>1, <3>2, <3>5, <3>7 DEF Joined
    <3>9. due \subseteq Given' \cup Range(cache'[s])
      BY <1>5, <2>1, <3>1
    <3>10. \A x \in due' \ Given' : LastPts(s)' - x.pts <= lag'
      <4> SUFFICES ASSUME NEW x \in due' \ Given' PROVE LastPts(s)' - x.pts <= lag'
        OBVIOUS
      <4>1. x = hand
        BY <1>2, <2>1, <3>1
      <4> QED BY <1>1, <1>2, <2>2, <4>1
    <3>11. KeptInv(s)'
      BY <1>4, <3>8, <3>9, <3>10 DEF KeptInv
    <3> QED BY <2>5, <3>11
  <2> QED BY <2>1, <2>6, <2>7 DEF RecInv, TypeInv, Control
<1>9. fmt # "bad" /\ fmt \in {"null", "open", "bad"} /\ saw \in BOOLEAN
  BY DEF Requested, RecInv, TypeInv, Control
<1> QED BY <1>6, <1>7, <1>8, <1>9

(* Every other step of the writer, the user or file_break().               *)
LEMMA WholeOther ==
  ASSUME RecInv, Requested, NEW s, OneStream(s), ~failed, ~failed', FileInv(s), KeptInv(s),
         TakeNull \/ Delete \/ WriteFault \/ Ask \/ ToggleRecording \/ StartFileBreak
           \/ BreakPoll \/ BreakResume \/ UNCHANGED vars
  PROVE  FileInv(s)' /\ KeptInv(s)'
<1>1. CASE TakeNull
  <2>1. hand = Null /\ hand' = Null
    BY <1>1 DEF TakeNull, Take, RecInv, TakenInv, InHand
  <2>2. UNCHANGED <<opts, cache, file, fmt, recorded, refused, taken, hand, lag>> /\ due' \in {due, {}}
    BY <1>1, <2>1 DEF TakeNull, Take, cacheVars, fileVars, lagVars
  <2> QED BY <2>1, <2>2, WholeQuiet
<1>2. CASE Delete
  <2>1. /\ hand = Null /\ fmt' = "null"
        /\ UNCHANGED <<opts, cache, file, recorded, refused, taken, hand, lag, due>>
    BY <1>2 DEF Delete, RecInv, TakenInv, InHand, cacheVars, fileVars, lagVars
  <2>2. CASE fmt = "null"
    BY <2>1, <2>2, WholeQuiet
  <2>3. CASE fmt = "open"
    BY <2>1, <2>3, WholeClosed
  <2> QED BY <2>2, <2>3 DEF Requested, RecInv, TypeInv, Control
<1>3. CASE ~TakeNull /\ ~Delete
  <2>1. /\ UNCHANGED <<opts, cache, file, fmt, recorded, refused, taken, hand, saw, lag>>
        /\ due' \in {due, {}}
    BY <1>3 DEF WriteFault, Ask, ToggleRecording, StartFileBreak, BreakPoll, BreakResume,
       Rest, cacheVars, fileVars, lagVars, vars
  <2> QED BY <2>1, WholeQuiet
<1> QED BY <1>1, <1>2, <1>3

(* The writer closes, or finds closed, its file after the null packet.     *)
LEMMA WholeEnd ==
  ASSUME RecInv, Requested, NEW s, OneStream(s), ~failed, ~failed', FileInv(s), KeptInv(s),
         Write, hand = Null
  PROVE  FileInv(s)' /\ KeptInv(s)'
<1>1. /\ CloseFile /\ hand' = Null
      /\ UNCHANGED <<opts, cache, file, recorded, refused, taken, hand, lag, due>>
  BY DEF Write, CachePacket, CloseFile, fileVars, lagVars
<1>2. CASE fmt = "null"
  <2>1. fmt' = fmt
    BY <1>1, <1>2 DEF CloseFile
  <2> QED BY <1>1, <2>1, WholeQuiet
<1>3. CASE fmt = "open"
  <2>1. fmt' = "null"
    BY <1>1, <1>3 DEF CloseFile
  <2> QED BY <1>1, <1>3, <2>1, WholeClosed
<1> QED BY <1>2, <1>3 DEF Requested, RecInv, TypeInv, Control

LEMMA WholeBefore ==
  ASSUME RecInv, [Next]_vars, Whole'
  PROVE  Whole /\ opts' = opts
<1>1. opts' = opts
  BY Steps DEF TakePacket, TakeNull, Take, Write, WriteFault, Delete, Ask, ToggleRecording,
     StartFileBreak, BreakPoll, BreakResume, Rest, vars
<1>2. failed => failed'
  <2>1. CASE Write
    BY <2>1 DEF Write, OpenFile, WriteFile, CloseFile
  <2>2. CASE ~Write
    BY <2>2, Steps DEF TakePacket, TakeNull, Take, WriteFault, Delete, Ask, ToggleRecording,
       StartFileBreak, BreakPoll, BreakResume, Rest, vars, cacheVars, fileVars
  <2> QED BY <2>1, <2>2
<1>3. slept \in Nat /\ slept' \in Nat /\ slept <= slept'
  <2>1. slept \in Nat /\ opts \in Options
    BY DEF RecInv, TypeInv, Control
  <2>2. CASE TakePacket
    <3>1. PICK q \in Packet : NextOf(q)
      BY <2>2, TakePacketIs DEF RecInv
    <3>2. PICK d \in opts.steps : /\ lag' = IF Sleeping THEN lag + d ELSE 0
                                  /\ slept' = IF lag' > slept THEN lag' ELSE slept
      BY <3>1 DEF NextOf
    <3>3. d \in Nat /\ lag \in Nat
      BY <2>1, OptsType DEF RecInv, TypeInv, Control
    <3>4. lag' \in Nat
      BY <3>2, <3>3
    <3> QED BY <2>1, <3>2, <3>4
  <2>3. CASE ~TakePacket
    <3>1. slept' = slept
      BY <2>3, Steps DEF TakeNull, Write, WriteFault, Delete, Ask, ToggleRecording,
         StartFileBreak, BreakPoll, BreakResume, Rest, vars, lagVars
    <3> QED BY <2>1, <3>1
  <2> QED BY <2>2, <2>3
<1>4. \A d \in opts.steps : slept + d <= CacheTime
  <2> SUFFICES ASSUME NEW d \in opts.steps PROVE slept + d <= CacheTime
    OBVIOUS
  <2>1. d \in Nat
    BY OptsType DEF RecInv, TypeInv, Control
  <2>2. slept' + d <= CacheTime
    BY <1>1 DEF Whole
  <2>3. CacheTime \in Nat
    BY BoundsType
  <2>4. \A x, y, z, c \in Nat : x <= y /\ y + z <= c => x + z <= c
    OBVIOUS
  <2> QED BY <1>3, <2>1, <2>2, <2>3, <2>4, Zenon
<1> QED BY <1>1, <1>2, <1>4 DEF Whole

LEMMA InitWhole == Init => WholeInv
  BY DEF Init, WholeInv, FileInv, KeptInv

LEMMA WholeStep ==
  RecInv /\ RecInv' /\ Requested /\ WholeInv /\ [Next]_vars => WholeInv'
<1> SUFFICES ASSUME RecInv, RecInv', Requested, WholeInv, [Next]_vars, Whole', NEW s \in opts'.fed
             PROVE  FileInv(s)' /\ KeptInv(s)'
  BY DEF WholeInv
<1>1. Whole /\ s \in opts.fed
  BY WholeBefore
<1>2. OneStream(s) /\ ~failed /\ ~failed' /\ FileInv(s) /\ KeptInv(s)
  BY <1>1, WholeIs DEF WholeInv, Whole
<1>3. CASE TakePacket
  <2>1. PICK p \in Packet : NextOf(p)
    BY <1>3, TakePacketIs DEF RecInv
  <2>2. ~Write
    BY <2>1 DEF NextOf, Take, Write
  <2> QED BY <1>2, <2>1, <2>2, WholeTake
<1>4. CASE Write /\ hand # Null
  BY <1>2, <1>4, WholeWrite
<1>5. CASE Write /\ hand = Null
  BY <1>2, <1>5, WholeEnd
<1>6. CASE TakeNull \/ Delete \/ WriteFault \/ Ask \/ ToggleRecording \/ StartFileBreak
             \/ BreakPoll \/ BreakResume \/ UNCHANGED vars
  BY <1>2, <1>6, WholeOther
<1> QED BY <1>3, <1>4, <1>5, <1>6, Steps

FullInv == RecInv /\ Requested /\ WholeInv

LEMMA Recordings == Spec => []FullInv
<1>1. Init => Requested /\ WholeInv
  BY InitRequested, InitWhole
<1>2. RecInv /\ RecInv' /\ Requested /\ WholeInv /\ [Next]_vars => Requested' /\ WholeInv'
  BY RequestedStep, WholeStep
<1> QED BY <1>1, <1>2, Caches, PTL DEF Spec, FullInv

LEMMA FullKept == FullInv => NothingLost
<1> SUFFICES ASSUME RecInv, Requested, WholeInv, Whole PROVE NothingLost
  BY DEF FullInv, NothingLost
<1>1. ASSUME fmt = "open", NEW s \in opts.fed
      PROVE  /\ \A i \in 1..(Len(file[s]) - 1) : file[s][i + 1].n = file[s][i].n + 1
             /\ s = "video" => Head(file[s]).key
             /\ Range(file[s]) \ refused \subseteq recorded
  <2>1. OneStream(s) /\ FileInv(s)
    BY WholeIs DEF WholeInv
  <2>2. file[s] \in Seq(Packet) /\ s \in Streams
    BY <2>1 DEF OneStream, RecInv, TypeInv, Data
  <2>3. Past(s) \in Seq(Packet) /\ Ordered(s, Past(s), opts)
    BY <2>2, PastIs DEF RecInv
  <2>4. IsTail(file[s], Past(s)) /\ file[s] # <<>> /\ (s = "video" => file[s][1].key)
    BY <1>1, <2>1 DEF FileInv
  <2>5. \A i \in 1..(Len(file[s]) - 1) : file[s][i + 1].n = file[s][i].n + 1
    BY <2>2, <2>3, <2>4, TailOrdered
  <2>6. Head(file[s]) = file[s][1]
    BY <2>2, <2>4
  <2>7. Range(file[s]) \subseteq Given
    BY <1>1, <2>1 DEF FileInv
  <2>8. Range(file[s]) \ refused \subseteq recorded
    BY <2>7 DEF Given
  <2> QED BY <2>4, <2>5, <2>6, <2>8
<1>2. ASSUME NEW p \in due \ {hand} PROVE p \in Given \/ p \in Range(cache[p.stream])
  <2>1. PICK s \in opts.fed : OneStream(s) /\ FileInv(s) /\ KeptInv(s)
    <3>1. \E s : opts.fed = {s}
      BY FedIs
    <3>2. PICK s \in opts.fed : TRUE
      BY <3>1
    <3> QED BY <3>2, WholeIs DEF WholeInv
  <2>2. p \in Range(taken[s]) /\ s \in Streams
    BY <2>1, OneIs DEF Requested, OneStream
  <2>3. taken[s] \in Seq(Packet) /\ Ordered(s, taken[s], opts)
    BY <2>2, PastIs DEF RecInv
  <2>4. PICK i \in 1..Len(taken[s]) : p = taken[s][i]
    BY <2>2, <2>3, SeqIs DEF Range
  <2>5. p.stream = s
    BY <2>3, <2>4 DEF Ordered
  <2> QED BY <2>1, <2>5 DEF KeptInv
<1> QED BY <1>1, <1>2 DEF NothingLost

(* A file of a source of one stream has no gap and begins with a key       *)
(* frame, but for what its muxer refuses, and no other packet that came    *)
(* after a request for recording is lost: it was given to a file or is in  *)
(* the cache the next file begins with.                                    *)
THEOREM NothingLostAlways == Spec => []NothingLost
<1> QED BY Recordings, FullKept, PTL

-----------------------------------------------------------------------------
(* A file that is opened while packets of the recording are in another one.*)
Overlaps == Whole /\ fmt = "null" /\ fmt' = "open" /\ due \cap Given # {} =>
  \E s \in opts.fed : \E p \in Range(file'[s]) : p \in Given

LEMMA OpenOverlaps == FullInv /\ [Next]_vars => Overlaps
<1> SUFFICES ASSUME RecInv, Requested, WholeInv, [Next]_vars, Whole, fmt = "null", fmt' = "open",
                    due \cap Given # {}
             PROVE  \E s \in opts.fed : \E p \in Range(file'[s]) : p \in Given
  BY DEF FullInv, Overlaps
<1>1. PICK s \in opts.fed : OneStream(s) /\ KeptInv(s)
  <2>1. \E s : opts.fed = {s}
    BY FedIs
  <2>2. PICK s \in opts.fed : TRUE
    BY <2>1
  <2> QED BY <2>2, WholeIs DEF WholeInv
<1>2. PICK p \in Given \cap Range(cache[s]) : TRUE
  BY <1>1 DEF KeptInv, Joined
<1> DEFINE q == With(WriteCache, hand)
<1>3. /\ hand \in Packet /\ AddToFile(Nothing, q) /\ q \in [Streams -> Seq(Packet)]
      /\ WriteCache \in [Streams -> Seq(Packet)]
  BY OpenedIs DEF RecInv
<1>4. s \in Streams /\ s \in opts.written /\ WriteCache = cache
  BY <1>1, OneIs DEF OneStream
<1>5. Range(cache[s]) \subseteq Range(q[s])
  <2>1. \/ Range(q[s]) = Range(WriteCache[s]) \cup {hand}
        \/ Range(q[s]) = Range(WriteCache[s])
    BY <1>3, <1>4, WithRange
  <2> QED BY <1>4, <2>1
<1>6. file'[s] = q[s]
  <2>1. file'[s] = Nothing[s] \o q[s]
    BY <1>3, <1>4, NothingType, AddIs
  <2>2. Nothing[s] = <<>> /\ q[s] \in Seq(Packet)
    BY <1>3, <1>4 DEF Nothing
  <2> QED BY <2>1, <2>2, ConcatEmptySeq
<1> QED BY <1>2, <1>5, <1>6

(* A file that continues a recording begins with packets that the file     *)
(* before it was given, too.                                               *)
THEOREM OverlapAlways == Spec => Overlap
<1> QED BY Recordings, OpenOverlaps, PTL DEF Spec, Overlap, Overlaps

=============================================================================
