--------------------------- MODULE DiscoveryProofs ---------------------------
(***************************************************************************)
(* Proofs about module Discovery, for all cameras, addresses, interfaces,  *)
(* answers and numbers of clicks and searches.                             *)
(***************************************************************************)
EXTENDS DiscoveryProps, SequenceTheorems, FiniteSetTheorems, WellFoundedInduction, TLAPS

-----------------------------------------------------------------------------
(* Lemmas on numbers, sequences and sets.                                  *)

(* A non-empty set of natural numbers has a least element.                 *)
LEMMA NatLeast ==
  ASSUME NEW T \in SUBSET Nat, T # {}
  PROVE  Min(T) \in T /\ \A m \in T : Min(T) <= m
<1>1. PICK n \in T : \A m \in T : ~ (<<m, n>> \in OpToRel(<, Nat))
  BY NatLessThanWellFounded, WFMin
<1>2. \A m \in T : ~ (m < n)
  BY <1>1 DEF OpToRel
<1>3. \A m \in T : n <= m
  BY <1>2
<1> QED BY <1>3 DEF Min

(* A list without its i-th element.                                        *)
LEMMA RemoveAtType ==
  ASSUME NEW S, NEW q \in Seq(S), NEW i \in 1..Len(q)
  PROVE  /\ RemoveAt(q, i) \in Seq(S)
         /\ Len(RemoveAt(q, i)) = Len(q) - 1
         /\ \A j \in 1..(Len(q) - 1) :
              RemoveAt(q, i)[j] = IF j < i THEN q[j] ELSE q[j + 1]
<1> DEFINE u == SubSeq(q, 1, i - 1)  v == SubSeq(q, i + 1, Len(q))
<1>1. u \in Seq(S) /\ Len(u) = i - 1 /\ \A j \in 1..(i - 1) : u[j] = q[j]
  BY SubSeqProperties
<1>2. v \in Seq(S) /\ Len(v) = Len(q) - i /\ \A j \in 1..(Len(q) - i) : v[j] = q[i + j]
  BY SubSeqProperties
<1>3. RemoveAt(q, i) = u \o v
  BY DEF RemoveAt
<1> HIDE DEF u, v
<1>4. /\ u \o v \in Seq(S) /\ Len(u \o v) = Len(u) + Len(v)
      /\ \A j \in 1..(Len(u) + Len(v)) : (u \o v)[j] = IF j <= Len(u) THEN u[j] ELSE v[j - Len(u)]
  BY <1>1, <1>2, ConcatProperties
<1> QED BY <1>1, <1>2, <1>3, <1>4

(* The elements of a finite set, in some order: each of them, once.        *)
LEMMA SetToSeqAll ==
  ASSUME NEW S, IsFiniteSet(S)
  PROVE  /\ Cardinality(S) \in Nat
         /\ SetToSeq(S) \in [1..Cardinality(S) -> S]
         /\ \A x \in S : \E i \in 1..Cardinality(S) : SetToSeq(S)[i] = x
<1> DEFINE n == Cardinality(S)  f == SetToSeq(S)
<1>1. n \in Nat /\ ExistsBijection(1..n, S)
  BY FS_CardinalityType
<1>2. f \in [1..n -> S] /\ IsInjective(f)
  <2>1. \E g \in [1..n -> S] : IsInjective(g)
    BY <1>1 DEF ExistsBijection, Bijection, Injection
  <2> QED BY <2>1 DEF SetToSeq
<1>3. f \in Injection(1..n, S)
  BY <1>2 DEF Injection
<1>4. IsFiniteSet(1..n) /\ Cardinality(1..n) = n
  BY <1>1, FS_Interval
<1>5. f \in Surjection(1..n, S)
  BY <1>3, <1>4, FS_Injection
<1> QED BY <1>1, <1>2, <1>5 DEF Surjection

-----------------------------------------------------------------------------
(* Types.  TypeOK needs that the offsets are tried in a fixed order and no *)
(* further once the last one failed (Tries, GaveUp), that the dialog and   *)
(* the signals for it name threads that ask (Dialog), that the sessions    *)
(* still to be started are within the bound (Window), and that a camera is *)
(* listed and cached with an address of its own (Lists).                   *)
SearchRec ==
  [at : {"free", "broadcast", "next", "time", "cred", "login", "set", "ask", "caps", "info",
         "hung", "data", "add", "end"},
   kind : {"none", "session", "filler", "manual"}, todo : SUBSET Addrs, addr : Addrs,
   offset : -2..2, count : 1..3, direction : {-1, 1}, error : {"", "net", "other"},
   typed : {"none", "right", "wrong", "cancel"}]

Tries(w) ==
  \/ w.offset = 0 /\ w.count = 1 /\ w.direction = 1
  \/ w.offset = 1 /\ w.count = 1 /\ w.direction = -1
  \/ w.offset = -1 /\ w.count = 2 /\ w.direction = 1
  \/ w.offset = 2 /\ w.count = 2 /\ w.direction = -1
GaveUp(w) == w.offset = -2 /\ w.count = 3 /\ w.direction = 1 /\ w.at \in {"next", "end"}

RecOK(w) ==
  /\ w \in SearchRec /\ (Tries(w) \/ GaveUp(w))
  /\ w.kind = "session" => w.at # "free"
  /\ w.at \in {"broadcast", "next"} => w.kind = "session"
  /\ w.at \notin {"free", "end"} => w.kind # "none"

Threads ==
  /\ opts \in Options /\ search \in [Searches -> SearchRec]
  /\ \A s \in Searches : RecOK(search[s])
  /\ used \in 0..MaxSearches /\ \A s \in Searches : Busy(s) => s <= used

Signal == [by : Searches \cup {NoOne}, addr : Addrs]
Dialog ==
  /\ active \in BOOLEAN /\ open \in BOOLEAN /\ raced \in BOOLEAN /\ label \in Addrs
  /\ requests \in Seq(Signal)
  /\ \A i \in DOMAIN requests : requests[i].by # NoOne => search[requests[i].by].at = "ask"
  /\ shown \in Searches \cup {NoOne}
  /\ shown # NoOne => open /\ search[shown].at = "ask"

Window ==
  /\ clicks \in 0..opts.clicks /\ gui \in {"idle", "start", "add"}
  /\ pending \in 0..Len(opts.nets) /\ (gui = "start" <=> pending > 0)
  /\ used + pending <= MaxSearches
  /\ btn \in BOOLEAN /\ fault \in BOOLEAN
  /\ fillers \in SUBSET Searches /\ timers \in SUBSET Searches /\ sessions \in SUBSET Searches
  /\ \A s \in sessions : s <= used /\ search[s].kind = "session"

Listing == [cam : Cameras, addr : Addrs, uri : Addrs, filled : BOOLEAN, fills : Nat]
CamOK(c) == c.cam = CameraAt[c.addr] /\ c.cam = CameraAt[c.uri]
Pairs == {<<CameraAt[a], a>> : a \in Addrs}
Lists ==
  /\ cams \in Seq(Listing)
  /\ \A i \in DOMAIN cams : CamOK(cams[i])
  /\ cache \in SUBSET Pairs /\ removed \in SUBSET Cameras /\ twice \in SUBSET Cameras

TypeInv == Threads /\ Dialog /\ Window /\ Lists

LEMMA TypeInvOK == TypeInv => TypeOK
<1> SUFFICES ASSUME TypeInv PROVE TypeOK
  OBVIOUS
<1>1. /\ opts \in Options /\ search \in [Searches -> SearchRec]
      /\ used \in 0..MaxSearches /\ \A s \in Searches : Busy(s) => s <= used
  BY DEF TypeInv, Threads
<1>2. cams \in Seq(Listing) /\ cache \subseteq Cameras \X Addrs /\ removed \subseteq Cameras
      /\ twice \subseteq Cameras
  BY DiscoveryAssumption DEF TypeInv, Lists, Pairs
<1>3. /\ clicks \in 0..opts.clicks /\ {sessions, fillers, timers} \subseteq SUBSET Searches
      /\ gui \in {"idle", "start", "add"} /\ pending \in 0..Len(opts.nets)
      /\ (gui = "start") = (pending > 0) /\ {btn, fault, active, open, raced} \subseteq BOOLEAN
  BY DEF TypeInv, Window, Dialog
<1>4. /\ label \in Addrs /\ requests \in Seq([by : Searches \cup {NoOne}, addr : Addrs])
      /\ shown # NoOne => open /\ search[shown].at = "ask"
  BY DEF TypeInv, Dialog, Signal
<1> QED BY <1>1, <1>2, <1>3, <1>4 DEF TypeOK, SearchRec, Listing

(* What is tried.                                                          *)
LEMMA OptsType ==
  ASSUME opts \in Options
  PROVE  /\ opts.nets \in Seq(SUBSET Addrs) /\ opts.cached \in BOOLEAN /\ opts.common \in BOOLEAN
         /\ opts.clicks \in 0..MaxClicks /\ opts.manual \in SUBSET Addrs
         /\ opts.private \in SUBSET Addrs /\ opts.open \in SUBSET Addrs
         /\ opts.skew \in [Addrs -> Int]
         /\ opts.cached => opts.nets # <<>>
  BY DiscoveryAssumption

LEMMA PairsFinite == IsFiniteSet(Pairs)
<1> DEFINE f == [a \in Addrs |-> <<CameraAt[a], a>>]
<1>1. f \in Surjection(Addrs, Pairs)
  BY DEF Surjection, Pairs
<1> QED BY <1>1, FS_Surjection, DiscoveryAssumption

LEMMA IdleOK ==
  /\ RecOK(Idle) /\ Idle.at = "free" /\ Idle.typed = "none" /\ Idle.error = "" /\ Idle.todo = {}
  /\ Idle.offset = 0 /\ Idle.count = 1 /\ Idle.direction = 1
<1>1. Idle.addr \in Addrs
  BY DiscoveryAssumption DEF Idle
<1> QED BY <1>1 DEF Idle, RecOK, SearchRec, Tries

LEMMA TypeInit == Init => TypeInv
<1> SUFFICES ASSUME Init PROVE TypeInv
  OBVIOUS
<1>1. Threads
  <2>1. \A s \in Searches : search[s] = Idle /\ ~Busy(s)
    BY IdleOK DEF Init, Busy
  <2>2. search \in [Searches -> SearchRec] /\ \A s \in Searches : RecOK(search[s])
    BY <2>1, IdleOK DEF Init, RecOK
  <2> QED BY <2>1, <2>2, DiscoveryAssumption DEF Init, Threads
<1>2. Dialog
  <2>1. Idle.addr \in Addrs
    BY IdleOK DEF RecOK, SearchRec
  <2>2. requests = <<>> /\ requests \in Seq(Signal) /\ DOMAIN requests = {}
    BY EmptySeq DEF Init
  <2>3. active = FALSE /\ open = FALSE /\ raced = FALSE /\ shown = NoOne /\ label \in Addrs
    BY <2>1 DEF Init
  <2> QED BY <2>2, <2>3 DEF Dialog
<1>3. Window
  <2>1. opts.clicks \in Nat /\ Len(opts.nets) \in Nat
    BY OptsType, DiscoveryAssumption DEF Init
  <2>2. used + pending <= MaxSearches /\ pending \in 0..Len(opts.nets) /\ clicks \in 0..opts.clicks
    BY <2>1, DiscoveryAssumption DEF Init
  <2>3. btn \in BOOLEAN /\ fault \in BOOLEAN
    BY DEF Init
  <2>4. gui = "idle" /\ pending = 0 /\ fillers = {} /\ timers = {} /\ sessions = {}
    BY DEF Init
  <2> QED BY <2>2, <2>3, <2>4 DEF Window
<1>4. Lists
  <2>1. cache \in SUBSET Pairs
    <3>1. CASE opts.cached
      <4>1. opts.nets \in Seq(SUBSET Addrs) /\ opts.nets # <<>>
        BY <3>1, OptsType DEF Init
      <4>2. opts.nets[1] \in SUBSET Addrs
        BY <4>1
      <4> QED BY <4>2, <3>1 DEF Init, Pairs
    <3>2. CASE ~opts.cached
      BY <3>2 DEF Init
    <3> QED BY <3>1, <3>2
  <2> QED BY <2>1 DEF Init, Lists
<1> QED BY <1>1, <1>2, <1>3, <1>4 DEF TypeInv

-----------------------------------------------------------------------------
(* Steps of a search: what it becomes, w, and what that does to the types. *)
LEMMA ThreadsKept ==
  ASSUME Threads, NEW s \in Searches, NEW w, RecOK(w), Busy(s),
         search' = [search EXCEPT ![s] = w], UNCHANGED <<opts, used>>
  PROVE  Threads'
BY DEF Threads, Busy, RecOK

LEMMA SignalType ==
  ASSUME Dialog
  PROVE  /\ DOMAIN requests = 1..Len(requests) /\ Len(requests) \in Nat
         /\ \A i \in DOMAIN requests : /\ requests[i] \in Signal /\ requests[i].addr \in Addrs
                                      /\ requests[i].by \in Searches \cup {NoOne}
<1>1. requests \in Seq(Signal)
  BY DEF Dialog
<1>2. DOMAIN requests = 1..Len(requests) /\ Len(requests) \in Nat
      /\ \A i \in DOMAIN requests : requests[i] \in Signal
  BY <1>1
<1>3. \A r \in Signal : r.addr \in Addrs /\ r.by \in Searches \cup {NoOne}
  BY DEF Signal
<1> QED BY <1>2, <1>3

LEMMA DialogKept ==
  ASSUME Dialog, UNCHANGED <<requests, open, shown, label>>, active' \in BOOLEAN, raced' \in BOOLEAN,
         \A t \in Searches : search[t].at = "ask" => search'[t].at = "ask"
  PROVE  Dialog'
<1>1. \A i \in DOMAIN requests : requests[i].by \in Searches \cup {NoOne}
  BY SignalType
<1> QED BY <1>1 DEF Dialog

(* Every step of a search but those of the dialog.                         *)
Becomes(s, w) ==
  /\ search' = [search EXCEPT ![s] = w] /\ RecOK(w) /\ w.kind = search[s].kind
  /\ w.at \notin {"ask", "set"} /\ w.typed \in {search[s].typed, "none"}

LEMMA BecomesType ==
  ASSUME Threads, Dialog, NEW s \in Searches, NEW w, Becomes(s, w), Busy(s),
         search[s].at # "ask", UNCHANGED <<opts, used, dialog>>
  PROVE  Threads' /\ Dialog'
<1>1. \A t \in Searches : search[t].at = "ask" => search'[t].at = "ask"
  BY DEF Becomes, Threads
<1>2. active' \in BOOLEAN /\ raced' \in BOOLEAN /\ UNCHANGED <<requests, open, shown, label>>
  BY DEF Dialog, dialog
<1>3. Dialog'
  BY <1>1, <1>2, DialogKept
<1> QED BY <1>3, ThreadsKept DEF Becomes

Plain(s) ==
  \/ Broadcast(s) \/ NextCamera(s) \/ TimeOffset(s) \/ Hang(s) \/ Credential(s)
  \/ Capabilities(s) \/ DeviceInformation(s)

(* The offsets are tried in the order 0, 1, -1, 2.                         *)
LEMMA RetryStep ==
  ASSUME NEW v \in SearchRec, Tries(v)
  PROVE  /\ Retry(v) \in SearchRec /\ Retry(v).kind = v.kind /\ Retry(v).addr = v.addr
         /\ Retry(v).typed = v.typed /\ Retry(v).todo = v.todo
         /\ v.offset = 0 => Retry(v).offset = 1 /\ Tries(Retry(v)) /\ Retry(v).count = 1
         /\ v.offset = 1 => Retry(v).offset = -1 /\ Tries(Retry(v)) /\ Retry(v).count = 2
         /\ v.offset = -1 => Retry(v).offset = 2 /\ Tries(Retry(v)) /\ Retry(v).count = 2
         /\ v.offset = 2 => Retry(v).offset = -2 /\ Retry(v).count = 3 /\ Retry(v).direction = 1
         /\ IF v.offset = 2 THEN Retry(v).count > 2 ELSE ~(Retry(v).count > 2) /\ Tries(Retry(v))
<1>1. /\ Retry(v).offset = v.direction * v.count /\ Retry(v).direction = -v.direction
      /\ Retry(v).count = IF v.direction < 0 THEN v.count + 1 ELSE v.count
      /\ Retry(v).kind = v.kind /\ Retry(v).addr = v.addr /\ Retry(v).typed = v.typed
      /\ Retry(v).todo = v.todo
  BY DEF Retry, SearchRec
<1>2. v.count \in 1..3 /\ v.direction \in {-1, 1} /\ v.offset \in {0, 1, -1, 2}
  BY DEF Tries, SearchRec
<1>m. \A d \in Int : -d = 0 - d
  OBVIOUS
<1>3. ASSUME NEW o \in -2..2, NEW n \in 1..3, NEW d \in {-1, 1},
             o = v.direction * v.count, d = -v.direction,
             n = IF v.direction < 0 THEN v.count + 1 ELSE v.count
      PROVE  Retry(v) \in SearchRec
  <2>1. Retry(v) = [v EXCEPT !.offset = o, !.direction = d, !.count = n]
    BY <1>3 DEF Retry, SearchRec
  <2> QED BY <2>1 DEF SearchRec
<1>4. CASE v.offset = 0
  <2>1. v.count = 1 /\ v.direction = 1
    BY <1>4 DEF Tries
  <2>2. Retry(v) \in SearchRec
    BY <2>1, <1>3
  <2> QED BY <1>1, <1>4, <2>1, <2>2 DEF Tries
<1>5. CASE v.offset = 1
  <2>1. v.count = 1 /\ v.direction = -1
    BY <1>5 DEF Tries
  <2>a. 0 - v.direction = 1 /\ v.direction \in Int
    BY <2>1
  <2>b. -v.direction = 1
    BY <2>a, <1>m
  <2>2. v.direction * v.count = -1 /\ -v.direction = 1 /\ v.direction < 0 /\ v.count + 1 = 2
    BY <2>1, <2>b
  <2>3. Retry(v) \in SearchRec
    BY <2>2, <1>3
  <2> QED BY <1>1, <1>5, <2>2, <2>3 DEF Tries
<1>6. CASE v.offset = -1
  <2>1. v.count = 2 /\ v.direction = 1
    BY <1>6 DEF Tries
  <2>2. Retry(v) \in SearchRec
    BY <2>1, <1>3
  <2> QED BY <1>1, <1>6, <2>1, <2>2 DEF Tries
<1>7. CASE v.offset = 2
  <2>1. v.count = 2 /\ v.direction = -1
    BY <1>7 DEF Tries
  <2>a. 0 - v.direction = 1 /\ v.direction \in Int
    BY <2>1
  <2>b. -v.direction = 1
    BY <2>a, <1>m
  <2>2. v.direction * v.count = -2 /\ -v.direction = 1 /\ v.direction < 0 /\ v.count + 1 = 3
    BY <2>1, <2>b
  <2>3. Retry(v) \in SearchRec
    BY <2>2, <1>3
  <2> QED BY <1>1, <1>7, <2>2, <2>3 DEF Tries
<1> QED BY <1>2, <1>4, <1>5, <1>6, <1>7

LEMMA PlainStep ==
  ASSUME TypeInv, NEW s \in Searches, Plain(s)
  PROVE  /\ Busy(s) /\ \E w : Becomes(s, w) /\ (w.kind = "session" => w.at # "end") /\ w.at # "add"
         /\ search[s].at \notin {"ask", "set", "add"} /\ UNCHANGED <<dialog, panel>>
<1> DEFINE v == search[s]  Goal(w) == Becomes(s, w) /\ (w.kind = "session" => w.at # "end") /\ w.at # "add"
<1>0. SUFFICES \E w : Goal(w)
  BY DEF Plain, Broadcast, NextCamera, TimeOffset, Hang, Credential, Capabilities,
         DeviceInformation, Busy
<1>1. v \in SearchRec /\ RecOK(v)
  BY DEF TypeInv, Threads
<1>2. CASE Broadcast(s)
  <2>1. PICK came \in SUBSET v.todo : search' = [search EXCEPT ![s] = [v EXCEPT !.at = "next", !.todo = came]]
    BY <1>2 DEF Broadcast
  <2>2. Goal([v EXCEPT !.at = "next", !.todo = came])
    BY <1>1, <2>1, <1>2 DEF Becomes, RecOK, SearchRec, Tries, GaveUp, Broadcast
  <2> QED BY <2>2
<1>3. CASE NextCamera(s)
  <2>1. PICK a \in v.todo : search' = [search EXCEPT ![s] =
          [Idle EXCEPT !.at = "time", !.kind = "session", !.todo = v.todo \ {a}, !.addr = a]]
    BY <1>3 DEF NextCamera
  <2>2. Goal([Idle EXCEPT !.at = "time", !.kind = "session", !.todo = v.todo \ {a}, !.addr = a])
    BY <1>1, <2>1, <1>3, IdleOK DEF Becomes, RecOK, SearchRec, Tries, GaveUp, NextCamera
  <2> QED BY <2>2
<1>4. CASE TimeOffset(s)
  <2>1. PICK e \in {""} \cup Fails : search' = [search EXCEPT ![s] = [v EXCEPT !.at = "cred", !.error = e]]
    BY <1>4 DEF TimeOffset
  <2>2. Goal([v EXCEPT !.at = "cred", !.error = e])
    BY <1>1, <2>1, <1>4 DEF Becomes, RecOK, SearchRec, Tries, GaveUp, TimeOffset, Fails
  <2> QED BY <2>2
<1>5. CASE Credential(s)
  <2>1. PICK p \in {Skip(s), "caps", "login"} : search' = [search EXCEPT ![s] = [v EXCEPT !.at = p]]
    BY <1>5 DEF Credential, Goto
  <2>2. Goal([v EXCEPT !.at = p])
    BY <1>1, <2>1, <1>5 DEF Becomes, RecOK, SearchRec, Tries, GaveUp, Credential, Skip
  <2> QED BY <2>2
<1>6. CASE Hang(s)
  <2>1. search' = [search EXCEPT ![s] = [v EXCEPT !.at = "hung"]]
    BY <1>6 DEF Hang, Goto
  <2>2. Goal([v EXCEPT !.at = "hung"])
    BY <1>1, <2>1, <1>6 DEF Becomes, RecOK, SearchRec, Tries, GaveUp, Hang
  <2> QED BY <2>2
<1>7. CASE Capabilities(s)
  <2>0. PICK e \in {"", "net", "other"} : \E w : search' = [search EXCEPT ![s] = w] /\ w =
          IF e = "" /\ (v.addr \in opts.open \/ Accepted(s)) THEN [v EXCEPT !.at = "info", !.error = ""]
          ELSE [Retry(v) EXCEPT !.error = IF e = "" THEN "other" ELSE e,
                                !.at = IF Retry(v).count > 2 THEN Skip(s) ELSE "cred"]
    BY <1>7 DEF Capabilities, Fails
  <2>1. PICK w : /\ e \in {"", "net", "other"} /\ search' = [search EXCEPT ![s] = w]
                 /\ w = IF e = "" /\ (v.addr \in opts.open \/ Accepted(s))
                        THEN [v EXCEPT !.at = "info", !.error = ""]
                        ELSE [Retry(v) EXCEPT !.error = IF e = "" THEN "other" ELSE e,
                                              !.at = IF Retry(v).count > 2 THEN Skip(s) ELSE "cred"]
    BY <2>0
  <2>2. Tries(v)
    BY <1>1, <1>7 DEF Capabilities, RecOK, GaveUp
  <2>3. Goal(w)
    <3>1. CASE e = "" /\ (v.addr \in opts.open \/ Accepted(s))
      BY <3>1, <1>1, <2>1, <1>7 DEF Becomes, RecOK, SearchRec, Tries, GaveUp, Capabilities
    <3>2. CASE ~(e = "" /\ (v.addr \in opts.open \/ Accepted(s)))
      <4> DEFINE p == IF Retry(v).count > 2 THEN Skip(s) ELSE "cred"
                 r == IF e = "" THEN "other" ELSE e
      <4>1. w = [Retry(v) EXCEPT !.error = r, !.at = p]
        BY <3>2, <2>1
      <4>2. /\ Retry(v) \in SearchRec /\ Retry(v).kind = v.kind /\ r \in {"other", "net"}
            /\ \/ p = "cred" /\ Tries(Retry(v))
               \/ p = Skip(s) /\ Retry(v).offset = -2 /\ Retry(v).count = 3 /\ Retry(v).direction = 1
        <5>1. r \in {"other", "net"}
          BY <2>1 DEF Fails
        <5>2. CASE v.offset = 2
          <6>1. Retry(v).count > 2
            BY <5>2, <2>2, <1>1, RetryStep
          <6> QED BY <5>1, <5>2, <6>1, <2>2, <1>1, RetryStep
        <5>3. CASE v.offset # 2
          <6>1. ~(Retry(v).count > 2) /\ Tries(Retry(v))
            BY <5>3, <2>2, <1>1, RetryStep
          <6> QED BY <5>1, <6>1, <2>2, <1>1, RetryStep
        <5> QED BY <5>2, <5>3
      <4> HIDE DEF p, r
      <4>3. p \in {"cred", Skip(s)} /\ Skip(s) = IF v.kind = "session" THEN "next" ELSE "end"
        BY <4>2 DEF Skip
      <4>4. /\ w \in SearchRec /\ w.kind = v.kind /\ w.at = p /\ w.offset = Retry(v).offset
            /\ w.count = Retry(v).count /\ w.direction = Retry(v).direction
        BY <4>1, <4>2, <4>3 DEF SearchRec
      <4>6. w.typed = v.typed
        BY <4>1, <4>2, <1>1, <2>2, RetryStep DEF SearchRec
      <4>5. RecOK(w)
        BY <4>2, <4>3, <4>4, <1>1, <1>7 DEF RecOK, Tries, GaveUp, Capabilities
      <4> QED BY <2>1, <4>3, <4>4, <4>5, <4>6 DEF Becomes
    <3> QED BY <3>1, <3>2
  <2> QED BY <2>3
<1>8. CASE DeviceInformation(s)
  <2>1. PICK p \in {"data", "cred"}, e \in {"", "other", "net"} :
          search' = [search EXCEPT ![s] = [v EXCEPT !.error = e, !.at = p]]
    BY <1>8 DEF DeviceInformation, Fails
  <2>2. Goal([v EXCEPT !.error = e, !.at = p])
    BY <1>1, <2>1, <1>8 DEF Becomes, RecOK, SearchRec, Tries, GaveUp, DeviceInformation
  <2> QED BY <2>2
<1> QED BY <1>2, <1>3, <1>4, <1>5, <1>6, <1>7, <1>8 DEF Plain

LEMMA PlainType ==
  ASSUME TypeInv, NEW s \in Searches, Plain(s), UNCHANGED <<opts, used>>
  PROVE  TypeInv'
<1>1. PICK w : Becomes(s, w)
  BY PlainStep
<1>2. Threads' /\ Dialog'
  BY <1>1, PlainStep, BecomesType DEF TypeInv
<1>3. Window'
  <2>1. \A t \in sessions : search'[t].kind = search[t].kind
    BY <1>1 DEF Becomes, TypeInv, Threads, Window
  <2> QED BY <2>1, PlainStep DEF TypeInv, Window, panel
<1>4. Lists'
  BY PlainStep DEF TypeInv, Lists, panel
<1> QED BY <1>2, <1>3, <1>4 DEF TypeInv

LEMMA FinishType ==
  ASSUME TypeInv, NEW s \in Searches, Finish(s), UNCHANGED <<opts, used>>
  PROVE  TypeInv'
<1> DEFINE w == [search[s] EXCEPT !.at = "end"]
<1>1. search[s] \in SearchRec /\ RecOK(search[s]) /\ search' = [search EXCEPT ![s] = w] /\ Busy(s)
      /\ search[s].at = "next"
  BY DEF TypeInv, Threads, Finish, Goto, Busy
<1>2. Becomes(s, w)
  BY <1>1 DEF Becomes, RecOK, SearchRec, Tries, GaveUp
<1>3. Threads' /\ Dialog'
  BY <1>1, <1>2, BecomesType DEF TypeInv, Finish
<1>4. Window'
  <2>1. \A t \in sessions : search'[t].kind = search[t].kind
    BY <1>2 DEF Becomes, TypeInv, Threads, Window
  <2>2. sessions' \in SUBSET sessions /\ timers' \in SUBSET Searches
    BY DEF Finish, TypeInv, Window
  <2>3. btn' \in BOOLEAN
    BY DEF Finish, TypeInv, Window
  <2> QED BY <2>1, <2>2, <2>3 DEF TypeInv, Window, Finish
<1>5. Lists'
  BY DEF TypeInv, Lists, Finish
<1> QED BY <1>3, <1>4, <1>5 DEF TypeInv

(* The steps of the dialog: only the thread itself and the dialog change.  *)
LEMMA DialogStep ==
  ASSUME TypeInv, NEW s \in Searches, NEW w, RecOK(w), w.kind = search[s].kind, Busy(s),
         search' = [search EXCEPT ![s] = w], UNCHANGED <<opts, used, panel>>, Dialog'
  PROVE  TypeInv'
<1>1. Threads'
  BY ThreadsKept DEF TypeInv
<1>2. Window'
  <2>1. \A t \in sessions : search'[t].kind = search[t].kind
    BY DEF TypeInv, Threads, Window
  <2> QED BY <2>1 DEF TypeInv, Window, panel
<1>3. Lists'
  BY DEF TypeInv, Lists, panel
<1> QED BY <1>1, <1>2, <1>3 DEF TypeInv

LEMMA TestType ==
  ASSUME TypeInv, NEW s \in Searches, Test(s), UNCHANGED <<opts, used>>
  PROVE  TypeInv'
<1> DEFINE w == [search[s] EXCEPT !.at = "set"]
<1>1. search[s] \in SearchRec /\ RecOK(search[s]) /\ search' = [search EXCEPT ![s] = w] /\ Busy(s)
      /\ search[s].at = "login" /\ UNCHANGED panel
  BY DEF TypeInv, Threads, Test, Goto, Busy
<1>2. RecOK(w) /\ w.kind = search[s].kind /\ w.at = "set"
  BY <1>1 DEF RecOK, SearchRec, Tries, GaveUp
<1>3. Dialog'
  <2>1. \A t \in Searches : search[t].at = "ask" => search'[t].at = "ask"
    BY <1>1 DEF TypeInv, Threads
  <2>2. active' \in BOOLEAN /\ raced' \in BOOLEAN /\ UNCHANGED <<requests, open, shown, label>>
    BY DEF Test, TypeInv, Dialog
  <2> QED BY <2>1, <2>2, DialogKept DEF TypeInv
<1> QED BY <1>1, <1>2, <1>3, DialogStep

LEMMA RequestType ==
  ASSUME TypeInv, NEW s \in Searches, Request(s), UNCHANGED <<opts, used>>
  PROVE  TypeInv'
<1> DEFINE w == [search[s] EXCEPT !.at = "ask"]
           e == [by |-> s, addr |-> search[s].addr]
<1>1. search[s] \in SearchRec /\ RecOK(search[s]) /\ search' = [search EXCEPT ![s] = w] /\ Busy(s)
      /\ search[s].at = "set" /\ UNCHANGED panel
  BY DEF TypeInv, Threads, Request, Goto, Busy
<1>2. RecOK(w) /\ w.kind = search[s].kind /\ w.at = "ask"
  BY <1>1 DEF RecOK, SearchRec, Tries, GaveUp
<1>3. search'[s].at = "ask" /\ \A t \in Searches : search[t].at = "ask" => search'[t].at = "ask"
  BY <1>1, <1>2 DEF TypeInv, Threads
<1>4. search[s].addr \in Addrs
  BY <1>1 DEF SearchRec
<1>5. Dialog'
  <2>1. active' \in BOOLEAN /\ raced' \in BOOLEAN
    BY DEF Request, TypeInv, Dialog
  <2>2. CASE UNCHANGED requests /\ open' = TRUE /\ shown' = s /\ label' = search[s].addr
    <3>1. \A i \in DOMAIN requests : requests[i].by \in Searches \cup {NoOne}
      BY SignalType DEF TypeInv
    <3> QED BY <1>3, <1>4, <2>1, <2>2, <3>1 DEF TypeInv, Dialog
  <2>3. CASE UNCHANGED <<open, shown, label>> /\ requests' = Append(requests, e)
    <3>1. e \in Signal /\ e.by = s
      BY <1>4 DEF Signal
    <3>2. requests \in Seq(Signal)
      BY DEF TypeInv, Dialog
    <3> HIDE DEF e
    <3>3. /\ requests' \in Seq(Signal) /\ DOMAIN requests' = 1..(Len(requests) + 1)
          /\ requests'[Len(requests) + 1] = e /\ \A i \in 1..Len(requests) : requests'[i] = requests[i]
      BY <2>3, <3>1, <3>2, AppendProperties
    <3>4. \A i \in DOMAIN requests' : requests'[i].by # NoOne => search'[requests'[i].by].at = "ask"
      <4>1. \A i \in 1..(Len(requests) + 1) : i \in 1..Len(requests) \/ i = Len(requests) + 1
        BY SignalType DEF TypeInv
      <4>2. \A i \in 1..Len(requests) : requests[i].by # NoOne => search'[requests[i].by].at = "ask"
        BY <1>3, SignalType DEF TypeInv, Dialog
      <4> QED BY <1>3, <3>1, <3>3, <4>1, <4>2
    <3>5. shown \in Searches \cup {NoOne} /\ (shown # NoOne => open /\ search'[shown].at = "ask")
      BY <1>3 DEF TypeInv, Dialog
    <3> QED BY <2>1, <2>3, <3>3, <3>4, <3>5 DEF TypeInv, Dialog
  <2> QED BY <2>2, <2>3 DEF Request
<1> QED BY <1>1, <1>2, <1>5, DialogStep

(* A thread that goes on is forgotten by the signal it sent.               *)
Forgotten(s) ==
  [i \in DOMAIN requests |-> IF requests[i].by = s THEN [requests[i] EXCEPT !.by = NoOne] ELSE requests[i]]

LEMMA ForgottenType ==
  ASSUME Dialog, NEW s \in Searches
  PROVE  /\ Forgotten(s) \in Seq(Signal) /\ DOMAIN Forgotten(s) = DOMAIN requests
         /\ Len(Forgotten(s)) = Len(requests)
         /\ \A i \in DOMAIN requests :
              /\ Forgotten(s)[i].by = IF requests[i].by = s THEN NoOne ELSE requests[i].by
              /\ Forgotten(s)[i].addr = requests[i].addr
<1>1. DOMAIN requests = 1..Len(requests) /\ Len(requests) \in Nat
      /\ \A i \in DOMAIN requests : requests[i] \in Signal
  BY SignalType
<1>2. \A r \in Signal : /\ [r EXCEPT !.by = NoOne] \in Signal
                        /\ [r EXCEPT !.by = NoOne].by = NoOne /\ [r EXCEPT !.by = NoOne].addr = r.addr
  BY DEF Signal
<1>3. \A i \in 1..Len(requests) : Forgotten(s)[i] \in Signal
  BY <1>1, <1>2 DEF Forgotten
<1>4. Forgotten(s) \in [1..Len(requests) -> Signal]
  BY <1>1, <1>3 DEF Forgotten
<1>5. Forgotten(s) \in Seq(Signal) /\ Len(Forgotten(s)) = Len(requests)
  BY <1>1, <1>4
<1> QED BY <1>1, <1>2, <1>5 DEF Forgotten

LEMMA AskedType ==
  ASSUME TypeInv, NEW s \in Searches, Asked(s), UNCHANGED <<opts, used>>
  PROVE  TypeInv'
<1>1. search[s] \in SearchRec /\ RecOK(search[s]) /\ Busy(s) /\ search[s].at = "ask" /\ UNCHANGED panel
  BY DEF TypeInv, Threads, Asked, Busy
<1>2. PICK p \in {Skip(s), "caps"} : search' = [search EXCEPT ![s] = [search[s] EXCEPT !.at = p]]
  BY DEF Asked, Goto
<1> DEFINE w == [search[s] EXCEPT !.at = p]
<1>3. RecOK(w) /\ w.kind = search[s].kind /\ w.at # "ask"
  BY <1>1 DEF RecOK, SearchRec, Tries, GaveUp, Skip
<1>4. \A t \in Searches \ {s} : search'[t] = search[t]
  BY <1>2 DEF TypeInv, Threads
<1>5. Dialog'
  <2>1. requests' = Forgotten(s) /\ UNCHANGED <<active, open, label, raced>>
        /\ shown' = IF shown = s THEN NoOne ELSE shown
    BY DEF Asked, Forgotten
  <2>2. NoOne \notin Searches
    BY DEF NoOne, Searches
  <2>3. \A i \in DOMAIN requests' : requests'[i].by # NoOne => search'[requests'[i].by].at = "ask"
    <3>1. ASSUME NEW i \in DOMAIN requests, requests'[i].by # NoOne PROVE search'[requests'[i].by].at = "ask"
      <4>1. requests'[i].by = requests[i].by /\ requests[i].by # s /\ requests[i].by # NoOne
        BY <2>1, <3>1, ForgottenType DEF TypeInv
      <4>2. requests[i].by \in Searches /\ search[requests[i].by].at = "ask"
        BY <4>1, SignalType DEF TypeInv, Dialog
      <4> QED BY <1>4, <4>1, <4>2
    <3> QED BY <2>1, <3>1, ForgottenType DEF TypeInv
  <2>4. shown' # NoOne => open' /\ search'[shown'].at = "ask"
    BY <1>4, <2>1 DEF TypeInv, Dialog
  <2>5. requests' \in Seq(Signal) /\ shown' \in Searches \cup {NoOne}
    BY <2>1, ForgottenType DEF TypeInv, Dialog
  <2> QED BY <2>1, <2>3, <2>4, <2>5 DEF TypeInv, Dialog
<1> QED BY <1>1, <1>2, <1>3, <1>5, DialogStep

(* Additions to the list.                                                  *)
LEMMA ListedType ==
  ASSUME TypeInv
  PROVE  /\ DOMAIN cams = 1..Len(cams) /\ Len(cams) \in Nat
         /\ \A i \in DOMAIN cams : cams[i] \in Listing
         /\ \A c : Listed(c) \in SUBSET Nat /\ Listed(c) \subseteq DOMAIN cams
BY DEF TypeInv, Lists, Listed

LEMMA SavedType ==
  ASSUME NEW q \in Seq(Listing), \A i \in DOMAIN q : CamOK(q[i])
  PROVE  Saved(q) \in SUBSET Pairs
<1>1. \A i \in DOMAIN q : q[i] \in Listing
  OBVIOUS
<1>2. \A i \in DOMAIN q : q[i].addr \in Addrs
  BY <1>1 DEF Listing
<1> QED BY <1>2 DEF Saved, Pairs, CamOK

LEMMA ReaddressedType ==
  ASSUME cache \in SUBSET Pairs, NEW a \in Addrs
  PROVE  Readdressed(CameraAt[a], a) \in SUBSET Pairs
BY DEF Readdressed, Pairs

LEMMA AddToListType ==
  ASSUME TypeInv, NEW s \in Searches, AddToList(s)
  PROVE  Lists'
<1> DEFINE e == [cam |-> CameraAt[search[s].addr], addr |-> search[s].addr,
                 uri |-> search[s].addr, filled |-> FALSE, fills |-> 1]
<1>1. search[s].addr \in Addrs
  BY DEF TypeInv, Threads, SearchRec
<1>2. e \in Listing /\ CamOK(e)
  BY <1>1, DiscoveryAssumption DEF Listing, CamOK
<1>3. cams' = Append(cams, e) /\ cams \in Seq(Listing)
  BY DEF AddToList, TypeInv, Lists
<1> HIDE DEF e
<1>4. /\ cams' \in Seq(Listing) /\ Len(cams') = Len(cams) + 1 /\ cams'[Len(cams) + 1] = e
      /\ \A i \in 1..Len(cams) : cams'[i] = cams[i]
  BY <1>2, <1>3, AppendProperties
<1>5. \A i \in DOMAIN cams' : CamOK(cams'[i])
  BY <1>2, <1>4 DEF TypeInv, Lists
<1>6. cache' \in SUBSET Pairs
  BY <1>4, <1>5, SavedType DEF AddToList
<1> QED BY <1>4, <1>5, <1>6 DEF Lists, TypeInv, AddToList

LEMMA RefillType ==
  ASSUME TypeInv, NEW s \in Searches, Existing(s) # {}, Refill(s), UNCHANGED removed, twice' \in SUBSET Cameras
  PROVE  Lists' /\ Len(cams') = Len(cams) /\ \A i \in DOMAIN cams : cams'[i].cam = cams[i].cam
<1> DEFINE k == Min(Existing(s))  a == search[s].addr
           e == [cams[k] EXCEPT !.addr = a, !.fills = @ + 1]
<1>1. a \in Addrs /\ Existing(s) \in SUBSET Nat /\ Existing(s) = Listed(CameraAt[a])
  BY ListedType DEF TypeInv, Threads, SearchRec, Existing
<1>2. k \in DOMAIN cams /\ cams[k].cam = CameraAt[a]
  BY <1>1, NatLeast, ListedType DEF Listed
<1>3. cams' = [cams EXCEPT ![k] = e] /\ cams \in Seq(Listing) /\ cams[k] \in Listing
  BY <1>2, ListedType DEF Refill, TypeInv, Lists
<1> HIDE DEF k, a
<1>4. e \in Listing /\ CamOK(e) /\ e.cam = cams[k].cam
  <2>1. cams[k].fills + 1 \in Nat /\ cams[k].fills + 1 > 0
    BY <1>3 DEF Listing
  <2>2. /\ e.cam = cams[k].cam /\ e.addr = a /\ e.fills = cams[k].fills + 1 /\ e.uri = cams[k].uri
        /\ e.filled = cams[k].filled /\ e \in Listing
    BY <1>1, <1>3, <2>1 DEF Listing
  <2>3. CamOK(cams[k])
    BY <1>2 DEF TypeInv, Lists, k
  <2> QED BY <1>2, <2>1, <2>2, <2>3 DEF CamOK
<1> HIDE DEF e
<1>5. /\ cams' \in Seq(Listing) /\ Len(cams') = Len(cams)
      /\ \A i \in 1..Len(cams) : cams'[i] = IF i = k THEN e ELSE cams[i]
  BY <1>2, <1>3, <1>4, ListedType, ExceptSeq
<1>6. \A i \in DOMAIN cams' : CamOK(cams'[i])
  <2>1. DOMAIN cams' = 1..Len(cams) /\ DOMAIN cams = 1..Len(cams)
    BY <1>5, ListedType
  <2>2. \A i \in 1..Len(cams) : CamOK(cams[i])
    BY <2>1 DEF TypeInv, Lists
  <2> QED BY <1>4, <1>5, <2>1, <2>2
<1>7. cache' \in SUBSET Pairs
  <2>1. Readdressed(CameraAt[a], a) \in SUBSET Pairs
    BY <1>1, ReaddressedType DEF TypeInv, Lists
  <2> QED BY <2>1 DEF Refill, TypeInv, Lists, a
<1>8. \A i \in DOMAIN cams : cams'[i].cam = cams[i].cam
  BY <1>4, <1>5, ListedType
<1> QED BY <1>5, <1>6, <1>7, <1>8 DEF Lists, TypeInv

LEMMA GetDataType ==
  ASSUME TypeInv, NEW s \in Searches, GetData(s) \/ AddToList(s), UNCHANGED <<opts, used>>
  PROVE  TypeInv' /\ \E p \in {Skip(s), "add"} : Becomes(s, [search[s] EXCEPT !.at = p])
<1>1. search[s] \in SearchRec /\ RecOK(search[s]) /\ search[s].at \in {"data", "add"} /\ Busy(s)
  BY DEF TypeInv, Threads, GetData, AddToList, Busy
<1>2. PICK p \in {Skip(s), "add"} : search' = [search EXCEPT ![s] = [search[s] EXCEPT !.at = p]]
  BY DEF GetData, AddToList, Goto
<1>3. Becomes(s, [search[s] EXCEPT !.at = p])
  BY <1>1, <1>2 DEF Becomes, RecOK, SearchRec, Tries, GaveUp, Skip
<1>4. Threads' /\ Dialog'
  BY <1>1, <1>3, BecomesType DEF TypeInv, GetData, AddToList
<1>5. Window'
  <2>1. \A t \in sessions : search'[t].kind = search[t].kind
    BY <1>3 DEF Becomes, TypeInv, Threads, Window
  <2> QED BY <2>1 DEF TypeInv, Window, GetData, AddToList
<1>6. Lists'
  <2>1. CASE AddToList(s)
    BY <2>1, AddToListType
  <2>2. CASE GetData(s)
    <3>1. CameraAt[search[s].addr] \in Cameras
      BY <1>1, DiscoveryAssumption DEF SearchRec
    <3>2. twice' \in SUBSET Cameras /\ UNCHANGED removed
      BY <2>2, <3>1 DEF GetData, TypeInv, Lists
    <3>3. CASE Existing(s) # {} /\ Refill(s)
      BY <3>2, <3>3, RefillType
    <3>4. CASE UNCHANGED <<cams, cache>>
      BY <3>2, <3>4 DEF TypeInv, Lists
    <3> QED BY <2>2, <3>3, <3>4 DEF GetData
  <2> QED BY <2>1, <2>2
<1> QED BY <1>3, <1>4, <1>5, <1>6 DEF TypeInv

LEMMA SearchType ==
  ASSUME TypeInv, NEW s \in Searches, Search(s)
  PROVE  TypeInv'
BY PlainType, FinishType, TestType, RequestType, AskedType, GetDataType DEF Search, Plain

-----------------------------------------------------------------------------
(* The steps of the window and of the threads that fill in a camera's data.*)

(* Searches that are started take places nobody uses.                      *)
Fresh(s) == s \in Searches /\ ~Busy(s) /\ s > used

LEMMA SameDialog ==
  ASSUME Dialog, UNCHANGED dialog, \A t \in Searches : search[t].at = "ask" => search'[t].at = "ask"
  PROVE  Dialog'
<1>1. active' \in BOOLEAN /\ raced' \in BOOLEAN /\ UNCHANGED <<requests, open, shown, label>>
  BY DEF Dialog, dialog
<1> QED BY <1>1, DialogKept

LEMMA StartedKept ==
  ASSUME TypeInv, UNCHANGED <<opts, dialog>>, search' \in [Searches -> SearchRec],
         used' \in 0..MaxSearches, used <= used',
         \A s \in Searches : search'[s] = search[s]
           \/ (s <= used' /\ ~Busy(s) /\ RecOK(search'[s]) /\ search'[s].at # "ask")
  PROVE  Threads' /\ Dialog'
<1>1. Threads'
  <2>1. \A s \in Searches : RecOK(search'[s])
    BY DEF TypeInv, Threads
  <2>2. ASSUME NEW s \in Searches, Busy(s)' PROVE s <= used'
    <3>1. CASE search'[s] = search[s]
      <4>1. Busy(s)
        BY <2>2, <3>1 DEF Busy
      <4> QED BY <4>1, DiscoveryAssumption DEF TypeInv, Threads, Searches
    <3>2. CASE search'[s] # search[s]
      BY <3>2
    <3> QED BY <3>1, <3>2
  <2> QED BY <2>1, <2>2 DEF TypeInv, Threads
<1>2. Dialog'
  <2>1. \A s \in Searches : search[s].at = "ask" => search'[s] = search[s]
    BY DEF Busy
  <2> QED BY <2>1, SameDialog DEF TypeInv
<1> QED BY <1>1, <1>2

(* What Discover does to the cache of addresses: a filler for each.        *)
LEMMA KnownType ==
  ASSUME TypeInv
  PROVE  /\ Cardinality(cache) \in Nat
         /\ SetToSeq(cache) \in [1..Cardinality(cache) -> cache]
         /\ \A p \in cache : \E i \in 1..Cardinality(cache) : SetToSeq(cache)[i] = p
         /\ \A p \in cache : p[2] \in Addrs /\ p = <<CameraAt[p[2]], p[2]>>
<1>1. cache \in SUBSET Pairs /\ IsFiniteSet(cache)
  BY PairsFinite, FS_Subset DEF TypeInv, Lists
<1>2. \A p \in cache : p[2] \in Addrs /\ p = <<CameraAt[p[2]], p[2]>>
  BY <1>1 DEF Pairs
<1> QED BY <1>1, <1>2, SetToSeqAll

Filler(a) == [Idle EXCEPT !.at = "time", !.kind = "filler", !.addr = a]

LEMMA FillerOK ==
  ASSUME NEW a \in Addrs
  PROVE  RecOK(Filler(a)) /\ Filler(a).at = "time" /\ Filler(a).addr = a
BY IdleOK DEF Filler, RecOK, SearchRec, Tries

LEMMA DiscoverCached ==
  ASSUME TypeInv, Discover, opts.cached
  PROVE  /\ Threads' /\ Dialog' /\ fillers' \in SUBSET Searches
         /\ used' = used + Cardinality(cache) /\ used' \in 0..MaxSearches
         /\ \A s \in Searches : search'[s] = search[s] \/ (Fresh(s) /\ s <= used' /\ search'[s].kind = "filler")
         /\ \A p \in cache : \E s \in Searches : search'[s] = Filler(p[2])
<1> DEFINE n == Cardinality(cache)  known == SetToSeq(cache)
<1>1. /\ n \in Nat /\ known \in [1..n -> cache] /\ DOMAIN known = 1..n
      /\ \A i \in 1..n : known[i][2] \in Addrs
  BY KnownType
<1>2. used \in 0..MaxSearches /\ used + n <= MaxSearches /\ used' = used + n /\ MaxSearches \in Nat
  BY DiscoveryAssumption DEF Discover, TypeInv, Threads
<1>3. fillers' = {used + i : i \in 1..n}
  BY <1>1 DEF Discover
<1>4. \A s \in Searches : s \in fillers' <=> s > used /\ s <= used + n
  BY <1>1, <1>2, <1>3 DEF Searches
<1>5. search' = [s \in Searches |-> IF s \in fillers' THEN Filler(known[s - used][2]) ELSE search[s]]
  BY DEF Discover, Filler
<1>6. \A s \in Searches : s \in fillers' => s - used \in 1..n /\ Fresh(s)
  <2>1. \A s \in Searches : Busy(s) => s <= used
    BY DEF TypeInv, Threads
  <2> QED BY <1>1, <1>2, <1>4, <2>1 DEF Fresh, Searches
<1> HIDE DEF n, known
<1>7. \A s \in Searches : s \in fillers' => RecOK(search'[s]) /\ search'[s].at = "time" /\ search'[s].kind = "filler"
  <2>1. \A a \in Addrs : RecOK(Filler(a)) /\ Filler(a).at = "time" /\ Filler(a).kind = "filler"
    BY FillerOK, IdleOK DEF Filler, RecOK, SearchRec
  <2> QED BY <2>1, <1>1, <1>5, <1>6
<1>8. \A s \in Searches : s \notin fillers' => search'[s] = search[s]
  BY <1>5
<1>9. Threads' /\ Dialog'
  <2>1. search' \in [Searches -> SearchRec]
    BY <1>5, <1>7, <1>8 DEF TypeInv, Threads, RecOK
  <2>2. \A s \in Searches : search'[s] = search[s]
           \/ (s <= used' /\ ~Busy(s) /\ RecOK(search'[s]) /\ search'[s].at # "ask")
    BY <1>2, <1>4, <1>6, <1>7, <1>8 DEF Fresh
  <2>3. used' \in 0..MaxSearches /\ used <= used'
    BY <1>1, <1>2
  <2>4. UNCHANGED <<opts, dialog>>
    BY DEF Discover
  <2> QED BY <2>1, <2>2, <2>3, <2>4, StartedKept
<1>10. fillers' \in SUBSET Searches
  BY <1>1, <1>2, <1>3 DEF Searches
<1>11. ASSUME NEW p \in cache PROVE \E s \in Searches : search'[s] = Filler(p[2])
  <2>1. PICK i \in 1..n : known[i] = p
    BY KnownType DEF n, known
  <2>2. used + i \in Searches /\ used + i \in fillers' /\ (used + i) - used = i
    BY <1>1, <1>2, <1>3 DEF Searches
  <2> QED BY <1>5, <2>1, <2>2
<1>12. used' = used + Cardinality(cache) /\ used' \in 0..MaxSearches
  BY <1>1, <1>2 DEF n
<1>13. \A s \in Searches : search'[s] = search[s] \/ (Fresh(s) /\ s <= used' /\ search'[s].kind = "filler")
  BY <1>2, <1>4, <1>6, <1>7, <1>8
<1> QED BY <1>9, <1>10, <1>11, <1>12, <1>13

LEMMA DiscoverType ==
  ASSUME TypeInv, Discover
  PROVE  TypeInv'
<1> USE DEF TypeInv
<1>1. Lists'
  BY DEF Discover, Lists
<1>2. opts.nets \in Seq(SUBSET Addrs) /\ Len(opts.nets) \in Nat /\ opts.clicks \in Nat /\ UNCHANGED opts
      /\ (opts.nets = <<>> <=> Len(opts.nets) = 0)
  <2>1. opts.nets \in Seq(SUBSET Addrs) /\ opts.clicks \in Nat
    BY OptsType, DiscoveryAssumption DEF Threads
  <2>2. Len(opts.nets) \in Nat /\ (opts.nets = <<>> <=> Len(opts.nets) = 0)
    BY <2>1, EmptySeq
  <2>3. UNCHANGED opts
    BY DEF Discover
  <2> QED BY <2>1, <2>2, <2>3
<1>3. clicks' \in 0..opts.clicks /\ UNCHANGED btn
  <2>1. clicks < opts.clicks /\ clicks' = clicks + 1 /\ UNCHANGED btn
    BY DEF Discover
  <2>2. clicks \in 0..opts.clicks
    BY DEF Window
  <2> QED BY <1>2, <2>1, <2>2
<1>4. fault' \in BOOLEAN
  BY DEF Discover, Window
<1>5. CASE opts.cached
  <2>1. \A t \in sessions : t <= used /\ search'[t] = search[t]
    BY <1>5, DiscoverCached DEF Fresh, Window, Threads
  <2>2. used' \in 0..MaxSearches /\ used <= used' /\ used \in Nat /\ MaxSearches \in Nat
    <3>1. used \in 0..MaxSearches /\ MaxSearches \in Nat
      BY DiscoveryAssumption DEF Threads
    <3> QED BY <1>5, <3>1, DiscoverCached, KnownType
  <2>3. gui = "idle" /\ pending = 0 /\ UNCHANGED <<gui, pending, sessions, timers>>
    <3>1. pending \in 0..Len(opts.nets) /\ (gui = "start" <=> pending > 0)
      BY DEF Window
    <3>2. gui = "idle" /\ UNCHANGED <<gui, pending, sessions, timers>>
      BY <1>5 DEF Discover
    <3> QED BY <1>2, <3>1, <3>2
  <2>4. \A t \in sessions : t <= used'
    BY <2>1, <2>2, DiscoveryAssumption DEF Window, Searches
  <2>5. Window'
    <3>a. pending' = 0 /\ Len(opts'.nets) \in Nat
      BY <1>2, <2>3
    <3>b. pending' \in 0..Len(opts'.nets)
      BY <3>a
    <3>c. \A n \in 0..MaxSearches, m \in {0} : n + m <= MaxSearches
      BY <2>2
    <3>e. used' + pending' <= MaxSearches
      BY <2>2, <3>a, <3>c, Zenon
    <3>1. used' + pending' <= MaxSearches /\ pending' \in 0..Len(opts'.nets)
      BY <3>b, <3>e
    <3>2. fillers' \in SUBSET Searches
      BY <1>5, DiscoverCached
    <3>3. btn' \in BOOLEAN
      BY <1>3 DEF Window
    <3> QED BY <1>2, <1>3, <1>4, <2>1, <2>2, <2>3, <2>4, <3>1, <3>2, <3>3 DEF Window
  <2> QED BY <1>1, <1>5, <2>5, DiscoverCached
<1>6. CASE ~opts.cached
  <2>0. UNCHANGED <<opts, search, used, dialog>>
    BY <1>6 DEF Discover
  <2>1. Threads' /\ Dialog'
    BY <2>0, SameDialog DEF Threads, Busy
  <2>2. /\ used' = used /\ sessions' = {} /\ pending' = Len(opts.nets) /\ UNCHANGED <<fillers, timers>>
        /\ gui' = IF opts.nets = <<>> THEN "idle" ELSE "start"
        /\ used + Len(opts.nets) <= MaxSearches
    BY <1>6 DEF Discover
  <2>3. Window'
    <3>1. btn' \in BOOLEAN
      BY <1>3 DEF Window
    <3>2. gui' \in {"idle", "start", "add"} /\ (gui' = "start" <=> pending' > 0)
          /\ used' + pending' <= MaxSearches /\ pending' \in 0..Len(opts'.nets)
      BY <1>2, <2>2
    <3> QED BY <1>2, <1>3, <1>4, <2>2, <3>1, <3>2 DEF Window
  <2> QED BY <1>1, <2>1, <2>3
<1> QED BY <1>5, <1>6

LEMMA StartSessionType ==
  ASSUME TypeInv, StartSession
  PROVE  /\ TypeInv' /\ Fresh(used + 1) /\ used' = used + 1
         /\ Len(opts.nets) - pending + 1 \in 1..Len(opts.nets)
         /\ search' = [search EXCEPT ![used + 1] =
              [Idle EXCEPT !.at = "broadcast", !.kind = "session",
                           !.todo = opts.nets[Len(opts.nets) - pending + 1]]]
<1> DEFINE k == Len(opts.nets) - pending + 1
           w == [Idle EXCEPT !.at = "broadcast", !.kind = "session", !.todo = opts.nets[k]]
<1>1. /\ used \in 0..MaxSearches /\ MaxSearches \in Nat /\ used + pending <= MaxSearches
      /\ pending \in 0..Len(opts.nets) /\ pending > 0 /\ opts.nets \in Seq(SUBSET Addrs)
      /\ Len(opts.nets) \in Nat
  BY OptsType, DiscoveryAssumption DEF TypeInv, Threads, Window, StartSession
<1>2. Fresh(used + 1) /\ used' = used + 1 /\ used' \in 0..MaxSearches /\ used <= used'
  BY <1>1 DEF Fresh, StartSession, TypeInv, Threads, Searches
<1>3. k \in 1..Len(opts.nets) /\ opts.nets[k] \in SUBSET Addrs
  BY <1>1
<1>4. search' = [search EXCEPT ![used + 1] = w]
  BY DEF StartSession
<1> HIDE DEF k
<1>5. RecOK(w) /\ w.at = "broadcast" /\ w.kind = "session"
  BY <1>3, IdleOK DEF RecOK, SearchRec, Tries
<1>6. Threads' /\ Dialog'
  <2>1. search' \in [Searches -> SearchRec]
    BY <1>2, <1>4, <1>5 DEF TypeInv, Threads, RecOK, Fresh
  <2>2. \A s \in Searches : search'[s] = search[s]
           \/ (s <= used' /\ ~Busy(s) /\ RecOK(search'[s]) /\ search'[s].at # "ask")
    BY <1>1, <1>2, <1>4, <1>5 DEF TypeInv, Threads, Fresh
  <2>3. UNCHANGED <<opts, dialog>>
    BY DEF StartSession
  <2> QED BY <1>2, <2>1, <2>2, <2>3, StartedKept
<1>7. Window'
  <2>1. \A t \in sessions' : t <= used' /\ search'[t].kind = "session"
    <3>1. \A t \in sessions : t <= used /\ t \in Searches /\ search[t].kind = "session"
      BY DEF TypeInv, Window
    <3>2. \A t \in sessions : t <= used' /\ search'[t].kind = "session"
      BY <1>1, <1>2, <1>4, <3>1 DEF TypeInv, Threads, Searches
    <3>3. used + 1 <= used' /\ search'[used + 1] = w
      BY <1>1, <1>2, <1>4 DEF TypeInv, Threads, Fresh
    <3> QED BY <1>5, <3>2, <3>3 DEF StartSession
  <2>2. sessions' \in SUBSET Searches /\ timers' \in SUBSET Searches
    BY <1>2 DEF StartSession, TypeInv, Window, Fresh
  <2>3. /\ gui' \in {"idle", "start", "add"} /\ (gui' = "start" <=> pending' > 0)
        /\ used' + pending' <= MaxSearches /\ pending' \in 0..Len(opts.nets)
    BY <1>1, <1>2 DEF StartSession
  <2>4. btn' \in BOOLEAN /\ UNCHANGED <<opts, clicks, fault, fillers>>
    BY DEF StartSession
  <2> QED BY <2>1, <2>2, <2>3, <2>4 DEF TypeInv, Window
<1>8. Lists'
  BY DEF StartSession, TypeInv, Lists
<1> QED BY <1>2, <1>3, <1>4, <1>6, <1>7, <1>8 DEF TypeInv, k

LEMMA AddCameraType ==
  ASSUME TypeInv, NEW a \in Addrs, AddCamera(a)
  PROVE  /\ TypeInv' /\ Fresh(used + 1) /\ used' = used + 1
         /\ search' = [search EXCEPT ![used + 1] =
                         [Idle EXCEPT !.at = "time", !.kind = "manual", !.addr = a]]
<1> DEFINE w == [Idle EXCEPT !.at = "time", !.kind = "manual", !.addr = a]
<1>1. used \in 0..MaxSearches /\ MaxSearches \in Nat /\ used < MaxSearches /\ used' = used + 1
  BY DiscoveryAssumption DEF TypeInv, Threads, AddCamera
<1>2. Fresh(used + 1) /\ used' \in 0..MaxSearches /\ used <= used'
  BY <1>1 DEF Fresh, TypeInv, Threads, Searches
<1>3. search' = [search EXCEPT ![used + 1] = w]
  BY DEF AddCamera
<1>4. RecOK(w) /\ w.at = "time" /\ w.kind = "manual"
  BY IdleOK DEF RecOK, SearchRec, Tries
<1>5. Threads' /\ Dialog'
  <2>1. search' \in [Searches -> SearchRec]
    BY <1>2, <1>3, <1>4 DEF TypeInv, Threads, RecOK, Fresh
  <2>2. \A s \in Searches : search'[s] = search[s]
           \/ (s <= used' /\ ~Busy(s) /\ RecOK(search'[s]) /\ search'[s].at # "ask")
    BY <1>1, <1>2, <1>3, <1>4 DEF TypeInv, Threads, Fresh
  <2>3. UNCHANGED <<opts, dialog>>
    BY DEF AddCamera
  <2> QED BY <1>2, <2>1, <2>2, <2>3, StartedKept
<1>6. Window'
  <2>1. \A t \in sessions : t <= used' /\ search'[t].kind = "session"
    <3>1. \A t \in sessions : t <= used /\ t \in Searches /\ search[t].kind = "session"
      BY DEF TypeInv, Window
    <3> QED BY <1>1, <1>2, <1>3, <3>1 DEF TypeInv, Threads, Searches
  <2>2. /\ gui = "idle" /\ gui' = "add" /\ clicks < opts.clicks /\ clicks' = clicks + 1
        /\ UNCHANGED <<opts, sessions, fillers, pending, btn, timers, fault>>
    BY DEF AddCamera
  <2>3. /\ opts.clicks \in Nat /\ clicks \in 0..opts.clicks /\ pending \in 0..Len(opts.nets)
        /\ (gui = "start" <=> pending > 0) /\ Len(opts.nets) \in Nat
    BY OptsType, DiscoveryAssumption DEF TypeInv, Threads, Window
  <2>4. pending' = 0 /\ pending' \in 0..Len(opts'.nets) /\ clicks' \in 0..opts'.clicks /\ used' + pending' <= MaxSearches
    BY <1>1, <2>2, <2>3
  <2>5. btn' \in BOOLEAN /\ fault' \in BOOLEAN
    BY <2>2 DEF TypeInv, Window
  <2> QED BY <2>1, <2>2, <2>4, <2>5 DEF TypeInv, Window
<1>7. Lists'
  BY DEF AddCamera, TypeInv, Lists
<1> QED BY <1>1, <1>2, <1>3, <1>5, <1>6, <1>7 DEF TypeInv

LEMMA AddedType ==
  ASSUME TypeInv, NEW s \in Searches, Added(s)
  PROVE  TypeInv'
<1>1. /\ search' = [search EXCEPT ![s] = Idle] /\ search[s].kind = "manual" /\ search[s].at = "end"
      /\ UNCHANGED <<opts, dialog, used>>
  BY DEF Added
<1>2. Threads' /\ Dialog'
  <2>1. search' \in [Searches -> SearchRec]
    BY <1>1, IdleOK DEF TypeInv, Threads, RecOK
  <2>2. \A t \in Searches : RecOK(search'[t]) /\ (Busy(t)' => Busy(t))
        /\ (search'[t].at = "ask" => t # s) /\ (t # s => search'[t] = search[t])
    BY <1>1, IdleOK DEF TypeInv, Threads, Busy
  <2>3. Threads'
    BY <1>1, <2>1, <2>2 DEF TypeInv, Threads
  <2>4. \A t \in Searches : search[t].at = "ask" => search'[t].at = "ask"
    BY <1>1, <2>2
  <2>5. Dialog'
    BY <1>1, <2>4, SameDialog DEF TypeInv
  <2> QED BY <2>3, <2>5
<1>3. Window'
  <2>1. \A t \in sessions : search'[t].kind = "session"
    BY <1>1 DEF TypeInv, Window, Threads
  <2>2. /\ gui = "add" /\ gui' = "idle"
        /\ UNCHANGED <<opts, used, clicks, sessions, fillers, pending, btn, timers, fault>>
    BY DEF Added
  <2>3. btn' \in BOOLEAN /\ fault' \in BOOLEAN
    BY <2>2 DEF TypeInv, Window
  <2> QED BY <2>1, <2>2, <2>3 DEF TypeInv, Window
<1>4. Lists'
  BY DEF Added, TypeInv, Lists
<1> QED BY <1>2, <1>3, <1>4 DEF TypeInv

LEMMA ShowType ==
  ASSUME TypeInv, Show
  PROVE  TypeInv'
<1> DEFINE r == Head(requests)
<1>1. requests # <<>> /\ requests' = Tail(requests) /\ label' = r.addr /\ UNCHANGED <<opts, used, raced, panel>>
  BY DEF Show
<1>2. requests \in Seq(Signal)
  BY DEF TypeInv, Dialog
<1>3. r = requests[1] /\ 1 \in DOMAIN requests
  BY <1>1, <1>2
<1>4. /\ requests' \in Seq(Signal) /\ DOMAIN requests' = 1..(Len(requests) - 1)
      /\ \A i \in 1..(Len(requests) - 1) : requests'[i] = requests[i + 1] /\ i + 1 \in DOMAIN requests
  BY <1>1, <1>2
<1>5. r.addr \in Addrs /\ r.by \in Searches \cup {NoOne} /\ (r.by # NoOne => search[r.by].at = "ask")
  BY <1>3, SignalType DEF TypeInv, Dialog
<1> HIDE DEF r
<1>6. ASSUME \A t \in Searches : search[t].at = "ask" => search'[t].at = "ask",
             shown' \in Searches \cup {NoOne}, shown' # NoOne => open' /\ search'[shown'].at = "ask",
             active' \in BOOLEAN, open' \in BOOLEAN
      PROVE  Dialog'
  <2>1. \A i \in DOMAIN requests' : requests'[i].by # NoOne => search'[requests'[i].by].at = "ask"
    BY <1>4, <1>6, SignalType DEF TypeInv, Dialog
  <2> QED BY <1>1, <1>4, <1>5, <1>6, <2>1 DEF TypeInv, Dialog
<1>7. CASE ~open /\ open' = TRUE /\ shown' = r.by /\ UNCHANGED <<search, active>>
  <2>1. Dialog'
    BY <1>5, <1>6, <1>7 DEF TypeInv, Dialog
  <2>2. Threads' /\ Window' /\ Lists'
    BY <1>1, <1>7 DEF TypeInv, Threads, Window, Lists, panel, Busy
  <2> QED BY <2>1, <2>2 DEF TypeInv
<1>8. CASE /\ open /\ active' = FALSE /\ UNCHANGED <<open, shown>>
           /\ search' = IF r.by = NoOne THEN search ELSE [search EXCEPT ![r.by].typed = "wrong"]
  <2>1. CASE r.by = NoOne
    <3>1. Dialog'
      BY <1>6, <1>8, <2>1 DEF TypeInv, Dialog
    <3>2. Threads' /\ Window' /\ Lists'
      BY <1>1, <1>8, <2>1 DEF TypeInv, Threads, Window, Lists, panel, Busy
    <3> QED BY <3>1, <3>2 DEF TypeInv
  <2>2. CASE r.by # NoOne
    <3> DEFINE s == r.by  w == [search[s] EXCEPT !.typed = "wrong"]
    <3>1. s \in Searches /\ search' = [search EXCEPT ![s] = w] /\ search[s].at = "ask"
          /\ search[s] \in SearchRec /\ RecOK(search[s]) /\ Busy(s)
      BY <1>5, <1>8, <2>2 DEF TypeInv, Threads, Busy
    <3>2. RecOK(w) /\ w.kind = search[s].kind /\ w.at = "ask"
      BY <3>1 DEF RecOK, SearchRec, Tries, GaveUp
    <3>3. \A t \in Searches : search[t].at = "ask" => search'[t].at = "ask"
      BY <3>1, <3>2 DEF TypeInv, Threads
    <3>4. Dialog'
      BY <1>6, <1>8, <3>3 DEF TypeInv, Dialog
    <3> QED BY <1>1, <3>1, <3>2, <3>4, DialogStep
  <2> QED BY <2>1, <2>2
<1> QED BY <1>7, <1>8 DEF Show, r

(* What the user types for the camera that is named.                       *)
Typed(s, how) ==
  IF how = "right" /\ CameraAt[label] # CameraAt[search[s].addr] THEN "wrong" ELSE how

LEMMA AnswerType ==
  ASSUME TypeInv, NEW how \in {"right", "wrong", "cancel"}, Answer(how)
  PROVE  TypeInv'
<1>1. /\ active' = FALSE /\ open' = FALSE /\ shown' = NoOne /\ label' \in Addrs
      /\ UNCHANGED <<opts, used, requests, raced, panel>>
  BY IdleOK DEF Answer, RecOK, SearchRec
<1>2. ASSUME \A t \in Searches : search[t].at = "ask" => search'[t].at = "ask" PROVE Dialog'
  <2>1. \A i \in DOMAIN requests : requests[i].by \in Searches \cup {NoOne}
    BY SignalType DEF TypeInv
  <2> QED BY <1>1, <1>2, <2>1 DEF TypeInv, Dialog
<1>3. CASE shown = NoOne
  <2>1. search' = search
    BY <1>3 DEF Answer
  <2>2. Dialog'
    BY <1>2, <2>1
  <2> QED BY <1>1, <2>1, <2>2 DEF TypeInv, Threads, Window, Lists, panel, Busy
<1>4. CASE shown # NoOne
  <2> DEFINE s == shown  w == [search[s] EXCEPT !.typed = Typed(s, how)]
  <2>1. /\ s \in Searches /\ search' = [search EXCEPT ![s] = w] /\ search[s].at = "ask"
        /\ search[s] \in SearchRec /\ RecOK(search[s]) /\ Busy(s)
    BY <1>4 DEF Answer, TypeInv, Threads, Dialog, Busy, Typed
  <2>2. RecOK(w) /\ w.kind = search[s].kind /\ w.at = "ask"
    BY <2>1 DEF RecOK, SearchRec, Tries, GaveUp, Typed
  <2>3. Dialog'
    BY <1>2, <2>1, <2>2 DEF TypeInv, Threads
  <2> QED BY <1>1, <2>1, <2>2, <2>3, DialogStep
<1> QED BY <1>3, <1>4

LEMMA FilledType ==
  ASSUME TypeInv, NEW i \in DOMAIN cams, Filled(i)
  PROVE  TypeInv' /\ Len(cams') = Len(cams) /\ \A j \in DOMAIN cams : cams'[j].cam = cams[j].cam
<1> DEFINE f == Min({j \in DOMAIN cams : cams[j].uri = cams[i].uri})
           e == [cams[i] EXCEPT !.fills = @ - 1]
           l == [cams EXCEPT ![i] = e]
           g == [l[f] EXCEPT !.filled = TRUE]
<1>1. /\ cams[i] \in Listing /\ cams[i].fills > 0 /\ cams \in Seq(Listing)
      /\ CamOK(cams[i]) /\ i \in 1..Len(cams)
  BY ListedType DEF Filled, TypeInv, Lists
<1>2. f \in 1..Len(cams)
  <2> DEFINE same == {j \in DOMAIN cams : cams[j].uri = cams[i].uri}
  <2>1. same # {} /\ same \in SUBSET Nat /\ same \subseteq 1..Len(cams)
    BY <1>1, ListedType
  <2> HIDE DEF same
  <2>2. Min(same) \in same
    BY <2>1, NatLeast
  <2> QED BY <2>1, <2>2 DEF same
<1>3. e \in Listing /\ CamOK(e) /\ e.cam = cams[i].cam
  <2>1. cams[i].fills - 1 \in Nat
    BY <1>1 DEF Listing
  <2> QED BY <1>1, <2>1 DEF Listing, CamOK
<1>4. cams' = [l EXCEPT ![f] = g]
  BY <1>1, <1>2 DEF Filled
<1> HIDE DEF e, f
<1>5. /\ l \in Seq(Listing) /\ Len(l) = Len(cams)
      /\ \A j \in 1..Len(cams) : l[j] = IF j = i THEN e ELSE cams[j]
  BY <1>1, <1>3, ExceptSeq
<1> HIDE DEF l
<1>6. \A j \in 1..Len(cams) : l[j] \in Listing /\ CamOK(l[j]) /\ l[j].cam = cams[j].cam
  BY <1>1, <1>3, <1>5, ListedType DEF TypeInv, Lists
<1>7. g \in Listing /\ CamOK(g) /\ g.cam = cams[f].cam
  BY <1>2, <1>6 DEF Listing, CamOK
<1> HIDE DEF g
<1>8. /\ cams' \in Seq(Listing) /\ Len(cams') = Len(cams)
      /\ \A j \in 1..Len(cams) : cams'[j] = IF j = f THEN g ELSE l[j]
  BY <1>2, <1>4, <1>5, <1>7, ExceptSeq
<1>9. \A j \in DOMAIN cams' : CamOK(cams'[j])
  BY <1>6, <1>7, <1>8
<1>10. cache' \in SUBSET Pairs
  <2>1. cams[f].addr \in Addrs /\ cams[f].cam = CameraAt[cams[f].addr]
    BY <1>2, ListedType DEF Listing, CamOK, TypeInv, Lists
  <2> QED BY <2>1, ReaddressedType DEF Filled, TypeInv, Lists, f
<1>11. Lists' /\ UNCHANGED <<opts, search, used, dialog, gui, pending, btn, timers, fault, sessions, fillers, clicks>>
  BY <1>8, <1>9, <1>10 DEF Lists, TypeInv, Filled
<1>12. Threads' /\ Dialog' /\ Window'
  BY <1>11, SameDialog DEF TypeInv, Threads, Window, Busy
<1>13. \A j \in DOMAIN cams : cams'[j].cam = cams[j].cam
  BY <1>6, <1>7, <1>8, ListedType
<1> QED BY <1>8, <1>11, <1>12, <1>13 DEF TypeInv

LEMMA RemoveCameraType ==
  ASSUME TypeInv, NEW i \in DOMAIN cams, RemoveCamera(i)
  PROVE  /\ TypeInv' /\ Len(cams') = Len(cams) - 1
         /\ \A j \in 1..(Len(cams) - 1) : cams'[j] = IF j < i THEN cams[j] ELSE cams[j + 1]
<1>1. cams \in Seq(Listing) /\ i \in 1..Len(cams) /\ cams' = RemoveAt(cams, i) /\ Len(cams) \in Nat
  BY ListedType DEF TypeInv, Lists, RemoveCamera
<1>2. /\ cams' \in Seq(Listing) /\ Len(cams') = Len(cams) - 1
      /\ \A j \in 1..(Len(cams) - 1) : cams'[j] = IF j < i THEN cams[j] ELSE cams[j + 1]
  BY <1>1, RemoveAtType
<1>3. \A j \in DOMAIN cams' : CamOK(cams'[j])
  <2>1. DOMAIN cams' = 1..(Len(cams) - 1) /\ DOMAIN cams = 1..Len(cams)
    BY <1>2, ListedType
  <2>2. \A j \in 1..Len(cams) : CamOK(cams[j])
    BY <2>1 DEF TypeInv, Lists
  <2>3. \A j \in 1..(Len(cams) - 1) : j \in 1..Len(cams) /\ j + 1 \in 1..Len(cams)
    BY <1>1
  <2> QED BY <1>2, <2>1, <2>2, <2>3
<1>4. cache' \in SUBSET Pairs
  BY <1>2, <1>3, SavedType DEF RemoveCamera
<1>5. removed' \in SUBSET Cameras
  <2>1. cams[i].cam \in Cameras
    BY ListedType DEF Listing
  <2> QED BY <2>1 DEF RemoveCamera, TypeInv, Lists
<1>6. Lists'
  <2>1. UNCHANGED twice
    BY DEF RemoveCamera
  <2> QED BY <1>2, <1>3, <1>4, <1>5, <2>1 DEF Lists, TypeInv
<1>7. Threads' /\ Dialog'
  BY SameDialog DEF RemoveCamera, TypeInv, Threads, Busy
<1>8. Window'
  <2>1. clicks' \in 0..opts.clicks
    <3>1. opts.clicks \in Nat /\ clicks \in 0..opts.clicks /\ clicks < opts.clicks /\ clicks' = clicks + 1
      BY OptsType, DiscoveryAssumption DEF RemoveCamera, TypeInv, Threads, Window
    <3> QED BY <3>1
  <2>2. fault' \in BOOLEAN /\ btn' \in BOOLEAN
    BY DEF RemoveCamera, TypeInv, Window
  <2> QED BY <2>1, <2>2 DEF RemoveCamera, TypeInv, Window
<1> QED BY <1>2, <1>6, <1>7, <1>8 DEF TypeInv

LEMMA TimeoutType ==
  ASSUME TypeInv, NEW s \in Searches, Timeout(s)
  PROVE  TypeInv'
<1>1. Threads' /\ Dialog' /\ Lists'
  BY SameDialog DEF Timeout, TypeInv, Threads, Lists, Busy
<1>2. Window'
  BY DEF Timeout, TypeInv, Window
<1> QED BY <1>1, <1>2 DEF TypeInv

LEMMA TypeStep == TypeInv /\ [Next]_vars => TypeInv'
<1> SUFFICES ASSUME TypeInv, [Next]_vars PROVE TypeInv'
  OBVIOUS
<1>1. CASE UNCHANGED vars
  <2>1. Dialog'
    BY <1>1, SameDialog DEF vars, TypeInv
  <2>2. Threads' /\ Window' /\ Lists'
    BY <1>1 DEF vars, panel, TypeInv, Threads, Window, Lists, Busy
  <2> QED BY <2>1, <2>2 DEF TypeInv
<1>2. CASE Next
  BY <1>2, DiscoverType, StartSessionType, AddedType, ShowType, AnswerType, FilledType, AddCameraType,
     RemoveCameraType, TimeoutType, SearchType DEF Next, AddedAny, Login, FillAny
<1> QED BY <1>1, <1>2

(* The types of all variables hold: the dialog belongs to a thread that    *)
(* asks, and the offsets of a camera's clock stay within those tried.      *)
THEOREM DiscoveryTypes == Spec => []TypeOK
<1>1. Init => TypeInv
  BY TypeInit
<1>2. TypeInv /\ [Next]_vars => TypeInv'
  BY TypeStep
<1>3. TypeInv => TypeOK
  BY TypeInvOK
<1> QED BY <1>1, <1>2, <1>3, PTL DEF Spec

-----------------------------------------------------------------------------
(* The dialog.  While no two threads stood between the test of the flag    *)
(* and its setting, a thread that is there is the only one and finds the   *)
(* flag clear; so there is one request at a time, under way or on the      *)
(* screen, its thread waits for it, and what is typed is for that thread.  *)
Asks(s) == shown = s \/ (requests # <<>> /\ requests[1].by = s)
OneRequest ==
  /\ open => shown # NoOne /\ label = search[shown].addr
  /\ active <=> open \/ requests # <<>>
  /\ requests = <<>> \/ (Len(requests) = 1 /\ ~open)
  /\ requests # <<>> => requests[1].by # NoOne /\ requests[1].addr = search[requests[1].by].addr
OneSetter == \A s, t \in Searches : search[s].at = "set" => ~active /\ (search[t].at = "set" => s = t)
OwnAnswers ==
  \A s \in Searches : /\ search[s].at = "ask" => search[s].typed # "none" \/ Asks(s)
                      /\ "user" \notin opts.faults => search[s].typed \in {"none", "right"}
Turn == ~raced => OneRequest /\ OneSetter /\ OwnAnswers

(* Whom the dialog concerns, in any state.                                 *)
LEMMA FirstRequest ==
  ASSUME TypeInv, requests # <<>>
  PROVE  /\ requests[1] \in Signal /\ requests[1].by \in Searches \cup {NoOne}
         /\ requests[1].by # NoOne => search[requests[1].by].at = "ask"
         /\ Head(requests) = requests[1]
<1>1. requests \in Seq(Signal)
  BY DEF TypeInv, Dialog
<1>2. 1 \in DOMAIN requests /\ Head(requests) = requests[1]
  BY <1>1
<1> QED BY <1>2, SignalType DEF TypeInv, Dialog

LEMMA TurnKept ==
  ASSUME TypeInv, Turn, UNCHANGED <<opts, dialog>>,
         \A t \in Searches : /\ search[t].at = "ask" => search'[t] = search[t]
                             /\ search'[t].at = "ask" => search'[t] = search[t]
                             /\ search'[t].at = "set" => search[t].at = "set"
                             /\ search'[t].typed \in {search[t].typed, "none"}
  PROVE  Turn'
<1>1. UNCHANGED <<active, requests, open, shown, label, raced>>
  BY DEF dialog
<1> SUFFICES ASSUME ~raced PROVE (OneRequest /\ OneSetter /\ OwnAnswers)'
  BY <1>1 DEF Turn
<1>2. OneRequest /\ OneSetter /\ OwnAnswers
  BY DEF Turn
<1>3. OneRequest'
  <2>1. open => search'[shown] = search[shown]
    BY <1>2 DEF OneRequest, TypeInv, Dialog
  <2>2. requests # <<>> => search'[requests[1].by] = search[requests[1].by]
    BY <1>2, FirstRequest DEF OneRequest
  <2> QED BY <1>1, <1>2, <2>1, <2>2 DEF OneRequest
<1>4. OneSetter'
  BY <1>1, <1>2 DEF OneSetter
<1>5. OwnAnswers'
  BY <1>1, <1>2 DEF OwnAnswers, Asks
<1> QED BY <1>3, <1>4, <1>5

LEMMA TestTurn ==
  ASSUME TypeInv, Turn, NEW s \in Searches, Test(s), UNCHANGED opts
  PROVE  Turn'
<1>1. /\ search' = [search EXCEPT ![s].at = "set"] /\ search[s].at = "login" /\ ~active
      /\ raced' = (raced \/ \E t \in Searches : search[t].at = "set")
      /\ UNCHANGED <<opts, active, requests, open, shown, label>>
  BY DEF Test, Goto
<1>2. search[s] \in SearchRec /\ search \in [Searches -> SearchRec]
  BY DEF TypeInv, Threads
<1>3. search'[s].at = "set" /\ search'[s].typed = search[s].typed
      /\ \A t \in Searches \ {s} : search'[t] = search[t]
  BY <1>1, <1>2 DEF SearchRec
<1> SUFFICES ASSUME ~raced' PROVE (OneRequest /\ OneSetter /\ OwnAnswers)'
  BY DEF Turn
<1>4. OneRequest /\ OneSetter /\ OwnAnswers /\ \A t \in Searches : search[t].at # "set"
  BY <1>1 DEF Turn
<1>5. OneRequest'
  <2>1. ~open /\ requests = <<>>
    BY <1>1, <1>4 DEF OneRequest
  <2> QED BY <1>1, <1>4, <2>1 DEF OneRequest
<1>6. OneSetter'
  BY <1>1, <1>3, <1>4 DEF OneSetter
<1>7. OwnAnswers'
  BY <1>1, <1>3, <1>4 DEF OwnAnswers, Asks
<1> QED BY <1>5, <1>6, <1>7

LEMMA RequestTurn ==
  ASSUME TypeInv, Turn, NEW s \in Searches, Request(s), UNCHANGED opts
  PROVE  Turn'
<1> DEFINE e == [by |-> s, addr |-> search[s].addr]
<1>1. /\ search' = [search EXCEPT ![s].at = "ask"] /\ search[s].at = "set" /\ active' = TRUE
      /\ \/ UNCHANGED requests /\ open' = TRUE /\ shown' = s /\ label' = search[s].addr
         \/ UNCHANGED <<open, shown, label>> /\ requests' = Append(requests, e)
      /\ UNCHANGED <<opts, raced>>
  BY DEF Request, Goto
<1>2. search[s] \in SearchRec /\ search \in [Searches -> SearchRec] /\ s # NoOne
  BY DEF TypeInv, Threads, NoOne, Searches
<1>3. /\ search'[s].at = "ask" /\ search'[s].typed = search[s].typed /\ search'[s].addr = search[s].addr
      /\ \A t \in Searches \ {s} : search'[t] = search[t]
  BY <1>1, <1>2 DEF SearchRec
<1> SUFFICES ASSUME ~raced PROVE (OneRequest /\ OneSetter /\ OwnAnswers)'
  BY <1>1 DEF Turn
<1>4. OneRequest /\ OneSetter /\ OwnAnswers
  BY DEF Turn
<1>5. ~active /\ ~open /\ requests = <<>> /\ \A t \in Searches \ {s} : search[t].at # "set"
  BY <1>1, <1>4 DEF OneRequest, OneSetter
<1>6. OneSetter'
  BY <1>3, <1>5 DEF OneSetter
<1>7. CASE UNCHANGED requests /\ open' = TRUE /\ shown' = s /\ label' = search[s].addr
  <2>1. OneRequest'
    BY <1>1, <1>2, <1>3, <1>5, <1>7 DEF OneRequest
  <2>2. shown = NoOne
    BY <1>5 DEF TypeInv, Dialog
  <2>3. OwnAnswers'
    BY <1>1, <1>2, <1>3, <1>4, <1>5, <1>7, <2>2 DEF OwnAnswers, Asks, NoOne, Searches
  <2> QED BY <1>6, <2>1, <2>3
<1>8. CASE UNCHANGED <<open, shown, label>> /\ requests' = Append(requests, e)
  <2>1. e.by = s /\ e.addr = search[s].addr /\ e \in Signal
    BY <1>2 DEF Signal, SearchRec
  <2> HIDE DEF e
  <2>2. requests' = <<e>> /\ requests' # <<>> /\ Len(requests') = 1 /\ requests'[1] = e
    BY <1>5, <1>8
  <2>3. OneRequest'
    BY <1>1, <1>2, <1>3, <1>5, <1>8, <2>1, <2>2 DEF OneRequest
  <2>4. OwnAnswers'
    BY <1>1, <1>3, <1>4, <1>5, <1>8, <2>1, <2>2 DEF OwnAnswers, Asks
  <2> QED BY <1>6, <2>3, <2>4
<1> QED BY <1>1, <1>7, <1>8

LEMMA AskedTurn ==
  ASSUME TypeInv, Turn, NEW s \in Searches, Asked(s), UNCHANGED opts
  PROVE  Turn'
<1>1. PICK p \in {Skip(s), "caps"} : search' = [search EXCEPT ![s].at = p]
  BY DEF Asked, Goto
<1>2. search[s] \in SearchRec /\ search \in [Searches -> SearchRec] /\ p \notin {"ask", "set"}
  BY DEF TypeInv, Threads, Skip
<1>3. /\ search'[s].at = p /\ search'[s].typed = search[s].typed
      /\ \A t \in Searches \ {s} : search'[t] = search[t]
  BY <1>1, <1>2 DEF SearchRec
<1>4. /\ search[s].at = "ask" /\ ~active /\ requests' = Forgotten(s)
      /\ shown' = IF shown = s THEN NoOne ELSE shown
      /\ UNCHANGED <<opts, active, open, label, raced>>
  BY DEF Asked, Forgotten
<1> SUFFICES ASSUME ~raced PROVE (OneRequest /\ OneSetter /\ OwnAnswers)'
  BY <1>4 DEF Turn
<1>5. OneRequest /\ OneSetter /\ OwnAnswers
  BY DEF Turn
<1>6. ~open /\ requests = <<>>
  BY <1>4, <1>5 DEF OneRequest
<1>7. requests' = <<>>
  <2>1. requests' \in Seq(Signal) /\ Len(requests') = Len(requests)
    BY <1>4, ForgottenType DEF TypeInv
  <2> QED BY <1>6, <2>1, EmptySeq
<1>8. shown = NoOne
  BY <1>6 DEF TypeInv, Dialog
<1>9. s # NoOne /\ \A t \in Searches : t # NoOne
  BY DEF NoOne, Searches
<1>10. OneRequest'
  BY <1>4, <1>5, <1>6, <1>7 DEF OneRequest
<1>11. OneSetter'
  BY <1>2, <1>3, <1>4, <1>5 DEF OneSetter
<1>12. OwnAnswers'
  BY <1>2, <1>3, <1>4, <1>5, <1>6, <1>8, <1>9 DEF OwnAnswers, Asks
<1> QED BY <1>10, <1>11, <1>12

LEMMA ShowTurn ==
  ASSUME TypeInv, Turn, Show
  PROVE  Turn'
<1> DEFINE r == Head(requests)
<1>1. requests # <<>> /\ requests' = Tail(requests) /\ label' = r.addr /\ UNCHANGED <<opts, raced>>
  BY DEF Show
<1> SUFFICES ASSUME ~raced PROVE (OneRequest /\ OneSetter /\ OwnAnswers)'
  BY <1>1 DEF Turn
<1>2. OneRequest /\ OneSetter /\ OwnAnswers
  BY DEF Turn
<1>3. ~open /\ Len(requests) = 1 /\ active /\ r.by # NoOne /\ r.addr = search[r.by].addr /\ r = requests[1]
  BY <1>1, <1>2, FirstRequest DEF OneRequest
<1>4. open' = TRUE /\ shown' = r.by /\ UNCHANGED <<search, active>>
  BY <1>3 DEF Show
<1>5. requests' = <<>>
  <2>1. requests \in Seq(Signal)
    BY DEF TypeInv, Dialog
  <2>2. Tail(requests) \in Seq(Signal) /\ Len(Tail(requests)) = 0
    BY <1>1, <1>3, <2>1
  <2> QED BY <1>1, <2>2, EmptySeq
<1>6. shown = NoOne /\ \A t \in Searches : t # NoOne
  BY <1>3 DEF TypeInv, Dialog, NoOne, Searches
<1> HIDE DEF r
<1>7. OneRequest'
  BY <1>1, <1>3, <1>4, <1>5 DEF OneRequest
<1>8. OneSetter'
  BY <1>2, <1>4 DEF OneSetter
<1>9. OwnAnswers'
  BY <1>1, <1>2, <1>3, <1>4, <1>5, <1>6 DEF OwnAnswers, Asks
<1> QED BY <1>7, <1>8, <1>9

LEMMA AnswerTurn ==
  ASSUME TypeInv, Turn, NEW how \in {"right", "wrong", "cancel"}, Answer(how),
         how # "right" => "user" \in opts.faults
  PROVE  Turn'
<1>1. /\ open /\ open' = FALSE /\ active' = FALSE /\ shown' = NoOne
      /\ UNCHANGED <<opts, requests, raced>>
  BY DEF Answer
<1> SUFFICES ASSUME ~raced PROVE (OneRequest /\ OneSetter /\ OwnAnswers)'
  BY <1>1 DEF Turn
<1>2. OneRequest /\ OneSetter /\ OwnAnswers
  BY DEF Turn
<1>3. shown # NoOne /\ label = search[shown].addr /\ requests = <<>> /\ active /\ shown \in Searches
  BY <1>1, <1>2 DEF OneRequest, TypeInv, Dialog
<1>4. search' = [search EXCEPT ![shown].typed = how]
  BY <1>3 DEF Answer
<1>5. search[shown] \in SearchRec /\ search \in [Searches -> SearchRec]
  BY <1>3 DEF TypeInv, Threads
<1>6. /\ search'[shown].typed = how /\ search'[shown].at = search[shown].at
      /\ \A t \in Searches \ {shown} : search'[t] = search[t]
  BY <1>3, <1>4, <1>5 DEF SearchRec
<1>7. OneRequest'
  BY <1>1, <1>3 DEF OneRequest
<1>8. OneSetter'
  BY <1>2, <1>3, <1>6 DEF OneSetter
<1>9. OwnAnswers'
  <2>1. \A t \in Searches : t # NoOne
    BY DEF NoOne, Searches
  <2>2. ASSUME NEW t \in Searches PROVE search'[t].at = "ask" => search'[t].typed # "none" \/ Asks(t)'
    BY <1>2, <1>3, <1>6 DEF OwnAnswers, Asks
  <2>3. ASSUME NEW t \in Searches, "user" \notin opts.faults PROVE search'[t].typed \in {"none", "right"}
    BY <1>2, <1>6, <2>3 DEF OwnAnswers
  <2> QED BY <1>1, <2>2, <2>3 DEF OwnAnswers
<1> QED BY <1>7, <1>8, <1>9

LEMMA TurnStep == TypeInv /\ Turn /\ [Next]_vars => Turn'
<1> SUFFICES ASSUME TypeInv, Turn, [Next]_vars PROVE Turn'
  OBVIOUS
<1>0. search \in [Searches -> SearchRec] /\ Idle.at = "free" /\ Idle.typed = "none"
  BY IdleOK DEF TypeInv, Threads
<1>1. CASE UNCHANGED vars
  <2>1. \A t \in Searches : search[t].typed \in {search[t].typed, "none"}
    OBVIOUS
  <2> QED BY <1>1, <2>1, TurnKept DEF vars
<1>2. ASSUME UNCHANGED <<opts, dialog>>,
             \A t \in Searches : search'[t] = search[t]
               \/ (search[t].at \in {"free", "end"} /\ search'[t].at \notin {"ask", "set"} /\ search'[t].typed = "none")
      PROVE  Turn'
  BY <1>2, TurnKept
<1>3. CASE Discover
  <2>1. UNCHANGED <<opts, dialog>>
    BY <1>3 DEF Discover
  <2>2. CASE opts.cached
    <3>1. \A t \in Searches : t \in fillers' => Fresh(t) \/ search'[t] = search[t]
      BY <1>3, <2>2, DiscoverCached
    <3>2. search' = [s \in Searches |-> IF s \in fillers' THEN [Idle EXCEPT !.at = "time", !.kind = "filler",
                       !.addr = SetToSeq(cache)[s - used][2]] ELSE search[s]]
      BY <1>3, <2>2 DEF Discover
    <3>3. \A t \in Searches : t \in fillers' => search'[t].at = "time" /\ search'[t].typed = "none"
      BY <3>2 DEF Idle
    <3>4. \A t \in Searches : t \notin fillers' => search'[t] = search[t]
      BY <3>2
    <3> QED BY <1>2, <2>1, <3>1, <3>3, <3>4 DEF Fresh, Busy
  <2>3. CASE ~opts.cached
    <3>1. search' = search
      BY <1>3, <2>3 DEF Discover
    <3> QED BY <1>2, <2>1, <3>1
  <2> QED BY <2>2, <2>3
<1>4. CASE StartSession
  <2>1. UNCHANGED <<opts, dialog>> /\ Fresh(used + 1)
    BY <1>4, StartSessionType DEF StartSession
  <2>2. \A t \in Searches : t # used + 1 => search'[t] = search[t]
    BY <1>0, <1>4, StartSessionType
  <2>3. search'[used + 1].at = "broadcast" /\ search'[used + 1].typed = "none"
    BY <1>0, <1>4, <2>1, StartSessionType DEF Idle, Fresh
  <2> QED BY <1>2, <2>1, <2>2, <2>3 DEF Fresh, Busy
<1>5. ASSUME NEW a \in Addrs, AddCamera(a) PROVE Turn'
  <2>1. UNCHANGED <<opts, dialog>> /\ Fresh(used + 1)
    BY <1>5, AddCameraType DEF AddCamera
  <2>2. \A t \in Searches : t # used + 1 => search'[t] = search[t]
    BY <1>0, <1>5, AddCameraType
  <2>3. search'[used + 1].at = "time" /\ search'[used + 1].typed = "none"
    <3>1. search'[used + 1] = [Idle EXCEPT !.at = "time", !.kind = "manual", !.addr = a]
      BY <1>0, <1>5, <2>1, AddCameraType DEF Fresh
    <3> QED BY <3>1 DEF Idle
  <2> QED BY <1>2, <2>1, <2>2, <2>3 DEF Fresh, Busy
<1>6. ASSUME NEW s \in Searches, Added(s) PROVE Turn'
  <2>1. UNCHANGED <<opts, dialog>> /\ search' = [search EXCEPT ![s] = Idle] /\ search[s].at = "end"
    BY <1>6 DEF Added
  <2> QED BY <1>0, <1>2, <2>1
<1>7. ASSUME NEW i \in DOMAIN cams, Filled(i) \/ RemoveCamera(i) PROVE Turn'
  <2>1. UNCHANGED <<opts, dialog, search>>
    BY <1>7 DEF Filled, RemoveCamera
  <2> QED BY <1>2, <2>1
<1>8. ASSUME NEW s \in Searches, Timeout(s) PROVE Turn'
  <2>1. UNCHANGED <<opts, dialog, search>>
    BY <1>8 DEF Timeout
  <2> QED BY <1>2, <2>1
<1>9. ASSUME NEW s \in Searches, Search(s) PROVE Turn'
  <2>0. UNCHANGED <<opts, used>>
    BY <1>9 DEF Search
  <2>1. ASSUME NEW w, Becomes(s, w), search[s].at \notin {"ask", "set"}, UNCHANGED dialog PROVE Turn'
    BY <1>0, <2>0, <2>1, TurnKept DEF Becomes
  <2>2. CASE Plain(s)
    BY <2>1, <2>2, PlainStep
  <2>3. CASE Finish(s)
    <3>1. search[s] \in SearchRec /\ RecOK(search[s]) /\ search[s].at = "next" /\ UNCHANGED dialog
          /\ search' = [search EXCEPT ![s] = [search[s] EXCEPT !.at = "end"]]
      BY <2>3 DEF TypeInv, Threads, Finish, Goto
    <3>2. Becomes(s, [search[s] EXCEPT !.at = "end"])
      BY <3>1 DEF Becomes, RecOK, SearchRec, Tries, GaveUp
    <3> QED BY <2>1, <3>1, <3>2
  <2>4. CASE GetData(s) \/ AddToList(s)
    <3>1. search[s].at \in {"data", "add"} /\ UNCHANGED dialog
      BY <2>4 DEF GetData, AddToList
    <3> QED BY <2>0, <2>1, <2>4, <3>1, GetDataType
  <2> QED BY <1>9, <2>0, <2>2, <2>3, <2>4, TestTurn, RequestTurn, AskedTurn DEF Search, Plain
<1>10. CASE Login
  BY <1>10, AnswerTurn DEF Login
<1> QED BY <1>1, <1>3, <1>4, <1>5, <1>6, <1>7, <1>8, <1>9, <1>10, ShowTurn DEF Next, AddedAny, FillAny

LEMMA TurnInit == Init => Turn
<1> SUFFICES ASSUME Init PROVE Turn
  OBVIOUS
<1>1. \A s \in Searches : search[s].at = "free" /\ search[s].typed = "none"
  BY IdleOK DEF Init
<1>2. ~open /\ ~active /\ requests = <<>>
  BY DEF Init
<1> QED BY <1>1, <1>2 DEF Turn, OneRequest, OneSetter, OwnAnswers

(* Unless two threads stood between the test and the setting of            *)
(* dlgLogin.active (getCredential, camerapanel.py), the flag is set        *)
(* exactly while somebody asks, one at a time, and the dialog names the    *)
(* camera of the thread that gets the answer.                              *)
THEOREM OneLoginAlways == Spec => []OneLogin
<1>1. Init => TypeInv /\ Turn
  BY TypeInit, TurnInit
<1>2. TypeInv /\ Turn /\ [Next]_vars => TypeInv' /\ Turn'
  BY TypeStep, TurnStep
<1>3. Turn => OneLogin
  BY DEF Turn, OneRequest, OneLogin
<1> QED BY <1>1, <1>2, <1>3, PTL DEF Spec

-----------------------------------------------------------------------------
(* A camera is on the list once.  A thread between the look at the list    *)
(* and the addition (GetData, AddToList) is the only one there for its     *)
(* camera and the camera is not listed, except for those in twice.         *)
CameraOf(s) == CameraAt[search[s].addr]
Single ==
  /\ \A i, j \in DOMAIN cams : cams[i].cam = cams[j].cam => i = j \/ cams[i].cam \in twice
  /\ \A s \in Searches : search[s].at = "add" =>
       CameraOf(s) \in twice \/ \A i \in DOMAIN cams : cams[i].cam # CameraOf(s)
  /\ \A s, t \in Searches :
       search[s].at = "add" /\ search[t].at = "add" /\ CameraOf(s) = CameraOf(t) =>
         s = t \/ CameraOf(s) \in twice

LEMMA SingleKept ==
  ASSUME Single, UNCHANGED twice,
         \A s \in Searches : search'[s].at = "add" => search[s].at = "add" /\ search'[s].addr = search[s].addr,
         DOMAIN cams' = DOMAIN cams, \A i \in DOMAIN cams : cams'[i].cam = cams[i].cam
  PROVE  Single'
BY DEF Single, CameraOf

(* What a step of a thread that is not at the list leaves as it is.        *)
LEMMA SingleMoved ==
  ASSUME TypeInv, Single, NEW s \in Searches, NEW w, search' = [search EXCEPT ![s] = w],
         w.at # "add", UNCHANGED <<twice, cams>>
  PROVE  Single'
<1>1. search'[s] = w /\ \A t \in Searches \ {s} : search'[t] = search[t]
  BY DEF TypeInv, Threads
<1> QED BY <1>1, SingleKept

LEMMA GetDataSingle ==
  ASSUME TypeInv, Single, NEW s \in Searches, GetData(s), UNCHANGED <<opts, used>>
  PROVE  Single'
<1>1. search[s] \in SearchRec /\ search[s].at = "data"
  BY DEF GetData, TypeInv, Threads
<1>2. CASE Existing(s) # {} /\ Refill(s) /\ Goto(s, Skip(s)) /\ UNCHANGED twice
  <2>1. \A t \in Searches : search'[t].at = "add" => search[t].at = "add" /\ search'[t].addr = search[t].addr
    BY <1>1, <1>2 DEF Goto, Skip, TypeInv, Threads, SearchRec
  <2>2. UNCHANGED removed
    BY DEF GetData
  <2>3. DOMAIN cams' = DOMAIN cams /\ \A i \in DOMAIN cams : cams'[i].cam = cams[i].cam
    BY <1>2, <2>2, RefillType DEF TypeInv, Lists
  <2> QED BY <1>2, <2>1, <2>3, SingleKept
<1>3. CASE /\ Existing(s) = {} /\ Goto(s, "add") /\ UNCHANGED <<cams, cache>>
           /\ twice' = IF Adds(CameraOf(s)) THEN twice \cup {CameraOf(s)} ELSE twice
  <2>1. search'[s].at = "add" /\ search'[s].addr = search[s].addr
        /\ \A t \in Searches \ {s} : search'[t] = search[t]
    BY <1>1, <1>3 DEF Goto, TypeInv, Threads, SearchRec
  <2>2. \A t \in Searches : CameraOf(t)' = CameraOf(t)
    BY <2>1 DEF CameraOf
  <2>3. \A i \in DOMAIN cams : cams[i].cam # CameraOf(s)
    BY <1>3 DEF Existing, Listed, CameraOf
  <2>4. \A t \in Searches \ {s} : search[t].at = "add" /\ CameraOf(t) = CameraOf(s) => CameraOf(s) \in twice'
    BY <1>3 DEF Adds, CameraOf
  <2>5. twice \subseteq twice'
    BY <1>3
  <2> QED BY <1>3, <2>1, <2>2, <2>3, <2>4, <2>5 DEF Single
<1> QED BY <1>2, <1>3 DEF GetData, CameraOf

LEMMA AddToListSingle ==
  ASSUME TypeInv, Single, NEW s \in Searches, AddToList(s), UNCHANGED <<opts, used>>
  PROVE  Single'
<1> DEFINE c == CameraOf(s)
           e == [cam |-> c, addr |-> search[s].addr, uri |-> search[s].addr,
                 filled |-> FALSE, fills |-> 1]
<1>1. search[s] \in SearchRec /\ search[s].at = "add" /\ UNCHANGED twice
  BY DEF AddToList, TypeInv, Threads
<1>2. search'[s].at # "add" /\ \A t \in Searches \ {s} : search'[t] = search[t]
  BY <1>1 DEF AddToList, Goto, Skip, TypeInv, Threads, SearchRec
<1>3. cams \in Seq(Listing) /\ cams' = Append(cams, e) /\ DOMAIN cams = 1..Len(cams) /\ Len(cams) \in Nat
  BY ListedType DEF TypeInv, Lists, AddToList, CameraOf
<1>4. e \in Listing /\ e.cam = c
  BY <1>1, DiscoveryAssumption DEF Listing, SearchRec, CameraOf
<1> HIDE DEF e
<1>5. /\ DOMAIN cams' = 1..(Len(cams) + 1) /\ cams'[Len(cams) + 1] = e
      /\ \A i \in 1..Len(cams) : cams'[i] = cams[i]
  BY <1>3, <1>4, AppendProperties
<1>6. c \in twice \/ \A i \in 1..Len(cams) : cams[i].cam # c
  BY <1>1, <1>3 DEF Single
<1>7. \A i \in 1..(Len(cams) + 1) : i \in 1..Len(cams) \/ i = Len(cams) + 1
  BY <1>3
<1>8. \A i, j \in 1..Len(cams) : cams[i].cam = cams[j].cam => i = j \/ cams[i].cam \in twice
  BY <1>3 DEF Single
<1>9. \A t \in Searches \ {s} : search[t].at = "add" /\ CameraOf(t) = c => c \in twice
  BY <1>1 DEF Single
<1> HIDE DEF c
<1>10. \A i, j \in DOMAIN cams' : cams'[i].cam = cams'[j].cam => i = j \/ cams'[i].cam \in twice
  BY <1>4, <1>5, <1>6, <1>7, <1>8
<1>11. ASSUME NEW t \in Searches, search'[t].at = "add"
       PROVE  CameraOf(t)' \in twice \/ \A i \in DOMAIN cams' : cams'[i].cam # CameraOf(t)'
  <2>1. t # s /\ search[t].at = "add" /\ CameraOf(t)' = CameraOf(t)
    BY <1>2, <1>11 DEF CameraOf
  <2>2. CASE CameraOf(t) = c
    BY <1>9, <2>1, <2>2
  <2>3. CASE CameraOf(t) # c
    <3>1. CameraOf(t) \in twice \/ \A i \in 1..Len(cams) : cams[i].cam # CameraOf(t)
      BY <1>3, <2>1 DEF Single
    <3> QED BY <1>4, <1>5, <1>7, <2>1, <2>3, <3>1
  <2> QED BY <2>2, <2>3
<1>12. \A t, u \in Searches :
         search'[t].at = "add" /\ search'[u].at = "add" /\ CameraOf(t)' = CameraOf(u)' =>
           t = u \/ CameraOf(t)' \in twice
  BY <1>2 DEF Single, CameraOf
<1> QED BY <1>1, <1>10, <1>11, <1>12 DEF Single

(* A list keeps its cameras apart when one is taken off.                   *)
LEMMA RemoveSingle ==
  ASSUME TypeInv, Single, NEW i \in DOMAIN cams, RemoveCamera(i)
  PROVE  Single'
<1>1. /\ TypeInv' /\ Len(cams') = Len(cams) - 1 /\ Len(cams) \in Nat /\ i \in 1..Len(cams)
      /\ \A j \in 1..(Len(cams) - 1) : cams'[j] = IF j < i THEN cams[j] ELSE cams[j + 1]
      /\ DOMAIN cams' = 1..Len(cams') /\ DOMAIN cams = 1..Len(cams)
  <2>1. TypeInv'
    BY RemoveCameraType
  <2>2. DOMAIN cams' = 1..Len(cams')
    BY <2>1 DEF TypeInv, Lists
  <2> QED BY <2>1, <2>2, RemoveCameraType, ListedType
<1>2. UNCHANGED <<twice, search>>
  BY DEF RemoveCamera
<1>3. \A j \in 1..(Len(cams) - 1) : \E x \in 1..Len(cams) :
        cams'[j] = cams[x] /\ x = IF j < i THEN j ELSE j + 1
  BY <1>1
<1>4. ASSUME NEW j \in DOMAIN cams', NEW k \in DOMAIN cams', cams'[j].cam = cams'[k].cam
      PROVE  j = k \/ cams'[j].cam \in twice
  <2>1. j \in 1..(Len(cams) - 1) /\ k \in 1..(Len(cams) - 1)
    BY <1>1, <1>4
  <2>2. PICK x \in 1..Len(cams) : cams'[j] = cams[x] /\ x = IF j < i THEN j ELSE j + 1
    BY <1>3, <2>1
  <2>3. PICK y \in 1..Len(cams) : cams'[k] = cams[y] /\ y = IF k < i THEN k ELSE k + 1
    BY <1>3, <2>1
  <2>4. x = y \/ cams'[j].cam \in twice
    BY <1>1, <1>4, <2>2, <2>3 DEF Single
  <2>5. x = y => j = k
    BY <1>1, <2>1, <2>2, <2>3
  <2> QED BY <2>4, <2>5
<1>5. ASSUME NEW s \in Searches, search[s].at = "add"
      PROVE  CameraOf(s) \in twice \/ \A j \in DOMAIN cams' : cams'[j].cam # CameraOf(s)
  <2>1. CameraOf(s) \in twice \/ \A x \in 1..Len(cams) : cams[x].cam # CameraOf(s)
    BY <1>1, <1>5 DEF Single
  <2> QED BY <1>1, <1>3, <2>1
<1> QED BY <1>2, <1>4, <1>5 DEF Single, CameraOf

(* Searches that are started are not at the list.                          *)
LEMMA DiscoverStarts ==
  ASSUME TypeInv, Discover
  PROVE  \A s \in Searches : search'[s] = search[s] \/ search'[s].at # "add"
<1>1. CASE opts.cached
  <2>1. search' = [s \in Searches |-> IF s \in fillers' THEN [Idle EXCEPT !.at = "time", !.kind = "filler",
                     !.addr = SetToSeq(cache)[s - used][2]] ELSE search[s]]
    BY <1>1 DEF Discover
  <2> QED BY <2>1 DEF Idle
<1>2. CASE ~opts.cached
  BY <1>2 DEF Discover
<1> QED BY <1>1, <1>2

LEMMA SingleStep == TypeInv /\ Single /\ [Next]_vars => Single'
<1> SUFFICES ASSUME TypeInv, Single, [Next]_vars PROVE Single'
  OBVIOUS
<1>0. search \in [Searches -> SearchRec] /\ \A s \in Searches : search[s] \in SearchRec
  BY DEF TypeInv, Threads
<1>1. CASE UNCHANGED vars
  BY <1>1, SingleKept DEF vars, panel
<1>2. CASE Discover
  BY <1>2, DiscoverStarts, SingleKept DEF Discover
<1>3. CASE StartSession
  <2>1. UNCHANGED <<twice, cams>>
    BY <1>3 DEF StartSession
  <2>2. PICK w : /\ search' = [search EXCEPT ![used + 1] = w]
                 /\ w = [Idle EXCEPT !.at = "broadcast", !.kind = "session",
                                     !.todo = opts.nets[Len(opts.nets) - pending + 1]]
    BY <1>3, StartSessionType
  <2>3. w.at # "add" /\ used + 1 \in Searches
    BY <1>3, <2>2, StartSessionType DEF Idle, Fresh
  <2> QED BY <2>1, <2>2, <2>3, SingleMoved
<1>4. ASSUME NEW s \in Searches, Added(s) PROVE Single'
  <2>1. UNCHANGED <<twice, cams>> /\ search' = [search EXCEPT ![s] = Idle]
    BY <1>4 DEF Added
  <2> QED BY <2>1, IdleOK, SingleMoved
<1>5. ASSUME NEW i \in DOMAIN cams, Filled(i) PROVE Single'
  <2>1. UNCHANGED <<twice, search>>
    BY <1>5 DEF Filled
  <2>2. DOMAIN cams' = DOMAIN cams
    BY <1>5, FilledType DEF TypeInv, Lists
  <2> QED BY <1>5, <2>1, <2>2, FilledType, SingleKept
<1>6. ASSUME NEW a \in Addrs, AddCamera(a) PROVE Single'
  <2>1. UNCHANGED <<twice, cams>>
    BY <1>6 DEF AddCamera
  <2>2. PICK w : /\ search' = [search EXCEPT ![used + 1] = w]
                 /\ w = [Idle EXCEPT !.at = "time", !.kind = "manual", !.addr = a]
    BY <1>6, AddCameraType
  <2>3. w.at # "add" /\ used + 1 \in Searches
    BY <1>6, <2>2, AddCameraType DEF Idle, Fresh
  <2> QED BY <2>1, <2>2, <2>3, SingleMoved
<1>7. ASSUME NEW s \in Searches, Timeout(s) PROVE Single'
  BY <1>7, SingleKept DEF Timeout
<1>8. ASSUME NEW s \in Searches, NEW w, search' = [search EXCEPT ![s] = w], w.at = search[s].at,
             w.addr = search[s].addr, UNCHANGED panel
      PROVE  Single'
  <2>1. \A t \in Searches : search'[t].at = "add" => search[t].at = "add" /\ search'[t].addr = search[t].addr
    BY <1>0, <1>8
  <2> QED BY <1>8, <2>1, SingleKept DEF panel
<1>9. CASE Login
  <2>1. PICK how \in {"right", "wrong", "cancel"} : Answer(how)
    BY <1>9 DEF Login
  <2>2. CASE shown = NoOne
    BY <2>1, <2>2, SingleKept DEF Answer, panel
  <2>3. CASE shown # NoOne
    <3>1. search' = [search EXCEPT ![shown] = [search[shown] EXCEPT !.typed = Typed(shown, how)]]
          /\ UNCHANGED panel /\ shown \in Searches
      BY <2>1, <2>3 DEF Answer, Typed, TypeInv, Dialog
    <3> QED BY <1>0, <1>8, <3>1 DEF SearchRec
  <2> QED BY <2>2, <2>3
<1>10. CASE Show
  <2>1. UNCHANGED panel /\ requests # <<>> /\ Head(requests) = requests[1]
        /\ requests[1].by \in Searches \cup {NoOne}
    BY <1>10, FirstRequest DEF Show
  <2>2. CASE search' = search
    BY <2>1, <2>2, SingleKept DEF panel
  <2>3. CASE requests[1].by # NoOne /\ search' = [search EXCEPT ![requests[1].by].typed = "wrong"]
    <3>1. PICK s \in Searches : search' = [search EXCEPT ![s] = [search[s] EXCEPT !.typed = "wrong"]]
      BY <2>1, <2>3
    <3> QED BY <1>0, <1>8, <2>1, <3>1 DEF SearchRec
  <2> QED BY <1>10, <2>1, <2>2, <2>3 DEF Show
<1>11. ASSUME NEW s \in Searches, Search(s) PROVE Single'
  <2>0. UNCHANGED <<opts, used>> /\ search[s] \in SearchRec
    BY <1>11, <1>0 DEF Search
  <2>1. CASE Plain(s)
    <3>1. PICK w : Becomes(s, w) /\ w.at # "add"
      BY <2>1, PlainStep
    <3> QED BY <2>1, <3>1, PlainStep, SingleMoved DEF Becomes, panel
  <2>2. CASE Finish(s) \/ Test(s) \/ Request(s) \/ Asked(s)
    <3>1. PICK p \in {"end", "set", "ask", Skip(s), "caps"} : search' = [search EXCEPT ![s] = [search[s] EXCEPT !.at = p]]
      BY <2>2 DEF Finish, Test, Request, Asked, Goto
    <3>2. p # "add"
      BY DEF Skip
    <3>3. UNCHANGED <<twice, cams>>
      BY <2>2 DEF Finish, Test, Request, Asked, panel
    <3>4. [search[s] EXCEPT !.at = p].at = p
      BY <2>0 DEF SearchRec
    <3> QED BY <3>1, <3>2, <3>3, <3>4, SingleMoved
  <2> QED BY <1>11, <2>0, <2>1, <2>2, GetDataSingle, AddToListSingle DEF Search, Plain
<1> QED BY <1>1, <1>2, <1>3, <1>4, <1>5, <1>6, <1>7, <1>9, <1>10, <1>11, RemoveSingle
        DEF Next, AddedAny, FillAny

LEMMA SingleInit == Init => Single
<1>1. Init => \A s \in Searches : search[s].at # "add"
  BY IdleOK DEF Init
<1> QED BY <1>1 DEF Init, Single

(* However many threads find a camera, under whichever addresses and at    *)
(* whatever moments, it is on the list once, unless two of them stood      *)
(* between the look at the list and the addition of that same camera       *)
(* (getData, camerapanel.py).                                              *)
THEOREM OnePerCameraAlways == Spec => []OnePerCamera
<1>1. Single => OnePerCamera
  BY DEF Single, OnePerCamera
<1> QED BY <1>1, SingleInit, TypeInit, TypeStep, SingleStep, PTL DEF Spec

-----------------------------------------------------------------------------
(* The data of a stream is filled in at the first camera of the list that  *)
(* has it (Filled): that one is filled or a thread is about to do it, as   *)
(* long as the user takes no camera off the list.                          *)
FirstOf(i) == \A j \in DOMAIN cams : cams[j].uri = cams[i].uri => i <= j
Led ==
  "user" \notin opts.faults =>
    \A i \in DOMAIN cams : FirstOf(i) => cams[i].filled \/ cams[i].fills > 0

LEMMA LedKept ==
  ASSUME Led, UNCHANGED opts, DOMAIN cams' = DOMAIN cams,
         \A i \in DOMAIN cams : /\ cams'[i].uri = cams[i].uri
                                /\ FirstOf(i) /\ (cams[i].filled \/ cams[i].fills > 0)
                                     => cams'[i].filled \/ cams'[i].fills > 0
  PROVE  Led'
BY DEF Led, FirstOf

LEMMA RefillLed ==
  ASSUME TypeInv, Led, NEW s \in Searches, Existing(s) # {}, Refill(s), UNCHANGED opts
  PROVE  Led'
<1> DEFINE k == Min(Existing(s))
<1>1. Existing(s) \in SUBSET Nat /\ cams \in Seq(Listing)
  BY ListedType DEF Existing, TypeInv, Lists
<1>2. k \in DOMAIN cams
  BY <1>1, NatLeast DEF Existing, Listed
<1>3. cams' = [cams EXCEPT ![k] = [cams[k] EXCEPT !.addr = search[s].addr, !.fills = @ + 1]]
  BY <1>2 DEF Refill
<1> HIDE DEF k
<1>4. \A i \in DOMAIN cams : cams[i] \in Listing
  BY ListedType
<1>5. DOMAIN cams' = DOMAIN cams /\ \A i \in DOMAIN cams \ {k} : cams'[i] = cams[i]
  BY <1>1, <1>2, <1>3
<1>6. cams'[k].uri = cams[k].uri /\ cams'[k].fills = cams[k].fills + 1 /\ cams[k].fills \in Nat
  BY <1>1, <1>2, <1>3, <1>4 DEF Listing
<1>7. cams'[k].fills > 0
  BY <1>6
<1> QED BY <1>5, <1>6, <1>7, LedKept

LEMMA AddToListLed ==
  ASSUME TypeInv, Led, NEW s \in Searches, AddToList(s), UNCHANGED opts
  PROVE  Led'
<1> DEFINE e == [cam |-> CameraAt[search[s].addr], addr |-> search[s].addr, uri |-> search[s].addr,
                 filled |-> FALSE, fills |-> 1]
<1>1. search[s].addr \in Addrs /\ cams \in Seq(Listing) /\ cams' = Append(cams, e)
  BY DEF AddToList, TypeInv, Threads, SearchRec, Lists
<1>2. e \in Listing /\ e.fills > 0
  BY <1>1, DiscoveryAssumption DEF Listing
<1> HIDE DEF e
<1>3. /\ DOMAIN cams' = 1..(Len(cams) + 1) /\ cams'[Len(cams) + 1] = e /\ DOMAIN cams = 1..Len(cams)
      /\ \A i \in 1..Len(cams) : cams'[i] = cams[i]
  BY <1>1, <1>2, AppendProperties, ListedType
<1>4. Len(cams) \in Nat /\ \A i \in 1..(Len(cams) + 1) : i \in 1..Len(cams) \/ i = Len(cams) + 1
  BY ListedType
<1>5. \A i \in 1..Len(cams) : i \in 1..(Len(cams) + 1)
  BY <1>4
<1>6. ASSUME NEW i \in 1..Len(cams), FirstOf(i)' PROVE FirstOf(i)
  BY <1>3, <1>5, <1>6 DEF FirstOf
<1> QED BY <1>2, <1>3, <1>4, <1>6 DEF Led

LEMMA FilledLed ==
  ASSUME TypeInv, Led, NEW i \in DOMAIN cams, Filled(i)
  PROVE  Led'
<1> DEFINE same == {j \in DOMAIN cams : cams[j].uri = cams[i].uri}
           f == Min(same)
           l == [cams EXCEPT ![i] = [cams[i] EXCEPT !.fills = @ - 1]]
<1>1. cams \in Seq(Listing) /\ DOMAIN cams = 1..Len(cams) /\ Len(cams) \in Nat
      /\ \A j \in DOMAIN cams : cams[j] \in Listing
  BY ListedType DEF TypeInv, Lists
<1>2. f \in same /\ \A j \in same : f <= j
  <2>1. same # {} /\ same \in SUBSET Nat
    BY <1>1
  <2> HIDE DEF same
  <2> QED BY <2>1, NatLeast
<1>3. f \in DOMAIN cams /\ cams[f].uri = cams[i].uri /\ \A j \in DOMAIN cams : cams[j].uri = cams[i].uri => f <= j
  BY <1>2
<1>4. cams' = [l EXCEPT ![f] = [l[f] EXCEPT !.filled = TRUE]] /\ UNCHANGED opts
  BY <1>3 DEF Filled
<1> HIDE DEF f, same
<1>5. /\ DOMAIN l = DOMAIN cams /\ \A j \in DOMAIN cams \ {i} : l[j] = cams[j]
      /\ l[i].uri = cams[i].uri /\ l[i] \in [cam : Cameras, addr : Addrs, uri : Addrs, filled : BOOLEAN, fills : Int]
  <2>1. \A x \in Listing : /\ [x EXCEPT !.fills = @ - 1].uri = x.uri
                           /\ [x EXCEPT !.fills = @ - 1] \in [cam : Cameras, addr : Addrs, uri : Addrs, filled : BOOLEAN, fills : Int]
    BY DEF Listing
  <2> QED BY <1>1, <2>1
<1> HIDE DEF l
<1>6. \A j \in DOMAIN cams : l[j] \in [cam : Cameras, addr : Addrs, uri : Addrs, filled : BOOLEAN, fills : Int]
  BY <1>1, <1>5 DEF Listing
<1>7. /\ DOMAIN cams' = DOMAIN cams /\ \A j \in DOMAIN cams \ {f} : cams'[j] = l[j]
      /\ cams'[f].uri = l[f].uri /\ cams'[f].filled = TRUE
  BY <1>3, <1>4, <1>5, <1>6
<1>8. \A j \in DOMAIN cams : cams'[j].uri = cams[j].uri
  BY <1>3, <1>5, <1>7
<1>9. ASSUME NEW j \in DOMAIN cams, FirstOf(j), cams[j].filled \/ cams[j].fills > 0
      PROVE  cams'[j].filled \/ cams'[j].fills > 0
  <2>1. CASE j = f
    BY <1>7, <2>1
  <2>2. CASE j # f
    <3>1. j # i
      <4>1. SUFFICES ASSUME j = i PROVE FALSE
        OBVIOUS
      <4>2. i <= f /\ f <= i /\ f \in Int /\ i \in Int
        BY <1>1, <1>3, <1>9, <4>1 DEF FirstOf
      <4> QED BY <2>2, <4>1, <4>2
    <3> QED BY <1>5, <1>7, <1>9, <2>2, <3>1
  <2> QED BY <2>1, <2>2
<1> QED BY <1>4, <1>7, <1>8, <1>9, LedKept

LEMMA LedStep == TypeInv /\ Led /\ [Next]_vars => Led'
<1> SUFFICES ASSUME TypeInv, Led, [Next]_vars PROVE Led'
  OBVIOUS
<1>0. ASSUME UNCHANGED <<opts, cams>> PROVE Led'
  BY <1>0, LedKept
<1>1. ASSUME NEW s \in Searches, Search(s) PROVE Led'
  <2>0. UNCHANGED opts
    BY <1>1 DEF Search
  <2>1. CASE GetData(s)
    BY <1>0, <2>0, <2>1, RefillLed DEF GetData
  <2>2. CASE ~GetData(s) /\ ~AddToList(s)
    <3>1. UNCHANGED cams
      BY <1>1, <2>2 DEF Search, Broadcast, NextCamera, Finish, TimeOffset, Hang, Credential, Test,
                        Request, Asked, Capabilities, DeviceInformation, panel
    <3> QED BY <1>0, <2>0, <3>1
  <2> QED BY <2>0, <2>1, <2>2, AddToListLed
<1>2. ASSUME NEW i \in DOMAIN cams, RemoveCamera(i) PROVE Led'
  BY <1>2 DEF RemoveCamera, Led
<1>3. CASE Discover \/ StartSession \/ AddedAny \/ Show \/ Login \/ (\E a \in Addrs : AddCamera(a))
           \/ (\E s \in Searches : Timeout(s)) \/ UNCHANGED vars
  <2>1. UNCHANGED <<opts, cams>>
    BY <1>3 DEF Discover, StartSession, AddedAny, Added, Show, Login, Answer, AddCamera, Timeout, vars, panel
  <2> QED BY <1>0, <2>1
<1> QED BY <1>1, <1>2, <1>3, FilledLed DEF Next, FillAny

-----------------------------------------------------------------------------
(* Every camera that answered comes on the list.  Found(a): it is there;   *)
(* Works(w, a): search w has it still before it, or works on it and the    *)
(* offset of its clock is among those still to be tried (Ahead).           *)
Found(a) == Listed(CameraAt[a]) # {}

Rest(o) == CASE o = 0 -> -1..2 [] o = 1 -> {-1, 1, 2} [] o = -1 -> {-1, 2} [] o = 2 -> {2}
             [] OTHER -> {}
Fits(w) == w.typed = "right" \/ (w.typed = "none" /\ opts.common /\ w.addr \notin opts.private)
First(w) == \/ w.at = "time" \/ (w.at = "cred" /\ w.error = "")
            \/ (w.at = "caps" /\ w.typed = "none")
Closed(w) ==
  /\ opts.skew[w.addr] \in Rest(w.offset)
  /\ w.at = "info" => w.offset = opts.skew[w.addr] /\ Fits(w)
  /\ First(w) => w.offset = 0
  /\ w.at = "caps" /\ w.typed = "none" => opts.common
Ahead(w) ==
  /\ w.error # "net" /\ w.typed \in {"none", "right"}
  /\ w.addr \in opts.open => w.offset = 0
  /\ w.addr \notin opts.open => Closed(w)

At(w, a) ==
  /\ w.addr = a /\ Ahead(w)
  /\ w.at \in {"time", "cred", "login", "set", "ask", "caps", "info", "data", "add"}
Before(w, a) == w.kind = "session" /\ a \in w.todo /\ w.at # "end"
Works(w, a) == At(w, a) \/ Before(w, a)
Cover(a) == Found(a) \/ \E s \in Searches : Works(search[s], a)

Right(a) == opts.skew[a] \in Tried(a)
Reached(k) == \A a \in opts.nets[k] : Right(a) => Cover(a)
BySession ==
  /\ used < Len(opts.nets) => \/ used = 0 /\ gui = "idle"
                              \/ gui = "start" /\ used = Len(opts.nets) - pending
  /\ \A k \in 1..Len(opts.nets) : k <= used => Reached(k)
ByFiller ==
  /\ used = 0 => cache = {<<CameraAt[a], a>> : a \in opts.nets[1]} /\ cams = <<>>
  /\ used > 0 => Reached(1)
Button ==
  /\ ~btn => gui = "start" \/ \E s \in sessions : Busy(s)
  /\ opts.nets = <<>> => btn
Calm == opts.faults = {} /\ opts.manual = {} /\ ~raced
Covered ==
  Calm =>
    /\ gui # "add"
    /\ opts.cached => gui = "idle" /\ ByFiller
    /\ ~opts.cached => BySession

LEMMA RightStart ==
  ASSUME NEW a \in Addrs, Right(a), opts \in Options
  PROVE  /\ a \in opts.open => opts.skew[a] = 0
         /\ a \notin opts.open => opts.skew[a] \in Rest(0)
         /\ a \notin opts.open /\ opts.common /\ a \in opts.private => opts.skew[a] # 0
<1>1. opts.skew[a] \in Int /\ opts.skew[a] \in Tried(a)
  BY OptsType DEF Right
<1> QED BY <1>1 DEF Tried, Rest

LEMMA WorksBusy ==
  ASSUME TypeInv, NEW s \in Searches, NEW a, Works(search[s], a)
  PROVE  Busy(s)
BY DEF Works, At, Before, Busy, TypeInv, Threads, RecOK

LEMMA WorksNext ==
  ASSUME UNCHANGED opts, NEW t, NEW w, search'[t] = w, NEW a
  PROVE  Works(search[t], a)' <=> Works(w, a)
BY DEF Works, At, Before, Ahead, Closed, Fits, First

(* No camera leaves the list.                                              *)
Growing == \A c : Listed(c) # {} => Listed(c)' # {}

LEMMA CoverOne ==
  ASSUME TypeInv, Growing, UNCHANGED opts, NEW s \in Searches, NEW w, NEW a,
         search' = [search EXCEPT ![s] = w], Works(search[s], a) => Works(w, a) \/ Found(a)', Cover(a)
  PROVE  Cover(a)'
<1>1. CASE Found(a)
  BY <1>1 DEF Growing, Found, Cover
<1>2. ASSUME NEW t \in Searches, Works(search[t], a) PROVE Cover(a)'
  <2>1. CASE t = s
    <3>1. search'[s] = w
      BY DEF TypeInv, Threads
    <3> QED BY <1>2, <2>1, <3>1, WorksNext DEF Cover
  <2>2. CASE t # s
    <3>1. search'[t] = search[t]
      BY <2>2 DEF TypeInv, Threads
    <3> QED BY <1>2, <3>1, WorksNext DEF Cover
  <2> QED BY <2>1, <2>2
<1> QED BY <1>1, <1>2 DEF Cover

LEMMA CoverFresh ==
  ASSUME TypeInv, Growing, UNCHANGED opts, NEW a,
         \A s \in Searches : Busy(s) => search'[s] = search[s], Cover(a)
  PROVE  Cover(a)'
<1>1. CASE Found(a)
  BY <1>1 DEF Growing, Found, Cover
<1>2. ASSUME NEW t \in Searches, Works(search[t], a) PROVE Cover(a)'
  <2>1. search'[t] = search[t]
    BY <1>2, WorksBusy
  <2> QED BY <1>2, <2>1, WorksNext DEF Cover
<1> QED BY <1>1, <1>2 DEF Cover

(* A search goes on until it has the camera, or finds it on the list.      *)
LEMMA RefusedWorks ==
  ASSUME TypeInv, NEW s \in Searches, search[s].at = "caps", NEW a \in Addrs, Right(a),
         At(search[s], a), a \notin opts.open, ~Accepted(s)
  PROVE  /\ opts.skew[a] \in Rest(Retry(search[s]).offset) /\ ~(Retry(search[s]).count > 2)
         /\ Retry(search[s]) \in SearchRec /\ Retry(search[s]).addr = a
         /\ Retry(search[s]).typed = search[s].typed
<1> DEFINE v == search[s]  r == Retry(v)
<1>1. v \in SearchRec /\ Tries(v)
  BY DEF TypeInv, Threads, RecOK, GaveUp
<1>2. v.addr = a /\ Closed(v) /\ v.typed \in {"none", "right"} /\ opts.skew[a] \in Int
  BY OptsType DEF At, Ahead, TypeInv, Threads
<1>3. v.offset # opts.skew[a]
  <2>1. CASE v.typed = "right"
    BY <1>2, <2>1 DEF Accepted
  <2>2. CASE v.typed = "none"
    <3>1. opts.common /\ v.offset = 0
      BY <1>2, <2>2 DEF Closed, First
    <3>2. a \in opts.private => opts.skew[a] # 0
      BY <3>1, RightStart DEF TypeInv, Threads
    <3> QED BY <1>2, <2>2, <3>1, <3>2 DEF Accepted
  <2> QED BY <1>2, <2>1, <2>2
<1>4. opts.skew[a] \in Rest(v.offset)
  BY <1>2 DEF Closed
<1>5. r \in SearchRec /\ r.addr = a /\ r.typed = v.typed
  BY <1>1, <1>2, RetryStep
<1>6. v.offset \in {0, 1, -1, 2}
  BY <1>1 DEF Tries
<1> HIDE DEF v, r
<1>7. CASE v.offset = 0
  <2>1. r.offset = 1 /\ r.count = 1
    BY <1>1, <1>7, RetryStep DEF v, r
  <2> QED BY <1>2, <1>3, <1>4, <1>5, <1>7, <2>1 DEF Rest, v, r
<1>8. CASE v.offset = 1
  <2>1. r.offset = -1 /\ r.count = 2
    BY <1>1, <1>8, RetryStep DEF v, r
  <2> QED BY <1>2, <1>3, <1>4, <1>5, <1>8, <2>1 DEF Rest, v, r
<1>9. CASE v.offset = -1
  <2>1. r.offset = 2 /\ r.count = 2
    BY <1>1, <1>9, RetryStep DEF v, r
  <2> QED BY <1>2, <1>3, <1>4, <1>5, <1>9, <2>1 DEF Rest, v, r
<1>10. CASE v.offset = 2
  BY <1>2, <1>3, <1>4, <1>10 DEF Rest
<1> QED BY <1>6, <1>7, <1>8, <1>9, <1>10

LEMMA PlainWorks ==
  ASSUME TypeInv, Calm, NEW s \in Searches, Plain(s), NEW a \in Addrs, Right(a), Works(search[s], a)
  PROVE  Found(a) \/ \E w : search' = [search EXCEPT ![s] = w] /\ Works(w, a)
<1> DEFINE v == search[s]  Goal == Found(a) \/ \E w : search' = [search EXCEPT ![s] = w] /\ Works(w, a)
<1> SUFFICES Goal
  OBVIOUS
<1>1. v \in SearchRec /\ RecOK(v) /\ Fails = {} /\ "lost" \notin opts.faults
  BY DEF TypeInv, Threads, Calm, Fails
<1>2. CASE Broadcast(s)
  <2>1. search' = [search EXCEPT ![s] = [v EXCEPT !.at = "next", !.todo = v.todo]]
    BY <1>1, <1>2 DEF Broadcast
  <2>2. Before(v, a)
    BY <1>2 DEF Broadcast, Works, At
  <2>3. Before([v EXCEPT !.at = "next", !.todo = v.todo], a)
    BY <1>1, <2>2 DEF Before, SearchRec
  <2> QED BY <2>1, <2>3 DEF Works
<1>3. CASE NextCamera(s)
  <2>0. PICK b \in v.todo : \E w : search' = [search EXCEPT ![s] = w]
          /\ w = [Idle EXCEPT !.at = "time", !.kind = "session", !.todo = v.todo \ {b}, !.addr = b]
    BY <1>3 DEF NextCamera
  <2>1. PICK w : /\ b \in v.todo
                 /\ search' = [search EXCEPT ![s] = w]
                 /\ w = [Idle EXCEPT !.at = "time", !.kind = "session", !.todo = v.todo \ {b}, !.addr = b]
    BY <2>0
  <2>2. Before(v, a)
    BY <1>3 DEF NextCamera, Works, At
  <2>3. /\ w.at = "time" /\ w.kind = "session" /\ w.todo = v.todo \ {b} /\ w.addr = b
        /\ w.offset = 0 /\ w.error = "" /\ w.typed = "none"
    BY <2>1 DEF Idle
  <2>4. CASE a # b
    BY <2>1, <2>2, <2>3, <2>4 DEF Works, Before
  <2>5. CASE a = b
    <3>1. a \notin opts.open => opts.skew[a] \in Rest(0)
      BY RightStart DEF TypeInv, Threads
    <3>2. a \notin opts.open => Closed(w)
      BY <2>3, <2>5, <3>1 DEF Closed
    <3>3. At(w, a)
      BY <2>3, <2>5, <3>2 DEF At, Ahead
    <3> QED BY <2>1, <3>3 DEF Works
  <2> QED BY <2>4, <2>5
<1>4. CASE TimeOffset(s)
  <2>1. PICK w : search' = [search EXCEPT ![s] = w] /\ w = [v EXCEPT !.at = "cred", !.error = ""]
    BY <1>1, <1>4 DEF TimeOffset
  <2>2. /\ w.at = "cred" /\ w.error = "" /\ w.kind = v.kind /\ w.todo = v.todo /\ w.addr = v.addr
        /\ w.offset = v.offset /\ w.typed = v.typed /\ v.at = "time"
    BY <1>1, <1>4, <2>1 DEF SearchRec, TimeOffset
  <2>3. Before(v, a) => Before(w, a)
    BY <2>2 DEF Before
  <2>4. Closed(v) => Closed(w)
    BY <2>2 DEF Closed, First
  <2>5. At(v, a) => At(w, a)
    BY <2>2, <2>4 DEF At, Ahead
  <2> QED BY <2>1, <2>3, <2>5 DEF Works
<1>5. CASE Credential(s)
  <2> DEFINE known == ListedAt(v.addr) # {} /\ fillers = {}
             p == IF known \/ v.error = "net" THEN Skip(s)
                  ELSE IF v.error = "" /\ opts.common THEN "caps" ELSE "login"
  <2>1. PICK w : search' = [search EXCEPT ![s] = w] /\ w = [v EXCEPT !.at = p]
    BY <1>5 DEF Credential, Goto
  <2>2. /\ w.at = p /\ w.error = v.error /\ w.kind = v.kind /\ w.todo = v.todo /\ w.addr = v.addr
        /\ w.offset = v.offset /\ w.typed = v.typed /\ v.at = "cred"
    BY <1>1, <1>5, <2>1 DEF SearchRec, Credential
  <2>3. Before(v, a) => Before(w, a)
    BY <2>2 DEF Before, Skip
  <2>4. CASE At(v, a) /\ known
    <3>1. PICK i \in DOMAIN cams : cams[i].addr = a
      BY <2>4 DEF At, ListedAt
    <3>2. cams[i].cam = CameraAt[a]
      BY <3>1 DEF TypeInv, Lists, CamOK
    <3> QED BY <3>1, <3>2 DEF Found, Listed
  <2>5. CASE At(v, a) /\ ~known
    <3>1. v.error # "net" /\ p = IF v.error = "" /\ opts.common THEN "caps" ELSE "login"
      BY <2>5 DEF At, Ahead
    <3>2. Closed(v) => Closed(w)
      BY <2>2, <3>1 DEF Closed, First
    <3>3. At(w, a)
      BY <2>2, <2>5, <3>1, <3>2 DEF At, Ahead
    <3> QED BY <2>1, <3>3 DEF Works
  <2> QED BY <2>1, <2>3, <2>4, <2>5 DEF Works
<1>6. CASE Hang(s)
  BY <1>6 DEF Hang, Calm
<1>7. CASE Capabilities(s)
  <2>0. v.at = "caps" /\ Tries(v)
    BY <1>1, <1>7 DEF Capabilities, RecOK, GaveUp
  <2>1. CASE v.addr \in opts.open \/ Accepted(s)
    <3>1. PICK w : search' = [search EXCEPT ![s] = w] /\ w = [v EXCEPT !.at = "info", !.error = ""]
      BY <1>1, <1>7, <2>1 DEF Capabilities
    <3>2. /\ w.at = "info" /\ w.error = "" /\ w.kind = v.kind /\ w.todo = v.todo /\ w.addr = v.addr
          /\ w.offset = v.offset /\ w.typed = v.typed
      BY <1>1, <3>1 DEF SearchRec
    <3>3. Before(v, a) => Before(w, a)
      BY <3>2 DEF Before
    <3>4. Closed(v) /\ Accepted(s) => Closed(w)
      BY <3>2 DEF Closed, First, Accepted, Fits
    <3>5. At(v, a) => At(w, a)
      BY <2>1, <3>2, <3>4 DEF At, Ahead
    <3> QED BY <3>1, <3>3, <3>5 DEF Works
  <2>2. CASE ~(v.addr \in opts.open \/ Accepted(s))
    <3> DEFINE p == IF Retry(v).count > 2 THEN Skip(s) ELSE "cred"
    <3>1. PICK w : search' = [search EXCEPT ![s] = w] /\ w = [Retry(v) EXCEPT !.error = "other", !.at = p]
      BY <1>1, <1>7, <2>2 DEF Capabilities
    <3>2. Retry(v) \in SearchRec /\ Retry(v).kind = v.kind /\ Retry(v).todo = v.todo
      BY <1>1, <2>0, RetryStep
    <3>3. /\ w.at = p /\ w.error = "other" /\ w.kind = v.kind /\ w.todo = v.todo
          /\ w.addr = Retry(v).addr /\ w.offset = Retry(v).offset /\ w.typed = Retry(v).typed
      BY <3>1, <3>2 DEF SearchRec
    <3>4. Before(v, a) => Before(w, a)
      BY <3>3 DEF Before, Skip
    <3>5. ASSUME At(v, a) PROVE At(w, a)
      <4>1. a \notin opts.open /\ v.addr = a /\ v.typed \in {"none", "right"}
        BY <2>2, <3>5 DEF At, Ahead
      <4>2. /\ opts.skew[a] \in Rest(Retry(v).offset) /\ ~(Retry(v).count > 2)
            /\ Retry(v).addr = a /\ Retry(v).typed = v.typed
        BY <2>0, <2>2, <3>5, <4>1, RefusedWorks
      <4>3. w.at = "cred" /\ w.addr = a /\ w.typed = v.typed /\ opts.skew[a] \in Rest(w.offset)
        BY <3>3, <4>2
      <4>4. Closed(w)
        BY <3>3, <4>3 DEF Closed, First
      <4> QED BY <3>3, <4>1, <4>3, <4>4 DEF At, Ahead
    <3> QED BY <3>1, <3>4, <3>5 DEF Works
  <2> QED BY <2>1, <2>2
<1>8. CASE DeviceInformation(s)
  <2> DEFINE p == IF Accepted(s) THEN "data" ELSE "cred"  e == IF Accepted(s) THEN "" ELSE "other"
  <2>1. PICK w : search' = [search EXCEPT ![s] = w] /\ w = [v EXCEPT !.error = e, !.at = p]
    <3>1. CASE Accepted(s)
      BY <1>1, <1>8, <3>1 DEF DeviceInformation
    <3>2. CASE ~Accepted(s)
      <4>1. search' = [search EXCEPT ![s].error = "other", ![s].at = "cred"]
        BY <1>1, <1>8, <3>2 DEF DeviceInformation
      <4>2. search' = [search EXCEPT ![s] = [v EXCEPT !.error = "other", !.at = "cred"]]
        BY <4>1
      <4> QED BY <3>2, <4>2
    <3> QED BY <3>1, <3>2
  <2>2. /\ w.at = p /\ w.error = e /\ w.kind = v.kind /\ w.todo = v.todo /\ w.addr = v.addr
        /\ w.offset = v.offset /\ w.typed = v.typed /\ v.at = "info"
    BY <1>1, <1>8, <2>1 DEF SearchRec, DeviceInformation
  <2>3. Before(v, a) => Before(w, a)
    BY <2>1, <2>2 DEF Before
  <2>4. Closed(v) => Closed(w)
    BY <2>1, <2>2 DEF Closed, First, Accepted, Fits
  <2>5. At(v, a) => At(w, a)
    BY <2>1, <2>2, <2>4 DEF At, Ahead
  <2> QED BY <2>1, <2>3, <2>5 DEF Works
<1> QED BY <1>2, <1>3, <1>4, <1>5, <1>6, <1>7, <1>8 DEF Plain

LEMMA GetDataWorks ==
  ASSUME TypeInv, NEW s \in Searches, GetData(s) \/ AddToList(s), NEW a \in Addrs
  PROVE  /\ Growing
         /\ \E w : search' = [search EXCEPT ![s] = w] /\ (Works(search[s], a) => Found(a)' \/ Works(w, a))
<1> DEFINE v == search[s]
<1>1. v \in SearchRec /\ v.at \in {"data", "add"} /\ v.addr \in Addrs
  BY DEF GetData, AddToList, TypeInv, Threads, SearchRec
<1>2. ASSUME search' = [search EXCEPT ![s] = [v EXCEPT !.at = Skip(s)]], Growing,
             \E i \in DOMAIN cams' : cams'[i].cam = CameraAt[v.addr]
      PROVE  \E w : search' = [search EXCEPT ![s] = w] /\ (Works(v, a) => Found(a)' \/ Works(w, a))
  <2>1. At(v, a) => Found(a)'
    BY <1>2 DEF At, Found, Listed
  <2>2. PICK w : w = [v EXCEPT !.at = Skip(s)]
    OBVIOUS
  <2>3. Before(v, a) => Before(w, a)
    BY <1>1, <2>2 DEF Before, Skip, SearchRec
  <2> QED BY <1>2, <2>1, <2>2, <2>3 DEF Works
<1>3. CASE GetData(s) /\ Existing(s) # {} /\ Refill(s) /\ Goto(s, Skip(s))
  <2>0. UNCHANGED removed /\ twice' \in SUBSET Cameras
    BY <1>1, <1>3, DiscoveryAssumption DEF GetData, TypeInv, Lists
  <2>1. DOMAIN cams' = DOMAIN cams /\ \A i \in DOMAIN cams : cams'[i].cam = cams[i].cam
    BY <1>3, <2>0, RefillType DEF TypeInv, Lists
  <2>2. Growing /\ \E i \in DOMAIN cams' : cams'[i].cam = CameraAt[v.addr]
    BY <1>3, <2>1 DEF Growing, Listed, Existing
  <2> QED BY <1>2, <1>3, <2>2 DEF Goto
<1>4. CASE GetData(s) /\ Goto(s, "add") /\ UNCHANGED cams
  <2>1. Growing
    BY <1>4 DEF Growing, Listed
  <2>2. PICK w : search' = [search EXCEPT ![s] = w] /\ w = [v EXCEPT !.at = "add"]
    BY <1>4 DEF Goto
  <2>3. /\ w.at = "add" /\ w.error = v.error /\ w.kind = v.kind /\ w.todo = v.todo /\ w.addr = v.addr
        /\ w.offset = v.offset /\ w.typed = v.typed
    BY <1>1, <2>2 DEF SearchRec
  <2>4. Closed(v) => Closed(w)
    BY <2>3 DEF Closed, First
  <2>5. Works(v, a) => Works(w, a)
    BY <2>3, <2>4 DEF Works, At, Before, Ahead
  <2> QED BY <2>1, <2>2, <2>5
<1>5. CASE AddToList(s)
  <2> DEFINE e == [cam |-> CameraAt[v.addr], addr |-> v.addr, uri |-> v.addr, filled |-> FALSE, fills |-> 1]
  <2>1. e.cam = CameraAt[v.addr] /\ cams' = Append(cams, e) /\ cams \in Seq(Listing)
    BY <1>1, <1>5 DEF AddToList, TypeInv, Lists
  <2>2. e \in Listing
    BY <1>1, DiscoveryAssumption DEF Listing
  <2> HIDE DEF e
  <2>3. /\ DOMAIN cams' = 1..(Len(cams) + 1) /\ cams'[Len(cams) + 1] = e /\ DOMAIN cams = 1..Len(cams)
        /\ \A i \in 1..Len(cams) : cams'[i] = cams[i]
    BY <2>1, <2>2, AppendProperties, ListedType
  <2>4. Len(cams) + 1 \in DOMAIN cams' /\ \A i \in DOMAIN cams : i \in DOMAIN cams' /\ cams'[i] = cams[i]
    BY <2>3, ListedType
  <2>5. Growing /\ \E i \in DOMAIN cams' : cams'[i].cam = CameraAt[v.addr]
    BY <2>1, <2>3, <2>4 DEF Growing, Listed
  <2> QED BY <1>2, <1>5, <2>5 DEF AddToList, Goto
<1> QED BY <1>3, <1>4, <1>5 DEF GetData

(* The steps to the dialog and from it.  A thread that goes on has got its *)
(* own answer, the right one (OwnAnswers).                                 *)
LEMMA DialogWorks ==
  ASSUME TypeInv, Turn, Calm, NEW s \in Searches, Test(s) \/ Request(s) \/ Asked(s), NEW a \in Addrs,
         Works(search[s], a)
  PROVE  \E w : search' = [search EXCEPT ![s] = w] /\ Works(w, a)
<1> DEFINE v == search[s]
<1>1. v \in SearchRec /\ (v.at = "login" \/ v.at = "set" \/ v.at = "ask")
  BY DEF TypeInv, Threads, Test, Request, Asked
<1>2. PICK p \in {"set", "ask", "caps", Skip(s)} :
        /\ search' = [search EXCEPT ![s] = [v EXCEPT !.at = p]]
        /\ p \in {"set", "ask"} \/ (Asked(s) /\ p = IF v.typed = "cancel" THEN Skip(s) ELSE "caps")
  BY DEF Test, Request, Asked, Goto
<1>3. Asked(s) => v.typed = "right"
  <2>1. OneRequest /\ OwnAnswers /\ "user" \notin opts.faults
    BY DEF Turn, Calm
  <2>2. ASSUME Asked(s) PROVE ~Asks(s)
    <3>1. ~open /\ requests = <<>>
      BY <2>1, <2>2 DEF Asked, OneRequest
    <3>2. shown = NoOne /\ s # NoOne
      BY <3>1 DEF TypeInv, Dialog, NoOne, Searches
    <3> QED BY <3>1, <3>2 DEF Asks
  <2> QED BY <2>1, <2>2 DEF OwnAnswers, Asked
<1>4. PICK w : search' = [search EXCEPT ![s] = w] /\ w = [v EXCEPT !.at = p]
  BY <1>2
<1>5. /\ w.at = p /\ w.error = v.error /\ w.kind = v.kind /\ w.todo = v.todo /\ w.addr = v.addr
      /\ w.offset = v.offset /\ w.typed = v.typed
  BY <1>1, <1>4 DEF SearchRec
<1>6. p \in {"set", "ask"} \/ (p = "caps" /\ v.typed = "right")
  BY <1>2, <1>3
<1>7. Closed(v) => Closed(w)
  BY <1>5, <1>6 DEF Closed, First
<1>8. Works(w, a)
  BY <1>5, <1>6, <1>7 DEF Works, At, Before, Ahead
<1> QED BY <1>4, <1>8

LEMMA CoverSearch ==
  ASSUME TypeInv, Turn, Calm, NEW s \in Searches, Search(s), NEW a \in Addrs, Right(a), Cover(a)
  PROVE  Cover(a)'
<1>0. UNCHANGED opts /\ search[s] \in SearchRec
  BY DEF Search, TypeInv, Threads
<1>1. CASE Plain(s)
  <2>1. Growing
    BY <1>1, PlainStep DEF panel, Growing, Listed
  <2>2. CASE Works(search[s], a) /\ ~Found(a)
    <3>1. PICK w : search' = [search EXCEPT ![s] = w] /\ Works(w, a)
      BY <1>1, <2>2, PlainWorks
    <3> QED BY <1>0, <2>1, <3>1, CoverOne
  <2>3. CASE ~Works(search[s], a)
    <3>1. PICK w : search' = [search EXCEPT ![s] = w]
      BY <1>1, PlainStep DEF Becomes
    <3> QED BY <1>0, <2>1, <2>3, <3>1, CoverOne
  <2>4. CASE Found(a)
    BY <2>1, <2>4 DEF Growing, Found, Cover
  <2> QED BY <2>2, <2>3, <2>4
<1>2. CASE Finish(s)
  <2>1. PICK w : search' = [search EXCEPT ![s] = w]
    BY <1>2 DEF Finish, Goto
  <2>2. Growing
    BY <1>2 DEF Finish, Growing, Listed
  <2>3. ~Works(search[s], a)
    BY <1>2 DEF Finish, Works, At, Before
  <2> QED BY <1>0, <2>1, <2>2, <2>3, CoverOne
<1>3. CASE Test(s) \/ Request(s) \/ Asked(s)
  <2>1. Growing
    BY <1>3 DEF Test, Request, Asked, panel, Growing, Listed
  <2>2. CASE Works(search[s], a)
    <3>1. PICK w : search' = [search EXCEPT ![s] = w] /\ Works(w, a)
      BY <1>3, <2>2, DialogWorks
    <3> QED BY <1>0, <2>1, <3>1, CoverOne
  <2>3. CASE ~Works(search[s], a)
    <3>1. PICK w : search' = [search EXCEPT ![s] = w]
      BY <1>3 DEF Test, Request, Asked, Goto
    <3> QED BY <1>0, <2>1, <2>3, <3>1, CoverOne
  <2> QED BY <2>2, <2>3
<1>4. CASE GetData(s) \/ AddToList(s)
  <2>1. PICK w : search' = [search EXCEPT ![s] = w] /\ (Works(search[s], a) => Found(a)' \/ Works(w, a))
    BY <1>4, GetDataWorks
  <2>2. Growing
    BY <1>4, GetDataWorks
  <2> QED BY <1>0, <2>1, <2>2, CoverOne
<1> QED BY <1>1, <1>2, <1>3, <1>4 DEF Search, Plain

LEMMA CoverAnswer ==
  ASSUME TypeInv, Turn, Calm, Answer("right"), NEW a \in Addrs, Cover(a)
  PROVE  Cover(a)'
<1>1. open /\ shown # NoOne /\ shown \in Searches /\ label = search[shown].addr
  BY DEF Answer, Turn, OneRequest, Calm, TypeInv, Dialog
<1> DEFINE s == shown
<1>2. PICK w : search' = [search EXCEPT ![s] = w] /\ w = [search[s] EXCEPT !.typed = "right"]
  BY <1>1 DEF Answer
<1>3. UNCHANGED opts /\ Growing /\ search[s] \in SearchRec
  BY <1>1 DEF Answer, panel, Growing, Listed, TypeInv, Threads
<1>4. /\ w.at = "ask" /\ w.error = search[s].error /\ w.kind = search[s].kind
      /\ w.todo = search[s].todo /\ w.addr = search[s].addr /\ search[s].at = "ask"
      /\ w.offset = search[s].offset /\ w.typed = "right"
  BY <1>1, <1>2, <1>3 DEF SearchRec, TypeInv, Dialog
<1>5. Closed(search[s]) => Closed(w)
  BY <1>4 DEF Closed, First
<1>6. Works(search[s], a) => Works(w, a)
  BY <1>4, <1>5 DEF Works, At, Before, Ahead
<1> QED BY <1>1, <1>2, <1>3, <1>6, CoverOne

(* Whatever is done when nothing fails and no address is typed in.         *)
LEMMA CoverStep ==
  ASSUME TypeInv, Turn, Calm, Next, NEW a \in Addrs, Right(a), Cover(a)
  PROVE  Cover(a)'
<1>1. CASE Discover
  <2>1. UNCHANGED opts /\ Growing
    BY <1>1 DEF Discover, Growing, Listed
  <2>2. \A s \in Searches : Busy(s) => search'[s] = search[s]
    <3>1. CASE opts.cached
      BY <1>1, <3>1, DiscoverCached DEF Fresh
    <3>2. CASE ~opts.cached
      BY <1>1, <3>2 DEF Discover
    <3> QED BY <3>1, <3>2
  <2> QED BY <2>1, <2>2, CoverFresh
<1>2. CASE StartSession
  <2>1. UNCHANGED opts /\ Growing
    BY <1>2 DEF StartSession, Growing, Listed
  <2>2. \A s \in Searches : Busy(s) => search'[s] = search[s]
    BY <1>2, StartSessionType DEF Fresh, TypeInv, Threads
  <2> QED BY <2>1, <2>2, CoverFresh
<1>3. ASSUME NEW s \in Searches, Added(s) PROVE Cover(a)'
  <2>1. UNCHANGED opts /\ Growing
    BY <1>3 DEF Added, Growing, Listed
  <2>2. \A t \in Searches : Busy(t) => search'[t] = search[t]
    BY <1>3 DEF Added, Busy, TypeInv, Threads
  <2> QED BY <2>1, <2>2, CoverFresh
<1>4. ASSUME Login PROVE Cover(a)'
  <2>1. Answer("right")
    BY <1>4 DEF Login, Calm
  <2> QED BY <2>1, CoverAnswer
<1>8. ASSUME Show PROVE Cover(a)'
  <2>1. ~open
    BY <1>8 DEF Show, Turn, OneRequest, Calm
  <2>2. UNCHANGED <<opts, search>> /\ Growing
    BY <1>8, <2>1 DEF Show, panel, Growing, Listed
  <2> QED BY <2>2, CoverFresh
<1>5. ASSUME NEW i \in DOMAIN cams, Filled(i) PROVE Cover(a)'
  <2>1. UNCHANGED <<opts, search>>
    BY <1>5 DEF Filled
  <2>2. DOMAIN cams' = DOMAIN cams /\ \A j \in DOMAIN cams : cams'[j].cam = cams[j].cam
    BY <1>5, FilledType DEF TypeInv, Lists
  <2>3. Growing
    BY <2>2 DEF Growing, Listed
  <2> QED BY <2>1, <2>3, CoverFresh
<1>6. ASSUME NEW s \in Searches, Timeout(s) PROVE Cover(a)'
  <2>1. UNCHANGED <<opts, search>> /\ Growing
    BY <1>6 DEF Timeout, Growing, Listed
  <2> QED BY <2>1, CoverFresh
<1>7. /\ \A b \in Addrs : ~AddCamera(b)
      /\ \A i \in DOMAIN cams : ~RemoveCamera(i)
  BY DEF Calm, AddCamera, RemoveCamera
<1> QED BY <1>1, <1>2, <1>3, <1>4, <1>5, <1>6, <1>7, <1>8, CoverSearch DEF Next, AddedAny, FillAny

LEMMA ReachedStep ==
  ASSUME TypeInv, Turn, Calm, Next, UNCHANGED opts, NEW k \in 1..Len(opts.nets), Reached(k)
  PROVE  Reached(k)'
<1>1. opts.nets[k] \in SUBSET Addrs
  BY OptsType DEF TypeInv, Threads
<1>2. ASSUME NEW a \in opts.nets[k], Right(a) PROVE Cover(a)'
  BY <1>1, <1>2, CoverStep DEF Reached
<1>3. \A a : Right(a)' = Right(a)
  BY DEF Right, Tried
<1> QED BY <1>2, <1>3 DEF Reached

LEMMA OptsKept == [Next]_vars => UNCHANGED opts
BY DEF Next, vars, Discover, StartSession, AddedAny, Added, Show, Login, Answer, FillAny, Filled,
       AddCamera, RemoveCamera, Timeout, Search

(* The searches of a click on Discover are started one after another.      *)
LEMMA BySessionStep ==
  ASSUME TypeInv, Turn, Calm, Next, ~opts.cached, gui # "add", BySession
  PROVE  BySession' /\ gui' # "add"
<1> DEFINE n == Len(opts.nets)
<1>1. UNCHANGED opts /\ opts.nets \in Seq(SUBSET Addrs) /\ n \in Nat
  BY OptsKept, OptsType DEF TypeInv, Threads
<1>2. used \in 0..MaxSearches /\ pending \in 0..n /\ (gui = "start" <=> pending > 0) /\ MaxSearches \in Nat
  BY DiscoveryAssumption DEF TypeInv, Threads, Window
<1>3. \A k \in 1..n : k <= used => Reached(k)'
  BY <1>1, ReachedStep DEF BySession
<1>4. CASE UNCHANGED <<used, gui, pending>>
  BY <1>1, <1>3, <1>4 DEF BySession
<1>5. CASE Discover
  <2>1. /\ used' = used /\ pending' = n /\ gui = "idle"
        /\ gui' = IF opts.nets = <<>> THEN "idle" ELSE "start"
    BY <1>5 DEF Discover
  <2>2. opts.nets = <<>> <=> n = 0
    BY <1>1, EmptySeq
  <2>3. used' < n => gui' = "start" /\ used' = n - pending'
    BY <1>1, <1>2, <2>1, <2>2 DEF BySession
  <2> QED BY <1>1, <1>3, <2>1, <2>3 DEF BySession
<1>6. CASE StartSession
  <2>1. /\ used' = used + 1 /\ pending' = pending - 1 /\ gui = "start" /\ n - pending + 1 \in 1..n
        /\ gui' = IF pending = 1 THEN "idle" ELSE "start"
    BY <1>6, StartSessionType DEF StartSession
  <2>2. used' < n => gui' = "start" /\ used' = n - pending'
    BY <1>1, <1>2, <2>1 DEF BySession
  <2>3. used < n => used = n - pending
    BY <1>1, <1>2, <2>1 DEF BySession
  <2>4. ASSUME NEW k \in 1..n, k = used + 1 PROVE Reached(k)'
    <3>1. n - pending + 1 = k
      BY <1>1, <1>2, <2>3, <2>4
    <3>2. PICK w : search' = [search EXCEPT ![k] = w] /\ k \in Searches
            /\ w = [Idle EXCEPT !.at = "broadcast", !.kind = "session", !.todo = opts.nets[k]]
      BY <1>6, <2>4, <3>1, StartSessionType DEF Fresh
    <3>3. search'[k] = w
      BY <3>2 DEF TypeInv, Threads
    <3>4. \A a \in opts.nets[k] : Works(w, a)
      BY <3>2 DEF Idle, Works, Before
    <3>5. \A a \in opts.nets[k] : Cover(a)'
      BY <1>1, <3>2, <3>3, <3>4, WorksNext DEF Cover
    <3> QED BY <1>1, <3>5 DEF Reached
  <2>5. \A k \in 1..n : k <= used' => Reached(k)'
    <3>1. \A k \in 1..n : k <= used' => k <= used \/ k = used + 1
      BY <1>2, <2>1
    <3> QED BY <1>3, <2>4, <3>1
  <2> QED BY <1>1, <2>1, <2>2, <2>5 DEF BySession
<1>7. UNCHANGED <<used, gui, pending>> \/ Discover \/ StartSession
  <2>1. \A s \in Searches : Search(s) => UNCHANGED <<used, gui, pending>>
    BY DEF Search, Broadcast, NextCamera, Finish, TimeOffset, Hang, Credential, Test, Request, Asked,
           Capabilities, DeviceInformation, GetData, AddToList, panel
  <2>2. \A s \in Searches : ~Added(s)
    BY DEF Added
  <2>3. \A a \in Addrs : ~AddCamera(a)
    BY DEF AddCamera, Calm
  <2> QED BY <2>1, <2>2, <2>3 DEF Next, AddedAny, Show, Login, Answer, FillAny, Filled, RemoveCamera, Timeout, panel
<1>8. gui' # "add"
  BY <1>4, <1>5, <1>6, <1>7 DEF Discover, StartSession
<1> QED BY <1>4, <1>5, <1>6, <1>7, <1>8

(* A click on Discover starts a thread for every address in the cache.     *)
LEMMA ByFillerStep ==
  ASSUME TypeInv, Turn, Calm, Next, opts.cached, gui = "idle", ByFiller
  PROVE  ByFiller' /\ gui' = "idle"
<1>1. /\ UNCHANGED opts /\ opts.nets \in Seq(SUBSET Addrs) /\ opts.nets # <<>>
      /\ 1 \in 1..Len(opts.nets) /\ opts.nets[1] \in SUBSET Addrs
  BY OptsKept, OptsType DEF TypeInv, Threads
<1>2. used > 0 => Reached(1)'
  BY <1>1, ReachedStep DEF ByFiller
<1>3. used \in Nat /\ Cardinality(cache) \in Nat
  BY KnownType, DiscoveryAssumption DEF TypeInv, Threads
<1>4. CASE Discover
  <2>1. used' = used + Cardinality(cache) /\ UNCHANGED <<gui, cache, cams>>
    BY <1>1, <1>4 DEF Discover
  <2>2. CASE used > 0
    BY <1>2, <1>3, <2>1, <2>2 DEF ByFiller
  <2>3. CASE used = 0
    <3>1. cache = {<<CameraAt[a], a>> : a \in opts.nets[1]} /\ cams = <<>>
      BY <2>3 DEF ByFiller
    <3>2. ASSUME NEW a \in opts.nets[1], Right(a) PROVE Cover(a)'
      <4>1. PICK s \in Searches : search'[s] = Filler(a)
        <5>1. <<CameraAt[a], a>> \in cache
          BY <3>1
        <5> QED BY <1>1, <1>4, <5>1, DiscoverCached
      <4>2. PICK w : w = Filler(a)
        OBVIOUS
      <4>3. /\ w.at = "time" /\ w.addr = a /\ w.error = "" /\ w.typed = "none" /\ w.offset = 0
        BY <4>2 DEF Filler, Idle
      <4>4. a \notin opts.open => opts.skew[a] \in Rest(0)
        BY <1>1, <3>2, RightStart DEF TypeInv, Threads
      <4>5. Works(w, a)
        BY <4>3, <4>4 DEF Works, At, Ahead, Closed
      <4> QED BY <1>1, <4>1, <4>2, <4>5, WorksNext DEF Cover
    <3>3. \A a : Right(a)' = Right(a)
      BY <1>1 DEF Right, Tried
    <3>4. Reached(1)'
      BY <1>1, <3>2, <3>3 DEF Reached
    <3> QED BY <1>1, <2>1, <3>1, <3>4 DEF ByFiller
  <2> QED BY <1>3, <2>1, <2>2, <2>3
<1>5. CASE UNCHANGED <<used, gui>>
  <2>1. ASSUME used = 0 PROVE UNCHANGED <<cache, cams>>
    <3>1. cams = <<>> /\ DOMAIN cams = {} /\ \A s \in Searches : ~Busy(s)
      BY <2>1 DEF ByFiller, TypeInv, Threads, Searches
    <3>2. \A s \in Searches : Search(s) => UNCHANGED <<cache, cams>>
      BY <3>1 DEF Busy, Search, Broadcast, NextCamera, Finish, TimeOffset, Hang, Credential, Test, Request,
                  Asked, Capabilities, DeviceInformation, GetData, AddToList, panel
    <3>3. (\A i \in DOMAIN cams : ~Filled(i)) /\ \A i \in DOMAIN cams : ~RemoveCamera(i)
      BY <3>1
    <3> QED BY <3>2, <3>3 DEF Next, AddedAny, Show, Login, Answer, FillAny, Discover, StartSession, Added,
                              AddCamera, Timeout, panel
  <2> QED BY <1>1, <1>2, <1>5, <2>1 DEF ByFiller
<1>6. UNCHANGED <<used, gui>> \/ Discover
  <2>1. \A s \in Searches : Search(s) => UNCHANGED <<used, gui>>
    BY DEF Search, Broadcast, NextCamera, Finish, TimeOffset, Hang, Credential, Test, Request, Asked,
           Capabilities, DeviceInformation, GetData, AddToList, panel
  <2>2. \A s \in Searches : ~Added(s)
    BY DEF Added
  <2>3. \A a \in Addrs : ~AddCamera(a)
    BY DEF AddCamera, Calm
  <2>4. ~StartSession
    BY DEF StartSession
  <2> QED BY <2>1, <2>2, <2>3, <2>4 DEF Next, AddedAny, Show, Login, Answer, FillAny, Filled, RemoveCamera, Timeout, panel
<1> QED BY <1>4, <1>5, <1>6 DEF Discover

LEMMA CoveredInit == Init => Covered
<1> SUFFICES ASSUME Init PROVE Covered
  OBVIOUS
<1>1. opts.cached => ByFiller
  BY DEF Init, ByFiller
<1>2. \A k \in 1..Len(opts.nets) : ~(k <= used)
  BY OptsType DEF Init
<1>3. BySession
  BY <1>2 DEF Init, BySession
<1> QED BY <1>1, <1>3 DEF Init, Covered

LEMMA RacedKept == [Next]_vars => (raced => raced')
<1> SUFFICES ASSUME [Next]_vars, raced PROVE raced'
  OBVIOUS
<1>1. ASSUME NEW s \in Searches, Search(s) PROVE raced'
  BY <1>1 DEF Search, Broadcast, NextCamera, Finish, TimeOffset, Hang, Credential, Test, Request, Asked,
              Capabilities, DeviceInformation, GetData, AddToList, dialog
<1>2. CASE \/ Discover \/ StartSession \/ AddedAny \/ Show \/ Login \/ FillAny
           \/ (\E a \in Addrs : AddCamera(a)) \/ (\E i \in DOMAIN cams : RemoveCamera(i))
           \/ (\E s \in Searches : Timeout(s)) \/ UNCHANGED vars
  BY <1>2 DEF Discover, StartSession, AddedAny, Added, Show, Login, Answer, FillAny, Filled, AddCamera,
              RemoveCamera, Timeout, vars, dialog
<1> QED BY <1>1, <1>2 DEF Next

LEMMA CoveredStep == TypeInv /\ Turn /\ Covered /\ [Next]_vars => Covered'
<1> SUFFICES ASSUME TypeInv, Turn, Covered, [Next]_vars PROVE Covered'
  OBVIOUS
<1>1. UNCHANGED opts
  BY OptsKept
<1>2. CASE UNCHANGED vars
  <2>1. \A a : Cover(a)' = Cover(a) /\ Right(a)' = Right(a)
    BY <1>2 DEF vars, panel, Cover, Found, Listed, Works, At, Before, Ahead, Closed, Fits, First, Right, Tried
  <2>2. \A k : Reached(k)' = Reached(k)
    BY <1>1, <2>1 DEF Reached
  <2>3. Calm' = Calm
    BY <1>2 DEF vars, dialog, Calm
  <2> QED BY <1>2, <2>2, <2>3 DEF vars, panel, Covered, BySession, ByFiller
<1>3. CASE Next /\ Calm
  <2>1. gui # "add" /\ (opts.cached => gui = "idle" /\ ByFiller) /\ (~opts.cached => BySession)
    BY <1>3 DEF Covered
  <2>2. CASE opts.cached
    <3>1. gui' = "idle" /\ ByFiller'
      BY <1>3, <2>1, <2>2, ByFillerStep
    <3> QED BY <1>1, <2>2, <3>1 DEF Covered
  <2>3. CASE ~opts.cached
    <3>1. gui' # "add" /\ BySession'
      BY <1>3, <2>1, <2>3, BySessionStep
    <3> QED BY <1>1, <2>3, <3>1 DEF Covered
  <2> QED BY <2>2, <2>3
<1>4. CASE ~Calm
  <2>1. ~Calm'
    BY <1>1, <1>4, RacedKept DEF Calm
  <2> QED BY <2>1 DEF Covered
<1> QED BY <1>2, <1>3, <1>4

(* The button is enabled again when the last session ends.                 *)
LEMMA ButtonKept ==
  ASSUME TypeInv, Button, UNCHANGED <<opts, btn, sessions>>, gui' = gui \/ gui # "start",
         \A s \in sessions : Busy(s) => Busy(s)'
  PROVE  Button'
BY DEF Button

LEMMA ButtonStep == TypeInv /\ Button /\ [Next]_vars => Button'
<1> SUFFICES ASSUME TypeInv, Button, [Next]_vars PROVE Button'
  OBVIOUS
<1>0. UNCHANGED opts /\ sessions \in SUBSET Searches /\ \A s \in sessions : search[s].kind = "session"
  BY OptsKept DEF TypeInv, Window
<1>1. CASE UNCHANGED vars
  BY <1>1 DEF vars, panel, Button, Busy
<1>2. CASE Discover
  <2>1. CASE opts.cached
    <3>1. \A s \in Searches : Busy(s) => search'[s] = search[s]
      BY <1>2, <2>1, DiscoverCached DEF Fresh
    <3>2. UNCHANGED <<btn, sessions, gui>>
      BY <1>2, <2>1 DEF Discover
    <3> QED BY <1>0, <3>1, <3>2, ButtonKept DEF Busy
  <2>2. CASE ~opts.cached
    BY <1>0, <1>2, <2>2 DEF Discover, Button
  <2> QED BY <2>1, <2>2
<1>3. CASE StartSession
  <2>1. used + 1 \in sessions' /\ Fresh(used + 1) /\ search' = [search EXCEPT ![used + 1] =
              [Idle EXCEPT !.at = "broadcast", !.kind = "session",
                           !.todo = opts.nets[Len(opts.nets) - pending + 1]]]
    BY <1>3, StartSessionType DEF StartSession
  <2>2. PICK s \in sessions' : search'[s].at = "broadcast"
    BY <2>1 DEF Idle, Fresh, TypeInv, Threads
  <2>3. Len(opts.nets) - pending + 1 \in 1..Len(opts.nets) /\ opts.nets # <<>>
    <3>1. pending > 0 /\ pending \in 0..Len(opts.nets) /\ opts.nets \in Seq(SUBSET Addrs)
      BY <1>3, OptsType DEF StartSession, TypeInv, Threads, Window
    <3> QED BY <1>3, <3>1, StartSessionType
  <2> QED BY <1>0, <2>2, <2>3 DEF Button, Busy
<1>4. ASSUME NEW s \in Searches, Added(s) PROVE Button'
  <2>1. UNCHANGED <<btn, sessions>> /\ gui # "start"
    BY <1>4 DEF Added
  <2>2. \A t \in sessions : Busy(t) => Busy(t)'
    BY <1>4, <1>0 DEF Added, Busy, TypeInv, Threads
  <2> QED BY <1>0, <2>1, <2>2, ButtonKept
<1>t. ASSUME NEW s \in Searches, NEW how, search' = [search EXCEPT ![s].typed = how], UNCHANGED panel
      PROVE  Button'
  <2>1. UNCHANGED <<btn, sessions, gui>>
    BY <1>t DEF panel
  <2>2. \A t \in Searches : search'[t].at = search[t].at
    BY <1>t DEF TypeInv, Threads, SearchRec
  <2> QED BY <1>0, <2>1, <2>2, ButtonKept DEF Busy
<1>s. ASSUME UNCHANGED <<search, panel>> PROVE Button'
  BY <1>0, <1>s, ButtonKept DEF Busy, panel
<1>5. CASE Login
  <2>1. PICK how \in {"right", "wrong", "cancel"} : Answer(how)
    BY <1>5 DEF Login
  <2>2. CASE shown = NoOne
    BY <1>s, <2>1, <2>2 DEF Answer
  <2>3. CASE shown # NoOne
    <3>1. search' = [search EXCEPT ![shown].typed = Typed(shown, how)] /\ shown \in Searches /\ UNCHANGED panel
      BY <2>1, <2>3 DEF Answer, Typed, TypeInv, Dialog
    <3> QED BY <1>t, <3>1
  <2> QED BY <2>2, <2>3
<1>u. CASE Show
  <2>1. UNCHANGED panel /\ Head(requests) = requests[1] /\ requests[1].by \in Searches \cup {NoOne}
    BY <1>u, FirstRequest DEF Show
  <2>2. CASE search' = search
    BY <1>s, <2>1, <2>2
  <2>3. CASE requests[1].by # NoOne /\ search' = [search EXCEPT ![requests[1].by].typed = "wrong"]
    <3>1. PICK s \in Searches : search' = [search EXCEPT ![s].typed = "wrong"]
      BY <2>1, <2>3
    <3> QED BY <1>t, <2>1, <3>1
  <2> QED BY <1>u, <2>1, <2>2, <2>3 DEF Show
<1>6. ASSUME NEW i \in DOMAIN cams, Filled(i) \/ RemoveCamera(i) PROVE Button'
  BY <1>0, <1>6, ButtonKept DEF Filled, RemoveCamera, Busy
<1>7. ASSUME NEW a \in Addrs, AddCamera(a) PROVE Button'
  <2>1. UNCHANGED <<btn, sessions>> /\ gui # "start"
    BY <1>7 DEF AddCamera
  <2>2. \A t \in Searches : Busy(t) => search'[t] = search[t]
    BY <1>7, AddCameraType DEF Fresh, TypeInv, Threads
  <2> QED BY <1>0, <2>1, <2>2, ButtonKept DEF Busy
<1>8. ASSUME NEW s \in Searches, Timeout(s) PROVE Button'
  BY <1>0, <1>8 DEF Timeout, Button
<1>9. ASSUME NEW s \in Searches, Search(s) PROVE Button'
  <2>1. CASE Plain(s)
    <3>1. PICK w : Becomes(s, w) /\ (w.kind = "session" => w.at # "end")
      BY <2>1, PlainStep
    <3>2. UNCHANGED <<btn, sessions, gui>>
      BY <2>1, PlainStep DEF panel
    <3>3. \A t \in sessions : Busy(t) => Busy(t)'
      BY <1>0, <3>1 DEF Becomes, Busy, TypeInv, Threads, RecOK
    <3> QED BY <1>0, <3>2, <3>3, ButtonKept
  <2>2. CASE Finish(s)
    <3>1. search' = [search EXCEPT ![s] = [search[s] EXCEPT !.at = "end"]] /\ UNCHANGED gui
      BY <2>2 DEF Finish, Goto
    <3>2. CASE \A o \in sessions \ {s} : ~Busy(o)
      BY <2>2, <3>2 DEF Finish, Button
    <3>3. ASSUME NEW o \in sessions \ {s}, Busy(o) PROVE Button'
      <4>1. Busy(o)'
        BY <1>0, <3>1, <3>3 DEF Busy, TypeInv, Threads
      <4>2. UNCHANGED <<btn, sessions>>
        BY <2>2, <3>3 DEF Finish
      <4> QED BY <1>0, <4>1, <4>2 DEF Button
    <3> QED BY <3>2, <3>3
  <2>3. CASE Test(s) \/ Request(s) \/ Asked(s)
    <3>1. PICK p \in {"set", "ask", "caps", Skip(s)} :
            search' = [search EXCEPT ![s] = [search[s] EXCEPT !.at = p]] /\ UNCHANGED <<btn, sessions, gui>>
      BY <2>3 DEF Test, Request, Asked, Goto, panel
    <3>2. \A t \in sessions : Busy(t) => Busy(t)'
      <4>1. \A t \in sessions : t # s => search'[t] = search[t]
        BY <1>0, <3>1 DEF TypeInv, Threads
      <4>2. s \in sessions => search'[s].at \in {"set", "ask", "caps", "next"}
        BY <1>0, <3>1 DEF TypeInv, Threads, SearchRec, Skip
      <4> QED BY <1>0, <4>1, <4>2 DEF Busy
    <3> QED BY <1>0, <3>1, <3>2, ButtonKept
  <2>4. CASE GetData(s) \/ AddToList(s)
    <3>1. PICK p \in {Skip(s), "add"} : Becomes(s, [search[s] EXCEPT !.at = p])
      BY <1>9, <2>4, GetDataType DEF Search
    <3>2. PICK w : Becomes(s, w) /\ (w.kind = "session" => w.at # "end")
      <4>1. PICK w : w = [search[s] EXCEPT !.at = p]
        OBVIOUS
      <4>2. w.at = p /\ w.kind = search[s].kind /\ Becomes(s, w)
        BY <3>1, <4>1 DEF TypeInv, Threads, SearchRec
      <4> QED BY <3>1, <4>2 DEF Skip
    <3>3. UNCHANGED <<btn, sessions, gui>>
      BY <2>4 DEF GetData, AddToList
    <3>4. \A t \in sessions : Busy(t) => Busy(t)'
      BY <1>0, <3>2 DEF Becomes, Busy, TypeInv, Threads, RecOK
    <3> QED BY <1>0, <3>3, <3>4, ButtonKept
  <2> QED BY <1>9, <2>1, <2>2, <2>3, <2>4 DEF Search, Plain
<1>10. CASE Next
  BY <1>2, <1>3, <1>4, <1>5, <1>u, <1>6, <1>7, <1>8, <1>9, <1>10 DEF Next, AddedAny, FillAny
<1> QED BY <1>1, <1>10

(* When no search is at work, every camera that can be had is on the list. *)
LEMMA CompleteHolds == TypeInv /\ Led /\ Covered /\ Button => Complete
<1> SUFFICES ASSUME TypeInv, Led, Covered, Button, Quiet, \A i \in DOMAIN cams : cams[i].fills = 0
             PROVE  /\ btn
                    /\ opts.faults = {} /\ used > 0 /\ opts.manual = {} /\ ~raced =>
                         \A a \in Answers : opts.skew[a] \in Tried(a) =>
                           \E i \in Listed(CameraAt[a]) : cams[i].filled
  BY DEF Complete
<1>1. gui = "idle" /\ (\A s \in Searches : ~Busy(s)) /\ sessions \in SUBSET Searches /\ btn \in BOOLEAN
  BY DEF Quiet, TypeInv, Window
<1>2. btn
  BY <1>1 DEF Button
<1>3. ASSUME opts.faults = {}, used > 0, opts.manual = {}, ~raced, NEW a \in Answers, Right(a)
      PROVE  \E i \in Listed(CameraAt[a]) : cams[i].filled
  <2>1. Cover(a)
    <3>1. CASE opts.cached
      BY <1>3, <3>1 DEF Covered, Calm, ByFiller, Reached, Answers
    <3>2. CASE ~opts.cached
      <4>1. opts.nets \in Seq(SUBSET Addrs) /\ used \in Nat /\ BySession
        BY <1>3, <3>2, OptsType, DiscoveryAssumption DEF Covered, Calm, TypeInv, Threads
      <4>2. PICK k \in 1..Len(opts.nets) : a \in opts.nets[k]
        BY <1>3, <3>2, <4>1 DEF Answers, Range
      <4>3. k <= used
        BY <1>1, <1>3, <4>1 DEF BySession
      <4> QED BY <1>3, <4>1, <4>2, <4>3 DEF BySession, Reached
    <3> QED BY <3>1, <3>2
  <2>2. Found(a)
    BY <1>1, <2>1, WorksBusy DEF Cover
  <2>3. PICK i \in DOMAIN cams : cams[i].cam = CameraAt[a]
    BY <2>2 DEF Found, Listed
  <2> DEFINE same == {j \in DOMAIN cams : cams[j].uri = cams[i].uri}
  <2>4. PICK f \in same : \A j \in same : f <= j
    <3>1. same # {} /\ same \in SUBSET Nat
      BY ListedType
    <3> HIDE DEF same
    <3> QED BY <3>1, NatLeast
  <2>5. f \in DOMAIN cams /\ FirstOf(f) /\ cams[f].cam = cams[i].cam
    BY <2>3, <2>4 DEF FirstOf, TypeInv, Lists, CamOK
  <2>6. cams[f].filled \/ cams[f].fills > 0
    BY <1>3, <2>5 DEF Led
  <2>7. cams[f].fills = 0
    BY <2>5
  <2>8. ~(cams[f].fills > 0)
    BY <2>7
  <2> QED BY <2>3, <2>5, <2>6, <2>8 DEF Listed
<1> QED BY <1>2, <1>3 DEF Right

(* When the search is over the button is enabled and, when nothing failed  *)
(* and no two threads asked for a password at once, every camera that      *)
(* answered on any interface, or was in the cache, is on the list with its *)
(* data, if its clock is off by an offset that is tried with the right     *)
(* password (discover() in session.h, manual_fill() in onvif_data.h,       *)
(* getCredential and getData in camerapanel.py).                           *)
THEOREM CompleteAlways == Spec => []Complete
<1>1. Init => Led /\ Button
  BY DEF Init, Led, Button
<1> QED BY <1>1, TypeInit, TypeStep, TurnInit, TurnStep, LedStep, CoveredInit, CoveredStep, ButtonStep,
           CompleteHolds, PTL DEF Spec
=============================================================================
