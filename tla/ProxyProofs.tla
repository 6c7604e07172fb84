----------------------------- MODULE ProxyProofs -----------------------------
(***************************************************************************)
(* Proofs about module Proxy, for all values of its constants: its types,  *)
(* that one thread serves, that the camera stops, and when a listener is   *)
(* deleted under its thread.                                               *)
(***************************************************************************)
EXTENDS ProxyProps, SequenceTheorems, TLAPS

-----------------------------------------------------------------------------
(* Types and threads.  A thread that is not started is free, and as long   *)
(* as a thread is active its socket listens, or is lost: a further server  *)
(* cannot bind.                                                            *)
Unstarted == \A t \in Threads : t > started => thr[t] = "free"
Bound     == \A t \in Threads : Active(t) => sock = "listening" \/ lost

ServeInv == TypeOK /\ Unstarted /\ Bound /\ OneServes

LEMMA Bounds ==
  MaxStarts \in Nat /\ MaxChanges \in Nat /\ MaxRequests \in Nat /\ MaxMessages \in Nat
BY ProxyAssumption

LEMMA ServeInit == Init => ServeInv
<1> SUFFICES ASSUME Init PROVE ServeInv
  OBVIOUS
<1>1. \A t \in Threads : ~Active(t)
  BY DEF Init, Active
<1>2. Unstarted /\ Bound /\ OneServes
  BY <1>1 DEF Init, Unstarted, Bound, OneServes
<1>3. thr \in [Threads -> {"free", "loop", "poll", "request", "callback", "reply", "alert", "leave", "end"}]
      /\ client \in [Threads -> Requests \cup {NoOne}]
      /\ \A t \in Threads : client[t] # NoOne <=> thr[t] \in {"request", "callback", "reply", "alert"}
  BY DEF Init
<1>4. /\ backlog \in Seq(Requests)
      /\ req \in [Requests -> {"idle", "new", "sent", "answered", "failed"}]
  BY EmptySeq DEF Init
<1>5. started \in 0..MaxStarts /\ heard \in 0..MaxMessages /\ changes \in 0..MaxChanges
  BY Bounds DEF Init
<1> QED BY <1>2, <1>3, <1>4, <1>5 DEF Init, ServeInv, TypeOK, Types

(* A step that leaves the threads alone and does not close the socket.     *)
LEMMA ThreadsKept ==
  ASSUME Unstarted, Bound, OneServes, UNCHANGED <<thr, started>>,
         (sock' = sock /\ lost' = lost) \/ lost'
  PROVE  Unstarted' /\ Bound' /\ OneServes'
BY DEF Unstarted, Bound, OneServes, Active, Threads

LEMMA ServeWindow ==
  ASSUME ServeInv, Window \/ Update \/ \E t \in Types : SetType(t)
  PROVE  ServeInv'
<1> USE Bounds DEF ServeInv, TypeOK, server, requests, listener
<1>1. CASE StartServer
  <2>1. CASE sock = "listening" \/ lost \/ ~(type = "server" /\ ~running /\ started < MaxStarts)
    <3>1. UNCHANGED <<thr, started>> /\ ((sock' = sock /\ lost' = lost) \/ lost')
          /\ sock' \in {sock, "unbound"} /\ lost' \in {lost, TRUE} /\ win' = "listener"
          /\ UNCHANGED <<opts, type, running, wake, client, requests, listener, changes>>
      BY <1>1, <2>1 DEF StartServer, Start
    <3>2. TypeOK'
      BY <3>1
    <3> QED BY <3>1, <3>2, ThreadsKept
  <2>2. CASE sock # "listening" /\ ~lost /\ type = "server" /\ ~running /\ started < MaxStarts
    <3>1. /\ sock' = "listening" /\ started' = started + 1 /\ started' \in Threads /\ running'
          /\ thr' = [thr EXCEPT ![started'] = "loop"] /\ win' = "listener"
          /\ UNCHANGED <<opts, type, wake, lost, client, requests, listener, changes>>
      BY <1>1, <2>2 DEF StartServer, Start, Goto, Threads
    <3>2. \A t \in Threads : ~Active(t)
      BY <2>2 DEF Bound
    <3>3. thr[started'] = "free"
      BY <3>1 DEF Unstarted, Threads
    <3>4. TypeOK'
      <4>1. started' \in 0..MaxStarts
        BY <2>2, <3>1
      <4> QED BY <3>1, <3>3, <4>1
    <3>5. OneServes' /\ Bound'
      BY <3>1, <3>2 DEF OneServes, Bound, Active
    <3>6. Unstarted'
      BY <3>1 DEF Unstarted, Threads
    <3> QED BY <3>4, <3>5, <3>6
  <2> QED BY <2>1, <2>2
<1>2. CASE StopReturns \/ SetListener \/ ListenerStopped \/ StartListener \/ Update
  <2>1. UNCHANGED <<opts, type, server, requests, heard>>
    BY <1>2 DEF StopReturns, SetListener, ListenerStopped, StartListener, Update
  <2>2. /\ win' \in {"idle", "stopServer", "startServer", "listener", "stopListener", "startListener"}
        /\ lrun' \in BOOLEAN /\ fault' \in BOOLEAN /\ lis' \in {lis, "listen"}
        /\ changes' \in 0..MaxChanges
    <3>1. CASE Update
      BY <3>1 DEF Update
    <3>2. CASE StartListener
      BY <3>2 DEF StartListener
    <3>3. CASE StopReturns \/ SetListener \/ ListenerStopped
      BY <3>3 DEF StopReturns, SetListener, ListenerStopped
    <3> QED BY <1>2, <3>1, <3>2, <3>3
  <2>3. TypeOK' /\ UNCHANGED <<thr, started, sock, lost>>
    BY <2>1, <2>2
  <2> QED BY <2>3, ThreadsKept
<1>3. ASSUME NEW t \in Types, SetType(t)
      PROVE  ServeInv'
  <2>1. UNCHANGED <<opts, sock, lost, thr, client, started, requests, listener>>
    BY <1>3 DEF SetType, Stop
  <2>2. /\ type' \in Types /\ win' \in {"stopServer", "startServer"}
        /\ running' \in BOOLEAN /\ wake' \in BOOLEAN /\ changes' \in 0..MaxChanges
    <3>1. changes' \in 0..MaxChanges
      BY <1>3 DEF SetType
    <3>2. /\ win' \in {"stopServer", "startServer"}
          /\ Stop \/ UNCHANGED <<running, wake>>
      BY <1>3 DEF SetType
    <3> QED BY <1>3, <3>1, <3>2 DEF SetType, Stop
  <2>3. TypeOK' /\ UNCHANGED <<thr, started, sock, lost>>
    BY <2>1, <2>2
  <2> QED BY <2>3, ThreadsKept
<1> QED BY <1>1, <1>2, <1>3 DEF Window

(* A thread of the server goes from an active place to the next one.       *)
LEMMA ServeThread ==
  ASSUME ServeInv, NEW t \in Threads, Serve(t)
  PROVE  ServeInv'
<1> USE Bounds DEF ServeInv, TypeOK
<1>1. UNCHANGED <<opts, type, win, listener, started, changes, running, lost>> /\ Active(t)
  BY DEF Serve, Loop, Wake, Accept, GetRequest, Callback, Reply, Alert, Finish, CloseSocket, Leave,
         Active
<1>2. TypeOK'
  <2>1. CASE Accept(t)
    <3>1. Head(backlog) \in Requests /\ Tail(backlog) \in Seq(Requests) /\ NoOne \notin Requests
      BY <2>1, HeadTailProperties DEF Accept, Requests, NoOne
    <3> QED BY <1>1, <2>1, <3>1 DEF Accept, Goto, listener
  <2>2. CASE Reply(t) \/ Alert(t)
    <3>1. PICK answer \in {"answered", "failed"} : Finish(t, answer)
      BY <2>2 DEF Reply, Alert
    <3>2. /\ req' \in [Requests -> {"idle", "new", "sent", "answered", "failed"}]
          /\ client' = [client EXCEPT ![t] = NoOne] /\ thr' = [thr EXCEPT ![t] = "loop"]
          /\ UNCHANGED <<sock, wake, backlog, moving>>
      BY <3>1 DEF Finish, Goto
    <3> QED BY <1>1, <3>2 DEF listener
  <2>3. CASE CloseSocket(t)
    <3>1. /\ req' \in [Requests -> {"idle", "new", "sent", "answered", "failed"}]
          /\ backlog' \in Seq(Requests)
      BY <2>3, EmptySeq DEF CloseSocket, Leave
    <3>2. thr' = [thr EXCEPT ![t] = "end"] /\ sock' = "none" /\ UNCHANGED <<wake, client, moving>>
          /\ thr[t] = "leave"
      BY <2>3 DEF CloseSocket, Leave, Goto
    <3> QED BY <1>1, <3>1, <3>2 DEF listener
  <2>4. CASE Loop(t) \/ Wake(t) \/ GetRequest(t) \/ Callback(t)
    <3>1. PICK place \in {"poll", "leave", "request", "callback", "alert", "reply"} :
            /\ thr' = [thr EXCEPT ![t] = place]
            /\ client[t] # NoOne <=> place \in {"request", "callback", "reply", "alert"}
      <4>1. CASE Loop(t) \/ Wake(t)
        BY <4>1 DEF Loop, Wake, Goto
      <4>2. CASE GetRequest(t)
        BY <4>2 DEF GetRequest, Goto
      <4>3. CASE Callback(t)
        BY <4>3 DEF Callback, Goto
      <4> QED BY <2>4, <4>1, <4>2, <4>3
    <3>2. /\ UNCHANGED <<sock, client, backlog, req>> /\ wake' \in BOOLEAN /\ moving' \in BOOLEAN
      BY <2>4 DEF Loop, Wake, GetRequest, Callback, requests
    <3> QED BY <1>1, <3>1, <3>2 DEF listener
  <2> QED BY <2>1, <2>2, <2>3, <2>4 DEF Serve
<1>3. \A u \in Threads : u # t => thr'[u] = thr[u] /\ ~Active(u)'
  <2>1. \A u \in Threads : u # t => thr'[u] = thr[u] /\ ~Active(u)
    BY <1>1 DEF OneServes, Serve, Loop, Wake, Accept, GetRequest, Callback, Reply, Alert, Finish,
                CloseSocket, Leave, Goto
  <2> QED BY <2>1 DEF Active
<1>4. OneServes'
  BY <1>3 DEF OneServes
<1>5. Unstarted'
  <2>1. ~(t > started)
    BY <1>1 DEF Unstarted, Active
  <2> QED BY <1>1, <1>3, <2>1 DEF Unstarted
<1>6. Bound'
  <2>1. sock' = sock \/ ~Active(t)'
    BY DEF Serve, Loop, Wake, Accept, GetRequest, Callback, Reply, Alert, Finish, CloseSocket,
           Leave, Goto, Active
  <2> QED BY <1>1, <1>3, <2>1 DEF Bound
<1> QED BY <1>2, <1>4, <1>5, <1>6

LEMMA ServeStep == ServeInv /\ [Next]_vars => ServeInv'
<1> SUFFICES ASSUME ServeInv, [Next]_vars PROVE ServeInv'
  OBVIOUS
<1>1. CASE Listen
  <2>1. TypeOK' /\ UNCHANGED <<thr, started, sock, lost>>
    BY <1>1, Bounds
       DEF Listen, Message, Heard, Unheard, ServeInv, TypeOK, server, requests
  <2> QED BY <2>1, ThreadsKept DEF ServeInv
<1>2. ASSUME NEW r \in Requests, Request(r)
      PROVE  ServeInv'
  <2>1. req' \in [Requests -> {"idle", "new", "sent", "answered", "failed"}]
        /\ backlog' \in Seq(Requests)
    <3>1. CASE Transmit(r) \/ GiveUp(r)
      BY <3>1 DEF Transmit, GiveUp, ServeInv, TypeOK
    <3>2. CASE Connect(r)
      <4>1. Append(backlog, r) \in Seq(Requests) /\ backlog \in Seq(Requests)
        BY AppendProperties DEF ServeInv, TypeOK
      <4> QED BY <3>2, <4>1 DEF Connect, ServeInv, TypeOK
    <3> QED BY <1>2, <3>1, <3>2 DEF Request
  <2>2. UNCHANGED <<opts, type, win, server, moving, listener, changes>>
    BY <1>2 DEF Request
  <2>3. TypeOK' /\ UNCHANGED <<thr, started, sock, lost>>
    BY <2>1, <2>2 DEF ServeInv, TypeOK, server, listener
  <2> QED BY <2>3, ThreadsKept DEF ServeInv
<1>3. CASE UNCHANGED vars
  <2>1. TypeOK' /\ UNCHANGED <<thr, started, sock, lost>>
    BY <1>3 DEF vars, ServeInv, TypeOK, server, listener, requests
  <2> QED BY <2>1, ThreadsKept DEF ServeInv
<1> QED BY <1>1, <1>2, <1>3, ServeWindow, ServeThread DEF Next

(* The state of Server, Listener and Client is well formed: a thread of the *)
(* server holds a connection exactly while it handles a request.           *)
THEOREM ProxyTypes == Spec => []TypeOK
<1>1. ServeInv => TypeOK
  BY DEF ServeInv
<1> QED BY ServeInit, ServeStep, <1>1, PTL DEF Spec

(* Never do two threads serve, however often and how fast the proxy type   *)
(* changes, also when stop() of a busy server gave up: a thread that is    *)
(* left keeps the port, and the next server cannot bind.                   *)
THEOREM OneAlwaysServes == Spec => []OneServes
<1>1. ServeInv => OneServes
  BY DEF ServeInv
<1> QED BY ServeInit, ServeStep, <1>1, PTL DEF Spec
-----------------------------------------------------------------------------
(* The camera stops.  Requests are numbered as they were made.  When they  *)
(* connect in that order, they are accepted and handled in it too, and     *)
(* none is handled after a later one has been answered.                    *)
Old(log, r) == log[r] \notin {"idle", "new"}

InTurn ==
  /\ \A r, q \in Requests : r < q /\ req[q] # "idle" => Old(req, r)
  /\ \A i, j \in 1..Len(backlog) : i < j => backlog[i] < backlog[j]
  /\ \A i \in 1..Len(backlog) : Old(req, backlog[i])
  /\ \A t \in Threads : client[t] # NoOne =>
       /\ Old(req, client[t])
       /\ \A i \in 1..Len(backlog) : client[t] < backlog[i]
       /\ thr[t] = "reply" /\ client[t] % 2 = 0 => ~moving
  /\ \A r \in Requests : req[r] = "answered" =>
       /\ \A i \in 1..Len(backlog) : r < backlog[i]
       /\ \A t \in Threads : client[t] # NoOne => r < client[t]

OrderInv == ServeInv /\ (~opts.racing => InTurn /\ CameraStops)

(* Steps that touch neither the requests nor their handling.               *)
LEMMA OrderUnchanged ==
  ASSUME InTurn, CameraStops, UNCHANGED <<opts, requests, client>>,
         \A t \in Threads : thr'[t] = "reply" /\ client[t] # NoOne => thr[t] = "reply"
  PROVE  InTurn' /\ CameraStops'
BY DEF InTurn, CameraStops, requests

(* The client makes a request, connects, or gives up.                      *)
LEMMA OrderRequest ==
  ASSUME TypeOK, InTurn, CameraStops, ~opts.racing, NEW r \in Requests, Request(r)
  PROVE  InTurn' /\ CameraStops'
<1>1. UNCHANGED <<opts, client, thr, moving>> /\ req \in [Requests -> {"idle", "new", "sent", "answered", "failed"}]
      /\ backlog \in Seq(Requests) /\ Requests \subseteq Nat
      /\ \A t \in Threads : client[t] # NoOne => client[t] \in Requests
  BY DEF Request, server, TypeOK, Requests
<1>2. CASE Transmit(r)
  <2>1. /\ req' = [req EXCEPT ![r] = "new"] /\ req[r] = "idle" /\ backlog' = backlog
        /\ \A q \in Requests : q < r => Old(req, q)
    BY <1>2, <1>1 DEF Transmit, Old, Requests
  <2>2. \A q \in Requests : Old(req, q) => q # r /\ req'[q] = req[q] /\ Old(req', q)
    BY <1>1, <2>1 DEF Old
  <2>3. \A i \in 1..Len(backlog) : backlog[i] \in Requests
    BY <1>1
  <2>4. InTurn'
    <3>1. ASSUME NEW p \in Requests, NEW q \in Requests, p < q, req'[q] # "idle"
          PROVE  Old(req', p)
      BY <1>1, <2>1, <2>2, <3>1 DEF InTurn
    <3>2. \A p \in Requests : req'[p] = "answered" => req[p] = "answered"
      BY <1>1, <2>1
    <3> QED BY <1>1, <2>1, <2>2, <2>3, <3>1, <3>2 DEF InTurn
  <2>5. CameraStops'
    BY <1>1, <2>1 DEF CameraStops
  <2> QED BY <2>4, <2>5
<1>3. CASE GiveUp(r)
  <2>1. req' = [req EXCEPT ![r] = "failed"] /\ req[r] = "sent" /\ backlog' = backlog
    BY <1>3 DEF GiveUp
  <2>2. \A q \in Requests : /\ Old(req', q) <=> Old(req, q)
                            /\ req'[q] = "idle" <=> req[q] = "idle"
                            /\ req'[q] = "answered" <=> req[q] = "answered"
    BY <1>1, <2>1 DEF Old
  <2>3. \A i \in 1..Len(backlog) : backlog[i] \in Requests
    BY <1>1
  <2> QED BY <1>1, <2>1, <2>2, <2>3 DEF InTurn, CameraStops
<1>4. CASE Connect(r)
  <2>1. /\ req' = [req EXCEPT ![r] = IF sock = "listening" \/ lost THEN "sent" ELSE "failed"]
        /\ req[r] = "new" /\ backlog' \in {backlog, Append(backlog, r)}
    BY <1>4 DEF Connect
  <2>2. \A q \in Requests : /\ Old(req, q) => q # r /\ q < r /\ Old(req', q)
                            /\ req'[q] = "idle" <=> req[q] = "idle"
                            /\ req'[q] = "answered" <=> req[q] = "answered"
    <3>1. ASSUME NEW q \in Requests, Old(req, q) PROVE q # r /\ q < r
      <4>1. req[q] \notin {"idle", "new"} /\ req[r] = "new" /\ q \in Nat /\ r \in Nat
        BY <1>1, <2>1, <3>1 DEF Old
      <4>2. ~(r < q)
        BY <4>1 DEF InTurn, Old
      <4> QED BY <4>1, <4>2
    <3> QED BY <1>1, <2>1, <3>1 DEF Old
  <2>3. Old(req', r)
    BY <1>1, <2>1 DEF Old
  <2>4. \A i \in 1..Len(backlog) : backlog[i] \in Requests /\ Old(req, backlog[i]) /\ backlog[i] < r
    <3> SUFFICES ASSUME NEW i \in 1..Len(backlog)
                 PROVE  backlog[i] \in Requests /\ Old(req, backlog[i]) /\ backlog[i] < r
      OBVIOUS
    <3>1. backlog[i] \in Requests
      BY <1>1
    <3>2. Old(req, backlog[i])
      BY DEF InTurn
    <3> HIDE DEF ServeInv, TypeOK
    <3> QED BY <2>2, <3>1, <3>2
  <2>5. \A i \in 1..Len(backlog') :
          \/ i \in 1..Len(backlog) /\ backlog'[i] = backlog[i]
          \/ backlog'[i] = r /\ i = Len(backlog) + 1
    <3>1. CASE backlog' = backlog
      BY <3>1
    <3>2. CASE backlog' = Append(backlog, r)
      <4>1. /\ Len(backlog) \in Nat /\ Len(backlog') = Len(backlog) + 1
            /\ \A i \in 1..Len(backlog) : backlog'[i] = backlog[i]
            /\ backlog'[Len(backlog) + 1] = r
        BY <1>1, <3>2, AppendProperties, LenProperties
      <4> HIDE DEF ServeInv, TypeOK
      <4> QED BY <4>1
    <3> QED BY <2>1, <3>1, <3>2
  <2>6. \A i \in 1..Len(backlog') : Old(req', backlog'[i])
    BY <2>2, <2>3, <2>4, <2>5
  <2>7. \A i, j \in 1..Len(backlog') : i < j => backlog'[i] < backlog'[j]
    <3>1. Len(backlog) \in Nat /\ Len(backlog') \in Nat
      BY <1>1, <2>1, AppendProperties
    <3> QED BY <2>4, <2>5, <3>1 DEF InTurn
  <2>8. \A q \in Requests : (\A i \in 1..Len(backlog) : q < backlog[i]) /\ Old(req, q)
          => \A i \in 1..Len(backlog') : q < backlog'[i]
    BY <2>2, <2>5
  <2>9. \A p, q \in Requests : p < q /\ req'[q] # "idle" => Old(req', p)
    BY <2>2 DEF InTurn
  <2>10. \A q \in Requests : req[q] = "answered" => Old(req, q)
    BY DEF Old
  <2> QED BY <1>1, <2>2, <2>6, <2>7, <2>8, <2>9, <2>10 DEF InTurn, CameraStops
<1> QED BY <1>2, <1>3, <1>4 DEF Request

(* The server accepts the oldest request, moves the camera and answers.    *)
LEMMA OrderServe ==
  ASSUME ServeInv, InTurn, CameraStops, ~opts.racing, NEW t \in Threads, Serve(t)
  PROVE  InTurn' /\ CameraStops'
<1> USE DEF ServeInv, TypeOK
<1>1. /\ opts' = opts /\ req \in [Requests -> {"idle", "new", "sent", "answered", "failed"}]
      /\ backlog \in Seq(Requests) /\ Requests \subseteq Nat
      /\ client \in [Threads -> Requests \cup {NoOne}] /\ NoOne \notin Requests
      /\ \A i \in 1..Len(backlog) : backlog[i] \in Requests
  <2>1. opts' = opts
    BY DEF Serve
  <2>2. Requests \subseteq Nat /\ NoOne \notin Requests
    BY DEF Requests, NoOne
  <2> QED BY <2>1, <2>2
<1>2. \A u \in Threads : u # t => client[u] = NoOne
  <2>1. Active(t)
    BY DEF Serve, Loop, Wake, Accept, GetRequest, Callback, Reply, Alert, Finish, CloseSocket, Active
  <2> QED BY <2>1 DEF OneServes, Active
<1>3. CASE Loop(t) \/ Wake(t) \/ GetRequest(t)
  <2>1. UNCHANGED <<requests, client>> /\ \A u \in Threads : thr'[u] = "reply" => thr[u] = "reply"
    BY <1>3 DEF Loop, Wake, GetRequest, Goto
  <2> QED BY <1>1, <2>1, OrderUnchanged
<1>4. CASE Accept(t)
  <2>1. /\ client' = [client EXCEPT ![t] = Head(backlog)] /\ backlog' = Tail(backlog)
        /\ backlog # <<>> /\ thr'[t] = "request" /\ UNCHANGED <<req, moving>>
    BY <1>4 DEF Accept, Goto
  <2>2. /\ Len(backlog) \in Nat /\ 1 \in 1..Len(backlog) /\ Head(backlog) = backlog[1]
        /\ Len(Tail(backlog)) = Len(backlog) - 1
        /\ \A i \in 1..Len(Tail(backlog)) :
             /\ i + 1 \in 1..Len(backlog) /\ Tail(backlog)[i] = backlog[i + 1]
             /\ i \in Nat /\ 1 < i + 1
    BY <1>1, <2>1, HeadTailProperties
  <2>3. \A q \in Requests : (Old(req', q) <=> Old(req, q))
    BY <2>1 DEF Old
  <2>4. \A i \in 1..Len(backlog') : Old(req', backlog'[i]) /\ backlog[1] < backlog'[i]
    <3> SUFFICES ASSUME NEW i \in 1..Len(backlog')
                 PROVE  Old(req', backlog'[i]) /\ backlog[1] < backlog'[i]
      OBVIOUS
    <3>1. i + 1 \in 1..Len(backlog) /\ backlog'[i] = backlog[i + 1] /\ 1 < i + 1
      BY <2>1, <2>2
    <3>2. Old(req, backlog[i + 1]) /\ backlog[1] < backlog[i + 1]
      BY <2>2, <3>1 DEF InTurn
    <3>3. backlog[i + 1] \in Requests
      BY <1>1, <3>1
    <3> QED BY <2>3, <3>1, <3>2, <3>3
  <2>5. \A i, j \in 1..Len(backlog') : i < j => backlog'[i] < backlog'[j]
    <3> SUFFICES ASSUME NEW i \in 1..Len(backlog'), NEW j \in 1..Len(backlog'), i < j
                 PROVE  backlog'[i] < backlog'[j]
      OBVIOUS
    <3>1. /\ i + 1 \in 1..Len(backlog) /\ j + 1 \in 1..Len(backlog) /\ i + 1 < j + 1
          /\ backlog'[i] = backlog[i + 1] /\ backlog'[j] = backlog[j + 1]
      BY <2>1, <2>2
    <3> QED BY <3>1 DEF InTurn
  <2>6. client'[t] = backlog[1] /\ Old(req', client'[t]) /\ \A u \in Threads : u # t => client'[u] = NoOne
    BY <1>1, <1>2, <2>1, <2>2, <2>3 DEF InTurn
  <2>7. \A r \in Requests : req'[r] = "answered" =>
          r < backlog[1] /\ \A i \in 1..Len(backlog') : r < backlog'[i]
    BY <2>1, <2>2 DEF InTurn
  <2>8. \A r, q \in Requests : r < q /\ req'[q] # "idle" => Old(req', r)
    BY <2>1, <2>3 DEF InTurn
  <2>9. InTurn'
    BY <2>1, <2>4, <2>5, <2>6, <2>7, <2>8 DEF InTurn
  <2> QED BY <1>1, <2>1, <2>9 DEF CameraStops
<1>5. CASE Callback(t)
  <2>0. /\ moving' = (client[t] % 2 = 1) /\ thr[t] = "callback"
        /\ UNCHANGED <<client, backlog, req>>
    BY <1>5 DEF Callback
  <2>1. (client[t] % 2 = 0 => ~moving') /\ UNCHANGED <<client, backlog, req>> /\ client[t] # NoOne
    <3>1. client[t] # NoOne
      BY <2>0
    <3>2. ASSUME client[t] % 2 = 0 PROVE ~moving'
      <4>1. ~(client[t] % 2 = 1)
        BY <3>2, SMT
      <4> QED BY <2>0, <4>1, Zenon
    <3> QED BY <2>0, <3>1, <3>2
  <2>2. InTurn'
    BY <1>1, <1>2, <2>1 DEF InTurn, Old
  <2>3. ASSUME NEW r \in Requests, req[r] = "answered", \A q \in Requests : q > r => req[q] = "idle"
        PROVE  FALSE
    <3>1. r < client[t] /\ client[t] \in Requests /\ Old(req, client[t])
      BY <1>1, <2>1, <2>3 DEF InTurn
    <3> QED BY <1>1, <2>3, <3>1 DEF Old
  <2>4. CameraStops'
    BY <2>1, <2>3 DEF CameraStops
  <2> QED BY <2>2, <2>4
<1>6. CASE Reply(t) \/ Alert(t)
  <2>1. PICK answer \in {"answered", "failed"} :
          Finish(t, answer) /\ (answer = "answered" => thr[t] = "reply")
    BY <1>6 DEF Reply, Alert
  <2> DEFINE r == client[t]
  <2>2. r # NoOne /\ r \in Requests /\ Old(req, r)
    BY <1>1, <1>6 DEF Reply, Alert, InTurn
  <2>3. /\ req' = IF req[r] = "sent" THEN [req EXCEPT ![r] = answer] ELSE req
        /\ UNCHANGED <<backlog, moving>> /\ \A u \in Threads : client'[u] = NoOne
    BY <1>1, <1>2, <2>1 DEF Finish
  <2> HIDE DEF r
  <2>4. \A q \in Requests : /\ Old(req', q) <=> Old(req, q)
                            /\ req'[q] = "idle" <=> req[q] = "idle"
                            /\ req'[q] = "answered" => req[q] = "answered" \/ (q = r /\ answer = "answered")
    BY <1>1, <2>2, <2>3 DEF Old
  <2>5. \A i \in 1..Len(backlog) : r < backlog[i]
    BY <2>2 DEF InTurn, r
  <2>6. \A q \in Requests : req'[q] = "answered" => \A i \in 1..Len(backlog) : q < backlog[i]
    BY <2>4, <2>5 DEF InTurn
  <2>7. InTurn'
    BY <1>1, <2>3, <2>4, <2>6 DEF InTurn
  <2>8. answer = "answered" /\ r % 2 = 0 => ~moving
    BY <2>1, <2>2 DEF InTurn, r
  <2>9. CameraStops'
    <3> SUFFICES ASSUME NEW q \in Requests, q % 2 = 0, req'[q] = "answered",
                        \A p \in Requests : p > q => req'[p] = "idle"
                 PROVE  ~moving
      BY <2>3 DEF CameraStops
    <3>1. CASE q = r /\ answer = "answered"
      BY <2>2, <2>8, <3>1
    <3>2. CASE req[q] = "answered"
      BY <2>4, <3>2 DEF CameraStops
    <3> QED BY <2>4, <3>1, <3>2
  <2> QED BY <2>7, <2>9
<1>7. CASE CloseSocket(t)
  <2>1. /\ UNCHANGED <<client, moving>> /\ backlog' \in {backlog, <<>>}
        /\ \A q \in Requests : req'[q] = req[q] \/ (req[q] = "sent" /\ req'[q] = "failed")
        /\ \A u \in Threads : thr'[u] = "reply" => thr[u] = "reply"
    BY <1>7 DEF CloseSocket, Leave, Goto
  <2>2. \A q \in Requests : /\ Old(req', q) <=> Old(req, q)
                            /\ req'[q] = "idle" <=> req[q] = "idle"
                            /\ req'[q] = "answered" <=> req[q] = "answered"
    BY <2>1 DEF Old
  <2>3. \A i \in 1..Len(backlog') : i \in 1..Len(backlog) /\ backlog'[i] = backlog[i]
    BY <2>1
  <2>4. \A r, q \in Requests : r < q /\ req'[q] # "idle" => Old(req', r)
    BY <2>2 DEF InTurn
  <2>5. /\ \A i, j \in 1..Len(backlog') : i < j => backlog'[i] < backlog'[j]
        /\ \A i \in 1..Len(backlog') : Old(req', backlog'[i])
    <3>1. \A i, j \in 1..Len(backlog') : i < j => backlog'[i] < backlog'[j]
      BY <2>3 DEF InTurn
    <3> SUFFICES ASSUME NEW i \in 1..Len(backlog') PROVE Old(req', backlog'[i])
      BY <3>1
    <3>2. Old(req, backlog[i]) /\ backlog[i] \in Requests /\ backlog'[i] = backlog[i]
      BY <1>1, <2>3 DEF InTurn
    <3> QED BY <2>2, <3>2
  <2>6. \A u \in Threads : client'[u] # NoOne =>
          /\ Old(req', client'[u]) /\ \A i \in 1..Len(backlog') : client'[u] < backlog'[i]
          /\ thr'[u] = "reply" /\ client'[u] % 2 = 0 => ~moving'
    <3> SUFFICES ASSUME NEW u \in Threads, client[u] # NoOne
                 PROVE  /\ Old(req', client[u]) /\ \A i \in 1..Len(backlog') : client[u] < backlog'[i]
                        /\ thr'[u] = "reply" /\ client[u] % 2 = 0 => ~moving
      BY <2>1
    <3>1. Old(req', client[u])
      <4>1. client[u] \in Requests
        BY <1>1
      <4>2. Old(req, client[u])
        BY DEF InTurn
      <4> QED BY <2>2, <4>1, <4>2
    <3>2. \A i \in 1..Len(backlog') : client[u] < backlog'[i]
      BY <2>3 DEF InTurn
    <3>3. thr'[u] = "reply" /\ client[u] % 2 = 0 => ~moving
      BY <2>1 DEF InTurn
    <3> QED BY <3>1, <3>2, <3>3
  <2>7. InTurn'
    BY <1>1, <2>1, <2>2, <2>3, <2>4, <2>5, <2>6 DEF InTurn
  <2> QED BY <1>1, <2>1, <2>2, <2>7 DEF CameraStops
<1> QED BY <1>3, <1>4, <1>5, <1>6, <1>7 DEF Serve

LEMMA OrderStep == OrderInv /\ [Next]_vars => OrderInv'
<1> SUFFICES ASSUME OrderInv, [Next]_vars PROVE OrderInv'
  OBVIOUS
<1>1. ServeInv /\ ServeInv' /\ opts' = opts
  BY ServeStep
     DEF OrderInv, Next, vars, SetType, Update, Window, StopReturns, StartServer, SetListener,
         ListenerStopped, StartListener, Listen, Serve, Request
<1> SUFFICES ASSUME ~opts.racing PROVE InTurn' /\ CameraStops'
  BY <1>1 DEF OrderInv
<1>2. InTurn /\ CameraStops
  BY DEF OrderInv
<1>3. CASE Window \/ Update \/ Listen \/ UNCHANGED vars \/ \E y \in Types : SetType(y)
  <2>1. UNCHANGED requests
    BY <1>3 DEF Window, StopReturns, StartServer, SetListener, ListenerStopped, StartListener,
                Update, Listen, SetType, vars
  <2>2. UNCHANGED client
    BY <1>3 DEF Window, StopReturns, StartServer, SetListener, ListenerStopped, StartListener,
                Update, Listen, SetType, vars, server
  <2>3. \A t \in Threads : thr'[t] = "reply" => thr[t] = "reply"
    <3>1. CASE StartServer
      BY <1>1, <3>1 DEF StartServer, Start, Goto, server, ServeInv, TypeOK
    <3>2. CASE ~StartServer
      BY <1>3, <3>2 DEF Window, StopReturns, SetListener, ListenerStopped, StartListener, Update,
                        Listen, SetType, vars, server
    <3> QED BY <3>1, <3>2
  <2> QED BY <1>1, <1>2, <2>1, <2>2, <2>3, OrderUnchanged
<1>4. ASSUME NEW t \in Threads, Serve(t) PROVE InTurn' /\ CameraStops'
  BY <1>1, <1>2, <1>4, OrderServe
<1>5. ASSUME NEW r \in Requests, Request(r) PROVE InTurn' /\ CameraStops'
  BY <1>1, <1>2, <1>5, OrderRequest DEF ServeInv
<1> QED BY <1>3, <1>4, <1>5 DEF Next

(* When requests connect in the order of the clicks, the camera does not   *)
(* move once the last of them, a request to stop it, has been answered,    *)
(* for any number of requests, of restarts of the server and of timeouts   *)
(* of the client.                                                          *)
THEOREM CameraAlwaysStops == Spec => []CameraStops
<1>1. Init => OrderInv
  <2>1. ASSUME Init PROVE InTurn /\ CameraStops
    BY <2>1 DEF Init, InTurn, CameraStops, Old, NoOne
  <2> QED BY <2>1, ServeInit DEF OrderInv
<1>2. OrderInv => CameraStops
  BY DEF OrderInv, CameraStops
<1> QED BY <1>1, <1>2, OrderStep, PTL DEF Spec

-----------------------------------------------------------------------------
(* The listener.                                                           *)
KeptInv ==
  /\ heard \in Nat
  /\ lis = "callback" => heard > 0
  /\ win = "startListener" /\ lis = "listen" => heard > 0
  /\ ListenerKept

LEMMA KeptStep == KeptInv /\ [Next]_vars => KeptInv'
<1> SUFFICES ASSUME KeptInv, [Next]_vars PROVE KeptInv'
  OBVIOUS
<1>1. CASE Window
  <2>1. heard' = heard
    BY <1>1 DEF Window, StopReturns, StartServer, SetListener, ListenerStopped, StartListener, listener
  <2>2. CASE StartListener
    BY <2>1, <2>2 DEF StartListener, KeptInv, ListenerKept
  <2>3. CASE SetListener
    BY <2>1, <2>3 DEF SetListener, KeptInv, ListenerKept
  <2>4. CASE ListenerStopped
    BY <2>1, <2>4 DEF ListenerStopped, Stopped, KeptInv, ListenerKept, listener
  <2>5. CASE StopReturns \/ StartServer
    BY <2>1, <2>5 DEF StopReturns, StartServer, KeptInv, ListenerKept, listener
  <2> QED BY <1>1, <2>2, <2>3, <2>4, <2>5 DEF Window
<1>2. CASE Listen
  BY <1>2 DEF Listen, Message, Heard, Unheard, KeptInv, ListenerKept
<1>3. CASE Update \/ \E y \in Types : SetType(y)
  BY <1>3 DEF Update, SetType, KeptInv, ListenerKept, listener
<1>4. CASE UNCHANGED vars \/ (\E t \in Threads : Serve(t)) \/ \E r \in Requests : Request(r)
  BY <1>4 DEF vars, Serve, Request, KeptInv, ListenerKept, listener
<1> QED BY <1>1, <1>2, <1>3, <1>4 DEF Next

(* Without multicast messages a listener is never deleted under its thread,*)
(* however often a client changes its type or its server: stop() times out *)
(* only on a callback that waits for the interpreter.                      *)
THEOREM ListenerAlwaysKept == Spec => []ListenerKept
<1>1. Init => KeptInv
  BY DEF Init, KeptInv, ListenerKept
<1>2. KeptInv => ListenerKept
  BY DEF KeptInv
<1> QED BY <1>1, <1>2, KeptStep, PTL DEF Spec
=============================================================================
