-------------------------------- MODULE Proxy --------------------------------
(***************************************************************************)
(* The window as a server and as a client of another window: the change of *)
(* the proxy type (proxy.py, main.py), the server with its thread          *)
(* (kankakee/include/Server.h), the multicast listener with its thread     *)
(* (Listener.h), and the requests a client transmits, each in a thread and *)
(* over a connection of its own (Client.h, ptztab.py, server.py).          *)
(*                                                                         *)
(* stop() of the server and of the listener waits, in the thread of the    *)
(* window and with the interpreter locked, until the other thread has      *)
(* closed the socket; a callback, and the report of an exception, need the *)
(* interpreter.                                                            *)
(***************************************************************************)
EXTENDS Naturals, Sequences

CONSTANTS
  Options,      \* what is tried: records of the fields of opts
  MaxStarts,    \* bound: threads of the server
  MaxChanges,   \* bound: changes of the proxy type
  MaxRequests,  \* bound: requests; the odd ones start to move the camera
                \* and the even ones stop it
  MaxMessages   \* bound: multicast messages

ASSUME ProxyAssumption ==
  /\ Options \subseteq [again : BOOLEAN, racing : BOOLEAN]
  /\ {MaxStarts, MaxChanges, MaxRequests, MaxMessages} \subseteq Nat

Types    == {"alone", "client", "server"}
Threads  == 1..MaxStarts
Requests == 1..MaxRequests
NoOne    == 0

VARIABLES
  opts,         \* again: the type is set to server more than once; racing:
                \* the threads of two requests connect in any order
  type,         \* proxyType
  win,          \* the window: "idle", or where it is in setProxyType()
  running, sock, wake, \* of the Server: sock is "none", "listening" or
                \* "unbound" after bind() failed; wake: wake_fd is readable
  lost,         \* a socket that listens and that no variable names
  thr,          \* where the threads of the server are
  client,       \* the request each of them handles
  started,      \* threads started so far
  backlog,      \* requests that have connected and are not accepted
  req,          \* a request, to its client
  moving,       \* the camera moves
  lis, lrun,    \* the listener: its thread and its flag; "none": no object
  fault,        \* a listener was deleted while its thread runs
  heard,        \* messages so far
  changes

server   == <<running, sock, wake, lost, thr, client, started>>
requests == <<backlog, req, moving>>
listener == <<lis, lrun, fault, heard>>
vars == <<opts, type, win, server, requests, listener, changes>>

Init ==
  /\ opts \in Options
  /\ type = "alone" /\ win = "idle"
  /\ running = FALSE /\ sock = "none" /\ wake = FALSE /\ lost = FALSE
  /\ thr = [t \in Threads |-> "free"] /\ client = [t \in Threads |-> NoOne] /\ started = 0
  /\ backlog = <<>> /\ req = [r \in Requests |-> "idle"] /\ moving = FALSE
  /\ lis = "none" /\ lrun = FALSE /\ fault = FALSE /\ heard = 0
  /\ changes = 0

Locked == win \in {"stopServer", "stopListener"}
Goto(t, place) == thr' = [thr EXCEPT ![t] = place]

-----------------------------------------------------------------------------
(* setProxyType(): stopOnvifServer(), startOnvifServer() of a server,      *)
(* startListener() of a client and stopListener() of the others.           *)
StopQuietly == running' = FALSE /\ UNCHANGED wake                \* mutant
Stop == running' = FALSE /\ wake' = TRUE
SetType(t) ==
  /\ win = "idle" /\ t # type /\ changes < MaxChanges
  /\ t = "server" => opts.again \/ started = 0
  /\ type' = t /\ changes' = changes + 1
  /\ IF started > 0 \/ sock # "none"
     THEN win' = "stopServer" /\ Stop /\ UNCHANGED <<sock, lost, thr, client, started>>
     ELSE win' = "startServer" /\ UNCHANGED server
  /\ UNCHANGED <<opts, requests, listener>>

(* Server::stop() returns when the socket is closed, or throws after five  *)
(* seconds, in which a thread that handles no request gets to close it.    *)
Prompt(t) == thr[t] \in {"loop", "poll", "leave"}
StopReturns ==
  /\ win = "stopServer" /\ win' = "startServer"
  /\ sock = "none" \/ \A t \in Threads : ~Prompt(t)
  /\ UNCHANGED <<opts, type, server, requests, listener, changes>>

(* startOnvifServer(); bind() fails while a socket listens on the port.    *)
StartTwice ==                                                    \* mutant
  /\ sock' = "listening" /\ running' = TRUE /\ started' = started + 1
  /\ Goto(started + 1, "loop") /\ UNCHANGED lost
Start ==
  IF sock = "listening" \/ lost
  THEN sock' = "unbound" /\ lost' = TRUE /\ UNCHANGED <<running, started, thr>>
  ELSE /\ sock' = "listening" /\ running' = TRUE /\ started' = started + 1
       /\ Goto(started + 1, "loop") /\ UNCHANGED lost
StartServer ==
  /\ win = "startServer" /\ win' = "listener"
  /\ IF type = "server" /\ ~running /\ started < MaxStarts
     THEN Start /\ UNCHANGED <<wake, client>>
     ELSE UNCHANGED server
  /\ UNCHANGED <<opts, type, requests, listener, changes>>

(* startListener() and stopListener(); an existing listener is stopped and *)
(* then, by startListener(), replaced.                                     *)
SetListener ==
  /\ win = "listener"
  /\ win' = IF lis # "none" THEN "stopListener"
            ELSE IF type = "client" THEN "startListener" ELSE "idle"
  /\ lrun' = FALSE
  /\ UNCHANGED <<opts, type, server, requests, lis, fault, heard, changes>>

(* btnUpdateClicked() of a client.                                         *)
Update ==
  /\ win = "idle" /\ type = "client" /\ changes < MaxChanges
  /\ win' = "listener" /\ changes' = changes + 1
  /\ UNCHANGED <<opts, type, server, requests, listener>>

StoppedAlways == TRUE                                            \* mutant
Stopped == lis \in {"end", "callback"}  \* the socket is closed, or stop() times out
ListenerStopped ==
  /\ win = "stopListener" /\ Stopped
  /\ win' = IF type = "client" THEN "startListener" ELSE "idle"
  /\ UNCHANGED <<opts, type, server, requests, listener, changes>>

StartListener ==
  /\ win = "startListener" /\ win' = "idle"
  /\ fault' = (fault \/ lis \in {"listen", "callback"})
  /\ lis' = "listen" /\ lrun' = TRUE
  /\ UNCHANGED <<opts, type, server, requests, heard, changes>>

Window ==
  \/ StopReturns \/ StartServer \/ SetListener \/ ListenerStopped \/ StartListener

-----------------------------------------------------------------------------
(* Server::receive().                                                      *)
Loop(t) ==
  /\ thr[t] = "loop" /\ Goto(t, IF running THEN "poll" ELSE "leave")
  /\ UNCHANGED <<running, sock, wake, lost, client, started, requests>>

Wake(t) ==
  /\ thr[t] = "poll" /\ wake /\ wake' = FALSE /\ Goto(t, "leave")
  /\ UNCHANGED <<running, sock, lost, client, started, requests>>

AcceptLatest(t) ==                                               \* mutant
  /\ thr[t] = "poll" /\ ~wake /\ sock = "listening" /\ backlog # <<>>
  /\ client' = [client EXCEPT ![t] = backlog[Len(backlog)]]
  /\ backlog' = SubSeq(backlog, 1, Len(backlog) - 1) /\ Goto(t, "request")
  /\ UNCHANGED <<running, sock, wake, lost, started, req, moving>>
Accept(t) ==
  /\ thr[t] = "poll" /\ ~wake /\ sock = "listening" /\ backlog # <<>>
  /\ client' = [client EXCEPT ![t] = Head(backlog)] /\ backlog' = Tail(backlog)
  /\ Goto(t, "request")
  /\ UNCHANGED <<running, sock, wake, lost, started, req, moving>>

(* getClientRequest(): the request, or an exception.                       *)
GetRequest(t) ==
  /\ thr[t] = "request" /\ \E next \in {"callback", "alert"} : Goto(t, next)
  /\ UNCHANGED <<running, sock, wake, lost, client, started, requests>>

(* serverCallback(): ServerProtocols.callback(), which moves the camera.   *)
Callback(t) ==
  /\ thr[t] = "callback" /\ ~Locked
  /\ moving' = (client[t] % 2 = 1) /\ Goto(t, "reply")
  /\ UNCHANGED <<running, sock, wake, lost, client, started, backlog, req>>

(* sendServerResponse() and close(); or an exception, reported by alert(). *)
FinishKeeps(t, answer) ==                                        \* mutant
  /\ req' = IF req[client[t]] = "sent" THEN [req EXCEPT ![client[t]] = answer] ELSE req
  /\ Goto(t, "loop")
  /\ UNCHANGED <<running, sock, wake, lost, client, started, backlog, moving>>
Finish(t, answer) ==
  /\ req' = IF req[client[t]] = "sent" THEN [req EXCEPT ![client[t]] = answer] ELSE req
  /\ client' = [client EXCEPT ![t] = NoOne] /\ Goto(t, "loop")
  /\ UNCHANGED <<running, sock, wake, lost, started, backlog, moving>>
Reply(t) == thr[t] = "reply" /\ Finish(t, "answered")
Alert(t) == thr[t] = "alert" /\ ~Locked /\ Finish(t, "failed")

(* Past the loop: the socket is closed, and with it the connections that   *)
(* nobody has accepted.                                                    *)
LeaveOpen(t) == Goto(t, "end") /\ UNCHANGED <<sock, backlog, req>>   \* mutant
Leave(t) ==
  /\ Goto(t, "end") /\ sock' = "none"
  /\ IF sock = "listening"
     THEN /\ backlog' = <<>>
          /\ req' = [r \in Requests |->
               IF req[r] = "sent" /\ \E i \in DOMAIN backlog : backlog[i] = r
               THEN "failed" ELSE req[r]]
     ELSE UNCHANGED <<backlog, req>>
CloseSocket(t) ==
  /\ thr[t] = "leave" /\ Leave(t)
  /\ UNCHANGED <<running, wake, lost, client, started, moving>>

Serve(t) ==
  /\ \/ Loop(t) \/ Wake(t) \/ Accept(t) \/ GetRequest(t) \/ Callback(t)
     \/ Reply(t) \/ Alert(t) \/ CloseSocket(t)
  /\ UNCHANGED <<opts, type, win, listener, changes>>

-----------------------------------------------------------------------------
(* Client::transmit() at a press or release of a button, and its thread:   *)
(* run() connects, sends and waits for the answer or until it times out.   *)
Transmit(r) ==
  /\ req[r] = "idle" /\ \A q \in 1..(r - 1) : req[q] # "idle"
  /\ opts.racing \/ \A q \in 1..(r - 1) : req[q] # "new"
  /\ req' = [req EXCEPT ![r] = "new"] /\ UNCHANGED backlog

Connect(r) ==
  /\ req[r] = "new"
  /\ IF sock = "listening" \/ lost
     THEN /\ req' = [req EXCEPT ![r] = "sent"]
          /\ backlog' = IF lost THEN backlog ELSE Append(backlog, r)
     ELSE req' = [req EXCEPT ![r] = "failed"] /\ UNCHANGED backlog

GiveUp(r) ==
  /\ req[r] = "sent" /\ req' = [req EXCEPT ![r] = "failed"] /\ UNCHANGED backlog

Request(r) ==
  /\ Transmit(r) \/ Connect(r) \/ GiveUp(r)
  /\ UNCHANGED <<opts, type, win, server, moving, listener, changes>>

-----------------------------------------------------------------------------
(* Listener::listen(): a message, its callback, and the end of the loop.   *)
Message ==
  /\ lis = "listen" /\ heard < MaxMessages
  /\ lis' = "callback" /\ heard' = heard + 1
  /\ UNCHANGED <<lrun, fault>>
Heard ==
  /\ lis = "callback" /\ ~Locked /\ lis' = "listen"
  /\ UNCHANGED <<lrun, fault, heard>>
Unheard ==
  /\ lis = "listen" /\ ~lrun /\ lis' = "end"
  /\ UNCHANGED <<lrun, fault, heard>>

Listen ==
  /\ Message \/ Heard \/ Unheard
  /\ UNCHANGED <<opts, type, win, server, requests, changes>>

Next ==
  \/ \E t \in Types : SetType(t)
  \/ Update \/ Window \/ Listen
  \/ \E t \in Threads : Serve(t)
  \/ \E r \in Requests : Request(r)

Spec == Init /\ [][Next]_vars
FairSpec ==
  /\ Spec /\ WF_vars(Window)
  /\ \A t \in Threads : WF_vars(Serve(t))
  /\ WF_vars((Heard \/ Unheard) /\ UNCHANGED <<opts, type, win, server, requests, changes>>)
=============================================================================
