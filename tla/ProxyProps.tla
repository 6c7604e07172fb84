------------------------------ MODULE ProxyProps ------------------------------
(* Properties of the server, the listener and the requests of Proxy. *)
EXTENDS Proxy

(* Types, and the server's own bookkeeping: a thread has a request exactly *)
(* while it handles one (Server.h: client is -1 otherwise).                *)
TypeOK ==
  /\ opts \in Options /\ type \in Types
  /\ win \in {"idle", "stopServer", "startServer", "listener", "stopListener", "startListener"}
  /\ {running, wake, lost, moving, lrun, fault} \subseteq BOOLEAN
  /\ sock \in {"none", "listening", "unbound"}
  /\ thr \in [Threads -> {"free", "loop", "poll", "request", "callback", "reply",
                          "alert", "leave", "end"}]
  /\ client \in [Threads -> Requests \cup {NoOne}]
  /\ \A t \in Threads :
       client[t] # NoOne <=> thr[t] \in {"request", "callback", "reply", "alert"}
  /\ started \in 0..MaxStarts
  /\ backlog \in Seq(Requests)
  /\ req \in [Requests -> {"idle", "new", "sent", "answered", "failed"}]
  /\ lis \in {"none", "listen", "callback", "end"}
  /\ heard \in 0..MaxMessages /\ changes \in 0..MaxChanges

Active(t) == thr[t] \notin {"free", "end"}

(* However the proxy type is changed, also when stop() gave up waiting,    *)
(* one thread at most serves: pfds and sock are not protected.             *)
OneServes == \A t, u \in Threads : Active(t) /\ Active(u) => t = u

(* The camera follows the button: when requests connect in the order in    *)
(* which they were made, and the request to stop that is the last one has  *)
(* been answered, the camera does not move, also when requests before it   *)
(* timed out and were handled late, and the server was restarted.          *)
CameraStops ==
  \A r \in Requests :
    /\ ~opts.racing /\ r % 2 = 0 /\ req[r] = "answered"
    /\ \A q \in Requests : q > r => req[q] = "idle"
    => ~moving

(* A listener is deleted under its own thread only when there are          *)
(* messages, whose callback needs the interpreter that stop() holds:       *)
(* without one, stop() and the replacement of the listener are safe.       *)
ListenerKept == fault => heard > 0

(* A request that has connected is answered or its connection closed: no   *)
(* client depends on its own timeout. (For a server started once; see      *)
(* ServerHosts.)                                                           *)
Served == \A r \in Requests :
  ~opts.again /\ req[r] = "sent" ~> req[r] # "sent"

(* A window that is no server any more gives its port back, even when      *)
(* stop() gave up because a request was being handled.                     *)
PortFreed == ~opts.again /\ type # "server" ~> sock = "none"

(* A window that is a server and has finished the change of its type has   *)
(* a thread that serves (README: "The application will host a proxy        *)
(* server and allow other instances ... to connect").                      *)
ServerHosts ==
  type = "server" /\ win = "idle" => \E t \in Threads : Active(t)
=============================================================================
