----------------------------- MODULE ManagerProps -----------------------------
(* What the window owes the user about its streams.                        *)
EXTENDS Manager

(* The threads of play() of i can still use the player.                    *)
Running(i) == obj[i].at \in {"connect", "setup", "play", "ending", "ended"}

(* The state is well formed, and a player on the list is that of its uri   *)
(* and has threads (Manager.players, manager.py).                          *)
TypeOK ==
  /\ opts \in Options
  /\ obj \in [Ids -> [at : {"free", "connect", "setup", "play", "ending", "ended", "stop1", "stop2"},
                      reconnect : BOOLEAN, saved : BOOLEAN, sent : BOOLEAN]]
  /\ players \in [Uris -> Ids \cup {None}]
  /\ \A u \in Uris : players[u] # None =>
       players[u][1] = u /\ (Running(players[u]) \/ obj[players[u]].at = "stop1")
  /\ DOMAIN ordinals \subseteq Uris /\ \A u \in DOMAIN ordinals : ordinals[u] \in Nat
  /\ timers \subseteq Uris
  /\ events \in [Uris -> Seq({"reconnect", "stopReconnect"})]
  /\ gui \in [at : {"idle", "closing"}, uri : {None}] \cup [at : {"restart"}, uri : Uris]
  /\ fault \in BOOLEAN /\ clicks \in 0..opts.clicks
  /\ user \in [Cameras -> {"started", "stopped", "stopping"}]

(* A stream of a camera the user has started is never forgotten: it has a  *)
(* player that will ask for a reconnection when it ends, an active timer, a*)
(* timer that is about to be started, or the window is about to play it    *)
(* (mediaPlayingStopped and errorCallback, main.py:662-686 and 752-799).   *)
NeverForgotten ==
  \A c \in Cameras : user[c] = "started" => \A u \in Pair(c) :
    \/ players[u] # None /\ obj[players[u]].reconnect
    \/ u \in timers \/ "reconnect" \in ToSet(events[u])
    \/ \E i \in Attempts(u) : obj[i].at \in {"stop1", "stop2"} /\ obj[i].saved
    \/ gui = [at |-> "restart", uri |-> u]

(* No player is deleted while its threads run, but one that was told to end*)
(* before a restart and needs more than the second playerShutdownWait gives*)
(* it (manager.py:175): otherwise playMedia() of a stream never finds      *)
(* another player of the stream on the list, whose only other owner is this*)
(* list (startPlayer, manager.py:41-56).                                   *)
NeverOverwritten ==
  [][fault' /\ ~fault => gui.at = "restart" /\ \A i \in Listed({gui.uri}) : obj[i].sent]_vars

(* Two cameras are never drawn in the same cell of the grid, and the two   *)
(* streams of a camera have the same one, also after displayRect() has     *)
(* moved them (nextOrdinal, manager.py:58-64, and 316-321).                *)
CellsApart ==
  \A u, v \in DOMAIN ordinals : (ordinals[u] = ordinals[v]) <=> (CameraOf(u) = CameraOf(v))

(* A camera that was stopped while its streams played or waited for their  *)
(* timers stays stopped: no timer, no request for one and no player that is*)
(* not ending is left of it, until the user starts it again (btnStopClicked*)
(* and closeAllStreams).                                                   *)
StopKept ==
  \A c \in Cameras : user[c] = "stopped" => \A u \in Pair(c) :
    /\ u \notin timers /\ events[u] = <<>>
    /\ \A i \in Attempts(u) : obj[i].sent \/ obj[i].at \in {"ended", "stop1", "stop2"}
    /\ \A i \in Attempts(u) : ~obj[i].reconnect /\ ~obj[i].saved

(* A stream the user wants is played in the end, whatever fails before     *)
(* (Timer, main.py:59-101), unless a restart has deleted a player that did *)
(* not end (NeverOverwritten).                                             *)
Reconnects ==
  \A c \in Cameras : \A u \in Pair(c) :
    user[c] = "started" ~> \/ user[c] # "started" \/ fault
                           \/ players[u] # None /\ obj[players[u]].at = "play"

(* The window's thread always comes back from its waits for the players    *)
(* (playerShutdownWait and waitForAllPlayersClosed), also when a player    *)
(* never ends.                                                             *)
GuiReturns == gui # Idle ~> gui = Idle
=============================================================================
