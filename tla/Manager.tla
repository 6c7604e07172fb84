------------------------------- MODULE Manager -------------------------------
(***************************************************************************)
(* The players of the main window: Manager (manager.py) keeps one player   *)
(* per stream, the window starts and stops them at the user's request and, *)
(* with a timer per stream, tries again when a camera is lost (main.py,    *)
(* player.py, camerapanel.py).                                             *)
(*                                                                         *)
(* The thread of the window runs clicks, timers and signals one after the  *)
(* other.  Every player has a thread of its own (module Player), which     *)
(* calls errorCallback and mediaPlayingStarted; a further thread calls     *)
(* mediaPlayingStopped after it.  Their signals are queued to the window.  *)
(* The sections that hold Manager.lock are single steps.                   *)
(***************************************************************************)
EXTENDS Naturals, FiniteSets, SequencesExt, FiniteSetsExt

CONSTANTS
  Cameras, Uris,
  Display, Record, \* [Cameras -> Uris]: the profiles in use, often the same
  MaxPlayers,   \* bound: players of one stream that exist at the same time
  None,         \* no player
  Options,      \* what is tried: records of the fields of opts
  Races,        \* races the run allows: "tick", a timer that fires during an
                \* attempt to connect, which gives up before; "emit", an
                \* ending player overtaken by the connection of the next;
                \* "restart", settings changed before the stream plays
  MaxClicks     \* bound: opts.clicks

Pair(c)     == {Display[c], Record[c]}
CameraOf(u) == CHOOSE c \in Cameras : u \in Pair(c)

(* The player objects: a stream, and which of its players.                 *)
Ids == Uris \X (1..MaxPlayers)

ASSUME ManagerAssumption ==
  /\ Display \in [Cameras -> Uris] /\ Record \in [Cameras -> Uris]
  /\ \A u \in Uris : \E c \in Cameras : u \in Pair(c)
  /\ \A c, d \in Cameras : c # d => Pair(c) \cap Pair(d) = {}
  /\ IsFiniteSet(Uris) /\ MaxPlayers \in Nat /\ MaxClicks \in Nat /\ None \notin Ids
  /\ Options \subseteq [cameras : SUBSET Cameras, clicks : 0..MaxClicks,
                       fails : SUBSET {"connect", "setup", "stream"}]
  /\ Races \subseteq {"tick", "emit", "restart"}

VARIABLES
  opts,         \* the cameras in use, what may fail, and how often the user
                \* does something
  obj,          \* [Ids -> player]: where its threads are, request_reconnect,
                \* the flag as mediaPlayingStopped read it, sent: terminate()
                \* found a reader
  players,      \* Manager.players: [Uris -> Ids \cup {None}]
  ordinals,     \* Manager.ordinals: the cell of each stream in the grid
  timers,       \* the streams whose reconnect timer is active
  events,       \* [Uris -> signals queued to the window for the stream]
  gui,          \* the window's thread: "idle", "closing" in closeAllStreams,
                \* or "restart" in playerShutdownWait of a stream
  fault,        \* a player was deleted while its threads run
  user,         \* what the user last did with a camera: "started", "stopped"
                \* when everything of it was playing or waiting, or "stopping"
  clicks

state == <<obj, players, ordinals, timers, events, gui, fault, user, clicks>>
vars  == <<opts, state>>

Free  == [at |-> "free", reconnect |-> FALSE, saved |-> FALSE, sent |-> FALSE]
Fresh == [Free EXCEPT !.at = "connect", !.reconnect = TRUE]
Idle  == [at |-> "idle", uri |-> None]

Init ==
  /\ opts \in Options
  /\ obj = [i \in Ids |-> Free] /\ players = [u \in Uris |-> None]
  /\ ordinals = <<>> /\ timers = {} /\ events = [u \in Uris |-> <<>>]
  /\ gui = Idle /\ fault = FALSE /\ clicks = 0
  /\ user = [c \in Cameras |-> "stopped"]

Listed(us)    == {players[u] : u \in us} \ {None}
Attempts(u)   == {i \in Ids : i[1] = u /\ obj[i].at # "free"}
Queue(kind, u) == events' = [events EXCEPT ![u] = Append(@, kind)]

-----------------------------------------------------------------------------
(* nextOrdinal(): the first free cell.                                     *)
NextOrdinalPlaying ==                                                   \* mutant
  LET taken == {ordinals[u] : u \in {v \in DOMAIN ordinals : players[v] # None}}
  IN  Min((0..Cardinality(taken)) \ taken)
NextOrdinal ==
  LET taken == {ordinals[u] : u \in DOMAIN ordinals}
  IN  Min((0..Cardinality(taken)) \ taken)

(* playMedia() and startPlayer() for streams of one camera: a stream that  *)
(* has no cell gets that of the camera's other stream or the first free    *)
(* one.  A player that is still listed under the uri is dropped.           *)
CellFor(us) ==
  LET known == Pair(CameraOf(CHOOSE u \in us : TRUE)) \cap DOMAIN ordinals
  IN  IF known # {} THEN ordinals[CHOOSE u \in known : TRUE] ELSE NextOrdinal

Unused(u)    == {k \in 1..MaxPlayers : obj[<<u, k>>].at = "free"}
NewPlayer(u) == <<u, Min(Unused(u))>>
Launch(us) ==
  /\ \A u \in us : Unused(u) # {}
  /\ players' = [u \in Uris |-> IF u \in us THEN NewPlayer(u) ELSE players[u]]
  /\ obj' = [i \in Ids |-> IF i[1] \in us /\ i = NewPlayer(i[1]) THEN Fresh ELSE obj[i]]
  /\ ordinals' = [u \in DOMAIN ordinals \cup us |->
                    IF u \in DOMAIN ordinals THEN ordinals[u] ELSE CellFor(us)]
  /\ fault' = (Listed(us) # {})

(* displayRect(), on every paint and press of the mouse, for each stream   *)
(* with a player or an active timer: the grid has as many rows and columns *)
(* as suit the window, and a stream whose cell is outside gets a free one, *)
(* together with the camera's other stream.                                *)
Grids(n) == {g \in (1..n) \X (1..n) : /\ g[1] * g[2] >= n
                                       /\ (g[1] - 1) * g[2] < n /\ g[1] * (g[2] - 1) < n}
Outside(u) == \E g \in Grids(Cardinality({ordinals[v] : v \in DOMAIN ordinals})) :
                ordinals[u] > g[1] * g[2] - 1

DisplayRectAlone(u) ==                                                  \* mutant
  /\ gui = Idle /\ u \in DOMAIN ordinals /\ (players[u] # None \/ u \in timers) /\ Outside(u)
  /\ ordinals' = [ordinals EXCEPT ![u] = NextOrdinal]
  /\ UNCHANGED <<obj, players, timers, events, gui, fault, user, clicks>>
DisplayRect(u) ==
  /\ gui = Idle /\ u \in DOMAIN ordinals /\ (players[u] # None \/ u \in timers) /\ Outside(u)
  /\ ordinals' = [v \in DOMAIN ordinals |->
                    IF v \in Pair(CameraOf(u)) THEN NextOrdinal ELSE ordinals[v]]
  /\ UNCHANGED <<obj, players, timers, events, gui, fault, user, clicks>>

(* requestShutdown() of some players: without a reader nothing is ended.   *)
Shutdown(some) ==
  [i \in Ids |-> IF i \notin some THEN obj[i]
                 ELSE [obj[i] EXCEPT !.reconnect = FALSE,
                         !.sent = @ \/ obj[i].at \in {"setup", "play", "ending"}]]

-----------------------------------------------------------------------------
(* The thread of player i, play(): the constructor of Reader connects.     *)
Connected(i) ==
  /\ obj[i].at = "connect"
  /\ "emit" \in Races \/ \A j \in Attempts(i[1]) : obj[j].at \notin {"stop1", "stop2"}
  /\ obj' = [obj EXCEPT ![i].at = "setup"]
  /\ UNCHANGED <<players, ordinals, timers, events, gui, fault, user, clicks>>

(* An exception of play() goes to errorCallback: a player that is to       *)
(* reconnect asks for the timer, one that is not takes the camera's other  *)
(* stream down with it.                                                    *)
Fails(i, next) ==
  LET u == i[1]
  IN  /\ IF obj[i].reconnect
         THEN obj' = [obj EXCEPT ![i].at = next] /\ Queue("reconnect", u)
         ELSE /\ obj' = [Shutdown(Listed(Pair(CameraOf(u)))) EXCEPT ![i].at = next]
              /\ UNCHANGED events
      /\ UNCHANGED <<players, ordinals, timers, gui, fault, user, clicks>>

ConnectFails(i) == "connect" \in opts.fails /\ obj[i].at = "connect" /\ Fails(i, "ended")
SetupFails(i)   == "setup" \in opts.fails /\ obj[i].at = "setup" /\ Fails(i, "ending")

(* mediaPlayingStarted.                                                    *)
Started(i) ==
  /\ obj[i].at = "setup"
  /\ obj' = [obj EXCEPT ![i].at = "play"]
  /\ Queue("stopReconnect", i[1])
  /\ UNCHANGED <<players, ordinals, timers, gui, fault, user, clicks>>

(* The threads of the player are joined and the reader deleted, because it *)
(* was terminated or because the stream is lost.                           *)
Finish(i) ==
  /\ obj[i].at = "ending" \/ (obj[i].at = "play" /\ (obj[i].sent \/ "stream" \in opts.fails))
  /\ obj' = [obj EXCEPT ![i].at = "ended"]
  /\ UNCHANGED <<players, ordinals, timers, events, gui, fault, user, clicks>>

(* The thread that runs mediaPlayingStopped() reads request_reconnect, ... *)
StopReadLate(i) ==                                                      \* mutant
  /\ obj[i].at = "ended"
  /\ obj' = [obj EXCEPT ![i] = IF players[i[1]] = None THEN Free
                               ELSE [@ EXCEPT !.at = "stop1", !.saved = FALSE]]
  /\ UNCHANGED <<players, ordinals, timers, events, gui, fault, user, clicks>>
StopRead(i) ==
  /\ obj[i].at = "ended"
  /\ LET q == players[i[1]]
     IN  obj' = [obj EXCEPT ![i] = IF q = None THEN Free
                                   ELSE [@ EXCEPT !.at = "stop1", !.saved = obj[q].reconnect]]
  /\ UNCHANGED <<players, ordinals, timers, events, gui, fault, user, clicks>>

(* ... takes the player off the list with removePlayer(), which reads the  *)
(* flag again to keep or to give up the cell, ...                          *)
StopRemoveKeeps(i) ==                                                   \* mutant
  /\ obj[i].at = "stop1"
  /\ ordinals' = IF obj[i].reconnect THEN ordinals
                 ELSE [v \in DOMAIN ordinals \ {i[1]} |-> ordinals[v]]
  /\ obj' = [obj EXCEPT ![i].at = "stop2"]
  /\ UNCHANGED <<players, timers, events, gui, fault, user, clicks>>
StopRemove(i) ==
  /\ obj[i].at = "stop1"
  /\ LET u == i[1]  q == players[u]
     IN  /\ ordinals' = IF q = None \/ obj[q].reconnect THEN ordinals
                        ELSE [v \in DOMAIN ordinals \ {u} |-> ordinals[v]]
         /\ players' = [players EXCEPT ![u] = None]
  /\ obj' = [obj EXCEPT ![i].at = "stop2"]
  /\ UNCHANGED <<timers, events, gui, fault, user, clicks>>

(* ... and asks for the timer.                                             *)
StopEmit(i) ==
  /\ obj[i].at = "stop2"
  /\ obj' = [obj EXCEPT ![i] = Free]
  /\ IF obj[i].saved THEN Queue("reconnect", i[1]) ELSE UNCHANGED events
  /\ UNCHANGED <<players, ordinals, timers, gui, fault, user, clicks>>

-----------------------------------------------------------------------------
(* The window's thread: startReconnectTimer() and stopReconnectTimer().    *)
HandleEventDrop(u) ==                                                   \* mutant
  /\ gui = Idle /\ events[u] # <<>>
  /\ events' = [events EXCEPT ![u] = Tail(@)]
  /\ timers' = timers \ {u}
  /\ UNCHANGED <<obj, players, ordinals, gui, fault, user, clicks>>
HandleEvent(u) ==
  /\ gui = Idle /\ events[u] # <<>>
  /\ events' = [events EXCEPT ![u] = Tail(@)]
  /\ timers' = IF Head(events[u]) = "reconnect" THEN timers \cup {u} ELSE timers \ {u}
  /\ UNCHANGED <<obj, players, ordinals, gui, fault, user, clicks>>

(* A timer fires, every ten seconds until it is stopped: by then what was  *)
(* on its way has been done.                                               *)
Tick(u) ==
  /\ gui = Idle /\ u \in timers
  /\ "tick" \in Races \/ (events[u] = <<>> /\ \A i \in Attempts(u) : obj[i].at = "play" /\ ~obj[i].sent)
  /\ Launch({u})
  /\ UNCHANGED <<timers, events, gui, user, clicks>>

Click == gui = Idle /\ clicks < opts.clicks /\ clicks' = clicks + 1

(* Play: onItemDoubleClicked() of a camera without players and timers.     *)
StartUnchecked(c) ==                                                    \* mutant
  /\ Click /\ Pair(c) \cap timers = {}
  /\ Launch(Pair(c))
  /\ user' = [user EXCEPT ![c] = "started"]
  /\ UNCHANGED <<timers, events, gui>>
Start(c) ==
  /\ Click /\ Pair(c) \cap timers = {} /\ Listed(Pair(c)) = {}
  /\ Launch(Pair(c))
  /\ user' = [user EXCEPT ![c] = "started"]
  /\ UNCHANGED <<timers, events, gui>>

(* Nothing of the camera is on its way: each stream plays or has no player.*)
Settled(c) ==
  \A u \in Pair(c) : events[u] = <<>> /\ \A i \in Attempts(u) : obj[i].at = "play"

(* Stop: btnStopClicked(), and a double click, of a camera with a player   *)
(* or an active timer.                                                     *)
StopPlayersOnly(c) ==                                                   \* mutant
  /\ Click /\ (Pair(c) \cap timers # {} \/ Listed(Pair(c)) # {})
  /\ obj' = Shutdown(Listed(Pair(c)))
  /\ user' = [user EXCEPT ![c] = IF Settled(c) THEN "stopped" ELSE "stopping"]
  /\ UNCHANGED <<players, ordinals, timers, events, gui, fault>>
Stop(c) ==
  /\ Click /\ (Pair(c) \cap timers # {} \/ Listed(Pair(c)) # {})
  /\ timers' = timers \ Pair(c)
  /\ obj' = Shutdown(Listed(Pair(c)))
  /\ user' = [user EXCEPT ![c] = IF Settled(c) THEN "stopped" ELSE "stopping"]
  /\ UNCHANGED <<players, ordinals, events, gui, fault>>

(* A setting of the stream is changed: playerShutdownWait(), ...           *)
Restart(u) ==
  /\ Click /\ players[u] # None
  /\ "restart" \in Races \/ obj[players[u]].at = "play"
  /\ obj' = Shutdown({players[u]})
  /\ gui' = [at |-> "restart", uri |-> u]
  /\ user' = [user EXCEPT ![CameraOf(u)] = IF @ = "started" THEN @ ELSE "stopping"]
  /\ UNCHANGED <<players, ordinals, timers, events, fault>>

(* ... which gives up after one second, and playMedia().                   *)
RestartGo ==
  /\ gui.at = "restart"
  /\ Launch({gui.uri})
  /\ gui' = Idle
  /\ UNCHANGED <<timers, events, user, clicks>>

(* Stop all: closeAllStreams() ends every timer and player, then waits.    *)
CloseAll ==
  /\ Click /\ Listed(Uris) # {}
  /\ timers' = {}
  /\ obj' = Shutdown(Listed(Uris))
  /\ gui' = [at |-> "closing", uri |-> None]
  /\ user' = [c \in Cameras |-> IF Settled(c) THEN "stopped" ELSE "stopping"]
  /\ UNCHANGED <<players, ordinals, events, fault>>

CloseDone ==
  /\ gui.at = "closing" /\ Listed(Uris) = {}
  /\ gui' = Idle /\ ordinals' = <<>>
  /\ UNCHANGED <<obj, players, timers, events, fault, user, clicks>>

(* waitForAllPlayersClosed() gives up after five seconds.                  *)
CloseTimeoutNever ==                                                    \* mutant
  /\ gui.at = "closing" /\ \A i \in Listed(Uris) : obj[i].at = "ended"
  /\ gui' = Idle
  /\ UNCHANGED <<obj, players, ordinals, timers, events, fault, user, clicks>>
CloseTimeout ==
  /\ gui.at = "closing" /\ Listed(Uris) # {}
  /\ gui' = Idle
  /\ UNCHANGED <<obj, players, ordinals, timers, events, fault, user, clicks>>

(* Nothing is left to do until the user comes back, or what follows is     *)
(* undefined.                                                              *)
Rest ==
  /\ \/ fault
     \/ /\ gui = Idle /\ timers = {} /\ \A u \in Uris : events[u] = <<>>
        /\ \A i \in Ids : obj[i].at \in {"free", "play"} /\ ~obj[i].sent
  /\ UNCHANGED state

PlayerStep(i) ==
  \/ Connected(i) \/ ConnectFails(i) \/ SetupFails(i) \/ Started(i) \/ Finish(i)
  \/ StopRead(i) \/ StopRemove(i) \/ StopEmit(i)

Next ==
  /\ UNCHANGED opts /\ (fault => Rest)
  /\ \/ \E i \in Ids : PlayerStep(i)
     \/ CloseAll \/ CloseDone \/ CloseTimeout \/ RestartGo \/ Rest
     \/ \E u \in Uris : HandleEvent(u) \/ Tick(u) \/ Restart(u) \/ DisplayRect(u)
     \/ \E c \in opts.cameras : Start(c) \/ Stop(c)

Spec == Init /\ [][Next]_vars

(* The threads run, but one that was told to end may hang (StopReturns of  *)
(* PlayerProps); the window handles its events and returns from its waits; *)
(* a camera that is tried for ever answers at last.                        *)
Works(i) ==
  \/ Connected(i) \/ ConnectFails(i) \/ SetupFails(i) \/ Started(i)
  \/ obj[i].at = "ending" /\ Finish(i)
  \/ StopRead(i) \/ StopRemove(i) \/ StopEmit(i)
Fairness ==
  /\ \A u \in Uris :
       /\ WF_state(\E i \in Attempts(u) : Works(i))
       /\ WF_state(HandleEvent(u)) /\ WF_state(Tick(u))
       /\ SF_state(\E i \in Attempts(u) : Connected(i))
       /\ SF_state(\E i \in Attempts(u) : Started(i))
  /\ WF_state(RestartGo) /\ WF_state(CloseDone \/ CloseTimeout)

FairSpec == Spec /\ Fairness
=============================================================================
