---------------------------- MODULE ManagerProofs ----------------------------
(***************************************************************************)
(* Proofs about module Manager, for all cameras and streams, any number of *)
(* players and any number of clicks: cells are not shared, and, without    *)
(* the races the assumption names, only a restart deletes a player that    *)
(* runs, no stream the user wants is forgotten and a stop is final.        *)
(***************************************************************************)
EXTENDS ManagerProps, FiniteSetTheorems, WellFoundedInduction, SequenceTheorems, TLAPS

Places == {"free", "connect", "setup", "play", "ending", "ended", "stop1", "stop2"}
States == [at : Places, reconnect : BOOLEAN, saved : BOOLEAN, sent : BOOLEAN]
Kinds  == {"reconnect", "stopReconnect"}

LEMMA Cameras1 ==
  /\ \A c \in Cameras : Pair(c) \subseteq Uris /\ Pair(c) # {}
  /\ \A c \in Cameras : \A u \in Pair(c) : CameraOf(u) = c
  /\ \A u \in Uris : CameraOf(u) \in Cameras /\ u \in Pair(CameraOf(u))
<1>1. \A c \in Cameras : Pair(c) \subseteq Uris /\ Pair(c) # {}
  BY ManagerAssumption DEF Pair
<1>2. \A u \in Uris : CameraOf(u) \in Cameras /\ u \in Pair(CameraOf(u))
  BY ManagerAssumption DEF CameraOf
<1>3. ASSUME NEW c \in Cameras, NEW u \in Pair(c) PROVE CameraOf(u) = c
  <2>1. u \in Uris
    BY <1>1
  <2> QED BY <1>2, <2>1, ManagerAssumption
<1> QED BY <1>1, <1>2, <1>3

(* A set of numbers has a least one.                                       *)
LEMMA MinIsIn == ASSUME NEW S \in SUBSET Nat, S # {} PROVE Min(S) \in S
<1>1. PICK x \in S : \A y \in S : ~ (<<y, x>> \in OpToRel(<, Nat))
  BY NatLessThanWellFounded, WFMin
<1>2. \A y \in S : ~(y < x)
  BY <1>1 DEF OpToRel
<1>3. \A y \in S : x <= y
  BY <1>2
<1> QED BY <1>3 DEF Min

(* nextOrdinal() is a free cell.                                           *)
LEMMA NextIsFree ==
  ASSUME DOMAIN ordinals \subseteq Uris, ordinals \in [DOMAIN ordinals -> Nat]
  PROVE  NextOrdinal \in Nat /\ \A u \in DOMAIN ordinals : ordinals[u] # NextOrdinal
<1> DEFINE taken == {ordinals[u] : u \in DOMAIN ordinals}
           cells == (0..Cardinality(taken)) \ taken
<1>1. IsFiniteSet(DOMAIN ordinals)
  BY ManagerAssumption, FS_Subset
<1>2. ordinals \in Surjection(DOMAIN ordinals, taken)
  BY DEF Surjection
<1>3. IsFiniteSet(taken)
  BY <1>1, <1>2, FS_Surjection
<1>4. Cardinality(taken) \in Nat
  BY <1>3, FS_CardinalityType
<1>5. cells # {}
  <2> SUFFICES ASSUME 0..Cardinality(taken) \subseteq taken PROVE FALSE
    OBVIOUS
  <2> HIDE DEF taken
  <2>1. Cardinality(0..Cardinality(taken)) = Cardinality(taken) + 1
    BY <1>4, FS_Interval
  <2>2. Cardinality(0..Cardinality(taken)) <= Cardinality(taken)
    BY <1>3, FS_Subset
  <2> QED BY <1>4, <2>1, <2>2
<1>6. Min(cells) \in cells
  <2>1. cells \in SUBSET Nat
    BY <1>4
  <2> HIDE DEF cells
  <2> QED BY <1>5, <2>1, MinIsIn
<1>7. NextOrdinal = Min(cells)
  BY DEF NextOrdinal
<1>8. NextOrdinal \in Nat /\ NextOrdinal \notin taken
  <2> HIDE DEF taken
  <2> QED BY <1>4, <1>6, <1>7
<1> QED BY <1>8

-----------------------------------------------------------------------------
(* The cells of the grid.                                                  *)
CellInv ==
  DOMAIN ordinals \subseteq Uris /\ ordinals \in [DOMAIN ordinals -> Nat] /\ CellsApart

(* Streams of one camera, as playMedia() gets them.                        *)
OfOne(us) == us # {} /\ \E c \in Cameras : us \subseteq Pair(c)

LEMMA CellKept ==
  ASSUME CellInv,
         DOMAIN ordinals' \subseteq DOMAIN ordinals,
         ordinals' = [u \in DOMAIN ordinals' |-> ordinals[u]]
  PROVE  CellInv'
BY DEF CellInv, CellsApart

(* displayRect() moves both streams of a camera to a free cell.            *)
LEMMA CellMoved ==
  ASSUME CellInv, NEW u \in DOMAIN ordinals, DisplayRect(u)
  PROVE  CellInv'
<1>1. /\ DOMAIN ordinals' = DOMAIN ordinals /\ ordinals' = [v \in DOMAIN ordinals' |-> ordinals'[v]]
      /\ \A v \in DOMAIN ordinals :
           ordinals'[v] = IF v \in Pair(CameraOf(u)) THEN NextOrdinal ELSE ordinals[v]
  BY DEF DisplayRect
<1>2. NextOrdinal \in Nat /\ \A v \in DOMAIN ordinals : ordinals[v] # NextOrdinal
  BY NextIsFree DEF CellInv
<1>3. \A v \in DOMAIN ordinals : v \in Pair(CameraOf(u)) <=> CameraOf(v) = CameraOf(u)
  BY Cameras1 DEF CellInv
<1>4. DOMAIN ordinals' \subseteq Uris /\ ordinals' \in [DOMAIN ordinals' -> Nat]
  BY <1>1, <1>2 DEF CellInv
<1>5. CellsApart'
  <2> SUFFICES ASSUME NEW v \in DOMAIN ordinals, NEW w \in DOMAIN ordinals
               PROVE  ordinals'[v] = ordinals'[w] <=> CameraOf(v) = CameraOf(w)
    BY <1>1 DEF CellsApart
  <2>1. ordinals[v] = ordinals[w] <=> CameraOf(v) = CameraOf(w)
    BY DEF CellInv, CellsApart
  <2> QED BY <1>1, <1>2, <1>3, <2>1
<1> QED BY <1>4, <1>5 DEF CellInv

LEMMA CellLaunch ==
  ASSUME CellInv, NEW us, OfOne(us), Launch(us)
  PROVE  CellInv'
<1>1. PICK c \in Cameras : us \subseteq Pair(c)
  BY DEF OfOne
<1>2. us \subseteq Uris /\ \A u \in us : CameraOf(u) = c
  BY <1>1, Cameras1
<1>3. CameraOf(CHOOSE u \in us : TRUE) = c
  BY <1>2 DEF OfOne
<1>4. /\ DOMAIN ordinals' = DOMAIN ordinals \cup us
      /\ \A u \in DOMAIN ordinals : ordinals'[u] = ordinals[u]
      /\ \A u \in us \ DOMAIN ordinals : ordinals'[u] = CellFor(us)
      /\ ordinals' = [u \in DOMAIN ordinals' |-> ordinals'[u]]
  BY DEF Launch
<1>5. /\ CellFor(us) \in Nat
      /\ \A v \in DOMAIN ordinals : ordinals[v] = CellFor(us) <=> CameraOf(v) = c
  <2> DEFINE known == Pair(c) \cap DOMAIN ordinals
  <2>1. CASE known # {}
    <3>1. PICK k \in known : CellFor(us) = ordinals[k]
      BY <1>3, <2>1 DEF CellFor
    <3>2. CameraOf(k) = c
      BY Cameras1
    <3> QED BY <3>1, <3>2 DEF CellInv, CellsApart
  <2>2. CASE known = {}
    <3>1. CellFor(us) = NextOrdinal
      BY <1>3, <2>2 DEF CellFor
    <3>2. \A v \in DOMAIN ordinals : CameraOf(v) # c
      BY <2>2, Cameras1 DEF CellInv
    <3> QED BY <3>1, <3>2, NextIsFree DEF CellInv
  <2> QED BY <2>1, <2>2
<1>6. DOMAIN ordinals' \subseteq Uris /\ ordinals' \in [DOMAIN ordinals' -> Nat]
  BY <1>2, <1>4, <1>5 DEF CellInv
<1>7. CellsApart'
  <2> SUFFICES ASSUME NEW u \in DOMAIN ordinals', NEW v \in DOMAIN ordinals'
               PROVE  ordinals'[u] = ordinals'[v] <=> CameraOf(u) = CameraOf(v)
    BY DEF CellsApart
  <2>1. CASE u \in DOMAIN ordinals /\ v \in DOMAIN ordinals
    BY <1>4, <2>1 DEF CellInv, CellsApart
  <2>2. CASE u \notin DOMAIN ordinals /\ v \in DOMAIN ordinals
    BY <1>2, <1>4, <1>5, <2>2
  <2>3. CASE u \in DOMAIN ordinals /\ v \notin DOMAIN ordinals
    BY <1>2, <1>4, <1>5, <2>3
  <2>4. CASE u \notin DOMAIN ordinals /\ v \notin DOMAIN ordinals
    BY <1>2, <1>4, <2>4
  <2> QED BY <2>1, <2>2, <2>3, <2>4
<1> QED BY <1>6, <1>7 DEF CellInv

-----------------------------------------------------------------------------
(* What the steps do to the players.                                       *)
LEMMA Moved ==
  ASSUME obj \in [Ids -> States], NEW i \in Ids, NEW next \in Places,
         obj' = [obj EXCEPT ![i].at = next]
  PROVE  /\ obj' \in [Ids -> States] /\ \A j \in Ids : j # i => obj'[j] = obj[j]
         /\ obj'[i].at = next /\ obj'[i].reconnect = obj[i].reconnect
         /\ obj'[i].saved = obj[i].saved /\ obj'[i].sent = obj[i].sent
BY DEF States

LEMMA ShutdownOf ==
  ASSUME obj \in [Ids -> States], NEW some
  PROVE  /\ Shutdown(some) \in [Ids -> States]
         /\ \A i \in Ids : /\ Shutdown(some)[i].at = obj[i].at
                           /\ Shutdown(some)[i].saved = obj[i].saved
                           /\ i \notin some => Shutdown(some)[i] = obj[i]
                           /\ i \in some => /\ Shutdown(some)[i].reconnect = FALSE
                                            /\ obj[i].at = "play" => Shutdown(some)[i].sent
                           /\ obj[i].sent => Shutdown(some)[i].sent
<1> SUFFICES ASSUME NEW i \in Ids
             PROVE  /\ Shutdown(some)[i] \in States
                    /\ Shutdown(some)[i].at = obj[i].at
                    /\ Shutdown(some)[i].saved = obj[i].saved
                    /\ i \notin some => Shutdown(some)[i] = obj[i]
                    /\ i \in some => /\ Shutdown(some)[i].reconnect = FALSE
                                     /\ obj[i].at = "play" => Shutdown(some)[i].sent
                    /\ obj[i].sent => Shutdown(some)[i].sent
  BY DEF Shutdown
<1> DEFINE o == obj[i]
           b == o.sent \/ o.at \in {"setup", "play", "ending"}
<1>1. o \in States /\ b \in BOOLEAN /\ (o.sent => b) /\ (o.at = "play" => b)
  BY DEF States
<1>2. CASE i \notin some
  BY <1>1, <1>2 DEF Shutdown
<1>3. CASE i \in some
  <2>1. Shutdown(some)[i] = [o EXCEPT !.reconnect = FALSE, !.sent = b]
    BY <1>3 DEF Shutdown
  <2> HIDE DEF o, b
  <2>2. [o EXCEPT !.reconnect = FALSE, !.sent = b] \in States
    BY <1>1 DEF States
  <2>3. /\ [o EXCEPT !.reconnect = FALSE, !.sent = b].at = o.at
        /\ [o EXCEPT !.reconnect = FALSE, !.sent = b].saved = o.saved
        /\ [o EXCEPT !.reconnect = FALSE, !.sent = b].reconnect = FALSE
        /\ [o EXCEPT !.reconnect = FALSE, !.sent = b].sent = b
    BY <1>1 DEF States
  <2> QED BY <1>1, <1>3, <2>1, <2>2, <2>3 DEF o
<1> QED BY <1>2, <1>3

LEMMA FreeStates == Free \in States /\ Fresh \in States /\ Free.at = "free"
                    /\ Fresh.at = "connect" /\ Fresh.reconnect = TRUE
                    /\ Free.saved = FALSE /\ Fresh.saved = FALSE
BY DEF Free, Fresh, States, Places

LEMMA NewIsUnused ==
  ASSUME NEW u \in Uris, Unused(u) # {}
  PROVE  NewPlayer(u) \in Ids /\ NewPlayer(u)[1] = u /\ obj[NewPlayer(u)].at = "free"
<1>1. Unused(u) \in SUBSET Nat
  BY ManagerAssumption DEF Unused
<1>2. Min(Unused(u)) \in Unused(u)
  BY <1>1, MinIsIn
<1> QED BY <1>2 DEF NewPlayer, Unused, Ids

LEMMA Launched ==
  ASSUME obj \in [Ids -> States], players \in [Uris -> Ids \cup {None}],
         NEW us \in SUBSET Uris, Launch(us)
  PROVE  /\ obj' \in [Ids -> States] /\ players' \in [Uris -> Ids \cup {None}]
         /\ \A u \in Uris \ us : players'[u] = players[u]
         /\ \A u \in us : /\ players'[u] \in Ids /\ players'[u][1] = u
                          /\ obj[players'[u]].at = "free" /\ obj'[players'[u]] = Fresh
         /\ \A i \in Ids : obj'[i] = obj[i] \/ (i[1] \in us /\ i = players'[i[1]])
<1>1. \A u \in us : NewPlayer(u) \in Ids /\ NewPlayer(u)[1] = u /\ obj[NewPlayer(u)].at = "free"
  BY NewIsUnused DEF Launch
<1>2. /\ \A u \in us : players'[u] = NewPlayer(u)
      /\ \A u \in Uris \ us : players'[u] = players[u]
      /\ players' \in [Uris -> Ids \cup {None}]
  BY <1>1 DEF Launch
<1>3. \A i \in Ids : obj'[i] = IF i[1] \in us /\ i = NewPlayer(i[1]) THEN Fresh ELSE obj[i]
  BY DEF Launch
<1>4. obj' \in [Ids -> States]
  BY FreeStates DEF Launch
<1>5. \A u \in us : obj'[players'[u]] = Fresh
  BY <1>1, <1>2, <1>3
<1> QED BY <1>1, <1>2, <1>3, <1>4, <1>5

-----------------------------------------------------------------------------
(* The types.  A player on the list is that of its uri, and has threads.   *)
Listing ==
  \A u \in Uris : players[u] # None =>
    players[u][1] = u /\ obj[players[u]].at \notin {"free", "stop2"}

PlayerTypes == obj \in [Ids -> States] /\ players \in [Uris -> Ids \cup {None}] /\ Listing
CellTypes   == DOMAIN ordinals \subseteq Uris /\ \A u \in DOMAIN ordinals : ordinals[u] \in Nat
Guis == [at : {"idle", "closing"}, uri : {None}] \cup [at : {"restart"}, uri : Uris]
RestTypes ==
  /\ opts \in Options /\ timers \subseteq Uris /\ events \in [Uris -> Seq(Kinds)]
  /\ gui \in Guis /\ fault \in BOOLEAN /\ clicks \in 0..opts.clicks
  /\ user \in [Cameras -> {"started", "stopped", "stopping"}]
TypeInv == PlayerTypes /\ CellTypes /\ RestTypes

LEMMA TypeParts == TypeOK <=> TypeInv
<1>1. ASSUME obj \in [Ids -> States], players \in [Uris -> Ids \cup {None}], NEW u \in Uris,
             players[u] # None
      PROVE  Running(players[u]) \/ obj[players[u]].at = "stop1"
               <=> obj[players[u]].at \notin {"free", "stop2"}
  <2>1. players[u] \in Ids
    BY <1>1
  <2>2. obj[players[u]].at \in Places
    BY <1>1, <2>1 DEF States
  <2> QED BY <2>2 DEF Running, Places
<1>2. obj \in [Ids -> States] /\ players \in [Uris -> Ids \cup {None}] =>
        (Listing <=> \A u \in Uris : players[u] # None =>
           players[u][1] = u /\ (Running(players[u]) \/ obj[players[u]].at = "stop1"))
  BY <1>1 DEF Listing
<1> QED BY <1>2, Zenon DEF TypeOK, TypeInv, PlayerTypes, CellTypes, RestTypes, States, Places, Kinds, Guis

LEMMA TypeInit == Init => TypeInv
<1> SUFFICES ASSUME Init PROVE TypeInv
  OBVIOUS
<1>1. PlayerTypes
  BY FreeStates DEF Init, PlayerTypes, Listing
<1>2. CellTypes
  BY DEF Init, CellTypes
<1>3. opts \in Options /\ opts.clicks \in Nat
  BY ManagerAssumption DEF Init
<1>4. fault \in BOOLEAN
  BY Zenon DEF Init
<1>5. events \in [Uris -> Seq(Kinds)]
  BY EmptySeq DEF Init
<1>6. RestTypes
  BY <1>3, <1>4, <1>5 DEF Init, RestTypes, Guis, Idle
<1> QED BY <1>1, <1>2, <1>6 DEF TypeInv

(* Steps of a player that stays in use, and steps of the window that only  *)
(* tell players to end.                                                    *)
LEMMA PlayersMoved ==
  ASSUME PlayerTypes, NEW i \in Ids, obj[i].at \notin {"free", "stop2"},
         NEW next \in Places \ {"free", "stop2"},
         obj' = [obj EXCEPT ![i].at = next], players' = players
  PROVE  PlayerTypes'
<1>1. obj' \in [Ids -> States] /\ obj'[i].at = next /\ \A j \in Ids : j # i => obj'[j] = obj[j]
  BY Moved DEF PlayerTypes
<1> QED BY <1>1 DEF PlayerTypes, Listing

LEMMA PlayersShut ==
  ASSUME PlayerTypes, NEW some, obj' = Shutdown(some), players' = players
  PROVE  PlayerTypes'
<1>1. obj' \in [Ids -> States] /\ \A j \in Ids : obj'[j].at = obj[j].at
  BY ShutdownOf DEF PlayerTypes
<1> QED BY <1>1 DEF PlayerTypes, Listing

LEMMA PlayersLaunched ==
  ASSUME PlayerTypes, NEW us \in SUBSET Uris, Launch(us)
  PROVE  PlayerTypes'
<1>1. /\ obj' \in [Ids -> States] /\ players' \in [Uris -> Ids \cup {None}]
      /\ \A u \in Uris \ us : players'[u] = players[u]
      /\ \A u \in us : /\ players'[u] \in Ids /\ players'[u][1] = u
                       /\ obj[players'[u]].at = "free" /\ obj'[players'[u]] = Fresh
      /\ \A i \in Ids : obj'[i] = obj[i] \/ (i[1] \in us /\ i = players'[i[1]])
  BY Launched DEF PlayerTypes
<1>2. ASSUME NEW u \in Uris \ us, players'[u] # None
      PROVE  players'[u][1] = u /\ obj'[players'[u]].at \notin {"free", "stop2"}
  <2>1. players'[u] = players[u] /\ players[u] \in Ids /\ players[u][1] = u
    BY <1>1, <1>2 DEF PlayerTypes, Listing
  <2>2. obj'[players[u]] = obj[players[u]]
    BY <1>1, <2>1
  <2> QED BY <1>2, <2>1, <2>2 DEF PlayerTypes, Listing
<1>3. Listing'
  BY <1>1, <1>2, FreeStates DEF Listing
<1> QED BY <1>1, <1>3 DEF PlayerTypes

(* What StopRead leaves of the player.                                     *)
LEMMA ReadStop ==
  ASSUME PlayerTypes, NEW i \in Ids, StopRead(i)
  PROVE  /\ UNCHANGED players /\ obj' \in [Ids -> States] /\ obj[i].at = "ended"
         /\ \A j \in Ids : j # i => obj'[j] = obj[j]
         /\ players[i[1]] = None => obj'[i] = Free
         /\ players[i[1]] # None => /\ obj'[i].at = "stop1" /\ obj'[i].sent = obj[i].sent
                                    /\ obj'[i].saved = obj[players[i[1]]].reconnect
                                    /\ obj'[i].reconnect = obj[i].reconnect
<1> DEFINE q == players[i[1]]
           o == obj[i]
           b == obj[q].reconnect
<1>1. UNCHANGED players /\ obj[i].at = "ended" /\ o \in States /\ obj \in [Ids -> States]
  BY DEF StopRead, PlayerTypes
<1>2. CASE q = None
  <2>1. obj' = [obj EXCEPT ![i] = Free]
    BY <1>2 DEF StopRead
  <2> QED BY <1>1, <1>2, <2>1, FreeStates
<1>3. CASE q # None
  <2>1. obj' = [obj EXCEPT ![i] = [o EXCEPT !.at = "stop1", !.saved = b]]
    BY <1>3 DEF StopRead
  <2>2. b \in BOOLEAN
    <3>1. i[1] \in Uris
      BY DEF Ids
    <3>2. q \in Ids
      BY <1>3, <3>1 DEF PlayerTypes
    <3>3. obj[q] \in States
      BY <1>1, <3>2
    <3> QED BY <3>3 DEF States
  <2>3. /\ [o EXCEPT !.at = "stop1", !.saved = b] \in States
        /\ [o EXCEPT !.at = "stop1", !.saved = b].at = "stop1"
        /\ [o EXCEPT !.at = "stop1", !.saved = b].saved = b
        /\ [o EXCEPT !.at = "stop1", !.saved = b].sent = o.sent
        /\ [o EXCEPT !.at = "stop1", !.saved = b].reconnect = o.reconnect
    <3> HIDE DEF o, b
    <3> QED BY <1>1, <2>2 DEF States, Places
  <2> HIDE DEF b
  <2>4. obj' \in [Ids -> States] /\ obj'[i] = [o EXCEPT !.at = "stop1", !.saved = b]
    BY <1>1, <2>1, <2>3
  <2>5. \A j \in Ids : j # i => obj'[j] = obj[j]
    BY <1>1, <2>1
  <2> QED BY <1>1, <1>3, <2>3, <2>4, <2>5 DEF b
<1> QED BY <1>2, <1>3

LEMMA RemovedStop ==
  ASSUME PlayerTypes, NEW i \in Ids, StopRemove(i)
  PROVE  /\ obj' \in [Ids -> States] /\ obj[i].at = "stop1" /\ obj'[i].at = "stop2"
         /\ obj'[i].saved = obj[i].saved /\ obj'[i].sent = obj[i].sent
         /\ obj'[i].reconnect = obj[i].reconnect
         /\ \A j \in Ids : j # i => obj'[j] = obj[j]
         /\ i[1] \in Uris /\ players'[i[1]] = None
         /\ \A u \in Uris : u # i[1] => players'[u] = players[u]
         /\ players' \in [Uris -> Ids \cup {None}]
<1>1. obj' = [obj EXCEPT ![i].at = "stop2"] /\ obj[i].at = "stop1" /\ "stop2" \in Places
  BY DEF StopRemove, Places
<1>2. i[1] \in Uris /\ players' = [players EXCEPT ![i[1]] = None]
  BY DEF StopRemove, Ids
<1> QED BY <1>1, <1>2, Moved DEF PlayerTypes

(* The effect of a step of player i on it and on the other players.        *)
LEMMA PlayersStep ==
  ASSUME PlayerTypes, NEW i \in Ids, PlayerStep(i)
  PROVE  PlayerTypes'
<1>1. obj \in [Ids -> States] /\ players \in [Uris -> Ids \cup {None}] /\ Listing
  BY DEF PlayerTypes
<1>2. CASE Connected(i) \/ Started(i) \/ Finish(i)
  BY <1>2, PlayersMoved DEF Connected, Started, Finish, Places
<1>3. CASE ConnectFails(i) \/ SetupFails(i)
  <2>1. PICK next \in {"ended", "ending"} :
          /\ obj[i].at \in {"connect", "setup"} /\ players' = players
          /\ \/ obj' = [obj EXCEPT ![i].at = next]
             \/ \E some : obj' = [Shutdown(some) EXCEPT ![i].at = next]
    BY <1>3 DEF ConnectFails, SetupFails, Fails
  <2>2. CASE obj' = [obj EXCEPT ![i].at = next]
    BY <2>1, <2>2, PlayersMoved DEF Places
  <2>3. CASE \E some : obj' = [Shutdown(some) EXCEPT ![i].at = next]
    <3>1. PICK some : obj' = [Shutdown(some) EXCEPT ![i].at = next]
      BY <2>3
    <3> DEFINE s == Shutdown(some)
    <3>2. s \in [Ids -> States] /\ \A j \in Ids : s[j].at = obj[j].at
      BY <1>1, ShutdownOf
    <3> HIDE DEF s
    <3>3. obj' \in [Ids -> States] /\ obj'[i].at = next /\ \A j \in Ids : j # i => obj'[j] = s[j]
      BY <3>1, <3>2 DEF s, States, Places
    <3> QED BY <1>1, <2>1, <3>2, <3>3 DEF PlayerTypes, Listing
  <2> QED BY <2>1, <2>2, <2>3
<1>4. CASE StopRead(i)
  <2>1. ASSUME NEW u \in Uris, players[u] # None
        PROVE  players[u][1] = u /\ obj'[players[u]].at \notin {"free", "stop2"}
    BY <1>1, <1>4, <2>1, ReadStop DEF Listing
  <2> QED BY <1>4, <2>1, ReadStop DEF PlayerTypes, Listing
<1>5. CASE StopRemove(i)
  <2>1. ASSUME NEW u \in Uris, players'[u] # None
        PROVE  players'[u][1] = u /\ obj'[players'[u]].at \notin {"free", "stop2"}
    BY <1>1, <1>5, <2>1, RemovedStop DEF Listing
  <2> QED BY <1>5, <2>1, RemovedStop DEF PlayerTypes, Listing
<1>6. CASE StopEmit(i)
  <2>1. obj' = [obj EXCEPT ![i] = Free] /\ players' = players /\ obj[i].at = "stop2"
    BY <1>6 DEF StopEmit
  <2> QED BY <1>1, <2>1, FreeStates DEF PlayerTypes, Listing
<1> QED BY <1>2, <1>3, <1>4, <1>5, <1>6 DEF PlayerStep

LEMMA Queued ==
  ASSUME events \in [Uris -> Seq(Kinds)], NEW u \in Uris, NEW kind \in Kinds, Queue(kind, u)
  PROVE  /\ events' \in [Uris -> Seq(Kinds)] /\ events'[u] = Append(events[u], kind)
         /\ \A v \in Uris : v # u => events'[v] = events[v]
<1>1. events' = [events EXCEPT ![u] = Append(events[u], kind)]
  BY DEF Queue
<1>2. Append(events[u], kind) \in Seq(Kinds)
  BY AppendProperties
<1> QED BY <1>1, <1>2

LEMMA Handled ==
  ASSUME RestTypes, NEW u \in Uris, HandleEvent(u)
  PROVE  /\ events' \in [Uris -> Seq(Kinds)] /\ events[u] # <<>>
         /\ events'[u] = Tail(events[u])
         /\ \A v \in Uris : v # u => events'[v] = events[v]
<1>1. events[u] \in Seq(Kinds) /\ events[u] # <<>> /\ events' = [events EXCEPT ![u] = Tail(events[u])]
  BY DEF HandleEvent, RestTypes
<1>2. Tail(events[u]) \in Seq(Kinds)
  BY <1>1, HeadTailProperties
<1> QED BY <1>1, <1>2 DEF RestTypes

(* One more click, where one is left.                                      *)
LEMMA Clicked == RestTypes /\ Click => clicks' \in 0..opts.clicks /\ clicks' # clicks
<1> SUFFICES ASSUME RestTypes, Click PROVE clicks' \in 0..opts.clicks /\ clicks' # clicks
  OBVIOUS
<1>1. opts.clicks \in Nat
  BY ManagerAssumption DEF RestTypes
<1> QED BY <1>1 DEF RestTypes, Click

(* The types hold, and the cells are not shared: one step.                 *)
LEMMA TypeStep ==
  ASSUME TypeInv, CellInv, Next
  PROVE  TypeInv' /\ CellInv'
<1>1. /\ PlayerTypes /\ RestTypes /\ CellInv /\ opts' = opts
      /\ opts \in Options /\ timers \subseteq Uris /\ events \in [Uris -> Seq(Kinds)]
      /\ gui \in Guis /\ fault \in BOOLEAN /\ clicks \in 0..opts.clicks
      /\ user \in [Cameras -> {"started", "stopped", "stopping"}]
      /\ opts.cameras \subseteq Cameras /\ Idle \in Guis
  BY ManagerAssumption DEF TypeInv, RestTypes, Next, Guis, Idle
<1> DEFINE Ok == PlayerTypes' /\ RestTypes' /\ CellInv'
<1> SUFFICES Ok
  BY DEF TypeInv, CellInv, CellTypes
<1>2. ASSUME NEW i \in Ids, PlayerStep(i) PROVE Ok
  <2>1. PlayerTypes'
    BY <1>1, <1>2, PlayersStep
  <2>2. CASE Connected(i) \/ Finish(i) \/ StopRead(i)
    BY <1>1, <2>1, <2>2, CellKept DEF Connected, Finish, StopRead, RestTypes, CellInv, CellsApart
  <2>3. i[1] \in Uris
    BY DEF Ids
  <2>4. CASE ConnectFails(i) \/ SetupFails(i)
    <3>1. /\ UNCHANGED <<ordinals, timers, gui, fault, user, clicks>>
          /\ Queue("reconnect", i[1]) \/ UNCHANGED events
      BY <2>4 DEF ConnectFails, SetupFails, Fails
    <3>2. events' \in [Uris -> Seq(Kinds)]
      BY <1>1, <2>3, <3>1, Queued DEF Kinds
    <3> QED BY <1>1, <2>1, <3>1, <3>2 DEF RestTypes, CellInv, CellsApart
  <2>5. CASE Started(i)
    <3>1. events' \in [Uris -> Seq(Kinds)]
      BY <1>1, <2>3, <2>5, Queued DEF Started, Kinds
    <3> QED BY <1>1, <2>1, <2>5, <3>1 DEF Started, RestTypes, CellInv, CellsApart
  <2>6. CASE StopRemove(i)
    <3>1. /\ UNCHANGED <<timers, events, gui, fault, user, clicks>>
          /\ \/ ordinals' = ordinals
             \/ ordinals' = [v \in DOMAIN ordinals \ {i[1]} |-> ordinals[v]]
      BY <2>6 DEF StopRemove
    <3>2. CellInv'
      <4>1. CASE ordinals' = ordinals
        BY <1>1, <4>1 DEF CellInv, CellsApart
      <4>2. CASE ordinals' = [v \in DOMAIN ordinals \ {i[1]} |-> ordinals[v]]
        BY <1>1, <4>2, CellKept
      <4> QED BY <3>1, <4>1, <4>2
    <3> QED BY <1>1, <2>1, <3>1, <3>2 DEF RestTypes
  <2>7. CASE StopEmit(i)
    <3>1. /\ UNCHANGED <<ordinals, timers, gui, fault, user, clicks>>
          /\ Queue("reconnect", i[1]) \/ UNCHANGED events
      BY <2>7 DEF StopEmit
    <3>2. events' \in [Uris -> Seq(Kinds)]
      BY <1>1, <2>3, <3>1, Queued DEF Kinds
    <3> QED BY <1>1, <2>1, <3>1, <3>2 DEF RestTypes, CellInv, CellsApart
  <2> QED BY <1>2, <2>2, <2>4, <2>5, <2>6, <2>7 DEF PlayerStep
<1>3. ASSUME NEW us, OfOne(us), Launch(us), UNCHANGED <<timers, events>>, gui' \in Guis,
             clicks' \in 0..opts.clicks, user' \in [Cameras -> {"started", "stopped", "stopping"}]
      PROVE  Ok
  <2>1. us \in SUBSET Uris
    BY <1>3, Cameras1 DEF OfOne
  <2>2. PlayerTypes' /\ CellInv'
    BY <1>1, <1>3, <2>1, PlayersLaunched, CellLaunch
  <2>3. fault' \in BOOLEAN
    BY <1>3, Zenon DEF Launch
  <2> QED BY <1>1, <1>3, <2>2, <2>3 DEF RestTypes
<1>4. ASSUME NEW some, obj' = Shutdown(some), timers' \subseteq Uris, gui' \in Guis,
             UNCHANGED <<players, ordinals, events, fault>>,
             clicks' \in 0..opts.clicks, user' \in [Cameras -> {"started", "stopped", "stopping"}]
      PROVE  Ok
  <2>1. PlayerTypes'
    BY <1>1, <1>4, PlayersShut
  <2> QED BY <1>1, <1>4, <2>1 DEF RestTypes, CellInv, CellsApart
<1>5. ASSUME NEW u \in Uris, HandleEvent(u) PROVE Ok
  BY <1>1, <1>5, Handled DEF HandleEvent, PlayerTypes, Listing, RestTypes, CellInv, CellsApart
<1>6. ASSUME NEW u \in Uris, Tick(u) PROVE Ok
  BY <1>1, <1>3, <1>6, Cameras1 DEF Tick, OfOne
<1>7. ASSUME NEW u \in Uris, Restart(u) PROVE Ok
  <2>1. clicks' \in 0..opts.clicks
    BY <1>1, <1>7, Clicked DEF Restart
  <2>2. gui' \in Guis /\ user' \in [Cameras -> {"started", "stopped", "stopping"}]
    BY <1>1, <1>7, Cameras1 DEF Restart, Guis
  <2> QED BY <1>1, <1>4, <1>7, <2>1, <2>2 DEF Restart
<1>8. ASSUME NEW c \in opts.cameras, Start(c) PROVE Ok
  <2>1. clicks' \in 0..opts.clicks /\ OfOne(Pair(c))
    BY <1>1, <1>8, Clicked, Cameras1 DEF Start, OfOne
  <2>2. user' \in [Cameras -> {"started", "stopped", "stopping"}]
    BY <1>1, <1>8 DEF Start
  <2> QED BY <1>1, <1>3, <1>8, <2>1, <2>2 DEF Start
<1>9. ASSUME NEW c \in opts.cameras, Stop(c) PROVE Ok
  <2>1. clicks' \in 0..opts.clicks
    BY <1>1, <1>9, Clicked DEF Stop
  <2>2. user' \in [Cameras -> {"started", "stopped", "stopping"}] /\ gui' \in Guis
    BY <1>1, <1>9 DEF Stop, Click
  <2> QED BY <1>1, <1>4, <1>9, <2>1, <2>2 DEF Stop
<1>10. CASE RestartGo
  <2>1. gui.uri \in Uris
    BY <1>1, <1>10 DEF RestartGo, Guis
  <2>2. OfOne({gui.uri})
    BY <2>1, Cameras1 DEF OfOne
  <2>3. /\ Launch({gui.uri}) /\ UNCHANGED <<timers, events, user, clicks>> /\ gui' \in Guis
        /\ clicks' \in 0..opts.clicks /\ user' \in [Cameras -> {"started", "stopped", "stopping"}]
    BY <1>1, <1>10 DEF RestartGo
  <2> QED BY <1>3, <2>2, <2>3
<1>11. CASE CloseAll
  <2>1. clicks' \in 0..opts.clicks
    BY <1>1, <1>11, Clicked DEF CloseAll
  <2>2. user' \in [Cameras -> {"started", "stopped", "stopping"}] /\ gui' \in Guis
    BY <1>1, <1>11 DEF CloseAll, Guis
  <2> QED BY <1>1, <1>4, <1>11, <2>1, <2>2 DEF CloseAll
<1>12. CASE CloseDone
  <2>1. CellInv'
    BY <1>12, EmptySeq DEF CloseDone, CellInv, CellsApart
  <2> QED BY <1>1, <1>12, <2>1 DEF CloseDone, PlayerTypes, Listing, RestTypes
<1>13. CASE CloseTimeout \/ Rest
  BY <1>1, <1>13 DEF CloseTimeout, Rest, state, PlayerTypes, Listing, RestTypes, CellInv, CellsApart
<1>14. ASSUME NEW u \in Uris, DisplayRect(u) PROVE Ok
  <2>1. CellInv'
    BY <1>1, <1>14, CellMoved DEF DisplayRect
  <2> QED BY <1>1, <1>14, <2>1 DEF DisplayRect, PlayerTypes, Listing, RestTypes
<1> QED BY <1>2, <1>5, <1>6, <1>7, <1>8, <1>9, <1>10, <1>11, <1>12, <1>13, <1>14 DEF Next

LEMMA CellInit == Init => CellInv
BY EmptySeq DEF Init, CellInv, CellsApart

LEMMA TypeAlways == Spec => [](TypeInv /\ CellInv)
<1>1. TypeInv /\ CellInv /\ UNCHANGED vars => TypeInv' /\ CellInv'
  BY DEF vars, state, TypeInv, PlayerTypes, Listing, CellTypes, RestTypes, CellInv, CellsApart
<1> QED BY <1>1, TypeInit, CellInit, TypeStep, PTL DEF Spec

(* The players on the list are those of their streams and have threads,    *)
(* whatever races happen.                                                  *)
THEOREM ManagerTypes == Spec => []TypeOK
BY TypeAlways, TypeParts, PTL

(* Cells are never shared, however many cameras there are and whatever     *)
(* races happen, also when displayRect() moves a camera from outside the   *)
(* grid: nextOrdinal() is not a cell that a stream keeps.                  *)
THEOREM CellsNeverShared == Spec => []CellsApart
<1>1. CellInv => CellsApart
  BY DEF CellInv
<1> QED BY <1>1, TypeAlways, PTL

-----------------------------------------------------------------------------
(* Without the races, for each stream u: only the player on the list and   *)
(* the last calls of players that have been taken off it are left (Owned); *)
(* a player connects when those have been made (Single); Answer is what    *)
(* the timer of u will be when the queued signals have been handled.       *)
Answer(u) ==
  IF events[u] # <<>> THEN events[u][Len(events[u])]
  ELSE IF u \in timers THEN "reconnect" ELSE "stopReconnect"
Restarted(u) == gui = [at |-> "restart", uri |-> u]

Owned(u)  == \A i \in Ids : i[1] = u /\ obj[i].at \notin {"free", "stop2"} => players[u] = i
Single(u) == \A i, j \in Ids :
  i[1] = u /\ j[1] = u /\ i # j /\ obj[i].at \in {"setup", "play"} => obj[j].at = "free"
SavedLate(u) == \A i \in Ids : i[1] = u /\ obj[i].saved => obj[i].at \in {"stop1", "stop2"}
Quieted(u) ==
  players[u] # None /\ obj[players[u]].at = "play" => Answer(u) = "stopReconnect"

(* A wanted stream has a player that will ask for the next, or a timer, or *)
(* a request for one that nothing revokes.                                 *)
Emits(u)  == \E i \in Ids : i[1] = u /\ obj[i].at = "stop2" /\ obj[i].saved
Lives(u)  == obj[players[u]].reconnect /\ (obj[players[u]].at = "stop1" => obj[players[u]].saved)
Wanted(u) ==
  user[CameraOf(u)] = "started" =>
    \/ Restarted(u) \/ (players[u] # None /\ Lives(u))
    \/ (players[u] = None /\ (Answer(u) = "reconnect" \/ Emits(u)))
Ends(i) ==
  /\ obj[i].at \in {"free", "ended", "stop1", "stop2"} \/ (obj[i].at = "play" /\ obj[i].sent)
  /\ obj[i].at # "free" => ~obj[i].reconnect /\ ~obj[i].saved
Stopped(u) ==
  user[CameraOf(u)] = "stopped" =>
    u \notin timers /\ events[u] = <<>> /\ \A i \in Ids : i[1] = u => Ends(i)
Awaited(u) ==
  Restarted(u) => /\ user[CameraOf(u)] # "stopped"
                  /\ players[u] # None => /\ obj[players[u]].sent
                                          /\ obj[players[u]].at \in {"play", "ended", "stop1"}

UriInv(u) ==
  /\ Owned(u) /\ Single(u) /\ SavedLate(u) /\ Quieted(u) /\ Wanted(u) /\ Stopped(u) /\ Awaited(u)
OrderInv == TypeInv /\ ~fault /\ \A u \in Uris : UriInv(u)

(* Steps about other streams.                                              *)
LEMMA UriKept ==
  ASSUME PlayerTypes, NEW u \in Uris, UriInv(u),
         \A i \in Ids : i[1] = u => obj'[i] = obj[i],
         players'[u] = players[u], events'[u] = events[u], u \in timers' <=> u \in timers,
         Restarted(u)' <=> Restarted(u),
         user'[CameraOf(u)] \in {user[CameraOf(u)], "stopping"}
  PROVE  UriInv(u)'
<1>1. players[u] # None => players[u] \in Ids /\ players[u][1] = u
  BY DEF PlayerTypes, Listing
<1>2. Answer(u)' = Answer(u)
  BY DEF Answer
<1>3. Owned(u)' /\ Single(u)' /\ SavedLate(u)'
  BY DEF UriInv, Owned, Single, SavedLate
<1>4. Quieted(u)'
  BY <1>1, <1>2 DEF UriInv, Quieted
<1>5. Emits(u)' <=> Emits(u)
  BY DEF Emits
<1>6. Wanted(u)'
  BY <1>1, <1>2, <1>5 DEF UriInv, Wanted, Lives
<1>7. Stopped(u)'
  BY DEF UriInv, Stopped, Ends
<1>8. Awaited(u)'
  BY <1>1 DEF UriInv, Awaited
<1> QED BY <1>3, <1>4, <1>6, <1>7, <1>8 DEF UriInv

(* Players are told to end, of a camera that is not wanted any more or is  *)
(* to be played again.                                                     *)
LEMMA UriShut ==
  ASSUME PlayerTypes, NEW u \in Uris, UriInv(u), players'[u] = players[u],
         \A i \in Ids : i[1] = u =>
           /\ obj'[i].at = obj[i].at /\ obj'[i].saved = obj[i].saved
           /\ obj[i].sent => obj'[i].sent,
         events'[u] = events[u], u \in timers' => u \in timers,
         user'[CameraOf(u)] = "started" => Restarted(u)', Stopped(u)',
         Restarted(u)' => /\ user'[CameraOf(u)] # "stopped"
                          /\ \/ Restarted(u)
                             \/ players[u] # None /\ obj[players[u]].at = "play" /\ obj'[players[u]].sent
  PROVE  UriInv(u)'
<1>1. players[u] # None => players[u] \in Ids /\ players[u][1] = u
  BY DEF PlayerTypes, Listing
<1>2. Owned(u)' /\ Single(u)' /\ SavedLate(u)'
  BY DEF UriInv, Owned, Single, SavedLate
<1>3. Quieted(u)'
  BY <1>1 DEF UriInv, Quieted, Answer
<1>4. Wanted(u)'
  BY DEF Wanted
<1>5. Awaited(u)'
  BY <1>1 DEF UriInv, Awaited
<1> QED BY <1>2, <1>3, <1>4, <1>5 DEF UriInv

(* A new player for a stream that has none.                                *)
LEMMA UriLaunch ==
  ASSUME PlayerTypes, NEW us \in SUBSET Uris, NEW u \in us, UriInv(u), Launch(us),
         players[u] = None, ~Restarted(u)', user'[CameraOf(u)] # "stopped"
  PROVE  UriInv(u)'
<1>1. /\ players'[u] \in Ids /\ players'[u][1] = u /\ obj'[players'[u]] = Fresh
      /\ obj[players'[u]].at = "free"
      /\ \A i \in Ids : i[1] = u => obj'[i] = obj[i] \/ i = players'[u]
  BY Launched DEF PlayerTypes
<1>2. \A i \in Ids : i[1] = u => obj[i].at \in {"free", "stop2"}
  BY ManagerAssumption DEF UriInv, Owned
<1>3. Fresh.at = "connect" /\ Fresh.reconnect = TRUE /\ Fresh.saved = FALSE
  BY FreeStates
<1>4. Owned(u)' /\ Single(u)' /\ SavedLate(u)' /\ Quieted(u)'
  BY <1>1, <1>2, <1>3 DEF UriInv, Owned, Single, SavedLate, Quieted
<1>5. Wanted(u)' /\ Stopped(u)' /\ Awaited(u)'
  BY <1>1, <1>3, ManagerAssumption DEF Wanted, Lives, Stopped, Awaited
<1> QED BY <1>4, <1>5 DEF UriInv

(* The signals.                                                            *)
LEMMA AnswerQueued ==
  ASSUME events \in [Uris -> Seq(Kinds)], NEW u \in Uris, NEW kind \in Kinds, Queue(kind, u)
  PROVE  Answer(u)' = kind /\ events'[u] # <<>>
<1>1. events'[u] = Append(events[u], kind) /\ events[u] \in Seq(Kinds)
  BY Queued
<1>2. /\ events'[u] # <<>> /\ Len(events'[u]) = Len(events[u]) + 1
      /\ events'[u][Len(events[u]) + 1] = kind
  BY <1>1, AppendProperties
<1> QED BY <1>2 DEF Answer

LEMMA AnswerHandled ==
  ASSUME RestTypes, NEW u \in Uris, HandleEvent(u)
  PROVE  Answer(u)' = Answer(u)
<1>1. /\ events[u] \in Seq(Kinds) /\ events[u] # <<>> /\ events'[u] = Tail(events[u])
      /\ timers' = IF Head(events[u]) = "reconnect" THEN timers \cup {u} ELSE timers \ {u}
  BY Handled DEF RestTypes, HandleEvent
<1> DEFINE s == events[u]
           t == events'[u]
<1>2. /\ Head(s) \in Kinds /\ Head(s) = s[1] /\ t \in Seq(Kinds) /\ Len(s) \in Nat \ {0}
      /\ Len(t) = Len(s) - 1 /\ \A i \in 1..Len(t) : t[i] = s[i + 1]
  BY <1>1, HeadTailProperties, LenProperties, EmptySeq
<1>3. CASE t = <<>>
  <2>1. Len(s) = 1
    BY <1>2, <1>3, EmptySeq
  <2> QED BY <1>1, <1>2, <1>3, <2>1 DEF Answer, Kinds
<1>4. CASE t # <<>>
  <2>1. Len(t) \in 1..Len(t) /\ Len(t) + 1 = Len(s)
    BY <1>2, <1>4, EmptySeq
  <2>2. t[Len(t)] = s[Len(s)]
    BY <1>2, <2>1
  <2> QED BY <1>1, <1>4, <2>2 DEF Answer
<1> QED BY <1>3, <1>4

(* A player of u connects, plays or ends.                                  *)
LEMMA PlayerSteps ==
  ASSUME OrderInv, Races = {}, NEW i \in Ids, NEW u \in Uris, u = i[1],
         Connected(i) \/ Started(i) \/ Finish(i)
  PROVE  UriInv(u)'
<1>1. /\ obj \in [Ids -> States] /\ Listing /\ PlayerTypes /\ UriInv(u)
      /\ events \in [Uris -> Seq(Kinds)]
  BY DEF OrderInv, TypeInv, PlayerTypes, RestTypes
<1>2. PICK next \in Places \ {"free", "stop1", "stop2"} :
        /\ obj' = [obj EXCEPT ![i].at = next] /\ obj[i].at \in {"connect", "setup", "play", "ending"}
        /\ next = "setup" => obj[i].at = "connect" /\ \A j \in Attempts(u) : obj[j].at \notin {"stop1", "stop2"}
        /\ next = "play" => obj[i].at = "setup" /\ Queue("stopReconnect", u)
        /\ next # "play" => UNCHANGED events
        /\ next = "ended" => obj[i].at \in {"play", "ending"}
        /\ next \in {"setup", "play", "ended"}
        /\ UNCHANGED <<players, timers, gui, user>>
  BY DEF Connected, Started, Finish, Places
<1>3. /\ obj'[i].at = next /\ obj'[i].reconnect = obj[i].reconnect /\ obj'[i].saved = obj[i].saved
      /\ obj'[i].sent = obj[i].sent /\ \A j \in Ids : j # i => obj'[j] = obj[j]
  BY <1>1, <1>2, Moved
<1>4. players[u] = i /\ players[u] # None
  BY <1>1, <1>2, ManagerAssumption DEF UriInv, Owned
<1>5. \A j \in Ids : j[1] = u /\ j # i => obj[j].at \in {"free", "stop2"}
  BY <1>1, <1>4 DEF UriInv, Owned
<1>6. Owned(u)' /\ SavedLate(u)'
  BY <1>1, <1>2, <1>3, <1>4 DEF UriInv, Owned, SavedLate
<1>7. Single(u)'
  <2>1. CASE next = "ended"
    BY <1>3, <1>5, <2>1 DEF Single
  <2>2. CASE next = "setup"
    <3>1. \A j \in Ids : j[1] = u /\ j # i => obj[j].at = "free"
      BY <1>2, <1>5, <2>2 DEF Attempts
    <3> QED BY <1>3, <3>1 DEF Single
  <2>3. CASE next = "play"
    BY <1>1, <1>2, <1>3, <1>5, <2>3 DEF UriInv, Single
  <2> QED BY <1>2, <2>1, <2>2, <2>3
<1>8. Quieted(u)'
  BY <1>1, <1>2, <1>3, <1>4, AnswerQueued DEF Quieted, Kinds
<1>9. Wanted(u)'
  BY <1>1, <1>2, <1>3, <1>4 DEF UriInv, Wanted, Restarted, Lives
<1>10. Stopped(u)'
  BY <1>1, <1>2, <1>3 DEF UriInv, Stopped, Ends
<1>11. Awaited(u)'
  BY <1>1, <1>2, <1>3, <1>4 DEF UriInv, Awaited, Restarted
<1> QED BY <1>6, <1>7, <1>8, <1>9, <1>10, <1>11 DEF UriInv

(* It is taken off the list and makes its last calls.                      *)
LEMMA PlayerStops ==
  ASSUME OrderInv, NEW i \in Ids, NEW u \in Uris, u = i[1], StopRead(i) \/ StopRemove(i)
  PROVE  UriInv(u)'
<1>1. /\ obj \in [Ids -> States] /\ Listing /\ PlayerTypes /\ UriInv(u)
      /\ None \notin Ids /\ obj[i].at \in {"ended", "stop1"}
  BY ManagerAssumption DEF OrderInv, TypeInv, PlayerTypes, StopRead, StopRemove
<1>2. players[u] = i /\ players[u] # None /\ UNCHANGED <<timers, events, gui, user>>
  BY <1>1 DEF UriInv, Owned, StopRead, StopRemove
<1>3. \A j \in Ids : j[1] = u /\ j # i => obj[j].at \in {"free", "stop2"}
  BY <1>1, <1>2 DEF UriInv, Owned
<1>4. /\ obj'[i].at = (IF StopRead(i) THEN "stop1" ELSE "stop2")
      /\ obj'[i].reconnect = obj[i].reconnect
      /\ obj'[i].sent = obj[i].sent
      /\ obj'[i].saved = (IF StopRead(i) THEN obj[i].reconnect ELSE obj[i].saved)
      /\ \A j \in Ids : j # i => obj'[j] = obj[j]
      /\ players'[u] = (IF StopRead(i) THEN i ELSE None)
      /\ ~StopRead(i) => obj[i].at = "stop1"
  BY <1>1, <1>2, ReadStop, RemovedStop
<1>5. Owned(u)' /\ Single(u)' /\ SavedLate(u)' /\ Quieted(u)'
  BY <1>1, <1>3, <1>4 DEF UriInv, Owned, Single, SavedLate, Quieted
<1>6. Wanted(u)'
  <2>1. CASE StopRead(i)
    BY <1>1, <1>2, <1>4, <2>1 DEF UriInv, Wanted, Restarted, Lives
  <2>2. CASE ~StopRead(i)
    BY <1>1, <1>2, <1>4, <2>2 DEF UriInv, Wanted, Restarted, Lives, Emits
  <2> QED BY <2>1, <2>2
<1>7. Stopped(u)' /\ Awaited(u)'
  BY <1>1, <1>2, <1>4 DEF UriInv, Stopped, Ends, Awaited, Restarted
<1> QED BY <1>5, <1>6, <1>7 DEF UriInv

LEMMA PlayerEmits ==
  ASSUME OrderInv, NEW i \in Ids, NEW u \in Uris, u = i[1], StopEmit(i)
  PROVE  UriInv(u)'
<1>1. /\ obj \in [Ids -> States] /\ Listing /\ PlayerTypes /\ UriInv(u)
      /\ events \in [Uris -> Seq(Kinds)] /\ obj[i].at = "stop2"
      /\ obj' = [obj EXCEPT ![i] = Free] /\ UNCHANGED <<players, timers, gui, user>>
      /\ IF obj[i].saved THEN Queue("reconnect", u) ELSE UNCHANGED events
  BY DEF OrderInv, TypeInv, PlayerTypes, RestTypes, StopEmit
<1>2. obj'[i] = Free /\ \A j \in Ids : j # i => obj'[j] = obj[j]
  BY <1>1
<1>3. players[u] # i /\ (players[u] # None => players[u] \in Ids /\ players[u][1] = u)
  <2>1. players[u] # None => players[u] \in Ids /\ players[u][1] = u /\ obj[players[u]].at # "stop2"
    BY <1>1 DEF Listing, PlayerTypes
  <2>2. i # None
    BY ManagerAssumption
  <2> QED BY <1>1, <2>1, <2>2
<1>4. obj[i].saved => Answer(u)' = "reconnect"
  BY <1>1, AnswerQueued DEF Kinds
<1>5. ~obj[i].saved => Answer(u)' = Answer(u)
  BY <1>1 DEF Answer
<1>6. Owned(u)' /\ Single(u)' /\ SavedLate(u)'
  BY <1>1, <1>2, FreeStates DEF UriInv, Owned, Single, SavedLate
<1>7. Quieted(u)'
  <2>1. players[u] # None /\ obj[players[u]].at = "play" => FALSE
    BY <1>1, <1>3 DEF UriInv, Single
  <2> QED BY <1>1, <1>2, <1>3, <2>1 DEF Quieted
<1>8. Wanted(u)'
  <2>1. CASE obj[i].saved
    BY <1>1, <1>2, <1>3, <1>4, <2>1 DEF UriInv, Wanted, Restarted, Lives
  <2>2. CASE ~obj[i].saved
    BY <1>1, <1>2, <1>3, <1>5, <2>2 DEF UriInv, Wanted, Restarted, Lives, Emits
  <2> QED BY <2>1, <2>2
<1>9. Stopped(u)'
  BY <1>1, <1>2, FreeStates DEF UriInv, Stopped, Ends
<1>10. Awaited(u)'
  BY <1>1, <1>2, <1>3 DEF UriInv, Awaited, Restarted
<1> QED BY <1>6, <1>7, <1>8, <1>9, <1>10 DEF UriInv

(* An exception of play(), and what it does to every stream v.             *)
LEMMA PlayerFails ==
  ASSUME OrderInv, NEW i \in Ids, ConnectFails(i) \/ SetupFails(i), NEW v \in Uris
  PROVE  UriInv(v)'
<1> DEFINE u == i[1]
<1>1. /\ obj \in [Ids -> States] /\ Listing /\ PlayerTypes /\ UriInv(u) /\ UriInv(v) /\ u \in Uris
      /\ events \in [Uris -> Seq(Kinds)] /\ user \in [Cameras -> {"started", "stopped", "stopping"}]
      /\ None \notin Ids /\ CameraOf(u) \in Cameras /\ CameraOf(v) \in Cameras
  BY ManagerAssumption, Cameras1 DEF OrderInv, TypeInv, PlayerTypes, RestTypes, Ids
<1>2. PICK next \in {"ended", "ending"} :
        /\ obj[i].at \in {"connect", "setup"} /\ UNCHANGED <<players, timers, gui, user>>
        /\ IF obj[i].reconnect
           THEN obj' = [obj EXCEPT ![i].at = next] /\ Queue("reconnect", u)
           ELSE /\ obj' = [Shutdown(Listed(Pair(CameraOf(u)))) EXCEPT ![i].at = next]
                /\ UNCHANGED events
  BY DEF ConnectFails, SetupFails, Fails
<1>3. players[u] = i /\ players[u] # None
  BY <1>1, <1>2 DEF UriInv, Owned
<1>4. \A j \in Ids : j[1] = u /\ j # i => obj[j].at \in {"free", "stop2"}
  BY <1>1, <1>3 DEF UriInv, Owned
<1>5. user[CameraOf(u)] # "stopped" /\ ~Restarted(u)
  BY <1>1, <1>2, <1>3 DEF UriInv, Stopped, Ends, Awaited
<1>6. CASE obj[i].reconnect
  <2>1. /\ obj'[i].at = next /\ obj'[i].reconnect = obj[i].reconnect /\ obj'[i].saved = obj[i].saved
        /\ \A j \in Ids : j # i => obj'[j] = obj[j]
    BY <1>1, <1>2, <1>6, Moved DEF Places
  <2>2. CASE v = u
    <3>1. Answer(u)' = "reconnect"
      BY <1>1, <1>2, <1>6, AnswerQueued DEF Kinds
    <3>2. Owned(u)' /\ Single(u)' /\ SavedLate(u)' /\ Quieted(u)'
      BY <1>1, <1>2, <1>3, <1>4, <2>1 DEF UriInv, Owned, Single, SavedLate, Quieted
    <3>3. Wanted(u)' /\ Stopped(u)' /\ Awaited(u)'
      BY <1>2, <1>3, <1>5, <1>6, <2>1 DEF Wanted, Lives, Stopped, Awaited, Restarted
    <3> QED BY <2>2, <3>2, <3>3 DEF UriInv
  <2>3. CASE v # u
    <3>1. events'[v] = events[v]
      BY <1>1, <1>2, <1>6, <2>3, Queued DEF Kinds
    <3> QED BY <1>1, <1>2, <2>1, <2>3, <3>1, UriKept DEF Restarted
  <2> QED BY <2>2, <2>3
<1>7. CASE ~obj[i].reconnect
  <2> DEFINE some == Listed(Pair(CameraOf(u)))
             o == Shutdown(some)
  <2>1. user[CameraOf(u)] = "stopping"
    BY <1>1, <1>3, <1>5, <1>7 DEF UriInv, Wanted, Lives
  <2>2. /\ o \in [Ids -> States]
        /\ \A j \in Ids : /\ o[j].at = obj[j].at /\ o[j].saved = obj[j].saved
                          /\ j \notin some => o[j] = obj[j]
                          /\ obj[j].sent => o[j].sent
    BY <1>1, ShutdownOf
  <2>3. obj' = [o EXCEPT ![i].at = next]
    BY <1>2, <1>7
  <2> HIDE DEF o
  <2>4. obj'[i].at = next /\ obj'[i].saved = o[i].saved /\ \A j \in Ids : j # i => obj'[j] = o[j]
    BY <2>2, <2>3 DEF States
  <2>5. CASE v = u
    <3>3. \A j \in Ids : j # i => obj'[j].at = obj[j].at /\ obj'[j].saved = obj[j].saved
      BY <2>2, <2>4
    <3>4. obj'[i].at \notin {"setup", "play", "free", "stop2"} /\ obj'[i].saved = obj[i].saved
      BY <1>2, <2>2, <2>4
    <3>1. Owned(u)' /\ Single(u)' /\ SavedLate(u)' /\ Quieted(u)'
      <4> HIDE DEF u, some
      <4>1. Owned(u)'
        BY <1>1, <1>2, <1>3, <1>4, <3>3, <3>4 DEF UriInv, Owned
      <4>2. Single(u)'
        BY <1>1, <1>4, <3>3, <3>4 DEF Single
      <4>3. SavedLate(u)'
        BY <1>1, <1>2, <3>3, <3>4 DEF UriInv, SavedLate
      <4>4. Quieted(u)'
        BY <1>2, <1>3, <3>4 DEF Quieted
      <4> QED BY <4>1, <4>2, <4>3, <4>4
    <3>2. Wanted(u)' /\ Stopped(u)' /\ Awaited(u)'
      BY <1>2, <1>5, <2>1 DEF Wanted, Stopped, Awaited, Restarted
    <3> QED BY <2>5, <3>1, <3>2 DEF UriInv
  <2>6. CASE v # u /\ CameraOf(v) = CameraOf(u)
    <3>1. Stopped(v)'
      BY <1>2, <2>1, <2>6 DEF Stopped
    <3>2. \A j \in Ids : j[1] = v => /\ obj'[j].at = obj[j].at /\ obj'[j].saved = obj[j].saved
                                     /\ obj[j].sent => obj'[j].sent
      BY <2>2, <2>4, <2>6
    <3>3. Restarted(v)' <=> Restarted(v)
      BY <1>2 DEF Restarted
    <3> QED BY <1>1, <1>2, <1>7, <2>1, <2>6, <3>1, <3>2, <3>3, UriShut
  <2>7. CASE CameraOf(v) # CameraOf(u)
    <3>1. \A j \in some : CameraOf(j[1]) = CameraOf(u)
      <4> SUFFICES ASSUME NEW w \in Pair(CameraOf(u)), players[w] # None
                   PROVE  CameraOf(players[w][1]) = CameraOf(u)
        BY DEF Listed
      <4>1. w \in Uris /\ CameraOf(w) = CameraOf(u)
        BY <1>1, Cameras1
      <4> QED BY <1>1, <4>1 DEF Listing
    <3>2. \A j \in Ids : j[1] = v => obj'[j] = obj[j]
      BY <2>2, <2>4, <2>7, <3>1
    <3>3. Restarted(v)' <=> Restarted(v)
      BY <1>2 DEF Restarted
    <3> QED BY <1>1, <1>2, <1>7, <3>2, <3>3, UriKept
  <2> QED BY <2>5, <2>6, <2>7
<1> QED BY <1>6, <1>7

(* A step of a player, for every stream.                                   *)
LEMMA OrderPlayer ==
  ASSUME OrderInv, Races = {}, NEW i \in Ids, PlayerStep(i), NEW v \in Uris
  PROVE  UriInv(v)' /\ fault' = fault
<1>1. /\ obj \in [Ids -> States] /\ PlayerTypes /\ UriInv(v) /\ i[1] \in Uris
      /\ events \in [Uris -> Seq(Kinds)]
  BY DEF OrderInv, TypeInv, PlayerTypes, RestTypes, Ids
<1>2. fault' = fault
  BY DEF PlayerStep, Connected, ConnectFails, SetupFails, Fails, Started, Finish, StopRead,
         StopRemove, StopEmit
<1>3. CASE ConnectFails(i) \/ SetupFails(i)
  BY <1>2, <1>3, PlayerFails
<1>4. CASE v = i[1] /\ ~(ConnectFails(i) \/ SetupFails(i))
  BY <1>2, <1>4, PlayerSteps, PlayerStops, PlayerEmits DEF PlayerStep
<1>5. CASE v # i[1] /\ ~(ConnectFails(i) \/ SetupFails(i))
  <2>1. \A j \in Ids : j # i => obj'[j] = obj[j]
    BY <1>1, <1>5 DEF PlayerStep, Connected, Started, Finish, StopRead, StopRemove, StopEmit
  <2>2. players'[v] = players[v] /\ UNCHANGED <<timers, gui, user>>
    BY <1>1, <1>5, RemovedStop DEF PlayerStep, Connected, Started, Finish, StopRead, StopRemove, StopEmit
  <2>3. events'[v] = events[v]
    BY <1>1, <1>5, Queued DEF PlayerStep, Connected, Started, Finish, StopRead, StopRemove, StopEmit, Kinds
  <2> QED BY <1>1, <1>2, <1>5, <2>1, <2>2, <2>3, UriKept DEF Restarted
<1> QED BY <1>3, <1>4, <1>5

(* Launches of streams us that have no player.                             *)
LEMMA OrderLaunch ==
  ASSUME OrderInv, NEW us \in SUBSET Uris, Launch(us), NEW v \in Uris,
         \A u \in us : players[u] = None /\ user'[CameraOf(u)] # "stopped",
         UNCHANGED <<timers, events>>, gui' = Idle,
         v \notin us => user'[CameraOf(v)] = user[CameraOf(v)] /\ ~Restarted(v)
  PROVE  UriInv(v)' /\ fault' = FALSE
<1>1. PlayerTypes /\ UriInv(v) /\ ~Restarted(v)'
  BY DEF OrderInv, TypeInv, Restarted, Idle
<1>2. fault' = FALSE
  BY DEF Launch, Listed
<1>3. CASE v \in us
  BY <1>1, <1>2, <1>3, UriLaunch
<1>4. CASE v \notin us
  <2>1. players'[v] = players[v] /\ \A i \in Ids : i[1] = v => obj'[i] = obj[i]
    BY <1>1, <1>4, Launched DEF PlayerTypes
  <2> QED BY <1>1, <1>2, <1>4, <2>1, UriKept
<1> QED BY <1>3, <1>4

(* A stop: of the players of some cameras (cs).                            *)
LEMMA OrderStop ==
  ASSUME OrderInv, NEW cs \in SUBSET Cameras, NEW v \in Uris, gui = Idle,
         ~Restarted(v)',
         UNCHANGED <<players, events, fault>>,
         obj' = Shutdown(Listed(UNION {Pair(c) : c \in cs})),
         timers' = timers \ UNION {Pair(c) : c \in cs},
         \A c \in cs : user'[c] = IF Settled(c) THEN "stopped" ELSE "stopping",
         \A c \in Cameras \ cs : user'[c] = user[c]
  PROVE  UriInv(v)' /\ fault' = fault
<1> DEFINE us   == UNION {Pair(c) : c \in cs}
           some == Listed(us)
           o    == Shutdown(some)
<1>1. /\ obj \in [Ids -> States] /\ PlayerTypes /\ UriInv(v) /\ Listing
      /\ CameraOf(v) \in Cameras /\ (v \in us <=> CameraOf(v) \in cs) /\ ~Restarted(v)
  BY Cameras1 DEF OrderInv, TypeInv, PlayerTypes, Restarted, Idle
<1>2. \A i \in Ids : /\ o[i].at = obj[i].at /\ o[i].saved = obj[i].saved
                     /\ i \notin some => o[i] = obj[i]
                     /\ i \in some => o[i].reconnect = FALSE /\ (obj[i].at = "play" => o[i].sent)
                     /\ obj[i].sent => o[i].sent
  BY <1>1, ShutdownOf
<1>3. obj' = o /\ timers' = timers \ us
  OBVIOUS
<1> HIDE DEF o
<1>4. CASE CameraOf(v) \in cs
  <2>1. Stopped(v)'
    <3> SUFFICES ASSUME user'[CameraOf(v)] = "stopped"
                 PROVE  v \notin timers' /\ events'[v] = <<>> /\ \A i \in Ids : i[1] = v => Ends(i)'
      BY DEF Stopped
    <3>1. Settled(CameraOf(v)) /\ v \in Pair(CameraOf(v))
      BY <1>4, Cameras1
    <3>5. v \notin timers' /\ events'[v] = <<>>
      BY <1>1, <1>3, <1>4, <3>1 DEF Settled
    <3> SUFFICES ASSUME NEW i \in Ids, i[1] = v PROVE Ends(i)'
      BY <3>5
    <3>2. events[v] = <<>> /\ (obj[i].at # "free" => obj[i].at = "play")
      BY <3>1 DEF Settled, Attempts
    <3>3. CASE obj[i].at = "free"
      BY <1>1, <1>2, <1>3, <1>4, <3>2, <3>3 DEF Ends
    <3>4. CASE obj[i].at = "play"
      <4>1. players[v] = i /\ i \in some
        <5>1. players[v] = i
          BY <1>1, <3>4 DEF UriInv, Owned
        <5>2. i # None
          BY ManagerAssumption
        <5> QED BY <1>1, <1>4, <5>1, <5>2 DEF Listed
      <4>2. ~obj[i].saved
        <5>1. obj[i] \in States
          BY <1>1
        <5> QED BY <1>1, <3>4, <5>1 DEF UriInv, SavedLate, States
      <4> QED BY <1>1, <1>2, <1>3, <1>4, <3>2, <3>4, <4>1, <4>2 DEF Ends
    <3> QED BY <3>2, <3>3, <3>4
  <2>2. user'[CameraOf(v)] # "started"
    BY <1>4
  <2>3. \A i \in Ids : i[1] = v => /\ obj'[i].at = obj[i].at /\ obj'[i].saved = obj[i].saved
                                   /\ obj[i].sent => obj'[i].sent
    BY <1>2, <1>3
  <2>4. players'[v] = players[v] /\ events'[v] = events[v] /\ (v \in timers' => v \in timers)
    BY <1>3
  <2> QED BY <1>1, <2>1, <2>2, <2>3, <2>4, UriShut
<1>5. CASE CameraOf(v) \notin cs
  <2>1. \A i \in some : CameraOf(i[1]) \in cs
    <3> SUFFICES ASSUME NEW u \in us, players[u] # None PROVE CameraOf(players[u][1]) \in cs
      BY DEF Listed
    <3>1. u \in Uris /\ CameraOf(u) \in cs
      BY Cameras1
    <3> QED BY <1>1, <3>1 DEF Listing
  <2>2. \A i \in Ids : i[1] = v => obj'[i] = obj[i]
    BY <1>2, <1>3, <1>5, <2>1
  <2>3. v \in timers' <=> v \in timers
    BY <1>1, <1>3, <1>5
  <2>4. user'[CameraOf(v)] = user[CameraOf(v)]
    BY <1>1, <1>5
  <2> QED BY <1>1, <2>2, <2>3, <2>4, UriKept
<1> QED BY <1>4, <1>5

(* A stream is to be played again.                                         *)
LEMMA OrderRestart ==
  ASSUME OrderInv, Races = {}, NEW u \in Uris, Restart(u), NEW v \in Uris
  PROVE  UriInv(v)' /\ fault' = fault
<1>1. /\ obj \in [Ids -> States] /\ PlayerTypes /\ UriInv(v) /\ Listing /\ ~Restarted(v)
      /\ user \in [Cameras -> {"started", "stopped", "stopping"}] /\ CameraOf(u) \in Cameras
  BY Cameras1 DEF OrderInv, TypeInv, PlayerTypes, RestTypes, Restart, Click, Restarted, Idle
<1>2. /\ players[u] # None /\ obj[players[u]].at = "play" /\ obj' = Shutdown({players[u]})
      /\ gui' = [at |-> "restart", uri |-> u]
      /\ user' = [user EXCEPT ![CameraOf(u)] = IF @ = "started" THEN @ ELSE "stopping"]
      /\ UNCHANGED <<players, timers, events, fault>>
  BY DEF Restart
<1>3. players[u] \in Ids /\ players[u][1] = u
  BY <1>1, <1>2 DEF PlayerTypes, Listing
<1> DEFINE o == Shutdown({players[u]})
<1>4. /\ \A i \in Ids : /\ o[i].at = obj[i].at /\ o[i].saved = obj[i].saved
                        /\ i # players[u] => o[i] = obj[i] 
                        /\ obj[i].sent => o[i].sent
      /\ o[players[u]].sent
  BY <1>1, <1>2, <1>3, ShutdownOf
<1>5. obj' = o
  BY <1>2
<1> HIDE DEF o
<1>6. CASE v = u
  <2>1. user'[CameraOf(u)] # "stopped" /\ Restarted(u)'
    BY <1>1, <1>2 DEF Restarted
  <2>2. Stopped(u)'
    BY <2>1 DEF Stopped
  <2>3. \A i \in Ids : i[1] = u => /\ obj'[i].at = obj[i].at /\ obj'[i].saved = obj[i].saved
                                   /\ obj[i].sent => obj'[i].sent
    BY <1>4, <1>5
  <2>4. obj'[players[u]].sent
    BY <1>4, <1>5
  <2>5. UriInv(u)'
    BY <1>1, <1>2, <1>6, <2>1, <2>2, <2>3, <2>4, UriShut
  <2> QED BY <1>2, <1>6, <2>5
<1>7. CASE v # u
  <2>1. ~Restarted(v)' /\ user'[CameraOf(v)] \in {user[CameraOf(v)], "stopping"}
    BY <1>1, <1>2, <1>7, Cameras1 DEF Restarted
  <2>2. \A i \in Ids : i[1] = v => obj'[i] = obj[i]
    BY <1>3, <1>4, <1>5, <1>7
  <2> QED BY <1>1, <1>2, <2>1, <2>2, UriKept
<1> QED BY <1>6, <1>7

(* What a step does for one stream.                                        *)
LEMMA OrderUri ==
  ASSUME OrderInv, Races = {}, Next, ~RestartGo, NEW v \in Uris
  PROVE  UriInv(v)' /\ ~fault'
<1>2. /\ PlayerTypes /\ RestTypes /\ Listing /\ \A u \in Uris : UriInv(u)
      /\ user \in [Cameras -> {"started", "stopped", "stopping"}] /\ gui \in Guis
      /\ opts.cameras \subseteq Cameras /\ ~fault
  BY ManagerAssumption DEF OrderInv, TypeInv, PlayerTypes, RestTypes
<1>3. ASSUME NEW i \in Ids, PlayerStep(i) PROVE UriInv(v)' /\ ~fault'
  BY <1>2, <1>3, OrderPlayer
<1>4. ASSUME NEW u \in Uris, HandleEvent(u) PROVE UriInv(v)' /\ ~fault'
  <2>1. /\ UNCHANGED <<obj, players, gui, fault, user>> /\ events[u] # <<>> /\ gui = Idle
        /\ \A w \in Uris : w # u => events'[w] = events[w] /\ (w \in timers' <=> w \in timers)
    BY <1>2, <1>4, Handled DEF HandleEvent
  <2>2. Restarted(v)' <=> Restarted(v)
    BY <2>1 DEF Restarted
  <2>3. CASE v = u
    <3>1. Answer(u)' = Answer(u)
      BY <1>2, <1>4, AnswerHandled
    <3>2. Owned(u)' /\ Single(u)' /\ SavedLate(u)' /\ Quieted(u)' /\ Wanted(u)' /\ Awaited(u)'
      BY <1>2, <2>1, <2>2, <2>3, <3>1
         DEF UriInv, Owned, Single, SavedLate, Quieted, Wanted, Lives, Emits, Awaited
    <3>3. Stopped(u)'
      BY <1>2, <2>1, <2>3 DEF UriInv, Stopped
    <3> QED BY <1>2, <2>1, <2>3, <3>2, <3>3 DEF UriInv
  <2>4. CASE v # u
    BY <1>2, <2>1, <2>2, <2>4, UriKept
  <2> QED BY <2>3, <2>4
<1>5. ASSUME NEW u \in Uris, Tick(u) PROVE UriInv(v)' /\ ~fault'
  <2>1. /\ Launch({u}) /\ gui = Idle /\ u \in timers /\ events[u] = <<>>
        /\ \A i \in Attempts(u) : obj[i].at = "play"
        /\ UNCHANGED <<timers, events, gui, user>>
    BY <1>5 DEF Tick
  <2>2. players[u] = None
    <3> SUFFICES ASSUME players[u] # None PROVE FALSE
      OBVIOUS
    <3>1. players[u] \in Attempts(u)
      BY <1>2 DEF Listing, PlayerTypes, Attempts
    <3> QED BY <1>2, <2>1, <3>1 DEF UriInv, Quieted, Answer
  <2>3. user[CameraOf(u)] # "stopped"
    BY <1>2, <2>1 DEF UriInv, Stopped
  <2>4. ~Restarted(v)
    BY <2>1 DEF Restarted, Idle
  <2>5. \A w \in {u} : players[w] = None /\ user'[CameraOf(w)] # "stopped"
    BY <2>1, <2>2, <2>3
  <2>6. v \notin {u} => user'[CameraOf(v)] = user[CameraOf(v)] /\ ~Restarted(v)
    BY <2>1, <2>4
  <2>7. {u} \in SUBSET Uris /\ gui' = Idle
    BY <2>1
  <2> HIDE DEF Idle
  <2> QED BY <2>1, <2>5, <2>6, <2>7, OrderLaunch
<1>6. ASSUME NEW c \in opts.cameras, Start(c) PROVE UriInv(v)' /\ ~fault'
  <2>1. /\ Launch(Pair(c)) /\ gui = Idle /\ Listed(Pair(c)) = {} /\ c \in Cameras
        /\ user' = [user EXCEPT ![c] = "started"] /\ UNCHANGED <<timers, events, gui>>
    BY <1>2, <1>6 DEF Start, Click
  <2>2. Pair(c) \subseteq Uris /\ \A u \in Pair(c) : CameraOf(u) = c
    BY <2>1, Cameras1
  <2>3. \A u \in Pair(c) : players[u] = None /\ user'[CameraOf(u)] # "stopped"
    BY <1>2, <2>1, <2>2 DEF Listed
  <2>4. v \notin Pair(c) => user'[CameraOf(v)] = user[CameraOf(v)] /\ ~Restarted(v)
    BY <1>2, <2>1, Cameras1 DEF Restarted, Idle
  <2> QED BY <2>1, <2>2, <2>3, <2>4, OrderLaunch
<1>7. ASSUME NEW u \in Uris, DisplayRect(u) PROVE UriInv(v)' /\ ~fault'
  <2>1. UNCHANGED <<obj, players, timers, events, gui, fault, user>>
    BY <1>7 DEF DisplayRect
  <2>2. Restarted(v)' <=> Restarted(v)
    BY <2>1 DEF Restarted
  <2> QED BY <1>2, <2>1, <2>2, UriKept
<1>8. ASSUME NEW c \in opts.cameras, Stop(c) PROVE UriInv(v)' /\ ~fault'
  <2>1. UNION {Pair(d) : d \in {c}} = Pair(c) /\ {c} \in SUBSET Cameras
    BY <1>2
  <2>2. /\ gui = Idle /\ gui' = gui /\ UNCHANGED <<players, events, fault>>
        /\ obj' = Shutdown(Listed(Pair(c))) /\ timers' = timers \ Pair(c)
        /\ user' = [user EXCEPT ![c] = IF Settled(c) THEN "stopped" ELSE "stopping"]
    BY <1>8 DEF Stop, Click
  <2>3. ~Restarted(v)'
    BY <2>2 DEF Restarted, Idle
  <2>4. /\ \A d \in {c} : user'[d] = IF Settled(d) THEN "stopped" ELSE "stopping"
        /\ \A d \in Cameras \ {c} : user'[d] = user[d]
    BY <1>2, <2>1, <2>2
  <2> QED BY <1>2, <2>1, <2>2, <2>3, <2>4, OrderStop
<1>9. CASE CloseAll
  <2>1. UNION {Pair(d) : d \in Cameras} = Uris
    BY Cameras1
  <2>2. /\ gui = Idle /\ gui'.at = "closing" /\ UNCHANGED <<players, events, fault>>
        /\ obj' = Shutdown(Listed(Uris)) /\ timers' = timers \ Uris
        /\ \A c \in Cameras : user'[c] = IF Settled(c) THEN "stopped" ELSE "stopping"
    BY <1>2, <1>9 DEF CloseAll, Click, RestTypes
  <2>3. ~Restarted(v)'
    BY <2>2 DEF Restarted
  <2> QED BY <1>2, <2>1, <2>2, <2>3, OrderStop
<1>10. ASSUME NEW u \in Uris, Restart(u) PROVE UriInv(v)' /\ ~fault'
  BY <1>2, <1>10, OrderRestart
<1>11. CASE CloseDone \/ CloseTimeout \/ Rest
  <2>1. /\ UNCHANGED <<obj, players, timers, events, fault, user>>
        /\ Restarted(v)' <=> Restarted(v)
    BY <1>11 DEF CloseDone, CloseTimeout, Rest, state, Restarted, Idle
  <2> QED BY <1>2, <2>1, UriKept
<1> QED BY <1>3, <1>4, <1>5, <1>6, <1>7, <1>8, <1>9, <1>10, <1>11 DEF Next

(* A restart, after the wait for the player: one that did not end in time  *)
(* is deleted, and its stream has a new one.                               *)
Overwritten == \A i \in Listed({gui.uri}) : obj[i].sent
Cared(u)    == Wanted(u) /\ Stopped(u)

LEMMA OrderRestartGo ==
  ASSUME OrderInv, RestartGo, NEW v \in Uris
  PROVE  Overwritten /\ Cared(v)' /\ (~fault' => UriInv(v)')
<1>1. PICK u \in Uris :
      /\ Launch({u}) /\ gui' = Idle /\ UNCHANGED <<timers, events, user>>
      /\ gui = [at |-> "restart", uri |-> u]
      /\ fault' = (Listed({u}) # {})
      /\ PlayerTypes /\ UriInv(v) /\ UriInv(u)
  <2>1. gui.uri \in Uris /\ gui = [at |-> "restart", uri |-> gui.uri]
    BY DEF OrderInv, TypeInv, RestTypes, RestartGo, Guis
  <2> QED BY <2>1 DEF OrderInv, TypeInv, RestartGo, Launch
<1>2. Restarted(u) /\ (v # u => ~Restarted(v)) /\ ~Restarted(v)'
  BY <1>1 DEF Restarted, Idle
<1>3. user[CameraOf(u)] # "stopped" /\ (players[u] # None => obj[players[u]].sent)
  BY <1>1, <1>2 DEF UriInv, Awaited
<1>4. Overwritten
  BY <1>1, <1>3 DEF Overwritten, Listed
<1>5. CASE v = u
  <2>1. Cared(u)'
    <3>1. /\ players'[u] \in Ids /\ obj'[players'[u]] = Fresh
      BY <1>1, Launched DEF PlayerTypes
    <3> QED BY <1>1, <1>3, <3>1, FreeStates, ManagerAssumption DEF Cared, Wanted, Lives, Stopped
  <2>2. ~fault' => UriInv(u)'
    <3> SUFFICES ASSUME ~fault' PROVE UriInv(u)'
      OBVIOUS
    <3>1. players[u] = None
      BY <1>1 DEF Listed
    <3> QED BY <1>1, <1>2, <1>3, <1>5, <3>1, UriLaunch
  <2> QED BY <1>4, <1>5, <2>1, <2>2
<1>6. CASE v # u
  <2>1. players'[v] = players[v] /\ \A i \in Ids : i[1] = v => obj'[i] = obj[i]
    BY <1>1, <1>6, Launched DEF PlayerTypes
  <2>2. UriInv(v)'
    BY <1>1, <1>2, <1>6, <2>1, UriKept
  <2> QED BY <1>4, <2>2 DEF Cared, UriInv
<1> QED BY <1>5, <1>6

(* Until a player is deleted, everything holds, and then what the user     *)
(* asked for is not forgotten; only a restart deletes one.                 *)
LeftInv == \/ OrderInv
           \/ TypeInv /\ fault /\ \A u \in Uris : Cared(u)

LEMMA OrderStep ==
  ASSUME OrderInv, CellInv, Races = {}, Next
  PROVE  LeftInv' /\ (fault' => gui.at = "restart" /\ Overwritten)
<1>1. TypeInv' /\ ~fault
  BY TypeStep DEF OrderInv
<1>2. CASE RestartGo
  <2>1. gui.at = "restart" /\ gui.uri \in Uris
    BY <1>2 DEF RestartGo, OrderInv, TypeInv, RestTypes, Guis
  <2>2. Overwritten
    BY <1>2, <2>1, OrderRestartGo
  <2>3. \A v \in Uris : Cared(v)' /\ (~fault' => UriInv(v)')
    BY <1>2, OrderRestartGo
  <2>4. fault' \in BOOLEAN
    BY <1>1 DEF TypeInv, RestTypes
  <2> QED BY <1>1, <2>1, <2>2, <2>3, <2>4 DEF LeftInv, OrderInv
<1>3. CASE ~RestartGo /\ Uris = {}
  <2>1. opts.cameras \subseteq Cameras
    BY ManagerAssumption DEF OrderInv, TypeInv, RestTypes
  <2>2. Cameras = {} /\ Ids = {}
    BY <1>3, Cameras1 DEF Ids
  <2>3. CloseAll \/ CloseDone \/ CloseTimeout \/ Rest
    BY <1>3, <2>1, <2>2 DEF Next
  <2>4. ~fault'
    BY <1>1, <2>3 DEF CloseAll, CloseDone, CloseTimeout, Rest, state
  <2> QED BY <1>1, <1>3, <2>4 DEF LeftInv, OrderInv
<1>4. CASE ~RestartGo /\ Uris # {}
  <2>1. \A v \in Uris : UriInv(v)' /\ ~fault'
    BY <1>4, OrderUri
  <2> QED BY <1>1, <1>4, <2>1 DEF LeftInv, OrderInv
<1> QED BY <1>2, <1>3, <1>4

LEMMA OrderInit == Init => OrderInv
<1> SUFFICES ASSUME Init, NEW u \in Uris PROVE UriInv(u) /\ ~fault
  BY TypeInit DEF OrderInv, Init
<1>1. /\ \A i \in Ids : obj[i] = Free
      /\ players[u] = None /\ user[CameraOf(u)] = "stopped" /\ events[u] = <<>> /\ u \notin timers
      /\ ~fault /\ ~Restarted(u)
  BY Cameras1 DEF Init, Restarted, Idle
<1> QED BY <1>1, FreeStates
        DEF UriInv, Owned, Single, SavedLate, Quieted, Wanted, Stopped, Ends, Awaited

LEMMA LeftKept == ASSUME LeftInv, UNCHANGED state, opts' = opts PROVE LeftInv'
<1>1. UNCHANGED <<opts, obj, players, ordinals, timers, events, gui, fault, user, clicks>>
  BY DEF state
<1>2. TypeInv' <=> TypeInv
  BY <1>1 DEF TypeInv, PlayerTypes, Listing, CellTypes, RestTypes
<1>3. ASSUME NEW u \in Uris PROVE (UriInv(u)' <=> UriInv(u)) /\ (Cared(u)' <=> Cared(u))
  <2>1. (Restarted(u)' <=> Restarted(u)) /\ Answer(u)' = Answer(u) /\ (Emits(u)' <=> Emits(u))
    BY <1>1 DEF Restarted, Answer, Emits
  <2>2. (Wanted(u)' <=> Wanted(u)) /\ (Stopped(u)' <=> Stopped(u))
    BY <1>1, <2>1 DEF Wanted, Lives, Stopped, Ends
  <2>3. /\ Owned(u)' <=> Owned(u)
        /\ Single(u)' <=> Single(u)
        /\ SavedLate(u)' <=> SavedLate(u)
        /\ Quieted(u)' <=> Quieted(u)
        /\ Awaited(u)' <=> Awaited(u)
    BY <1>1, <2>1 DEF Owned, Single, SavedLate, Quieted, Awaited
  <2> QED BY <2>2, <2>3 DEF UriInv, Cared
<1> QED BY <1>1, <1>2, <1>3 DEF LeftInv, OrderInv

Deletes == fault' /\ ~fault => gui.at = "restart" /\ Overwritten

LEMMA LeftStep ==
  ASSUME Races = {}, LeftInv, CellInv, [Next]_vars
  PROVE  LeftInv' /\ Deletes
<1>1. CASE UNCHANGED vars
  <2>1. UNCHANGED state /\ opts' = opts /\ fault' = fault
    BY <1>1 DEF vars, state
  <2> QED BY <2>1, LeftKept DEF Deletes
<1>2. CASE Next /\ OrderInv
  BY <1>2, OrderStep DEF Deletes
<1>3. CASE Next /\ fault
  <2>1. UNCHANGED state /\ opts' = opts
    BY <1>3 DEF Next, Rest
  <2> QED BY <1>3, <2>1, LeftKept DEF Deletes
<1> QED BY <1>1, <1>2, <1>3 DEF LeftInv

LEMMA LeftAlways == ASSUME Races = {} PROVE Spec => []LeftInv
<1>1. Init => LeftInv
  BY OrderInit DEF LeftInv
<1>2. LeftInv /\ CellInv /\ [Next]_vars => LeftInv'
  BY LeftStep
<1> QED BY <1>1, <1>2, TypeAlways, PTL DEF Spec

(* No player is deleted while its threads run, for all cameras, players    *)
(* and clicks, but one that was told to end before a restart and did not   *)
(* in the time playerShutdownWait() gives it.  A timer only fires for a    *)
(* stream without a player on the list, because what stops it is queued    *)
(* behind what starts it.                                                  *)
THEOREM NoPlayerOverwritten == ASSUME Races = {} PROVE Spec => NeverOverwritten
<1>1. LeftInv /\ CellInv /\ [Next]_vars => [Deletes]_vars
  BY LeftStep
<1>2. Deletes <=> (fault' /\ ~fault => gui.at = "restart" /\ \A i \in Listed({gui.uri}) : obj[i].sent)
  BY DEF Deletes, Overwritten
<1>3. Spec => [][Deletes]_vars
  BY <1>1, LeftAlways, TypeAlways, PTL DEF Spec
<1> QED BY <1>2, <1>3, PTL DEF NeverOverwritten

(* No stream the user wants is forgotten, but for the races.               *)
THEOREM NoStreamForgotten == ASSUME Races = {} PROVE Spec => []NeverForgotten
<1>1. LeftInv => NeverForgotten
  <2> SUFFICES ASSUME LeftInv, NEW c \in Cameras, user[c] = "started", NEW u \in Pair(c)
               PROVE  \/ players[u] # None /\ obj[players[u]].reconnect
                      \/ u \in timers \/ "reconnect" \in ToSet(events[u])
                      \/ \E i \in Attempts(u) : obj[i].at \in {"stop1", "stop2"} /\ obj[i].saved
                      \/ gui = [at |-> "restart", uri |-> u]
    BY DEF NeverForgotten
  <2>1. u \in Uris /\ Cared(u) /\ events[u] \in Seq(Kinds) /\ CameraOf(u) = c
    BY Cameras1 DEF LeftInv, OrderInv, UriInv, Cared, TypeInv, RestTypes
  <2>2. CASE Answer(u) = "reconnect"
    <3>1. CASE events[u] # <<>>
      <4>1. Len(events[u]) \in DOMAIN events[u]
        BY <2>1, <3>1, LenProperties, EmptySeq
      <4> QED BY <2>2, <3>1, <4>1 DEF Answer, ToSet
    <3>2. CASE events[u] = <<>>
      BY <2>2, <3>2 DEF Answer
    <3> QED BY <3>1, <3>2
  <2>3. CASE Emits(u)
    BY <2>3 DEF Emits, Attempts
  <2> QED BY <2>1, <2>2, <2>3 DEF Cared, Wanted, Lives, Restarted
<1> QED BY <1>1, LeftAlways, PTL

(* A camera that was stopped while its streams played or waited stays      *)
(* stopped, but for the races.                                             *)
THEOREM StopIsKept == ASSUME Races = {} PROVE Spec => []StopKept
<1>1. LeftInv => StopKept
  <2> SUFFICES ASSUME LeftInv, NEW c \in Cameras, user[c] = "stopped", NEW u \in Pair(c)
               PROVE  /\ u \notin timers /\ events[u] = <<>>
                      /\ \A i \in Attempts(u) : obj[i].sent \/ obj[i].at \in {"ended", "stop1", "stop2"}
                      /\ \A i \in Attempts(u) : ~obj[i].reconnect /\ ~obj[i].saved
    BY DEF StopKept
  <2>1. u \in Uris /\ Cared(u) /\ CameraOf(u) = c
    BY Cameras1 DEF LeftInv, OrderInv, UriInv, Cared
  <2> QED BY <2>1 DEF Cared, Stopped, Ends, Attempts
<1> QED BY <1>1, LeftAlways, PTL
=============================================================================
