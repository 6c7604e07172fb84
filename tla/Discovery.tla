------------------------------ MODULE Discovery ------------------------------
(***************************************************************************)
(* How cameras get on the list of the window: the button Discover          *)
(* (camerapanel.py) starts a session per network interface, which          *)
(* broadcasts and then interrogates every camera that answers              *)
(* (libonvif/include/session.h), or a filler per camera in the cache of    *)
(* addresses (manual_fill() in onvif_data.h); a camera may also be added   *)
(* by its address (discover.py), which runs manual_fill() in the thread of *)
(* the window.  All threads ask for passwords with one dialog, and all add *)
(* to one list, after which a further thread fills in the camera's data.   *)
(***************************************************************************)
EXTENDS Integers, SequencesExt, FiniteSetsExt

CONSTANTS
  Cameras,      \* serial numbers
  Addrs,        \* xaddrs
  CameraAt,     \* [Addrs -> Cameras]: a camera may have several addresses
  Options,      \* what is tried: records of the fields of opts
  MaxSearches,  \* bound: sessions, fillers and additions
  MaxClicks     \* bound: opts.clicks

Searches == 1..MaxSearches
NoOne    == 0

ASSUME DiscoveryAssumption ==
  /\ CameraAt \in [Addrs -> Cameras] /\ Addrs # {} /\ IsFiniteSet(Addrs)
  /\ MaxSearches \in Nat /\ MaxClicks \in Nat
  /\ Options \subseteq [nets : Seq(SUBSET Addrs), cached : BOOLEAN, common : BOOLEAN, clicks : 0..MaxClicks, manual : SUBSET Addrs,
                        faults : SUBSET {"lost", "down", "broken", "silent", "user"},
                        private : SUBSET Addrs, open : SUBSET Addrs, skew : [Addrs -> Int]]
  /\ \A o \in Options : o.cached =>
       o.nets # <<>> /\ \A a, b \in o.nets[1] : CameraAt[a] = CameraAt[b] => a = b

VARIABLES
  opts,         \* nets: who answers on each interface; cached: the option
                \* Cached Addresses; common: there is a common password; clicks:
                \* how often the user clicks on Discover, Add Camera or Remove;
                \* manual: addresses the user adds; faults:
                \* "lost" answers, cameras that are "down" at times, that send
                \* a fault or no XML ("broken") or not all of a reply
                \* ("silent"), a "user" who cancels or mistypes; private:
                \* addresses that refuse the common password; open: those
                \* that answer getCapabilities() without any; skew: hours by
                \* which the offset that getTimeOffset() computes is wrong
  search,       \* [Searches -> where the thread is and what it works on]
  used,         \* searches so far
  sessions, fillers, \* the lists of the panel
  cams,         \* lstCamera: a camera, its address, the one its stream was
                \* found at, whether it is filled, and the threads that do so
  cache,        \* cameraListKey with XAddrs of each: a set of pairs
  active,       \* dlgLogin.active
  requests,     \* signals.login on the way to the window: the search that
                \* sent it, or NoOne if it has gone on since, and the address
  open, shown, label, \* the dialog is on the screen; the search it was shown
                \* for, or NoOne; the address it names
  raced,        \* two threads stood between test and set of dlgLogin.active
  twice,        \* cameras for which two threads stood between the look at the
                \* list and the addition
  gui,          \* the window: "idle", "start": in btnDiscoverClicked(), or
                \* "add": in btnAddCameraClicked()
  pending,      \* interfaces for which no session was started yet
  btn,          \* btnDiscover is enabled
  timers,       \* sessions whose timer of ten seconds is active
  fault,        \* data was deleted under the thread that works on it
  removed,      \* cameras the user took off the list
  clicks

dialog == <<active, requests, open, shown, label, raced>>
panel  == <<sessions, fillers, cams, cache, gui, pending, btn, timers, fault, removed, clicks, twice>>
vars   == <<opts, search, used, dialog, panel>>

Idle == [at |-> "free", kind |-> "none", todo |-> {}, addr |-> CHOOSE a \in Addrs : TRUE,
         offset |-> 0, count |-> 1, direction |-> 1, error |-> "", typed |-> "none"]

Init ==
  /\ opts \in Options
  /\ search = [s \in Searches |-> Idle] /\ used = 0
  /\ sessions = {} /\ fillers = {} /\ cams = <<>>
  /\ cache = IF opts.cached THEN {<<CameraAt[a], a>> : a \in opts.nets[1]} ELSE {}
  /\ active = FALSE /\ requests = <<>> /\ open = FALSE /\ shown = NoOne /\ label = Idle.addr
  /\ raced = FALSE /\ twice = {}
  /\ gui = "idle" /\ pending = 0 /\ btn = TRUE /\ timers = {}
  /\ fault = FALSE /\ removed = {} /\ clicks = 0

Busy(s)     == search[s].at \notin {"free", "end"}
Listed(c)   == {i \in DOMAIN cams : cams[i].cam = c}
ListedAt(a) == {i \in DOMAIN cams : cams[i].addr = a}
Goto(s, place) == search' = [search EXCEPT ![s].at = place]

(* manual_fill() in the window's thread keeps the interpreter locked while *)
(* it waits for the camera; the callbacks of other threads wait for that.  *)
Held == \E m \in Searches :
  search[m].kind = "manual" /\ search[m].at \in {"time", "caps", "info", "hung"}

(* The next camera of a session; a filler has only one.                    *)
Skip(s) == IF search[s].kind = "session" THEN "next" ELSE "end"

-----------------------------------------------------------------------------
(* The window, which takes no clicks while the dialog is open.             *)
(* btnDiscoverClicked(): the button, or Ctrl+D at any time.                *)
Discover ==
  /\ gui = "idle" /\ ~open /\ clicks < opts.clicks /\ clicks' = clicks + 1
  /\ IF opts.cached
     THEN /\ used + Cardinality(cache) <= MaxSearches
          /\ fault' = (fault \/ \E s \in fillers : Busy(s))
          /\ LET known == SetToSeq(cache)
             IN  /\ fillers' = {used + i : i \in DOMAIN known}
                 /\ search' = [s \in Searches |->
                      IF s \in fillers'
                      THEN [Idle EXCEPT !.at = "time", !.kind = "filler", !.addr = known[s - used][2]]
                      ELSE search[s]]
          /\ used' = used + Cardinality(cache)
          /\ UNCHANGED <<sessions, gui, pending>>
     ELSE /\ used + Len(opts.nets) <= MaxSearches
          /\ sessions' = {} /\ pending' = Len(opts.nets)
          /\ gui' = IF opts.nets = <<>> THEN "idle" ELSE "start"
          /\ UNCHANGED <<fillers, search, used, fault>>
  /\ UNCHANGED <<opts, cams, cache, dialog, btn, timers, removed, twice>>

StartSessionEarly ==                                             \* mutant
  /\ gui = "start"
  /\ used' = used + 1 /\ pending' = pending - 1
  /\ gui' = IF pending <= 2 THEN "idle" ELSE "start"
  /\ search' = [search EXCEPT ![used + 1] =
       [Idle EXCEPT !.at = "broadcast", !.kind = "session",
                    !.todo = opts.nets[Len(opts.nets) - pending + 1]]]
  /\ sessions' = sessions \cup {used + 1} /\ timers' = timers \cup {used + 1} /\ btn' = FALSE
  /\ UNCHANGED <<opts, fillers, cams, cache, dialog, fault, removed, clicks, twice>>
StartSession ==
  /\ gui = "start"
  /\ used' = used + 1 /\ pending' = pending - 1
  /\ gui' = IF pending = 1 THEN "idle" ELSE "start"
  /\ search' = [search EXCEPT ![used + 1] =
       [Idle EXCEPT !.at = "broadcast", !.kind = "session",
                    !.todo = opts.nets[Len(opts.nets) - pending + 1]]]
  /\ sessions' = sessions \cup {used + 1} /\ timers' = timers \cup {used + 1} /\ btn' = FALSE
  /\ UNCHANGED <<opts, fillers, cams, cache, dialog, fault, removed, clicks, twice>>

(* discoveryTimeout() of a session.                                        *)
Timeout(s) ==
  /\ gui = "idle" /\ s \in timers /\ Busy(s)
  /\ btn' = TRUE /\ timers' = timers \ {s}
  /\ UNCHANGED <<opts, search, used, sessions, fillers, cams, cache, dialog, gui, pending,
                 fault, removed, clicks, twice>>

(* btnAddCameraClicked(): manual_fill() in the thread of the window.       *)
AddCamera(a) ==
  /\ gui = "idle" /\ a \in opts.manual /\ ~open
  /\ clicks < opts.clicks /\ clicks' = clicks + 1
  /\ used < MaxSearches /\ used' = used + 1 /\ gui' = "add"
  /\ search' = [search EXCEPT ![used + 1] =
                  [Idle EXCEPT !.at = "time", !.kind = "manual", !.addr = a]]
  /\ UNCHANGED <<opts, sessions, fillers, cams, cache, dialog, pending, btn, timers, fault, removed,
                 twice>>

Added(s) ==
  /\ gui = "add" /\ search[s].kind = "manual" /\ search[s].at = "end"
  /\ search' = [search EXCEPT ![s] = Idle] /\ gui' = "idle"
  /\ UNCHANGED <<opts, used, sessions, fillers, cams, cache, dialog, pending, btn, timers, fault,
                 removed, clicks, twice>>

(* CameraList.remove() and saveCameraList(): the cache is the list.        *)
Saved(list) == {<<list[i].cam, list[i].addr>> : i \in DOMAIN list}
RemoveCamera(i) ==
  /\ gui = "idle" /\ ~open /\ "user" \in opts.faults /\ clicks < opts.clicks
  /\ clicks' = clicks + 1 /\ cams[i].filled
  /\ cams' = RemoveAt(cams, i) /\ cache' = Saved(cams')
  /\ removed' = removed \cup {cams[i].cam}
  /\ fault' = (fault \/ cams[i].fills > 0)
  /\ UNCHANGED <<opts, search, used, sessions, fillers, dialog, gui, pending, btn, timers, twice>>

(* onShowLogin(), in the event loop of the window or of the open dialog:   *)
(* exec() of a dialog that is open only names the other camera, clears the *)
(* fields, and returns without an answer.                                  *)
Show ==
  LET r == Head(requests)
  IN  /\ requests # <<>> /\ requests' = Tail(requests) /\ (gui = "idle" \/ (gui = "add" /\ open))
      /\ label' = r.addr
      /\ \/ ~open /\ open' = TRUE /\ shown' = r.by /\ UNCHANGED <<search, active>>
         \/ /\ open /\ active' = FALSE /\ UNCHANGED <<open, shown>>
            /\ search' = IF r.by = NoOne THEN search ELSE [search EXCEPT ![r.by].typed = "wrong"]
      /\ UNCHANGED <<opts, used, raced, panel>>

(* The user types the password of the camera that is named.                *)
Answer(how) ==
  /\ open /\ open' = FALSE /\ active' = FALSE /\ shown' = NoOne /\ label' = Idle.addr
  /\ search' = IF shown = NoOne THEN search
               ELSE [search EXCEPT ![shown].typed =
                       IF how = "right" /\ CameraAt[label] # CameraAt[search[shown].addr] THEN "wrong" ELSE how]
  /\ UNCHANGED <<opts, used, requests, raced, panel>>
Login == \E how \in {"right", "wrong", "cancel"} : (how # "right" => "user" \in opts.faults) /\ Answer(how)

-----------------------------------------------------------------------------
(* A session: broadcast() and the loop that collects the answers, which    *)
(* come in any order; an answer that comes twice is kept once.             *)
Broadcast(s) ==
  /\ search[s].at = "broadcast"
  /\ \E came \in SUBSET search[s].todo :
       /\ "lost" \in opts.faults \/ came = search[s].todo
       /\ search' = [search EXCEPT ![s].at = "next", ![s].todo = came]
  /\ UNCHANGED <<dialog, panel>>

(* The loop over the cameras, and, at its end, discovered().               *)
NextCamera(s) ==
  /\ search[s].at = "next"
  /\ \E a \in search[s].todo :
       search' = [search EXCEPT ![s] = [Idle EXCEPT !.at = "time", !.kind = "session",
                                          !.todo = search[s].todo \ {a}, !.addr = a]]
  /\ UNCHANGED <<dialog, panel>>

Finish(s) ==
  /\ search[s].at = "next" /\ search[s].todo = {} /\ ~Held
  /\ Goto(s, "end") /\ timers' = timers \ {s}
  /\ IF \A o \in sessions \ {s} : ~Busy(o)
     THEN sessions' = {} /\ btn' = TRUE ELSE UNCHANGED <<sessions, btn>>
  /\ UNCHANGED <<dialog, fillers, cams, cache, gui, pending, fault, removed, clicks, twice>>

(* What sendCommandToCamera() makes of a request: a reply, which may be a  *)
(* refusal, "net" when it cannot connect, "other" for a fault or no XML;   *)
(* or it does not return: recv() has no time-out, and the loop that reads  *)
(* the rest of a reply does not end when the camera closes the connection. *)
Fails == {f \in {"net", "other"} : (IF f = "net" THEN "down" ELSE "broken") \in opts.faults}

Hang(s) ==
  /\ search[s].at \in {"time", "caps", "info"} /\ "silent" \in opts.faults
  /\ Goto(s, "hung") /\ UNCHANGED <<dialog, panel>>

TimeOffset(s) ==
  /\ search[s].at = "time"
  /\ \E e \in {""} \cup Fails : search' = [search EXCEPT ![s].at = "cred", ![s].error = e]
  /\ UNCHANGED <<dialog, panel>>

(* getCredential() of the panel: a camera that is listed is left alone,    *)
(* the first try is with the common password if there is one, and a camera *)
(* that cannot be reached is left; otherwise the user is asked.            *)
Credential(s) ==
  LET e == search[s].error  known == ListedAt(search[s].addr) # {} /\ fillers = {}
  IN  /\ search[s].at = "cred" /\ ~Held
      /\ Goto(s, IF known \/ e = "net" THEN Skip(s) ELSE IF e = "" /\ opts.common THEN "caps" ELSE "login")
      /\ UNCHANGED <<dialog, panel>>

(* Its loop until the dialog is free, the flag and the signal, which in    *)
(* the window's thread is the call of exec(), and the loop until the       *)
(* dialog is over: whichever dialog that was.                              *)
TestAnyway(s) ==                                                 \* mutant
  /\ search[s].at = "login" /\ ~Held /\ Goto(s, "set")
  /\ raced' = (raced \/ \E t \in Searches : search[t].at = "set")
  /\ UNCHANGED <<active, requests, open, shown, label, panel>>
Test(s) ==
  /\ search[s].at = "login" /\ ~active /\ ~Held /\ Goto(s, "set")
  /\ raced' = (raced \/ \E t \in Searches : search[t].at = "set")
  /\ UNCHANGED <<active, requests, open, shown, label, panel>>

Request(s) ==
  /\ search[s].at = "set" /\ ~Held /\ active' = TRUE /\ Goto(s, "ask")
  /\ \/ /\ search[s].kind = "manual" /\ UNCHANGED requests
        /\ open' = TRUE /\ shown' = s /\ label' = search[s].addr
     \/ /\ search[s].kind # "manual" /\ UNCHANGED <<open, shown, label>>
        /\ requests' = Append(requests, [by |-> s, addr |-> search[s].addr])
  /\ UNCHANGED <<raced, panel>>

Asked(s) ==
  /\ search[s].at = "ask" /\ ~active /\ ~Held /\ (search[s].kind = "manual" => shown # s)
  /\ Goto(s, IF search[s].typed = "cancel" THEN Skip(s) ELSE "caps")
  /\ requests' = [i \in DOMAIN requests |->
                    IF requests[i].by = s THEN [requests[i] EXCEPT !.by = NoOne] ELSE requests[i]]
  /\ shown' = IF shown = s THEN NoOne ELSE shown
  /\ UNCHANGED <<active, open, label, raced, panel>>

(* getCapabilities(): a refusal may be due to the time, so the offset is   *)
(* corrected by an hour forth and back, then by two hours.                 *)
Accepted(s) ==
  LET w == search[s]
  IN  /\ w.offset = opts.skew[w.addr]
      /\ w.typed = "right" \/ (w.typed = "none" /\ opts.common /\ w.addr \notin opts.private)
RetryTwice(w) ==                                                 \* mutant
  [w EXCEPT !.offset = w.direction * w.count, !.count = @ + 1, !.direction = -@]
RetryForever(w) ==                                               \* mutant
  [w EXCEPT !.offset = w.direction * w.count, !.direction = -@]
Retry(w) ==
  [w EXCEPT !.offset = w.direction * w.count, !.direction = -@,
            !.count = IF w.direction < 0 THEN @ + 1 ELSE @]
Capabilities(s) ==
  /\ search[s].at = "caps"
  /\ \E e \in {""} \cup Fails :
       search' = [search EXCEPT ![s] =
         IF e = "" /\ (search[s].addr \in opts.open \/ Accepted(s)) THEN [@ EXCEPT !.at = "info", !.error = ""]
         ELSE LET w == Retry(@)
              IN  [w EXCEPT !.error = IF e = "" THEN "other" ELSE e,
                            !.at = IF w.count > 2 THEN Skip(s) ELSE "cred"]]
  /\ UNCHANGED <<dialog, panel>>

(* getDeviceInformation(); the profiles of the camera are read.            *)
DeviceInformation(s) ==
  /\ search[s].at = "info"
  /\ \E e \in {""} \cup Fails :
       search' = IF e = "" /\ Accepted(s) THEN [search EXCEPT ![s].error = "", ![s].at = "data"]
                 ELSE [search EXCEPT ![s].error = IF e = "" THEN "other" ELSE e, ![s].at = "cred"]
  /\ UNCHANGED <<dialog, panel>>

(* getData() of the panel: a camera that is listed gets the new address    *)
(* (manual_fill() has already stored it); another one is added, and the    *)
(* list is saved.  Threads may alternate between the two.                  *)
ExistingAt(s) == ListedAt(search[s].addr)                        \* mutant
Existing(s) == Listed(CameraAt[search[s].addr])
Readdressed(c, a) == {IF p[1] = c THEN <<c, a>> ELSE p : p \in cache}
Refill(s) ==
  /\ cams' = [cams EXCEPT ![Min(Existing(s))].addr = search[s].addr,
                          ![Min(Existing(s))].fills = @ + 1]
  /\ cache' = IF search[s].kind = "session" THEN cache
              ELSE Readdressed(CameraAt[search[s].addr], search[s].addr)
Adds(c) == \E t \in Searches : search[t].at = "add" /\ CameraAt[search[t].addr] = c
GetData(s) ==
  LET c == CameraAt[search[s].addr]
  IN  /\ search[s].at = "data" /\ ~Held
      /\ \/ Existing(s) # {} /\ Refill(s) /\ Goto(s, Skip(s)) /\ UNCHANGED twice
         \/ /\ Existing(s) = {} /\ Goto(s, "add") /\ UNCHANGED <<cams, cache>>
            /\ twice' = IF Adds(c) THEN twice \cup {c} ELSE twice
      /\ UNCHANGED <<dialog, sessions, fillers, gui, pending, btn, timers, fault, removed, clicks>>
AddToList(s) ==
  /\ search[s].at = "add" /\ ~Held /\ Goto(s, Skip(s))
  /\ cams' = Append(cams, [cam |-> CameraAt[search[s].addr], addr |-> search[s].addr,
                           uri |-> search[s].addr, filled |-> FALSE, fills |-> 1])
  /\ cache' = Saved(cams')
  /\ UNCHANGED <<dialog, sessions, fillers, gui, pending, btn, timers, fault, removed, clicks, twice>>

(* fill() of a camera and filled() of the panel, which takes the first one *)
(* on the list with that stream.                                           *)
Filled(i) ==
  LET f == Min({j \in DOMAIN cams : cams[j].uri = cams[i].uri})
  IN  /\ cams[i].fills > 0 /\ ~Held
      /\ cams' = [cams EXCEPT ![i].fills = @ - 1, ![f].filled = TRUE]
      /\ cache' = Readdressed(cams[f].cam, cams[f].addr)
      /\ UNCHANGED <<opts, search, used, sessions, fillers, dialog, gui, pending, btn, timers,
                     fault, removed, clicks, twice>>

Search(s) ==
  /\ \/ Broadcast(s) \/ NextCamera(s) \/ Finish(s) \/ TimeOffset(s) \/ Hang(s) \/ Credential(s)
     \/ Test(s) \/ Request(s) \/ Asked(s) \/ Capabilities(s) \/ DeviceInformation(s)
     \/ GetData(s) \/ AddToList(s)
  /\ UNCHANGED <<opts, used>>
FillAny == \E i \in DOMAIN cams : Filled(i)
AddedAny == \E s \in Searches : Added(s)

Next ==
  /\ ~fault
  /\ \/ Discover \/ StartSession \/ AddedAny \/ Show \/ Login \/ FillAny
     \/ \E a \in Addrs : AddCamera(a)
     \/ \E i \in DOMAIN cams : RemoveCamera(i)
     \/ \E s \in Searches : Timeout(s) \/ Search(s)

Spec == Init /\ [][Next]_vars
FairSpec ==
  /\ Spec
  /\ \A s \in Searches : WF_vars(~fault /\ Search(s))
  /\ WF_vars(~fault /\ Show) /\ WF_vars(~fault /\ Login)
  /\ WF_vars(~fault /\ StartSession) /\ WF_vars(~fault /\ AddedAny)
=============================================================================
