---------------------------- MODULE DiscoveryProps ----------------------------
(* What the user may expect of the search for cameras. *)
EXTENDS Discovery

(* Types; the dialog is shown for a thread that asks, and a session that   *)
(* is at work is on the list or was replaced by a later click.             *)
TypeOK ==
  /\ opts \in Options
  /\ search \in [Searches ->
       [at : {"free", "broadcast", "next", "time", "cred", "login", "set", "ask", "caps", "info",
              "hung", "data", "add", "end"},
        kind : {"none", "session", "filler", "manual"}, todo : SUBSET Addrs, addr : Addrs,
        offset : -2..2, count : 1..3, direction : {-1, 1}, error : {"", "net", "other"},
        typed : {"none", "right", "wrong", "cancel"}]]
  /\ used \in 0..MaxSearches /\ clicks \in 0..opts.clicks
  /\ \A s \in Searches : Busy(s) => s <= used
  /\ {sessions, fillers, timers} \subseteq SUBSET Searches
  /\ cams \in Seq([cam : Cameras, addr : Addrs, uri : Addrs, filled : BOOLEAN, fills : Nat])
  /\ cache \subseteq Cameras \X Addrs /\ removed \subseteq Cameras /\ twice \subseteq Cameras
  /\ gui \in {"idle", "start", "add"} /\ pending \in 0..Len(opts.nets)
  /\ (gui = "start") = (pending > 0)
  /\ {btn, fault, active, open, raced} \subseteq BOOLEAN /\ label \in Addrs
  /\ requests \in Seq([by : Searches \cup {NoOne}, addr : Addrs])
  /\ shown # NoOne => open /\ search[shown].at = "ask"

(* However many sessions find a camera, under whichever address and at     *)
(* whatever moments, it is on the list once, unless two threads stood      *)
(* between the look at the list and the addition of that same camera       *)
(* (getData, camerapanel.py).                                              *)
OnePerCamera ==
  \A i, j \in DOMAIN cams : cams[i].cam = cams[j].cam => i = j \/ cams[i].cam \in twice

(* A password goes to the camera that it was typed for, and the flag is    *)
(* set exactly while somebody asks, which is one thread at a time, unless  *)
(* two threads stood between the test of the flag and its setting          *)
(* (getCredential, camerapanel.py): then the open dialog takes the name of *)
(* the second camera and its answer goes to the first.                     *)
OneLogin ==
  ~raced => /\ open => shown # NoOne /\ label = search[shown].addr
            /\ active <=> open \/ requests # <<>>
            /\ requests = <<>> \/ (Len(requests) = 1 /\ ~open)

(* When all is quiet the button is enabled, and every camera that answered *)
(* and was not removed is on the list with its data, when the user gave    *)
(* the right passwords and its time is off by what is tried with them: the *)
(* common password is tried first, and by the time the user has typed      *)
(* another one the offset is already changed, unless the camera answers    *)
(* getCapabilities() without any (session.h, discover()).  Two threads that*)
(* asked at once may have got each other's answers.                        *)
Quiet == gui = "idle" /\ clicks > 0 /\ \A s \in Searches : ~Busy(s)
Answers == IF opts.cached THEN opts.nets[1] ELSE UNION Range(opts.nets)
Tried(a) == CASE a \in opts.open -> {0} [] opts.common /\ a \in opts.private \ opts.open -> {-1, 1, 2}
              [] OTHER -> -1..2
Complete ==
  (Quiet /\ \A i \in DOMAIN cams : cams[i].fills = 0) =>
    /\ btn
    /\ opts.faults = {} /\ used > 0 /\ opts.manual = {} /\ ~raced =>
         \A a \in Answers : opts.skew[a] \in Tried(a) =>
           \E i \in Listed(CameraAt[a]) : cams[i].filled

(* A search ends, however the answers of the cameras and the user come.    *)
(* What may keep it: a camera that does not answer, or closes the          *)
(* connection in the middle of a reply (sendCommandToCamera, onvif.c), for *)
(* ever in the window's thread too (Frozen); a dialog that another thread  *)
(* asked for when the window itself waits for it in Add Camera (Blocked);  *)
(* and a camera that answers getCapabilities() but never                   *)
(* getDeviceInformation(), which is asked without a bound.                 *)
Frozen  == \E m \in Searches : search[m].kind = "manual" /\ search[m].at = "hung"
Blocked == gui = "add" /\ active /\ ~open
           /\ \E m \in Searches : search[m].kind = "manual" /\ search[m].at \in {"login", "ask"}
Ends ==
  \A s \in Searches :
    <>[](Busy(s) /\ search[s].at # "hung") =>
      <>(fault \/ Frozen \/ Blocked) \/ \E t \in Searches : []<>(search[t].at = "info")

(* A camera leaves the cache only by the user's hand (README: "Cameras     *)
(* discovered will have their data entered into the address cache so that  *)
(* they may be found without discovery later.").                           *)
CacheKept ==
  opts.cached /\ Quiet => \A a \in Answers :
    CameraAt[a] \in removed \/ \E p \in cache : p[1] = CameraAt[a]
=============================================================================
