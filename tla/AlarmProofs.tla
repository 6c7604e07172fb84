----------------------------- MODULE AlarmProofs -----------------------------
(***************************************************************************)
(* Proofs about module Alarm, for every lag time, expiry and delay: an     *)
(* alarm ends in time and leaves no recording behind.  The frames of a     *)
(* camera either detect alarms or load those of a server (Alone).          *)
(***************************************************************************)
EXTENDS AlarmProps, SequenceTheorems, FiniteSetTheorems, TLAPS

Alone == "remote" \in opts.detectors => opts.detectors = {"remote"}
R     == IF "remote" \in opts.detectors THEN Remote ELSE 0

LEMMA Bounds ==
  /\ Lag \in Nat /\ Lag > 0 /\ Expiry \in Nat /\ MaxDelay \in Nat /\ MaxClicks \in Nat
  /\ Off = Lag + 1 /\ Off \in Nat /\ Remote = Lag + MaxDelay + Expiry + 1 /\ Remote \in Nat
  /\ R \in Nat /\ Forever = Lag + Remote + 1 /\ Forever \in Nat
BY AlarmAssumption DEF Off, Remote, Forever, R

(* What one more signal does to the queue of the timer.                    *)
LEMMA AppendSignal ==
  ASSUME NEW s \in Seq({"start", "stop"}), NEW kind \in {"start", "stop"},
         NEW t, t = Append(s, kind)
  PROVE  /\ t \in Seq({"start", "stop"}) /\ Len(t) = Len(s) + 1
         /\ t[Len(t)] = kind /\ t # <<>>
         /\ \A i \in 1..Len(t) : (i \in 1..Len(s) /\ t[i] = s[i]) \/ (i = Len(t) /\ t[i] = kind)
<1>1. t \in Seq({"start", "stop"}) /\ Len(t) = Len(s) + 1 /\ Len(s) \in Nat
  BY AppendProperties, LenProperties
<1>2. t[Len(s) + 1] = kind /\ \A i \in 1..Len(s) : t[i] = s[i]
  BY AppendProperties
<1>3. t # <<>> /\ t[Len(t)] = kind
  BY <1>1, <1>2
<1>4. ASSUME NEW i \in 1..Len(t)
      PROVE  (i \in 1..Len(s) /\ t[i] = s[i]) \/ (i = Len(t) /\ t[i] = kind)
  <2>1. CASE i \in 1..Len(s)
    BY <1>2, <2>1, Zenon
  <2>2. CASE i = Len(t)
    BY <1>3, <2>2, Zenon
  <2>3. i \in 1..Len(s) \/ i = Len(t)
    BY <1>1
  <2> QED BY <2>1, <2>2, <2>3, Zenon
<1> QED BY <1>1, <1>3, <1>4, Zenon

-----------------------------------------------------------------------------
(* Which signal the timer will have got last when all has been handled, and *)
(* whether an alarm will be ended by the timer.                            *)
Starts == \E d \in opts.detectors : at[d] \in {"start", "start+"}
Stops  == \E d \in opts.detectors : at[d] \in {"stop", "stop+"}

Restarting == Starts \/ (~Stops /\ signals # <<>> /\ signals[Len(signals)] = "start")
Running    == /\ ~Starts /\ ~Stops /\ signals = <<>>
              /\ timer <= Lag /\ gui \notin {"stop", "stop+"}
Going      == Restarting \/ Running

TypeAlarm ==
  /\ opts \in Options
  /\ at \in [opts.detectors -> {"idle", "start", "start+", "stop", "stop+", "toggle"}]
  /\ signals \in Seq({"start", "stop"})
  /\ timer \in 0..Off /\ since \in Nat /\ age \in 0..(Expiry + 1) /\ scene \in BOOLEAN
  /\ net \subseteq [age : 0..MaxDelay, on : BOOLEAN]

(* A start signal under way, and a timer that runs, were caused by a scene *)
(* that is not too old; so is what a client has heard from its server.     *)
InTime ==
  /\ scene => since = 0
  /\ "remote" \notin opts.detectors =>
       ~Stops /\ \A i \in 1..Len(signals) : signals[i] = "start"
  /\ Starts \/ (\E i \in 1..Len(signals) : signals[i] = "start") => since <= R
  /\ timer <= Lag => since + timer <= Lag + R
  /\ alarm => Going

Heard ==
  "remote" \in opts.detectors =>
    /\ \A m \in net : m.on => since <= Lag + m.age
    /\ states = "on" => since <= Lag + MaxDelay + age

FreshInv == TypeAlarm /\ Alone /\ InTime /\ Heard

LEMMA FreshInit == Init /\ Alone => FreshInv
<1> SUFFICES ASSUME Init, Alone PROVE FreshInv
  OBVIOUS
<1> scene \in BOOLEAN
  BY Zenon DEF Init
<1>1. TypeAlarm
  BY Bounds, EmptySeq DEF Init, TypeAlarm
<1>2. ~Stops /\ ~Starts /\ Len(signals) = 0
  BY DEF Init, Stops, Starts
<1>3. InTime
  BY Bounds, <1>2 DEF Init, InTime
<1>4. Heard
  BY DEF Init, Heard
<1> QED BY <1>1, <1>3, <1>4 DEF FreshInv

(* Steps that leave the timer, its signals and what causes them alone, and *)
(* those that stop the timer and end the alarm.                            *)
LEMMA FreshUnchanged ==
  ASSUME FreshInv, UNCHANGED <<opts, scene, since, net, states, age, signals, timer>>,
         \/ at' = at
         \/ \E d \in opts.detectors : at[d] = "toggle" /\ at' = [at EXCEPT ![d] = "idle"],
         alarm' => alarm /\ (gui' = gui \/ gui' \notin {"stop", "stop+"})
  PROVE  FreshInv'
<1>1. R' = R /\ (Starts' <=> Starts) /\ (Stops' <=> Stops)
  BY DEF Starts, Stops, R, FreshInv, TypeAlarm
<1>2. TypeAlarm' /\ Alone' /\ Heard'
  BY <1>1 DEF FreshInv, TypeAlarm, Alone, Heard
<1>3. (Restarting' <=> Restarting) /\ (alarm' /\ Running => Running')
  BY <1>1 DEF Restarting, Running
<1>4. alarm' => Going'
  BY <1>3 DEF FreshInv, InTime, Going
<1>5. InTime'
  BY <1>1, <1>4 DEF FreshInv, InTime
<1> QED BY <1>2, <1>5 DEF FreshInv

LEMMA FreshStopped ==
  ASSUME FreshInv, UNCHANGED <<opts, scene, since, net, states, age, at>>,
         signals' = signals \/ signals' = <<>>, timer' = Off,
         alarm' => alarm /\ signals' = signals /\ gui \in {"stop", "stop+"}
  PROVE  FreshInv'
<1>1. R' = R /\ (Starts' <=> Starts) /\ (Stops' <=> Stops)
  BY DEF Starts, Stops, R
<1>2. signals' \in Seq({"start", "stop"}) /\ Len(<<>>) = 0
  BY EmptySeq DEF FreshInv, TypeAlarm
<1>3. TypeAlarm' /\ Alone' /\ Heard'
  BY <1>1, <1>2, Bounds DEF FreshInv, TypeAlarm, Alone, Heard
<1>4. alarm' => Restarting'
  BY <1>1 DEF FreshInv, InTime, Going, Running, Restarting
<1>5. ~(timer' <= Lag)
  BY Bounds
<1>6. (\E i \in 1..Len(signals') : signals'[i] = "start")
        => \E i \in 1..Len(signals) : signals[i] = "start"
  BY <1>2
<1>7. \A i \in 1..Len(signals') : i \in 1..Len(signals) /\ signals'[i] = signals[i]
  BY <1>2
<1>8. InTime'
  BY <1>1, <1>4, <1>5, <1>6, <1>7 DEF FreshInv, InTime, Going
<1> QED BY <1>3, <1>8 DEF FreshInv

(* A detector.                                                             *)
LEMMA FreshFrame ==
  ASSUME FreshInv, NEW d \in opts.detectors, Frame(d)
  PROVE  FreshInv'
<1>1. /\ UNCHANGED <<opts, scene, since, net, states, age, timer, signals, gui, R>>
      /\ UNCHANGED Alone /\ at \in [opts.detectors -> {"idle", "start", "start+", "stop", "stop+", "toggle"}]
      /\ R \in Nat
  BY Bounds DEF Frame, world, feed, R, Alone, FreshInv, TypeAlarm
<1>2. CASE analyze /\ Seen(d)
  <2>1. at' = [at EXCEPT ![d] = OnPlan] /\ OnPlan \in {"start", "start+"}
    BY <1>2 DEF Frame, HandleAlarm, OnPlan
  <2>2. Starts' /\ (Stops' => Stops)
    BY <1>1, <2>1 DEF Starts, Stops
  <2>3. since <= R
    <3>1. CASE d = "remote"
      BY <1>2, <3>1, Bounds DEF Seen, FreshInv, Heard, TypeAlarm, R
    <3>2. CASE d # "remote"
      BY <1>1, <1>2, <3>2 DEF Seen, FreshInv, InTime
    <3> QED BY <3>1, <3>2
  <2> QED BY <1>1, <2>1, <2>2, <2>3 DEF FreshInv, TypeAlarm, Alone, InTime, Heard, Going, Restarting
<1>3. CASE ~(analyze /\ Seen(d))
  <2>1. /\ at' = [at EXCEPT ![d] = OffPlan] /\ OffPlan \in {"stop", "stop+"} /\ ~analyze
        /\ alarm' = FALSE /\ Analysed(d)
    BY <1>3 DEF Frame, HandleAlarm, OffPlan
  <2>2. "remote" \in opts.detectors /\ (Starts' => Starts)
    BY <1>1, <2>1 DEF Analysed, Starts
  <2> QED BY <1>1, <2>1, <2>2 DEF FreshInv, TypeAlarm, Alone, InTime, Heard
<1> QED BY <1>2, <1>3

(* The signal a detector emits is the last one, and that of its alarm.     *)
LEMMA Emitted ==
  ASSUME FreshInv, NEW d \in opts.detectors, Act(d)
  PROVE  /\ FreshInv' /\ UNCHANGED <<opts, timer, gui>>
         /\ IF at[d] \in {"start", "start+"} THEN Restarting' ELSE opts.detectors = {d}
         /\ Going => Going'
<1>1. /\ UNCHANGED <<opts, scene, since, net, states, age, timer, gui, alarm, R>>
      /\ UNCHANGED Alone /\ at \in [opts.detectors -> {"idle", "start", "start+", "stop", "stop+", "toggle"}]
      /\ R \in Nat /\ signals \in Seq({"start", "stop"})
  BY Bounds DEF Act, world, feed, R, Alone, FreshInv, TypeAlarm
<1> DEFINE kind == IF at[d] \in {"start", "start+"} THEN "start" ELSE "stop"
<1>2. /\ signals' = Append(signals, kind) /\ at[d] \in {"start", "start+", "stop", "stop+"}
      /\ at' = [at EXCEPT ![d] = "toggle"] \/ at' = [at EXCEPT ![d] = "idle"]
  BY DEF Act, Emit
<1> kind \in {"start", "stop"}
  OBVIOUS
<1> HIDE DEF kind
<1>3. /\ signals' \in Seq({"start", "stop"}) /\ Len(signals') = Len(signals) + 1
      /\ signals'[Len(signals')] = kind /\ signals' # <<>>
      /\ \A i \in 1..Len(signals') : \/ i \in 1..Len(signals) /\ signals'[i] = signals[i]
                                     \/ i = Len(signals') /\ signals'[i] = kind
  BY <1>1, <1>2, AppendSignal
<1>4. (Starts' => Starts) /\ (Stops' => Stops)
  BY <1>1, <1>2 DEF Starts, Stops
<1>5. CASE kind = "start"
  <2>1. Starts
    BY <1>2, <1>5 DEF Starts, kind
  <2>2. ~Stops'
    <3>1. CASE "remote" \in opts.detectors
      BY <1>1, <1>2, <3>1 DEF Stops, FreshInv, Alone, kind
    <3>2. CASE "remote" \notin opts.detectors
      BY <1>4, <3>2 DEF FreshInv, InTime
    <3> QED BY <3>1, <3>2
  <2>3. Restarting'
    BY <1>3, <1>5, <2>2 DEF Restarting
  <2>4. TypeAlarm' /\ Heard'
    BY <1>1, <1>2, <1>3 DEF FreshInv, TypeAlarm, Heard
  <2>5. InTime'
    BY <1>1, <1>3, <1>5, <2>1, <2>2, <2>3 DEF FreshInv, InTime, Going
  <2>6. at[d] \in {"start", "start+"}
    BY <1>5 DEF kind
  <2>7. FreshInv'
    BY <1>1, <2>4, <2>5 DEF FreshInv
  <2> QED BY <1>1, <2>3, <2>6, <2>7 DEF Going
<1>6. CASE kind = "stop"
  <2>1. Stops /\ "remote" \in opts.detectors /\ opts.detectors = {"remote"}
    BY <1>2, <1>6 DEF Stops, FreshInv, InTime, Alone, kind
  <2>2. ~Starts /\ ~Going
    BY <1>2, <1>6, <2>1 DEF kind, Starts, Going, Restarting, Running
  <2>3. TypeAlarm' /\ Heard'
    BY <1>1, <1>2, <1>3 DEF FreshInv, TypeAlarm, Heard
  <2>4. InTime'
    BY <1>1, <1>3, <1>4, <1>6, <2>1, <2>2 DEF FreshInv, InTime
  <2> QED BY <1>1, <1>2, <1>6, <2>1, <2>2, <2>3, <2>4 DEF FreshInv, kind
<1> QED BY <1>5, <1>6

(* The window handles a signal: the last one decides.                      *)
LEMMA FreshSignal ==
  ASSUME FreshInv, Signal
  PROVE  FreshInv' /\ (Going => Going')
<1>1. /\ UNCHANGED <<opts, scene, since, net, states, age, alarm, at, gui>> /\ gui = "idle"
      /\ R' = R /\ (Starts' <=> Starts) /\ (Stops' <=> Stops) /\ R \in Nat
      /\ signals \in Seq({"start", "stop"}) /\ signals # <<>> /\ signals' = Tail(signals)
      /\ timer' = IF Head(signals) = "start" THEN Lag ELSE Off
  BY Bounds DEF Signal, world, feed, Starts, Stops, R, FreshInv, TypeAlarm
<1>2. /\ signals' \in Seq({"start", "stop"}) /\ Len(signals') = Len(signals) - 1
      /\ Len(signals) \in Nat \ {0} /\ Head(signals) = signals[1]
      /\ \A i \in 1..Len(signals') : signals'[i] = signals[i + 1]
  BY <1>1, HeadTailProperties, LenProperties, EmptySeq
<1>3. \A i \in 1..Len(signals') : i + 1 \in 1..Len(signals)
  BY <1>2
<1>4. TypeAlarm' /\ Alone' /\ Heard'
  BY <1>1, <1>2, Bounds DEF FreshInv, TypeAlarm, Alone, Heard
<1>5. timer' <= Lag => since + timer' <= Lag + R
  <2>1. 1 \in 1..Len(signals)
    BY <1>2
  <2>2. timer' <= Lag => Head(signals) = "start" /\ timer' = Lag
    BY <1>1, Bounds
  <2>3. timer' <= Lag => since <= R
    BY <1>2, <2>1, <2>2 DEF FreshInv, InTime
  <2> QED BY <1>1, <2>2, <2>3, Bounds DEF FreshInv, TypeAlarm
<1>6. Going => Going'
  <2> SUFFICES ASSUME Restarting, ~Starts PROVE Going'
    BY <1>1 DEF Going, Running, Restarting
  <2>1. ~Stops /\ signals[Len(signals)] = "start"
    BY DEF Restarting
  <2>2. CASE Len(signals) = 1
    BY <1>1, <1>2, <2>1, <2>2, Bounds, EmptySeq DEF Going, Running
  <2>3. CASE Len(signals) # 1
    <3>1. Len(signals') \in 1..Len(signals') /\ Len(signals') + 1 = Len(signals)
      BY <1>2, <2>3
    <3>2. signals'[Len(signals')] = "start" /\ signals' # <<>>
      BY <1>2, <2>1, <3>1, EmptySeq
    <3> QED BY <1>1, <2>1, <3>2 DEF Going, Restarting
  <2> QED BY <2>2, <2>3
<1>7. InTime'
  BY <1>1, <1>2, <1>3, <1>5, <1>6 DEF FreshInv, InTime, Going
<1> QED BY <1>4, <1>6, <1>7 DEF FreshInv

(* Time passes.                                                            *)
LEMMA Later ==
  ASSUME NEW s \in Nat, NEW t \in Nat, NEW a \in Int, NEW b \in Int, NEW l \in Nat, NEW m \in Nat,
         s <= l + m + a, a <= b, t <= s \/ (t <= s + 1 /\ b = a + 1)
  PROVE  t <= l + m + b
OBVIOUS

LEMMA FreshTick ==
  ASSUME FreshInv, Tick
  PROVE  FreshInv' /\ (Going => Going')
<1>1. /\ UNCHANGED <<opts, scene, states, alarm, at, gui, signals>>
      /\ ~Starts /\ ~Stops /\ ~Starts' /\ ~Stops' /\ R' = R /\ R \in Nat
      /\ Waiting \/ (gui = "idle" /\ signals = <<>> /\ timer # 0 /\ ~Stale)
  BY Bounds DEF Tick, Starts, Stops, R
<1>2. since \in Nat /\ timer \in 0..Off /\ age \in 0..(Expiry + 1) /\ signals \in Seq({"start", "stop"})
  BY DEF FreshInv, TypeAlarm
<1>3. /\ since' \in Nat /\ since' <= since + 1 /\ (scene => since' = 0)
      /\ Waiting => since' <= since
  BY <1>2, Bounds DEF Tick, Upto
<1>4. /\ timer' \in 0..Off /\ (timer' <= Lag => timer <= Lag) /\ (timer <= Lag => timer' <= Lag)
      /\ timer <= Lag /\ timer # 0 => timer' = timer - 1
      /\ timer = 0 => timer' = 0
  BY <1>1, <1>2, Bounds DEF Tick
<1>5. Going => Going'
  BY <1>1, <1>4 DEF Going, Restarting, Running
<1>6. InTime'
  <2>1. timer' <= Lag => since' + timer' <= Lag + R
    <3> SUFFICES ASSUME timer' <= Lag PROVE since' + timer' <= Lag + R
      OBVIOUS
    <3>1. since + timer <= Lag + R
      BY <1>4 DEF FreshInv, InTime
    <3>2. since' \in Nat /\ since \in Nat /\ timer \in Int /\ timer' \in Int /\ Lag + R \in Nat
          /\ timer >= 0
      BY <1>1, <1>2, <1>3, <1>4, Bounds
    <3> HIDE DEF R
    <3>3. CASE timer = 0
      BY <1>1, <1>3, <1>4, <3>1, <3>2, <3>3
    <3>4. CASE timer # 0
      BY <1>3, <1>4, <3>1, <3>2, <3>4
    <3> QED BY <3>3, <3>4
  <2>2. CASE Waiting
    <3>1. (\E i \in 1..Len(signals) : signals[i] = "start") => since' <= R
      BY <1>1, <1>2, <1>3, <2>2 DEF FreshInv, InTime
    <3> QED BY <1>1, <1>3, <1>5, <2>1, <3>1 DEF FreshInv, InTime
  <2>3. CASE ~Waiting
    <3>1. Len(signals') = 0
      BY <1>1, <2>3
    <3> QED BY <1>1, <1>3, <1>5, <2>1, <3>1 DEF FreshInv, InTime
  <2> QED BY <2>2, <2>3
<1>7. /\ age' \in 0..(Expiry + 1)
      /\ "remote" \in opts.detectors => age <= age'
      /\ "remote" \in opts.detectors /\ states = "on" /\ ~Waiting => age' = age + 1
  BY <1>1, <1>2, Bounds DEF Tick, Upto, Stale
<1>8. /\ net' \subseteq [age : 0..MaxDelay, on : BOOLEAN]
      /\ "remote" \in opts.detectors => \A m \in net' : m.on => since' <= Lag + m.age
  <2>1. CASE "remote" \in opts.detectors
    <3>1. PICK sent \in {{}, {TRUE}, {FALSE}} : Broadcast(sent)
      BY <2>1 DEF Tick
    <3> SUFFICES ASSUME NEW m \in net'
                 PROVE  m \in [age : 0..MaxDelay, on : BOOLEAN] /\ (m.on => since' <= Lag + m.age)
      OBVIOUS
    <3>2. CASE \E on \in sent : m = [age |-> 0, on |-> on]
      <4>1. PICK on \in sent : m = [age |-> 0, on |-> on]
        BY <3>2
      <4>2. on \in BOOLEAN /\ (on => since' <= Lag)
        BY <3>1, <4>1 DEF Broadcast
      <4> QED BY <4>1, <4>2, Bounds
    <3>3. CASE \E n \in net : n.age < MaxDelay /\ m = [n EXCEPT !.age = @ + 1]
      <4>1. PICK n \in net : n.age < MaxDelay /\ m = [n EXCEPT !.age = @ + 1]
        BY <3>3
      <4>2. n \in [age : 0..MaxDelay, on : BOOLEAN] /\ (n.on => since <= Lag + n.age)
        BY <2>1 DEF FreshInv, TypeAlarm, Heard
      <4>3. m \in [age : 0..MaxDelay, on : BOOLEAN] /\ m.age = n.age + 1 /\ m.on = n.on
        BY <4>1, <4>2, Bounds
      <4>4. n.on => since' <= Lag + (n.age + 1)
        BY <1>2, <1>3, <4>2, Bounds
      <4> QED BY <4>3, <4>4
    <3> QED BY <3>1, <3>2, <3>3 DEF Broadcast
  <2>2. CASE "remote" \notin opts.detectors
    BY <2>2 DEF Tick, FreshInv, TypeAlarm
  <2> QED BY <2>1, <2>2
<1>9. TypeAlarm' /\ Alone'
  BY <1>1, <1>3, <1>4, <1>7, <1>8 DEF FreshInv, TypeAlarm, Alone
<1>10. Heard'
  <2>1. "remote" \in opts.detectors /\ states = "on" => since' <= Lag + MaxDelay + age'
    <3> SUFFICES ASSUME "remote" \in opts.detectors, states = "on"
                 PROVE  since' <= Lag + MaxDelay + age'
      OBVIOUS
    <3>1. since <= Lag + MaxDelay + age /\ age <= age'
      BY <1>7 DEF FreshInv, Heard
    <3>2. since' <= since \/ (since' <= since + 1 /\ age' = age + 1)
      BY <1>3, <1>7
    <3>3. /\ since' \in Nat /\ since \in Nat /\ age \in Int /\ age' \in Int
          /\ MaxDelay \in Nat /\ Lag \in Nat
      BY <1>2, <1>3, <1>7, Bounds
    <3> QED BY <3>1, <3>2, <3>3, Later
  <2> QED BY <1>1, <1>8, <2>1 DEF Heard
<1> QED BY <1>5, <1>6, <1>9, <1>10 DEF FreshInv

(* What is in front of the camera, and what a client hears of it.          *)
LEMMA FreshScene ==
  ASSUME FreshInv, Scene
  PROVE  FreshInv'
<1>1. /\ UNCHANGED <<opts, net, states, age, timer, signals, alarm, at, gui>> /\ since' = 0
      /\ scene' \in BOOLEAN /\ R' = R /\ R \in Nat
      /\ (Starts' <=> Starts) /\ (Stops' <=> Stops) /\ (Going' <=> Going)
  BY Bounds DEF Scene, feed, R, Starts, Stops, Going, Restarting, Running, FreshInv, TypeAlarm
<1>2. /\ net \subseteq [age : 0..MaxDelay, on : BOOLEAN] /\ Lag + MaxDelay + age \in Nat
      /\ \A m \in net : Lag + m.age \in Nat
  BY Bounds DEF FreshInv, TypeAlarm
<1>3. Heard'
  BY <1>1, <1>2 DEF Heard
<1>4. timer \in 0..Off /\ (timer' <= Lag => since' + timer' <= Lag + R)
  BY <1>1, Bounds DEF FreshInv, TypeAlarm
<1>5. InTime'
  BY <1>1, <1>4 DEF FreshInv, InTime
<1> QED BY <1>1, <1>3, <1>5 DEF FreshInv, TypeAlarm, Alone

LEMMA FreshReceive ==
  ASSUME FreshInv, NEW m \in net, NEW again \in BOOLEAN, Receive(m, again)
  PROVE  FreshInv'
<1>1. /\ UNCHANGED <<opts, scene, since, timer, signals, alarm, at, gui>>
      /\ R' = R /\ (Starts' <=> Starts) /\ (Stops' <=> Stops) /\ (Going' <=> Going)
      /\ net' \subseteq net
  BY DEF Receive, R, Starts, Stops, Going, Restarting, Running
<1>2. \/ states' = states /\ age' = age
      \/ states' \in {"on", "off"} /\ age' = 0 /\ (states' = "on" => m.on)
  BY DEF Receive
<1>3. m \in [age : 0..MaxDelay, on : BOOLEAN] /\ age \in 0..(Expiry + 1) /\ since \in Nat
  BY DEF FreshInv, TypeAlarm
<1>4. TypeAlarm' /\ InTime'
  BY <1>1, <1>2, Bounds DEF FreshInv, TypeAlarm, InTime
<1>5. Heard'
  BY <1>1, <1>2, <1>3, Bounds DEF FreshInv, Heard
<1> QED BY <1>1, <1>4, <1>5 DEF FreshInv, Alone

LEMMA FreshExpire ==
  ASSUME FreshInv, Expire
  PROVE  FreshInv'
<1>1. /\ UNCHANGED <<opts, scene, since, net, age, timer, signals, alarm, at, gui>>
      /\ R' = R /\ (Starts' <=> Starts) /\ (Stops' <=> Stops) /\ (Going' <=> Going)
      /\ states' = "none"
  BY DEF Expire, R, Starts, Stops, Going, Restarting, Running
<1> QED BY <1>1 DEF FreshInv, TypeAlarm, Alone, InTime, Heard

-----------------------------------------------------------------------------
LEMMA FreshStep ==
  ASSUME FreshInv, [Next]_vars
  PROVE  FreshInv'
<1>1. ASSUME NEW d \in opts.detectors, Detect(d) PROVE FreshInv'
  <2>1. CASE Late(d)
    BY <2>1, FreshUnchanged DEF Late, world, feed
  <2> QED BY <1>1, <2>1, FreshFrame, Emitted DEF Detect
<1>2. CASE Window
  <2>1. CASE Clear
    BY <2>1, FreshUnchanged DEF Clear, world, feed
  <2>2. CASE ClearRest
    BY <2>2, FreshStopped DEF ClearRest, world, feed
  <2>3. CASE ClickRest
    BY <2>3, FreshUnchanged DEF ClickRest, Waiting, world, feed
  <2>4. CASE Media
    BY <2>4, FreshUnchanged DEF Media, world, feed
  <2> QED BY <1>2, <2>1, <2>2, <2>3, <2>4, FreshSignal, FreshExpire DEF Window
<1>3. CASE User
  <2>1. CASE Click(FALSE) \/ Click(TRUE)
    <3>1. /\ UNCHANGED <<opts, scene, since, net, states, age, signals, timer, at, alarm>>
          /\ gui' \in {"idle", "click"}
      BY <2>1 DEF Click, May, world, feed
    <3> QED BY <3>1, FreshUnchanged
  <2>2. CASE SetAnalyze
    <3>1. CASE stream = "down"
      BY <2>2, <3>1, FreshUnchanged DEF SetAnalyze, May, world, feed
    <3>2. CASE stream # "down"
      BY <2>2, <3>2, FreshStopped DEF SetAnalyze, ClearNow, May, world, feed
    <3> QED BY <3>1, <3>2
  <2>3. CASE SetEnable
    <3>1. /\ UNCHANGED <<opts, scene, since, net, states, age, signals, timer, at, alarm>>
          /\ gui' \in {"idle", "enable"}
      BY <2>3 DEF SetEnable, May, world, feed
    <3> QED BY <3>1, FreshUnchanged
  <2>4. CASE RequestShutdown
    BY <2>4, FreshStopped DEF RequestShutdown, ClearNow, May, world, feed
  <2> QED BY <1>3, <2>1, <2>2, <2>3, <2>4 DEF User
<1>4. CASE Refresh \/ Connect \/ Started
  BY <1>4, FreshUnchanged DEF Refresh, Connect, Started, world, feed
<1>5. CASE Ended
  BY <1>5, FreshStopped DEF Ended, world, feed
<1>6. CASE UNCHANGED vars
  BY <1>6, FreshUnchanged DEF vars, feed
<1> QED BY <1>1, <1>2, <1>3, <1>4, <1>5, <1>6, FreshTick, FreshScene, FreshReceive DEF Next

LEMMA OptsKept == [Next]_vars => opts' = opts
<1>1. \A d \in opts.detectors : Detect(d) => opts' = opts
  BY DEF Detect, Frame, Act, Late, world
<1>2. Window \/ User => opts' = opts
  BY DEF Window, Signal, Clear, ClearRest, ClickRest, Media, Expire, User, Click, SetAnalyze,
         SetEnable, RequestShutdown, world
<1>3. Refresh \/ Connect \/ Started \/ Ended \/ Tick \/ Scene \/ UNCHANGED vars => opts' = opts
  BY DEF Refresh, Connect, Started, Ended, Tick, Scene, world, vars
<1>4. \A m \in net, again \in BOOLEAN : Receive(m, again) => opts' = opts
  BY DEF Receive
<1> QED BY <1>1, <1>2, <1>3, <1>4 DEF Next

(* An alarm ends in time, for every lag time, delay and expiry, on every   *)
(* camera whose frames either detect alarms or load those of a server: the *)
(* bound follows from the last signal under way to the timer, and for a    *)
(* client from the age of what it has heard.                               *)
THEOREM AlarmEnds == Spec => [](Alone => AlarmFresh)
<1>1. Init => (Alone => FreshInv)
  BY FreshInit
<1>2. (Alone => FreshInv) /\ [Next]_vars => (Alone => FreshInv)'
  <2>1. [Next]_vars => (Alone' <=> Alone)
    BY OptsKept DEF Alone
  <2> QED BY <2>1, FreshStep
<1>3. (Alone => FreshInv) => (Alone => AlarmFresh)
  <2> SUFFICES ASSUME FreshInv, alarm PROVE since <= Lag + R
    BY DEF AlarmFresh, R
  <2>1. CASE Running
    <3>1. timer <= Lag /\ since + timer <= Lag + R
      BY <2>1 DEF Running, FreshInv, InTime
    <3>2. since \in Nat /\ timer \in Nat /\ Lag + R \in Nat
      BY Bounds DEF FreshInv, TypeAlarm
    <3> QED BY <3>1, <3>2
  <2>2. CASE Restarting
    <3>1. since <= R
      BY <2>2, LenProperties, EmptySeq DEF Restarting, FreshInv, InTime, TypeAlarm
    <3> QED BY <3>1, Bounds DEF FreshInv, TypeAlarm
  <2> QED BY <2>1, <2>2 DEF FreshInv, InTime, Going
<1> QED BY <1>1, <1>2, <1>3, PTL DEF Spec

-----------------------------------------------------------------------------
(* The recording.                                                          *)
Live     == stream \in {"connect", "play"}
Stopping == gui = "stop+" \/ \E d \in opts.detectors : at[d] = "stop+"

TypeRecord ==
  /\ recording \in BOOLEAN /\ manual \in BOOLEAN /\ alarm \in BOOLEAN /\ enable \in BOOLEAN
  /\ gui \in {"idle", "stop", "stop+", "click", "enable"}
  /\ stream \in {"down", "connect", "play", "stop"}

DownIdle == stream = "down" => ~recording /\ \A d \in opts.detectors : at[d] = "idle"

(* A recording that nobody asked for will be ended by the timer, or by the *)
(* thread that has decided to; or it was started too late for both.        *)
WillEnd  ==
  Live /\ recording /\ ~opts.always => manual \/ by = "late" \/ Going \/ Stopping

RecordInv == FreshInv /\ TypeRecord /\ DownIdle /\ WillEnd

LEMMA RecordInit == Init /\ Alone => RecordInv
<1> SUFFICES ASSUME Init, Alone PROVE RecordInv
  OBVIOUS
<1>1. TypeRecord
  BY Zenon DEF Init, TypeRecord
<1>2. DownIdle /\ WillEnd
  BY DEF Init, DownIdle, WillEnd, Live
<1> QED BY <1>1, <1>2, FreshInit DEF RecordInv

LEMMA Toggled ==
  ASSUME NEW how, Toggle(how), recording \in BOOLEAN
  PROVE  /\ recording' \in BOOLEAN
         /\ stream # "down" => (recording' <=> ~recording) /\ by' = how
         /\ stream = "down" => recording' = recording /\ by' = by
<1>1. CASE stream = "down"
  BY <1>1 DEF Toggle, record
<1>2. CASE stream # "down"
  BY <1>2, Zenon DEF Toggle
<1> QED BY <1>1, <1>2

(* Steps that leave the timer and the threads alone: they may start a      *)
(* recording at the user's request or for an alarm that will end.          *)
LEMMA RecordKept ==
  ASSUME RecordInv, FreshInv', TypeRecord',
         UNCHANGED <<opts, at, signals, timer>>,
         gui' = gui \/ {gui, gui'} \cap {"stop", "stop+"} = {},
         (Live' <=> Live) /\ (stream' = "down" <=> stream = "down"),
         stream = "down" => ~recording',
         recording' => \/ opts.always \/ manual' \/ by' = "late" \/ Going
                       \/ recording /\ (manual => manual') /\ by' = by
  PROVE  RecordInv'
<1>1. /\ (Restarting' <=> Restarting) /\ (Running' <=> Running) /\ (Stopping' <=> Stopping)
  BY DEF Restarting, Running, Stopping, Starts, Stops
<1>2. Going' <=> Going
  BY <1>1 DEF Going
<1>3. WillEnd'
  BY <1>1, <1>2 DEF RecordInv, WillEnd
<1>4. DownIdle'
  BY DEF RecordInv, DownIdle
<1> QED BY <1>3, <1>4 DEF RecordInv

LEMMA RecordDetect ==
  ASSUME RecordInv, NEW d \in opts.detectors, Detect(d)
  PROVE  RecordInv'
<1> DEFINE Ats == {"idle", "start", "start+", "stop", "stop+", "toggle"}
<1>1. /\ FreshInv /\ TypeRecord /\ DownIdle /\ WillEnd /\ at \in [opts.detectors -> Ats]
  BY DEF RecordInv, FreshInv, TypeAlarm
<1>2. CASE Frame(d)
  <2>1. /\ FreshInv' /\ UNCHANGED <<opts, stream, recording, by, manual, enable, signals, timer, gui>>
        /\ stream \in {"play", "stop"}
    BY <1>1, <1>2, FreshFrame DEF Frame, HandleAlarm, Analysed, record, world, settings
  <2>2. alarm' \in BOOLEAN
    BY <1>2 DEF Frame, HandleAlarm
  <2>3. CASE analyze /\ Seen(d)
    <3>1. at' = [at EXCEPT ![d] = OnPlan] /\ OnPlan \in {"start", "start+"}
      BY <1>2, <2>3 DEF Frame, HandleAlarm, OnPlan
    <3>2. Restarting'
      BY <1>1, <2>1, <3>1 DEF Restarting, Starts
    <3>3. WillEnd'
      BY <3>2 DEF WillEnd, Going
    <3> QED BY <1>1, <2>1, <2>2, <3>3 DEF RecordInv, TypeRecord, DownIdle
  <2>4. CASE ~(analyze /\ Seen(d))
    <3>1. at' = [at EXCEPT ![d] = OffPlan]
      BY <1>2, <2>4 DEF Frame, HandleAlarm
    <3>2. OffPlan \in {"stop", "stop+"} /\ (~opts.always /\ ~manual => OffPlan = "stop+")
      BY DEF OffPlan
    <3>3. WillEnd'
      BY <1>1, <2>1, <3>1, <3>2 DEF WillEnd, Stopping
    <3> QED BY <1>1, <2>1, <2>2, <3>3 DEF RecordInv, TypeRecord, DownIdle
  <2> QED BY <2>3, <2>4
<1>3. CASE Act(d)
  <2>1. /\ FreshInv' /\ UNCHANGED <<opts, stream, manual, enable, alarm, timer, gui>>
        /\ IF at[d] \in {"start", "start+"} THEN Restarting' ELSE opts.detectors = {d}
        /\ Going => Going'
        /\ at[d] \in {"start", "start+", "stop", "stop+"} /\ stream # "down"
    BY <1>1, <1>3, Emitted DEF Act, world, settings, DownIdle
  <2>2. /\ recording' \in BOOLEAN
        /\ recording' => at[d] = "start+" \/ (recording /\ by' = by)
        /\ recording /\ at[d] = "stop+" => ~recording'
    BY <1>1, <1>3, <2>1, Toggled DEF Act, record, TypeRecord
  <2>3. at' = [at EXCEPT ![d] = "idle"] \/ at' = [at EXCEPT ![d] = "toggle"]
    BY <1>3 DEF Act
  <2>4. WillEnd'
    BY <1>1, <2>1, <2>2, <2>3 DEF WillEnd, Stopping, Going, Live
  <2> QED BY <1>1, <2>1, <2>2, <2>4 DEF RecordInv, TypeRecord, DownIdle
<1>4. CASE Late(d)
  <2>1. /\ UNCHANGED <<opts, stream, manual, enable, alarm, signals, timer, gui>>
        /\ at[d] = "toggle" /\ at' = [at EXCEPT ![d] = "idle"] /\ stream # "down"
    BY <1>1, <1>4 DEF Late, world, settings, DownIdle
  <2>2. FreshInv'
    <3>1. FreshInv
      BY <1>1
    <3> QED BY <1>4, <3>1, FreshUnchanged DEF Late, world, feed
  <2>3. recording' \in BOOLEAN /\ (recording' /\ ~alarm => by' = "late")
    BY <1>1, <1>4, <2>1, Toggled DEF Late, Unless, TypeRecord
  <2>4. alarm => Going'
    BY <2>1, <2>2 DEF FreshInv, InTime
  <2>5. WillEnd'
    BY <1>1, <2>1, <2>3, <2>4 DEF WillEnd, TypeRecord
  <2> QED BY <1>1, <2>1, <2>2, <2>3, <2>5 DEF RecordInv, TypeRecord, DownIdle
<1> QED BY <1>2, <1>3, <1>4 DEF Detect

LEMMA RecordWindow ==
  ASSUME RecordInv, FreshInv', Window
  PROVE  RecordInv'
<1>1. FreshInv /\ TypeRecord /\ DownIdle /\ WillEnd
  BY DEF RecordInv
<1>2. CASE Signal
  <2>1. /\ UNCHANGED <<opts, stream, recording, by, manual, enable, alarm, at, gui>>
        /\ Going => Going'
    BY <1>1, <1>2, FreshSignal DEF Signal, record, world, settings
  <2>2. WillEnd'
    BY <1>1, <2>1 DEF WillEnd, Stopping, Live
  <2> QED BY <1>1, <2>1, <2>2 DEF RecordInv, TypeRecord, DownIdle
<1>3. CASE Clear
  <2>1. /\ UNCHANGED <<opts, stream, recording, by, manual, enable, at>>
        /\ alarm' = FALSE /\ gui' = OffPlan /\ gui = "idle"
    BY <1>3 DEF Clear, record, world, settings
  <2>2. OffPlan \in {"stop", "stop+"} /\ (~opts.always /\ ~manual => OffPlan = "stop+")
    BY DEF OffPlan
  <2>3. WillEnd'
    BY <1>1, <2>1, <2>2 DEF WillEnd, Stopping
  <2> QED BY <1>1, <2>1, <2>2, <2>3 DEF RecordInv, TypeRecord, DownIdle
<1>4. CASE ClearRest
  <2>1. /\ UNCHANGED <<opts, stream, manual, enable, alarm, at, signals>>
        /\ gui' = "idle" /\ gui \in {"stop", "stop+"}
    BY <1>4 DEF ClearRest, world, settings
  <2>2. /\ recording' \in BOOLEAN /\ (recording' => recording /\ by' = by)
        /\ gui = "stop+" /\ stream # "down" => ~recording'
    BY <1>1, <1>4, Toggled DEF ClearRest, record, TypeRecord, DownIdle
  <2>3. (Restarting' <=> Restarting) /\ ~Running
    BY <2>1 DEF Restarting, Running, Starts, Stops
  <2>4. WillEnd'
    BY <1>1, <2>1, <2>2, <2>3 DEF WillEnd, Stopping, Going, Live
  <2> QED BY <1>1, <2>1, <2>2, <2>4 DEF RecordInv, TypeRecord, DownIdle
<1>5. CASE ClickRest
  <2>1. /\ UNCHANGED <<opts, stream, enable, alarm, at, signals, timer>>
        /\ gui' = "idle" /\ gui \in {"click", "enable"}
    BY <1>5 DEF ClickRest, Waiting, world, settings
  <2>2. /\ recording' \in BOOLEAN /\ manual' \in BOOLEAN /\ (stream = "down" => ~recording')
        /\ recording' => opts.always \/ manual' \/ by' = "late" \/ alarm
    BY <1>1, <1>5, Toggled DEF ClickRest, Unless, TypeRecord, DownIdle
  <2>3. TypeRecord' /\ (alarm => Going)
    BY <1>1, <2>1, <2>2 DEF TypeRecord, FreshInv, InTime
  <2> QED BY <2>1, <2>2, <2>3, RecordKept DEF Live
<1>6. CASE Media \/ Expire
  <2>1. UNCHANGED <<opts, stream, recording, by, manual, enable, alarm, at, signals, timer, gui>>
    BY <1>6 DEF Media, Expire, record, world, settings
  <2> QED BY <1>1, <2>1, RecordKept DEF TypeRecord, DownIdle, Live
<1> QED BY <1>2, <1>3, <1>4, <1>5, <1>6 DEF Window

LEMMA RecordUser ==
  ASSUME RecordInv, FreshInv', User
  PROVE  RecordInv'
<1>1. FreshInv /\ TypeRecord /\ DownIdle /\ WillEnd
  BY DEF RecordInv
<1>2. ASSUME NEW key \in BOOLEAN, Click(key)
      PROVE  RecordInv'
  <2>1. /\ UNCHANGED <<opts, stream, enable, alarm, at, signals, timer>>
        /\ gui' \in {"idle", "click"} /\ gui = "idle"
    BY <1>2 DEF Click, May, world
  <2>2. /\ recording' \in BOOLEAN /\ manual' \in BOOLEAN /\ (stream = "down" => ~recording')
        /\ recording' => manual'
    <3>1. CASE recording
      BY <1>1, <1>2, <2>1, <3>1, Toggled DEF Click, TypeRecord, DownIdle
    <3>2. CASE ~recording
      BY <1>1, <1>2, <2>1, <3>2, Toggled DEF Click, TypeRecord, DownIdle, record
    <3> QED BY <3>1, <3>2
  <2>3. TypeRecord'
    BY <1>1, <2>1, <2>2 DEF TypeRecord
  <2> QED BY <2>1, <2>2, <2>3, RecordKept DEF Live
<1>3. CASE SetAnalyze
  <2>1. UNCHANGED <<opts, stream, manual, enable, at, gui>>
    BY <1>3 DEF SetAnalyze, May, world
  <2>2. CASE stream = "down"
    <3>1. UNCHANGED <<recording, by, alarm, signals, timer>>
      BY <1>3, <2>2 DEF SetAnalyze, record
    <3> QED BY <1>1, <2>1, <2>2, <3>1, RecordKept DEF TypeRecord, DownIdle, Live
  <2>3. CASE stream # "down"
    <3>1. alarm' = FALSE
      BY <1>3, <2>3 DEF SetAnalyze, ClearNow
    <3>2. recording' \in BOOLEAN /\ (recording' /\ ~opts.always => manual)
      BY <1>1, <1>3, <2>3, Toggled DEF SetAnalyze, ClearNow, OffPlan, record, TypeRecord
    <3> QED BY <1>1, <2>1, <2>3, <3>1, <3>2 DEF RecordInv, TypeRecord, DownIdle, WillEnd
  <2> QED BY <2>2, <2>3
<1>4. CASE SetEnable
  <2>1. /\ UNCHANGED <<opts, stream, manual, alarm, at, signals, timer>>
        /\ enable' \in BOOLEAN /\ gui = "idle" /\ gui' \in {"idle", "enable"}
    BY <1>1, <1>4 DEF SetEnable, May, world, TypeRecord
  <2>2. \/ UNCHANGED <<recording, by>>
        \/ recording # (enable' /\ (opts.always \/ alarm)) /\ Toggle("auto")
    BY <1>4 DEF SetEnable, record
  <2>3. /\ recording' \in BOOLEAN /\ (stream = "down" => ~recording')
        /\ recording' => alarm \/ opts.always \/ (recording /\ by' = by)
    BY <1>1, <2>2, Toggled DEF TypeRecord, DownIdle
  <2>4. TypeRecord'
    BY <1>1, <2>1, <2>3 DEF TypeRecord
  <2>5. alarm => Going
    BY <1>1 DEF FreshInv, InTime
  <2> QED BY <2>1, <2>3, <2>4, <2>5, RecordKept DEF Live
<1>5. CASE RequestShutdown
  <2>1. /\ UNCHANGED <<opts, manual, enable, at, gui>> /\ stream' = "stop" /\ alarm' = FALSE
    BY <1>5 DEF RequestShutdown, ClearNow, May, world
  <2>2. recording' \in BOOLEAN
    BY <1>1, <1>5, Toggled DEF RequestShutdown, ClearNow, record, TypeRecord
  <2> QED BY <1>1, <2>1, <2>2 DEF RecordInv, TypeRecord, DownIdle, WillEnd, Live
<1> QED BY <1>2, <1>3, <1>4, <1>5 DEF User

LEMMA RecordStream ==
  ASSUME RecordInv, FreshInv', Connect \/ Started \/ Ended
  PROVE  RecordInv'
<1>1. FreshInv /\ TypeRecord /\ DownIdle /\ WillEnd
  BY DEF RecordInv
<1>2. CASE Connect
  <2>1. /\ UNCHANGED <<opts, enable, recording, manual, alarm, at, gui>>
        /\ stream = "down" /\ stream' = "connect"
    BY <1>2 DEF Connect, record, settings, world
  <2> QED BY <1>1, <2>1 DEF RecordInv, TypeRecord, DownIdle, WillEnd
<1>3. CASE Started
  <2>1. /\ UNCHANGED <<opts, enable, manual, alarm, at, signals, timer, gui>>
        /\ stream = "connect" /\ stream' = "play"
    BY <1>3 DEF Started, settings, world
  <2>2. recording' \in BOOLEAN /\ (recording' => opts.always \/ (recording /\ by' = by))
    BY <1>1, <1>3 DEF Started, record, TypeRecord
  <2>3. TypeRecord'
    BY <1>1, <2>1, <2>2 DEF TypeRecord
  <2> QED BY <2>1, <2>2, <2>3, RecordKept DEF Live
<1>4. CASE Ended
  <2>1. /\ UNCHANGED <<opts, enable, manual, at, gui>> /\ stream' = "down"
        /\ recording' = FALSE /\ alarm' = FALSE
        /\ \A d \in opts.detectors : at[d] = "idle"
    BY <1>4 DEF Ended, settings, world, Idle
  <2> QED BY <1>1, <2>1 DEF RecordInv, TypeRecord, DownIdle, WillEnd, Live
<1> QED BY <1>2, <1>3, <1>4

LEMMA RecordStep ==
  ASSUME RecordInv, [Next]_vars
  PROVE  RecordInv'
<1>1. FreshInv /\ TypeRecord /\ DownIdle /\ WillEnd
  BY DEF RecordInv
<1>2. FreshInv'
  BY <1>1, FreshStep
<1>3. CASE Tick
  <2>1. /\ UNCHANGED <<opts, stream, recording, by, enable, manual, alarm, at, gui>>
        /\ Going => Going'
    BY <1>1, <1>3, FreshTick DEF Tick, record, settings
  <2>2. WillEnd'
    BY <1>1, <2>1 DEF WillEnd, Stopping, Live
  <2> QED BY <1>1, <1>2, <2>1, <2>2 DEF RecordInv, TypeRecord, DownIdle
<1>4. CASE Scene \/ Refresh \/ (\E m \in net, again \in BOOLEAN : Receive(m, again)) \/ UNCHANGED vars
  <2>1. UNCHANGED <<opts, stream, recording, by, manual, enable, alarm, at, signals, timer, gui>>
    BY <1>4 DEF Scene, Refresh, Receive, vars, record, world, settings
  <2> QED BY <1>1, <1>2, <2>1, RecordKept DEF TypeRecord, DownIdle, Live
<1>5. CASE (\E d \in opts.detectors : Detect(d)) \/ Window \/ User \/ Connect \/ Started \/ Ended
  BY <1>2, <1>5, RecordDetect, RecordWindow, RecordUser, RecordStream
<1> QED BY <1>3, <1>4, <1>5 DEF Next

(* Nothing of an alarm is left behind, for every lag time and number of    *)
(* clicks and losses and however long a thread waits for the disk: a       *)
(* recording nobody asked for, unless it was started after its alarm was   *)
(* over, always has a start signal or a running timer, or a thread that    *)
(* has decided to end it.                                                  *)
THEOREM AlarmSettles == Spec => [](Alone => Settled)
<1>1. Init => (Alone => RecordInv)
  BY RecordInit
<1>2. (Alone => RecordInv) /\ [Next]_vars => (Alone => RecordInv)'
  <2>1. [Next]_vars => (Alone' <=> Alone)
    BY OptsKept DEF Alone
  <2> QED BY <2>1, RecordStep
<1>3. (Alone => RecordInv) => (Alone => Settled)
  <2> SUFFICES ASSUME RecordInv, AtRest
               PROVE  ~alarm /\ (recording /\ ~opts.always => manual \/ by = "late")
    BY DEF Settled
  <2>1. ~Going /\ ~Stopping
    BY Bounds DEF AtRest, Quiet, Idle, Going, Restarting, Running, Stopping, Starts
  <2> QED BY <2>1 DEF RecordInv, FreshInv, InTime, WillEnd, AtRest, Live
<1> QED BY <1>1, <1>2, <1>3, PTL DEF Spec

-----------------------------------------------------------------------------
(* A camera that records always: the detectors do not touch its recording, *)
(* and the button, as of the latest syncGUI(), refuses to end it.  Only    *)
(* onMediaStarted() is not yet handled when the recording starts.          *)
AlwaysInv ==
  /\ opts.always /\ ~opts.slow
  /\ recording \in BOOLEAN /\ enable \in BOOLEAN /\ pending \in BOOLEAN
  /\ at \in [opts.detectors -> {"idle", "start", "stop"}] /\ gui \in {"idle", "stop"}
  /\ stream = "down" => ~recording /\ ~early
  /\ stream = "connect" /\ ~early => ~recording
  /\ stream = "play" /\ ~early /\ enable => recording \/ by = "blind"
  /\ stream = "play" /\ enable /\ recording /\ ~pending => ~button

LEMMA AlwaysKept ==
  ASSUME AlwaysInv, UNCHANGED <<opts, stream, recording, by, early, enable>>,
         UNCHANGED <<button, pending>>,
         at' \in [opts.detectors -> {"idle", "start", "stop"}], gui' \in {"idle", "stop"}
  PROVE  AlwaysInv'
BY DEF AlwaysInv

(* What syncGUI() leaves the button.                                       *)
LEMMA Synced ==
  ASSUME AlwaysInv, SyncGUI, opts' = opts
  PROVE  stream # "down" /\ recording' /\ enable' => ~button'
BY DEF SyncGUI, AlwaysInv

LEMMA AlwaysClick ==
  ASSUME AlwaysInv, NEW key \in BOOLEAN, Click(key)
  PROVE  AlwaysInv'
<1>1. /\ UNCHANGED <<opts, stream, enable, at, pending>> /\ gui = "idle" /\ gui' = gui
      /\ (key \/ button) /\ SyncGUI
      /\ Toggle(IF recording /\ (key \/ pending) THEN "blind" ELSE "hand")
  BY DEF Click, Enabled, May, world, AlwaysInv
<1>2. /\ recording' \in BOOLEAN /\ (early' <=> early \/ stream = "connect")
      /\ stream # "down" => (recording' <=> ~recording)
                            /\ (recording /\ (key \/ pending) => by' = "blind")
      /\ stream = "down" => recording' = recording
  <2>1. recording \in BOOLEAN
    BY DEF AlwaysInv
  <2>2. CASE stream = "down"
    BY <1>1, <2>1, <2>2 DEF Toggle, record
  <2>3. CASE stream # "down"
    BY <1>1, <2>1, <2>3, Zenon DEF Toggle
  <2> QED BY <2>2, <2>3
<1>3. stream = "play" /\ enable' /\ recording' => ~button'
  BY <1>1, Synced
<1> QED BY <1>1, <1>2, <1>3 DEF AlwaysInv

LEMMA AlwaysEnable ==
  ASSUME AlwaysInv, SetEnable
  PROVE  AlwaysInv'
<1>1. /\ UNCHANGED <<opts, stream, at, gui, pending>> /\ enable' \in BOOLEAN /\ enable' = ~enable
      /\ SyncGUI /\ IF recording # enable' THEN Toggle("auto") ELSE UNCHANGED record
  BY DEF SetEnable, May, world, AlwaysInv
<1>2. recording \in BOOLEAN
  BY DEF AlwaysInv
<1>3. CASE recording # enable'
  <2>1. Toggle("auto")
    BY <1>1, <1>3
  <2>2. stream # "down" => (early' <=> early \/ stream = "connect")
    BY <2>1, Zenon DEF Toggle
  <2>3. stream = "down" => UNCHANGED <<recording, early>>
    BY <2>1 DEF Toggle, record
  <2>4. recording' \in BOOLEAN /\ (stream # "down" => (recording' <=> ~recording))
    BY <1>2, <2>1, Toggled
  <2>5. enable' => ~recording
    BY <1>1, <1>2, <1>3, Zenon
  <2> QED BY <1>1, <2>2, <2>3, <2>4, <2>5, Synced DEF AlwaysInv
<1>4. CASE recording = enable'
  BY <1>1, <1>4, Synced DEF AlwaysInv, record
<1> QED BY <1>3, <1>4

LEMMA AlwaysStep ==
  ASSUME AlwaysInv, [Next]_vars
  PROVE  AlwaysInv'
<1>1. /\ opts.always /\ ~opts.slow /\ gui \in {"idle", "stop"}
      /\ recording \in BOOLEAN /\ enable \in BOOLEAN
      /\ at \in [opts.detectors -> {"idle", "start", "stop"}]
  BY DEF AlwaysInv
<1>2. OnPlan = "start" /\ OffPlan = "stop"
  BY <1>1 DEF OnPlan, OffPlan
<1>3. ASSUME NEW d \in opts.detectors, Detect(d) PROVE AlwaysInv'
  <2>1. CASE Frame(d)
    BY <1>1, <1>2, <2>1, AlwaysKept DEF Frame, HandleAlarm, world, record, panel, settings
  <2>2. CASE Act(d)
    <3>1. at[d] \in {"idle", "start", "stop"}
      BY <1>1
    <3>2. at' = [at EXCEPT ![d] = "idle"] /\ UNCHANGED record /\ SyncIfToggled
      BY <2>2, <3>1 DEF Act
    <3>3. UNCHANGED button
      BY <3>2 DEF SyncIfToggled, record
    <3> QED BY <1>1, <2>2, <3>2, <3>3, AlwaysKept DEF Act, world, record, settings
  <2>3. ~Late(d)
    BY <1>1 DEF Late
  <2> QED BY <1>3, <2>1, <2>2, <2>3 DEF Detect
<1>4. CASE Window \/ Refresh
  <2>1. CASE Signal \/ Expire
    BY <1>1, <2>1, AlwaysKept DEF Signal, Expire, world, record, panel, settings
  <2>2. CASE Clear
    BY <1>1, <1>2, <2>2, AlwaysKept DEF Clear, world, record, panel, settings
  <2>3. CASE ClearRest
    <3>1. UNCHANGED record /\ SyncIfToggled
      BY <1>1, <2>3 DEF ClearRest
    <3> QED BY <1>1, <2>3, <3>1, AlwaysKept DEF ClearRest, SyncIfToggled, world, record, settings
  <2>4. ~ClickRest
    BY <1>1 DEF ClickRest, Waiting
  <2>5. CASE Media \/ Refresh
    <3>1. /\ UNCHANGED <<opts, stream, recording, by, early, enable, at, gui>> /\ SyncGUI
          /\ pending' \in {pending, FALSE}
      BY <2>5 DEF Media, Refresh, world, record, settings
    <3> QED BY <3>1, Synced DEF AlwaysInv
  <2> QED BY <1>4, <2>1, <2>2, <2>3, <2>4, <2>5 DEF Window
<1>5. CASE User
  <2>1. CASE SetAnalyze
    <3>1. UNCHANGED record /\ SyncIfToggled
      BY <1>1, <1>2, <2>1 DEF SetAnalyze, ClearNow
    <3> QED BY <1>1, <2>1, <3>1, AlwaysKept DEF SetAnalyze, SyncIfToggled, May, world, record
  <2>2. CASE RequestShutdown
    <3>1. /\ UNCHANGED <<opts, at, gui, enable, recording, pending>> /\ stream' = "stop"
      BY <1>1, <1>2, <2>2 DEF RequestShutdown, ClearNow, May, world, record
    <3> QED BY <3>1 DEF AlwaysInv
  <2> QED BY <1>5, <2>1, <2>2, AlwaysClick, AlwaysEnable DEF User
<1>6. CASE Connect
  BY <1>6 DEF Connect, AlwaysInv, world, record, panel, settings
<1>7. CASE Started
  <2>1. /\ UNCHANGED <<opts, at, gui, enable, early>> /\ stream = "connect" /\ stream' = "play"
        /\ pending' = TRUE
    BY <1>1, <1>7 DEF Started, world, record, settings
  <2>2. CASE enable
    BY <1>1, <1>7, <2>1, <2>2 DEF Started, AlwaysInv
  <2>3. CASE ~enable
    BY <1>1, <1>7, <2>1, <2>3 DEF Started, AlwaysInv, record
  <2> QED BY <2>2, <2>3
<1>8. CASE Ended
  BY <1>8 DEF Ended, AlwaysInv, world, settings
<1>9. CASE Tick \/ Scene \/ UNCHANGED vars
  BY <1>1, <1>9, AlwaysKept DEF Tick, Scene, vars, record, panel, settings
<1>10. CASE \E m \in net, again \in BOOLEAN : Receive(m, again)
  BY <1>1, <1>10, AlwaysKept DEF Receive, record, panel, settings
<1> QED BY <1>3, <1>4, <1>5, <1>6, <1>7, <1>8, <1>9, <1>10 DEF Next

(* A camera that records always does, whatever is clicked and detected and *)
(* however often the stream is lost, except for the ends the user gives it *)
(* past the button.                                                        *)
THEOREM AlwaysIsRecorded == Spec => []AlwaysRecorded
<1> DEFINE Inv == opts.always /\ ~opts.slow => AlwaysInv
<1>1. Init => Inv
  <2> SUFFICES ASSUME Init, opts.always, ~opts.slow PROVE AlwaysInv
    OBVIOUS
  <2>1. recording \in BOOLEAN
    BY Zenon DEF Init
  <2> QED BY <2>1 DEF Init, AlwaysInv
<1>2. Inv /\ [Next]_vars => Inv'
  BY OptsKept, AlwaysStep
<1>3. Inv => AlwaysRecorded
  BY DEF AlwaysInv, AlwaysRecorded
<1> QED BY <1>1, <1>2, <1>3, PTL DEF Spec

-----------------------------------------------------------------------------
(* Types.  The signals that wait for the window are bounded although a     *)
(* detector emits one without looking at the others: a detector looks at a *)
(* frame only while fewer than MaxSignals wait, and each has at most one   *)
(* signal still to emit.  A stream that is up has not yet been lost.       *)
ToEmit == {d \in opts.detectors : at[d] \in {"start", "start+", "stop", "stop+"}}

TypeInv ==
  /\ TypeOK
  /\ Len(signals) + Cardinality(ToEmit) < MaxSignals + Cardinality(Kinds)
  /\ stream # "down" => losses < MaxLosses

LEMMA KindsFinite ==
  /\ Cardinality(Kinds) = 3
  /\ \A S \in SUBSET Kinds : IsFiniteSet(S) /\ Cardinality(S) \in 0..3
<1>1. IsFiniteSet({}) /\ Cardinality({}) = 0
  BY FS_EmptySet
<1>2. IsFiniteSet({"video"}) /\ Cardinality({"video"}) = 1
  BY FS_Singleton
<1>3. IsFiniteSet({"video", "audio"}) /\ Cardinality({"video", "audio"}) = 2
  <2>1. {"video", "audio"} = {"video"} \cup {"audio"} /\ "audio" \notin {"video"}
    OBVIOUS
  <2> QED BY <1>2, <2>1, FS_AddElement
<1>4. IsFiniteSet(Kinds) /\ Cardinality(Kinds) = 3
  <2>1. Kinds = {"video", "audio"} \cup {"remote"} /\ "remote" \notin {"video", "audio"}
    BY DEF Kinds
  <2> QED BY <1>3, <2>1, FS_AddElement
<1>5. ASSUME NEW S \in SUBSET Kinds
      PROVE  IsFiniteSet(S) /\ Cardinality(S) \in 0..3
  <2>1. IsFiniteSet(S) /\ Cardinality(S) <= Cardinality(Kinds)
    BY <1>4, FS_Subset
  <2>2. Cardinality(S) \in Nat
    BY <2>1, FS_CardinalityType
  <2> QED BY <1>4, <2>1, <2>2
<1> QED BY <1>4, <1>5

Hows == {"auto", "hand", "blind", "late"}
Guis == {"idle", "stop", "stop+", "click", "enable"}

LEMMA ToggleTypes ==
  ASSUME {recording, early} \subseteq BOOLEAN, by \in Hows, NEW how \in Hows,
         Toggle(how) \/ UNCHANGED record
  PROVE  {recording', early'} \subseteq BOOLEAN /\ by' \in Hows
BY DEF Toggle, record

LEMMA TypesInit == Init => TypeInv
<1> SUFFICES ASSUME Init PROVE TypeInv
  OBVIOUS
<1>1. ToEmit = {} /\ Cardinality({}) = 0 /\ Len(signals) = 0
  BY FS_EmptySet DEF Init, ToEmit
<1>2. enable \in BOOLEAN
  BY Zenon DEF Init
<1>3. signals \in Seq({"start", "stop"})
  BY EmptySeq DEF Init
<1>4. TypeOK
  <2>1. /\ {enable, setting, analyze, recording, manual, early, alarm, scene, button, pending}
             \subseteq BOOLEAN
        /\ by \in {"auto", "hand", "blind", "late"}
    BY <1>2, Zenon DEF Init
  <2>2. timer \in 0..Off /\ since \in 0..Forever /\ last \in 0..(MaxDelay + 1) /\ age \in 0..(Expiry + 1)
    BY Bounds DEF Init
  <2>3. Len(signals) < MaxSignals + Cardinality(Kinds) /\ clicks \in 0..MaxClicks
        /\ losses \in 0..MaxLosses
    BY <1>1, AlarmAssumption, KindsFinite DEF Init
  <2>4. at \in [opts.detectors -> {"idle", "start", "start+", "stop", "stop+", "toggle"}]
    BY DEF Init
  <2>5. /\ opts \in Options /\ stream \in {"down", "connect", "play", "stop"}
        /\ gui \in {"idle", "stop", "stop+", "click", "enable"} /\ states \in {"none", "off", "on"}
        /\ net \subseteq [age : 0..MaxDelay, on : BOOLEAN]
    BY DEF Init
  <2> QED BY <1>3, <2>1, <2>2, <2>3, <2>4, <2>5 DEF TypeOK
<1> QED BY <1>1, <1>4, AlarmAssumption, KindsFinite DEF TypeInv, Init

(* The flags, and where the window and the stream are.                     *)
TypeFlags ==
  /\ {enable, setting, analyze, recording, manual, early, alarm, scene, button, pending}
       \subseteq BOOLEAN
  /\ by \in Hows
  /\ stream \in {"down", "connect", "play", "stop"} /\ gui \in Guis

Toggles == (\E how \in Hows : Toggle(how)) \/ UNCHANGED record
Buttons == UNCHANGED button \/ SyncGUI

LEMMA FlagsStep ==
  ASSUME TypeOK, Next
  PROVE  TypeFlags'
<1>0. TypeFlags /\ Hows = {"auto", "hand", "blind", "late"} /\ Guis = {"idle", "stop", "stop+", "click", "enable"}
  BY DEF TypeOK, TypeFlags, Hows, Guis
<1> HIDE DEF Hows, Guis
<1>1. {recording', early'} \subseteq BOOLEAN /\ by' \in Hows
  <2>1. CASE Toggles
    BY <1>0, <2>1, ToggleTypes DEF TypeFlags, Toggles
  <2>2. CASE Started
    BY <1>0, <2>2 DEF Started, TypeFlags, record
  <2>3. CASE Ended
    BY <1>0, <2>3 DEF Ended
  <2>4. ASSUME NEW d \in opts.detectors, Detect(d)
        PROVE  Toggles
    <3>1. Unless(~alarm) \in Hows /\ "auto" \in Hows
      BY <1>0 DEF Unless
    <3> QED BY <2>4, <3>1, Zenon DEF Detect, Frame, Act, Late, Toggles
  <2>5. ASSUME NEW key \in BOOLEAN, Click(key)
        PROVE  Toggles
    <3>1. (IF key \/ pending THEN "blind" ELSE "hand") \in Hows /\ "hand" \in Hows
      BY <1>0
    <3> QED BY <2>5, <3>1, Zenon DEF Click, Toggles
  <2>6. ASSUME Window \/ SetAnalyze \/ SetEnable \/ RequestShutdown \/ Refresh \/ Connect \/ Tick \/ Scene
        PROVE  Toggles
    <3>1. Unless(~alarm /\ ~opts.always) \in Hows /\ "auto" \in Hows /\ "hand" \in Hows
      BY <1>0 DEF Unless
    <3>2. CASE Window
      BY <3>1, <3>2, Zenon DEF Window, Signal, Clear, ClearRest, ClickRest, Media, Expire, Toggles
    <3>3. CASE ~Window
      BY <2>6, <3>1, <3>3, Zenon DEF SetAnalyze, SetEnable, RequestShutdown, ClearNow, Refresh, Connect,
                  Tick, Scene, Toggles
    <3> QED BY <3>2, <3>3
  <2>7. ASSUME NEW m \in net, NEW again \in BOOLEAN, Receive(m, again)
        PROVE  Toggles
    BY <2>7 DEF Receive, Toggles
  <2> QED BY <2>1, <2>2, <2>3, <2>4, <2>5, <2>6, <2>7 DEF Next, User
<1> DEFINE Rest == /\ {enable', setting', analyze', manual', alarm', scene', pending'} \subseteq BOOLEAN
                   /\ stream' \in {"down", "connect", "play", "stop"} /\ gui' \in Guis /\ Buttons
<1>2. ASSUME NEW d \in opts.detectors, Detect(d)
      PROVE  Rest
  BY <1>0, <1>2 DEF Detect, Frame, HandleAlarm, Act, Late, SyncIfToggled, TypeFlags, Buttons, panel, settings, world
<1>3. ASSUME Signal \/ Expire \/ Tick \/ Scene \/ Media \/ Refresh PROVE Rest
  BY <1>0, <1>3 DEF Signal, Expire, Tick, Scene, Media, Refresh, TypeFlags, Buttons, panel, settings, world
<1>4. ASSUME Clear \/ ClearRest \/ ClickRest PROVE Rest
  BY <1>0, <1>4 DEF Clear, OffPlan, ClearRest, ClickRest, SyncIfToggled, TypeFlags, Buttons, panel, settings, world
<1>5. ASSUME SetAnalyze \/ SetEnable \/ RequestShutdown PROVE Rest
  BY <1>0, <1>5 DEF May, SetAnalyze, SetEnable, RequestShutdown, ClearNow, SyncIfToggled, TypeFlags, Buttons, world
<1>6. ASSUME NEW key \in BOOLEAN, Click(key) PROVE Rest
  BY <1>0, <1>6 DEF May, Click, TypeFlags, Buttons, world
<1>7. ASSUME Connect \/ Started \/ Ended PROVE Rest
  BY <1>0, <1>7 DEF Connect, Started, Ended, TypeFlags, Buttons, panel, settings, world
<1>8. ASSUME NEW m \in net, NEW again \in BOOLEAN, Receive(m, again)
      PROVE  Rest
  BY <1>0, <1>8 DEF Receive, TypeFlags, Buttons, panel, settings
<1>9. Rest
  BY <1>2, <1>3, <1>4, <1>5, <1>6, <1>7, <1>8 DEF Next, Window, User
<1>10. button' \in BOOLEAN
  BY <1>0, <1>9, Zenon DEF Buttons, SyncGUI, TypeFlags
<1> QED BY <1>1, <1>9, <1>10 DEF TypeFlags

(* The clocks of the camera, of the timer and of the network.              *)
TypeClocks ==
  /\ timer \in 0..Off /\ since \in 0..Forever
  /\ net \subseteq [age : 0..MaxDelay, on : BOOLEAN]
  /\ states \in {"none", "off", "on"} /\ last \in 0..(MaxDelay + 1) /\ age \in 0..(Expiry + 1)
  /\ clicks \in 0..MaxClicks /\ losses \in 0..MaxLosses

LEMMA ClocksStep ==
  ASSUME TypeInv, Next
  PROVE  TypeClocks'
<1>0. TypeClocks /\ 0 \in 0..(Expiry + 1) /\ Off \in 0..Off /\ Lag \in 0..Off /\ 0 \in 0..Forever
  BY Bounds DEF TypeInv, TypeOK, TypeClocks
<1>1. ASSUME NEW d \in opts.detectors, Detect(d)
      PROVE  UNCHANGED <<timer, since, feed, clicks, losses>>
  BY <1>1 DEF Detect, Frame, Act, Late, world, settings
<1>2. ASSUME UNCHANGED <<since, feed, clicks, losses>>, timer' \in {timer, Lag, Off}
      PROVE  TypeClocks'
  BY <1>0, <1>2 DEF TypeClocks, feed
<1>3. CASE Signal \/ Clear \/ ClearRest \/ ClickRest \/ Media \/ Refresh \/ Connect \/ Started
  BY <1>2, <1>3 DEF Signal, Clear, ClearRest, ClickRest, Media, Refresh, Connect, Started, world, settings
<1>4. CASE Expire
  BY <1>0, <1>4 DEF Expire, settings, TypeClocks
<1>5. CASE User
  <2>1. UNCHANGED <<since, feed, losses>> /\ timer' \in {timer, Off}
    BY <1>5 DEF User, Click, SetAnalyze, SetEnable, RequestShutdown, ClearNow, world
  <2>2. clicks < MaxClicks /\ clicks' = clicks + 1
    BY <1>5 DEF User, Click, SetAnalyze, SetEnable, RequestShutdown, May
  <2> QED BY <1>0, <2>1, <2>2, Bounds DEF TypeClocks, feed
<1>6. CASE Ended
  <2>1. losses < MaxLosses
    BY <1>6 DEF Ended, TypeInv
  <2>2. losses' = losses + 1 /\ UNCHANGED <<since, feed, clicks>> /\ timer' = Off
    BY <1>6 DEF Ended, world, settings
  <2> QED BY <1>0, <2>1, <2>2, AlarmAssumption DEF TypeClocks, feed
<1>7. CASE Scene
  BY <1>0, <1>7 DEF Scene, TypeClocks, feed, settings
<1>8. CASE Tick
  <2>1. UNCHANGED <<states, clicks, losses>> /\ timer \in 0..Off
    BY <1>0, <1>8 DEF Tick, settings, TypeClocks
  <2>2. timer' \in 0..Off
    BY <2>1, <1>8, Bounds DEF Tick
  <2>3. since' \in 0..Forever
    BY <1>0, <1>8, Bounds DEF Tick, Upto, TypeClocks
  <2>4. last' \in 0..(MaxDelay + 1) /\ age' \in 0..(Expiry + 1)
    BY <1>0, <1>8, Bounds DEF Tick, Upto, TypeClocks
  <2>5. net' \subseteq [age : 0..MaxDelay, on : BOOLEAN]
    <3>1. CASE "remote" \in opts.detectors
      <4>1. PICK sent \in {{}, {TRUE}, {FALSE}} : Broadcast(sent)
        BY <1>8, <3>1 DEF Tick
      <4> SUFFICES ASSUME NEW m \in net' PROVE m \in [age : 0..MaxDelay, on : BOOLEAN]
        OBVIOUS
      <4>2. CASE \E on \in sent : m = [age |-> 0, on |-> on]
        <5>1. PICK on \in sent : m = [age |-> 0, on |-> on]
          BY <4>2
        <5>2. on \in BOOLEAN
          BY <4>1, <5>1
        <5> QED BY <5>1, <5>2, Bounds
      <4>3. CASE \E n \in net : n.age < MaxDelay /\ m = [n EXCEPT !.age = @ + 1]
        <5>1. PICK n \in net : n.age < MaxDelay /\ m = [n EXCEPT !.age = @ + 1]
          BY <4>3
        <5>2. n \in [age : 0..MaxDelay, on : BOOLEAN]
          BY <1>0 DEF TypeClocks
        <5> QED BY <5>1, <5>2, Bounds
      <4> QED BY <4>1, <4>2, <4>3 DEF Broadcast
    <3>2. CASE "remote" \notin opts.detectors
      BY <1>0, <1>8, <3>2 DEF Tick, TypeClocks
    <3> QED BY <3>1, <3>2
  <2> QED BY <1>0, <2>1, <2>2, <2>3, <2>4, <2>5 DEF TypeClocks
<1>9. ASSUME NEW m \in net, NEW again \in BOOLEAN, Receive(m, again)
      PROVE  TypeClocks'
  <2>1. m.age \in 0..MaxDelay /\ 0..MaxDelay \subseteq 0..(MaxDelay + 1)
    BY <1>0, Bounds DEF TypeClocks
  <2>2. UNCHANGED <<timer, since, clicks, losses>> /\ net' \subseteq net /\ last' = m.age
        /\ states' \in {states, "on", "off"} /\ age' \in {age, 0}
    BY <1>9 DEF Receive, settings
  <2> QED BY <1>0, <2>1, <2>2 DEF TypeClocks
<1> QED BY <1>1, <1>2, <1>3, <1>4, <1>5, <1>6, <1>7, <1>8, <1>9 DEF Next, Window

(* The detectors and their signals.                                        *)
TypeSignals ==
  /\ at \in [opts.detectors -> {"idle", "start", "start+", "stop", "stop+", "toggle"}]
  /\ signals \in Seq({"start", "stop"})
  /\ Len(signals) + Cardinality(ToEmit) < MaxSignals + 3

LEMMA SignalsStep ==
  ASSUME TypeInv, Next
  PROVE  TypeSignals'
<1>1. /\ TypeSignals /\ opts' = opts /\ opts.detectors \subseteq Kinds
      /\ MaxSignals \in Nat /\ Len(signals) \in Nat
  BY OptsKept, KindsFinite, AlarmAssumption, LenProperties DEF TypeInv, TypeOK, TypeSignals
<1>2. /\ IsFiniteSet(ToEmit) /\ Cardinality(ToEmit) \in 0..3
      /\ IsFiniteSet(ToEmit') /\ Cardinality(ToEmit') \in 0..3
  <2>1. ToEmit \in SUBSET Kinds /\ ToEmit' \in SUBSET Kinds
    BY <1>1 DEF ToEmit
  <2> QED BY <2>1, KindsFinite
<1>3. ASSUME NEW d \in opts.detectors, Frame(d)
      PROVE  TypeSignals'
  <2>1. UNCHANGED signals /\ Len(signals) < MaxSignals
        /\ \E x \in {"start", "start+", "stop", "stop+"} : at' = [at EXCEPT ![d] = x]
    BY <1>3 DEF Frame, HandleAlarm, Analysed, OnPlan, OffPlan
  <2> QED BY <1>1, <1>2, <2>1 DEF TypeSignals
<1>4. ASSUME NEW d \in opts.detectors, Act(d)
      PROVE  TypeSignals'
  <2>1. /\ at[d] \in {"start", "start+", "stop", "stop+"}
        /\ at' = [at EXCEPT ![d] = "toggle"] \/ at' = [at EXCEPT ![d] = "idle"]
    BY <1>4 DEF Act
  <2>2. \E kind \in {"start", "stop"} : signals' = Append(signals, kind)
    BY <1>4, Zenon DEF Act, Emit
  <2>3. signals' \in Seq({"start", "stop"}) /\ Len(signals') = Len(signals) + 1
    BY <1>1, <2>2, AppendProperties DEF TypeSignals
  <2>4. ToEmit' = ToEmit \ {d} /\ d \in ToEmit
    BY <1>1, <2>1 DEF ToEmit, TypeSignals
  <2>5. Cardinality(ToEmit') = Cardinality(ToEmit) - 1
    BY <1>2, <2>4, FS_RemoveElement
  <2>6. at' \in [opts.detectors -> {"idle", "start", "start+", "stop", "stop+", "toggle"}]
    BY <1>1, <2>1 DEF TypeSignals
  <2>7. Len(signals') + Cardinality(ToEmit') < MaxSignals + 3
    BY <1>1, <1>2, <2>3, <2>5 DEF TypeSignals
  <2> QED BY <1>1, <2>3, <2>6, <2>7 DEF TypeSignals
<1>5. ASSUME ToEmit' \subseteq ToEmit,
             at' \in [opts.detectors -> {"idle", "start", "start+", "stop", "stop+", "toggle"}],
             signals' \in Seq({"start", "stop"}), Len(signals') <= Len(signals)
      PROVE  TypeSignals'
  <2>1. Cardinality(ToEmit') <= Cardinality(ToEmit)
    BY <1>2, <1>5, FS_Subset
  <2>2. Len(signals') \in Nat
    BY <1>5, LenProperties
  <2> QED BY <1>1, <1>2, <1>5, <2>1, <2>2 DEF TypeSignals
<1>6. ASSUME NEW d \in opts.detectors, Late(d)
      PROVE  TypeSignals'
  <2>1. signals' = signals /\ at' = [at EXCEPT ![d] = "idle"]
    BY <1>6 DEF Late
  <2>2. ToEmit' \subseteq ToEmit
    BY <1>1, <2>1 DEF ToEmit, TypeSignals
  <2> QED BY <1>1, <1>5, <2>1, <2>2 DEF TypeSignals
<1>7. ASSUME at' = at, signals' = signals \/ signals' = <<>> \/ (signals # <<>> /\ signals' = Tail(signals))
      PROVE  TypeSignals'
  <2>1. ToEmit' = ToEmit
    BY <1>1, <1>7 DEF ToEmit
  <2>2. signals' \in Seq({"start", "stop"}) /\ Len(signals') <= Len(signals)
    <3>1. CASE signals # <<>> /\ signals' = Tail(signals)
      <4>1. Tail(signals) \in Seq({"start", "stop"}) /\ Len(Tail(signals)) = Len(signals) - 1
        BY <1>1, <3>1, HeadTailProperties DEF TypeSignals
      <4> QED BY <1>1, <3>1, <4>1
    <3>2. CASE signals' = <<>>
      BY <1>1, <3>2, EmptySeq
    <3>3. CASE signals' = signals
      BY <1>1, <3>3 DEF TypeSignals
    <3> QED BY <1>7, <3>1, <3>2, <3>3
  <2> QED BY <1>1, <1>5, <1>7, <2>1, <2>2 DEF TypeSignals
<1>8. ASSUME Window \/ User \/ Refresh \/ Connect \/ Started \/ Ended \/ Tick \/ Scene
      PROVE  at' = at /\ (signals' = signals \/ signals' = <<>>
                            \/ (signals # <<>> /\ signals' = Tail(signals)))
  BY <1>8 DEF Window, Signal, Clear, ClearRest, ClickRest, Media, Expire, User, Click, SetAnalyze,
              SetEnable, RequestShutdown, Refresh, Connect, Started, Ended, Tick, Scene
<1>9. ASSUME NEW m \in net, NEW again \in BOOLEAN, Receive(m, again)
      PROVE  at' = at /\ signals' = signals
  BY <1>9 DEF Receive
<1> QED BY <1>3, <1>4, <1>6, <1>7, <1>8, <1>9 DEF Next, Detect

LEMMA TypesStep == TypeInv /\ [Next]_vars => TypeInv'
<1> SUFFICES ASSUME TypeInv, [Next]_vars PROVE TypeInv'
  OBVIOUS
<1>1. CASE UNCHANGED vars
  <2>1. UNCHANGED ToEmit
    BY <1>1 DEF ToEmit, vars
  <2> QED BY <1>1, <2>1 DEF TypeInv, TypeOK, vars, record, panel, feed
<1>2. CASE Next
  <2>1. TypeFlags' /\ TypeClocks' /\ TypeSignals' /\ opts' = opts /\ opts \in Options
    BY <1>2, FlagsStep, ClocksStep, SignalsStep, OptsKept DEF TypeInv, TypeOK
  <2>2. ToEmit' \in SUBSET Kinds
    BY <2>1, AlarmAssumption DEF ToEmit
  <2>3. Len(signals') < MaxSignals + Cardinality(Kinds)
    BY <2>1, <2>2, KindsFinite, LenProperties, AlarmAssumption DEF TypeSignals
  <2>4. stream' # "down" => losses' < MaxLosses
    <3>1. \A d \in opts.detectors : Detect(d) => UNCHANGED <<stream, losses>>
      BY DEF Detect, Frame, Act, Late
    <3>2. Window \/ Refresh \/ Tick \/ Scene => UNCHANGED <<stream, losses>>
      BY DEF Window, Signal, Clear, ClearRest, ClickRest, Media, Expire, Refresh, Tick, Scene
    <3>3. User => losses' = losses /\ (stream' = stream \/ stream # "down")
      BY DEF User, Click, SetAnalyze, SetEnable, RequestShutdown
    <3>4. Connect \/ Started \/ Ended => stream' = "down" \/ (losses' = losses
                                            /\ (losses < MaxLosses \/ stream # "down"))
      BY DEF Connect, Started, Ended
    <3>5. \A m \in net, again \in BOOLEAN : Receive(m, again) => UNCHANGED <<stream, losses>>
      BY DEF Receive
    <3> QED BY <1>2, <3>1, <3>2, <3>3, <3>4, <3>5 DEF Next, TypeInv
  <2> QED BY <2>1, <2>3, <2>4, KindsFinite DEF TypeInv, TypeOK, TypeFlags, TypeClocks, TypeSignals, Hows, Guis
<1> QED BY <1>1, <1>2

(* The values of the variables have their types and, what matters, the     *)
(* signals that wait for the window are bounded, the timer runs at most    *)
(* the lag time and no clock overruns, for every lag time and delay.       *)
THEOREM AlarmTypes == Spec => []TypeOK
<1>1. TypeInv => TypeOK
  BY DEF TypeInv
<1> QED BY TypesInit, TypesStep, <1>1, PTL DEF Spec
=============================================================================
