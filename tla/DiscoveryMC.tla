----------------------------- MODULE DiscoveryMC -----------------------------
(* Two cameras, the first of which has two addresses. *)
EXTENDS DiscoveryProps

CONSTANTS c1, c2, a1, a2, b

TwoCameras == [x \in {a1, a2, b} |-> IF x = b THEN c2 ELSE c1]
Skews(x, y, z) == [v \in {a1, a2, b} |-> CASE v = a1 -> x [] v = a2 -> y [] v = b -> z]

Opt(answers, n, what) ==
  [nets |-> answers, cached |-> FALSE, common |-> TRUE, clicks |-> n, manual |-> {}, faults |-> what,
   private |-> {}, open |-> {}, skew |-> Skews(0, 0, 0)]

Nets == <<{a1, b}, {a2}>>
Two  == <<{a1}, {b}>>
One  == <<{a1, b}>>
Mixed ==
  { [Opt(Two, 1, {}) EXCEPT !.common = FALSE],
    [Opt(Two, 1, {}) EXCEPT !.private = {a1}, !.skew = Skews(-1, 0, 1)],
    [Opt(Nets, 1, {}) EXCEPT !.open = {a1, b}],
    [Opt(One, 1, {}) EXCEPT !.skew = Skews(2, 0, 1)],
    Opt(Two, 1, {"lost", "down"}),
    Opt(<<{b}>>, 2, {"down"}),
    [Opt(One, 1, {"broken", "silent"}) EXCEPT !.private = {b}],
    [Opt(<<{b}>>, 2, {"user"}) EXCEPT !.private = {b}],
    [Opt(<<{b}>>, 1, {}) EXCEPT !.open = {b}, !.skew = Skews(0, 0, 1)],
    [Opt(One, 2, {}) EXCEPT !.cached = TRUE, !.private = {b}, !.skew = Skews(0, 0, 1)],
    [Opt(<<{a1}>>, 2, {}) EXCEPT !.manual = {a2, b}],
    [Opt(<<{a1}>>, 2, {}) EXCEPT !.manual = {b}, !.private = {a1, b}],
    [Opt(<<{a1}>>, 2, {"silent"}) EXCEPT !.manual = {b}] }
Cached == {[Opt(One, 1, {"down"}) EXCEPT !.cached = TRUE]}
=============================================================================
