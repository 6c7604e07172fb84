------------------------------ MODULE PlayerMC ------------------------------
(* Constants of module Player for model checking: kinds of player.         *)
EXTENDS PlayerProps, TLC

File(n, u) == [media |-> {"video"}, live |-> FALSE, hidden |-> FALSE, packets |-> n,
               user |-> u, fails |-> {}]
Camera(m, n, u, f) == [media |-> m, live |-> TRUE, hidden |-> m = {}, packets |-> n,
                       user |-> u, fails |-> f]

Files     == {File(4, {"pause"}), File(2, {"seek", "pause"})}
SeekFile  == {File(2, {"seek"})}
VideoLive == {Camera({"video"}, 2, {"stop"}, {})}
Cameras   == {Camera({"video"}, 2, {"stop"}, {"connect"}),
              Camera({"audio"}, 1, {"stop"}, {"audio"}),
              Camera({}, 3, {"stop"}, {"setup", "read"}),
              Camera({"video", "audio"}, 1, {}, {})}
=============================================================================
