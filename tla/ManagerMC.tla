------------------------------ MODULE ManagerMC ------------------------------
(* Two cameras: A, whose display and record profiles differ, and B with a  *)
(* single profile.                                                         *)
EXTENDS ManagerProps

CONSTANTS A, B, a, a2, b

PairDisplay == A :> a @@ B :> b
PairRecord  == A :> a2 @@ B :> b

Opt(cs, n, some) == [cameras |-> cs, clicks |-> n, fails |-> some]
All   == {"connect", "setup", "stream"}
Mixed == {Opt({A, B}, 3, {}), Opt({A, B}, 2, {"stream"}), Opt({A}, 2, {"connect", "setup"}),
          Opt({A}, 1, All), Opt({B}, 2, All)}
=============================================================================
