------------------------------- MODULE ProxyMC -------------------------------
(* Instances of Proxy for TLC. *)
EXTENDS ProxyProps

Opt(again, racing) == [again |-> again, racing |-> racing]

Both  == {Opt(FALSE, FALSE), Opt(FALSE, TRUE), Opt(TRUE, FALSE)}
Again == {Opt(TRUE, FALSE)}
=============================================================================
