------------------------------ MODULE MCFabric ------------------------------
(***************************************************************************)
(* Fabric for model checking: two nodes, of which one asks and one         *)
(* answers unless a configuration says otherwise.                          *)
(***************************************************************************)
EXTENDS Fabric

CONSTANTS n1, n2, v1, c1, c2, k1, k2

TwoNodes   == {n1, n2}
OneClient  == {n1}
OneVNode   == {v1}
OneCookie  == {c1}
TwoCookies == {c1, c2}
OneKey     == {k1}
TwoKeys    == {k1, k2}

\* n1 has one write of its own to send; n2 has a stream of two to serve.
OneAndTwo  == (n1 :> 1) @@ (n2 :> 2)

=============================================================================
