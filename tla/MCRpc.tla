-------------------------------- MODULE MCRpc --------------------------------
(* Instances of Rpc for TLC: two calls and a local one of one interface and *)
(* a local one of another, served by one daemon.                           *)
EXTENDS Rpc, TLC

CONSTANTS c1, c2, l1, l2, i1, i2, d1

WantsMC == c1 :> i1 @@ c2 :> i1 @@ l1 :> i1 @@ l2 :> i2
\* Restricted to the calls of a run.
MCWants == [c \in Calls |-> WantsMC[c]]

MCServedBy == [i \in Interfaces |-> d1]
=============================================================================
