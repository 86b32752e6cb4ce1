------------------------------- MODULE MCPeers -------------------------------
(* Instances of Peers for TLC.  Blocks of memory, hosts and interfaces are  *)
(* interchangeable; the symmetry is used with safety properties only.       *)
EXTENDS Peers, TLC

Symmetric == Permutations(Lists) \cup Permutations(Hosts) \cup Permutations(Interfaces)
=============================================================================
