-------------------------- MODULE MCRegistryThreads --------------------------
(* Instances of RegistryThreads for TLC.  No symmetry: Init chooses a       *)
(* member of Pids, and blocks appear in a temporal property.                *)
EXTENDS RegistryThreads
=============================================================================
