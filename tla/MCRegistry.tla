----------------------------- MODULE MCRegistry -----------------------------
(* Registry for TLC.  No symmetry: Init chooses a member of Pids. *)
EXTENDS Registry
=============================================================================
