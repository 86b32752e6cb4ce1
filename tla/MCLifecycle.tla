----------------------------- MODULE MCLifecycle -----------------------------
(* Instances of Lifecycle for TLC.  Without symmetry: there is a temporal   *)
(* property.                                                                *)
EXTENDS Lifecycle
=============================================================================
