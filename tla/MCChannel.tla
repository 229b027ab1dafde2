------------------------------ MODULE MCChannel ------------------------------
(* Bounded instances of Channel: threads that may make any call at any time. *)
EXTENDS Channel
=============================================================================
