------------------------------- MODULE MCServer -------------------------------
(* The bounds of an instance are constants of Server itself.               *)
EXTENDS Server
=============================================================================
