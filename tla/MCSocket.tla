------------------------------- MODULE MCSocket -------------------------------
(* The bounds of an instance are constants of Socket itself.               *)
EXTENDS Socket
=============================================================================
