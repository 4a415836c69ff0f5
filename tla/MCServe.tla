--------------------------------- MODULE MCServe ---------------------------------
(***************************************************************************)
(* A small instance of Serve: one connection (handlers have nothing in      *)
(* common but the state they read) and every configuration.                 *)
(***************************************************************************)
EXTENDS Serve

CONSTANT c1
=============================================================================
