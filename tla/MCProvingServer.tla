---------------------------- MODULE MCProvingServer ----------------------------
(***************************************************************************)
(* ProvingServer on a small instance: a tree of four leaves, which a pool  *)
(* of three notes nearly fills.                                            *)
(***************************************************************************)
EXTENDS ProvingServer

CONSTANTS c1, c2, c3
=============================================================================
