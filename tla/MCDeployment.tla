----------------------------- MODULE MCDeployment -----------------------------
(***************************************************************************)
(* Deployment on a small instance.                                         *)
(***************************************************************************)
EXTENDS Deployment

CONSTANTS run1, run2
=============================================================================
