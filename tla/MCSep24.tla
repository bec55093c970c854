-------------------------------- MODULE MCSep24 --------------------------------
(***************************************************************************)
(* Sep24 on a small instance: two runs of the buttons, at once or one      *)
(* after the other.  No symmetry: HandlersEnd is a liveness property.      *)
(***************************************************************************)
EXTENDS Sep24

CONSTANTS tab1, tab2
=============================================================================
