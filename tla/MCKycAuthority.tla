---------------------------- MODULE MCKycAuthority ----------------------------
(***************************************************************************)
(* KycAuthority on a small instance.  The wallets and the requests are     *)
(* interchangeable.                                                        *)
(***************************************************************************)
EXTENDS KycAuthority, TLC

CONSTANTS alice, bob, mallory, req1, req2

MCSymmetry == Permutations({alice, bob}) \cup Permutations({req1, req2})
=============================================================================
