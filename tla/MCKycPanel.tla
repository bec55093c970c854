------------------------------ MODULE MCKycPanel ------------------------------
(***************************************************************************)
(* KycPanel on a small instance: three wallets in one browser, of which    *)
(* one is on the denylist, and two requests at the issuer at a time.  The  *)
(* wallets that may enrol and the requests are interchangeable.            *)
(***************************************************************************)
EXTENDS KycPanel, TLC

CONSTANTS alice, bob, mallory, req1, req2

MCSymmetry == Permutations({alice, bob}) \cup Permutations({req1, req2})
=============================================================================
