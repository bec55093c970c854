------------------------------ MODULE MCCorridor ------------------------------
(***************************************************************************)
(* Corridor on small instances; the cfg files choose the wallets and bounds.*)
(***************************************************************************)
EXTENDS Corridor

CONSTANTS alice, bob, pool, tab1, tab2, page

MCFunds == [w \in Wallets |-> 30]
MCSalt == [send |-> "us", receive |-> "ng"]

\* One handler per wallet.
MCOneJobEach == [w \in Wallets |-> w]

\* Two handlers of one sender (a second click, a second tab) and a recipient.
\* Nothing tells the two apart.
MCTwoTabs == (tab1 :> alice) @@ (tab2 :> alice) @@ (page :> bob)
MCTabSymmetry == Permutations({tab1, tab2})
=============================================================================
