------------------------------ MODULE MCPoolCalls ------------------------------
(***************************************************************************)
(* PoolCalls on a small instance: two wallets, both of which may deposit,  *)
(* and one of which may withdraw.  Every check of the entry points has     *)
(* calls that pass it and calls that fail it.                              *)
(***************************************************************************)
EXTENDS PoolCalls, TLC

CONSTANTS alice, bob, pool, c1, c2, c3, n1, n2, k1, k2, r0, r1, g0, g1, u1, u2

MCWallets == {alice, bob}
MCCommitments == {c1, c2, c3}
MCSpendNullifiers == {n1, n2}
MCComplianceNullifiers == {k1, k2}
MCRoots == {r0, r1}
MCRegistryRoots == {g0, g1}
MCUids == {u1, u2}
MCClaims == {"sender", "receiver"}
MCFunds == [w \in MCWallets |-> 10]

\* Compliance proofs for the unit amount, for another amount, for either
\* attestation, and one that does not verify.  All are about one nullifier, so
\* that a call's argument may be another.
MCComplianceProofs ==
  [merkle_root : {g0}, amount : {1, 2}, compliance_nullifier : {k1}, uid : MCUids,
   valid : {TRUE}]
  \cup [merkle_root : {g0}, amount : {1}, compliance_nullifier : {k1}, uid : {u1},
        valid : {FALSE}]

MCDepositCalls ==
  [caller : MCWallets, amount : {0, 1}, note_commitment : {c1, c2},
   new_root : {r1}, compliance_nullifier : MCComplianceNullifiers,
   compliance : MCComplianceProofs, uid : MCUids]

\* Spend proofs of the leaves of r1, about the nullifier n1.
MCShieldedProofs(amounts, valids) ==
  [merkle_root : {r1}, nullifier_hash : {n1}, new_commitment_1 : {c2},
   new_commitment_2 : {c3}, withdraw_amount : amounts, valid : valids]

MCTransferCalls ==
  [spend_nullifier : MCSpendNullifiers, new_commitment_1 : {c2},
   new_commitment_2 : {c3}, new_root : MCRoots,
   shielded : MCShieldedProofs({0}, BOOLEAN)]

MCWithdrawCalls ==
  [caller : {bob}, amount : {1}, spend_nullifier : MCSpendNullifiers,
   new_root : MCRoots, shielded : MCShieldedProofs({1, 2}, {TRUE}),
   compliance_nullifier : {k2}, compliance : MCComplianceProofs, uid : MCUids]

\* A live attestation for either edge, one that expires at time 1, one by
\* another authority.
MCIssuable ==
  {[subject |-> w, genuine |-> TRUE, revoked |-> FALSE, expires |-> 1, claim |-> c] :
     w \in MCWallets, c \in MCClaims}
  \cup {[subject |-> bob, genuine |-> g, revoked |-> FALSE, expires |-> NoExpiry,
         claim |-> "receiver"] : g \in BOOLEAN}
=============================================================================
