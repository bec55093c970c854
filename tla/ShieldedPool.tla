----------------------------- MODULE ShieldedPool -----------------------------
(***************************************************************************)
(* The ShieldedPool Soroban contract (contracts/shielded_pool/src/lib.rs)  *)
(* with the contracts it calls: the ComplianceRegistry (registryRoot), the *)
(* AttestProtocol (attestations, external), the asset's token contract     *)
(* (tokens, external) and the two Groth16 verifiers (the `valid` field of  *)
(* a proof says whether the pairing check succeeds).                       *)
(*                                                                         *)
(* One action per entry point.  A call that returns an error or panics is  *)
(* rolled back by the host, so it is no step at all: the action's guard is *)
(* the conjunction of every check of the entry point, in the code's order, *)
(* and its effect is everything the entry point writes.                    *)
(*                                                                         *)
(* A call is a record of the arguments, and a proof one of its public      *)
(* signals.  The two are kept apart: of the signals the contract compares  *)
(* merkle_root with a root it knows, and the amounts and the halves of the *)
(* UID with arguments.  It compares nullifier_hash, new_commitment_1 and   *)
(* new_commitment_2 of a spend (signals 1 to 3) and compliance_nullifier   *)
(* of a compliance proof (signal 5) with nothing: what it marks, inserts   *)
(* and publishes are the arguments.  Signals that are the same for every   *)
(* call of a corridor (corridor_id, min_kyc_tier, max_amount, fee,         *)
(* pub_asset_id) are left out.                                             *)
(***************************************************************************)
EXTENDS Integers, Sequences

CONSTANTS
  Wallets,              \* Stellar accounts of the users
  Pool,                 \* the contract's own address, holder of the escrow
  Scale,                \* 10^decimals of the asset: sub-units in a whole unit
  InitialRoot,          \* `initial_root` of the constructor
  InitialRegistryRoot,  \* the registry's root before the first update_root
  SendClaim,            \* `kyc_value_send`: the KYC claim deposit() requires
  ReceiveClaim,         \* `kyc_value_receive`: the claim withdraw() requires
  NoExpiry              \* an attestation's expiration_time of None

ASSUME PoolAssumption ==
  /\ Pool \notin Wallets
  /\ Scale \in Nat \ {0}
  /\ NoExpiry \notin Nat

VARIABLES
  root,                 \* ROOT_KEY
  commitments,          \* Commitment(0), Commitment(1), ...: NEXT_IDX is its length
  spendNullifiers,      \* the keys SpendNullifier(n) that exist
  complianceNullifiers, \* the keys ComplianceNullifier(n) that exist
  events,               \* what the pool published, oldest first
  tokens,               \* asset balance of every account, in sub-units
  registryRoot,         \* ComplianceRegistry: ROOT_KEY
  signedRoots,          \* roots the operator key has signed for this corridor
  attestations,         \* AttestProtocol: attestation of each issued UID
  now                   \* ledger timestamp

poolVars == <<root, commitments, spendNullifiers, complianceNullifiers, events>>
envVars  == <<registryRoot, signedRoots, attestations, now>>
contractVars == <<poolVars, tokens, envVars>>

Accounts == Wallets \cup {Pool}

-----------------------------------------------------------------------------
(***************************************************************************)
(* The checks.                                                             *)
(***************************************************************************)

\* Mutant: a revoked attestation passes.
KycAttestedWhenRevoked(subject, uid, claim) ==
  /\ uid \in DOMAIN attestations
  /\ LET att == attestations[uid] IN
       /\ att.genuine /\ att.subject = subject
       /\ att.expires # NoExpiry => now < att.expires
       /\ att.claim = claim

\* verify_kyc_attestation: the attestation exists, was issued by the pinned
\* authority under the pinned schema about the caller, and is not revoked,
\* not expired (expiration_time <= timestamp is expired), with the edge's claim.
KycAttested(subject, uid, claim) ==
  /\ uid \in DOMAIN attestations                             \* KycAttestationMissing
  /\ LET att == attestations[uid] IN
       /\ att.genuine /\ att.subject = subject               \* KycAttestationInvalid
       /\ ~att.revoked                                       \* KycAttestationRevoked
       /\ att.expires # NoExpiry => now < att.expires        \* KycAttestationExpired
       /\ att.claim = claim                                  \* ..ValueMismatch

\* assert_compliance_binds_uid: signals 6 and 7 are the halves of the UID.
BindsUid(proof, uid) == proof.uid = uid

\* assert_root_signed: a signature over corridor_id || new_root never expires
\* and is not bound to a call, so all that matters is that it was ever made.
RootSigned(r) == r \in signedRoots

\* Mutant: any root the operator ever signed will do.
AnySignedRootMatches(proof) == proof.merkle_root \in signedRoots

\* assert_compliance_root_matches, assert_pool_root_matches: signal 0.
ComplianceRootMatches(proof) == proof.merkle_root = registryRoot
PoolRootMatches(proof)       == proof.merkle_root = root

\* verify_compliance, verify_shielded: try_verify returned Ok(true).
Verified(proof) == proof.valid

-----------------------------------------------------------------------------
(***************************************************************************)
(* The effects.                                                            *)
(***************************************************************************)

\* Mutant: the token contract lets an account overdraw.
AlwaysPays(from, amount) == TRUE

\* token.transfer of a whole-unit amount; it panics on insufficient balance.
CanPay(from, amount) == tokens[from] >= amount * Scale
Pay(from, to, amount) ==
  tokens' = [tokens EXCEPT ![from] = @ - amount * Scale,
                           ![to]   = @ + amount * Scale]

\* Mutant: the set keeps only the last nullifier.
MarkOnlyLastSpend(n) == spendNullifiers' = {n}

\* mark_spend_nullifier, mark_compliance_nullifier of an argument not yet there.
MarkSpendNullifier(n) == spendNullifiers' = spendNullifiers \cup {n}
MarkComplianceNullifier(n) == complianceNullifiers' = complianceNullifiers \cup {n}

\* Mutant: NEXT_IDX is read once for all of them, so the last one stays.
InsertAllAtOneIndex(cs, newRoot) ==
  /\ commitments' = IF cs = <<>> THEN commitments
                                ELSE Append(commitments, cs[Len(cs)])
  /\ root' = newRoot

\* insert_commitment, once per element, then the new root is stored.
InsertAll(cs, newRoot) ==
  /\ commitments' = commitments \o cs
  /\ root' = newRoot

Publish(event) == events' = Append(events, event)

-----------------------------------------------------------------------------
(***************************************************************************)
(* The entry points.                                                       *)
(***************************************************************************)

DepositAccepted(c) ==
  /\ c.amount > 0                                            \* InvalidAmount
  /\ KycAttested(c.caller, c.uid, SendClaim)
  /\ BindsUid(c.compliance, c.uid)                           \* ..Unbound
  /\ RootSigned(c.new_root)
  /\ c.compliance_nullifier \notin complianceNullifiers      \* ComplianceNullifierUsed
  /\ ComplianceRootMatches(c.compliance)                     \* StaleRoot
  /\ c.compliance.amount = c.amount                          \* AmountMismatch
  /\ Verified(c.compliance)                                  \* VerificationFailed
  /\ CanPay(c.caller, c.amount)

\* deposit(): the pool's own root is not among the checks, so a deposit is
\* accepted whatever tree its new root was computed from.
Deposit(c) ==
  /\ DepositAccepted(c)
  /\ MarkComplianceNullifier(c.compliance_nullifier)
  /\ Pay(c.caller, Pool, c.amount)
  /\ InsertAll(<<c.note_commitment>>, c.new_root)
  /\ Publish([type                 |-> "DepositEvent",
              depositor            |-> c.caller,
              commitment           |-> c.note_commitment,
              compliance_nullifier |-> c.compliance_nullifier])
  /\ UNCHANGED <<spendNullifiers, envVars>>

TransferAccepted(c) ==
  /\ RootSigned(c.new_root)
  /\ c.spend_nullifier \notin spendNullifiers                \* NullifierSpent
  /\ PoolRootMatches(c.shielded)                             \* StaleRoot
  /\ Verified(c.shielded)                                    \* VerificationFailed

\* transfer(): one note spent, two inserted, in this order.
Transfer(c) ==
  /\ TransferAccepted(c)
  /\ MarkSpendNullifier(c.spend_nullifier)
  /\ InsertAll(<<c.new_commitment_1, c.new_commitment_2>>, c.new_root)
  /\ Publish([type             |-> "TransferEvent",
              spend_nullifier  |-> c.spend_nullifier,
              new_commitment_1 |-> c.new_commitment_1,
              new_commitment_2 |-> c.new_commitment_2])
  /\ UNCHANGED <<complianceNullifiers, tokens, envVars>>

WithdrawAccepted(c) ==
  /\ c.amount > 0                                            \* InvalidAmount
  /\ KycAttested(c.caller, c.uid, ReceiveClaim)
  /\ BindsUid(c.compliance, c.uid)                           \* ..Unbound
  /\ RootSigned(c.new_root)
  /\ c.spend_nullifier \notin spendNullifiers                \* NullifierSpent
  /\ PoolRootMatches(c.shielded)                             \* StaleRoot
  /\ c.shielded.withdraw_amount = c.amount                   \* WithdrawAmountMismatch
  /\ Verified(c.shielded)                                    \* VerificationFailed
  /\ c.compliance_nullifier \notin complianceNullifiers      \* ComplianceNullifierUsed
  /\ ComplianceRootMatches(c.compliance)                     \* StaleRoot
  /\ c.compliance.amount = c.amount                          \* AmountMismatch
  /\ Verified(c.compliance)                                  \* VerificationFailed
  /\ CanPay(Pool, c.amount)

\* withdraw(): stores the new root but inserts no commitment.
Withdraw(c) ==
  /\ WithdrawAccepted(c)
  /\ MarkSpendNullifier(c.spend_nullifier)
  /\ MarkComplianceNullifier(c.compliance_nullifier)
  /\ InsertAll(<<>>, c.new_root)
  /\ Pay(Pool, c.caller, c.amount)
  /\ Publish([type                 |-> "WithdrawEvent",
              recipient            |-> c.caller,
              amount               |-> c.amount,
              spend_nullifier      |-> c.spend_nullifier,
              compliance_nullifier |-> c.compliance_nullifier])
  /\ UNCHANGED envVars

\* The admin's ComplianceRegistry.update_root().
UpdateRegistryRoot(r) ==
  /\ registryRoot' = r
  /\ UNCHANGED <<poolVars, tokens, signedRoots, attestations, now>>

\* operator.ts signRoot(): the proving server signs a root it computed.
SignRoot(r) ==
  /\ signedRoots' = signedRoots \cup {r}
  /\ UNCHANGED <<poolVars, tokens, registryRoot, attestations, now>>

-----------------------------------------------------------------------------
(***************************************************************************)
(* The constructors of the pool and of the registry: no note, no           *)
(* nullifier, no escrow.                                                   *)
(***************************************************************************)

PoolInit ==
  /\ root = InitialRoot
  /\ commitments = <<>>
  /\ spendNullifiers = {}
  /\ complianceNullifiers = {}
  /\ events = <<>>
  /\ registryRoot = InitialRegistryRoot
  /\ signedRoots = {}
=============================================================================
