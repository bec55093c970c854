------------------------------- MODULE PoolCalls -------------------------------
(***************************************************************************)
(* The ShieldedPool contract under any interleaving of calls, with the     *)
(* contracts around it moving at the same time: the KYC authority issues   *)
(* and revokes attestations, attestations expire, the registry admin       *)
(* publishes another root, the operator signs roots.  Nothing is assumed   *)
(* about the order in which calls arrive or about how they were built.     *)
(***************************************************************************)
EXTENDS ShieldedPool, FiniteSets, SequencesExt

CONSTANTS
  Commitments, SpendNullifiers, ComplianceNullifiers,  \* BytesN<32> of each use
  Roots, RegistryRoots,
  Uids, Claims,         \* attestation UIDs; values of an attestation
  DepositCalls, TransferCalls, WithdrawCalls,  \* the calls that may arrive
  Issuable,             \* the attestations that may be issued
  Funds,                \* each wallet's initial balance, in sub-units
  MaxTime,              \* bound: last ledger timestamp considered
  MaxEvents             \* bound: calls that take effect

ComplianceProof ==
  [merkle_root : RegistryRoots, amount : Int,
   compliance_nullifier : ComplianceNullifiers, uid : Uids, valid : BOOLEAN]
ShieldedProof ==
  [merkle_root : Roots, nullifier_hash : SpendNullifiers,
   new_commitment_1 : Commitments, new_commitment_2 : Commitments,
   withdraw_amount : Int, valid : BOOLEAN]

DepositCall ==
  [caller : Wallets, amount : Int, note_commitment : Commitments,
   new_root : Roots, compliance_nullifier : ComplianceNullifiers,
   compliance : ComplianceProof, uid : Uids]
TransferCall ==
  [spend_nullifier : SpendNullifiers, new_commitment_1 : Commitments,
   new_commitment_2 : Commitments, new_root : Roots, shielded : ShieldedProof]
WithdrawCall ==
  [caller : Wallets, amount : Int, spend_nullifier : SpendNullifiers,
   new_root : Roots, shielded : ShieldedProof,
   compliance_nullifier : ComplianceNullifiers,
   compliance : ComplianceProof, uid : Uids]

Attestation ==
  [subject : Wallets, genuine : BOOLEAN, revoked : BOOLEAN,
   expires : Nat \cup {NoExpiry}, claim : Claims]

ASSUME CallsAssumption ==
  /\ DepositCalls \subseteq DepositCall
  /\ TransferCalls \subseteq TransferCall
  /\ WithdrawCalls \subseteq WithdrawCall
  /\ Issuable \subseteq Attestation
  /\ InitialRoot \in Roots
  /\ InitialRegistryRoot \in RegistryRoots
  /\ Funds \in [Wallets -> Nat]
  /\ MaxTime \in Nat
  /\ MaxEvents \in Nat

-----------------------------------------------------------------------------
(***************************************************************************)
(* AttestProtocol, external: an issued UID keeps its attestation for ever, *)
(* except that it may be revoked, once and for all.                        *)
(***************************************************************************)

Attest(u, att) ==
  /\ u \notin DOMAIN attestations
  /\ attestations' = [v \in DOMAIN attestations \cup {u} |->
                        IF v = u THEN att ELSE attestations[v]]
  /\ UNCHANGED <<poolVars, tokens, registryRoot, signedRoots, now>>

Revoke(u) ==
  /\ u \in DOMAIN attestations
  /\ ~attestations[u].revoked
  /\ attestations' = [attestations EXCEPT ![u].revoked = TRUE]
  /\ UNCHANGED <<poolVars, tokens, registryRoot, signedRoots, now>>

AdvanceTime ==
  /\ now < MaxTime
  /\ now' = now + 1
  /\ UNCHANGED <<poolVars, tokens, registryRoot, signedRoots, attestations>>

-----------------------------------------------------------------------------

\* Attestations may have been issued before this pool was deployed.
Init ==
  /\ PoolInit
  /\ tokens = [a \in Accounts |-> IF a = Pool THEN 0 ELSE Funds[a]]
  /\ \E us \in SUBSET Uids : attestations \in [us -> Issuable]
  /\ now = 0

Call ==
  \/ \E c \in DepositCalls : Deposit(c)
  \/ \E c \in TransferCalls : Transfer(c)
  \/ \E c \in WithdrawCalls : Withdraw(c)

Environment ==
  \/ \E r \in Roots : SignRoot(r)
  \/ \E r \in RegistryRoots : UpdateRegistryRoot(r)
  \/ \E u \in Uids, att \in Issuable : Attest(u, att)
  \/ \E u \in Uids : Revoke(u)
  \/ AdvanceTime

\* Any number of calls; and no more than are bounded, for TLC.
AnyCalls == Init /\ [][Call \/ Environment]_contractVars

Next ==
  \/ Len(events) < MaxEvents /\ Call
  \/ Environment

Spec == Init /\ [][Next]_contractVars

-----------------------------------------------------------------------------
(***************************************************************************)
(* Properties.                                                             *)
(***************************************************************************)

IsSpend(e) == e.type \in {"TransferEvent", "WithdrawEvent"}
IsEdge(e)  == e.type \in {"DepositEvent", "WithdrawEvent"}

Event ==
  [type : {"DepositEvent"}, depositor : Wallets, commitment : Commitments,
   compliance_nullifier : ComplianceNullifiers]
  \cup
  [type : {"TransferEvent"}, spend_nullifier : SpendNullifiers,
   new_commitment_1 : Commitments, new_commitment_2 : Commitments]
  \cup
  [type : {"WithdrawEvent"}, recipient : Wallets, amount : Int,
   spend_nullifier : SpendNullifiers,
   compliance_nullifier : ComplianceNullifiers]

\* Every variable stays in its type; in particular no account is overdrawn.
TypeOK ==
  /\ root \in Roots
  /\ commitments \in Seq(Commitments)
  /\ spendNullifiers \subseteq SpendNullifiers
  /\ complianceNullifiers \subseteq ComplianceNullifiers
  /\ events \in Seq(Event)
  /\ tokens \in [Accounts -> Nat]
  /\ registryRoot \in RegistryRoots
  /\ signedRoots \subseteq Roots
  /\ DOMAIN attestations \subseteq Uids
  /\ \A u \in DOMAIN attestations : attestations[u] \in Attestation
  /\ now \in Nat

\* The spends and the edge calls that took effect, in storage and in events.
Spends == {i \in DOMAIN events : IsSpend(events[i])}
Edges  == {i \in DOMAIN events : IsEdge(events[i])}

SpendsFromEvents ==
  /\ spendNullifiers = {events[i].spend_nullifier : i \in Spends}
  /\ \A i, j \in Spends :
       events[i].spend_nullifier = events[j].spend_nullifier => i = j

EdgesFromEvents ==
  /\ complianceNullifiers = {events[i].compliance_nullifier : i \in Edges}
  /\ \A i, j \in Edges :
       events[i].compliance_nullifier = events[j].compliance_nullifier => i = j

\* What storage and events say of the nullifiers is the same: a nullifier is
\* marked if and only if an event names it, and no two events name the same,
\* whether they are of one entry point or of two (transfer() and withdraw()
\* share one set, deposit() and withdraw() the other).  An indexer that only
\* sees events knows which arguments the contract will refuse.  Nothing is
\* said of the proofs: see CallsAreBound.
NullifiersFromEvents == SpendsFromEvents /\ EdgesFromEvents

\* A transfer that takes effect marks and inserts what its proof is about:
\* "An attacker cannot substitute a different nullifier or commitment"
\* (lib.rs:639).
Bound(c) ==
  /\ c.spend_nullifier = c.shielded.nullifier_hash
  /\ c.new_commitment_1 = c.shielded.new_commitment_1
  /\ c.new_commitment_2 = c.shielded.new_commitment_2

CallsAreBound == [][\A c \in TransferCalls : Transfer(c) => Bound(c)]_contractVars

\* The commitments an event inserts, in order.
Inserted(e) ==
  CASE e.type = "DepositEvent"  -> <<e.commitment>>
    [] e.type = "TransferEvent" -> <<e.new_commitment_1, e.new_commitment_2>>
    [] e.type = "WithdrawEvent" -> <<>>

\* An indexer that replays the pool's events gets exactly the leaves that
\* get_commitment() serves, index by index, so a proving server that rebuilt
\* the tree from events would sign the same roots as one that reads storage.
EventsRebuildTree ==
  FlattenSeq([i \in DOMAIN events |-> Inserted(events[i])]) = commitments
=============================================================================
