---------------------------- MODULE ComplianceTree ----------------------------
(***************************************************************************)
(* The tree of KYC leaves behind the ComplianceRegistry                    *)
(* (mock-issuer/src/kyc-registry.ts with circuits/compliance_tree_util),   *)
(* the policy of the corridor (corridors.ts) and what the compliance       *)
(* circuit asks of a proof's inputs.  The tree helper pairs nodes as the   *)
(* one of the notes does, so MerkleTree serves for both; here Depth is 10  *)
(* in the code.                                                            *)
(***************************************************************************)
EXTENDS MerkleTree

\* A leaf hashes four attributes.
attribute_leaf(p) == <<p.salt, p.tier, p.sanctioned, p.country>>

\* The two leaves of the registry, in tree order.
KYC_PROFILES ==
  << [side |-> "send",    salt |-> 42, tier |-> 2, sanctioned |-> 0, country |-> 840],
     [side |-> "receive", salt |-> 99, tier |-> 2, sanctioned |-> 0, country |-> 566] >>

\* CORRIDORS[0].minKycTier, the same as in the legacy mode.
MinKycTier == 1

KycLeaves == [i \in 1 .. Len(KYC_PROFILES) |-> attribute_leaf(KYC_PROFILES[i])]

\* Root and path of one leaf, from a run of the helper.
runTreeUtil(targetIdx) ==
  [root     |-> TreeRoot(KycLeaves),
   siblings |-> MerklePath(KycLeaves, targetIdx)]

\* ensureTree: the root of the first path, which the others must repeat.
getRegistryRoot == runTreeUtil(0).root

getAttestationForSide(side) ==
  LET idx == CHOOSE i \in 1 .. Len(KYC_PROFILES) : KYC_PROFILES[i].side = side
      p   == KYC_PROFILES[idx]
  IN [leaf |-> attribute_leaf(p), tier |-> p.tier, sanctioned |-> p.sanctioned,
      siblings |-> runTreeUtil(idx - 1).siblings, index |-> idx - 1,
      root |-> getRegistryRoot]

\* DEMO_KYC_BASE: one leaf for everybody, under nothing but zeros.
DemoProfile == [salt |-> 42, tier |-> 2, sanctioned |-> 0, country |-> 91]
DemoSiblings == [d \in 0 .. Depth - 1 |-> Zero]
DemoRoot == compute_merkle_root(attribute_leaf(DemoProfile), 0, DemoSiblings)

complianceKycInputs(mode, side) ==
  IF mode = "registry"
    THEN getAttestationForSide(side)
    ELSE [leaf |-> attribute_leaf(DemoProfile), tier |-> DemoProfile.tier,
          sanctioned |-> DemoProfile.sanctioned, siblings |-> DemoSiblings,
          index |-> 0, root |-> DemoRoot]

\* What the compliance circuit asserts of the leaf: membership, tier, sanctions.  Its
\* asserts of the amount and of the nullifier are about a call, and in Corridor.
Provable(inputs) ==
  /\ compute_merkle_root(inputs.leaf, inputs.index, inputs.siblings) = inputs.root
  /\ inputs.tier >= MinKycTier
  /\ inputs.sanctioned = 0
=============================================================================
