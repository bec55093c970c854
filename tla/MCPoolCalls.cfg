SPECIFICATION Spec

CONSTANTS
  alice = alice
  bob = bob
  pool = pool
  c1 = c1
  c2 = c2
  c3 = c3
  n1 = n1
  n2 = n2
  k1 = k1
  k2 = k2
  r0 = r0
  r1 = r1
  g0 = g0
  g1 = g1
  u1 = u1
  u2 = u2
  NoExpiry = NoExpiry
  Pool = pool
  Scale = 10
  InitialRoot = r0
  InitialRegistryRoot = g0
  SendClaim = "sender"
  ReceiveClaim = "receiver"
  Wallets <- MCWallets
  Commitments <- MCCommitments
  SpendNullifiers <- MCSpendNullifiers
  ComplianceNullifiers <- MCComplianceNullifiers
  Roots <- MCRoots
  RegistryRoots <- MCRegistryRoots
  Uids <- MCUids
  Claims <- MCClaims
  DepositCalls <- MCDepositCalls
  TransferCalls <- MCTransferCalls
  WithdrawCalls <- MCWithdrawCalls
  Issuable <- MCIssuable
  Funds <- MCFunds
  MaxTime = 1
  MaxEvents = 4

INVARIANTS
  TypeOK
  NullifiersFromEvents
  EventsRebuildTree
