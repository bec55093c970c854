SPECIFICATION Spec

CONSTANTS
  alice = alice
  bob = bob
  pool = pool
  tab1 = tab1
  tab2 = tab2
  page = page
  NoExpiry = NoExpiry
  Pool = pool
  Scale = 10
  InitialRoot = InitialRoot
  InitialRegistryRoot = InitialRegistryRoot
  SendClaim = "sender"
  ReceiveClaim = "receiver"
  Wallets = {alice, bob}
  Senders = {alice}
  Recipients = {bob}
  Jobs = {alice, bob}
  WalletOf <- MCOneJobEach
  Amounts = {1}
  PaidAmounts = {1}
  MaxAmount = 2
  Salt <- MCSalt
  Funds <- MCFunds
  TreeCapacity = 5
  PollsCanRunOut = FALSE
  MaxBlindings = 5

INVARIANT
  RootIsTreeOfCommitments

CHECK_DEADLOCK FALSE
