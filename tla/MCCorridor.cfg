SPECIFICATION Spec

CONSTANTS
  alice = alice
  bob = bob
  pool = pool
  tab1 = tab1
  tab2 = tab2
  page = page
  NoExpiry = NoExpiry
  Pool = pool
  Scale = 10
  InitialRoot = InitialRoot
  InitialRegistryRoot = InitialRegistryRoot
  SendClaim = "sender"
  ReceiveClaim = "receiver"
  Wallets = {alice, bob}
  Senders = {alice}
  Recipients = {bob}
  Jobs = {tab1, tab2, page}
  WalletOf <- MCTwoTabs
  Amounts = {1, 2}
  PaidAmounts = {1, 2}
  MaxAmount = 2
  Salt <- MCSalt
  Funds <- MCFunds
  TreeCapacity = 5
  PollsCanRunOut = TRUE
  MaxBlindings = 5

SYMMETRY MCTabSymmetry

INVARIANTS
  TypeOK
  Solvent
  WalletsAgreeWithChain

PROPERTIES
  SpendsInSync
  ImplementsNotePool
  LossesHaveCause
  RevokedWalletsMoveNoMoney

CHECK_DEADLOCK FALSE
