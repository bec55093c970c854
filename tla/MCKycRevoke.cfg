SPECIFICATION Spec

CONSTANTS
  alice = alice
  bob = bob
  mallory = mallory
  req1 = req1
  req2 = req2
  Wallets = {alice, bob, mallory}
  Requests = {req1, req2}
  Denied = {mallory}
  Sides = {"send", "receive"}
  Validity = 1
  MaxNonce = 2
  MaxRevocations = 2
  MaxTime = 1

SYMMETRY MCSymmetry

INVARIANT
  RevokedWalletIsShutOut

CHECK_DEADLOCK FALSE
