SPECIFICATION PanelSpec

CONSTANTS
  alice = alice
  bob = bob
  mallory = mallory
  req1 = req1
  req2 = req2
  Wallets = {alice, bob, mallory}
  Requests = {req1, req2}
  Denied = {mallory}
  Sides = {"send"}
  Validity = 1
  MaxNonce = 2
  MaxRevocations = 1
  MaxTime = 0
  PageSide = "send"
  MaxReads = 1

SYMMETRY MCSymmetry

INVARIANTS
  PanelTypeOK
  CallsRefusedForCause
  PanelTellsTheTruth

CHECK_DEADLOCK FALSE
