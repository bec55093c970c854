SPECIFICATION Spec

CONSTANTS
  run1 = run1
  run2 = run2
  Zero = Zero
  Depth = 2
  Runs = {run1, run2}
  Used = {"v8", "v9", "v10", "v11", "v12", "attest", "bls", "root"}
  OutsideKeys = {"eight"}
  MaxStarts = 3
  MaxPools = 4
  MaxVerifiers = 3
  MaxProtocols = 2
  MaxAttempts = 2

INVARIANTS
  TypeOK
  NamedContractsAreReady
  PoolFitsVerifier
  DetectedRegistryIsLive

PROPERTIES
  KeysOfPoolsStay
  RunsGetOn
  EveryRunEnds

CHECK_DEADLOCK FALSE
