SPECIFICATION Spec

CONSTANTS
  c1 = c1
  c2 = c2
  c3 = c3
  Depth = 2
  Zero = Zero
  Commitments = {c1, c2, c3}
  Out1 = Out1
  Out2 = Out2
  Stranger = Stranger
  MaxPolls = 3
  MaxAttempts = 3

INVARIANTS
  TypeOK
  PathsLeadToTheRoot
  SpendsExtendTheRoot

PROPERTY
  RequestGetsOn
  RequestsEnd

CHECK_DEADLOCK FALSE
