SPECIFICATION FairSpec
CONSTANTS
  Calls = {c1, c2}
INVARIANTS
  OnlyApprovedProceed
  OneJsonAnswer
PROPERTIES
  IsApprovalGate
  WaitsEnd
