SPECIFICATION FairSpec
CONSTANTS
  Endpoints = {e1, e2}
  Cells = {c1, c2}
  CallbackResubmits = {TRUE, FALSE}
  MaxTds = 3
  None = None
CHECK_DEADLOCK FALSE
INVARIANT AsyncInvariant
PROPERTY ReportedOnce
PROPERTY DataAreReported
