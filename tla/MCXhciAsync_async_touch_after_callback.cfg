SPECIFICATION Spec
CONSTANTS
  Endpoints = {e1}
  Cells = {c1, c2}
  CallbackResubmits = {TRUE}
  MaxTds = 3
  None = None
CHECK_DEADLOCK FALSE
INVARIANT UrbStillThere
