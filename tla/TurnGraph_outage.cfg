SPECIFICATION Spec
CONSTANTS
  MaxRequests = 2
  Tasks = {"research"}
  MaxIterations = 1
  Interrupting = {TRUE}
  Flips = 2
  Impatient = TRUE
  Outputs = {"text", "empty"}
INVARIANTS
  AuditedOrFlagged
  SubmitOutcomeSeesBanner
PROPERTIES
  GoesBackForNotesOrNothing
CHECK_DEADLOCK FALSE
