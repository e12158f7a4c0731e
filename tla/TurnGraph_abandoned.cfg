SPECIFICATION Spec
CONSTANTS
  MaxRequests = 3
  Tasks = {"contract_generation"}
  MaxIterations = 1
  Interrupting = {TRUE}
  Flips = 0
  Impatient = TRUE
  Outputs = {"text"}
INVARIANT
  ReleasedWasShown
CHECK_DEADLOCK FALSE
