SPECIFICATION Spec
CONSTANTS
  MaxRequests = 3
  Tasks = {"contract_generation", "contract_review"}
  MaxIterations = 1
  Interrupting = {TRUE, FALSE}
  Flips = 0
  Impatient = FALSE
  Outputs = {"text", "error"}
INVARIANTS
  ReleasedWasShown
  NotesAccounted
  DraftsAwaitReview
  SubmitFailedMeansUnanswered
  ForgettingIsAnnounced
CHECK_DEADLOCK FALSE
