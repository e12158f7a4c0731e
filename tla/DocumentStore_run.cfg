SPECIFICATION Spec
CONSTANTS
  Attorneys = {ann, bob}
  Lines = {"rest", "old", "new", "reworded", "misquoted"}
  NoText = NoText
  MaxPosts = 3
  MaxInFlight = 2
  MaxFates = 1
  MaxFailures = 1
  MaxDeletions = 1
  Within <- SameLine
SYMMETRY Symmetry
INVARIANTS TypeOK SightingsFindTheirTexts VerdictIsTheEditsFate
PROPERTIES DeletionLeavesNothing OnlyItsScopeIsDeleted
CHECK_DEADLOCK FALSE
