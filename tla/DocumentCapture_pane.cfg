SPECIFICATION Spec
CONSTANTS
  a = a
  Texts = {a}
  MaxChanges = 2
  MaxCaptures = 3
  Failures = TRUE
  Finalizes = TRUE
INVARIANTS
  FinalizeTextPredatesAccept
  SlotIsLive
  OneAtATime
PROPERTY
  HeldBackIsLastSent
CHECK_DEADLOCK FALSE
