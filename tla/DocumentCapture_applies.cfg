SPECIFICATION FairSpec
CONSTANTS
  a = a
  Texts = {a}
  MaxChanges = 2
  MaxCaptures = 3
  Failures = FALSE
  Finalizes = TRUE
PROPERTY
  AppliesAreCopied
CHECK_DEADLOCK FALSE
