SPECIFICATION Spec
CONSTANTS
  Panes = {"pane"}
  Lines = {"first", "second"}
  CardOf <- MCCardOf
  MaxLines = 2
  MaxTyped = 0
  MaxSaves = 0
  MaxFaults = 0
INVARIANT AddedIsKept
CHECK_DEADLOCK FALSE
