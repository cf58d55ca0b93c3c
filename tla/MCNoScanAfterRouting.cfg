\* Two vectors arrive together; a board scans when it should not.
\* The boards idle when all is done, so deadlock is not checked.
CONSTANTS
  MAX_NODES = 3
  Boards = {0, 1, 2}
  InRange <- LineInRange
  Hops <- LineHops
  Commands <- DvCommand
  MaxFaults = 0
  MaxPending = 2
  Prompt = TRUE
  NONE = NONE
SPECIFICATION SpecRouted
PROPERTY NoScanAfterRouting
CHECK_DEADLOCK FALSE
