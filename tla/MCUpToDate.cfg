\* Two exchanges meet on a line of four; the flag is wrong.
\* The boards idle when all is done, so deadlock is not checked.
CONSTANTS
  MAX_NODES = 4
  Boards = {0, 1, 2, 3}
  InRange <- LineInRange
  Hops <- LineHops
  Commands <- DvAt1And2
  MaxFaults = 0
  MaxPending = 1
  Prompt = TRUE
  NONE = NONE
SPECIFICATION SpecRouted
INVARIANT UpToDateMeansHolds
CHECK_DEADLOCK FALSE
