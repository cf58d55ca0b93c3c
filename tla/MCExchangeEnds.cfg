\* An exchange on LAYOUT 1 with a fault, arrivals one at a time.
\* The boards idle when all is done, so deadlock is not checked.
CONSTANTS
  MAX_NODES = 3
  Boards = {0, 1, 2}
  InRange <- LineInRange
  Hops <- LineHops
  Commands <- DvCommand
  MaxFaults = 1
  MaxPending = 1
  Prompt = TRUE
  NONE = NONE
SPECIFICATION FairRouted
INVARIANT RestIsShortest
PROPERTY ComesToRest
CHECK_DEADLOCK FALSE
