\* An exchange on LAYOUT 1 while data is sent, with a fault.
\* The boards idle when all is done, so deadlock is not checked.
CONSTANTS
  MAX_NODES = 3
  Boards = {0, 1, 2}
  InRange <- LineInRange
  Hops <- LineHops
  Commands <- DvAndData
  MaxFaults = 1
  MaxPending = 2
  Prompt = TRUE
  NONE = NONE
SPECIFICATION SpecData
INVARIANTS NoNullNeighbor DataMovesCloser
PROPERTY ImplementsExchange
CHECK_DEADLOCK FALSE
