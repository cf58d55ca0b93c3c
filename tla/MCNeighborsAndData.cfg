\* Neighbor finding from power-up, and data with routes in place, with
\* two faults.  The boards idle when all is done, so deadlock is not checked.
CONSTANTS
  MAX_NODES = 5
  Boards = {0, 1, 2, 3, 4}
  InRange <- TailsInRange
  Hops <- TailsHops
  Commands <- TokenAndDataBeside
  MaxFaults = 2
  MaxPending = 2
  Prompt = TRUE
  NONE = NONE
SPECIFICATION FairNetwork
INVARIANTS TypeOK UniqueToken UniqueIDs NeighborsComplete
PROPERTIES NeighborFindingEnds DataArrives
CHECK_DEADLOCK FALSE
