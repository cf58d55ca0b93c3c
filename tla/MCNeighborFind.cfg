\* The token walk of neighbor_find on LAYOUT 3, with faults.
\* The boards idle when all is done, so deadlock is not checked.
CONSTANTS
  MAX_NODES = 5
  LAYOUT = 3
  Boards = {0, 1, 2, 3}
  InRange <- LayoutInRange
  Sessions <- TokenOrData
  MaxFaults = 2
  MaxPending = 2
  TOK_LEN = 4
  Letter = {"x"}
  NONE = NONE
SPECIFICATION FairSpec
INVARIANTS TypeOK NeighborsComplete ReturnsToParent
PROPERTIES ImplementsWalk WalkEnds
CHECK_DEADLOCK FALSE
