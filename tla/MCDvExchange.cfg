\* LAYOUT 3 of layout.c: a triangle 0, 1, 2 and a leaf 3 at corner 2
CONSTANTS
  MAX_NODES = 4
  Nbr <- TriangleNbr
  Hops <- TriangleHops
  MaxAdverts = 2
SPECIFICATION Spec
CONSTRAINT FewAdverts
INVARIANTS TypeOK IInv NoRoutingLoop NextHopCloser NeverTooClose SettledIsShortest
PROPERTY OnlyImproves
