\* The waiter and an interrupt of its own core that signals
CONSTANTS
  Regimes = {"interrupt"}
  MaxSignals = 4
SPECIFICATION Spec
INVARIANT NeverHangs
CHECK_DEADLOCK FALSE
