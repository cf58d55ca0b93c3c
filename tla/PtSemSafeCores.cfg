\* The waiter and the signaller on two cores
CONSTANTS
  Regimes = {"cores"}
  MaxSignals = 4
SPECIFICATION Spec
INVARIANT Balance
CHECK_DEADLOCK FALSE
