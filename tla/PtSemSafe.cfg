\* One core: the threads take turns, or an interrupt signals.
\* Deadlock is not checked: an interrupt may hang its core (PtSemSafeHang).
CONSTANTS
  Regimes = {"threads", "interrupt"}
  MaxSignals = 6
SPECIFICATION FairSpec
INVARIANTS TypeOK BalanceInTurns NeverSpurious
PROPERTY AllTakenInTurns
CHECK_DEADLOCK FALSE
