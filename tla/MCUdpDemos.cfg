\* The four UDP demos, with a fault of the radio.
\* The boards idle when all is typed, so deadlock is not checked.
CONSTANTS
  Demos = {"send_recv", "auto", "three_connect", "multicore"}
  Stations <- DemoStations
  Lines <- DemoLines
  TEST = TEST
  m1 = m1
  m2 = m2
  m3 = m3
  MaxFaults = 1
  NONE = NONE
SPECIFICATION FairSpec
INVARIANTS TypesOK UntornAcksAnswer FreshIsSignalled LedIsTimed NoTornSend
PROPERTIES MessagesAccounted FallsSilent
CHECK_DEADLOCK FALSE
