\* The services of the TCP access point
CONSTANTS
  c1 = c1
  c2 = c2
  Clients = {c1, c2}
  Browsers = {c1}
  DHCPS_MAX_IP = 2
  LEASE_TIME = 2
  UNIT = 2
  WRAP = 8
  MaxRequests = 2
  Queries <- SomeQueries
  NONE = NONE
SPECIFICATION FairSpec
INVARIANTS TypeOK NoSharedAddress OneLeaseForgotten ReplyFits WrittenIsKept
PROPERTY ConnectionsEnd
