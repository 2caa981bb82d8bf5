SPECIFICATION ServicesSpec

CONSTANTS
  w1 = w1
  w2 = w2
  app = app
  e1 = e1
  e2 = e2
  Workers = {w1, w2}
  App = app
  Events = {e1, e2}
  MaxClients = 1
  MaxFailures = 1
  MAX_SESSION_COUNT = 2
  Ex = FALSE
  MaxConnectors = 4
  MaxConnectFailures = 1

INVARIANTS
  AcceptsKept
  ConnectedInService
  OneSlotEach
  SlotsPerStart

PROPERTIES
  AcceptAgain
  ConnectIsReported

CHECK_DEADLOCK FALSE
