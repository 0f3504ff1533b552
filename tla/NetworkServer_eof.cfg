SPECIFICATION NetworkSpec
CONSTANTS
  Clients = {"c1"}
  MaxConnections = 1
  MaxRequests = 1
PROPERTY DisconnectEnds
CHECK_DEADLOCK FALSE
