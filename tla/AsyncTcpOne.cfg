SPECIFICATION Spec
CONSTANTS
  c1 = c1
  c2 = c2
  a1 = a1
  a2 = a2
  Conns <- OneConn
  Addrs <- OneAddr
  Server = Server
  None = None
  QueueSize = 2
  Budget <- ThreeEvents
CHECK_DEADLOCK FALSE
PROPERTIES
  DeliveredInOrder
