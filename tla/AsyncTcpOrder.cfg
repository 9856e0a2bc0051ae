SPECIFICATION Spec
CONSTANTS
  c1 = c1
  c2 = c2
  a1 = a1
  a2 = a2
  Conns <- TwoConns
  Addrs <- TwoAddrs
  Server = Server
  None = None
  QueueSize = 8
  Budget <- TwoEvents
INVARIANT OrderKept
