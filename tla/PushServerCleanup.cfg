SPECIFICATION CleanupSpec
CONSTANTS
  SndBuf = 11
  Faults = 1
  EventQueueLimit = 3
  EventLengths <- MCEventLengths
  EventHead = 4
  SocketQueueLimit = 2
  MessageLengths <- MCMessageLengths
  ShortFrame = 2
  SocketHead = 2
  Scenarios = {}
  Messages = 2
  Controls = 1
  ClientQueueLimit = 1
  MaxClients = 1
  Ids = 2
  Calls <- MCJoins
  Waiting = 1
PROPERTIES
  LimitsClients
CHECK_DEADLOCK FALSE
