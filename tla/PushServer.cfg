SPECIFICATION Spec
CONSTANTS
  SndBuf = 11
  Faults = 1
  EventQueueLimit = 3
  EventLengths <- MCEventLengths
  EventHead = 4
  SocketQueueLimit = 2
  MessageLengths <- MCMessageLengths
  ShortFrame = 2
  SocketHead = 2
  Scenarios <- MCScenarios
  Messages = 2
  Controls = 1
  ClientQueueLimit = 1
  MaxClients = 1
  Ids = 2
  Calls <- MCCalls
  Waiting = 1
INVARIANTS
  EventsIntact
  BuffersHeld
  HandedInOrder
PROPERTIES
  MessagesAcknowledged
  BroadcastsReach
  Drains
CHECK_DEADLOCK FALSE
