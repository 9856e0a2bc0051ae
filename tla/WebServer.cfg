SPECIFICATION Spec
CONSTANTS
  SndBuf = 11
  Faults = 1
  HeadLength = 3
  ContinueLength = 7
  ItemBuffer = 2
  Boundary <- MCBoundary
  Requests <- MCRequests
  Handlers <- MCHandlers
  Rewrites <- MCRewrites
  Files <- MCFiles
  PathLength = 4
  EditPage = 5
  NotFound = {}
  NameLength = 2
  Names <- MCNames
  ValueOf <- MCValueOf
INVARIANTS
  ResponseIntact
  AnsweredOnce
  RequestDecoded
PROPERTIES
  CutOnlyWithHeldHead
  ChangedAsAsked
  ResponseEnds
CHECK_DEADLOCK FALSE
