CONSTANTS
  Plans <- MCPlans
  Following = "strict"
  RedirectLimit = 2
  Hosts <- MCHosts
  LastTwo <- MCLastTwo
  Parts <- MCParts
  NoPlace = NoPlace
  NoCookie = NoCookie
  Visits <- MCVisits
SPECIFICATION LoopSpec
INVARIANTS RepliesKeptApart RequestsAsAsked
PROPERTIES CallsEnd PinsAsAsked
CHECK_DEADLOCK FALSE
