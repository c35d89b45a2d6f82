SPECIFICATION FairSpec
CONSTANTS
  Request <- MCRequest
  Start <- StartUnpaired
  Slot = {1, 2}
  NoRequest = NoRequest
  MaxRequests = 3
  MaxFailures = 2
  MaxCommands = 1
INVARIANTS ConsistentUnlessOverlapped RestartCovers ResultsStayWithAgent
PROPERTIES AgentFollows
