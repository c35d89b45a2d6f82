SPECIFICATION FairSpec
CONSTANTS
  Node = {"a", "b", "s"}
  Dial <- Star
  MaxIn = 1
  MaxOut = 1
  MaxEnds = 2
  MaxFailures = 1
  MaxSwitches = 1
INVARIANTS TableMatchesSessions
PROPERTIES StopsWhenDisabled Reconnects
