SPECIFICATION AnsweredSpec
CONSTANTS
  Worker = {w1}
  Peer = {p1}
  Template = {t1, t2}
  TemplateSize <- OneSize
  Applies <- OneSpent
  ShareId = {1, 2}
  Addr = {a1}
  Remote <- RemoteFirst
  NoPeer = NoPeer
  MaxPath = 2
  MaxShares = 3
  MaxTemplates = 2
  MaxTemplateBytes = 2
  MaxOrphans = 1
  MaxWitnessBytes = 2
  Future = 0
  MaxTip = 1
  MaxNow = 1
  MaxConfigs = 1
INVARIANTS OrphansAsked PathsComplete CurrentTip
PROPERTIES LeavesOldTip OrphansSettle
CHECK_DEADLOCK FALSE
