SPECIFICATION AnsweredSpec
CONSTANTS
  Worker = {}
  Peer = {p1}
  Template = {t1, t2}
  TemplateSize <- OneSize
  Applies <- OneSpent
  ShareId = {1, 2, 3}
  Addr = {a1}
  Remote <- RemoteMixed
  NoPeer = NoPeer
  MaxPath = 3
  MaxShares = 3
  MaxTemplates = 2
  MaxTemplateBytes = 2
  MaxOrphans = 2
  MaxWitnessBytes = 2
  Future = 1
  MaxTip = 1
  MaxNow = 0
  MaxConfigs = 0
PROPERTIES OrphansSettle
CHECK_DEADLOCK FALSE
