SPECIFICATION AnsweredSpec
CONSTANTS
  Worker = {}
  Peer = {p1}
  Template = {t1, t2}
  TemplateSize <- OneSize
  Applies <- AllApply
  ShareId = {1, 2}
  Addr = {a1}
  Remote <- RemoteInTime
  NoPeer = NoPeer
  MaxPath = 2
  MaxShares = 3
  MaxTemplates = 2
  MaxTemplateBytes = 2
  MaxOrphans = 2
  MaxWitnessBytes = 2
  Future = 1
  MaxTip = 0
  MaxNow = 0
  MaxConfigs = 0
PROPERTIES DependenciesRequested
CHECK_DEADLOCK FALSE
