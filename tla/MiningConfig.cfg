SPECIFICATION Spec
CONSTANTS
  Worker = {w1}
  Peer = {p1}
  Template = {t1}
  TemplateSize <- OneSize
  Applies <- AllApply
  ShareId = {1}
  Addr = {a1, a2}
  Remote <- RemoteInTime
  NoPeer = NoPeer
  MaxPath = 2
  MaxShares = 3
  MaxTemplates = 2
  MaxTemplateBytes = 2
  MaxOrphans = 1
  MaxWitnessBytes = 2
  Future = 1
  MaxTip = 2
  MaxNow = 1
  MaxConfigs = 1
INVARIANTS ConfigApplied
CHECK_DEADLOCK FALSE
