SPECIFICATION Spec
CONSTANTS
  Worker = {w1}
  Peer = {p1}
  Template = {t1, t2}
  TemplateSize <- OneSize
  Applies <- AllApply
  ShareId = {1, 2}
  Addr = {a1}
  Remote <- RemoteInTime
  NoPeer = NoPeer
  MaxPath = 2
  MaxShares = 3
  MaxTemplates = 2
  MaxTemplateBytes = 2
  MaxOrphans = 1
  MaxWitnessBytes = 1
  Future = 1
  MaxTip = 2
  MaxNow = 1
  MaxConfigs = 1
INVARIANTS LiveWitnessFits
CHECK_DEADLOCK FALSE
