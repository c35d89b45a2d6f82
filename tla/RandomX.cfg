SPECIFICATION FairSpec
CONSTANTS
  Thread = {t1, t2, t3}
  Seed = {"a", "b"}
  TestSeed = "test"
  NoContext = NoContext
  NoVm = NoVm
  NoThread = NoThread
  Context = {c1, c2, c3, c4}
  Vm = {v1, v2, v3}
  MaxCalls = 4
  MaxFailures = 1
INVARIANTS HashesSound
PROPERTIES InitializedOnce CallsReturn
CHECK_DEADLOCK FALSE
