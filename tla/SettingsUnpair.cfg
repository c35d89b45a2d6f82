SPECIFICATION Spec
CONSTANTS
  Request <- UnpairRequest
  Start <- StartPaired
  Slot = {1, 2}
  NoRequest = NoRequest
  MaxRequests = 2
  MaxFailures = 0
  MaxCommands = 1
PROPERTY PairingPreservesChanges
