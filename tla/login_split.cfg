SPECIFICATION Spec
CONSTANTS
  Conns = {c1}
  NONE = NONE
  Requests <- LongRequests
  Cuts = {2, 3}
  MaxFaults = 0
  MaxHangUps = 0
  MaxGateways = 1
INVARIANT StringsArriveWhole
CHECK_DEADLOCK FALSE
