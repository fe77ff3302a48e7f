SPECIFICATION Spec
CONSTANTS
  Clients = {c1, c2}
  NONE = NONE
  MaxFaults = 0
  MaxHangUps = 1
PROPERTY RestartRecovers
CHECK_DEADLOCK FALSE
