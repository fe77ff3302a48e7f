SPECIFICATION Spec
CONSTANTS
  Conns = {c1, c2}
  NONE = NONE
  Requests <- ShortRequests
  Cuts = {2}
  MaxFaults = 1
  MaxHangUps = 1
  MaxGateways = 2
INVARIANTS TypeOK AnswersAreTrue PlayersRegistered
PROPERTIES RequestIsAnswered HangUpEnds
CHECK_DEADLOCK FALSE
