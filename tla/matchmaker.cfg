SPECIFICATION Spec
CONSTANTS
  Clients = {c1, c2, c3}
  NONE = NONE
  MaxFaults = 1
  MaxHangUps = 1
INVARIANTS TypeOK ProperPairs NoDescriptorLeak NobodyForgotten EndsFollowSeats
PROPERTIES PartnerOrEof WaitersAreMatched RoundsArePairs RoundsGoOn
CHECK_DEADLOCK FALSE
