SPECIFICATION Spec
CONSTANTS
  StartGames <- LateMate
  MaxPlies = 1
INVARIANT MateIsAnnounced
CHECK_DEADLOCK FALSE
