SPECIFICATION Spec
CONSTANTS
  StartGames <- PawnEnding
  MaxPlies = 1
INVARIANT LoadedPassingIsLegal
CHECK_DEADLOCK FALSE
