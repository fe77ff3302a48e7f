SPECIFICATION Spec
CONSTANTS
  StartGames <- AllEndings
  MaxPlies = 2
INVARIANTS TypeOK AcceptsExactlyTheLegal BoardFollowsRules EndsAsItShould MenAtHome MenCanBeReadOff LegalMovesAreListed LoadedGamePlaysOn PerftCountsLines
PROPERTY RejectionOnlyPromotes
CHECK_DEADLOCK FALSE
