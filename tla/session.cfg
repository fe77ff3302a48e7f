SPECIFICATION Spec
CONSTANTS
  Games <- MCGames
  StartGame <- MCStartGame
  EngineMove <- MCEngineMove
  PlayerOf <- MCPlayerOf
  Submissions <- MCSubmissions
  InboxLimit = 1
  Plies = 3
INVARIANTS TypeOK Lockstep BoardsAgree
PROPERTIES OrphanReleased AbandonedEnds PlaysOneGame GameGoesOn KeepsToItsPair PairGoesOn
