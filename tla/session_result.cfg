SPECIFICATION Spec
CONSTANTS
  Games <- MCGames
  StartGame <- MCStartGame
  EngineMove <- MCEngineMove
  PlayerOf <- MCPlayerOf
  Submissions <- MCSubmissions
  InboxLimit = 1
  Plies = 2
INVARIANT ResultReachesBoth
