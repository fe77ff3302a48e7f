SPECIFICATION Spec
CONSTANTS
  Games <- ChessGames
  StartGame <- AfterOpening
  EngineMove <- MakeMove
  PlayerOf <- GetPlayer
  Submissions <- ChessSubmissions
  InboxLimit = 1
INVARIANT AcceptedMovesAreExecuted
