SPECIFICATION CardsSpec
CHECK_DEADLOCK FALSE
CONSTANTS
  Decks <- PartsOfDecks
  MaxOfRank = 4
  Tables <- MCTables
INVARIANT DunsCompareByRule
INVARIANT RunsCounted
INVARIANT ZeroSum
INVARIANT ComparedUntilDraw
INVARIANT UnbeatenNeverPays
