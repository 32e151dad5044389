SPECIFICATION CardsSpec
CHECK_DEADLOCK FALSE
CONSTANTS
  Decks <- PartsOfDecks
  MaxOfRank = 4
  Tables <- MCTables
INVARIANT LikeDunsDecide
