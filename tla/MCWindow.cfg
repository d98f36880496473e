CONSTANTS
  MaxTorrents = 2
  PiecesCount <- PiecesTwoOne
  NoTorrent = NoTorrent
SPECIFICATION Spec
INVARIANT ListIsExact
PROPERTIES
  ShownOnlyGrows
  CompletionIsShown
CHECK_DEADLOCK FALSE
