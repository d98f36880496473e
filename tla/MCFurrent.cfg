CONSTANTS
  Main = Main
  None = None
  Workers = {w1, w2}
  MaxTorrents = 2
  PiecesCount <- PiecesTwoOne
  Peers = {p1}
SPECIFICATION FairSpec
INVARIANTS
  NoDuplicateWork
  NoPieceLost
  CountIsExact
  CompletedMeansSaved
  LastPieceCompletes
  WorkersSeeStarted
  GuiPairConsistent
PROPERTIES
  ImplementsTorrents
  DownloadsSettle
  ShutdownEnds
