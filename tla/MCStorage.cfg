CONSTANTS
  MaxFileLength = 5
  MaxPieceLength = 5
  MaxFiles = 3
  MaxLength = 3
  MaxTotal = 5
  Workers = {w1, w2}
  Blank = Blank
  Descriptors <- SmallDescriptors
  Garbage <- SmallGarbage
SPECIFICATION FairStorageSpec
INVARIANTS
  PiecesCoverFiles
  SingleFileSaved
  SingleFileIntact
PROPERTY PiecesReturns
