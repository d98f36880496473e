CONSTANTS
  MaxFileLength = 1
  MaxPieceLength = 3
  MaxFiles = 2
  MaxLength = 3
  MaxTotal = 6
  Workers = {w1, w2}
  Blank = Blank
  Descriptors <- SeveralFiles
  Garbage <- SmallGarbage
SPECIFICATION StorageSpec
INVARIANT SavedIsOnDisk
