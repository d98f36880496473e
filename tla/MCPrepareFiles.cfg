CONSTANTS
  Torrents <- SomeTorrents
  MAX_COPY_ATTEMPTS = 10
  MaxAdds = 4
  MaxLeft = 7
SPECIFICATION PrepareSpec
INVARIANTS
  FoldersDistinct
  FilesStay
PROPERTY RemovesOnlyCreated
