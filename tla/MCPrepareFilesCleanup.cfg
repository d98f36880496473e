CONSTANTS
  Torrents <- OneTorrent
  MAX_COPY_ATTEMPTS = 10
  MaxAdds = 1
  MaxLeft = 11
SPECIFICATION PrepareSpec
PROPERTY RemovesOnlyCreated
