CONSTANT MaxParts = 4
SPECIFICATION SocketSpec
INVARIANTS
  NothingLeftBehind
  TimeoutCloses
  OKMeansComplete
PROPERTY MethodsReturn
