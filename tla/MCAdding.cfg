CONSTANTS
  Letters <- SmallLetters
  LongMax = 99
  IntMax = 31
  Nothing = Nothing
  HashSize = 2
  Beyond = {"i", "l", "d", "0", "a"}
  Statuses = {0, 200, 404}
  MaxFragments = 3
  MaxLength = 3
  MaxPeers = 3
  Metainfos <- SmallTorrents
  Junk <- JunkTexts
  Responses <- ShortLists
  Noise <- SomeNoise
SPECIFICATION Spec
INVARIANTS
  DecodesGrammar
  EncodesShortest
  DescriptorFaithful
  AddedIffServed
  PeersAreListed
