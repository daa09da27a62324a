SPECIFICATION FairSpec
CONSTANTS
  a = a
  b = b
  Blocks <- MCBlocks
  Announced <- MCAnnounced
  Prompt <- MCPrompt
  MaxEpochs = 2
  MaxEvents = 2
  MaxForgets = 1
  BufferEvents = 1
  QueueSize = 1
  WireSize = 1
INVARIANTS
  IndexIsTrue
  SynchronizedIsCaughtUp
  RoutesAreExact
PROPERTIES
  NeverReturns
  Converges
