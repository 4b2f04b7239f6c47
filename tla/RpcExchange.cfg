SPECIFICATION FairSpec
CONSTANTS
  c1 = c1
  c2 = c2
  Calls <- TwoCalls
INVARIANTS TypeOK FuturesExplained LiveChannelsCached
PROPERTIES KeepsPromise EveryCallEnds FoundFutureReturns
