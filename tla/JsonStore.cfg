SPECIFICATION FairSpec
CONSTANTS
  Writers = {w1, w2}
  NoOne = NoOne
  Deleting = Deleting
  Wait = 1
  Stale = 2
  MaxCalls = 2
  MaxCrashes = 1
INVARIANTS
  NoEditIsLost
  OneHolder
PROPERTIES
  EditsAreAtomic
  EveryWaitEnds
CHECK_DEADLOCK FALSE
