SPECIFICATION FairSpec
CONSTANTS
  s1 = s1
  s2 = s2
  w1 = w1
  w2 = w2
  Threads <- MCThreads
  Weak <- MCWeak
INVARIANTS
  IInv
PROPERTIES
  FifoOrder
  NoStarvation
