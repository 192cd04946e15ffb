\* A blocking adder, one that does not block, and a getter; the queue may be
\* closed at any moment.
SPECIFICATION FairSpec
CONSTANTS
  a1 = a1
  a2 = a2
  g1 = g1
  i1 = i1
  i2 = i2
  NoItem = NoItem
  NoThread = NoThread
  Threads = {a1, a2, g1}
  Adders = {a1, a2}
  Getters = {g1}
  Weak = {a2}
  Items = {i1, i2}
  Brings <- OwnItems
  Capacity = 2
INVARIANTS
  IInv
  NoLostWakeup
  RefusedOnlyWhenStuck
  ClosedMeansIdle
PROPERTIES
  ImplementsFifo
  CloseTerminates
CHECK_DEADLOCK FALSE
