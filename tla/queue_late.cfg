\* A call that does not block, made after the queue was closed.
SPECIFICATION FairSpec
CONSTANTS
  a1 = a1
  a2 = a2
  g1 = g1
  i1 = i1
  i2 = i2
  NoItem = NoItem
  NoThread = NoThread
  Threads = {a1, g1}
  Adders = {a1}
  Getters = {g1}
  Weak = {a1}
  Items = {i1, i2}
  Brings <- OwnItems
  Capacity = 1
PROPERTIES
  KeepsPromise
CHECK_DEADLOCK FALSE
