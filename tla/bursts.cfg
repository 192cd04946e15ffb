\* Two channels, a queue for two bursts, buffers that double once.
SPECIFICATION Spec
CONSTANTS
  c1 = c1
  c2 = c2
  b1 = b1
  b2 = b2
  b3 = b3
  b4 = b4
  b5 = b5
  NoBuffer = NoBuffer
  Agc = {c1, c2}
  Buffers = {b1, b2, b3, b4, b5}
  StartSize = 2
  MaxSize = 4
  RssiOffset = 1
  MinLen = 2
  Timeout = 2
  Capacity = 2
INVARIANTS
  IInv
  BurstsWhole
  OneOwner
SYMMETRY BurstsSymmetry
