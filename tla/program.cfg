CONSTANTS
  MaxCommands = 2
  Sent <- SomeCommands
  GpsAtStart <- WithGps
  CommandLines <- SomeCommandLines
SPECIFICATION FairSpec
INVARIANTS
  IInv
  LateUseBounded
  RestartKept
  GainReported
  FixFromReceiver
PROPERTIES
  StopEnds
CHECK_DEADLOCK FALSE
