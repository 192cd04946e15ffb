\* Two devices, one of them in the watch file, with commits, crashes and alerts
\* at any moment.
SPECIFICATION DashboardSpec
CONSTANTS
  d1 = d1
  d2 = d2
  Devices = {d1, d2}
  CommitEvery = 2
  Absence = 1
  Cooldown = 1
  MaxPending = 1
  WatchFile = {d1}
  MaxPackets = 3
  MaxTests = 1
  MaxRestarts = 1
INVARIANTS
  CrashLosesLittle
  ReturnsFollowDepartures
  DashboardIInv
