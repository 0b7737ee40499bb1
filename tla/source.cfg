SPECIFICATION FairSpec
CONSTANTS
  Loom = {loom, loom2}
  OfflineAfter = 2
  Window = 1
  MaxTime = 6
  MaxRestarts = 1
  MaxChanges = 3
INVARIANTS StopIsTold
PROPERTIES RepeatsReportNothing StopIsSeen SilenceIsTold
