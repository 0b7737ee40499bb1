SPECIFICATION Spec
CONSTANTS
  Loom = {loom, loom2}
  OfflineAfter = 2
  Window = 1
  MaxTime = 6
  MaxRestarts = 0
  MaxChanges = 3
INVARIANTS ResumeIsTold
