SPECIFICATION FairSpec
CONSTANTS
  MaxPages = 2
  MaxTime = 2
  MaxFaults = 1
  MaxAttempts = 2
  BackoffBase = 1
  BackoffCap = 2
  BatchLimit = 2
  AssumeAfter = 1
  RepeatEvery = 1
INVARIANTS TypeOK CopiesPaidFor ReportsMatch
PROPERTIES AllClearEarned DeathIsFinal PagesSettle
