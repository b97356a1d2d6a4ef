SPECIFICATION FairSpec
CONSTANTS
  Connector = {telegram}
  Cron = {1}
  MIN_INTERVAL = 1
  MaxClock = 3
  MaxJobs = 2
  MaxFaults = 1
INVARIANTS
  RecordsContiguous
  RefiresExplained
PROPERTIES
  DueJobAdvances
  MessageConcludes
  ShutdownCompletes
CHECK_DEADLOCK FALSE
