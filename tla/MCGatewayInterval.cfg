SPECIFICATION Spec
CONSTANTS
  Connector = {telegram}
  Cron = {2}
  MIN_INTERVAL = 2
  MaxClock = 4
  MaxJobs = 1
  MaxFaults = 0
PROPERTY
  MinIntervalKept
CHECK_DEADLOCK FALSE
