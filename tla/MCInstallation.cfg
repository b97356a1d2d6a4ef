SPECIFICATION Spec
SYMMETRY Symmetry
CONSTANTS
  Proc = {p1, p2}
  Session = {s1, s2}
  Key = {k1}
  SCHEMA_VERSION = 3
  SUMMARY_KEEP_RECENT = 1
  MaxMsgs = 4
  MaxRuns = 2
  MaxKills = 1
  MaxWrites = 2
  MaxIds = 1
  MaxBackups = 1
  MaxRestores = 2
  MaxLosses = 2
  Release = {1, 2, 3}
  Artifacts = {2, 3}
  Platform = {"unix", "windows"}
  MaxFaults = 2
INVARIANTS
  SchemaWhole
  SummaryCovers
  LineageComplete
  SecretsKept
  BackupDecrypts
  DatabaseSound
  BinarySurvives
  InstalledRecorded
PROPERTIES
  RegressExplained
  DowngradeExplained
CHECK_DEADLOCK FALSE
