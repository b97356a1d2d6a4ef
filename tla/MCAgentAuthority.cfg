SPECIFICATION FairSpec
CONSTANTS
  Operators = {cli}
  Daemons = {daemon}
  AllowLists = {{}, {"shell"}}
  Task = {"deploy"}
  Slug <- MCSlugs
  NoSkill = NoSkill
  Tool = {"fetch", "ghost", "srv::shell"}
  Bare <- MCBare
  Registered = {"fetch", "srv::shell"}
  MAX_TOOL_STEPS = 2
  MAX_SUBAGENT_DEPTH = 1
  MaxRuns = 1
  Crashes = TRUE
INVARIANTS
  TypeOK
  DispatchesRecorded
PROPERTIES
  RunsEnd
CHECK_DEADLOCK FALSE
