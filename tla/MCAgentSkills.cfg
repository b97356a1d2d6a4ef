SPECIFICATION Spec
CONSTANTS
  Operators = {cli, tui}
  Daemons = {daemon}
  AllowLists = {{}}
  Task = {"deploy"}
  Slug <- MCSlugs
  NoSkill = NoSkill
  Tool = {"srv::shell"}
  Bare <- MCBare
  Registered = {"srv::shell"}
  MAX_TOOL_STEPS = 1
  MAX_SUBAGENT_DEPTH = 2
  MaxRuns = 3
  Crashes = TRUE
INVARIANTS
  SideEffectsAuthorised
  NestingBounded
  InjectedApproved
  CreationsTruthful
PROPERTIES
  SkillsWrittenByOperators
SYMMETRY Symmetry
VIEW SkillView
CHECK_DEADLOCK FALSE
