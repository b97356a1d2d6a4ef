SPECIFICATION Spec
CONSTANTS
  Operators = {cli}
  Daemons = {}
  AllowLists = {{}}
  Task = {"Deploy it", "deploy it!"}
  Slug <- MCSlug
  NoSkill = NoSkill
  Tool = {"fetch"}
  Bare <- MCBare
  Registered = {"fetch"}
  MAX_TOOL_STEPS = 1
  MAX_SUBAGENT_DEPTH = 0
  MaxRuns = 2
  Crashes = FALSE
INVARIANTS
  ActivatesOwnTask
CHECK_DEADLOCK FALSE
