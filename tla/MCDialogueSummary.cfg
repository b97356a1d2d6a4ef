SPECIFICATION Spec
CONSTANTS
  Kind = {"openai", "anthropic"}
  SUMMARY_KEEP_RECENT = 1
  RECENT = 2
  MAX_TOOL_STEPS = 3
  MaxRows = 5
INVARIANTS
  SummaryReachesModel
CHECK_DEADLOCK FALSE
