SPECIFICATION Spec
CONSTANTS
  Proc = {daemon, cli}
  Event = {e1, e2}
  NoEvent = NoEvent
  MaxWrites = 3
  Faults = {}
INVARIANTS
  ChainVerifies
