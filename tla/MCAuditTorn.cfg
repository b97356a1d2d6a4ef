SPECIFICATION Spec
CONSTANTS
  Proc = {daemon}
  Event = {e1, e2}
  NoEvent = NoEvent
  MaxWrites = 3
  Faults = {"byte_cut"}
INVARIANTS
  AckedReadable
