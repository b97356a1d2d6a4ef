SPECIFICATION Spec
CONSTANTS
  Proc = {daemon}
  Event = {e1, e2}
  NoEvent = NoEvent
  MaxWrites = 4
  Faults = {}
INVARIANTS
  TypeOK
  ChainVerifies
  AckedReadable
PROPERTIES
  ImplementsTrail
