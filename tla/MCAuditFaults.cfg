SPECIFICATION Spec
CONSTANTS
  Proc = {daemon, cli}
  Event = {e1, e2}
  NoEvent = NoEvent
  MaxWrites = 3
  Faults = {"byte_cut", "short_write", "edit"}
INVARIANTS
  VerifiedIsHistory
SYMMETRY Symmetry
VIEW WithoutAcked
