SPECIFICATION Spec
SYMMETRY MCSymmetry
CONSTANTS
  Calls = {k1, k2}
  Polls = {p1, p2}
  Requests = {q1, q2}
  None = None
  MaxDeltas = 2
INVARIANTS
  CancelReaches
  TextKept
  TextBeforeEvents
  StoreTellsLedger
CHECK_DEADLOCK FALSE
