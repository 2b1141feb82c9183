\* One request, no disturbance.
CONSTANTS
  e1 = e1  e2 = e2  c1 = c1
  Editor = {e1}
  Checker = {c1}
  Nobody = Nobody  None = None
  Batches = 2
  MaxDisturbance = 0
SPECIFICATION Spec
INVARIANTS RangeEditsActAtOnce
