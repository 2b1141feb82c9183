\* Two requests, one check, two batches, one disturbance, under fairness.
CONSTANTS
  e1 = e1  e2 = e2  c1 = c1
  Editor = {e1, e2}
  Checker = {c1}
  Nobody = Nobody  None = None
  Batches = 2
  MaxDisturbance = 1
SPECIFICATION FairSpec
INVARIANTS JudgedByOneList PhantomsAreExplained
PROPERTIES EditsTakeEffect
