\* Two terminals, one source, one rule, the scheduler's collection and one
\* operator, three disturbances, under fairness.
CONSTANTS
  t1 = t1  t2 = t2  r1 = r1  s1 = s1  s2 = s2  c1 = c1  c2 = c2  o1 = o1
  Terminal = {t1, t2}
  Rule = {r1}
  Source = {s1}
  Scheduled = {c1}
  Request = {c2}
  Operator = {o1}
  None = None
  MaxDisturbance = 3
SPECIFICATION FairSpec
INVARIANTS FlagsAreExplained
PROPERTIES ExcludedTerminalsLeave GoneTerminalsGoOffline
