\* Four requests of one operation each.
CONSTANTS
    q1 = q1  q2 = q2  q3 = q3  q4 = q4  u1 = u1  u2 = u2
    default = default  superadmin = superadmin  custom = custom  p1 = p1
    Request = {q1, q2, q3, q4}
    User = {u1, u2}  Staff = {u1}
    Role = {default, superadmin, custom}
    Default = default  Superadmin = superadmin
    Permission = {p1}
    MaxAttempts = 2  MaxDisturbance = 1
SPECIFICATION Spec
SYMMETRY Symmetry
INVARIANTS
    StaleIsExplained
    RolelessIsExplained
    
    CountersEnd
\* Every request does one operation and is over.
CHECK_DEADLOCK FALSE
