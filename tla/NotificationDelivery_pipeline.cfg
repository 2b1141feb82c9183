CONSTANTS
    e1 = e1  e2 = e2  c1 = c1  c2 = c2  o1 = o1  o2 = o2
    Event = {e1, e2}
    Channel = {c1, c2}
    Operator = {o1}
    MaxRetries = 1
    Suppressing = {c1}
    Threshold = 2
    Mail = {c2}
    MaxDisturbance = 1
SPECIFICATION Spec
INVARIANTS
    TypeOK
    
    DeliveredOnce
    TriesAreBounded
    
PROPERTIES
    EverythingIsProcessed
\* Every event is processed and nothing is left to expire.
CHECK_DEADLOCK FALSE
