\* Two terminals behind one IP, and an IP nobody uses.
CONSTANTS
    m1 = m1  m2 = m2  i1 = i1  i2 = i2
    Mac = {m1, m2}  Ip = {i1, i2}  Firewall = {f1}
    NoMac = NoMac  NoRow = NoRow
    Terminal <- SharedIp
    MaxDisturbance = 3
SPECIFICATION Spec
PROPERTIES
    BlockHasCause
    
    LedgerIsKept
\* Once the disturbances are used up and every task finds nothing to do, no
\* step changes anything.
CHECK_DEADLOCK FALSE
