\* One MAC on two IPs, under fairness.
CONSTANTS
    m1 = m1  m2 = m2  i1 = i1  i2 = i2
    Mac = {m1}  Ip = {i1, i2}  Firewall = {f1}
    NoMac = NoMac  NoRow = NoRow
    Terminal <- SharedMac
    MaxDisturbance = 3
SPECIFICATION FairSpec
PROPERTIES
    NonCompliantIsBlocked
\* Once the disturbances are used up and every task finds nothing to do, no
\* step changes anything.
CHECK_DEADLOCK FALSE
