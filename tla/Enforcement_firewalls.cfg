\* One terminal behind two firewalls, under fairness.
CONSTANTS
    m1 = m1  m2 = m2  i1 = i1  i2 = i2
    Mac = {m1}  Ip = {i1}  Firewall = {f1, f2}
    NoMac = NoMac  NoRow = NoRow
    Terminal <- OneTerminal
    MaxDisturbance = 4
SPECIFICATION FairSpec
INVARIANTS
    UnblockedHasNoTag
    EveryOrphanIsExplained
PROPERTIES
    CompliantIsReleased
    WhitelistedIsBypass
    NonCompliantIsBlocked
    OrphanIsAdopted
\* Once the disturbances are used up and every task finds nothing to do, no
\* step changes anything.
CHECK_DEADLOCK FALSE
