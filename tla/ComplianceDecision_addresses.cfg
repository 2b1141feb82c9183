\* Two addresses of one MAC: misses add up, the younger address has its grace.
SPECIFICATION Spec
CONSTANTS
  m1 = m1
  Mac = {m1}
  Terminal <- TwoAddresses
  Scopes = {"exact"}
  Evidence = {"match", "ip_only"}
  Grouping = FALSE
  Confirm = 2
  CompliantDowngrade = 2
  Absence = 2
  WhitelistMiss = 2
  MinInterval = 1
  NewGrace = 1
  GoodGrace = 1
  IpGrace = 2
INVARIANTS MissesLeadToAVerdict
PROPERTIES NewcomerIsSpared
