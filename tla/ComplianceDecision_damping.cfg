\* One address of one MAC, four thresholds that differ, under fairness.
SPECIFICATION FairSpec
CONSTANTS
  m1 = m1
  Mac = {m1}
  Terminal <- OneAddress
  Scopes = {"exact", "ip"}
  Evidence = {"match", "ip_only", "mac_only", "absent"}
  Grouping = TRUE
  Confirm = 2
  CompliantDowngrade = 3
  Absence = 4
  WhitelistMiss = 2
  MinInterval = 2
  NewGrace = 2
  GoodGrace = 2
  IpGrace = 2
PROPERTIES LoneDowngradeIsSpaced StaleDataNeverCounts BadIsCondemned GoodIsRecognised
