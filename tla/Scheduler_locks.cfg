\* Two instances, a lock of two ticks, a day of three minutes with one due.
CONSTANTS
  s1 = s1  s2 = s2
  Instance = {s1, s2}
  Cli = Cli  Nobody = Nobody  NoKey = NoKey
  LockTtl = 2
  Day = 3
  Due = {1}
  MaxDisturbance = 2
SPECIFICATION FairSpec
INVARIANTS OneBackupAMinute
PROPERTIES LockIsALease RoundsKeepComing
