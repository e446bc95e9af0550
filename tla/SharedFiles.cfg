SPECIFICATION MCSpec
CONSTANTS
  Users = {u1, u2}
  Sweepers = {w1, w2}
  MaxAge = 1
  MaxClock = 2
  MaxInodes = 3
  Files = {"f"}
  Sessions = {"s1", "s2", "s3"}
  Hosts = {"h1", "h2"}
  HostOf <- MCHostOf
  Pids = {"p1", "p2"}
  TtlSameHost = 2
  TtlCrossHost = 1
  SweepMaxAge = 3
  LeaseClock = 4
  Wide = {"dir", "repo"}
  Everywhere = {"repo"}
  Readers = {r1, r2}
  MaxEntries = 2
  MaxChanges = 3
  Chats = {c1, c2}
  KeepRecent = 1
  ArchiveCap = 1
  MaxTurns = 5
  MaxIndex = 5
  MaxFails = 1
  MaxKills = 1
  MaxTears = 1
  Learners = {l1, l2}
  Keys = {"k1", "k2", "k3"}
  FlushInterval = 2
  MaxPatterns = 2
  MaxRecords = 5
  MaxCount = 10
  MaxDeletions = 1
SYMMETRY Alike
INVARIANTS
  TypesOK
  TurnsAreKept
  RecordsAddUp
  CacheIsHonest
PROPERTIES
  SweepLeavesHeld
  EditorIsGuarded
CHECK_DEADLOCK FALSE
