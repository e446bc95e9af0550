SPECIFICATION MCSpec
CONSTANTS
  t1 = t1
  t2 = t2
  t3 = t3
  m1 = m1
  m2 = m2
  l1 = l1
  l2 = l2
  l3 = l3
  NoLock = NoLock
  NoThread = NoThread
  Threads <- MCThreads
  Managers <- MCManagers
  ManagerOf <- MCManagerOf
  Files <- MCFiles
  Locks <- MCLocks
PROPERTY
  ResetsSpareOthers
