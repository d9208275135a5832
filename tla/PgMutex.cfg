SPECIFICATION FairSpec
CONSTANTS
  m1 = m1
  m2 = m2
  m3 = m3
  t1 = t1
  t2 = t2
  t3 = t3
  s1 = s1
  s2 = s2
  s3 = s3
  s4 = s4
  Mutex = {m1, m2, m3}
  Thread = {t1, t2, t3}
  MutexOf <- OnePerMutex
  Session = {s1, s2, s3, s4}
  PoolOf <- Pools
  Nil = Nil
  CallsOf <- SomeCalls
  Closed = Closed
  NoThread = NoThread
  SessionsLast = TRUE
  Faulty = {m1}
  MaxRLocks = 2
INVARIANT Exclusion
 
 
PROPERTY ImplementsRWLock
PROPERTY LockIsServed
CHECK_DEADLOCK FALSE
