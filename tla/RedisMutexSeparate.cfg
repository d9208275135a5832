SPECIFICATION FairSpec
CONSTANTS
  i1 = i1
  i2 = i2
  i3 = i3
  t1 = t1
  t2 = t2
  t3 = t3
  Instance = {i1, i2, i3}
  Thread = {t1, t2, t3}
  InstanceOf <- OnePerInstance
  NoInstance = NoInstance
  NoThread = NoThread
  TTLCoversUse = TRUE
  RedisFails = TRUE
INVARIANT TypeOK
INVARIANT MutualExclusion
INVARIANT UserOwnsKey
 
PROPERTY LockIsServed
PROPERTY ImplementsLock
CHECK_DEADLOCK FALSE
