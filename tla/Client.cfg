SPECIFICATION Spec
CONSTANTS
  e1 = e1
  e2 = e2
  e3 = e3
  e4 = e4
  Enity = {e1, e2, e3, e4}
  KindOf <- FourKinds
  StartWatcher <- FirstEnity
  StartQueueWorker <- FirstEnity
  CloseFails = {e2}
  ServeFails = {e4}
  Logged = TRUE
  MaxServers = 2
INVARIANT OneWatcher
INVARIANT CleanStartIsWatched
INVARIANT StartedIsConnected
INVARIANT ShutIsClosed
PROPERTY ShutIsQuiet
CHECK_DEADLOCK FALSE
