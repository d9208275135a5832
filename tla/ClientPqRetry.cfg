SPECIFICATION Spec
CONSTANTS
  e1 = e1
  e2 = e2
  e3 = e3
  e4 = e4
  Enity = {e1}
  KindOf <- OnlyPq
  StartWatcher <- NoEnity
  StartQueueWorker <- NoEnity
  CloseFails = {}
  ServeFails = {}
  Logged = TRUE
  MaxServers = 2
INVARIANT StartedIsWatched
