SPECIFICATION FairSpec
CONSTANTS
  e1 = e1
  e2 = e2
  e3 = e3
  e4 = e4
  e5 = e5
  Enity = {e1, e2}
  KindOf <- UaAndServer
  StartWatcher <- FirstEnity
  StartQueueWorker <- NoEnity
  CloseFails = {}
  ServeFails = {}
  Logged = TRUE
  NameOf <- SomeNames
  PublishersOf <- NoPublishers
  StatsEnity = e2
  MaxEnities = 2
PROPERTY ShutdownEnds
CHECK_DEADLOCK FALSE
