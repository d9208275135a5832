SPECIFICATION FairSpec
CONSTANTS
  e1 = e1
  e2 = e2
  e3 = e3
  e4 = e4
  e5 = e5
  Enity = {e1, e2, e3, e4, e5}
  KindOf <- FiveKinds
  StartWatcher <- FourthEnity
  StartQueueWorker <- NoEnity
  CloseFails = {e2}
  ServeFails = {e1}
  Logged = TRUE
  NameOf <- FiveNames
  PublishersOf <- SharedPublisher
  StatsEnity = e1
  MaxEnities = 3
INVARIANT CleanExitClosesAll
INVARIANT DependenciesOutlive
INVARIANT AcceptedIsComplete
INVARIANT ReadyMeansOpen
INVARIANT ScrapesSurvive
PROPERTY ImplementsLifeCycle
PROPERTY SignalEndsLoop
PROPERTY FailureEndsLoop
CHECK_DEADLOCK FALSE
