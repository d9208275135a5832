SPECIFICATION FairSpec
CONSTANTS
  s1 = s1
  s2 = s2
  none = none
  Subscriber = {s1, s2}
  QueueSize = 2
  NoSubscription = none
  NoSubscriber = none
  MaxStarts = 2
  MaxChannels = 3
  MaxMessages = 3
INVARIANT NothingUnheard
PROPERTY NotifiedIsHandled
CHECK_DEADLOCK FALSE
