SPECIFICATION DeliverySpec
CONSTANTS
  Sender = {}
  Consumer = {con}
  User = {con}
  PubKey = con
  ConKey <- OwnKeys
  Key = {con}
  NoChan = NoChan
  NoSender = NoSender
  MaxChannels = 3
  MaxAttempts = 2
  MaxLosses = 2
  MayCancel = TRUE
  MaxMessages = 2
INVARIANT AckedWasHandled
INVARIANT ClosedStaysClosed
PROPERTY LostConnectionIsReplaced
PROPERTY CloseEndsWatchers
PROPERTY MessagesGetDone
PROPERTY ImplementsQueue
CHECK_DEADLOCK FALSE
