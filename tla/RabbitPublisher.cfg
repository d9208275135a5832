SPECIFICATION Spec
CONSTANTS
  Sender = {s1, s2}
  Consumer = {}
  User = {s1, s2}
  PubKey = pubKey
  ConKey <- OwnKeys
  Key = {pubKey}
  NoChan = NoChan
  NoSender = NoSender
  MaxChannels = 2
  MaxAttempts = 1
  MaxLosses = 1
  MayCancel = FALSE
INVARIANT NoPanicDuringReconnect
 
INVARIANT NobodyIsStuck
PROPERTY SendEnds
CHECK_DEADLOCK FALSE
