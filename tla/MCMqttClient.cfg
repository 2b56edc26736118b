CONSTANTS
  p1 = p1
  DnsCaches = TRUE
  SendTimeout = 2
  KeepAliveHalf = 1
  ReconnectTimeout = 1
  Publications = {p1}
  Segments <- MCSegments
  MaxQueue = 2
  MaxStale = 1
SPECIFICATION FairSpec
INVARIANT WorkIsPosted
INVARIANT SessionIsReal
INVARIANT SomeoneAnswers
PROPERTY StaysDisconnected
PROPERTY Recovers
PROPERTY QueueMoves
