CONSTANTS
  Size = 7
  BufSize = 3
  MaxCalls = 4
  Packet <- MCPacket
SPECIFICATION PointerSpec
INVARIANT AtFrameStart
INVARIANT LosesOnlyShorter
PROPERTY CallsEnd
PROPERTY ImplementsQueue
PROPERTY ImplementsFifo
\* No more packets than MaxCalls are queued, and then nothing happens.
CHECK_DEADLOCK FALSE
