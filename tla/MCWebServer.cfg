CONSTANTS
  Peers = {p1, p2}
  Buf = 2
  FileLengths = {1, 4, 5}
  AnswerLengths = {1, 3}
  MaxRequest = 3
SPECIFICATION FairSpec
INVARIANT OneSend
INVARIANT HeapSound
INVARIANT BodyInOrder
PROPERTY WholeBody
PROPERTY Answered
