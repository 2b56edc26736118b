SPECIFICATION Spec
CONSTANTS
  BufferLength = 136
  MaxId = 2
  Topics <- MCTopics
  Publications <- MCPublications
  Infos <- MCInfos
  Packets <- MCPackets
  Cuts = {9}
  Sends = 3
INVARIANT BuiltAsAsked
PROPERTY ReadAsSent
PROPERTY AckMatches
PROPERTY ReadInBounds
