SPECIFICATION SensorFairSpec
CONSTANTS ChipIds = {96, 88}
INVARIANT Aligned
INVARIANT WrittenIsTaken
PROPERTY KeepsReading
