SPECIFICATION Spec
CONSTANTS
  DefaultBufferSize = 2
  bufferGrowThreshold = 4
INVARIANTS BytesKept PoolsSound
PROPERTIES BuffersAreQueues FragsAreQueued TasksAreQueued
CHECK_DEADLOCK FALSE
