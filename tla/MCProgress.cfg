SPECIFICATION Spec
CONSTANTS
  DefaultBufferSize = 2
  bufferGrowThreshold = 4
INVARIANT StopMeansStopped
PROPERTIES Delivered DequeueEnds OverdueReported FragsAnswered Recovers FollowsCluster ShutdownCompletes
CHECK_DEADLOCK FALSE
