CONSTANTS
  ChannelTypes = {"pubsub", "streams"}
  NumEvents = 4
  QueueSize = 2
  MaxFaults = 2
SPECIFICATION Spec
INVARIANTS StartedOnce GatedStartLosesOnlyDrops
PROPERTIES RunIsStarted StreamEnds
CHECK_DEADLOCK FALSE
