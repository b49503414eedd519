CONSTANTS
  ChannelTypes = {"streams"}
  NumEvents = 3
  QueueSize = 2
  MaxFaults = 0
SPECIFICATION Safety
INVARIANT PastEventsAreRead
CHECK_DEADLOCK FALSE
