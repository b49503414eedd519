CONSTANTS
  MaxMessages = 3
  MaxStreams = 4
SPECIFICATION Spec
INVARIANTS OneAnswerAtATime InputClosedUntilPause ScreenIsConversation
PROPERTY ResponseEnds
CHECK_DEADLOCK FALSE
