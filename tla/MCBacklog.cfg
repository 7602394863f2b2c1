SPECIFICATION Spec
CONSTANTS
  FirstSequence = 16777
  LastSequence = 16779
  MaxRound = 1
  Messages <- MCMessages
INVARIANTS
  TypeOK
  FutureIsKept
  ReadyIsPosted
CHECK_DEADLOCK FALSE
