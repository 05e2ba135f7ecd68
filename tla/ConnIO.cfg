SPECIFICATION FairSpec
CONSTANTS
  Scripts <- AllScripts
  MaxCommands = 3
  LineBufSize = 7
  BucketBufSize = 3
  WordLen = 2
  JobLen = 2
INVARIANTS
  TypeOK
  CommandsInOrder
  StrayLines
  BodyExact
  OneReplyPerLine
  SentExactly
PROPERTIES
  ClosedByClient
  InputRead
CHECK_DEADLOCK FALSE
