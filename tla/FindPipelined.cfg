SPECIFICATION FairSpec
CONSTANTS
  Scripts <- WordScripts
  MaxCommands = 2
  LineBufSize = 7
  BucketBufSize = 3
  WordLen = 2
  JobLen = 2
PROPERTIES
  EveryCommandAnswered
CHECK_DEADLOCK FALSE
