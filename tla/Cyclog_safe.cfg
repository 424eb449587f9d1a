SPECIFICATION Spec
CONSTANTS
  Inodes <- MCInodes
  NoInode = NoInode
  Size = 3
  Margin = 1
  Num = 2
  Chunk = 2
  Newlines <- MCNewlines
  Scripts <- MCScripts
  MaxInput = 6
  MaxCrashes = 2
  MaxFailures = 1
  MaxAlarms = 1
INVARIANTS NothingLost InOrder SafelyWritten ExecMeansSafe OldBounded AtLineEnd StateFollows
CHECK_DEADLOCK FALSE
