SPECIFICATION Spec
CONSTANTS
  Inodes <- MCInodes
  NoInode = NoInode
  Size = 3
  Margin = 1
  Num = 2
  Chunk = 2
  Newlines <- MCNewlines
  Scripts <- MCScripts
  MaxInput = 6
  MaxCrashes = 0
  MaxFailures = 1
  MaxAlarms = 0
INVARIANTS CodesKnown
CHECK_DEADLOCK FALSE
