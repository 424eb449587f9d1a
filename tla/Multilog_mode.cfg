SPECIFICATION Spec
CONSTANTS
  Chars = {"a", "b", "nl"}
  nl = "nl"
  MAXLINE = 2
  ReadSize = 3
  LogSize = 2
  Script <- MCSimpleFirst
  Signals = {}
  MaxInput = 5
  MayFailRead = FALSE
INVARIANTS LogsLines
CHECK_DEADLOCK FALSE
