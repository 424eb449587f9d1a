SPECIFICATION Spec
CONSTANTS
  Chars = {"a", "b", "nl"}
  nl = "nl"
  MAXLINE = 2
  ReadSize = 3
  LogSize = 2
  Script <- MCScript
  Signals = {"TERM", "ALRM"}
  MaxInput = 5
  MayFailRead = TRUE
INVARIANTS LogsLines ExitsAtLine
CHECK_DEADLOCK FALSE
