SPECIFICATION Spec
CONSTANTS
  Chars = {"a", "b", "nl"}
  nl = "nl"
  MAXLINE = 2
  ReadSize = 3
  LogSize = 2
  Script <- MCScript
  Signals = {}
  MaxInput = 5
  MayFailRead = FALSE
INVARIANTS StatusLast
CHECK_DEADLOCK FALSE
