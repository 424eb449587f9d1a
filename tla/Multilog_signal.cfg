SPECIFICATION Spec
CONSTANTS
  Chars = {"a", "b", "nl"}
  nl = "nl"
  MAXLINE = 2
  ReadSize = 3
  LogSize = 2
  Script <- MCScript
  Signals = {"TERM"}
  MaxInput = 5
  MayFailRead = FALSE
INVARIANTS SignalHeard
CHECK_DEADLOCK FALSE
