SPECIFICATION Spec
CONSTANTS
  Unset = Unset
  ULONG = 16
  Crashed = Crashed
  Running = Running
  Roots = {1, 2}
  Kids = {3}
  Daemons = {4}
  Lines <- mc_Lines
  Names <- mc_Names
  Accounts <- mc_Accounts
  Inis <- mc_Inis
  Dirs <- mc_Dirs
  Edits <- mc_Edits
  Bin <- mc_Bin
  EditsWhileRead = FALSE
  MaxEdits = 1
  MaxFaults = 1
INVARIANTS OneHolder FghackLast
PROPERTIES PromisedElse LinesEnd
CHECK_DEADLOCK FALSE
