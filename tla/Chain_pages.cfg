SPECIFICATION Spec
CONSTANTS
  Unset = Unset
  ULONG = 16
  Crashed = Crashed
  Running = Running
  Roots = {1}
  Kids = {3}
  Daemons = {4}
  Lines <- mc_PageLines
  Names <- mc_Names
  Accounts <- mc_Accounts
  Inis <- mc_Inis
  Dirs <- mc_Dirs
  Edits <- mc_Edits
  Bin <- mc_Bin
  EditsWhileRead = FALSE
  MaxEdits = 0
  MaxFaults = 0
PROPERTY Promised
CHECK_DEADLOCK FALSE
