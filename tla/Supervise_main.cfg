SPECIFICATION Spec
CONSTANTS
  Pids = {p1, p2}
  NoPid = NoPid
  Layouts <- mc_Main
  Requests <- mc_Main_r
  Handled = {"TERM", "TSTP", "CONT"}
  Outcomes = {"zero", "other", "hundred", "signal"}
  FifoSize = 6
  MaxWrites = 3
  ForkMayFail = FALSE
  MayEdit = TRUE
SYMMETRY PidSymmetry
INVARIANTS PausedMatches NoIdleWanted
PROPERTIES MainLives
