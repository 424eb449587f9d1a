SPECIFICATION Spec
CONSTANTS
  Pids = {p1, p2}
  NoPid = NoPid
  Layouts <- mc_Forks
  Requests <- mc_Log_r
  Handled = {"TERM"}
  Outcomes = {"zero", "hundred"}
  FifoSize = 6
  MaxWrites = 3
  ForkMayFail = TRUE
  MayEdit = FALSE
SYMMETRY PidSymmetry
INVARIANTS NotifyNamesScript Tracked StatusCurrent
PROPERTIES SvcOnTarget LoggerOutlivesRun LogLives
