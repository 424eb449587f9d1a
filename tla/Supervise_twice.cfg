SPECIFICATION Spec
CONSTANTS
  Pids = {p1, p2}
  NoPid = NoPid
  Layouts <- mc_Scripts
  Requests <- mc_Starts
  Handled = {}
  Outcomes = {"zero", "signal"}
  FifoSize = 6
  MaxWrites = 3
  ForkMayFail = FALSE
  MayEdit = FALSE
SYMMETRY PidSymmetry
\* PROPERTIES StopOnce instead of it fails as well
INVARIANTS StopAfterRun
