SPECIFICATION Spec
CONSTANTS
  Pids = {p1, p2}
  NoPid = NoPid
  Layouts <- mc_Scripts
  Requests <- mc_Starts
  Handled = {}
  Outcomes = {"zero", "signal"}
  FifoSize = 6
  MaxWrites = 2
  ForkMayFail = TRUE
  MayEdit = FALSE
SYMMETRY PidSymmetry
PROPERTIES NoStartWhenDown
