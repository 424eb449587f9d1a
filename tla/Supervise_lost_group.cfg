SPECIFICATION FairSpec
CONSTANTS
  Pids = {p1, p2}
  NoPid = NoPid
  Layouts <- mc_NoSetsid
  Requests <- mc_Group_r
  Handled = {}
  Outcomes = {"zero", "signal"}
  FifoSize = 6
  MaxWrites = 1
  ForkMayFail = FALSE
  MayEdit = FALSE
PROPERTIES DownStops
