SPECIFICATION FairSpec
CONSTANTS
  Pids = {p1, p2}
  NoPid = NoPid
  Layouts <- mc_All
  Requests <- mc_Exit_r
  Handled = {}
  Outcomes = {"zero"}
  FifoSize = 6
  MaxWrites = 2
  ForkMayFail = FALSE
  MayEdit = FALSE
PROPERTIES ExitHappens
