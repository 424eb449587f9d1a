SPECIFICATION FairSpec
CONSTANTS
  Pids = {p1, p2}
  NoPid = NoPid
  Layouts <- mc_Logged
  Requests <- mc_dx
  Handled = {}
  Outcomes = {"zero", "hundred"}
  FifoSize = 6
  MaxWrites = 1
  ForkMayFail = FALSE
  MayEdit = FALSE
PROPERTIES ExitHappens
