SPECIFICATION FairShutdown
CONSTANTS
  Pids = {p1}
  NoPid = NoPid
  Layouts <- mc_Stop
  Requests <- mc_Late
  Handled = {}
  Outcomes = {"zero", "other"}
  FifoSize = 3
  MaxWrites = 0
  ForkMayFail = FALSE
  MayEdit = FALSE
PROPERTIES ShutsDown
