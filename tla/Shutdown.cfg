SPECIFICATION FairShutdown
CONSTANTS
  Pids = {p1, p2}
  NoPid = NoPid
  Layouts <- mc_NoStop
  Requests <- mc_Late
  Handled = {}
  Outcomes = {"hundred"}
  FifoSize = 3
  MaxWrites = 1
  ForkMayFail = FALSE
  MayEdit = FALSE
PROPERTIES ShutsDown
