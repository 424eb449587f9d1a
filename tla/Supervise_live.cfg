SPECIFICATION FairSpec
CONSTANTS
  Pids = {p1, p2}
  NoPid = NoPid
  Layouts <- mc_Live
  Requests <- mc_Live_r
  Handled = {"TERM"}
  Outcomes = {"zero", "hundred"}
  FifoSize = 6
  MaxWrites = 2
  ForkMayFail = FALSE
  MayEdit = FALSE
PROPERTIES WantedUpRuns ZombiesReaped DownStops ExitsOrRests
