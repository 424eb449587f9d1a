SPECIFICATION Spec
CONSTANTS
  Names = {n1, n2}
  Dirs = {d1, d2}
  NoDir = NoDir
  Logged = {d1}
  logdir = n1
  NoName = NoName
  Pids = {p1, p2}
  NoPid = NoPid
  Pipes = {q1, q2}
  NoPipe = NoPipe
  SERVICES = 2
  MaxEdits = 2
  MaxFailures = 0
  Changes = {"appear", "vanish", "replace"}
INVARIANTS ExitsLastOfAll SoleReader PairServes
