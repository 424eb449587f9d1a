SPECIFICATION Spec
CONSTANTS
  Names = {n1, n2}
  Dirs = {d1, d2}
  NoDir = NoDir
  Logged = {d1}
  logdir = NoName
  NoName = NoName
  Pids = {p1, p2, p3}
  NoPid = NoPid
  Pipes = {q1, q2}
  NoPipe = NoPipe
  SERVICES = 2
  MaxEdits = 0
  MaxFailures = 1
  Changes = {"appear", "vanish", "replace"}
INVARIANTS RunsForever
