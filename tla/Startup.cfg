SPECIFICATION FairSpec
CONSTANTS
  Supervises = {s1, s2}
  Clients = {c1, c2}
  Readers = {r1}
  MaxDeaths = 2
INVARIANTS OkMeansReady
PROPERTIES CommandsRead Recovers
