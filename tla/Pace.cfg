SPECIFICATION Spec
CONSTANTS
  Word = 20000
  Epoch = 5
  Millis = 2
  Milli = 2
  Longest = 1
  Slack = 2
  Pause = 1
  ForkPause = 2
  Turn = 2
  Clock0 = 7
  Jumps <- mc_Jumps
  MaxReal = 12
  MaxClock = 24
  MaxJumps = 1
INVARIANTS Paced SleepsAsAsked AgeRight
CHECK_DEADLOCK FALSE
