CONSTANTS
  Rounds = 30
  Interval = 1
  Timeout = 30
  CallTimes = {0, 1, 29, 30}
  LandTimes = {0, 1, 29, 30, 31, 60, 929, 930, 931}
SPECIFICATION Spec
INVARIANTS PollsForHalfAMinute
