\* Six packets of a publisher that restarts twice.
CONSTANTS
  VideoSteps = {40, 80}
  AudioSteps = {20}
  Skew = 60
  Clocks = {0, 79, 5000}
  MaxRestarts = 2
  MaxHeaders = 2
  MaxPackets = 6
SPECIFICATION LiveSpec
CHECK_DEADLOCK FALSE
INVARIANTS Together HeaderInForce MetaUnderstood
PROPERTIES SmallSteps
