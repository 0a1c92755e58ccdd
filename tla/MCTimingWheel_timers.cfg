CONSTANTS
  Min = 3
  Hour = 9
  Day = 18
  Days = 1
  Timers <- MCTimers
  Kind <- MCKind
  Conditional <- MCConditional
  Delay <- MCDelay
  Second = 2
  MaxNow = 13
SPECIFICATION WheelSpec
CHECK_DEADLOCK FALSE
INVARIANTS Inv NotOverdue PendingIffReferenced
PROPERTIES NeverTooEarly
