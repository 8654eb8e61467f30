CONSTANTS
  Ticks = 8
  Intervals = {0, 1, 2, 3, 7}
  Never = Never
  MaxTime = 24
SPECIFICATION TimerSpec
CHECK_DEADLOCK FALSE
INVARIANT RemainingIsTrue
