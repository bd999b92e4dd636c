\* Two programs and the timer example.
CHECK_DEADLOCK FALSE
SPECIFICATION Spec
CONSTANTS
  Procs = {p1, p2}
  p1 = p1
  p2 = p2
  Drivers <- MCTimerDriver
  Periods <- MCPeriods
  DefaultPeriod = 2
  MaxEnables = 3
INVARIANTS
  ClosedStaysClosed
