\* Two programs and each of the drivers; the thread example in all variants.
\* A module whose load failed half-way stops there, as far as the model goes.
CHECK_DEADLOCK FALSE
SPECIFICATION Spec
CONSTANTS
  Procs = {p1, p2}
  p1 = p1
  p2 = p2
  Drivers <- MCDrivers
  Periods <- MCPeriods
  DefaultPeriod = 2
  MaxEnables = 3
INVARIANTS
  TypeOK
  ExitLeavesOnlyNode
  OneFileUnlessEarly
  LedIsMine
  TimerGoneBeforeCode
  StructureOutlivesFiles
  PortReady
PROPERTIES
  BlinksUntilClosed
  OpenersServed
