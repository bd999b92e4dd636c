\* Three files opened and closed at once, one thread.
SPECIFICATION Spec
CONSTANTS
  Files = {f1, f2, f3}
  Threads = {t1}
  FifoSize = 1
  MaxBytes = 1
  NoFile = NoFile
SYMMETRY Symmetric
INVARIANTS ClockBalanced ClockedAccess ReceiverStaysOn
