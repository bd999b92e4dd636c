\* Two readers and a second open.
SPECIFICATION Spec
CONSTANTS
  Files = {f1, f2}
  Threads = {t1, t2}
  FifoSize = 1
  MaxBytes = 2
  NoFile = NoFile
INVARIANTS ReadersExclude
