\* One file, two threads that read and write through it, a kfifo that fills up.
SPECIFICATION Spec
CONSTANTS
  Files = {f1}
  Threads = {t1, t2}
  FifoSize = 2
  MaxBytes = 3
  NoFile = NoFile
INVARIANTS TypeOK ReadersExclude HandlerHasFifo
PROPERTIES ReaderNotStranded ImplementsChannel
