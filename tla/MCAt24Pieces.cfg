\* One process whose write spans two pages.
SPECIFICATION Spec
CONSTANTS
  Procs = {p1}
  Size = 4
  PageSize = 2
  AddressSpace = 8
  UIntMod = 16
  MaxCount = 3
  Nobody = Nobody
INVARIANTS ContentsAsWritten
