\* Two processes, two pages of two bytes.
SPECIFICATION Spec
CONSTANTS
  Procs = {p1, p2}
  Size = 4
  PageSize = 2
  AddressSpace = 8
  UIntMod = 16
  MaxCount = 3
  Nobody = Nobody
INVARIANTS TypeOK TransfersExclude ContentsAsWrittenInOnePiece
PROPERTIES OwnCycleIsOver PositionFollowsCount CallsReturn
