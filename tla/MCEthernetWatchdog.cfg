\* One monitor and one other program that asks for restarts.
SPECIFICATION SystemSpec
CONSTANTS
  Monitors = {m1}
  Rivals = {r1}
  Threshold = 2
  SeqMod = 2
  CarrierStates = {"unavailable", "down", "up"}
  AddressStates = {TRUE, FALSE}
  PathStates = {TRUE, FALSE}
  OtherIds = {o1}
  NoPacket = NoPacket
  Foreign = Foreign
INVARIANTS TypeOK
PROPERTIES RestartsFounded OkMeansAnswered DeadPathIsRestarted SomebodyIsServed DownIsNotReported
