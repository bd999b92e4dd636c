\* One monitor whose requests the driver may reject.
SPECIFICATION Spec
CONSTANTS
  Monitors = {m1}
  Threshold = 2
  SeqMod = 2
  CarrierStates = {"up"}
  AddressStates = {TRUE}
  PathStates = {TRUE}
  OtherIds = {}
  NoPacket = NoPacket
  Foreign = Foreign
PROPERTIES FailedRequestIsPrinted
