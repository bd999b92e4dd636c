--------------------------- MODULE MCExampleDrivers ---------------------------
(* The instance of ExampleDrivers for TLC: all drivers, one at a time.        *)
EXTENDS ExampleDrivers

MCDrivers == AllDrivers
MCTimerDriver == {"timer"}
MCPeriods == 0..2
==============================================================================
