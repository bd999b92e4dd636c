\* Two writers that open, write and close while the module is loaded, fails to
\* load, is unloaded and is loaded again, and cooldown_ms is changed.
SPECIFICATION ModuleSpec
CONSTANTS
  Writers = {w1, w2}
  IfIndexes = {1}
  Cooldowns = {1, 2}
  InitialJiffies = 2
  MaxJiffies = 3
INVARIANTS ModuleTypeOK NothingOutlivesModule ResourcesNested
PROPERTIES UnloadCompletes AcceptedIsCarriedOut FlagIsReleased
