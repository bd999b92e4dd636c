\* Two writers, two interfaces; every interleaving of two write() calls and the
\* worker, with room for two requests that the cooldown lets through.
SPECIFICATION Spec
CONSTANTS
  Writers = {w1, w2}
  IfIndexes = {0, 1, 2}
  Cooldowns = {1, 2}
  InitialJiffies = 2
  MaxJiffies = 3
SYMMETRY Symmetric
INVARIANTS TypeOK SingleFlight NoUseAfterFree
PROPERTIES CooldownBetweenSequentialWrites ImplementsService
