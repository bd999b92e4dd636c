\* Two writers and a cooldown long enough that it cannot pass before the
\* clock stops: two accepted requests are one too many.
SPECIFICATION Spec
CONSTANTS
  Writers = {w1, w2}
  IfIndexes = {0, 1}
  Cooldowns = {2}
  InitialJiffies = 2
  MaxJiffies = 3
PROPERTIES MinimumInterval
