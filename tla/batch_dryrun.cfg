SPECIFICATION Spec
CONSTANTS
  Workers = {w1, w2}
  LastSlot = 2
  Behaviours <- MCFew
  ArenaSize = 2
  CycleCap = 3
  MinN = 2
  Room = 5
  Modes <- MCDryRun
  MaxCalls = 1
PROPERTY FallbackStoresNothing
