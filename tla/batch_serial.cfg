SPECIFICATION Spec
CONSTANTS
  Workers = {w1, w2}
  LastSlot = 3
  Behaviours <- MCScenes
  ArenaSize = 2
  CycleCap = 3
  MinN = 2
  Room = 5
  Modes <- MCPlain
  MaxCalls = 1
INVARIANTS TypeOK ArenasPrivate
PROPERTIES SerialSpec CallsReturn
