SPECIFICATION Spec
CONSTANTS
  Workers = {w1, w2}
  LastSlot = 2
  Behaviours <- MCFew
  ArenaSize = 2
  CycleCap = 3
  MinN = 2
  Room = 5
  Modes <- MCModes
  MaxCalls = 2
INVARIANTS MailIsEnd
CHECK_DEADLOCK FALSE
