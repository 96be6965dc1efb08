CONSTANTS
  ArenaLen = 84
  MaxSets = 1
  Half = 16
  B8s = {9, 255}
  H2s = {40}
  X12s = {100, 128, 200, 40000, 65535}
  Stanzas <- MCShapes
  Sides = {1}
  ListAddr <- MCAddr
  H4 = 20
  H6 = 10
  H8 = 13107
  S4 = 100
  S6 = 50
  S7 = 32
SPECIFICATION Spec
INVARIANTS TypeOK Overhang
PROPERTIES TickListSpec Settles FadesOneWay
