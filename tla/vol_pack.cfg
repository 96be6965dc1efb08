CONSTANTS
  Volumes <- MCVolumes
  RepLists <- MCRepLists
  Table = 1
  W = 64
  PackMaxFile = 16
  SpotMin = 7
  SlotOff = 8
  Paths <- MCPaths
  Hash <- MCHash
  CarCap = 4
  MapCap = 4
  FlatFirst = 2
  Short <- MCShort
  SectorCells = 4
  Digit <- MCDigit
  Skip <- MCSkip
SPECIFICATION Spec
INVARIANTS TypeOK Owned InBlob PathsRead TablesName
PROPERTY ExtentSpec
