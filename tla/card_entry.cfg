SPECIFICATION Spec
CONSTANTS
  a = a
  b = b
  Nul = nul
  Glyphs <- MCGlyphs
  Tables <- MCTables
  Windows = {3, 4}
  Cols = 4
  MenuRow = 2
  Limit = 3
  Full = 2
  Blink = 2
  Pulse = 3
  Opening <- MCOpening
INVARIANTS TypeOK CursorInText
PROPERTY FieldSpec
