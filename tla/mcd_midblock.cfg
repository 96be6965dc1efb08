SPECIFICATION Spec
CONSTANTS
  Entries = 4
  Names = {n1, n2}
  Versions = {v1}
  NoName = none
  Erased = erased
  Bodies <- MCBodies
PROPERTY WrittenReadsBack
