SPECIFICATION FileSpec
CONSTANTS
  Entries = 4
  Names = {n1, n2}
  Versions = {v1, v2}
  NoName = none
  Erased = erased
  Bodies <- MCBodies
INVARIANTS TypeOK FrameIsBlock ChainsDisjoint FilesWhole ChainsClimb
PROPERTIES OthersKept CardSpec
