CONSTANTS
  Vols <- MCVols
  MaxRuns = 2
  Containers <- MCContainers
  Word <- MCWord
  OvlBase <- MCOvlBase
  DiscEnd <- MCDiscEnd
  Archives <- MCArchives
  JoinCap = 1048576
  OvlCap = 524288
  MaxMembers = 3
  Texts <- MCTexts
SPECIFICATION SystemSpec
INVARIANTS TypeOK WindowOwned PartsInOrder SlotsWhole HandlesOwned MembersWhole ContentsFound
