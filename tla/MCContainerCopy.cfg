\* After MaxUploads uploads and no object left to emplace the program is done.
CHECK_DEADLOCK FALSE
SPECIFICATION FairSpec
CONSTANTS
  Node <- MCNode
  Root = "root"
  Kind <- MCKind
  DataSize <- MCDataSize
  InitKids <- MCKids
  Spare = {"box", "empty"}
  HeaderSize = 2
  ParamSize = 1
  Midway = TRUE
  Faults = TRUE
  MaxUploads = 2
INVARIANTS
  TypeOK
  ParsesBack
  OnePath
  AssertsHold
PROPERTIES
  ImplementsUpload
  EventuallyReady
