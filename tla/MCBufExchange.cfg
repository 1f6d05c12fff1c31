SPECIFICATION FairSpec
CONSTANTS
  Message <- MCMessage
  DataSize <- MCDataSize
  Inline <- MCInline
  HeaderSize = 3
  MaxRamSize = 3
  WindowSizes = {2, 3, 5}
  MaxMessages = 3
  Faults = TRUE
  Unset = Unset
INVARIANTS
  TypeOK
  InStep
  AssertsHold
PROPERTIES
  ImplementsChannel
  EventuallyLoaded
