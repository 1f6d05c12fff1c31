SPECIFICATION FairSpec
CONSTANTS
  Message <- MCMessage
  DataSize <- MCDataSize
  HeaderSize = 2
  MaxRamSize = 2
  Capacity = 3
  MaxMessages = 3
  Faults = TRUE
  Unset = Unset
INVARIANTS
  TypeOK
  DeliveredInOrder
  ReaderAligned
  AssertsHold
  TransferInv
PROPERTIES
  ImplementsChannel
  EventuallyDelivered
