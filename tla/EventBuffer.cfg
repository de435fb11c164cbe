SPECIFICATION BufferSpec
CONSTANTS
  flushSize = 1
  totalBufferItems = 3
  maxBufferCapacityBytes = 15
  retryCountLimit = 2
  HeadSize = 1
  Sizes = {1, 2}
  Browsers = {"firefox", "other"}
  MaxEvents = 4
INVARIANTS BufferTypeOK ConservedInOrder
PROPERTIES BufferDrains
CHECK_DEADLOCK FALSE
