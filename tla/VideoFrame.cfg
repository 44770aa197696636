\* Two starting frames and any five calls on one of them.
SPECIFICATION Spec
CONSTANTS
  WireLen = 2
  Frames <- MCFrames
  Attachable <- MCAttachable
  PaletteSizes = {0, 1}
  BlobValues = {4}
  MaxCalls = 5
  Indices = {0, 1}
PROPERTIES
  OthersKept
  ImplementsRecords
CHECK_DEADLOCK FALSE
