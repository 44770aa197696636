\* Three shapes a stream, two frames queued, a counter of two bits, every way of
\* watching that the default reset does not break.
SPECIFICATION Spec
CONSTANTS
  Shapes <- MCShapes
  Containers <- MCContainers
  Setups <- MCSetups
  Unset = Unset
  None = None
  AudioCodec = AudioCodec
  VideoCodec = VideoCodec
  U16Max = 8
  GenMod = 4
  MaxQueued = 2
  MaxResets = 1
INVARIANTS
  StreamDescribesFrame
  LayoutConsistent
  FieldsAccountedFor
PROPERTY ChangesReportedOnce
CHECK_DEADLOCK FALSE
