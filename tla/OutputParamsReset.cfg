\* The default reset forgets the event a consumer of events waits for.
SPECIFICATION Spec
CONSTANTS
  Shapes <- MCShapes
  Containers <- MCContainers
  Setups <- EventsThroughDefaultReset
  Unset = Unset
  None = None
  AudioCodec = AudioCodec
  VideoCodec = VideoCodec
  U16Max = 8
  GenMod = 4
  MaxQueued = 2
  MaxResets = 1
INVARIANT StreamDescribesFrame
CHECK_DEADLOCK FALSE
