\* Half = 8 keeps the code's proportions: i64 is four bits wide, i128 eight.
\* usize is seven bits wide, so rows, planes and sums of planes overflow.  Three
\* calls on the bag of options or on the capabilities.
SPECIFICATION AnySpec
CONSTANTS
  Half = 8
  Terms <- MCTerms
  Values <- MCValues
  Others <- MCOthers
  UsizeMax = 127
  U16Max = 12
  Sides <- MCSides
  Texts <- MCTexts
  Numbered <- MCNumbered
  Base = 4
  WordBytes = 1
  Layers <- MCLayers
  Blobs <- MCBlobs
  MaxBytes = 6
  WellKnown <- MCWellKnown
  Words <- MCWords
  MaxCalls = 3
  Keys <- MCKeys
  Raws <- MCRaws
  U32 <- MCU32
  I32 <- MCI32
  F32 <- MCF32
  Schema <- MCSchema
  Defaults <- MCDefaults
  Objects <- MCObjects
  Rates = {8, 11, 48}
  BlobKinds = {"icc", "exif"}
  Unset = Unset
INVARIANTS
  ExactOrNone
  ValueOrder
  RoundsToTick
  OrderKept
  RoundTrip
  SizesExact
  LabelsAgree
  NamesIdentify
  WireRoundTrip
  OptionsAsStated
  RateKeepsBandwidth
CHECK_DEADLOCK FALSE
