\* i64 is four bits wide, i128 eight; the other values play no part.
SPECIFICATION AnySpec
CONSTANTS
  Half = 8
  Terms <- MCTerms
  Values <- MCValues
  Others <- MCOthers
  UsizeMax = 127
  U16Max = 12
  Sides <- MCSides
  Texts <- MCTexts
  Numbered <- MCNumbered
  Base = 4
  WordBytes = 1
  Layers <- MCLayers
  Blobs <- MCBlobs
  MaxBytes = 6
  WellKnown <- MCWellKnown
  Words <- MCWords
  MaxCalls = 0
  Keys <- MCKeys
  Raws <- MCRaws
  U32 <- MCU32
  I32 <- MCI32
  F32 <- MCF32
  Schema <- MCSchema
  Defaults <- MCDefaults
  Objects <- MCObjects
  Rates = {8, 11, 48}
  BlobKinds = {"icc", "exif"}
  Unset = Unset
INVARIANT WideIsFarOutside
CHECK_DEADLOCK FALSE
