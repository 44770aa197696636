\* Every sequence of up to four registration calls.
SPECIFICATION Spec
CONSTANTS
  MaxCalls = 4
  Infos <- MCInfos
  Ids = {"h264", "avc"}
  Spellings <- MCSpellings
  AsciiUpper <- MCAsciiUpper
  ClaimTags <- MCClaimTags
  ImplNames = {"h264", "avc", "hw"}
  Contexts <- MCContexts
  Payloads <- MCPayloads
  NoProbe = NoProbe
  NaN = NaN
  Names = {"mkv", "webm"}
  Factories = {"f"}
  Extensions = {"wav", "WAV"}
  Lower <- MCLower
  Inputs <- MCInputs
  Probes <- MCProbes
  Priorities = {100, 50}
  Schemes = {"file", "http", "HTTP", "c", "a_b"}
  AsciiLower <- MCAsciiLower
  Drives = {"c"}
  Malformed = {"a_b"}
  Uris <- MCUris
  Kinds = {"bytes", "packets"}
  FilterNames = {"blur", "v:blur", "video.v:blur"}
  StripPrefix <- MCStripPrefix
  FilterFactories = {"f", "g"}
INVARIANTS
  BestAnswer
  ListedOpens
PROPERTIES
  NewcomerOnly
  PlacesKept
CHECK_DEADLOCK FALSE
