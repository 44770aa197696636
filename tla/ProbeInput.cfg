\* A buffer of three bytes, inputs of up to five.
SPECIFICATION Spec
CONSTANTS
  Lengths = {0, 1, 2, 3, 5}
  BufSize = 3
  MaxInterrupts = 1
  Registries <- MCRegistries
  Names = {"raw", "matroska"}
  Factories = {}
  Extensions <- MCExtensions
  Lower <- MCLower
  Inputs = {0, 1, 2, 3}
  Probes = {}
  Priorities = {100}
INVARIANTS
  CursorRestored
  ChunkingInvisible
PROPERTY ProbeReturns
CHECK_DEADLOCK FALSE
