\* Every way of writing up to ten bits and of reading them back.  An
\* accumulator holds six: a reader refills with bits still in hand and bytes
\* left that do not fit.
SPECIFICATION Spec
CONSTANTS
  ByteBits = 2
  AccBits = 6
  MaxCall = 4
  Strings <- MCStrings
  Lengths = {0, 1, 3, 5}
  MaxBits = 10
PROPERTY ImplementsStream
