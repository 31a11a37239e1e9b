CONSTANTS
  a = a
  b = b
  Byte <- MCByte
  capacity = 3
  Parked = Parked
  MaxCall = 4
  MinWrite = 1
SPECIFICATION Spec
INVARIANT TypeOK
PROPERTY IsFifo
