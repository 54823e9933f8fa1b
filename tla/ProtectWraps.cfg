SPECIFICATION Spec
CONSTANTS
  Slots = {s1}
  Opcodes = {op}
  Entries = 2
  Bits = 2
  Narrow = 4
  Unit = 2
  MaxSize = 16
  Buses = {0, 1}
  Addresses = 2
INVARIANT Protected
