\* Ids of three bytes of two bits.
CONSTANTS
  Length = 3
  Bits = 2
SPECIFICATION Spec
INVARIANTS
  ArithmeticIsModular
  XorIsADistance
