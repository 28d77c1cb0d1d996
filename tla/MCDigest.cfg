\* Bytes of two bits, words of six, blocks of eight bytes: the low word wraps after
\* 32 bytes, within a piece or between two.
CONSTANTS
  Shift = 1
  WordBits = 6
  BlockBytes = 8
  Piece = {0, 1, 2, 7, 8, 9, 33, 34}
  MaxLength = 50
  MaxMessages = 2
SPECIFICATION Spec
CHECK_DEADLOCK FALSE
INVARIANTS
  DigestIsOfMessage
