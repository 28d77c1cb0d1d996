------------------------------- MODULE Digest -------------------------------
(***************************************************************************)
(* CSHA1 (SHA1.cpp), from which the ids and keys are made                  *)
(* (CalculateDigest).                                                      *)
(*                                                                         *)
(* A message is handed over in pieces.  Update keeps what does not fill a  *)
(* block in a buffer and counts the bits in two words; Final appends the   *)
(* end mark, zeros and that count.  What Transform makes of a block is not *)
(* looked at: the state is the sequence of the blocks it was given.        *)
(*                                                                         *)
(* Each round of Final's loop is a step.                                   *)
(***************************************************************************)
EXTENDS Integers, Sequences, SequencesExt

CONSTANTS
  Shift,       \* a byte has 2^Shift bits: 3 in the code
  WordBits,    \* width of an UINT_32
  BlockBytes,  \* 64
  Piece,       \* the lengths of the pieces handed over
  MaxLength,   \* bound: the length of a message
  MaxMessages  \* bound: messages of a history

ByteBits == 2 ^ Shift
ByteBase == 2 ^ ByteBits
Word == 2 ^ WordBits
WordBytes == WordBits \div ByteBits

\* The sums of lengths in Update do not wrap, and the count of bits says how far the
\* buffer is filled.
ASSUME DigestAssumption ==
  /\ Shift \in Nat /\ WordBits \in Nat /\ BlockBytes \in Nat
  /\ WordBytes \in Nat \ {0} /\ WordBits = WordBytes * ByteBits
  /\ BlockBytes > 2 * WordBytes
  /\ Word % (BlockBytes * ByteBits) = 0
  /\ Piece \subseteq 0 .. Word - BlockBytes
  /\ MaxLength \in Nat /\ MaxMessages \in Nat

VARIABLES
  m_state,     \* what Transform was given, after what it started from
  m_count,     \* bits: the low word and the high word
  m_buffer,
  m_digest,
  finalcount,  \* of Final
  stage,       \* "open", "padding" in the loop of Final, "done" after it
  message,     \* the bytes handed over
  messages     \* so far, this one included

hash == <<m_state, m_count, m_buffer>>
vars == <<hash, m_digest, finalcount, stage, message, messages>>

\* A byte is a number or one of the bytes of a message, whatever its value; those of
\* the buffer before it is first filled are of no message.
Byte(v) == <<"number", v>>
DataByte(m, k) == <<"data", m, k>>
Zeros(n) == [k \in 1 .. n |-> Byte(0)]
EndMark == Byte(ByteBase \div 2)

Fresh == <<0, 0>>

Init ==
  /\ m_state = <<"initial">>
  /\ m_count = Fresh
  /\ m_buffer = [k \in 1 .. BlockBytes |-> DataByte(0, k)]
  /\ m_digest = <<>>
  /\ finalcount = <<>>
  /\ stage = "open"
  /\ message = <<>>
  /\ messages = 1

Reset ==
  /\ messages < MaxMessages
  /\ m_state' = <<"initial">>
  /\ m_count' = Fresh
  /\ stage' = "open"
  /\ message' = <<>>
  /\ messages' = messages + 1
  /\ UNCHANGED <<m_buffer, m_digest, finalcount>>

Transform(state, block) == Append(state, block)

\* The part of d after its first i bytes.
From(d, i) == SubSeq(d, i + 1, Len(d))

\* As many whole blocks as d has.
Blocks(d) == [k \in 1 .. Len(d) \div BlockBytes |-> SubSeq(d, (k - 1) * BlockBytes + 1, k * BlockBytes)]

\* d over what b holds from its j-th byte on.
CopyAt(b, j, d) == [k \in 1 .. BlockBytes |-> IF k > j /\ k <= j + Len(d) THEN d[k - j] ELSE b[k]]

\* Mutant of Count: the low word does not carry.
CountLow(count, uLen) ==
  <<(count[1] + uLen * ByteBits) % Word, (count[2] + uLen \div 2 ^ (WordBits - Shift)) % Word>>

\* The low word has overflowed if it is less than what was added.
Count(count, uLen) ==
  LET bits == (uLen * ByteBits) % Word
      low == (count[1] + bits) % Word
      carry == IF low < bits THEN 1 ELSE 0
  IN  <<low, (count[2] + carry + uLen \div 2 ^ (WordBits - Shift)) % Word>>

\* The bytes in the buffer.
Buffered == (m_count[1] \div ByteBits) % BlockBytes

\* Update, with the bytes d.
Update(d) ==
  LET j == Buffered
      i == BlockBytes - j
      filled == CopyAt(m_buffer, j, SubSeq(d, 1, i))
      rest == From(d, i)
      whole == Blocks(rest)
  IN  /\ m_count' = Count(m_count, Len(d))
      /\ IF j + Len(d) >= BlockBytes
           THEN /\ m_state' = FoldLeft(Transform, Transform(m_state, filled), whole)
                /\ m_buffer' = CopyAt(filled, 0, From(rest, Len(whole) * BlockBytes))
           ELSE /\ m_buffer' = CopyAt(m_buffer, j, d)
                /\ UNCHANGED m_state

\* CalculateDigest hands over the whole message, HashFile piece by piece.
UpdatePiece(uLen) ==
  LET d == [k \in 1 .. uLen |-> DataByte(messages, Len(message) + k)]
  IN  /\ stage = "open"
      /\ Len(message) + uLen <= MaxLength
      /\ Update(d)
      /\ message' = message \o d
      /\ UNCHANGED <<m_digest, finalcount, stage, messages>>

-----------------------------------------------------------------------------
(* Final                                                                   *)

\* The bytes of both words, the high word and the high bytes first.
BigEndian(count) ==
  [k \in 1 .. 2 * WordBytes |->
     LET i == k - 1
         word == IF i >= WordBytes THEN count[1] ELSE count[2]
     IN  Byte((word \div ByteBase ^ (WordBytes - 1 - (i % WordBytes))) % ByteBase)]

\* Final begins.  The count is taken before the end mark is counted.
AppendEndMark ==
  /\ stage = "open"
  /\ finalcount' = BigEndian(m_count)
  /\ Update(<<EndMark>>)
  /\ stage' = "padding"
  /\ UNCHANGED <<m_digest, message, messages>>

\* (m_count[0] & 504) == 448: there is room for the count in the block, and no more.
IsPadded == m_count[1] % (BlockBytes * ByteBits) = (BlockBytes - 2 * WordBytes) * ByteBits

AppendZero ==
  /\ stage = "padding" /\ ~IsPadded
  /\ Update(Zeros(1))
  /\ UNCHANGED <<m_digest, finalcount, stage, message, messages>>

\* Final ends: the count completes a block.  The variables are wiped, and a block of
\* zeros is transformed.
AppendCount ==
  /\ stage = "padding" /\ IsPadded
  /\ m_digest' = Transform(m_state, CopyAt(m_buffer, Buffered, finalcount))
  /\ m_buffer' = Zeros(BlockBytes)
  /\ m_state' = Transform(<<"zero">>, Zeros(BlockBytes))
  /\ m_count' = Fresh
  /\ finalcount' = Zeros(2 * WordBytes)
  /\ stage' = "done"
  /\ UNCHANGED <<message, messages>>

\* GetHash, after Final.
GetHash == m_digest

Next ==
  \/ Reset
  \/ \E uLen \in Piece : UpdatePiece(uLen)
  \/ AppendEndMark \/ AppendZero \/ AppendCount

Spec == Init /\ [][Next]_vars

-----------------------------------------------------------------------------
(* What a digest is of                                                     *)

\* The length of the message in bits, as a number of two words.
Length(msg) ==
  LET bits == (Len(msg) * ByteBits) % (Word * Word)
  IN  [k \in 1 .. 2 * WordBytes |-> Byte((bits \div ByteBase ^ (2 * WordBytes - k)) % ByteBase)]

\* The message is padded to whole blocks, with as few zeros as possible.
Padded(msg) ==
  LET zeros == ((2 * BlockBytes - 1 - 2 * WordBytes) - (Len(msg) % BlockBytes)) % BlockBytes
  IN  msg \o <<EndMark>> \o Zeros(zeros) \o Length(msg)

\* The digest is that of the message and nothing else: the blocks transformed are
\* those of the padded message with its length, however it was cut into pieces and
\* whatever the buffer held before, and also when the low word of the count wraps.
DigestIsOfMessage ==
  stage = "done" => GetHash = <<"initial">> \o Blocks(Padded(message))
=============================================================================
