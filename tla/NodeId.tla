------------------------------- MODULE NodeId -------------------------------
(***************************************************************************)
(* The arithmetic of NodeID (node_id.h): numbers of Length bytes, the most *)
(* significant first.  The loops run from the last byte to the first and   *)
(* hand a carry on; here the carries are functions of the byte's index.    *)
(* A byte has Bits bits, 8 in the code.                                    *)
(***************************************************************************)
EXTENDS Integers

CONSTANTS
  Length,  \* NODE_ID_LENGTH_BYTES
  Bits     \* width of a byte

ASSUME NodeIdAssumption == Length \in Nat \ {0} /\ Bits \in Nat \ {0}

\* b to the power n, as a recursive function; the operator ^ is out of the provers' reach.
Power(b) == LET p[n \in Nat] == IF n = 0 THEN 1 ELSE b * p[n - 1] IN p

Base == Power(2)[Bits]
Index == 0 .. Length - 1
NodeID == [Index -> 0 .. Base - 1]

VARIABLES
  id,     \* an id, changed in place by the assignment operators
  was,    \* its value before the last of them ...
  op,     \* ... which was this operator ...
  arg     \* ... with this argument

vars == <<id, was, op, arg>>

\* The number that the bytes of an id stand for, up to each of them, and that of all.
Leading(x) == LET v[i \in Index] == x[i] + (IF i = 0 THEN 0 ELSE Base * v[i - 1]) IN v
Value(x) == Leading(x)[Length - 1]
Modulus == Power(Base)[Length]

NullNodeID == [i \in Index |-> 0]
MaxNodeID == [i \in Index |-> Base - 1]

\* operator<: the first byte that differs decides.
Less(x, y) == \E i \in Index : x[i] < y[i] /\ \A j \in 0 .. i - 1 : x[j] = y[j]

-----------------------------------------------------------------------------
(* The operators                                                           *)

\* The carry into each byte of a sum.
Carry(x, y) ==
  LET a[i \in Index] ==
        IF i = Length - 1 THEN 0 ELSE (x[i + 1] + y[i + 1] + a[i + 1]) \div Base
  IN  a

Plus(x, y) == [i \in Index |-> (x[i] + y[i] + Carry(x, y)[i]) % Base]

\* What operator+=(unsigned int) has left of d at each byte (d >>= 8), and the bytes it adds.
Rest(d) ==
  LET r[i \in Index] == IF i = Length - 1 THEN d ELSE r[i + 1] \div Base
  IN  r

BytesOf(d) == [i \in Index |-> Rest(d)[i] % Base]

\* The borrow into each byte of a difference: s exceeds the byte.
Borrow(x, y) ==
  LET a[i \in Index] ==
        IF i = Length - 1 THEN 0 ELSE IF x[i + 1] < y[i + 1] + a[i + 1] THEN 1 ELSE 0
  IN  a

\* Mutant of Minus: the borrow is lost.
MinusBytewise(x, y) == [i \in Index |-> (x[i] + Base - y[i]) % Base]

Minus(x, y) ==
  [i \in Index |-> LET s == y[i] + Borrow(x, y)[i] IN
                   IF x[i] < s THEN x[i] + Base - s ELSE x[i] - s]

\* Mutant of ShiftRight: the bits that leave a byte are lost.
ShiftBytewise(x, f) ==
  [i \in Index |-> IF i < f \div Bits THEN x[i] ELSE x[i - f \div Bits] \div Power(2)[f % Bits]]

\* Whole bytes move by o, then bits by bts.  The first o bytes are not written.
ShiftRight(x, f) ==
  LET o == f \div Bits
      bts == f % Bits
  IN  [i \in Index |->
         IF i < o THEN x[i]
         ELSE IF i = o THEN x[0] \div Power(2)[bts]
         ELSE (x[i - o] \div Power(2)[bts]) + ((x[i - o - 1] * Power(2)[Bits - bts]) % Base)]

\* The exclusive or of two bytes, from their upper bits on.
ByteXor(a, b) ==
  LET bit(c, k) == (c \div Power(2)[Bits - k]) % 2
      upper[k \in 0 .. Bits] ==
        IF k = 0 THEN 0 ELSE 2 * upper[k - 1] + (IF bit(a, k) = bit(b, k) THEN 0 ELSE 1)
  IN  upper[Bits]

\* Mutant of ExclusiveOr: the last byte is left out.
ExclusiveOrButLast(x, y) == [i \in Index |-> IF i < Length - 1 THEN ByteXor(x[i], y[i]) ELSE x[i]]

ExclusiveOr(x, y) == [i \in Index |-> ByteXor(x[i], y[i])]

-----------------------------------------------------------------------------
(* The assignment operators                                                *)

Assign(o, a, x) ==
  /\ id' = x
  /\ was' = id
  /\ op' = o
  /\ arg' = a

PlusAssign(y) == Assign("+=", Value(y), Plus(id, y))
PlusAssignInt(d) == Assign("+=", d, Plus(id, BytesOf(d)))
MinusAssign(y) == Assign("-=", Value(y), Minus(id, y))
ShiftAssign(f) == Assign(">>=", f, ShiftRight(id, f))
XorAssign(y) == Assign("^=", Value(y), ExclusiveOr(id, y))

Init ==
  /\ id \in {NullNodeID, MaxNodeID}
  /\ was = id
  /\ op = "="
  /\ arg = 0

\* An int has more bytes than one; a shift by Bits * Length would write past the
\* end of the id.
Next ==
  \/ \E y \in NodeID : PlusAssign(y) \/ MinusAssign(y) \/ XorAssign(y)
  \/ \E d \in 0 .. 2 * Base : PlusAssignInt(d)
  \/ \E f \in 0 .. Bits * Length - 1 : ShiftAssign(f)

Spec == Init /\ [][Next]_vars

-----------------------------------------------------------------------------
\* What a shift writes: the id without its first o bytes.
Written(x, o) == [i \in Index |-> IF i < o THEN 0 ELSE x[i]]

\* The carries make the sum and the difference those of the numbers, which wrap at
\* the ends of the id space: the bounds of the buckets are computed so.  A shift divides,
\* by any number of bits, as far as it writes; but for every whole byte that it moves
\* the id by, one of the first bytes stays as it was.
ArithmeticIsModular ==
  /\ op = "+=" => Value(id) = (Value(was) + arg) % Modulus
  /\ op = "-=" => Value(id) = (Value(was) - arg) % Modulus
  /\ op = ">>=" =>
       /\ Value(Written(id, arg \div Bits)) = Value(was) \div Power(2)[arg]
       /\ \A i \in Index : i < arg \div Bits => id[i] = was[i]

\* The distance of two ids is the same from both and zero if they are one, two distances to an
\* id agree in their upper bits exactly if the ids do, all bits included, and comparing
\* distances byte by byte orders them as numbers: what every other part assumes of Dist.
XorIsADistance ==
  op = "^=" =>
    /\ Value(id) = 0 <=> Value(was) = arg
    /\ \A y \in NodeID :
         /\ Value(y) = arg => ExclusiveOr(y, was) = id
         /\ Less(id, y) <=> Value(id) < Value(y)
         /\ LET d == Value(ExclusiveOr(was, y)) IN
              \A n \in 0 .. Bits * Length :
                d \div Power(2)[n] = Value(id) \div Power(2)[n]
                  <=> Value(y) \div Power(2)[n] = arg \div Power(2)[n]
=============================================================================
