-------------------------------- MODULE Codec -------------------------------
(***************************************************************************)
(* The numbers in a packet (class ustring of utils.cpp): big-endian        *)
(* integers of two, four and eight bytes, and the variable-length integer  *)
(* that counts the elements of a list: one byte, or a mark and an integer. *)
(* A byte has Base values, 256 in the code; the marks are the last three.  *)
(***************************************************************************)
EXTENDS Integers, Sequences

CONSTANT Base

ASSUME BaseAssumption == Base \in Nat /\ Base >= 4

\* What fits in two, four and eight bytes.
Max16 == Base * Base
Max32 == Max16 * Max16
Max64 == Max32 * Max32

\* appendInt8, 16, 32, 64: what they append for i, of which they keep the low bytes.
appendInt8(i) == <<i % Base>>
appendInt16(i) == appendInt8(i \div Base) \o appendInt8(i)
appendInt32(i) == appendInt16(i \div Max16) \o appendInt16(i)
appendInt64(i) == appendInt32(i \div Max32) \o appendInt32(i)

\* getInt8, 16, 32, 64: the number that starts at position i of the bytes b.
getInt8(b, i) == b[i]
getInt16(b, i) == getInt8(b, i) * Base + getInt8(b, i + 1)
getInt32(b, i) == getInt16(b, i) * Max16 + getInt16(b, i + 2)
getInt64(b, i) == getInt32(b, i) * Max32 + getInt32(b, i + 4)

\* What encodeData writes before a list of i elements.
appendVarInt_B(i) ==
  IF i < Base - 3 THEN appendInt8(i)
  ELSE IF i < Max16 THEN <<Base - 3>> \o appendInt16(i)
  ELSE IF i < Max32 THEN <<Base - 2>> \o appendInt32(i)
  ELSE <<Base - 1>> \o appendInt64(i)

getVarInt_B(b, i) ==
  IF i > Len(b) THEN 0
  ELSE CASE b[i] < Base - 3 -> b[i]
         [] b[i] = Base - 3 -> getInt16(b, i + 1)
         [] b[i] = Base - 2 -> getInt32(b, i + 1)
         [] b[i] = Base - 1 -> getInt64(b, i + 1)

\* How far getVarInt_B moves the position.
VarIntSize(b, i) ==
  IF i > Len(b) THEN 0
  ELSE CASE b[i] < Base - 3 -> 1
         [] b[i] = Base - 3 -> 3
         [] b[i] = Base - 2 -> 5
         [] b[i] = Base - 1 -> 9
=============================================================================
