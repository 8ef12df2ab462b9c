----------------------------- MODULE Wire_proofs ----------------------------
(***************************************************************************)
(* The two ends of a connection, for any size of a byte, any packets and   *)
(* any limits of the proof of work.  First the numbers of a packet: what   *)
(* the getters read is what the appenders wrote.  Then the target of the   *)
(* proof of work, the quotient that the code cannot divide directly: who   *)
(* finds a nonce has found one for all that check it.  Then the frames: a  *)
(* list that is decoded is the list that was encoded, the peer reads what  *)
(* was sent, and an object whose nonce was found is not refused before it  *)
(* has expired for Past.                                                   *)
(***************************************************************************)
EXTENDS Wire, TLAPS

-----------------------------------------------------------------------------
(* Division *)

\* Quotient and remainder of naturals.
LEMMA Quotients ==
  ASSUME NEW i \in Nat, NEW m \in Nat \ {0}
  PROVE  /\ i \div m \in Nat /\ i % m \in Nat /\ i % m < m
         /\ i = m * (i \div m) + (i % m)
  OBVIOUS

\* A remainder that is found in another way is the remainder.
LEMMA ModUnique ==
  ASSUME NEW i \in Nat, NEW m \in Nat \ {0}, NEW q \in Nat, NEW r \in Nat,
         r < m, i = m * q + r
  PROVE  i % m = r
<1> DEFINE p == i \div m
<1>1. p \in Nat /\ i % m \in Nat /\ i % m < m /\ i = m * p + (i % m)
  BY Quotients
<1> HIDE DEF p
<1>2. CASE p > q
  <2>1. p >= q + 1
    BY <1>1, <1>2
  <2>2. m * p >= m * (q + 1)
    BY <1>1, <2>1
  <2>3. m * (q + 1) = m * q + m
    OBVIOUS
  <2> QED BY <1>1, <2>2, <2>3
<1>3. CASE q > p
  <2>1. m * q >= m * (p + 1)
    BY <1>1, <1>3
  <2>2. m * (p + 1) = m * p + m
    BY <1>1
  <2> QED BY <1>1, <2>1, <2>2
<1>4. CASE p = q
  BY <1>1, <1>4
<1> QED BY <1>1, <1>2, <1>3, <1>4

\* The low digits of a number: those of its low half and of its high half.
LEMMA Digits ==
  ASSUME NEW i \in Nat, NEW m \in Nat \ {0}
  PROVE  i % (m * m) = ((i \div m) % m) * m + (i % m)
<1> DEFINE q == i \div m
           r == i % m
           s == q \div m
           t == q % m
<1>1. q \in Nat /\ r \in Nat /\ r < m /\ i = m * q + r
  BY Quotients
<1> HIDE DEF q, r
<1>2. s \in Nat /\ t \in Nat /\ t < m /\ q = m * s + t
  BY <1>1, Quotients
<1> HIDE DEF s, t
<1>3. i = (m * m) * s + (t * m + r)
  <2>1. m * (m * s + t) = (m * m) * s + t * m
    BY <1>2
  <2> QED BY <1>1, <1>2, <2>1
<1>4. t * m + r < m * m
  <2>1. t <= m - 1
    BY <1>2
  <2>2. t * m <= (m - 1) * m
    BY <1>2, <2>1
  <2>3. (m - 1) * m = m * m - m
    OBVIOUS
  <2> QED BY <1>1, <1>2, <2>2, <2>3
<1>5. m * m \in Nat \ {0} /\ t * m + r \in Nat
  BY <1>1, <1>2
<1>6. i % (m * m) = t * m + r
  BY <1>2, <1>3, <1>4, <1>5, ModUnique
<1> QED BY <1>6 DEF q, r, s, t

\* A number that fits is its own remainder.
LEMMA ModSmall ==
  ASSUME NEW i \in Nat, NEW m \in Nat \ {0}, i < m
  PROVE  i % m = i
  OBVIOUS

\* The limits grow: each is the square of the one before it.
LEMMA Limits ==
  /\ Base \in Nat \ {0} /\ Max16 \in Nat \ {0} /\ Max32 \in Nat \ {0} /\ Max64 \in Nat \ {0}
  /\ Base >= 4 /\ Base < Max16 /\ Max16 < Max32 /\ Max32 < Max64
<1>1. Base \in Nat \ {0} /\ Base >= 4
  BY BaseAssumption
<1>2. \A x \in Nat : x >= 4 => x * x \in Nat /\ x * x >= 4 /\ x < x * x
  <2> SUFFICES ASSUME NEW x \in Nat, x >= 4 PROVE x * x \in Nat /\ x * x >= 4 * x
    OBVIOUS
  <2> QED OBVIOUS
<1> QED BY <1>1, <1>2 DEF Max16, Max32, Max64

-----------------------------------------------------------------------------
(* Integers of fixed length *)

\* The bytes s are in b from position k.
At(b, k, s) == \A j \in DOMAIN s : b[k + j - 1] = s[j]

\* Bytes that were appended to others come after them.
LEMMA AtConcat ==
  ASSUME NEW s \in Seq(Nat), NEW t \in Seq(Nat), NEW b, NEW k \in Nat, At(b, k, s \o t)
  PROVE  At(b, k, s) /\ At(b, k + Len(s), t)
<1>1. \A j \in 1 .. Len(s) + Len(t) :
        (s \o t)[j] = IF j <= Len(s) THEN s[j] ELSE t[j - Len(s)]
  OBVIOUS
<1>2. DOMAIN (s \o t) = 1 .. Len(s) + Len(t)
  OBVIOUS
<1>3. ASSUME NEW j \in DOMAIN s PROVE b[k + j - 1] = s[j]
  <2>1. j \in 1 .. Len(s) /\ Len(s) \in Nat /\ Len(t) \in Nat
    OBVIOUS
  <2>2. j \in DOMAIN (s \o t) /\ (s \o t)[j] = s[j]
    BY <2>1, <1>1, <1>2
  <2> QED BY <2>2 DEF At
<1>4. ASSUME NEW j \in DOMAIN t PROVE b[k + Len(s) + j - 1] = t[j]
  <2>1. j \in 1 .. Len(t) /\ Len(s) \in Nat
    OBVIOUS
  <2>2. Len(s) + j \in 1 .. Len(s) + Len(t) /\ (s \o t)[Len(s) + j] = t[j]
    BY <2>1, <1>1
  <2>3. b[k + (Len(s) + j) - 1] = (s \o t)[Len(s) + j]
    BY <2>2, <1>2 DEF At
  <2>4. k + (Len(s) + j) - 1 = k + Len(s) + j - 1
    BY <2>1
  <2> QED BY <2>2, <2>3, <2>4
<1> QED BY <1>3, <1>4 DEF At

\* The type and the length of bytes that are appended to others.
LEMMA ConcatType ==
  ASSUME NEW s \in Seq(Nat), NEW t \in Seq(Nat),
         NEW m \in Nat, NEW n \in Nat, Len(s) = m, Len(t) = n
  PROVE  s \o t \in Seq(Nat) /\ Len(s \o t) = m + n
  BY SMTT(40)

\* The appenders append bytes, as many as their names say.
LEMMA IntTypes ==
  ASSUME NEW i \in Nat
  PROVE  /\ appendInt8(i) \in Seq(Nat) /\ Len(appendInt8(i)) = 1
         /\ appendInt16(i) \in Seq(Nat) /\ Len(appendInt16(i)) = 2
         /\ appendInt32(i) \in Seq(Nat) /\ Len(appendInt32(i)) = 4
         /\ appendInt64(i) \in Seq(Nat) /\ Len(appendInt64(i)) = 8
<1>0. 1 + 1 = 2 /\ 2 + 2 = 4 /\ 4 + 4 = 8 /\ 1 \in Nat /\ 2 \in Nat /\ 4 \in Nat
  OBVIOUS
<1>1. ASSUME NEW j \in Nat PROVE appendInt8(j) \in Seq(Nat) /\ Len(appendInt8(j)) = 1
  <2>1. j % Base \in Nat
    BY Quotients, Limits
  <2> QED BY <2>1 DEF appendInt8
<1>2. ASSUME NEW j \in Nat PROVE appendInt16(j) \in Seq(Nat) /\ Len(appendInt16(j)) = 2
  <2>1. j \div Base \in Nat
    BY Quotients, Limits
  <2>2. /\ appendInt8(j \div Base) \in Seq(Nat) /\ Len(appendInt8(j \div Base)) = 1
        /\ appendInt8(j) \in Seq(Nat) /\ Len(appendInt8(j)) = 1
    BY <2>1, <1>1
  <2>3. appendInt16(j) \in Seq(Nat) /\ Len(appendInt16(j)) = 1 + 1
    BY <2>2, <1>0, ConcatType, ZenonT(40) DEF appendInt16
  <2> QED BY <2>3, <1>0, Zenon
<1>3. ASSUME NEW j \in Nat PROVE appendInt32(j) \in Seq(Nat) /\ Len(appendInt32(j)) = 4
  <2>1. j \div Max16 \in Nat
    BY Quotients, Limits
  <2>2. /\ appendInt16(j \div Max16) \in Seq(Nat) /\ Len(appendInt16(j \div Max16)) = 2
        /\ appendInt16(j) \in Seq(Nat) /\ Len(appendInt16(j)) = 2
    BY <2>1, <1>2
  <2>3. appendInt32(j) \in Seq(Nat) /\ Len(appendInt32(j)) = 2 + 2
    BY <2>2, <1>0, ConcatType, ZenonT(40) DEF appendInt32
  <2> QED BY <2>3, <1>0, Zenon
<1>4. appendInt64(i) \in Seq(Nat) /\ Len(appendInt64(i)) = 8
  <2>1. i \div Max32 \in Nat
    BY Quotients, Limits
  <2>2. /\ appendInt32(i \div Max32) \in Seq(Nat) /\ Len(appendInt32(i \div Max32)) = 4
        /\ appendInt32(i) \in Seq(Nat) /\ Len(appendInt32(i)) = 4
    BY <2>1, <1>3
  <2>3. appendInt64(i) \in Seq(Nat) /\ Len(appendInt64(i)) = 4 + 4
    BY <2>2, <1>0, ConcatType, ZenonT(40) DEF appendInt64
  <2> QED BY <2>3, <1>0, Zenon
<1> QED BY <1>1, <1>2, <1>3, <1>4

\* Two, four and eight bytes are read back as the number they were written for,
\* of which the appender kept the low bytes.
LEMMA Read8 ==
  ASSUME NEW i \in Nat, NEW b, NEW k \in Nat, At(b, k, appendInt8(i))
  PROVE  getInt8(b, k) = i % Base
  BY DEF At, appendInt8, getInt8

LEMMA Read16 ==
  ASSUME NEW i \in Nat, NEW b, NEW k \in Nat, At(b, k, appendInt16(i))
  PROVE  getInt16(b, k) = i % Max16
<1>1. i \div Base \in Nat
  BY Quotients, Limits
<1>2. At(b, k, appendInt8(i \div Base)) /\ At(b, k + 1, appendInt8(i))
  BY <1>1, IntTypes, AtConcat DEF appendInt16
<1>3. getInt8(b, k) = (i \div Base) % Base /\ getInt8(b, k + 1) = i % Base
  BY <1>1, <1>2, Read8
<1>4. i % (Base * Base) = ((i \div Base) % Base) * Base + (i % Base)
  BY Digits, Limits
<1> QED BY <1>3, <1>4 DEF getInt16, Max16

LEMMA Read32 ==
  ASSUME NEW i \in Nat, NEW b, NEW k \in Nat, At(b, k, appendInt32(i))
  PROVE  getInt32(b, k) = i % Max32
<1>1. i \div Max16 \in Nat
  BY Quotients, Limits
<1>2. At(b, k, appendInt16(i \div Max16)) /\ At(b, k + 2, appendInt16(i))
  BY <1>1, IntTypes, AtConcat DEF appendInt32
<1>3. getInt16(b, k) = (i \div Max16) % Max16 /\ getInt16(b, k + 2) = i % Max16
  BY <1>1, <1>2, Read16
<1>4. i % (Max16 * Max16) = ((i \div Max16) % Max16) * Max16 + (i % Max16)
  BY Digits, Limits
<1> QED BY <1>3, <1>4 DEF getInt32, Max32

LEMMA Read64 ==
  ASSUME NEW i \in Nat, NEW b, NEW k \in Nat, At(b, k, appendInt64(i))
  PROVE  getInt64(b, k) = i % Max64
<1>1. i \div Max32 \in Nat
  BY Quotients, Limits
<1>2. At(b, k, appendInt32(i \div Max32)) /\ At(b, k + 4, appendInt32(i))
  BY <1>1, IntTypes, AtConcat DEF appendInt64
<1>3. getInt32(b, k) = (i \div Max32) % Max32 /\ getInt32(b, k + 4) = i % Max32
  BY <1>1, <1>2, Read32
<1>4. i % (Max32 * Max32) = ((i \div Max32) % Max32) * Max32 + (i % Max32)
  BY Digits, Limits
<1> QED BY <1>3, <1>4 DEF getInt64, Max64

-----------------------------------------------------------------------------
(* The integer of variable length *)

\* A mark is one byte.
LEMMA MarkType ==
  ASSUME NEW mark \in Nat
  PROVE  <<mark>> \in Seq(Nat) /\ Len(<<mark>>) = 1 /\ <<mark>>[1] = mark /\ DOMAIN <<mark>> = {1}
  OBVIOUS

LEMMA MarkConcat ==
  ASSUME NEW mark \in Nat, NEW s \in Seq(Nat), NEW n \in Nat, Len(s) = n
  PROVE  <<mark>> \o s \in Seq(Nat) /\ Len(<<mark>> \o s) = 1 + n
  BY MarkType, ConcatType

\* What appendVarInt_B appends, and the marks it uses.
LEMMA VarIntCases ==
  ASSUME NEW i \in Nat
  PROVE  /\ Base - 3 \in Nat /\ Base - 2 \in Nat /\ Base - 1 \in Nat
         /\ i < Base - 3 => appendVarInt_B(i) = appendInt8(i)
         /\ i >= Base - 3 /\ i < Max16 => appendVarInt_B(i) = <<Base - 3>> \o appendInt16(i)
         /\ i >= Max16 /\ i < Max32 => appendVarInt_B(i) = <<Base - 2>> \o appendInt32(i)
         /\ i >= Max32 => appendVarInt_B(i) = <<Base - 1>> \o appendInt64(i)
  BY Limits DEF appendVarInt_B

\* The marked integers are bytes, of these lengths.
LEMMA MarkedTypes ==
  ASSUME NEW i \in Nat
  PROVE  /\ <<Base - 3>> \o appendInt16(i) \in Seq(Nat) /\ Len(<<Base - 3>> \o appendInt16(i)) = 3
         /\ <<Base - 2>> \o appendInt32(i) \in Seq(Nat) /\ Len(<<Base - 2>> \o appendInt32(i)) = 5
         /\ <<Base - 1>> \o appendInt64(i) \in Seq(Nat) /\ Len(<<Base - 1>> \o appendInt64(i)) = 9
<1>1. 1 + 2 = 3 /\ 1 + 4 = 5 /\ 1 + 8 = 9 /\ 2 \in Nat /\ 4 \in Nat /\ 8 \in Nat
  OBVIOUS
<1>2. /\ <<Base - 3>> \o appendInt16(i) \in Seq(Nat)
      /\ Len(<<Base - 3>> \o appendInt16(i)) = 3
  <2>1. Base - 3 \in Nat /\ appendInt16(i) \in Seq(Nat) /\ Len(appendInt16(i)) = 2
    BY VarIntCases, IntTypes, Zenon
  <2>2. /\ <<Base - 3>> \o appendInt16(i) \in Seq(Nat)
        /\ Len(<<Base - 3>> \o appendInt16(i)) = 1 + 2
    BY <2>1, <1>1, MarkConcat, ZenonT(40)
  <2> QED BY <2>2, <1>1, Zenon
<1>3. /\ <<Base - 2>> \o appendInt32(i) \in Seq(Nat)
      /\ Len(<<Base - 2>> \o appendInt32(i)) = 5
  <2>1. Base - 2 \in Nat /\ appendInt32(i) \in Seq(Nat) /\ Len(appendInt32(i)) = 4
    BY VarIntCases, IntTypes, Zenon
  <2>2. /\ <<Base - 2>> \o appendInt32(i) \in Seq(Nat)
        /\ Len(<<Base - 2>> \o appendInt32(i)) = 1 + 4
    BY <2>1, <1>1, MarkConcat, ZenonT(40)
  <2> QED BY <2>2, <1>1, Zenon
<1>4. /\ <<Base - 1>> \o appendInt64(i) \in Seq(Nat)
      /\ Len(<<Base - 1>> \o appendInt64(i)) = 9
  <2>1. Base - 1 \in Nat /\ appendInt64(i) \in Seq(Nat) /\ Len(appendInt64(i)) = 8
    BY VarIntCases, IntTypes, Zenon
  <2>2. /\ <<Base - 1>> \o appendInt64(i) \in Seq(Nat)
        /\ Len(<<Base - 1>> \o appendInt64(i)) = 1 + 8
    BY <2>1, <1>1, MarkConcat, Zenon
  <2> QED BY <2>2, <1>1, Zenon
<1> QED BY <1>2, <1>3, <1>4, Zenon

\* appendVarInt_B appends bytes, one at least.
LEMMA VarIntType ==
  ASSUME NEW i \in Nat
  PROVE  appendVarInt_B(i) \in Seq(Nat) /\ Len(appendVarInt_B(i)) \in {1, 3, 5, 9}
<1>1. \/ i < Base - 3
      \/ i >= Base - 3 /\ i < Max16
      \/ i >= Max16 /\ i < Max32
      \/ i >= Max32
  BY Limits
<1>2. \/ appendVarInt_B(i) = appendInt8(i)
      \/ appendVarInt_B(i) = <<Base - 3>> \o appendInt16(i)
      \/ appendVarInt_B(i) = <<Base - 2>> \o appendInt32(i)
      \/ appendVarInt_B(i) = <<Base - 1>> \o appendInt64(i)
  BY <1>1, VarIntCases, Zenon
<1> QED BY <1>2, MarkedTypes, IntTypes, Zenon

\* A mark and what follows it, where they are read.
LEMMA ReadMark ==
  ASSUME NEW b, NEW k \in Nat, NEW mark \in Nat, NEW s \in Seq(Nat), At(b, k, <<mark>> \o s)
  PROVE  b[k] = mark /\ At(b, k + 1, s)
<1>1. At(b, k, <<mark>>) /\ At(b, k + 1, s)
  BY MarkType, AtConcat
<1>2. b[k + 1 - 1] = mark
  BY <1>1, MarkType DEF At
<1> QED BY <1>1, <1>2

\* Whatever number of eight bytes encodeData writes before a list, decodeData reads
\* that number and goes on right behind it, wherever it is in the payload.
THEOREM VarIntRoundTrip ==
  ASSUME NEW i \in 0 .. Max64 - 1, NEW b \in Seq(Nat), NEW k \in 1 .. Len(b),
         At(b, k, appendVarInt_B(i))
  PROVE  getVarInt_B(b, k) = i /\ VarIntSize(b, k) = Len(appendVarInt_B(i))
<1>0. Base - 3 \in Nat /\ Base - 2 \in Nat /\ Base - 1 \in Nat
  BY Limits
<1>1. i \in Nat /\ i < Max64 /\ k \in Nat /\ k + 1 \in Nat /\ ~(k > Len(b))
  BY Limits
<1>2. CASE i < Base - 3
  <2>1. At(b, k, appendInt8(i)) /\ Len(appendVarInt_B(i)) = 1
    BY <1>1, <1>2, VarIntCases, IntTypes
  <2>2. i % Base = i
    <3>1. i < Base
      BY <1>1, <1>2, Limits
    <3> QED BY <3>1, <1>1, ModSmall, Limits
  <2>3. b[k] = i
    BY <2>1, <2>2, <1>1, Read8 DEF getInt8
  <2> QED BY <2>1, <2>3, <1>1, <1>2, BaseAssumption DEF getVarInt_B, VarIntSize
<1>3. CASE i >= Base - 3 /\ i < Max16
  <2>1. appendVarInt_B(i) = <<Base - 3>> \o appendInt16(i)
    BY <1>1, <1>3, VarIntCases
  <2>2. At(b, k, <<Base - 3>> \o appendInt16(i))
    BY <2>1, Zenon
  <2>3. appendInt16(i) \in Seq(Nat)
    BY <1>1, IntTypes, Zenon
  <2>4. b[k] = Base - 3 /\ At(b, k + 1, appendInt16(i))
    BY <2>2, <2>3, <1>0, <1>1, ReadMark, Zenon
  <2>5. getInt16(b, k + 1) = i % Max16
    BY <2>4, <1>1, Read16
  <2>6. i % Max16 = i
    BY <1>1, <1>3, ModSmall, Limits
  <2>7. Len(appendVarInt_B(i)) = 3
    BY <2>1, <1>1, MarkedTypes, Zenon
  <2> QED BY <2>4, <2>5, <2>6, <2>7, <1>1, BaseAssumption, SMTT(40) DEF getVarInt_B, VarIntSize
<1>4. CASE i >= Max16 /\ i < Max32
  <2>1. appendVarInt_B(i) = <<Base - 2>> \o appendInt32(i)
    BY <1>1, <1>4, VarIntCases
  <2>2. At(b, k, <<Base - 2>> \o appendInt32(i))
    BY <2>1, Zenon
  <2>3. appendInt32(i) \in Seq(Nat)
    BY <1>1, IntTypes, Zenon
  <2>4. b[k] = Base - 2 /\ At(b, k + 1, appendInt32(i))
    BY <2>2, <2>3, <1>0, <1>1, ReadMark, Zenon
  <2>5. getInt32(b, k + 1) = i % Max32
    BY <2>4, <1>1, Read32
  <2>6. i % Max32 = i
    BY <1>1, <1>4, ModSmall, Limits
  <2>7. Len(appendVarInt_B(i)) = 5
    BY <2>1, <1>1, MarkedTypes, Zenon
  <2> QED BY <2>4, <2>5, <2>6, <2>7, <1>1, BaseAssumption DEF getVarInt_B, VarIntSize
<1>5. CASE i >= Max32
  <2>1. appendVarInt_B(i) = <<Base - 1>> \o appendInt64(i)
    BY <1>1, <1>5, VarIntCases
  <2>2. At(b, k, <<Base - 1>> \o appendInt64(i))
    BY <2>1, Zenon
  <2>3. appendInt64(i) \in Seq(Nat)
    BY <1>1, IntTypes, Zenon
  <2>4. b[k] = Base - 1 /\ At(b, k + 1, appendInt64(i))
    BY <2>2, <2>3, <1>0, <1>1, ReadMark, Zenon
  <2>5. getInt64(b, k + 1) = i % Max64
    BY <2>4, <1>1, Read64
  <2>6. i % Max64 = i
    BY <1>1, ModSmall, Limits
  <2>7. Len(appendVarInt_B(i)) = 9
    BY <2>1, <1>1, MarkedTypes, Zenon
  <2> QED BY <2>4, <2>5, <2>6, <2>7, <1>1, BaseAssumption DEF getVarInt_B, VarIntSize
<1> QED BY <1>1, <1>2, <1>3, <1>4, <1>5, Limits

-----------------------------------------------------------------------------
(* Division and products *)

\* A product grows with its factors.
LEMMA ProductGrows ==
  ASSUME NEW x \in Nat, NEW y \in Nat, NEW z \in Nat, x <= y
  PROVE  x * z \in Nat /\ y * z \in Nat /\ x * z <= y * z /\ z * x <= z * y
  OBVIOUS

\* A quotient that is found in another way is the quotient.
LEMMA DivUnique ==
  ASSUME NEW i \in Nat, NEW m \in Nat \ {0}, NEW q \in Nat, NEW r \in Nat,
         r < m, i = m * q + r
  PROVE  i \div m = q
<1> DEFINE p == i \div m
<1>1. p \in Nat /\ i % m \in Nat /\ i % m < m /\ i = m * p + (i % m)
  BY Quotients
<1> HIDE DEF p
<1>2. ~(p > q)
  <2> SUFFICES ASSUME p >= q + 1 PROVE FALSE
    BY <1>1
  <2>1. m * p >= m * (q + 1) /\ m * (q + 1) = m * q + m
    BY <1>1
  <2> QED BY <1>1, <2>1
<1>3. ~(q > p)
  <2> SUFFICES ASSUME q >= p + 1 PROVE FALSE
    BY <1>1
  <2>1. m * q >= m * (p + 1) /\ m * (p + 1) = m * p + m
    BY <1>1
  <2> QED BY <1>1, <2>1
<1> QED BY <1>1, <1>2, <1>3 DEF p

\* A quotient grows with the number and falls with the divisor.
LEMMA DivGrows ==
  ASSUME NEW x \in Nat, NEW y \in Nat, NEW m \in Nat \ {0}, x <= y
  PROVE  x \div m <= y \div m
<1> DEFINE p == x \div m
           q == y \div m
<1>1. p \in Nat /\ q \in Nat /\ x >= m * p /\ y < m * q + m
  BY Quotients
<1> HIDE DEF p, q
<1> SUFFICES ASSUME p >= q + 1 PROVE FALSE
  BY <1>1 DEF p, q
<1>2. m * p >= m * (q + 1) /\ m * (q + 1) = m * q + m
  BY <1>1
<1> QED BY <1>1, <1>2

LEMMA DivFalls ==
  ASSUME NEW x \in Nat, NEW m \in Nat \ {0}, NEW n \in Nat \ {0}, m <= n
  PROVE  x \div n <= x \div m
<1> DEFINE p == x \div n
           q == x \div m
<1>1. p \in Nat /\ q \in Nat /\ x >= n * p /\ x < m * q + m
  BY Quotients
<1> HIDE DEF p, q
<1> SUFFICES ASSUME p >= q + 1 PROVE FALSE
  BY <1>1 DEF p, q
<1>2. n * p >= m * p
  BY <1>1, ProductGrows
<1>3. m * p >= m * (q + 1) /\ m * (q + 1) = m * q + m
  BY <1>1
<1> QED BY <1>1, <1>2, <1>3

\* A number below m is its own remainder; one that is a little below zero wraps.
LEMMA Wrap ==
  ASSUME NEW m \in Nat \ {0}, NEW x \in Int
  PROVE  /\ 0 <= x /\ x < m => x % m = x
         /\ -m <= x /\ x < 0 => x % m = x + m
  OBVIOUS

-----------------------------------------------------------------------------
(* The target *)

\* getTarget divides 2^64, which it cannot represent, by the divisor and rounds
\* down, by way of half of it: as long as the divisor is no larger than that half.
THEOREM TargetIsQuotient ==
  ASSUME NEW length \in Nat, NEW TTL \in Nat, Divisor(length, TTL) \in 1 .. Word \div 2
  PROVE  getTarget(length, TTL) = Word \div Divisor(length, TTL)
<1> DEFINE half == Word \div 2
           d == Divisor(length, TTL)
           q == half \div d
           r == half % d
<1>1. Word \in Nat \ {0} /\ half \in Nat /\ Word = 2 * half /\ d \in Nat \ {0} /\ d <= half
  BY PowAssumption
<1>2. getTarget(length, TTL) = q * 2 + (IF (r * 2) % Word >= d THEN 1 ELSE 0)
  BY DEF getTarget, Unsigned
<1> HIDE DEF half, d
<1>3. q \in Nat /\ r \in Nat /\ r < d /\ half = d * q + r
  BY <1>1, Quotients
<1> HIDE DEF q, r
<1>4. r * 2 \in Nat /\ (r * 2) % Word = r * 2
  <2>1. r * 2 \in Nat /\ r * 2 \in Int /\ 0 <= r * 2 /\ r * 2 < Word
    BY <1>1, <1>3
  <2> QED BY <2>1, <1>1, Wrap
<1>5. CASE r * 2 >= d
  <2>1. Word = d * (q * 2 + 1) + (r * 2 - d)
    BY <1>1, <1>3
  <2>2. r * 2 - d \in Nat /\ r * 2 - d < d /\ q * 2 + 1 \in Nat
    BY <1>1, <1>3, <1>5
  <2>3. Word \div d = q * 2 + 1
    BY <2>1, <2>2, <1>1, DivUnique
  <2> QED BY <2>3, <1>2, <1>4, <1>5 DEF d
<1>6. CASE ~(r * 2 >= d)
  <2>1. Word = d * (q * 2) + r * 2
    BY <1>1, <1>3
  <2>2. r * 2 < d /\ q * 2 \in Nat
    BY <1>1, <1>3, <1>6
  <2>3. Word \div d = q * 2
    BY <2>1, <2>2, <1>1, <1>4, DivUnique
  <2> QED BY <2>3, <1>1, <1>2, <1>3, <1>4, <1>6 DEF d
<1> QED BY <1>5, <1>6

\* The life that counts, before it is cut to the width of the integers.
Counted(TTL) == IF TTL < MinTTL THEN MinTTL ELSE TTL

\* A life above -Past, however it is represented, counts as itself or as MinTTL.
LEMMA LivesCounted ==
  ASSUME NEW TTL \in Int, -Past < TTL, TTL < Word \div 2, Past <= Word \div 2
  PROVE  Lives(Unsigned(TTL)) = Counted(TTL)
<1>1. Word \in Nat \ {0} /\ Word \div 2 \in Nat /\ Word = 2 * (Word \div 2)
  BY PowAssumption
<1>2. MinTTL \in Nat /\ Past \in Nat
  BY PowAssumption
<1>3. CASE TTL >= 0
  <2>1. TTL % Word = TTL
    BY <1>1, <1>3, Wrap
  <2> QED BY <2>1, <1>1, <1>2, <1>3 DEF Lives, Unsigned, Signed, Counted
<1>4. CASE TTL < 0
  <2>1. TTL % Word = TTL + Word
    <3>1. -Word <= TTL
      BY <1>1, <1>2
    <3> QED BY <3>1, <1>1, <1>4, Wrap
  <2>2. Signed(Unsigned(TTL)) = TTL
    BY <2>1, <1>1, <1>2 DEF Unsigned, Signed
  <2> QED BY <2>2, <1>2, <1>4 DEF Lives, Counted
<1> QED BY <1>3, <1>4

\* What getTarget divides by grows with the life, and never wraps below the
\* life that fits.
LEMMA DivisorGrows ==
  ASSUME NEW length \in Nat, NEW max \in Nat, Fits(length, max),
         NEW x \in Int, NEW y \in Int, -Past < x, x <= y, y <= max
  PROVE  /\ Divisor(length, Unsigned(x)) \in 1 .. Word \div 2
         /\ Divisor(length, Unsigned(y)) \in 1 .. Word \div 2
         /\ Divisor(length, Unsigned(x)) <= Divisor(length, Unsigned(y))
         /\ length < Divisor(length, Unsigned(x))
<1> DEFINE F(c) == (length + extrabytes) * c
           G(c) == (F(c) \div Unit) + extrabytes + length
<1>1. /\ Word \in Nat \ {0} /\ Word \div 2 \in Nat /\ Word = 2 * (Word \div 2)
      /\ Unit \in Nat \ {0} /\ extrabytes \in Nat \ {0} /\ noncetrials \in Nat \ {0}
      /\ MinTTL \in Nat /\ Past \in Nat
  BY PowAssumption
<1>2. /\ Counted(max) < Word \div 2 /\ Past <= Word \div 2
      /\ F(Counted(max)) < Word /\ G(Counted(max)) * noncetrials <= Word \div 2
  BY DEF Fits, Product, Counted
<1>3. \A t \in Int : t <= max => /\ Counted(t) \in Nat /\ Counted(t) <= Counted(max)
                                 /\ t < Word \div 2
  BY <1>1, <1>2 DEF Counted
<1>4. Counted(x) <= Counted(y)
  BY <1>1 DEF Counted
<1>5. ASSUME NEW c \in Nat, NEW e \in Nat, c <= e
      PROVE  /\ F(c) \in Nat /\ F(e) \in Nat /\ F(c) <= F(e)
             /\ G(c) \in Nat /\ G(e) \in Nat /\ 1 <= G(c) /\ G(c) <= G(e)
             /\ G(c) * noncetrials \in Nat /\ length < G(c) * noncetrials
             /\ G(c) * noncetrials <= G(e) * noncetrials
  <2>1. F(c) \in Nat /\ F(e) \in Nat /\ F(c) <= F(e)
    BY <1>1, <1>5, ProductGrows
  <2> HIDE DEF F
  <2>2. F(c) \div Unit \in Nat /\ F(e) \div Unit \in Nat /\ F(c) \div Unit <= F(e) \div Unit
    BY <2>1, <1>1, Quotients, DivGrows
  <2>3. G(c) \in Nat /\ G(e) \in Nat /\ length < G(c) /\ G(c) <= G(e)
    BY <2>2, <1>1
  <2> HIDE DEF G
  <2>4. G(c) * 1 <= G(c) * noncetrials /\ G(c) * noncetrials <= G(e) * noncetrials
        /\ G(c) * noncetrials \in Nat /\ G(c) * 1 = G(c)
    <3>1. 1 \in Nat /\ 1 <= noncetrials
      BY <1>1
    <3> QED BY <2>3, <3>1, <1>1, ProductGrows
  <2> QED BY <2>1, <2>3, <2>4, <1>1
<1>6. ASSUME NEW t \in Int, -Past < t, t <= max
      PROVE  /\ Divisor(length, Unsigned(t)) = G(Counted(t)) * noncetrials
             /\ G(Counted(t)) * noncetrials \in 1 .. Word \div 2
             /\ length < G(Counted(t)) * noncetrials
  <2>1. /\ Counted(t) \in Nat /\ Counted(max) \in Nat /\ Counted(t) <= Counted(max)
        /\ t < Word \div 2
    BY <1>3, <1>6
  <2>2. Lives(Unsigned(t)) = Counted(t)
    BY <2>1, <1>2, <1>6, LivesCounted
  <2> DEFINE n == G(Counted(t)) * noncetrials
  <2>3. /\ F(Counted(t)) \in Nat /\ F(Counted(t)) <= F(Counted(max))
        /\ F(Counted(max)) \in Nat
        /\ n \in Nat /\ length < n /\ n <= G(Counted(max)) * noncetrials
        /\ G(Counted(max)) * noncetrials \in Nat
    BY <2>1, <1>5
  <2>4. F(Counted(t)) < Word /\ n <= Word \div 2 /\ n < Word
    BY <2>3, <1>1, <1>2
  <2>5. F(Counted(t)) % Word = F(Counted(t)) /\ n % Word = n
    <3> DEFINE f == F(Counted(t))
    <3>1. f \in Int /\ 0 <= f /\ f < Word /\ n \in Int /\ 0 <= n /\ n < Word
      BY <2>3, <2>4
    <3> HIDE DEF f, n
    <3> QED BY <3>1, <1>1, Wrap DEF f
  <2>6. Divisor(length, Unsigned(t)) = n
    BY <2>2, <2>5 DEF Divisor, Unsigned
  <2> QED BY <2>3, <2>4, <2>6, <1>1
<1>7. -Past < y /\ x <= max
  BY <1>1
<1> QED BY <1>3, <1>4, <1>5, <1>6, <1>7

\* The target of an object that has not expired for Past is a number, and smaller
\* than Word: not any nonce will do.
LEMMA TargetType ==
  ASSUME NEW length \in Nat, NEW max \in Nat, Fits(length, max),
         NEW life \in Int, -Past < life, life <= max
  PROVE  /\ getTarget(length, Unsigned(life)) \in Nat
         /\ length # 0 => getTarget(length, Unsigned(life)) < Word
<1> DEFINE d == Divisor(length, Unsigned(life))
           q == Word \div d
<1>1. d \in 1 .. Word \div 2 /\ length < d
  BY DivisorGrows
<1>2. Unsigned(life) \in Nat /\ Word \in Nat \ {0} /\ Word \div 2 \in Nat
  BY PowAssumption DEF Unsigned
<1>3. getTarget(length, Unsigned(life)) = q
  BY <1>1, <1>2, TargetIsQuotient
<1> HIDE DEF d
<1>4. d \in Nat \ {0} /\ (length # 0 => 2 <= d)
  BY <1>1, <1>2
<1>5. q \in Nat /\ Word >= d * q
  BY <1>2, <1>4, Quotients
<1> HIDE DEF q
<1>6. ASSUME length # 0 PROVE q < Word
  <2>1. 2 * q <= d * q /\ d * q \in Nat
    <3>1. 2 \in Nat /\ 2 <= d
      BY <1>4, <1>6
    <3> QED BY <3>1, <1>4, <1>5, ProductGrows
  <2> QED BY <2>1, <1>2, <1>5
<1> QED BY <1>3, <1>5, <1>6

\* A nonce that processPOW finds for an object of ours, whose life is then "life",
\* passes checkPow of every client, however long after that: until the object has
\* expired for Past or longer.  The target only rises while the life gets shorter,
\* and the clamp of getTarget does for a life below zero what it does above.
THEOREM FoundStaysAccepted ==
  ASSUME NEW length \in Nat, NEW max \in Nat, Fits(length, max),
         NEW life \in Int, life <= max, NEW past \in Nat, -Past < life - past,
         NEW pow \in Nat, pow <= getTarget(length, Unsigned(life))
  PROVE  checkPow(length, pow, life - past)
<1> DEFINE d == Divisor(length, Unsigned(life))
           e == Divisor(length, Unsigned(life - past))
<1>1. d \in 1 .. Word \div 2 /\ e \in 1 .. Word \div 2 /\ e <= d
  <2>1. life - past \in Int /\ life - past <= life
    OBVIOUS
  <2> QED BY <2>1, DivisorGrows
<1>2. Unsigned(life) \in Nat /\ Unsigned(life - past) \in Nat
  BY PowAssumption DEF Unsigned
<1>3. /\ getTarget(length, Unsigned(life)) = Word \div d
      /\ getTarget(length, Unsigned(life - past)) = Word \div e
  BY <1>1, <1>2, TargetIsQuotient
<1> HIDE DEF d, e
<1>4. Word \div d <= Word \div e /\ Word \div d \in Nat /\ Word \div e \in Nat
  <2>1. Word \div 2 \in Nat /\ Word \in Nat
    BY PowAssumption
  <2>2. d \in Nat \ {0} /\ e \in Nat \ {0} /\ e <= d
    BY <1>1, <2>1
  <2>3. Word \div d \in Nat /\ Word \div e \in Nat
    BY <2>1, <2>2, Quotients
  <2> QED BY <2>1, <2>2, <2>3, DivFalls
<1> QED BY <1>3, <1>4 DEF checkPow

-----------------------------------------------------------------------------
(* Packets *)

\* A payload is what is written first, and then the rest.
LEMMA Concat ==
  ASSUME NEW s \in Seq(Nat), NEW t \in Seq(Nat), NEW n \in {1, 3, 5, 9}, Len(s) = n
  PROVE  /\ s \o t \in Seq(Nat) /\ 1 \in 1 .. Len(s \o t)
         /\ \A j \in 1 .. n : (s \o t)[j] = s[j]
         /\ \A j \in 1 .. Len(t) : (s \o t)[n + j] = t[j]
<1>1. Len(t) \in Nat /\ Len(s \o t) = n + Len(t) /\ n \in Nat /\ n >= 1
  OBVIOUS
<1>2. \A j \in 1 .. n : (s \o t)[j] = s[j]
  OBVIOUS
<1>3. ASSUME NEW j \in 1 .. Len(t) PROVE (s \o t)[n + j] = t[j]
  BY <1>1, SMTT(40)
<1> QED BY <1>1, <1>2, <1>3

\* What decodeData makes of an inv, a getdata or an addr is what encodeData made it
\* from, however many bytes the length of the list takes.
THEOREM DecodeInvertsEncode ==
  ASSUME NEW command, NEW list \in Lists
  PROVE  Decode(List(command, list)) = List(command, list)
<1> DEFINE packet == List(command, list)
           head == appendVarInt_B(Len(list))
           b == head \o list
<1>1. "list" \in DOMAIN packet /\ packet.list = list
  BY DEF List
<1>2. Payload(packet) = b
  BY <1>1 DEF Payload
<1>3. /\ head \in Seq(Nat) /\ Len(head) \in {1, 3, 5, 9}
      /\ list \in Seq(Nat) /\ Len(list) \in Nat /\ Len(list) < Max64
  BY VarIntType DEF Lists
<1>4. Len(list) \in 0 .. Max64 - 1
  BY <1>3, Limits
<1> HIDE DEF head
<1>5. /\ b \in Seq(Nat) /\ 1 \in 1 .. Len(b)
      /\ \A j \in 1 .. Len(head) : b[j] = head[j]
      /\ \A j \in 1 .. Len(list) : b[Len(head) + j] = list[j]
  BY <1>3, Concat, ZenonT(40)
<1>6. At(b, 1, head)
  <2>1. \A j \in 1 .. Len(head) : 1 + j - 1 = j
    BY <1>3
  <2>2. DOMAIN head = 1 .. Len(head)
    BY <1>3
  <2> QED BY <1>5, <2>1, <2>2, Zenon DEF At
<1> HIDE DEF b
<1>7. getVarInt_B(b, 1) = Len(list) /\ VarIntSize(b, 1) = Len(head)
  BY <1>4, <1>5, <1>6, VarIntRoundTrip DEF head
<1>8. Decode(packet) = [packet EXCEPT !.list = [j \in 1 .. Len(list) |-> b[Len(head) + j]]]
  BY <1>1, <1>2, <1>7 DEF Decode
<1>9. [j \in 1 .. Len(list) |-> b[Len(head) + j]] = list
  BY <1>3, <1>5
<1> QED BY <1>8, <1>9 DEF List

-----------------------------------------------------------------------------
(* The inductive invariant *)

\* What goes over the connection: packets that others put there, the packets of the
\* handshake, and the object once its nonce is found.
PlainPackets ==
  [command : {"version", "pong", "verack"}, bytes : Seq(Nat)]
    \cup [command : {"getdata", "inv", "addr"}, list : Lists]
ObjectPackets ==
  {Raw("object", <<object[i].pow>> \o [j \in 1 .. object[i].size |-> 0]) : i \in DOMAIN object}
Sendable == PlainPackets \cup ObjectPackets
Received == Sendable \cup {Raw("mixture", <<>>)}

\* The object has the nonce that was searched for its life and its length.
NonceFor(life, size) == getTarget(size, Unsigned(life))
ObjectOK ==
  \/ object = <<>>
  \/ \E life \in Lives_, size \in Sizes :
       object = <<[life |-> life, size |-> size, pow |-> NonceFor(life, size)]>>

PacketsOK == Packets \in Seq(Sendable) /\ todo \in Seq(PlainPackets) /\ frames \in Seq(Sendable)

\* What is written and read belongs to a frame that was begun.
Writing == {Idle} \cup [frame : DOMAIN frames, sent : Int, iResult : Int]
Fields == [frame : DOMAIN frames, field : Int]
StreamOK ==
  /\ out \in [Threads -> Writing] /\ wire \in Seq(Fields)
  /\ reader \in [doing : {"read", "lost", "validate", "checkPow", "accepted", "refused"},
                 units : Seq(Fields) \cup Seq(Nat)]
  /\ reader.doing = "read" => reader.units \in Seq(Fields)

\* The peer validates the object that was found.
ReaderOK ==
  /\ received \in Seq(Received)
  /\ reader.doing \in {"validate", "checkPow"} =>
       received # <<>> /\ received[Len(received)] \in ObjectPackets
  /\ reader.doing = "refused" =>
       /\ object # <<>>
       /\ reader.units[1] >= object[1].life + Past \/ 1 + object[1].size > MaxObject

IInv == ObjectOK /\ PacketsOK /\ StreamOK /\ ReaderOK

\* A packet is decoded to itself.
LEMMA DecodeSendable ==
  ASSUME NEW packet \in Sendable
  PROVE  Decode(packet) = packet
<1>1. CASE packet \in [command : {"getdata", "inv", "addr"}, list : Lists]
  <2>1. packet.list \in Lists /\ packet = List(packet.command, packet.list)
    BY <1>1 DEF List
  <2> QED BY <2>1, DecodeInvertsEncode
<1>2. CASE packet \in [command : {"version", "pong", "verack"}, bytes : Seq(Nat)]
  <2>1. "list" \notin DOMAIN packet
    BY <1>2
  <2> QED BY <2>1 DEF Decode
<1>3. CASE packet \in ObjectPackets
  <2>1. PICK bytes : packet = Raw("object", bytes)
    BY <1>3, Zenon DEF ObjectPackets
  <2>2. DOMAIN packet = {"command", "bytes"}
    BY <2>1 DEF Raw
  <2> QED BY <2>2 DEF Decode
<1> QED BY <1>1, <1>2, <1>3 DEF Sendable, PlainPackets

\* Only the object is a packet of its command.
LEMMA OnlyTheObject ==
  ASSUME NEW packet \in Sendable, packet.command = "object"
  PROVE  packet \in ObjectPackets
  BY DEF Sendable, PlainPackets

\* Sequences of a set are sequences of a larger one, and grow by an element of it.
LEMMA SeqGrows ==
  ASSUME NEW S, NEW T, S \subseteq T, NEW s \in Seq(S)
  PROVE  s \in Seq(T) /\ \A e \in T : Append(s, e) \in Seq(T)
  OBVIOUS

LEMMA AppendLast ==
  ASSUME NEW S, NEW s \in Seq(S), NEW e \in S
  PROVE  /\ Append(s, e) \in Seq(S) /\ Append(s, e) # <<>>
         /\ Append(s, e)[Len(Append(s, e))] = e
  OBVIOUS

\* What is behind the first k elements of a sequence.
LEMMA Behind ==
  ASSUME NEW S, NEW s \in Seq(S), NEW k \in 1 .. Len(s)
  PROVE  /\ Len(SubSeq(s, k + 1, Len(s))) = Len(s) - k
         /\ \A j \in 1 .. Len(s) - k : SubSeq(s, k + 1, Len(s))[j] = s[k + j]
         /\ DOMAIN SubSeq(s, k + 1, Len(s)) = 1 .. Len(s) - k
  OBVIOUS

\* Two sequences, one after the other.
LEMMA Joined ==
  ASSUME NEW S, NEW s \in Seq(S), NEW t \in Seq(S)
  PROVE  /\ s \o t \in Seq(S) /\ Len(s \o t) = Len(s) + Len(t)
         /\ \A j \in 1 .. Len(s) : (s \o t)[j] = s[j]
         /\ \A j \in 1 .. Len(t) : (s \o t)[Len(s) + j] = t[j]
  OBVIOUS

\* How much is sent and read depends on the frames that are there.
LEMMA FieldsGrow ==
  ASSUME StreamOK, DOMAIN frames \subseteq DOMAIN frames'
  PROVE  /\ Fields \subseteq Fields' /\ Writing \subseteq Writing'
         /\ out' = out /\ wire' = wire /\ reader' = reader => StreamOK'
<1>1. Fields \subseteq Fields' /\ Writing \subseteq Writing'
  BY DEF Fields, Writing
<1>2. Seq(Fields) \subseteq Seq(Fields')
  BY <1>1, SeqGrows
<1>3. ASSUME out' = out, wire' = wire, reader' = reader PROVE StreamOK'
  <2>1. out' \in [Threads -> Writing']
    BY <1>1, <1>3 DEF StreamOK
  <2>2. wire' \in Seq(Fields') /\ (reader'.doing = "read" => reader'.units \in Seq(Fields'))
    BY <1>2, <1>3 DEF StreamOK
  <2>3. reader' \in [doing : {"read", "lost", "validate", "checkPow", "accepted", "refused"},
                    units : Seq(Fields') \cup Seq(Nat)]
    BY <1>2, <1>3 DEF StreamOK
  <2> QED BY <2>1, <2>2, <2>3 DEF StreamOK
<1> QED BY <1>1, <1>3

-----------------------------------------------------------------------------
(* It holds at the start, and every step keeps it *)

LEMMA InitIInv == Init => IInv
<1> SUFFICES ASSUME Init PROVE IInv
  OBVIOUS
<1>1. ObjectOK /\ frames \in Seq(Sendable)
  BY DEF Init, ObjectOK
<1>2. Packets \in Seq(Sendable)
  <2>1. [command : {"getdata", "inv", "addr"}, list : Lists] \subseteq Sendable
    BY Zenon DEF Sendable, PlainPackets
  <2> QED BY <2>1, SeqGrows, WireAssumption DEF Init
<1>3. todo \in Seq(PlainPackets)
  <2>1. Raw("version", <<1>>) \in PlainPackets
    BY DEF Raw, PlainPackets
  <2> QED BY <2>1 DEF Init
<1>4. StreamOK
  BY DEF Init, StreamOK, Writing
<1>5. ReaderOK
  BY DEF Init, ReaderOK
<1> QED BY <1>1, <1>2, <1>3, <1>4, <1>5 DEF IInv, PacketsOK

\* A step that finds no nonce leaves the packets that may be sent as they are.
LEMMA ObjectStays ==
  ASSUME object' = object
  PROVE  /\ ObjectPackets' = ObjectPackets /\ Sendable' = Sendable /\ Received' = Received
         /\ ObjectOK => ObjectOK'
  BY DEF ObjectPackets, PlainPackets, Sendable, Received, ObjectOK

\* A step that leaves the peer alone keeps what is true of it.
LEMMA ReaderStays ==
  ASSUME UNCHANGED <<reader, received, object>>, ReaderOK
  PROVE  ReaderOK'
<1>1. ObjectPackets' = ObjectPackets /\ Received' = Received
  BY ObjectStays
<1> QED BY <1>1 DEF ReaderOK

\* A field on the connection is of a frame.
LEMMA FieldOf ==
  ASSUME NEW w \in Seq(Fields), NEW j \in DOMAIN w
  PROVE  w[j] \in Fields /\ w[j].frame \in DOMAIN frames /\ w[j].field \in Int
<1>1. w[j] \in Fields
  OBVIOUS
<1> QED BY <1>1 DEF Fields

\* A thread begins a frame.
LEMMA BeginKeeps ==
  ASSUME IInv, NEW t \in Threads, NEW packet \in Sendable, Begin(t, packet),
         UNCHANGED <<wire, reader, object>>
  PROVE  frames' \in Seq(Sendable') /\ StreamOK'
<1>1. /\ frames \in Seq(Sendable) /\ frames' = Append(frames, packet)
      /\ out[t] = Idle /\ out' = [out EXCEPT ![t].frame = Len(frames')]
      /\ Sendable' = Sendable
  BY ObjectStays DEF IInv, PacketsOK, Begin
<1>2. /\ frames' \in Seq(Sendable) /\ Len(frames') \in DOMAIN frames'
      /\ DOMAIN frames \subseteq DOMAIN frames'
  BY <1>1
<1>3. Fields \subseteq Fields' /\ Writing \subseteq Writing'
  BY <1>2, FieldsGrow DEF IInv
<1>4. out' \in [Threads -> Writing']
  <2>1. out \in [Threads -> Writing]
    BY DEF IInv, StreamOK
  <2>2. [out[t] EXCEPT !.frame = Len(frames')] \in Writing'
    BY <1>1, <1>2 DEF Idle, Writing
  <2>3. out' = [out EXCEPT ![t] = [out[t] EXCEPT !.frame = Len(frames')]]
    BY <1>1
  <2> QED BY <1>3, <2>1, <2>2, <2>3
<1>5. Seq(Fields) \subseteq Seq(Fields')
  BY <1>3, SeqGrows
<1>6. StreamOK'
  BY <1>4, <1>5 DEF IInv, StreamOK
<1> QED BY <1>1, <1>2, <1>6

LEMMA ListenerBeginsKeeps == IInv /\ ListenerBegins => IInv'
<1> SUFFICES ASSUME IInv, ListenerBegins PROVE IInv'
  OBVIOUS
<1>1. Head(todo) \in PlainPackets /\ Tail(todo) \in Seq(PlainPackets)
  BY DEF IInv, PacketsOK, ListenerBegins
<1>2. frames' \in Seq(Sendable') /\ StreamOK'
  BY <1>1, BeginKeeps DEF ListenerBegins, Sendable, Threads, readers
<1>3. ObjectOK' /\ Sendable' = Sendable /\ ReaderOK'
  BY ObjectStays, ReaderStays DEF IInv, ListenerBegins, readers
<1> QED BY <1>1, <1>2, <1>3 DEF IInv, PacketsOK, ListenerBegins, PlainPackets

LEMMA SenderPopsKeeps == IInv /\ SenderPops => IInv'
<1> SUFFICES ASSUME IInv, SenderPops PROVE IInv'
  OBVIOUS
<1>1. Head(Packets) \in Sendable /\ Tail(Packets) \in Seq(Sendable)
  BY DEF IInv, PacketsOK, SenderPops
<1>2. frames' \in Seq(Sendable') /\ StreamOK'
  BY <1>1, BeginKeeps DEF SenderPops, Threads, readers
<1>3. ObjectOK' /\ Sendable' = Sendable /\ ReaderOK'
  BY ObjectStays, ReaderStays DEF IInv, SenderPops, readers
<1> QED BY <1>1, <1>2, <1>3 DEF IInv, PacketsOK, SenderPops, PlainPackets

\* A step of a thread that writes, and of the connection.
LEMMA WriteKeeps ==
  ASSUME IInv, UNCHANGED <<Packets, todo, frames, reader, received, object>>,
         out' \in [Threads -> Writing], wire' \in Seq(Fields)
  PROVE  IInv'
<1>1. ObjectOK' /\ Sendable' = Sendable /\ ReaderOK'
  BY ObjectStays, ReaderStays DEF IInv
<1>2. PacketsOK'
  BY <1>1 DEF IInv, PacketsOK, PlainPackets
<1>3. Fields' = Fields /\ Writing' = Writing
  BY DEF Fields, Writing
<1>4. StreamOK'
  BY <1>3 DEF IInv, StreamOK
<1> QED BY <1>1, <1>2, <1>4 DEF IInv

\* The frame of a thread that writes.
LEMMA WritingFrame ==
  ASSUME IInv, NEW t \in Threads, out[t] # Idle
  PROVE  out[t] \in [frame : DOMAIN frames, sent : Int, iResult : Int]
  BY DEF IInv, StreamOK, Writing

LEMMA SendFieldKeeps == ASSUME NEW t \in Threads PROVE IInv /\ SendField(t) => IInv'
<1> SUFFICES ASSUME IInv, SendField(t) PROVE IInv'
  OBVIOUS
<1>1. out \in [Threads -> Writing] /\ wire \in Seq(Fields)
  BY DEF IInv, StreamOK
<1>2. out[t] \in [frame : DOMAIN frames, sent : Int, iResult : Int]
  BY WritingFrame DEF SendField
<1>3. wire' \in Seq(Fields)
  <2>1. Unit_(out[t].frame, out[t].sent + 1) \in Fields
    BY <1>2 DEF Unit_, Fields
  <2> QED BY <1>1, <2>1 DEF SendField
<1>4. out' \in [Threads -> Writing]
  <2>1. [out[t] EXCEPT !.sent = @ + 1] \in Writing
    BY <1>2 DEF Writing
  <2>2. out' = [out EXCEPT ![t] = [out[t] EXCEPT !.sent = @ + 1]]
    BY DEF SendField
  <2> QED BY <1>1, <2>1, <2>2
<1> QED BY <1>3, <1>4, WriteKeeps DEF SendField, readers

LEMMA SendPayloadKeeps ==
  ASSUME NEW t \in Threads, NEW k \in 1 .. Window
  PROVE  IInv /\ SendPayload(t, k) => IInv'
<1> SUFFICES ASSUME IInv, SendPayload(t, k) PROVE IInv'
  OBVIOUS
<1> DEFINE more == [j \in 1 .. k |-> Unit_(out[t].frame, HeaderFields + out[t].iResult + j)]
<1>1. out \in [Threads -> Writing] /\ wire \in Seq(Fields) /\ k \in Nat
  BY WireAssumption DEF IInv, StreamOK
<1>2. out[t] \in [frame : DOMAIN frames, sent : Int, iResult : Int]
  BY WritingFrame DEF SendPayload
<1>3. more \in Seq(Fields)
  <2>1. \A j \in 1 .. k : Unit_(out[t].frame, HeaderFields + out[t].iResult + j) \in Fields
    BY <1>2 DEF Unit_, Fields, HeaderFields
  <2> QED BY <1>1, <2>1
<1>4. wire' \in Seq(Fields)
  <2>1. wire' = wire \o more
    BY DEF SendPayload
  <2> HIDE DEF more
  <2> QED BY <1>1, <1>3, <2>1
<1>5. out' \in [Threads -> Writing]
  <2>1. [out[t] EXCEPT !.iResult = k] \in Writing
    BY <1>1, <1>2 DEF Writing
  <2>2. out' = [out EXCEPT ![t] = [out[t] EXCEPT !.iResult = k]]
    BY DEF SendPayload
  <2> QED BY <1>1, <2>1, <2>2
<1> QED BY <1>4, <1>5, WriteKeeps DEF SendPayload, readers

LEMMA SentKeeps == ASSUME NEW t \in Threads PROVE IInv /\ Sent(t) => IInv'
<1> SUFFICES ASSUME IInv, Sent(t) PROVE IInv'
  OBVIOUS
<1>1. out' \in [Threads -> Writing] /\ wire' \in Seq(Fields)
  BY DEF IInv, StreamOK, Sent, Writing
<1> QED BY <1>1, WriteKeeps DEF Sent, readers

\* The Listener answers a command, or the connection breaks.
LEMMA AnswerKeeps ==
  ASSUME NEW handler \in Seq(PlainPackets)
  PROVE  IInv /\ Answer(handler) => IInv'
<1> SUFFICES ASSUME IInv, Answer(handler) PROVE IInv'
  OBVIOUS
<1>1. ObjectOK' /\ Sendable' = Sendable /\ ReaderOK'
  BY ObjectStays, ReaderStays DEF IInv, Answer, readers
<1>2. PacketsOK'
  BY <1>1 DEF IInv, PacketsOK, PlainPackets, Answer
<1>3. StreamOK'
  BY FieldsGrow DEF IInv, Answer, readers
<1> QED BY <1>1, <1>2, <1>3 DEF IInv

LEMMA PongKeeps == IInv /\ Pong => IInv'
<1>1. <<Raw("pong", <<>>)>> \in Seq(PlainPackets)
  BY DEF Raw, PlainPackets
<1> QED BY <1>1, AnswerKeeps DEF Pong

LEMMA VerackKeeps == IInv /\ Verack => IInv'
<1>1. Raw("verack", <<>>) \in PlainPackets
  BY DEF Raw, PlainPackets
<1>2. <<>> \in Lists /\ Inventory \in Lists
  BY Limits, WireAssumption DEF Lists
<1>3. List("addr", <<>>) \in PlainPackets /\ List("inv", Inventory) \in PlainPackets
  BY <1>2 DEF List, PlainPackets
<1>4. <<Raw("verack", <<>>), List("addr", <<>>), List("inv", Inventory)>> \in Seq(PlainPackets)
  BY <1>1, <1>3
<1> QED BY <1>4, AnswerKeeps DEF Verack

LEMMA BreakKeeps == IInv /\ Break => IInv'
<1> SUFFICES ASSUME IInv, Break PROVE IInv'
  OBVIOUS
<1>1. out' \in [Threads -> Writing] /\ wire' \in Seq(Fields)
  BY DEF IInv, StreamOK, Break
<1> QED BY <1>1, WriteKeeps DEF Break, readers

\* A step of the peer.
LEMMA ReadKeeps ==
  ASSUME IInv, UNCHANGED writers, UNCHANGED object, wire' \in Seq(Fields),
         reader' \in [doing : {"read", "lost", "validate", "checkPow", "accepted", "refused"},
                     units : Seq(Fields) \cup Seq(Nat)],
         reader'.doing = "read" => reader'.units \in Seq(Fields), ReaderOK'
  PROVE  IInv'
<1>1. ObjectOK' /\ Sendable' = Sendable
  BY ObjectStays DEF IInv
<1>2. PacketsOK'
  BY <1>1 DEF IInv, PacketsOK, PlainPackets, writers
<1>3. Fields' = Fields /\ Writing' = Writing
  BY DEF Fields, Writing, writers
<1>4. StreamOK'
  BY <1>3 DEF IInv, StreamOK, writers
<1> QED BY <1>1, <1>2, <1>4 DEF IInv

LEMMA RecvKeeps == ASSUME NEW k \in 1 .. Window PROVE IInv /\ Recv(k) => IInv'
<1> SUFFICES ASSUME IInv, Recv(k) PROVE IInv'
  OBVIOUS
<1> DEFINE units == reader.units \o SubSeq(wire, 1, k)
<1>1. /\ wire \in Seq(Fields) /\ reader.units \in Seq(Fields) /\ k \in 1 .. Len(wire)
      /\ reader \in [doing : {"read", "lost", "validate", "checkPow", "accepted", "refused"},
                    units : Seq(Fields) \cup Seq(Nat)]
      /\ reader.doing = "read"
  BY DEF IInv, StreamOK, Recv
<1>2. wire' \in Seq(Fields)
  <2>1. wire' = SubSeq(wire, k + 1, Len(wire))
    BY DEF Recv
  <2> QED BY <1>1, <2>1
<1>3. units \in Seq(Fields)
  <2>1. SubSeq(wire, 1, k) \in Seq(Fields)
    BY <1>1
  <2> QED BY <1>1, <2>1
<1>4. reader' \in {[doing |-> "lost", units |-> <<>>], [reader EXCEPT !.units = units]}
  BY Zenon DEF Recv
<1> HIDE DEF units
<1>5. /\ reader' \in [doing : {"read", "lost", "validate", "checkPow", "accepted", "refused"},
                     units : Seq(Fields) \cup Seq(Nat)]
      /\ reader'.doing \in {"read", "lost"}
      /\ reader'.doing = "read" => reader'.units \in Seq(Fields)
  <2>1. CASE reader' = [doing |-> "lost", units |-> <<>>]
    BY <2>1
  <2>2. CASE reader' = [reader EXCEPT !.units = units]
    <3>1. reader' = [doing |-> "read", units |-> units]
      BY <1>1, <2>2
    <3> QED BY <1>3, <3>1
  <2> QED BY <1>4, <2>1, <2>2
<1>6. received' \in Seq(Received')
  BY ObjectStays DEF IInv, ReaderOK, Recv
<1>7. ReaderOK'
  BY <1>5, <1>6 DEF ReaderOK
<1> QED BY <1>2, <1>5, <1>7, ReadKeeps DEF Recv

LEMMA GotKeeps == IInv /\ Got => IInv'
<1> SUFFICES ASSUME IInv, Got PROVE IInv'
  OBVIOUS
<1> DEFINE packet == Decode(frames[reader.units[1].frame])
           sent == frames[reader.units[1].frame]
<1>1. /\ wire \in Seq(Fields) /\ reader.units \in Seq(Fields) /\ received \in Seq(Received)
      /\ frames \in Seq(Sendable)
  BY DEF IInv, PacketsOK, StreamOK, ReaderOK, Got
<1>2. packet \in Sendable
  <2>1. reader.units[1] \in Fields
    BY <1>1 DEF Got, Complete, HeaderFields
  <2>2. sent \in Sendable
    BY <1>1, <2>1 DEF Fields
  <2> QED BY <2>2, DecodeSendable
<1> HIDE DEF sent
<1>3. CASE Intact(reader.units)
  <2>1. /\ received' = Append(received, packet)
        /\ reader' = [doing |-> IF packet.command = "object" THEN "validate" ELSE "read",
                      units |-> <<>>]
    BY <1>3, Zenon DEF Got
  <2> HIDE DEF packet
  <2>2. received' \in Seq(Received) /\ received' # <<>> /\ received'[Len(received')] = packet
    <3>1. packet \in Received
      BY <1>2 DEF Received
    <3> HIDE DEF Received
    <3> QED BY <1>1, <2>1, <3>1, AppendLast, ZenonT(40)
  <2>3. reader'.doing = "validate" => packet \in ObjectPackets
    BY <1>2, <2>1, OnlyTheObject
  <2>4. ReaderOK'
    <3>1. ObjectPackets' = ObjectPackets /\ Received' = Received
      BY ObjectStays DEF Got
    <3> QED BY <2>1, <2>2, <2>3, <3>1 DEF ReaderOK
  <2> QED BY <1>1, <2>1, <2>4, ReadKeeps DEF Got
<1>4. CASE ~Intact(reader.units)
  <2>1. /\ received' = Append(received, Raw("mixture", <<>>))
        /\ reader' = [doing |-> "lost", units |-> <<>>]
    BY <1>4, Zenon DEF Got
  <2>2. received' \in Seq(Received')
    BY <1>1, <2>1, ObjectStays DEF Received, Got
  <2>3. ReaderOK'
    BY <2>1, <2>2 DEF ReaderOK
  <2> QED BY <1>1, <2>1, <2>3, ReadKeeps DEF Got
<1> QED BY <1>3, <1>4

\* There is a packet with the object when its nonce is found.
LEMMA ObjectFound ==
  ASSUME ObjectOK, NEW packet \in ObjectPackets
  PROVE  \E life \in Lives_, size \in Sizes :
           object = <<[life |-> life, size |-> size, pow |-> NonceFor(life, size)]>>
<1>1. PICK i : i \in DOMAIN object
  BY Zenon DEF ObjectPackets
<1>2. object # <<>>
  <2>1. DOMAIN <<>> = {}
    OBVIOUS
  <2> QED BY <1>1, <2>1
<1> QED BY <1>2, Zenon DEF ObjectOK

\* The packet with the object has its nonce in front, and then the payload.
LEMMA ObjectPayload ==
  ASSUME ObjectOK, received # <<>>, received[Len(received)] \in ObjectPackets
  PROVE  \E life \in Lives_, size \in Sizes :
           /\ object # <<>> /\ object[1].life = life /\ object[1].size = size
           /\ life \in Int /\ life <= MaxTTL /\ size \in Nat /\ size # 0 /\ Fits(size, MaxTTL)
           /\ Last(received).bytes[1] = NonceFor(life, size)
           /\ Len(Last(received).bytes) = 1 + size
<1>1. PICK life \in Lives_, size \in Sizes :
        object = <<[life |-> life, size |-> size, pow |-> NonceFor(life, size)]>>
  BY ObjectFound
<1> DEFINE pow == NonceFor(life, size)
           rest == [j \in 1 .. size |-> 0]
           bytes == Last(received).bytes
<1>2. life \in Int /\ life <= MaxTTL /\ size \in Nat /\ size # 0 /\ Fits(size, MaxTTL)
  BY WireAssumption
<1>3. rest \in Seq(Nat) /\ Len(rest) = size
  BY <1>2
<1> HIDE DEF pow
<1>4. /\ object # <<>> /\ DOMAIN object = {1}
      /\ object[1].life = life /\ object[1].size = size /\ object[1].pow = pow
  BY <1>1 DEF pow
<1>5. bytes = <<pow>> \o rest
  <2>1. PICK i \in DOMAIN object : received[Len(received)] =
          Raw("object", <<object[i].pow>> \o [j \in 1 .. object[i].size |-> 0])
    BY DEF ObjectPackets
  <2>2. i = 1
    BY <1>4, <2>1
  <2>3. received[Len(received)] = Raw("object", <<pow>> \o rest)
    BY <1>4, <2>1, <2>2, Zenon
  <2> HIDE DEF rest
  <2> QED BY <2>3 DEF Last, Raw
<1> HIDE DEF rest, bytes
<1>6. bytes[1] = pow /\ Len(bytes) = 1 + size
  BY <1>2, <1>3, <1>5
<1> QED BY <1>2, <1>4, <1>6, Zenon DEF pow, bytes

\* validateObj looks at the length and the time: what it refuses is too large, or has
\* expired for Past, as no life is longer than MaxTTL when the search begins.
LEMMA ValidateTimeKeeps ==
  ASSUME NEW now \in 0 .. MaxTime
  PROVE  IInv /\ ValidateTime(now) => IInv'
<1> SUFFICES ASSUME IInv, ValidateTime(now) PROVE IInv'
  OBVIOUS
<1> DEFINE left == object[1].life - now
           tooLarge == Len(Last(received).bytes) > MaxObject
<1>1. /\ received # <<>> /\ received[Len(received)] \in ObjectPackets
      /\ received \in Seq(Received) /\ wire \in Seq(Fields)
  BY DEF IInv, ReaderOK, StreamOK, ValidateTime
<1>2. PICK life \in Lives_, size \in Sizes :
        /\ object # <<>> /\ object[1].life = life /\ object[1].size = size
        /\ life \in Int /\ life <= MaxTTL /\ size \in Nat
        /\ Len(Last(received).bytes) = 1 + size
  BY <1>1, ObjectPayload DEF IInv
<1>3. reader' = [doing |-> IF tooLarge \/ left > MaxTTL \/ left < -Past
                          THEN "refused" ELSE "checkPow",
                units |-> <<now>>]
  BY Zenon DEF ValidateTime
<1>4. /\ now \in Nat /\ MaxTTL \in Nat /\ Past \in Nat /\ left \in Int /\ left <= MaxTTL
      /\ (left < -Past => now >= object[1].life + Past)
  BY <1>2, WireAssumption, PowAssumption
<1>5. tooLarge => 1 + object[1].size > MaxObject
  BY <1>2
<1> HIDE DEF left, tooLarge
<1>6. UNCHANGED object /\ object' = object /\ received' = received
  BY DEF ValidateTime
<1>7. ReaderOK'
  <2>1. ObjectPackets' = ObjectPackets /\ Received' = Received
    BY <1>6, ObjectStays
  <2>2. reader'.doing \in {"checkPow", "refused"} /\ reader'.units[1] = now
    BY <1>3
  <2>3. reader'.doing = "refused" =>
          now >= object[1].life + Past \/ 1 + object[1].size > MaxObject
    <3>1. reader'.doing = "refused" => tooLarge \/ left > MaxTTL \/ left < -Past
      BY <1>3
    <3> QED BY <1>4, <1>5, <3>1
  <2> QED BY <1>1, <1>2, <1>6, <2>1, <2>2, <2>3 DEF ReaderOK
<1>8. /\ reader' \in [doing : {"read", "lost", "validate", "checkPow", "accepted", "refused"},
                     units : Seq(Fields) \cup Seq(Nat)]
      /\ reader'.doing # "read"
  BY <1>3, <1>4
<1> QED BY <1>1, <1>6, <1>7, <1>8, ReadKeeps DEF ValidateTime

\* The clock is read again for the proof of work: a nonce that was found is refused
\* only if the object has expired for Past in between.
LEMMA ValidatePowKeeps ==
  ASSUME NEW now \in 0 .. MaxTime
  PROVE  IInv /\ ValidatePow(now) => IInv'
<1> SUFFICES ASSUME IInv, ValidatePow(now) PROVE IInv'
  OBVIOUS
<1> DEFINE pow == Last(received).bytes[1]
<1>1. /\ received # <<>> /\ received[Len(received)] \in ObjectPackets
      /\ received \in Seq(Received) /\ wire \in Seq(Fields)
  BY DEF IInv, ReaderOK, StreamOK, ValidatePow
<1>2. PICK life \in Lives_, size \in Sizes :
        /\ object # <<>> /\ object[1].life = life /\ object[1].size = size
        /\ life \in Int /\ life <= MaxTTL /\ size \in Nat /\ size # 0 /\ Fits(size, MaxTTL)
        /\ pow = NonceFor(life, size)
  BY <1>1, ObjectPayload DEF IInv
<1>3. reader' = [doing |-> IF checkPow(object[1].size, pow, object[1].life - now)
                          THEN "accepted" ELSE "refused",
                units |-> <<now>>]
  BY Zenon DEF ValidatePow
<1>4. now \in Nat /\ MaxTTL \in Nat /\ Past \in Nat
  BY WireAssumption, PowAssumption
<1> HIDE DEF pow
<1>5. ASSUME ~(now >= life + Past)
      PROVE  checkPow(size, pow, life - now)
  <2>1. -Past < life - now /\ -Past < life
    BY <1>2, <1>4, <1>5
  <2>2. pow \in Nat /\ pow <= getTarget(size, Unsigned(life))
    BY <1>2, <1>4, <2>1, TargetType DEF NonceFor
  <2> QED BY <1>2, <1>4, <2>1, <2>2, FoundStaysAccepted
<1>6. object' = object /\ received' = received
  BY DEF ValidatePow
<1>7. ReaderOK'
  <2>1. ObjectPackets' = ObjectPackets /\ Received' = Received
    BY <1>6, ObjectStays
  <2>2. reader'.doing \in {"accepted", "refused"} /\ reader'.units[1] = now
    BY <1>3
  <2>3. reader'.doing = "refused" => now >= object[1].life + Past
    <3>1. reader'.doing = "refused" => ~checkPow(size, pow, life - now)
      BY <1>2, <1>3
    <3> QED BY <1>2, <1>5, <3>1
  <2> QED BY <1>1, <1>2, <1>6, <2>1, <2>2, <2>3 DEF ReaderOK
<1>8. /\ reader' \in [doing : {"read", "lost", "validate", "checkPow", "accepted", "refused"},
                     units : Seq(Fields) \cup Seq(Nat)]
      /\ reader'.doing # "read"
  BY <1>3, <1>4
<1> QED BY <1>1, <1>6, <1>7, <1>8, ReadKeeps DEF ValidatePow

LEMMA ValidatedKeeps == IInv /\ Validated => IInv'
<1> SUFFICES ASSUME IInv, Validated PROVE IInv'
  OBVIOUS
<1>1. reader' = [doing |-> "read", units |-> <<>>] /\ wire' \in Seq(Fields)
  BY DEF IInv, StreamOK, Validated
<1>2. ReaderOK'
  <2>1. received' \in Seq(Received')
    BY ObjectStays DEF IInv, ReaderOK, Validated
  <2> QED BY <1>1, <2>1 DEF ReaderOK
<1> QED BY <1>1, <1>2, ReadKeeps DEF Validated

\* processPOW finds the nonce: the packets that may be sent are one more.
LEMMA FoundKeeps ==
  ASSUME NEW life \in Lives_, NEW size \in Sizes
  PROVE  IInv /\ Found(life, size, getTarget(size, Unsigned(life))) => IInv'
<1> DEFINE pow == NonceFor(life, size)
           packet == Raw("object", <<pow>> \o [j \in 1 .. size |-> 0])
<1> SUFFICES ASSUME IInv, Found(life, size, pow) PROVE IInv'
  BY DEF NonceFor
<1>1. /\ object = <<>> /\ object' = <<[life |-> life, size |-> size, pow |-> pow]>>
      /\ Packets' = Append(Packets, packet)
      /\ UNCHANGED <<todo, frames, out, wire, reader, received>>
  BY DEF Found, readers
<1>2. ObjectOK'
  <2> HIDE DEF pow
  <2>1. object' = <<[life |-> life, size |-> size, pow |-> pow]>>
    BY <1>1
  <2> QED BY <2>1, Zenon DEF ObjectOK, pow
<1>3. ObjectPackets = {}
  <2>1. DOMAIN object = {}
    BY <1>1
  <2> QED BY <2>1, Zenon DEF ObjectPackets
<1>4. packet \in ObjectPackets'
  <2> HIDE DEF pow
  <2>1. 1 \in DOMAIN object' /\ object'[1].pow = pow /\ object'[1].size = size
    BY <1>1
  <2> QED BY <2>1, Zenon DEF ObjectPackets
<1>5. Sendable \subseteq Sendable' /\ packet \in Sendable' /\ Received \subseteq Received'
  BY <1>3, <1>4, Zenon DEF Sendable, Received, PlainPackets
<1> HIDE DEF packet
<1>6. PacketsOK'
  <2>1. Packets' \in Seq(Sendable') /\ frames' \in Seq(Sendable')
    BY <1>1, <1>5, SeqGrows DEF IInv, PacketsOK
  <2> QED BY <1>1, <2>1 DEF IInv, PacketsOK, PlainPackets
<1>7. StreamOK'
  BY <1>1, FieldsGrow DEF IInv
<1>8. ReaderOK'
  <2>1. received' \in Seq(Received')
    BY <1>1, <1>5, SeqGrows DEF IInv, ReaderOK
  <2>2. reader'.doing \notin {"validate", "checkPow", "refused"}
    BY <1>1, <1>3 DEF IInv, ReaderOK
  <2> QED BY <2>1, <2>2 DEF ReaderOK
<1> QED BY <1>2, <1>6, <1>7, <1>8 DEF IInv

\* Every step of the specification keeps the invariant.
LEMMA NextKeeps == IInv /\ [Next]_vars => IInv'
<1> SUFFICES ASSUME IInv, [Next]_vars PROVE IInv'
  OBVIOUS
<1>1. CASE ListenerBegins \/ SenderPops \/ Pong \/ Verack \/ Break
  BY <1>1, ListenerBeginsKeeps, SenderPopsKeeps, PongKeeps, VerackKeeps, BreakKeeps
<1>2. CASE \E t \in Threads : Writes(t)
  <2>1. PICK t \in Threads : Writes(t)
    BY <1>2
  <2> QED BY <2>1, SendFieldKeeps, SendPayloadKeeps, SentKeeps DEF Writes
<1>3. CASE Reads
  BY <1>3, GotKeeps, ValidatedKeeps, RecvKeeps, ValidateTimeKeeps, ValidatePowKeeps DEF Reads
<1>4. CASE \E life \in Lives_, size \in Sizes :
             Found(life, size, getTarget(size, Unsigned(life)))
  BY <1>4, FoundKeeps
<1>5. CASE UNCHANGED vars
  <2>1. out' \in [Threads -> Writing] /\ wire' \in Seq(Fields)
    BY <1>5 DEF vars, IInv, StreamOK
  <2> QED BY <1>5, <2>1, WriteKeeps DEF vars
<1> QED BY <1>1, <1>2, <1>3, <1>4, <1>5 DEF Next

\* The invariant holds throughout: what the theorems about the frames rest on.
THEOREM IInvHolds == Spec => []IInv
  BY InitIInv, NextKeeps, PTL DEF Spec

\* An object whose nonce processPOW found is refused by validateObj of a peer only
\* when it has expired for Past, or its payload is longer than validateObj takes,
\* however the bytes of other frames come in between and however long the search and
\* the way took.
THEOREM FoundIsAccepted == Spec => []RefusedOnlyWhenPast
<1>1. IInv => RefusedOnlyWhenPast
  <2> SUFFICES ASSUME IInv, reader.doing = "refused", 1 + object[1].size <= MaxObject
               PROVE  reader.units[1] >= object[1].life + Past
    BY DEF RefusedOnlyWhenPast
  <2>1. object # <<>>
    BY DEF IInv, ReaderOK
  <2>2. PICK life \in Lives_, size \in Sizes :
          object = <<[life |-> life, size |-> size, pow |-> NonceFor(life, size)]>>
    BY <2>1, Zenon DEF IInv, ObjectOK
  <2>3. object[1].size \in Nat /\ MaxObject \in Nat
    BY <2>2, WireAssumption
  <2>4. ~(1 + object[1].size > MaxObject)
    BY <2>3
  <2> QED BY <2>4 DEF IInv, ReaderOK
<1> QED BY <1>1, IInvHolds, PTL

-----------------------------------------------------------------------------
(* The types of what is written *)

\* A thread is in its frame, the connection holds fields of frames, and no more than
\* it can hold.
WritersOK ==
  /\ state \in 0 .. 2 /\ events \in 0 .. MaxEvents /\ disturbed \in BOOLEAN
  /\ \A t \in Threads :
       out[t] # Idle => /\ out[t].sent \in 0 .. HeaderFields
                        /\ out[t].iResult \in 0 .. Len(Payload(frames[out[t].frame]))
  /\ \A j \in DOMAIN wire : wire[j].field \in 1 .. Units(wire[j].frame)
  /\ Len(wire) <= Window

\* The payload of every packet has a length.
LEMMA PayloadLength ==
  ASSUME ObjectOK, NEW packet \in Sendable
  PROVE  Len(Payload(packet)) \in Nat
<1>1. CASE packet \in [command : {"getdata", "inv", "addr"}, list : Lists]
  <2>1. packet.list \in Seq(Nat) /\ Len(packet.list) \in Nat /\ "list" \in DOMAIN packet
    BY <1>1 DEF Lists
  <2>2. appendVarInt_B(Len(packet.list)) \in Seq(Nat)
    BY <2>1, VarIntType
  <2> QED BY <2>1, <2>2 DEF Payload
<1>2. CASE packet \in [command : {"version", "pong", "verack"}, bytes : Seq(Nat)]
  BY <1>2 DEF Payload
<1>3. CASE packet \in ObjectPackets
  <2>1. PICK i \in DOMAIN object :
          packet = Raw("object", <<object[i].pow>> \o [j \in 1 .. object[i].size |-> 0])
    BY <1>3 DEF ObjectPackets
  <2>2. object[i].size \in Nat
    <3>1. PICK life \in Lives_, size \in Sizes :
            object = <<[life |-> life, size |-> size, pow |-> NonceFor(life, size)]>>
      BY <1>3, ObjectFound
    <3> QED BY <3>1, WireAssumption
  <2> DEFINE S == {object[i].pow, 0}
             first == <<object[i].pow>>
             rest == [j \in 1 .. object[i].size |-> 0]
  <2>3. first \in Seq(S) /\ rest \in Seq(S)
    BY <2>2
  <2>4. "list" \notin DOMAIN packet /\ packet.bytes = first \o rest
    BY <2>1 DEF Raw
  <2> HIDE DEF S, first, rest
  <2>5. first \o rest \in Seq(S)
    BY <2>3
  <2> QED BY <2>4, <2>5 DEF Payload
<1> QED BY <1>1, <1>2, <1>3 DEF Sendable, PlainPackets

\* So has every frame, with its header.
LEMMA UnitsType ==
  ASSUME IInv, NEW n \in DOMAIN frames
  PROVE  /\ Len(Payload(frames[n])) \in Nat /\ Units(n) = 4 + Len(Payload(frames[n]))
         /\ Units(n) \in Nat /\ Units(n) >= 4
<1>1. frames[n] \in Sendable
  BY DEF IInv, PacketsOK
<1> QED BY <1>1, PayloadLength DEF Units, HeaderFields

\* A frame that is begun is behind the others, which it leaves alone.
LEMMA FramesGrow ==
  ASSUME IInv, NEW packet \in Sendable, frames' = Append(frames, packet)
  PROVE  /\ Len(frames) \in Nat /\ Len(frames') = Len(frames) + 1
         /\ DOMAIN frames = 1 .. Len(frames) /\ DOMAIN frames' = 1 .. Len(frames')
         /\ \A n \in DOMAIN frames : frames'[n] = frames[n] /\ Units(n)' = Units(n)
<1>1. frames \in Seq(Sendable)
  BY DEF IInv, PacketsOK
<1>2. /\ Len(frames) \in Nat /\ Len(frames') = Len(frames) + 1
      /\ DOMAIN frames = 1 .. Len(frames) /\ DOMAIN frames' = 1 .. Len(frames')
      /\ \A n \in DOMAIN frames : frames'[n] = frames[n]
  BY <1>1
<1>3. \A n \in DOMAIN frames : Units(n)' = Units(n)
  BY <1>2 DEF Units, Payload, HeaderFields
<1> QED BY <1>2, <1>3

LEMMA BeginKeepsTypes ==
  ASSUME IInv, WritersOK, NEW t \in Threads, NEW packet \in Sendable, Begin(t, packet),
         UNCHANGED <<state, wire, events, disturbed>>
  PROVE  WritersOK'
<1>1. /\ frames' = Append(frames, packet) /\ out \in [Threads -> Writing]
      /\ out' = [out EXCEPT ![t].frame = Len(frames')] /\ out[t] = Idle
      /\ wire \in Seq(Fields)
  BY DEF Begin, IInv, StreamOK
<1>2. /\ \A n \in DOMAIN frames : frames'[n] = frames[n] /\ Units(n)' = Units(n)
      /\ Len(frames') \in DOMAIN frames' /\ frames'[Len(frames')] = packet
  <2>1. frames \in Seq(Sendable)
    BY DEF IInv, PacketsOK
  <2> QED BY <1>1, <2>1, FramesGrow
<1>3. ASSUME NEW u \in Threads, out'[u] # Idle
      PROVE  /\ out'[u].sent \in 0 .. HeaderFields
             /\ out'[u].iResult \in 0 .. Len(Payload(frames'[out'[u].frame]))
  <2>1. CASE u = t
    <3>1. out'[u].sent = 0 /\ out'[u].iResult = 0 /\ out'[u].frame = Len(frames')
      BY <1>1, <2>1 DEF Idle
    <3>2. Len(Payload(packet)) \in Nat
      BY PayloadLength
    <3> QED BY <1>2, <3>1, <3>2 DEF HeaderFields
  <2>2. CASE u # t
    <3>1. out'[u] = out[u] /\ out[u].frame \in DOMAIN frames
      BY <1>1, <1>3, <2>2 DEF Writing
    <3> QED BY <1>2, <1>3, <3>1 DEF WritersOK
  <2> QED BY <2>1, <2>2
<1>4. \A j \in DOMAIN wire : wire[j].frame \in DOMAIN frames
  BY <1>1, FieldOf
<1> QED BY <1>1, <1>2, <1>3, <1>4 DEF WritersOK, Units

\* A step of a thread in its frame leaves the frames as they are, and puts fields of
\* this frame on the connection.
LEMMA WriteKeepsTypes ==
  ASSUME IInv, WritersOK, NEW t \in Threads, out[t] # Idle, NEW sent, NEW iResult,
         UNCHANGED <<state, frames>>, events' \in 0 .. MaxEvents, disturbed' \in BOOLEAN,
         out' = [out EXCEPT ![t] = [frame |-> out[t].frame, sent |-> sent, iResult |-> iResult]],
         sent \in 0 .. HeaderFields, iResult \in 0 .. Len(Payload(frames[out[t].frame])),
         Len(wire') <= Window,
         \A j \in DOMAIN wire' : \/ j \in DOMAIN wire /\ wire'[j] = wire[j]
                                 \/ wire'[j].field \in 1 .. Units(wire'[j].frame)
  PROVE  WritersOK'
<1>1. out \in [Threads -> Writing]
  BY DEF IInv, StreamOK
<1>2. \A n : Units(n)' = Units(n) /\ Payload(frames[n])' = Payload(frames[n])
  BY DEF Units, Payload, HeaderFields
<1>3. ASSUME NEW u \in Threads, out'[u] # Idle
      PROVE  /\ out'[u].sent \in 0 .. HeaderFields
             /\ out'[u].iResult \in 0 .. Len(Payload(frames'[out'[u].frame]))
  <2>1. CASE u = t
    BY <1>1, <2>1
  <2>2. CASE u # t
    <3>1. out'[u] = out[u]
      BY <1>1, <2>2
    <3> QED BY <1>3, <3>1 DEF WritersOK
  <2> QED BY <2>1, <2>2
<1>4. \A j \in DOMAIN wire' : wire'[j].field \in 1 .. Units(wire'[j].frame)
  BY DEF WritersOK
<1> QED BY <1>3, <1>4 DEF WritersOK, Units

LEMMA SendFieldKeepsTypes ==
  ASSUME IInv, WritersOK, NEW t \in Threads, SendField(t)
  PROVE  WritersOK'
<1> DEFINE o == out[t]
<1>1. /\ o \in [frame : DOMAIN frames, sent : Int, iResult : Int] /\ o # Idle
      /\ wire \in Seq(Fields) /\ out \in [Threads -> Writing]
  BY WritingFrame DEF SendField, IInv, StreamOK
<1>2. /\ o.sent \in 0 .. 4 /\ o.sent < 4 /\ o.iResult \in 0 .. Len(Payload(frames[o.frame]))
      /\ o.frame \in DOMAIN frames /\ Units(o.frame) \in Nat /\ Units(o.frame) >= 4
  BY <1>1, UnitsType DEF WritersOK, SendField, HeaderFields
<1>3. out' = [out EXCEPT ![t] = [frame |-> o.frame, sent |-> o.sent + 1, iResult |-> o.iResult]]
  <2>1. out' = [out EXCEPT ![t] = [out[t] EXCEPT !.sent = out[t].sent + 1]]
    BY DEF SendField
  <2>2. [o EXCEPT !.sent = o.sent + 1]
          = [frame |-> o.frame, sent |-> o.sent + 1, iResult |-> o.iResult]
    BY <1>1
  <2> QED BY <2>1, <2>2
<1>4. /\ wire' = Append(wire, Unit_(o.frame, o.sent + 1)) /\ Len(wire) < Window
      /\ UNCHANGED <<state, frames, events, disturbed>>
  BY DEF SendField
<1>5. /\ Len(wire') = Len(wire) + 1 /\ DOMAIN wire' = 1 .. Len(wire')
      /\ \A j \in DOMAIN wire : wire'[j] = wire[j]
      /\ wire'[Len(wire')] = Unit_(o.frame, o.sent + 1)
      /\ DOMAIN wire = 1 .. Len(wire) /\ Len(wire) \in Nat
  BY <1>1, <1>4
<1> HIDE DEF o
<1>6. \A j \in DOMAIN wire' : \/ j \in DOMAIN wire /\ wire'[j] = wire[j]
                              \/ wire'[j].field \in 1 .. Units(wire'[j].frame)
  <2>1. wire'[Len(wire')].field \in 1 .. Units(wire'[Len(wire')].frame)
    BY <1>2, <1>5 DEF Unit_
  <2> QED BY <1>5, <2>1
<1>7. Len(wire') <= Window /\ o.sent + 1 \in 0 .. HeaderFields
  BY <1>2, <1>4, <1>5, WireAssumption DEF HeaderFields
<1>8. events' \in 0 .. MaxEvents /\ disturbed' \in BOOLEAN /\ out[t] # Idle
  BY <1>1, <1>4 DEF WritersOK, o
<1> QED BY <1>2, <1>3, <1>4, <1>6, <1>7, <1>8, WriteKeepsTypes DEF o

\* The units of a payload that are sent next, behind those on the connection.
LEMMA MoreOnTheWire ==
  ASSUME NEW k \in Nat, NEW n, NEW i \in Nat, NEW S, NEW w \in Seq(S), NEW w2,
         w2 = w \o [j \in 1 .. k |-> Unit_(n, i + j)]
  PROVE  /\ Len(w2) = Len(w) + k /\ DOMAIN w2 = 1 .. Len(w2)
         /\ DOMAIN w = 1 .. Len(w) /\ Len(w) \in Nat
         /\ \A j \in DOMAIN w : w2[j] = w[j]
         /\ \A j \in 1 .. k : w2[Len(w) + j] = Unit_(n, i + j)
<1> DEFINE more == [j \in 1 .. k |-> Unit_(n, i + j)]
           T == {Unit_(n, i + j) : j \in 1 .. k}
<1>1. more \in Seq(T) /\ Len(more) = k /\ \A j \in 1 .. k : more[j] = Unit_(n, i + j)
  <2>1. more \in [1 .. k -> T] /\ \A j \in 1 .. k : more[j] = Unit_(n, i + j)
    OBVIOUS
  <2> HIDE DEF T, more
  <2> QED BY <2>1
<1> HIDE DEF more, T
<1>2. w2 = w \o more
  BY DEF more
<1> QED BY <1>1, <1>2

\* Where a thread is that sends k more units of its payload.
LEMMA SendPayloadWhere ==
  ASSUME IInv, WritersOK, NEW t \in Threads, NEW k \in 1 .. Window, SendPayload(t, k)
  PROVE  /\ out[t] \in [frame : DOMAIN frames, sent : Int, iResult : Int] /\ out[t] # Idle
         /\ out[t].sent = 4 /\ out[t].iResult \in Nat /\ k \in Nat /\ k >= 1
         /\ Len(Payload(frames[out[t].frame])) \in Nat
         /\ Units(out[t].frame) = 4 + Len(Payload(frames[out[t].frame]))
         /\ k <= Len(Payload(frames[out[t].frame])) - out[t].iResult
         /\ out' = [out EXCEPT ![t] = [frame |-> out[t].frame, sent |-> 4, iResult |-> k]]
         /\ Len(wire') <= Window
         /\ Len(wire') = Len(wire) + k /\ DOMAIN wire' = 1 .. Len(wire')
         /\ DOMAIN wire = 1 .. Len(wire) /\ Len(wire) \in Nat
         /\ \A j \in DOMAIN wire : wire'[j] = wire[j]
         /\ \A j \in 1 .. k :
              wire'[Len(wire) + j] = Unit_(out[t].frame, 4 + out[t].iResult + j)
         /\ UNCHANGED <<state, Packets, todo, frames, reader, received>>
<1> DEFINE o == out[t]
           length == Len(Payload(frames[o.frame]))
<1>1. o \in [frame : DOMAIN frames, sent : Int, iResult : Int] /\ o # Idle
  BY WritingFrame DEF SendPayload
<1>2. /\ length \in Nat /\ o.sent = 4 /\ o.iResult \in 0 .. length
      /\ Units(o.frame) = 4 + length
  BY <1>1, UnitsType DEF WritersOK, SendPayload, HeaderFields
<1>3. o.iResult \in Nat
  BY <1>2
<1>4. /\ k \in 1 .. length - o.iResult /\ Len(wire') <= Window
      /\ wire' = wire \o [j \in 1 .. k |-> Unit_(o.frame, (4 + o.iResult) + j)]
      /\ out' = [out EXCEPT ![t].iResult = k]
      /\ UNCHANGED <<state, Packets, todo, frames, reader, received>>
  BY DEF SendPayload, HeaderFields, readers
<1>5. out' = [out EXCEPT ![t] = [frame |-> o.frame, sent |-> 4, iResult |-> k]]
  <2>1. out' = [out EXCEPT ![t] = [out[t] EXCEPT !.iResult = k]]
    BY <1>4
  <2>2. [o EXCEPT !.iResult = k] = [frame |-> o.frame, sent |-> 4, iResult |-> k]
    BY <1>1, <1>2
  <2> QED BY <2>1, <2>2
<1> HIDE DEF o, length
<1>6. k \in Nat /\ k >= 1 /\ k <= length - o.iResult /\ 4 + o.iResult \in Nat
  BY <1>2, <1>3, <1>4, SMTT(40)
<1>7. /\ Len(wire') = Len(wire) + k /\ DOMAIN wire' = 1 .. Len(wire')
      /\ DOMAIN wire = 1 .. Len(wire) /\ Len(wire) \in Nat
      /\ \A j \in DOMAIN wire : wire'[j] = wire[j]
      /\ \A j \in 1 .. k : wire'[Len(wire) + j] = Unit_(o.frame, (4 + o.iResult) + j)
  <2>1. wire \in Seq(Fields)
    BY DEF IInv, StreamOK
  <2> QED BY <1>4, <1>6, <2>1, MoreOnTheWire
<1> QED BY <1>1, <1>2, <1>3, <1>4, <1>5, <1>6, <1>7 DEF o, length

LEMMA SendPayloadKeepsTypes ==
  ASSUME IInv, WritersOK, NEW t \in Threads, NEW k \in 1 .. Window, SendPayload(t, k)
  PROVE  WritersOK'
<1> DEFINE o == out[t]
           length == Len(Payload(frames[o.frame]))
<1>1. /\ o \in [frame : DOMAIN frames, sent : Int, iResult : Int] /\ o # Idle
      /\ o.sent = 4 /\ o.iResult \in Nat /\ k \in Nat /\ k >= 1 /\ length \in Nat
      /\ Units(o.frame) = 4 + length /\ k <= length - o.iResult
      /\ out' = [out EXCEPT ![t] = [frame |-> o.frame, sent |-> 4, iResult |-> k]]
      /\ Len(wire') <= Window /\ UNCHANGED <<state, frames>>
      /\ Len(wire') = Len(wire) + k /\ DOMAIN wire' = 1 .. Len(wire')
      /\ DOMAIN wire = 1 .. Len(wire) /\ Len(wire) \in Nat
      /\ \A j \in DOMAIN wire : wire'[j] = wire[j]
      /\ \A j \in 1 .. k : wire'[Len(wire) + j] = Unit_(o.frame, 4 + o.iResult + j)
  BY SendPayloadWhere
<1>2. events' \in 0 .. MaxEvents /\ disturbed' \in BOOLEAN
  <2>1. (Event /\ disturbed' = TRUE) \/ UNCHANGED <<events, disturbed>>
    BY DEF SendPayload
  <2>2. events \in 0 .. MaxEvents /\ disturbed \in BOOLEAN /\ MaxEvents \in Nat
    BY WireAssumption DEF WritersOK
  <2>3. events' = events \/ (events < MaxEvents /\ events' = events + 1)
    BY <2>1, Zenon DEF Event
  <2>4. disturbed' \in BOOLEAN
    BY <2>1, <2>2, Zenon
  <2> QED BY <2>2, <2>3, <2>4
<1> HIDE DEF o, length
<1>3. \A j \in DOMAIN wire' : \/ j \in DOMAIN wire /\ wire'[j] = wire[j]
                              \/ wire'[j].field \in 1 .. Units(wire'[j].frame)
  <2> SUFFICES ASSUME NEW j \in DOMAIN wire', j \notin DOMAIN wire
               PROVE  wire'[j].field \in 1 .. Units(wire'[j].frame)
    BY <1>1
  <2>1. j - Len(wire) \in 1 .. k /\ j = Len(wire) + (j - Len(wire))
    BY <1>1
  <2>2. wire'[j] = Unit_(o.frame, 4 + o.iResult + (j - Len(wire)))
    BY <1>1, <2>1
  <2> QED BY <1>1, <2>1, <2>2, SMTT(40) DEF Unit_
<1>4. k \in 0 .. length /\ 4 \in 0 .. HeaderFields /\ out[t] # Idle
  BY <1>1 DEF HeaderFields, o
<1> QED BY <1>1, <1>2, <1>3, <1>4, WriteKeepsTypes DEF o, length

LEMMA SentKeepsTypes ==
  ASSUME IInv, WritersOK, NEW t \in Threads, Sent(t)
  PROVE  WritersOK'
<1>1. out \in [Threads -> Writing] /\ out' = [out EXCEPT ![t] = Idle]
  BY DEF IInv, StreamOK, Sent
<1>2. \A u \in Threads : out'[u] # Idle => out'[u] = out[u]
  BY <1>1
<1>3. UNCHANGED <<frames, wire, events, disturbed>> /\ state' \in 0 .. 2
  BY DEF WritersOK, Sent
<1> QED BY <1>2, <1>3 DEF WritersOK, Units

\* A step that does not write, after which the connection holds nothing new.
LEMMA OthersKeepTypes ==
  ASSUME WritersOK, UNCHANGED <<out, frames>>, state' \in 0 .. 2, events' \in 0 .. MaxEvents,
         disturbed' \in BOOLEAN, Len(wire') <= Window,
         \A j \in DOMAIN wire' : \E i \in DOMAIN wire : wire'[j] = wire[i]
  PROVE  WritersOK'
  BY DEF WritersOK, Units

\* What the peer takes from the connection.
LEMMA RecvTakes ==
  ASSUME IInv, NEW k \in 1 .. Window, Recv(k)
  PROVE  /\ wire \in Seq(Fields) /\ DOMAIN wire = 1 .. Len(wire) /\ Len(wire) \in Nat
         /\ k \in 1 .. Len(wire)
         /\ Len(wire') = Len(wire) - k /\ DOMAIN wire' = 1 .. Len(wire')
         /\ \A j \in DOMAIN wire' : k + j \in DOMAIN wire /\ wire'[j] = wire[k + j]
<1>1. wire \in Seq(Fields) /\ k \in 1 .. Len(wire) /\ wire' = SubSeq(wire, k + 1, Len(wire))
  BY DEF IInv, StreamOK, Recv
<1>2. /\ Len(wire') = Len(wire) - k /\ DOMAIN wire' = 1 .. Len(wire')
      /\ DOMAIN wire = 1 .. Len(wire) /\ Len(wire) \in Nat
      /\ \A j \in 1 .. Len(wire) - k : wire'[j] = wire[k + j]
  BY <1>1, Behind
<1>3. ASSUME NEW j \in DOMAIN wire' PROVE k + j \in DOMAIN wire /\ wire'[j] = wire[k + j]
  BY <1>1, <1>2
<1> QED BY <1>1, <1>2, <1>3

LEMMA NextKeepsTypes == IInv /\ WritersOK /\ [Next]_vars => WritersOK'
<1> SUFFICES ASSUME IInv, WritersOK, [Next]_vars PROVE WritersOK'
  OBVIOUS
<1>0. /\ state \in 0 .. 2 /\ events \in 0 .. MaxEvents /\ disturbed \in BOOLEAN
      /\ MaxEvents \in Nat /\ Len(wire) <= Window
  BY WireAssumption DEF WritersOK
<1>1. CASE ListenerBegins
  <2>1. Head(todo) \in Sendable
    BY <1>1 DEF IInv, PacketsOK, ListenerBegins, Sendable
  <2> QED BY <1>1, <2>1, BeginKeepsTypes DEF ListenerBegins, Threads
<1>2. CASE SenderPops
  <2>1. Head(Packets) \in Sendable
    BY <1>2 DEF IInv, PacketsOK, SenderPops
  <2> QED BY <1>2, <2>1, BeginKeepsTypes DEF SenderPops, Threads
<1>3. CASE Pong \/ Verack
  <2>1. PICK handler : Answer(handler)
    BY <1>3 DEF Pong, Verack
  <2> QED BY <1>0, <2>1, OthersKeepTypes DEF Answer, Event
<1>4. CASE Break
  BY <1>0, <1>4, OthersKeepTypes DEF Break
<1>5. CASE \E t \in Threads : Writes(t)
  BY <1>5, SendFieldKeepsTypes, SendPayloadKeepsTypes, SentKeepsTypes DEF Writes
<1>6. ASSUME NEW k \in 1 .. Window, Recv(k) PROVE WritersOK'
  <2>1. UNCHANGED <<out, frames, state, events, disturbed>>
    BY <1>6 DEF Recv, writers
  <2>2. /\ \A j \in DOMAIN wire' : k + j \in DOMAIN wire /\ wire'[j] = wire[k + j]
        /\ Len(wire') <= Window
    BY <1>0, <1>6, RecvTakes, WireAssumption
  <2> QED BY <1>0, <2>1, <2>2, OthersKeepTypes
<1>7. CASE Got \/ Validated \/ \E now \in 0 .. MaxTime : ValidateTime(now) \/ ValidatePow(now)
  BY <1>0, <1>7, OthersKeepTypes DEF Got, Validated, ValidateTime, ValidatePow, writers
<1>8. CASE \E life \in Lives_, size \in Sizes :
             Found(life, size, getTarget(size, Unsigned(life)))
  BY <1>0, <1>8, OthersKeepTypes DEF Found
<1>9. CASE UNCHANGED vars
  BY <1>0, <1>9, OthersKeepTypes DEF vars
<1> QED BY <1>1, <1>2, <1>3, <1>4, <1>5, <1>6, <1>7, <1>8, <1>9 DEF Next, Reads

LEMMA WritersHold == Spec => []WritersOK
<1>1. Init => WritersOK
  <2> SUFFICES ASSUME Init PROVE WritersOK
    OBVIOUS
  <2>1. Len(wire) = 0 /\ DOMAIN wire = {} /\ \A t \in Threads : out[t] = Idle
    BY DEF Init
  <2>2. disturbed \in BOOLEAN
    BY Zenon DEF Init
  <2>3. state \in 0 .. 2 /\ events \in 0 .. MaxEvents /\ 0 <= Window
    BY WireAssumption DEF Init
  <2> QED BY <2>1, <2>2, <2>3 DEF WritersOK
<1> QED BY <1>1, IInvHolds, NextKeepsTypes, PTL DEF Spec

\* Every variable of the connection keeps its type, and so does the nonce that is found
\* for an object of ours, if no object waits so long for the search to start that it
\* has expired for Past by then: of such a life getTarget takes a number of eight
\* bytes, whose product may wrap to nothing.
THEOREM WireType ==
  ASSUME \A life \in Lives_ : -Past < life
  PROVE  Spec => []TypeOK
<1>1. IInv /\ WritersOK => TypeOK
  <2> SUFFICES ASSUME IInv, WritersOK PROVE TypeOK
    OBVIOUS
  <2>1. /\ state \in 0 .. 2 /\ events \in 0 .. MaxEvents /\ disturbed \in BOOLEAN
        /\ Len(wire) <= Window
        /\ reader.doing \in {"read", "lost", "validate", "checkPow", "accepted", "refused"}
    BY DEF IInv, WritersOK, StreamOK
  <2>2. ASSUME NEW t \in Threads
        PROVE  /\ out[t].frame \in 0 .. Len(frames) /\ out[t].sent \in 0 .. HeaderFields
               /\ out[t] # Idle => out[t].iResult \in 0 .. Len(Payload(frames[out[t].frame]))
    <3>1. DOMAIN frames = 1 .. Len(frames) /\ Len(frames) \in Nat
      BY DEF IInv, PacketsOK
    <3>2. CASE out[t] = Idle
      BY <3>1, <3>2 DEF Idle, HeaderFields
    <3>3. CASE out[t] # Idle
      BY <3>1, <3>3, WritingFrame DEF WritersOK
    <3> QED BY <3>2, <3>3
  <2>3. \A j \in DOMAIN wire :
          wire[j].frame \in DOMAIN frames /\ wire[j].field \in 1 .. Units(wire[j].frame)
    BY FieldOf DEF IInv, StreamOK, WritersOK
  <2>4. ASSUME NEW j \in DOMAIN object
        PROVE  /\ object[j].life \in Lives_ /\ object[j].size \in Sizes
               /\ object[j].pow \in 0 .. Word - 1
    <3>1. object # <<>>
      BY DOMAIN <<>> = {}
    <3>2. PICK life \in Lives_, size \in Sizes :
            object = <<[life |-> life, size |-> size, pow |-> NonceFor(life, size)]>>
      BY <3>1 DEF IInv, ObjectOK
    <3>3. /\ life \in Int /\ life <= MaxTTL /\ -Past < life /\ MaxTTL \in Nat
          /\ size \in Nat /\ size # 0 /\ Fits(size, MaxTTL)
      BY WireAssumption
    <3> DEFINE pow == NonceFor(life, size)
    <3>4. pow \in Nat /\ pow < Word
      BY <3>3, TargetType DEF NonceFor
    <3> HIDE DEF pow
    <3>5. object = <<[life |-> life, size |-> size, pow |-> pow]>>
      BY <3>2 DEF pow
    <3> QED BY <3>4, <3>5, PowAssumption
  <2> QED BY <2>1, <2>2, <2>3, <2>4 DEF TypeOK
<1> QED BY <1>1, IInvHolds, WritersHold, PTL

-----------------------------------------------------------------------------
(* The order of what is written and read *)

\* The fields of the frame that the peer is reading.
Taken == IF reader.doing = "read" THEN reader.units ELSE <<>>

\* One thread writes at a time, the last frame: the Listener during the handshake, the
\* Sender afterwards.  It sends the payload, once, when the header is sent.
OneWriter ==
  /\ state = 1 => out["sender"] = Idle
  /\ state = 2 => out["listener"] = Idle /\ todo = <<>>
  /\ out["listener"] = Idle \/ out["sender"] = Idle
  /\ \A t \in Threads :
       out[t] # Idle => /\ out[t].frame = Len(frames)
                        /\ out[t].iResult \in {0, Len(Payload(frames[out[t].frame]))}
                        /\ out[t].sent < HeaderFields => out[t].iResult = 0

\* The peer has read a beginning of the frames, and a beginning of the next one.
ReadInOrder ==
  /\ reader.doing # "lost"
  /\ Len(received) <= Len(frames)
  /\ \A j \in DOMAIN received : received[j] = frames[j]
  /\ Taken # <<>> =>
       Len(received) < Len(frames) /\ Len(Taken) <= Units(Len(received) + 1)
  /\ \A j \in DOMAIN Taken : Taken[j] = Unit_(Len(received) + 1, j)

\* Where each frame starts in the stream of all the fields, and where the next one will.
Starts(start) ==
  /\ start \in [1 .. Len(frames) + 1 -> Int]
  /\ \A n \in DOMAIN frames : start[n + 1] = start[n] + Units(n)
  /\ \A m \in DOMAIN frames, n \in 1 .. Len(frames) + 1 :
       m < n => start[m] + Units(m) <= start[n]

\* What is on the connection follows what the peer has read, field after field, up to
\* the place where the thread is that writes.
Streamed(start) ==
  LET next == start[Len(received) + 1] + Len(Taken)
  IN  /\ \A j \in DOMAIN wire : start[wire[j].frame] + wire[j].field = next + j
      /\ \A t \in Threads :
           out[t] # Idle =>
             start[Len(frames)] + (out[t].sent + out[t].iResult) = next + Len(wire)
      /\ (\A t \in Threads : out[t] = Idle) => start[Len(frames) + 1] = next + Len(wire)

InOrder ==
  ~disturbed => OneWriter /\ ReadInOrder /\ \E start : Starts(start) /\ Streamed(start)

\* The lengths of what there is.
LEMMA StreamTypes ==
  ASSUME IInv
  PROVE  /\ Len(frames) \in Nat /\ DOMAIN frames = 1 .. Len(frames)
         /\ \A n \in DOMAIN frames : Units(n) \in Nat /\ Units(n) >= 4
         /\ wire \in Seq(Fields) /\ Len(wire) \in Nat /\ DOMAIN wire = 1 .. Len(wire)
         /\ \A j \in DOMAIN wire : wire[j].frame \in DOMAIN frames
         /\ Len(received) \in Nat /\ DOMAIN received = 1 .. Len(received)
         /\ Taken \in Seq(Fields) /\ Len(Taken) \in Nat /\ DOMAIN Taken = 1 .. Len(Taken)
         /\ out \in [Threads -> Writing]
<1>1. frames \in Seq(Sendable) /\ wire \in Seq(Fields) /\ received \in Seq(Received)
  BY DEF IInv, PacketsOK, StreamOK, ReaderOK
<1>2. Taken \in Seq(Fields)
  BY DEF IInv, StreamOK, Taken
<1>3. \A n \in DOMAIN frames : Units(n) \in Nat /\ Units(n) >= 4
  BY UnitsType
<1>4. \A j \in DOMAIN wire : wire[j].frame \in DOMAIN frames
  BY <1>1, FieldOf
<1>5. out \in [Threads -> Writing]
  BY DEF IInv, StreamOK
<1> QED BY <1>1, <1>2, <1>3, <1>4, <1>5

\* No two fields are at the same place of the stream.
LEMMA OneField ==
  ASSUME IInv, NEW start, Starts(start), NEW f \in DOMAIN frames, NEW g \in DOMAIN frames,
         NEW x \in 1 .. Units(f), NEW y \in 1 .. Units(g), start[f] + x = start[g] + y
  PROVE  f = g /\ x = y
<1>1. /\ f \in Nat /\ g \in Nat /\ Units(f) \in Nat /\ Units(g) \in Nat
      /\ start[f] \in Int /\ start[g] \in Int
      /\ f < g => start[f] + Units(f) <= start[g]
      /\ g < f => start[g] + Units(g) <= start[f]
  BY StreamTypes, SMTT(40) DEF Starts
<1>2. ~(f < g) /\ ~(g < f)
  BY <1>1
<1> QED BY <1>1, <1>2

\* What the connection holds begins with the fields that the peer waits for.
LEMMA NextOnTheWire ==
  ASSUME IInv, WritersOK, ReadInOrder, NEW start, Starts(start), Streamed(start),
         NEW j \in DOMAIN wire
  PROVE  /\ Len(received) + 1 \in DOMAIN frames
         /\ Len(Taken) + j <= Units(Len(received) + 1) =>
              wire[j] = Unit_(Len(received) + 1, Len(Taken) + j)
<1> DEFINE r == Len(received) + 1
           n == Len(Taken)
           f == wire[j].frame
           x == wire[j].field
<1>1. /\ Len(frames) \in Nat /\ DOMAIN frames = 1 .. Len(frames) /\ r \in Nat /\ r >= 1
      /\ n \in Nat /\ j \in Nat /\ j >= 1
      /\ f \in DOMAIN frames /\ Units(f) \in Nat /\ wire[j] \in Fields
      /\ r <= Len(frames) + 1
  BY StreamTypes DEF ReadInOrder
<1>2. x \in 1 .. Units(f)
  BY DEF WritersOK
<1>3. start[f] + x = start[r] + n + j
  BY DEF Streamed
<1>4. /\ start[f] \in Int /\ start[r] \in Int
      /\ f < r => start[f] + Units(f) <= start[r]
  BY <1>1 DEF Starts
<1> HIDE DEF r, n, f, x
<1>5. ~(f < r)
  BY <1>1, <1>2, <1>3, <1>4, SMTT(40)
<1>6. r \in DOMAIN frames
  BY <1>1, <1>5
<1>7. ASSUME n + j <= Units(r) PROVE wire[j] = Unit_(r, n + j)
  <2>1. n + j \in 1 .. Units(r) /\ start[f] + x = start[r] + (n + j)
    BY <1>1, <1>3, <1>4, <1>6, <1>7, StreamTypes, SMTT(40)
  <2>2. f = r /\ x = n + j
    BY <1>1, <1>2, <1>6, <2>1, OneField
  <2>3. wire[j] = [frame |-> f, field |-> x]
    BY <1>1 DEF Fields, f, x
  <2> QED BY <2>2, <2>3 DEF Unit_
<1> QED BY <1>6, <1>7 DEF r, n

\* A step that leaves the frames, the connection and the peer's fields alone.
LEMMA StreamStays ==
  ASSUME UNCHANGED <<frames, out, wire, received, Taken>>, reader'.doing # "lost"
  PROVE  /\ ReadInOrder => ReadInOrder'
         /\ (\E start : Starts(start) /\ Streamed(start)) =>
              (\E start : Starts(start) /\ Streamed(start))'
<1>1. \A n : Units(n)' = Units(n)
  BY DEF Units, Payload, HeaderFields
<1>2. ReadInOrder => ReadInOrder'
  BY <1>1 DEF ReadInOrder
<1>3. ASSUME NEW start, Starts(start), Streamed(start) PROVE Starts(start)' /\ Streamed(start)'
  BY <1>1, <1>3 DEF Starts, Streamed
<1> QED BY <1>2, <1>3

\* The places are numbers.
LEMMA StartsType ==
  ASSUME IInv, NEW start, Starts(start)
  PROVE  /\ \A n \in DOMAIN frames : start[n] \in Int /\ start[n + 1] \in Int
         /\ ReadInOrder => start[Len(received) + 1] \in Int
<1>1. /\ start \in [1 .. Len(frames) + 1 -> Int] /\ Len(frames) \in Nat
      /\ DOMAIN frames = 1 .. Len(frames) /\ Len(received) \in Nat
  BY StreamTypes DEF Starts
<1>2. ReadInOrder => Len(received) + 1 \in 1 .. Len(frames) + 1
  BY <1>1 DEF ReadInOrder
<1> QED BY <1>1, <1>2

\* Two counts that agree agree further on.
LEMMA AlongTheWire ==
  ASSUME NEW a \in Int, NEW b \in Int, NEW c \in Int, NEW d \in Int, a + b = c + d
  PROVE  /\ \A i \in Int : a + (b + (i - d)) = c + i
         /\ \A i \in Int : a + (b + i) = c + (d + i)
OBVIOUS

\* N things of these sizes lie one behind the other from these places on.
Placed(start, size, N) ==
  /\ \A n \in 1 .. N : start[n + 1] = start[n] + size[n]
  /\ \A m \in 1 .. N, n \in 1 .. N + 1 : m < n => start[m] + size[m] <= start[n]

\* One more place, behind the others.
LEMMA OneMorePlace ==
  ASSUME NEW N \in Nat, NEW start \in [1 .. N + 1 -> Int], NEW size \in [1 .. N + 1 -> Nat],
         Placed(start, size, N)
  PROVE  \E new \in [1 .. N + 2 -> Int] :
           Placed(new, size, N + 1) /\ \A n \in 1 .. N + 1 : new[n] = start[n]
<1>0. /\ \A n \in 1 .. N : start[n + 1] = start[n] + size[n]
      /\ \A m \in 1 .. N, n \in 1 .. N + 1 : m < n => start[m] + size[m] <= start[n]
  BY DEF Placed
<1> DEFINE last == start[N + 1] + size[N + 1]
           new == [n \in 1 .. N + 2 |-> IF n = N + 2 THEN last ELSE start[n]]
<1>1. last \in Int /\ start[N + 1] \in Int /\ size[N + 1] \in Nat
  OBVIOUS
<1>2. new[N + 2] = last /\ \A n \in 1 .. N + 1 : new[n] = start[n]
  OBVIOUS
<1>3. new \in [1 .. N + 2 -> Int]
  <2> HIDE DEF last
  <2> QED BY <1>1
<1> HIDE DEF new
<1>4. \A n \in 1 .. N + 1 : new[n + 1] = new[n] + size[n]
  <2> SUFFICES ASSUME NEW n \in 1 .. N + 1 PROVE new[n + 1] = new[n] + size[n]
    OBVIOUS
  <2>1. CASE n = N + 1
    BY <1>2, <2>1
  <2>2. CASE n # N + 1
    <3>1. n \in 1 .. N /\ n + 1 \in 1 .. N + 1
      BY <2>2
    <3>2. start[n + 1] = start[n] + size[n]
      BY <1>0, <3>1
    <3>3. new[n + 1] = start[n + 1] /\ new[n] = start[n]
      BY <1>2, <3>1
    <3> QED BY <3>2, <3>3
  <2> QED BY <2>1, <2>2
<1>5. ASSUME NEW m \in 1 .. N + 1, NEW n \in 1 .. N + 2, m < n
      PROVE  new[m] + size[m] <= new[n]
  <2>1. CASE n # N + 2
    <3>1. m \in 1 .. N /\ n \in 1 .. N + 1
      BY <1>5, <2>1
    <3>2. start[m] + size[m] <= start[n]
      BY <1>0, <1>5, <3>1
    <3> QED BY <1>2, <3>1, <3>2
  <2>2. CASE n = N + 2 /\ m = N + 1
    BY <1>1, <1>2, <2>2
  <2>3. CASE n = N + 2 /\ m # N + 1
    <3>1. start[m] + size[m] <= start[N + 1] /\ start[m] \in Int /\ size[m] \in Nat
      BY <1>0, <2>3
    <3>2. new[m] = start[m] /\ new[n] = start[N + 1] + size[N + 1]
      BY <1>2, <2>3
    <3> QED BY <1>1, <3>1, <3>2
  <2> QED BY <2>1, <2>2, <2>3
<1>6. Placed(new, size, N + 1)
  <2>1. N + 1 + 1 = N + 2
    OBVIOUS
  <2> QED BY <1>4, <1>5, <2>1 DEF Placed
<1> QED BY <1>2, <1>3, <1>6

\* A step that writes nothing.
LEMMA WriterStays ==
  ASSUME OneWriter, UNCHANGED <<out, frames>>, state' \in {0, state},
         state' = 2 => todo' = todo
  PROVE  OneWriter'
  BY DEF OneWriter

\* A frame is begun when no thread is in one: by the Listener before state is 2, by the
\* Sender after that.
LEMMA BeginKeepsOrder ==
  ASSUME IInv, InOrder, ~disturbed, NEW t \in Threads, NEW packet \in Sendable,
         Begin(t, packet), UNCHANGED <<state, wire, reader, received, disturbed>>,
         \A u \in Threads : out[u] = Idle,
         state = 1 => t = "listener", state = 2 => t = "sender" /\ todo' = todo
  PROVE  InOrder'
<1>0. PICK N \in Nat : N = Len(frames)
  BY StreamTypes
<1>1. PICK start : Starts(start) /\ Streamed(start)
  BY DEF InOrder
<1>2. /\ DOMAIN frames = 1 .. N
      /\ \A n \in DOMAIN frames : Units(n) \in Nat /\ Units(n) >= 4
      /\ DOMAIN wire = 1 .. Len(wire) /\ \A j \in DOMAIN wire : wire[j].frame \in DOMAIN frames
      /\ Len(received) \in Nat /\ DOMAIN received = 1 .. Len(received)
      /\ Len(Taken) \in Nat /\ Len(received) <= N
      /\ out \in [Threads -> Writing]
  BY <1>0, StreamTypes DEF InOrder, ReadInOrder
<1>3. /\ Len(frames') = N + 1 /\ DOMAIN frames' = 1 .. N + 1
      /\ \A n \in DOMAIN frames : frames'[n] = frames[n] /\ Units(n)' = Units(n)
      /\ Units(N + 1)' \in Nat
  <2>1. frames' = Append(frames, packet)
    BY DEF Begin
  <2>2. frames'[N + 1] = packet
    BY <1>0, <2>1 DEF IInv, PacketsOK
  <2>3. Len(Payload(packet)) \in Nat
    BY PayloadLength
  <2>4. Units(N + 1)' \in Nat
    BY <2>2, <2>3 DEF Units, HeaderFields
  <2> QED BY <1>0, <2>1, <2>4, FramesGrow
<1>4. /\ out'[t] = [frame |-> N + 1, sent |-> 0, iResult |-> 0]
      /\ \A u \in Threads : u # t => out'[u] = Idle
  <2>1. out' = [out EXCEPT ![t].frame = Len(frames')] /\ out[t] = Idle
    BY DEF Begin
  <2> QED BY <1>2, <1>3, <2>1 DEF Idle
<1>5. OneWriter'
  <2>1. \A u \in Threads :
          out'[u] # Idle => /\ out'[u].frame = Len(frames')
                            /\ out'[u].iResult = 0
    BY <1>3, <1>4
  <2>2. out'["listener"] = Idle \/ out'["sender"] = Idle
    BY <1>4 DEF Threads
  <2>3. /\ state' = 1 => out'["sender"] = Idle
        /\ state' = 2 => out'["listener"] = Idle /\ todo' = <<>>
    BY <1>4 DEF InOrder, OneWriter, Threads
  <2> QED BY <2>1, <2>2, <2>3 DEF OneWriter, Idle
<1>6. Taken' = Taken
  BY DEF Taken
<1>7. ReadInOrder'
  <2>1. Len(received) < N => Units(Len(received) + 1)' = Units(Len(received) + 1)
    BY <1>2, <1>3
  <2>2. \A j \in DOMAIN received : frames'[j] = frames[j]
    BY <1>2, <1>3
  <2> QED BY <1>0, <1>2, <1>3, <1>6, <2>1, <2>2 DEF InOrder, ReadInOrder
<1> DEFINE size == [n \in 1 .. N + 1 |-> Units(n)']
<1>8. PICK new \in [1 .. N + 2 -> Int] :
        Placed(new, size, N + 1) /\ \A n \in 1 .. N + 1 : new[n] = start[n]
  <2>1. start \in [1 .. N + 1 -> Int]
    BY <1>0, <1>1 DEF Starts
  <2>2. size \in [1 .. N + 1 -> Nat] /\ \A n \in 1 .. N : size[n] = Units(n)
    <3>1. ASSUME NEW n \in 1 .. N PROVE size[n] = Units(n) /\ Units(n) \in Nat
      <4>1. n \in DOMAIN frames /\ n \in 1 .. N + 1
        BY <1>0, <1>2
      <4> QED BY <1>2, <1>3, <4>1
    <3>2. ASSUME NEW n \in 1 .. N + 1 PROVE size[n] \in Nat
      <4>1. n \in 1 .. N \/ n = N + 1
        BY <1>0, SMTT(40)
      <4> QED BY <1>3, <3>1, <4>1
    <3> QED BY <3>1, <3>2
  <2>3. /\ \A n \in 1 .. N : start[n + 1] = start[n] + Units(n)
        /\ \A m \in 1 .. N, n \in 1 .. N + 1 : m < n => start[m] + Units(m) <= start[n]
    BY <1>0, <1>1, <1>2 DEF Starts
  <2>4. size \in [1 .. N + 1 -> Nat]
    BY <2>2
  <2> HIDE DEF size
  <2>5. Placed(start, size, N)
    BY <2>2, <2>3 DEF Placed
  <2> QED BY <2>1, <2>4, <2>5, OneMorePlace
<1>9. Starts(new)'
  <2>1. \A n \in 1 .. N + 1 : size[n] = Units(n)'
    OBVIOUS
  <2> HIDE DEF size
  <2>2. Len(frames') + 1 = N + 2 /\ DOMAIN frames' = 1 .. N + 1
    BY <1>3
  <2>3. /\ \A n \in 1 .. N + 1 : new[n + 1] = new[n] + Units(n)'
        /\ \A m \in 1 .. N + 1, n \in 1 .. N + 2 : m < n => new[m] + Units(m)' <= new[n]
    <3>1. N + 1 + 1 = N + 2
      OBVIOUS
    <3>2. /\ \A n \in 1 .. N + 1 : new[n + 1] = new[n] + size[n]
          /\ \A m \in 1 .. N + 1, n \in 1 .. N + 1 + 1 : m < n => new[m] + size[m] <= new[n]
      BY <1>8, Zenon DEF Placed
    <3>3. \A m \in 1 .. N + 1, n \in 1 .. N + 2 : m < n => new[m] + size[m] <= new[n]
      BY <3>1, <3>2, Zenon
    <3> QED BY <2>1, <3>2, <3>3, Zenon
  <2> QED BY <2>2, <2>3 DEF Starts
<1>10. Streamed(new)'
  <2> HIDE DEF size
  <2>1. new[Len(received) + 1] = start[Len(received) + 1]
    BY <1>2, <1>8
  <2>2. \A j \in DOMAIN wire : new[wire[j].frame] = start[wire[j].frame]
    <3>1. \A n \in 1 .. N : n \in 1 .. N + 1
      OBVIOUS
    <3> QED BY <1>2, <1>8, <3>1
  <2>3. start[N + 1] = start[Len(received) + 1] + Len(Taken) + Len(wire)
    BY <1>0, <1>1 DEF Streamed
  <2>4. new[N + 1] + (0 + 0) = start[N + 1] /\ wire' = wire /\ received' = received
    BY <1>2, <1>8
  <2>5. \A j \in DOMAIN wire :
          start[wire[j].frame] + wire[j].field = start[Len(received) + 1] + Len(Taken) + j
    BY <1>1 DEF Streamed
  <2>6. \A u \in Threads :
          out'[u] # Idle => /\ new[Len(frames')] = new[N + 1]
                            /\ out'[u].sent = 0 /\ out'[u].iResult = 0
    BY <1>3, <1>4
  <2>7. out'[t] # Idle
    BY <1>2, <1>4 DEF Idle
  <2>8. \A j \in DOMAIN wire :
          new[wire[j].frame] + wire[j].field = new[Len(received) + 1] + Len(Taken) + j
    BY <2>1, <2>2, <2>5
  <2>9. \A u \in Threads :
          out'[u] # Idle => new[Len(frames')] + (out'[u].sent + out'[u].iResult)
                              = new[Len(received) + 1] + Len(Taken) + Len(wire)
    BY <2>1, <2>3, <2>4, <2>6
  <2> QED BY <1>6, <2>4, <2>7, <2>8, <2>9 DEF Streamed
<1> QED BY <1>5, <1>7, <1>9, <1>10 DEF InOrder

\* Where the writing thread is: it is the only one, and in the last frame.
LEMMA TheWriter ==
  ASSUME IInv, WritersOK, OneWriter, NEW t \in Threads, out[t] # Idle
  PROVE  /\ \A u \in Threads : u # t => out[u] = Idle
         /\ Len(frames) \in DOMAIN frames /\ out[t].frame = Len(frames)
         /\ out[t] \in [frame : DOMAIN frames, sent : Int, iResult : Int]
         /\ out[t].sent \in 0 .. 4
         /\ Len(Payload(frames[Len(frames)])) \in Nat
         /\ Units(Len(frames)) = 4 + Len(Payload(frames[Len(frames)]))
         /\ out[t].iResult \in {0, Len(Payload(frames[Len(frames)]))}
         /\ out[t].sent < 4 => out[t].iResult = 0
<1>1. out[t] \in [frame : DOMAIN frames, sent : Int, iResult : Int]
  BY WritingFrame
<1>2. \A u \in Threads : u # t => out[u] = Idle
  BY DEF OneWriter, Threads
<1>3. /\ out[t].frame = Len(frames) /\ Len(frames) \in DOMAIN frames
      /\ out[t].sent \in 0 .. 4
      /\ out[t].iResult \in {0, Len(Payload(frames[Len(frames)]))}
      /\ out[t].sent < 4 => out[t].iResult = 0
  BY <1>1 DEF OneWriter, WritersOK, HeaderFields
<1> QED BY <1>1, <1>2, <1>3, UnitsType

\* Thread t writes the next k fields of the last frame.
Puts(t, k) ==
  /\ Len(wire') = Len(wire) + k /\ DOMAIN wire' = 1 .. Len(wire')
  /\ \A j \in DOMAIN wire : wire'[j] = wire[j]
  /\ \A j \in 1 .. k :
       wire'[Len(wire) + j] = Unit_(Len(frames), out[t].sent + out[t].iResult + j)

\* The thread in the last frame puts its next fields on the connection.
LEMMA WriteKeepsOrder ==
  ASSUME IInv, WritersOK, InOrder, ~disturbed, NEW t \in Threads, out[t] # Idle,
         NEW sent \in Nat, NEW iResult \in Nat, NEW k \in Nat,
         iResult \in {0, Len(Payload(frames[Len(frames)]))},
         sent < 4 => iResult = 0, sent + iResult = out[t].sent + out[t].iResult + k,
         out' = [out EXCEPT ![t] = [frame |-> out[t].frame, sent |-> sent, iResult |-> iResult]],
         Puts(t, k),
         UNCHANGED <<state, todo, frames, reader, received>>
  PROVE  InOrder'
<1>1. PICK start : Starts(start) /\ Streamed(start)
  BY DEF InOrder
<1>2. OneWriter /\ ReadInOrder
  BY DEF InOrder
<1>3. /\ \A u \in Threads : u # t => out[u] = Idle
      /\ out[t] \in [frame : DOMAIN frames, sent : Int, iResult : Int]
      /\ out[t].frame = Len(frames) /\ out[t].sent \in Int /\ out[t].iResult \in Int
      /\ Len(frames) \in DOMAIN frames /\ Len(Payload(frames[Len(frames)])) \in Nat
  BY <1>2, TheWriter
<1>4. /\ out'[t] = [frame |-> Len(frames), sent |-> sent, iResult |-> iResult]
      /\ \A u \in Threads : u # t => out'[u] = Idle
  BY <1>3, StreamTypes
<1>5. Taken' = Taken /\ \A n : Units(n)' = Units(n) /\ Payload(frames[n])' = Payload(frames[n])
  BY DEF Taken, Units, Payload, HeaderFields
<1>6. out'[t] # Idle
  <2>1. Len(frames) # 0
    BY <1>3, StreamTypes
  <2> QED BY <1>4, <2>1 DEF Idle
<1>7. OneWriter'
  <2>1. \A u \in Threads :
          out'[u] # Idle => /\ out'[u].frame = Len(frames)
                            /\ out'[u].iResult \in {0, Len(Payload(frames[Len(frames)]))}
                            /\ out'[u].sent < 4 => out'[u].iResult = 0
    BY <1>4
  <2>2. \A u \in Threads : out[u] = Idle => out'[u] = Idle
    BY <1>4
  <2>3. Len(Payload(frames'[Len(frames)])) = Len(Payload(frames[Len(frames)]))
    OBVIOUS
  <2>4. \A u \in Threads :
          out'[u] # Idle => /\ out'[u].frame = Len(frames')
                            /\ out'[u].iResult \in {0, Len(Payload(frames'[out'[u].frame]))}
                            /\ out'[u].sent < HeaderFields => out'[u].iResult = 0
    BY <2>1, <2>3 DEF HeaderFields
  <2> QED BY <1>2, <2>2, <2>4 DEF OneWriter, Threads, Payload, HeaderFields
<1>8. ReadInOrder'
  BY <1>2, StreamStays DEF ReadInOrder, Taken, Units, Payload, HeaderFields
<1>9. Starts(start)'
  BY <1>1, <1>5 DEF Starts
<1>10. Streamed(start)'
  <2> DEFINE next == start[Len(received) + 1] + Len(Taken)
             last == start[Len(frames)]
             done == out[t].sent + out[t].iResult
             w == Len(wire)
  <2>1. next \in Int /\ last \in Int /\ w \in Nat /\ w \in Int /\ done \in Int
    <3>1. start[Len(received) + 1] \in Int /\ last \in Int
      BY <1>1, <1>2, <1>3, StartsType
    <3>2. Len(Taken) \in Nat /\ w \in Nat
      BY StreamTypes
    <3>3. done \in Int
      BY <1>3
    <3> QED BY <3>1, <3>2, <3>3
  <2>2. last + done = next + w
    BY <1>1 DEF Streamed
  <2>3. \A j \in DOMAIN wire : start[wire[j].frame] + wire[j].field = next + j
    BY <1>1 DEF Streamed
  <2>4. /\ sent + iResult = done + k /\ Len(wire') = w + k /\ DOMAIN wire = 1 .. w
        /\ \A j \in DOMAIN wire : wire'[j] = wire[j]
        /\ \A j \in 1 .. k : wire'[w + j] = Unit_(Len(frames), done + j)
    BY StreamTypes DEF Puts
  <2> HIDE DEF next, done, w
  <2>5. ASSUME NEW j \in DOMAIN wire'
        PROVE  start[wire'[j].frame] + wire'[j].field = next + j
    <3>1. CASE j \in DOMAIN wire
      BY <2>3, <2>4, <3>1
    <3>2. CASE j \notin DOMAIN wire
      <4>1. j - w \in 1 .. k /\ j = w + (j - w) /\ j \in Int
        BY <2>1, <2>4, <3>2, SMTT(40)
      <4>2. wire'[j] = Unit_(Len(frames), done + (j - w))
        BY <2>4, <4>1
      <4>3. start[wire'[j].frame] = last /\ wire'[j].field = done + (j - w)
        BY <4>2 DEF Unit_
      <4>4. last + (done + (j - w)) = next + j
        <5> HIDE DEF last
        <5>1. \A i \in Int : last + (done + (i - w)) = next + i
          BY <2>1, <2>2, AlongTheWire, SMTT(40)
        <5> QED BY <4>1, <5>1, Zenon
      <4> QED BY <4>3, <4>4
    <3> QED BY <3>1, <3>2
  <2>6. last + (sent + iResult) = next + Len(wire')
    <3> HIDE DEF last
    <3>1. k \in Int /\ sent + iResult = done + k /\ Len(wire') = w + k
      BY <2>4
    <3>2. \A i \in Int : last + (done + i) = next + (w + i)
      BY <2>1, <2>2, AlongTheWire, SMTT(40)
    <3> QED BY <3>1, <3>2, Zenon
  <2>7. \A u \in Threads :
          out'[u] # Idle =>
            start[Len(frames)] + (out'[u].sent + out'[u].iResult) = next + Len(wire')
    BY <1>4, <2>6
  <2>8. next = (start[Len(received) + 1] + Len(Taken))'
    BY <1>5 DEF next
  <2> QED BY <1>6, <2>5, <2>7, <2>8 DEF Streamed
<1> QED BY <1>7, <1>8, <1>9, <1>10 DEF InOrder

LEMMA SendFieldKeepsOrder ==
  ASSUME IInv, WritersOK, InOrder, ~disturbed, NEW t \in Threads, SendField(t)
  PROVE  InOrder'
<1>1. /\ out[t] # Idle /\ out[t].sent < 4
      /\ wire' = Append(wire, Unit_(out[t].frame, out[t].sent + 1))
      /\ out' = [out EXCEPT ![t].sent = @ + 1]
      /\ UNCHANGED <<state, todo, frames, reader, received>>
  BY DEF SendField, HeaderFields, readers
<1>2. /\ out[t] \in [frame : DOMAIN frames, sent : Int, iResult : Int]
      /\ out[t].frame = Len(frames) /\ out[t].sent \in 0 .. 4 /\ out[t].iResult = 0
  BY <1>1, TheWriter DEF InOrder
<1>3. out' = [out EXCEPT ![t] = [frame |-> out[t].frame, sent |-> out[t].sent + 1, iResult |-> 0]]
  <2>1. out' = [out EXCEPT ![t] = [out[t] EXCEPT !.sent = out[t].sent + 1]]
    BY <1>1
  <2>2. [out[t] EXCEPT !.sent = out[t].sent + 1]
          = [frame |-> out[t].frame, sent |-> out[t].sent + 1, iResult |-> 0]
    BY <1>2
  <2> QED BY <2>1, <2>2
<1>4. /\ Len(wire') = Len(wire) + 1 /\ DOMAIN wire' = 1 .. Len(wire')
      /\ \A j \in DOMAIN wire : wire'[j] = wire[j]
      /\ \A j \in 1 .. 1 : wire'[Len(wire) + j] = Unit_(out[t].frame, out[t].sent + 1)
  BY <1>1, StreamTypes
<1>5. \A j \in 1 .. 1 :
        wire'[Len(wire) + j] = Unit_(Len(frames), out[t].sent + out[t].iResult + j)
  <2>1. \A j \in 1 .. 1 : out[t].sent + out[t].iResult + j = out[t].sent + 1
    BY <1>2
  <2> QED BY <1>2, <1>4, <2>1
<1>6. /\ out[t].sent + 1 \in Nat /\ out[t].sent + 1 + 0 = out[t].sent + out[t].iResult + 1
      /\ 0 \in {0, Len(Payload(frames[Len(frames)]))}
  BY <1>2
<1>7. Puts(t, 1)
  BY <1>4, <1>5 DEF Puts
<1> QED BY <1>1, <1>3, <1>6, <1>7, WriteKeepsOrder

\* A send that takes a part of the payload disturbs.
LEMMA SendPayloadKeepsOrder ==
  ASSUME IInv, WritersOK, InOrder, ~disturbed, NEW t \in Threads, NEW k \in 1 .. Window,
         SendPayload(t, k), ~disturbed'
  PROVE  InOrder'
<1> DEFINE length == Len(Payload(frames[Len(frames)]))
<1>1. /\ out[t] # Idle /\ out[t].sent = 4 /\ out[t].iResult \in Nat /\ k \in Nat /\ k >= 1
      /\ out' = [out EXCEPT ![t] = [frame |-> out[t].frame, sent |-> 4, iResult |-> k]]
      /\ Len(wire') = Len(wire) + k /\ DOMAIN wire' = 1 .. Len(wire')
      /\ \A j \in DOMAIN wire : wire'[j] = wire[j]
      /\ \A j \in 1 .. k : wire'[Len(wire) + j] = Unit_(out[t].frame, 4 + out[t].iResult + j)
      /\ UNCHANGED <<state, todo, frames, reader, received>>
      /\ k <= Len(Payload(frames[out[t].frame])) - out[t].iResult
  BY SendPayloadWhere
<1>2. out[t].frame = Len(frames) /\ length \in Nat /\ out[t].iResult \in {0, length}
  BY <1>1, TheWriter DEF InOrder
<1>3. ~(k < length - out[t].iResult)
  BY <1>2 DEF SendPayload
<1> HIDE DEF length
<1>4. out[t].iResult = 0 /\ k = length
  BY <1>1, <1>2, <1>3 DEF length
<1>5. \A j \in 1 .. k :
        wire'[Len(wire) + j] = Unit_(Len(frames), out[t].sent + out[t].iResult + j)
  BY <1>1, <1>2
<1>6. /\ 4 \in Nat /\ 4 + k = out[t].sent + out[t].iResult + k /\ k \in {0, length}
      /\ 4 < 4 => k = 0
  BY <1>1, <1>4
<1>7. Puts(t, k)
  BY <1>1, <1>5 DEF Puts
<1> QED BY <1>1, <1>6, <1>7, WriteKeepsOrder, Zenon DEF length

LEMMA SentKeepsOrder ==
  ASSUME IInv, WritersOK, InOrder, ~disturbed, NEW t \in Threads, Sent(t)
  PROVE  InOrder'
<1>1. PICK start : Starts(start) /\ Streamed(start)
  BY DEF InOrder
<1>2. /\ out[t] # Idle /\ out' = [out EXCEPT ![t] = Idle] /\ out[t].sent = 4
      /\ out[t].iResult = Len(Payload(frames[out[t].frame]))
      /\ UNCHANGED <<todo, frames, wire, reader, received>>
      /\ state' = state \/ (state' = 2 /\ t = "listener" /\ todo = <<>>)
  BY DEF Sent, HeaderFields, readers
<1>3. OneWriter /\ ReadInOrder
  BY DEF InOrder
<1>4. /\ \A u \in Threads : u # t => out[u] = Idle
      /\ out[t].frame = Len(frames) /\ Len(frames) \in DOMAIN frames
      /\ Units(Len(frames)) = 4 + out[t].iResult
      /\ Len(Payload(frames[Len(frames)])) \in Nat
  BY <1>2, <1>3, TheWriter
<1>5. \A u \in Threads : out'[u] = Idle
  BY <1>2, <1>4, StreamTypes
<1>6. OneWriter'
  BY <1>2, <1>3, <1>5 DEF OneWriter, Threads
<1>7. ReadInOrder' /\ Starts(start)' /\ Taken' = Taken
  <2>1. \A n : Units(n)' = Units(n)
    BY <1>2 DEF Units, Payload, HeaderFields
  <2> QED BY <1>1, <1>2, <1>3, <2>1 DEF ReadInOrder, Starts, Taken
<1>8. Streamed(start)'
  <2> DEFINE next == start[Len(received) + 1] + Len(Taken)
  <2>1. start[Len(frames)] + (4 + out[t].iResult) = next + Len(wire)
    BY <1>1, <1>2 DEF Streamed
  <2>2. start[Len(frames) + 1] = start[Len(frames)] + Units(Len(frames))
    BY <1>1, <1>4 DEF Starts
  <2>3. start[Len(frames)] \in Int /\ out[t].iResult \in Nat
    BY <1>1, <1>2, <1>4, StartsType
  <2>4. start[Len(frames) + 1] = next + Len(wire)
    BY <1>4, <2>1, <2>2
  <2>5. \A j \in DOMAIN wire : start[wire[j].frame] + wire[j].field = next + j
    BY <1>1 DEF Streamed
  <2> QED BY <1>2, <1>5, <1>7, <2>4, <2>5 DEF Streamed
<1> QED BY <1>6, <1>7, <1>8 DEF InOrder

\* The peer takes the next k fields, all of the frame that it is reading.
LEMMA RecvKeepsOrder ==
  ASSUME IInv, WritersOK, InOrder, ~disturbed, NEW k \in 1 .. Window, Recv(k)
  PROVE  InOrder'
<1> DEFINE r == Len(received) + 1
           more == SubSeq(wire, 1, k)
           units == reader.units \o more
<1>1. PICK start : Starts(start) /\ Streamed(start)
  BY DEF InOrder
<1>2. OneWriter /\ ReadInOrder
  BY DEF InOrder
<1>3. /\ wire \in Seq(Fields) /\ DOMAIN wire = 1 .. Len(wire) /\ Len(wire) \in Nat
      /\ k \in 1 .. Len(wire)
      /\ Len(wire') = Len(wire) - k /\ DOMAIN wire' = 1 .. Len(wire')
      /\ \A j \in DOMAIN wire' : k + j \in DOMAIN wire /\ wire'[j] = wire[k + j]
  BY RecvTakes
<1>4. /\ reader.doing = "read" /\ Taken = reader.units /\ k <= Missing(Taken)
      /\ UNCHANGED <<frames, out, state, todo, received, disturbed>>
  BY DEF Recv, writers, Taken
<1>5. r \in DOMAIN frames /\ r \in Nat /\ Units(r) \in Nat /\ Units(r) >= 4
  <2>1. 1 \in DOMAIN wire
    BY <1>3
  <2> QED BY <1>1, <1>2, <2>1, NextOnTheWire, StreamTypes
<1>6. Taken \in Seq(Fields) /\ Len(Taken) \in Nat /\ DOMAIN Taken = 1 .. Len(Taken)
      /\ \A j \in DOMAIN Taken : Taken[j] = Unit_(r, j)
  BY <1>2, StreamTypes DEF ReadInOrder
<1> HIDE DEF r
<1>7. Len(Taken) + k <= Units(r)
  <2>1. CASE Len(Taken) < 4
    BY <1>3, <1>4, <1>5, <1>6, <2>1 DEF Missing, HeaderFields
  <2>2. CASE Len(Taken) >= 4
    <3>1. Taken[Length].frame = r
      BY <1>6, <2>2 DEF Length, Unit_
    <3>2. k <= Units(r) - Len(Taken)
      BY <1>4, <1>6, <2>2, <3>1 DEF Missing, HeaderFields
    <3> QED BY <1>3, <1>5, <1>6, <3>2
  <2> QED BY <1>6, <2>1, <2>2
<1>8. \A j \in 1 .. k : wire[j] = Unit_(r, Len(Taken) + j)
  <2> SUFFICES ASSUME NEW j \in 1 .. k PROVE wire[j] = Unit_(r, Len(Taken) + j)
    OBVIOUS
  <2>1. j \in DOMAIN wire /\ Len(Taken) + j <= Units(r)
    BY <1>3, <1>5, <1>6, <1>7
  <2> QED BY <1>1, <1>2, <2>1, NextOnTheWire DEF r
<1>9. /\ units \in Seq(Fields) /\ Len(units) = Len(Taken) + k /\ DOMAIN units = 1 .. Len(units)
      /\ \A j \in DOMAIN units : units[j] = Unit_(r, j)
  <2>1. /\ more \in Seq(Fields) /\ Len(more) = k
        /\ \A j \in 1 .. k : more[j] = Unit_(r, Len(Taken) + j)
    BY <1>3, <1>8
  <2> HIDE DEF more
  <2>2. /\ units \in Seq(Fields) /\ Len(units) = Len(Taken) + k
        /\ \A j \in 1 .. Len(Taken) : units[j] = Taken[j]
        /\ \A j \in 1 .. k : units[Len(Taken) + j] = more[j]
    <3>1. units = Taken \o more
      BY <1>4
    <3> HIDE DEF units
    <3>2. Taken \in Seq(Fields) /\ more \in Seq(Fields)
      BY <1>6, <2>1
    <3>3. /\ Taken \o more \in Seq(Fields) /\ Len(Taken \o more) = Len(Taken) + Len(more)
          /\ \A j \in 1 .. Len(Taken) : (Taken \o more)[j] = Taken[j]
          /\ \A j \in 1 .. Len(more) : (Taken \o more)[Len(Taken) + j] = more[j]
      BY <3>2, Joined, SMTT(40)
    <3> QED BY <2>1, <3>1, <3>3, ZenonT(40)
  <2> HIDE DEF units
  <2>3. ASSUME NEW j \in 1 .. Len(units) PROVE units[j] = Unit_(r, j)
    <3>1. CASE j <= Len(Taken)
      BY <1>6, <2>2, <3>1
    <3>2. CASE j > Len(Taken)
      <4>1. j - Len(Taken) \in 1 .. k /\ j = Len(Taken) + (j - Len(Taken))
        BY <1>3, <1>6, <2>2, <3>2
      <4> QED BY <2>1, <2>2, <4>1
    <3> QED BY <1>6, <3>1, <3>2
  <2> QED BY <2>2, <2>3
<1>10. reader' = [doing |-> "read", units |-> units]
  <2>1. ~(Len(units) >= Length /\ units[Length].field # Length)
    <3> HIDE DEF units
    <3>1. Len(units) >= 3 => 3 \in DOMAIN units
      BY <1>3, <1>6, <1>9
    <3>2. Len(units) >= 3 => units[3].field = 3
      BY <1>9, <3>1 DEF Unit_
    <3> QED BY <3>2 DEF Length
  <2>2. reader' = [reader EXCEPT !.units = units]
    BY <2>1 DEF Recv
  <2> QED BY <1>4, <2>2 DEF IInv, StreamOK
<1> HIDE DEF units
<1>11. Taken' = units /\ reader'.doing = "read"
  BY <1>10 DEF Taken
<1>12. \A n : Units(n)' = Units(n)
  BY <1>4 DEF Units, Payload, HeaderFields
<1>13. OneWriter'
  BY <1>2, <1>4, WriterStays
<1>14. ReadInOrder'
  <2>1. Len(received) < Len(frames)
    BY <1>5, StreamTypes DEF r
  <2> QED BY <1>2, <1>4, <1>7, <1>9, <1>11, <1>12, <2>1 DEF ReadInOrder, r
<1>15. Starts(start)'
  BY <1>1, <1>4, <1>12 DEF Starts
<1>16. Streamed(start)'
  <2> DEFINE next == start[r] + Len(Taken)
  <2>1. next \in Int /\ start[r] \in Int
    BY <1>1, <1>5, <1>6, StreamTypes DEF Starts
  <2>2. /\ \A j \in DOMAIN wire : start[wire[j].frame] + wire[j].field = next + j
        /\ \A t \in Threads :
             out[t] # Idle =>
               start[Len(frames)] + (out[t].sent + out[t].iResult) = next + Len(wire)
        /\ (\A t \in Threads : out[t] = Idle) => start[Len(frames) + 1] = next + Len(wire)
    BY <1>1 DEF Streamed, r
  <2>3. start[r] + Len(units) = next + k
    BY <1>3, <1>6, <1>9, <2>1
  <2> HIDE DEF next
  <2>4. ASSUME NEW j \in DOMAIN wire'
        PROVE  start[wire'[j].frame] + wire'[j].field = (next + k) + j
    BY <1>3, <2>1, <2>2
  <2>5. (next + k) + Len(wire') = next + Len(wire)
    BY <1>3, <2>1
  <2> QED BY <1>4, <1>11, <2>2, <2>3, <2>4, <2>5 DEF Streamed, r
<1> QED BY <1>13, <1>14, <1>15, <1>16 DEF InOrder

\* A frame that is complete is intact, and the packet in it is the one that was sent.
LEMMA GotKeepsOrder ==
  ASSUME IInv, InOrder, ~disturbed, Got
  PROVE  InOrder'
<1> DEFINE r == Len(received) + 1
           units == reader.units
<1>1. PICK start : Starts(start) /\ Streamed(start)
  BY DEF InOrder
<1>2. OneWriter /\ ReadInOrder
  BY DEF InOrder
<1>3. /\ reader.doing = "read" /\ Taken = units /\ Complete(units)
      /\ UNCHANGED <<frames, out, wire, state, todo, disturbed>>
  BY DEF Got, writers, Taken
<1>4. /\ units \in Seq(Fields) /\ Len(units) \in Nat /\ DOMAIN units = 1 .. Len(units)
      /\ \A j \in DOMAIN units : units[j] = Unit_(r, j)
      /\ units # <<>> => r \in DOMAIN frames /\ Len(units) <= Units(r)
      /\ r \in Nat
  BY <1>2, <1>3, StreamTypes DEF ReadInOrder
<1> HIDE DEF r, units
<1>5. Len(units) >= 4 /\ r \in DOMAIN frames /\ units[1].frame = r
      /\ Units(units[Length].frame) - Len(units) = 0 /\ units[Length].frame = r
  <2>1. Len(units) >= 4 /\ Missing(units) = 0
    BY <1>3 DEF Complete, HeaderFields
  <2>2. units # <<>> /\ 1 \in DOMAIN units /\ 3 \in DOMAIN units
    BY <1>4, <2>1
  <2>3. units[1] = Unit_(r, 1) /\ units[3] = Unit_(r, 3)
    BY <1>4, <2>2
  <2> QED BY <1>4, <2>1, <2>2, <2>3 DEF Missing, HeaderFields, Length, Unit_
<1>6. Len(units) = Units(r) /\ Units(r) \in Nat
  BY <1>4, <1>5, StreamTypes
<1>7. Intact(units)
  BY <1>4, <1>5, <1>6 DEF Intact
<1>8. Decode(frames[r]) = frames[r]
  <2>1. frames[r] \in Sendable
    BY <1>5 DEF IInv, PacketsOK
  <2> QED BY <2>1, DecodeSendable
<1>9. /\ received' = Append(received, frames[r]) /\ reader'.doing # "lost"
      /\ Taken' = <<>>
  <2>1. /\ received' = Append(received, Decode(frames[units[1].frame]))
        /\ reader' = [doing |-> IF Decode(frames[units[1].frame]).command = "object"
                                THEN "validate" ELSE "read",
                      units |-> <<>>]
    BY <1>7, Zenon DEF Got, units
  <2> QED BY <1>5, <1>8, <2>1 DEF Taken
<1>10. /\ Len(received') = r /\ DOMAIN received' = 1 .. r
       /\ \A j \in DOMAIN received : received'[j] = received[j]
       /\ received'[r] = frames[r] /\ DOMAIN received = 1 .. Len(received)
       /\ Len(received) \in Nat
  <2>1. received \in Seq(Received)
    BY DEF IInv, ReaderOK
  <2> HIDE DEF Received
  <2> QED BY <1>9, <2>1 DEF r
<1>11. \A n : Units(n)' = Units(n)
  BY <1>3 DEF Units, Payload, HeaderFields
<1>12. OneWriter'
  BY <1>2, <1>3, WriterStays
<1>13. ReadInOrder'
  <2>1. \A j \in 1 .. r : received'[j] = frames[j]
    BY <1>2, <1>10 DEF ReadInOrder, r
  <2>2. r <= Len(frames)
    BY <1>5, StreamTypes
  <2>3. DOMAIN <<>> = {}
    OBVIOUS
  <2> QED BY <1>3, <1>9, <1>10, <2>1, <2>2, <2>3 DEF ReadInOrder
<1>14. Starts(start)'
  BY <1>1, <1>3, <1>11 DEF Starts
<1>15. Streamed(start)'
  <2>1. start[r + 1] = start[r] + Units(r) /\ start[r] \in Int /\ start[r + 1] \in Int
    BY <1>1, <1>5, <1>6, StreamTypes DEF Starts
  <2>2. start[r + 1] + Len(<<>>) = start[r] + Len(units)
    BY <1>6, <2>1
  <2>3. Streamed(start)' =
          LET next == start[r + 1] + Len(<<>>)
          IN  /\ \A j \in DOMAIN wire : start[wire[j].frame] + wire[j].field = next + j
              /\ \A t \in Threads :
                   out[t] # Idle =>
                     start[Len(frames)] + (out[t].sent + out[t].iResult) = next + Len(wire)
              /\ (\A t \in Threads : out[t] = Idle) =>
                   start[Len(frames) + 1] = next + Len(wire)
    BY <1>3, <1>9, <1>10 DEF Streamed
  <2> QED BY <1>1, <1>3, <2>2, <2>3 DEF Streamed, r
<1> QED BY <1>12, <1>13, <1>14, <1>15 DEF InOrder

LEMMA NextKeepsOrder == IInv /\ WritersOK /\ InOrder /\ [Next]_vars => InOrder'
<1> SUFFICES ASSUME IInv, WritersOK, InOrder, [Next]_vars, ~disturbed' PROVE InOrder'
  BY DEF InOrder
<1>0. ~disturbed
  BY DEF Next, vars, ListenerBegins, SenderPops, Pong, Verack, Answer, Break, Writes, SendField,
         SendPayload, Sent, Reads, Got, Validated, Recv, ValidateTime, ValidatePow, Found, writers
<1>1. OneWriter /\ ReadInOrder /\ \E start : Starts(start) /\ Streamed(start)
  BY <1>0 DEF InOrder
<1>2. state \in 0 .. 2
  BY DEF WritersOK
<1>3. CASE ListenerBegins
  <2>1. Head(todo) \in Sendable
    BY <1>3 DEF IInv, PacketsOK, ListenerBegins, Sendable
  <2>2. state = 1 /\ \A u \in Threads : out[u] = Idle
    BY <1>1, <1>2, <1>3 DEF ListenerBegins, Begin, OneWriter, Threads
  <2> QED BY <1>0, <1>3, <2>1, <2>2, BeginKeepsOrder DEF ListenerBegins, Threads, readers
<1>4. CASE SenderPops
  <2>1. Head(Packets) \in Sendable
    BY <1>4 DEF IInv, PacketsOK, SenderPops
  <2>2. \A u \in Threads : out[u] = Idle
    BY <1>1, <1>4 DEF SenderPops, Begin, OneWriter, Threads
  <2> QED BY <1>0, <1>4, <2>1, <2>2, BeginKeepsOrder DEF SenderPops, Threads, readers
<1>5. CASE Pong \/ Verack
  <2>1. PICK handler : Answer(handler)
    BY <1>5 DEF Pong, Verack
  <2>2. /\ UNCHANGED <<frames, out, wire, received, reader, state>> /\ state # 2
        /\ Taken' = Taken
    BY <2>1 DEF Answer, readers, Taken
  <2>3. OneWriter'
    BY <1>1, <2>2, WriterStays
  <2>4. ReadInOrder' /\ (\E start : Starts(start) /\ Streamed(start))'
    BY <1>1, <2>2, StreamStays DEF ReadInOrder
  <2> QED BY <2>3, <2>4 DEF InOrder
<1>6. CASE \/ Break \/ UNCHANGED vars
           \/ \E life \in Lives_, size \in Sizes :
                Found(life, size, getTarget(size, Unsigned(life)))
  <2>1. /\ UNCHANGED <<frames, out, wire, received, reader, todo>>
        /\ state' = state \/ state' = 0
    BY <1>6 DEF Break, vars, Found, readers, Taken
  <2>2. Taken' = Taken
    BY <2>1 DEF Taken
  <2>3. OneWriter'
    BY <1>1, <2>1, WriterStays
  <2>4. ReadInOrder' /\ (\E start : Starts(start) /\ Streamed(start))'
    BY <1>1, <2>1, <2>2, StreamStays DEF ReadInOrder
  <2> QED BY <2>3, <2>4 DEF InOrder
<1>7. CASE \E t \in Threads : Writes(t)
  BY <1>0, <1>7, SendFieldKeepsOrder, SendPayloadKeepsOrder, SentKeepsOrder DEF Writes
<1>8. CASE Validated \/ \E now \in 0 .. MaxTime : ValidateTime(now) \/ ValidatePow(now)
  <2>1. UNCHANGED <<frames, out, wire, received, state, todo>>
    BY <1>8 DEF Validated, ValidateTime, ValidatePow, writers
  <2>2. Taken' = Taken /\ reader'.doing # "lost"
    BY <1>8 DEF Validated, ValidateTime, ValidatePow, Taken
  <2>3. OneWriter'
    BY <1>1, <2>1, WriterStays
  <2>4. ReadInOrder' /\ (\E start : Starts(start) /\ Streamed(start))'
    BY <1>1, <2>1, <2>2, StreamStays DEF ReadInOrder
  <2> QED BY <2>3, <2>4 DEF InOrder
<1>9. CASE Got \/ \E k \in 1 .. Window : Recv(k)
  BY <1>0, <1>9, GotKeepsOrder, RecvKeepsOrder
<1> QED BY <1>3, <1>4, <1>5, <1>6, <1>7, <1>8, <1>9 DEF Next, Reads

\* During the handshake the Listener alone writes and afterwards the Sender, so that
\* the peer reads every packet whole, once, in order and with the list it had, for any
\* packets, whatever pieces recv returns: unless a send took a part of the bytes, or
\* the Listener answered in state 2.
THEOREM PeerReadsInOrder == Spec => []PeerReadsWhatWasSent
<1>1. Init => InOrder
  <2> SUFFICES ASSUME Init PROVE InOrder
    OBVIOUS
  <2>1. /\ Len(frames) = 0 /\ DOMAIN frames = {} /\ DOMAIN wire = {} /\ Len(wire) = 0
        /\ Len(received) = 0 /\ DOMAIN received = {} /\ reader.doing = "read"
        /\ Taken = <<>> /\ Len(Taken) = 0 /\ DOMAIN Taken = {} /\ state = 1
        /\ \A t \in Threads : out[t] = Idle
    BY DEF Init, Taken
  <2>2. OneWriter
    BY <2>1 DEF OneWriter, Threads
  <2>3. ReadInOrder
    BY <2>1 DEF ReadInOrder
  <2> DEFINE start == [n \in 1 .. 1 |-> 0]
  <2>4. Starts(start) /\ Streamed(start)
    BY <2>1 DEF Starts, Streamed
  <2> QED BY <2>2, <2>3, <2>4 DEF InOrder
<1>2. IInv /\ InOrder => PeerReadsWhatWasSent
  <2> SUFFICES ASSUME IInv, InOrder, ~disturbed PROVE IsPrefix(received, frames)
    BY DEF PeerReadsWhatWasSent
  <2>1. ReadInOrder
    BY DEF InOrder
  <2>2. frames \in Seq(Sendable) /\ received \in Seq(Received)
    BY DEF IInv, PacketsOK, ReaderOK
  <2> QED BY <2>1, <2>2 DEF ReadInOrder, IsPrefix
<1> QED BY <1>1, <1>2, IInvHolds, WritersHold, NextKeepsOrder, PTL DEF Spec
=============================================================================
