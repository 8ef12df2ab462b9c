--------------------------------- MODULE Pow --------------------------------
(***************************************************************************)
(* How hard the proof of work of an object is (pow.cpp): the value of its  *)
(* payload must not exceed a target, which falls with the length of the    *)
(* payload and with the time it still has to live.  The code computes it   *)
(* in unsigned integers below Word, 2^64; TTL may be below zero there.     *)
(***************************************************************************)
EXTENDS Integers

CONSTANTS
  Word,        \* integers are modulo Word
  Unit,        \* 0x10000
  extrabytes,  \* 1000
  noncetrials, \* 1000
  MinTTL,      \* 300: shorter lives count as this long
  Past         \* 3600: how long ago an object may have expired

ASSUME PowAssumption ==
  /\ Word \in Nat \ {0} /\ Word % 2 = 0
  /\ Unit \in Nat \ {0} /\ extrabytes \in Nat \ {0} /\ noncetrials \in Nat \ {0}
  /\ MinTTL \in Nat /\ Past \in Nat

\* (uint64_t) and (int32_t) of a difference of times; it fits in both.
Unsigned(x) == x % Word
Signed(x) == IF x < Word \div 2 THEN x ELSE x - Word

\* The products of getTarget stay below half of Word for a payload of that length
\* that lives for TTL: in the code they do for all that validateObj accepts.
Product(length, TTL) ==
  (((length + extrabytes) * TTL) \div Unit + extrabytes + length) * noncetrials
Fits(length, TTL) ==
  LET life == IF TTL < MinTTL THEN MinTTL ELSE TTL
  IN  /\ life < Word \div 2 /\ Past <= Word \div 2
      /\ (length + extrabytes) * life < Word /\ Product(length, life) <= Word \div 2

\* Faulty variant: what has expired has no least time.
LivesUnclamped(TTL) == IF Signed(TTL) < MinTTL /\ Signed(TTL) >= 0 THEN MinTTL ELSE TTL

\* The time that counts.
Lives(TTL) == IF Signed(TTL) < MinTTL /\ Signed(TTL) > -Past THEN MinTTL ELSE TTL

Divisor(length, TTL) ==
  Unsigned((Unsigned((length + extrabytes) * Lives(TTL)) \div Unit + extrabytes + length)
           * noncetrials)

\* Word / divisor, of which the code can only represent the half.
getTarget(length, TTL) ==
  LET half == Word \div 2
      divisor == Divisor(length, TTL)
  IN  (half \div divisor) * 2 + (IF Unsigned((half % divisor) * 2) >= divisor THEN 1 ELSE 0)

\* checkPow of a payload of that length and value, which lives for TTL more.
checkPow(length, pow, TTL) == pow <= getTarget(length, Unsigned(TTL))
=============================================================================
