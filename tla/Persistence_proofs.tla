-------------------------- MODULE Persistence_proofs --------------------------
(***************************************************************************)
(* What survives a restart, for any objects, addresses and numbers of runs *)
(* and wherever save() is cut off: the files are beginnings of what save() *)
(* meant to write, they hold all of it after a save() that went well, and  *)
(* load() brings back the records that are whole, no less and no more.  A  *)
(* pubkey is sent again only after its sharing period, also across         *)
(* restarts.                                                               *)
(*                                                                         *)
(* What a file holds is the records' parts, one record after another       *)
(* (FlattenSeq).  That takes induction, which the library's theorem about  *)
(* well-founded orders gives for sets of numbers.                          *)
(***************************************************************************)
EXTENDS Persistence, Integers, WellFoundedInduction, FiniteSetTheorems, TLAPS

-----------------------------------------------------------------------------
(* Induction *)

\* A set of numbers has a least one.
LEMMA LeastNumber ==
  ASSUME NEW T, T \subseteq Nat, T # {}
  PROVE  \E x \in T : \A y \in T : ~(y < x)
<1>1. IsWellFoundedOn(OpToRel(<, Nat), Nat)
  BY NatLessThanWellFounded
<1>2. \E x \in T : \A y \in T : ~(<<y, x>> \in OpToRel(<, Nat))
  BY <1>1, WFMin
<1> QED BY <1>2 DEF OpToRel

\* A set of which 0 is a member, and the next number with each, has all numbers.
LEMMA Induction ==
  ASSUME NEW T, 0 \in T, \A n \in Nat : n \in T => n + 1 \in T
  PROVE  \A n \in Nat : n \in T
<1> SUFFICES ASSUME Nat \ T # {} PROVE FALSE
  OBVIOUS
<1>1. PICK x \in Nat \ T : \A y \in Nat \ T : ~(y < x)
  BY LeastNumber
<1>2. x # 0 /\ x - 1 \in Nat /\ x - 1 < x /\ (x - 1) + 1 = x
  BY <1>1
<1>3. x - 1 \in T
  BY <1>1, <1>2
<1> QED BY <1>2, <1>3

-----------------------------------------------------------------------------
(* FlattenSeq *)

\* f is the function that FlattenSeq builds of the first n of some sequences.
Flattens(f, seqs, n) ==
  f = [i \in 1 .. n |-> IF i = 1 THEN seqs[i] ELSE f[i - 1] \o seqs[i]]

LEMMA FlattenStep ==
  ASSUME NEW seqs, NEW n \in Nat, NEW f, Flattens(f, seqs, n), NEW i \in 1 .. n
  PROVE  f[i] = IF i = 1 THEN seqs[i] ELSE f[i - 1] \o seqs[i]
  BY DEF Flattens

\* There is such a function.
LEMMA FlattenExists ==
  ASSUME NEW seqs
  PROVE  \A n \in Nat : \E f : Flattens(f, seqs, n)
<1> DEFINE T == {n \in Nat : \E f : Flattens(f, seqs, n)}
<1>1. 0 \in T
  <2>1. Flattens([i \in 1 .. 0 |-> <<>>], seqs, 0)
    BY DEF Flattens
  <2> QED BY <2>1
<1>2. ASSUME NEW n \in Nat, n \in T PROVE n + 1 \in T
  <2>1. PICK f : Flattens(f, seqs, n)
    BY <1>2
  <2> DEFINE last == IF n = 0 THEN seqs[1] ELSE f[n] \o seqs[n + 1]
             g == [i \in 1 .. n + 1 |-> IF i = n + 1 THEN last ELSE f[i]]
  <2>2. ASSUME NEW i \in 1 .. n + 1
        PROVE  g[i] = IF i = 1 THEN seqs[i] ELSE g[i - 1] \o seqs[i]
    <3>1. CASE i = n + 1
      BY <3>1
    <3>2. CASE i # n + 1
      <4>1. i \in 1 .. n
        BY <3>2
      <4>2. f[i] = IF i = 1 THEN seqs[i] ELSE f[i - 1] \o seqs[i]
        BY <2>1, <4>1 DEF Flattens
      <4>3. g[i] = f[i] /\ (i # 1 => g[i - 1] = f[i - 1])
        BY <3>2
      <4> QED BY <4>2, <4>3
    <3> QED BY <3>1, <3>2
  <2>3. Flattens(g, seqs, n + 1)
    <3>1. g = [i \in 1 .. n + 1 |-> g[i]]
      OBVIOUS
    <3> HIDE DEF g
    <3> QED BY <2>2, <3>1 DEF Flattens
  <2> QED BY <2>3
<1> HIDE DEF T
<1>3. \A n \in Nat : n \in T
  BY <1>1, <1>2, Induction
<1> QED BY <1>3 DEF T

\* FlattenSeq ends with it.
LEMMA FlattenIs ==
  ASSUME NEW seqs, Len(seqs) \in Nat \ {0}
  PROVE  \E f : Flattens(f, seqs, Len(seqs)) /\ FlattenSeq(seqs) = f[Len(seqs)]
<1> DEFINE f == CHOOSE f : Flattens(f, seqs, Len(seqs))
<1>1. Flattens(f, seqs, Len(seqs))
  BY FlattenExists
<1>2. FlattenSeq(seqs) = f[Len(seqs)]
  BY DEF FlattenSeq, Flattens
<1> QED BY <1>1, <1>2

LEMMA NoneIsEmpty ==
  ASSUME NEW A, NEW s \in Seq(A), Len(s) = 0
  PROVE  s = <<>>
OBVIOUS

LEMMA FlattenEmpty == FlattenSeq(<<>>) = <<>>
<1>1. Len(<<>>) = 0
  OBVIOUS
<1> QED BY <1>1, Zenon DEF FlattenSeq

\* Two functions or sequences have the same first n elements.
AlikeUpTo(f, g, n) == \A i \in 1 .. n : f[i] = g[i]

\* It is the same one for more sequences.
LEMMA FlattensAlike ==
  ASSUME NEW seqs, NEW more, NEW n \in Nat, NEW m \in Nat, n <= m,
         AlikeUpTo(seqs, more, n),
         NEW f, Flattens(f, seqs, n), NEW g, Flattens(g, more, m)
  PROVE  AlikeUpTo(f, g, n)
<1> SUFFICES \A i \in 1 .. n : f[i] = g[i]
  BY DEF AlikeUpTo
<1>0. \A i \in 1 .. n : seqs[i] = more[i]
  BY DEF AlikeUpTo
<1> DEFINE T == {i \in Nat : i \in 1 .. n => f[i] = g[i]}
<1>1. 0 \in T
  OBVIOUS
<1>2. ASSUME NEW i \in Nat, i \in T PROVE i + 1 \in T
  <2> SUFFICES ASSUME i + 1 \in 1 .. n PROVE f[i + 1] = g[i + 1]
    OBVIOUS
  <2>1. /\ f[i + 1] = IF i + 1 = 1 THEN seqs[i + 1] ELSE f[i + 1 - 1] \o seqs[i + 1]
        /\ g[i + 1] = IF i + 1 = 1 THEN more[i + 1] ELSE g[i + 1 - 1] \o more[i + 1]
    <3>1. i + 1 \in 1 .. n /\ i + 1 \in 1 .. m
      OBVIOUS
    <3> QED BY <3>1, FlattenStep, SMTT(40)
  <2>2. CASE i = 0
    BY <1>0, <2>1, <2>2
  <2>3. CASE i # 0
    <3>1. i + 1 # 1 /\ i + 1 - 1 = i /\ i \in 1 .. n
      BY <2>3
    <3>2. f[i] = g[i]
      BY <1>2, <3>1
    <3> QED BY <1>0, <2>1, <3>1, <3>2
  <2> QED BY <2>2, <2>3
<1> HIDE DEF T
<1>3. \A i \in Nat : i \in T
  BY <1>1, <1>2, Induction
<1> QED BY <1>3 DEF T

\* One more sequence goes to the end.
LEMMA FlattenAppend ==
  ASSUME NEW A, NEW seqs \in Seq(Seq(A)), NEW s \in Seq(A)
  PROVE  FlattenSeq(Append(seqs, s)) = FlattenSeq(seqs) \o s
<1> DEFINE more == Append(seqs, s)
<1>0. PICK n \in Nat : n = Len(seqs)
  OBVIOUS
<1>1. /\ Len(more) = n + 1 /\ more[n + 1] = s
      /\ \A i \in 1 .. n : more[i] = seqs[i]
  BY <1>0
<1> HIDE DEF more
<1>2. PICK g : Flattens(g, more, n + 1) /\ FlattenSeq(more) = g[n + 1]
  <2>1. Len(more) \in Nat \ {0}
    BY <1>1
  <2> QED BY <1>1, <2>1, FlattenIs
<1>3. n + 1 \in Nat /\ n + 1 \in 1 .. n + 1
  OBVIOUS
<1>4. g[n + 1] = IF n + 1 = 1 THEN more[n + 1] ELSE g[n + 1 - 1] \o more[n + 1]
  <2>1. Flattens(g, more, n + 1) /\ n + 1 \in Nat /\ n + 1 \in 1 .. n + 1
    BY <1>2, <1>3
  <2> QED BY <2>1, FlattenStep, SMTT(40)
<1>5. CASE n = 0
  <2>1. seqs = <<>>
    <3>1. seqs \in Seq(Seq(A)) /\ Len(seqs) = 0
      BY <1>0, <1>5
    <3> QED BY <3>1, NoneIsEmpty
  <2>2. FlattenSeq(seqs) = <<>>
    BY <2>1, FlattenEmpty
  <2>3. <<>> \o s = s
    OBVIOUS
  <2> QED BY <1>1, <1>2, <1>4, <1>5, <2>2, <2>3 DEF more
<1>6. CASE n # 0
  <2>1. PICK f : Flattens(f, seqs, n) /\ FlattenSeq(seqs) = f[n]
    BY <1>0, <1>6, FlattenIs
  <2>2. n <= n + 1 /\ n \in 1 .. n
    BY <1>6
  <2>3. f[n] = g[n]
    <3>1. AlikeUpTo(seqs, more, n)
      BY <1>1 DEF AlikeUpTo
    <3>2. AlikeUpTo(f, g, n)
      <4>1. /\ n \in Nat /\ n + 1 \in Nat /\ n <= n + 1
            /\ Flattens(f, seqs, n) /\ Flattens(g, more, n + 1)
        BY <1>2, <1>3, <2>1, <2>2
      <4> QED BY <3>1, <4>1, FlattensAlike, ZenonT(40)
    <3> QED BY <2>2, <3>2 DEF AlikeUpTo
  <2>4. n + 1 # 1 /\ n + 1 - 1 = n
    BY <1>6
  <2> QED BY <1>1, <1>2, <1>4, <2>1, <2>3, <2>4 DEF more
<1> QED BY <1>5, <1>6

\* What is put behind a sequence leaves it as it is.
LEMMA Behind ==
  ASSUME NEW A, NEW s \in Seq(A), NEW t \in Seq(A)
  PROVE  /\ s \o t \in Seq(A) /\ Len(s \o t) = Len(s) + Len(t)
         /\ \A i \in 1 .. Len(s) : (s \o t)[i] = s[i]
         /\ \A i \in 1 .. Len(t) : (s \o t)[Len(s) + i] = t[i]
  OBVIOUS

\* It is a sequence of what the sequences are sequences of.
LEMMA FlattenType ==
  ASSUME NEW A, NEW seqs \in Seq(Seq(A))
  PROVE  FlattenSeq(seqs) \in Seq(A)
<1>0. PICK n \in Nat : n = Len(seqs)
  OBVIOUS
<1>1. CASE n = 0
  <2>1. Len(seqs) = 0
    BY <1>0, <1>1
  <2>2. seqs = <<>>
    BY <2>1, NoneIsEmpty
  <2>3. <<>> \in Seq(A)
    OBVIOUS
  <2> QED BY <2>2, <2>3, FlattenEmpty
<1>2. CASE n # 0
  <2>1. PICK f : Flattens(f, seqs, n) /\ FlattenSeq(seqs) = f[n]
    BY <1>0, <1>2, FlattenIs
  <2>2. \A i \in 1 .. n : seqs[i] \in Seq(A)
    BY <1>0
  <2> DEFINE T == {i \in Nat : i \in 1 .. n => f[i] \in Seq(A)}
  <2>3. 0 \in T
    OBVIOUS
  <2>4. ASSUME NEW i \in Nat, i \in T PROVE i + 1 \in T
    <3> SUFFICES ASSUME i + 1 \in 1 .. n PROVE f[i + 1] \in Seq(A)
      OBVIOUS
    <3>1. f[i + 1] = IF i + 1 = 1 THEN seqs[i + 1] ELSE f[i + 1 - 1] \o seqs[i + 1]
      BY <2>1, FlattenStep
    <3>2. CASE i = 0
      BY <2>2, <3>1, <3>2
    <3>3. CASE i # 0
      <4>1. i + 1 # 1 /\ i + 1 - 1 = i /\ i \in 1 .. n
        BY <3>3
      <4>2. f[i] \in Seq(A) /\ seqs[i + 1] \in Seq(A)
        BY <2>2, <2>4, <4>1
      <4>3. f[i] \o seqs[i + 1] \in Seq(A)
        BY <4>2, Behind
      <4> QED BY <3>1, <4>1, <4>3
    <3> QED BY <3>2, <3>3
  <2> HIDE DEF T
  <2>5. \A i \in Nat : i \in T
    BY <2>3, <2>4, Induction
  <2>6. n \in T /\ n \in 1 .. n
    BY <1>2, <2>5
  <2> QED BY <2>1, <2>6 DEF T
<1> QED BY <1>1, <1>2

-----------------------------------------------------------------------------
(* What save() writes, record by record *)

Records == ObjectRecords \cup PrivRecords \cup PubRecords
PartsIn(set) == [record : set, part : Nat]

\* The file with the first n of some records.
Upto(records, n) == Written(SubSeq(records, 1, n))

LEMMA PartsOfType ==
  ASSUME NEW set \in SUBSET Records, NEW r \in set
  PROVE  /\ Parts(r) \in Nat \ {0} /\ PartsOf(r) \in Seq(PartsIn(set))
         /\ Len(PartsOf(r)) = Parts(r)
         /\ \A i \in 1 .. Parts(r) : PartsOf(r)[i] = [record |-> r, part |-> i]
<1>1. Parts(r) \in Nat \ {0}
  <2>1. r.type \in {"object", "priv", "pub"} /\ (r.type = "pub" => r.waiting \in BOOLEAN)
    BY DEF Records, ObjectRecords, PrivRecords, PubRecords
  <2> QED BY <2>1 DEF Parts
<1>2. \A i \in 1 .. Parts(r) : [record |-> r, part |-> i] \in PartsIn(set)
  BY <1>1 DEF PartsIn
<1> HIDE DEF Parts
<1> QED BY <1>1, <1>2 DEF PartsOf

LEMMA AppendIs ==
  ASSUME NEW A, NEW s \in Seq(A), NEW x \in A
  PROVE  /\ DOMAIN Append(s, x) = 1 .. Len(s) + 1
         /\ \A i \in 1 .. Len(s) : Append(s, x)[i] = s[i]
         /\ Append(s, x)[Len(s) + 1] = x
         /\ Append(s, x) = [i \in 1 .. Len(s) + 1 |-> Append(s, x)[i]]
<1>1. /\ Append(s, x) \in Seq(A) /\ Len(Append(s, x)) = Len(s) + 1
      /\ \A i \in 1 .. Len(s) : Append(s, x)[i] = s[i]
      /\ Append(s, x)[Len(s) + 1] = x
  OBVIOUS
<1>2. ASSUME NEW t \in Seq(A) PROVE t = [i \in 1 .. Len(t) |-> t[i]] /\ DOMAIN t = 1 .. Len(t)
  OBVIOUS
<1> QED BY <1>1, <1>2

LEMMA WrittenEmpty == Written(<<>>) = <<>>
<1>1. [i \in DOMAIN <<>> |-> PartsOf(<<>>[i])] = <<>>
  OBVIOUS
<1> QED BY <1>1, FlattenEmpty DEF Written

LEMMA WrittenAppend ==
  ASSUME NEW set \in SUBSET Records, NEW records \in Seq(set), NEW r \in set
  PROVE  Written(Append(records, r)) = Written(records) \o PartsOf(r)
<1> DEFINE more == Append(records, r)
           seqs == [i \in DOMAIN records |-> PartsOf(records[i])]
<1>1. /\ more \in Seq(set) /\ DOMAIN more = 1 .. Len(records) + 1 /\ more[Len(records) + 1] = r
      /\ Len(records) \in Nat /\ DOMAIN records = 1 .. Len(records)
      /\ \A i \in 1 .. Len(records) : more[i] = records[i] /\ records[i] \in set
  OBVIOUS
<1>2. /\ PartsOf(r) \in Seq(PartsIn(set))
      /\ \A i \in DOMAIN records : PartsOf(records[i]) \in Seq(PartsIn(set))
  BY <1>1, PartsOfType
<1>3. seqs \in Seq(Seq(PartsIn(set))) /\ Len(seqs) = Len(records)
  BY <1>1, <1>2
<1>4. [i \in DOMAIN more |-> PartsOf(more[i])] = Append(seqs, PartsOf(r))
  <2> HIDE DEF more
  <2>1. /\ DOMAIN Append(seqs, PartsOf(r)) = 1 .. Len(records) + 1
        /\ \A i \in 1 .. Len(records) : Append(seqs, PartsOf(r))[i] = seqs[i]
        /\ Append(seqs, PartsOf(r))[Len(records) + 1] = PartsOf(r)
        /\ Append(seqs, PartsOf(r)) = [i \in 1 .. Len(records) + 1 |-> Append(seqs, PartsOf(r))[i]]
    <3> HIDE DEF seqs
    <3> QED BY <1>1, <1>2, <1>3, AppendIs
  <2>2. \A i \in 1 .. Len(records) + 1 : PartsOf(more[i]) = Append(seqs, PartsOf(r))[i]
    <3>1. \A i \in 1 .. Len(records) : seqs[i] = PartsOf(records[i])
      BY <1>1
    <3> QED BY <1>1, <2>1, <3>1
  <2> HIDE DEF seqs
  <2> QED BY <1>1, <2>1, <2>2
<1>5. FlattenSeq(Append(seqs, PartsOf(r))) = FlattenSeq(seqs) \o PartsOf(r)
  <2> HIDE DEF seqs
  <2> QED BY <1>2, <1>3, FlattenAppend
<1> QED BY <1>4, <1>5 DEF Written

\* The first records, one more at a time.
LEMMA UptoNext ==
  ASSUME NEW set \in SUBSET Records, NEW records \in Seq(set)
  PROVE  /\ Upto(records, 0) = <<>> /\ Upto(records, Len(records)) = Written(records)
         /\ \A n \in 0 .. Len(records) - 1 :
              Upto(records, n + 1) = Upto(records, n) \o PartsOf(records[n + 1])
<1>1. SubSeq(records, 1, 0) = <<>> /\ SubSeq(records, 1, Len(records)) = records
  OBVIOUS
<1>2. ASSUME NEW n \in 0 .. Len(records) - 1
      PROVE  Upto(records, n + 1) = Upto(records, n) \o PartsOf(records[n + 1])
  <2>1. SubSeq(records, 1, n) \in Seq(set) /\ records[n + 1] \in set
    OBVIOUS
  <2>2. SubSeq(records, 1, n + 1) = Append(SubSeq(records, 1, n), records[n + 1])
    OBVIOUS
  <2> QED BY <2>1, <2>2, WrittenAppend DEF Upto
<1> QED BY <1>1, <1>2, WrittenEmpty DEF Upto

\* The files of more records continue those of fewer.
LEMMA UptoGrows ==
  ASSUME NEW set \in SUBSET Records, NEW records \in Seq(set)
  PROVE  \A n \in 0 .. Len(records) :
           /\ Upto(records, n) \in Seq(PartsIn(set))
           /\ \A m \in 0 .. n :
                /\ Len(Upto(records, m)) <= Len(Upto(records, n))
                /\ \A i \in 1 .. Len(Upto(records, m)) :
                     Upto(records, n)[i] = Upto(records, m)[i]
<1> DEFINE Good(n) ==
             /\ Upto(records, n) \in Seq(PartsIn(set))
             /\ \A m \in 0 .. n :
                  /\ Len(Upto(records, m)) <= Len(Upto(records, n))
                  /\ \A i \in 1 .. Len(Upto(records, m)) :
                       Upto(records, n)[i] = Upto(records, m)[i]
           T == {n \in Nat : n \in 0 .. Len(records) => Good(n)}
<1>1. 0 \in T
  <2>1. Upto(records, 0) = <<>>
    BY UptoNext
  <2>2. <<>> \in Seq(PartsIn(set)) /\ \A m \in 0 .. 0 : m = 0
    OBVIOUS
  <2>3. Good(0)
    <3>1. ASSUME NEW m \in 0 .. 0
          PROVE  /\ Len(Upto(records, m)) <= Len(Upto(records, 0))
                 /\ \A i \in 1 .. Len(Upto(records, m)) :
                      Upto(records, 0)[i] = Upto(records, m)[i]
      <4>1. m = 0 /\ Len(<<>>) = 0
        OBVIOUS
      <4> QED BY <2>1, <4>1
    <3> QED BY <2>1, <2>2, <3>1
  <2> QED BY <2>3
<1>2. ASSUME NEW n \in Nat, n \in T PROVE n + 1 \in T
  <2> SUFFICES ASSUME n + 1 \in 0 .. Len(records) PROVE Good(n + 1)
    OBVIOUS
  <2>1. n \in 0 .. Len(records) /\ n \in 0 .. Len(records) - 1
    OBVIOUS
  <2>2. Good(n)
    BY <1>2, <2>1
  <2> DEFINE u == Upto(records, n)
             p == PartsOf(records[n + 1])
             v == Upto(records, n + 1)
  <2>3. p \in Seq(PartsIn(set))
    <3>1. records[n + 1] \in set
      BY <2>1
    <3> QED BY <3>1, PartsOfType
  <2>4. v = u \o p /\ u \in Seq(PartsIn(set))
    BY <2>1, <2>2, UptoNext
  <2>5. /\ v \in Seq(PartsIn(set)) /\ Len(u) <= Len(v)
        /\ \A i \in 1 .. Len(u) : v[i] = u[i]
    <3> HIDE DEF u, p, v
    <3>1. /\ u \o p \in Seq(PartsIn(set)) /\ Len(u \o p) = Len(u) + Len(p)
          /\ \A i \in 1 .. Len(u) : (u \o p)[i] = u[i]
      BY <2>3, <2>4, Behind
    <3> QED BY <2>3, <2>4, <3>1
  <2>6. ASSUME NEW m \in 0 .. n + 1
        PROVE  /\ Len(Upto(records, m)) <= Len(v)
               /\ \A i \in 1 .. Len(Upto(records, m)) : v[i] = Upto(records, m)[i]
    <3>1. CASE m = n + 1
      <4>1. Len(v) \in Nat
        <5> HIDE DEF v
        <5> QED BY <2>5
      <4> QED BY <3>1, <4>1
    <3>2. CASE m # n + 1
      <4>1. m \in 0 .. n
        BY <3>2
      <4>2. /\ Len(Upto(records, m)) <= Len(u)
            /\ \A i \in 1 .. Len(Upto(records, m)) : u[i] = Upto(records, m)[i]
        BY <2>2, <4>1
      <4> DEFINE w == Upto(records, m)
      <4> HIDE DEF u, v, w
      <4> QED BY <2>4, <2>5, <4>2
    <3> QED BY <3>1, <3>2
  <2> QED BY <2>5, <2>6
<1> HIDE DEF T
<1>3. \A n \in Nat : n \in T
  BY <1>1, <1>2, Induction
<1>4. \A n \in 0 .. Len(records) : n \in Nat
  OBVIOUS
<1> QED BY <1>3, <1>4 DEF T

\* Where a record starts in the file of all of them, and where the next one does.
LEMMA RecordAt ==
  ASSUME NEW set \in SUBSET Records, NEW records \in Seq(set),
         NEW n \in 0 .. Len(records) - 1
  PROVE  /\ Len(Upto(records, n)) \in Nat
         /\ Len(Upto(records, n + 1)) = Len(Upto(records, n)) + Parts(records[n + 1])
         /\ Len(Upto(records, n + 1)) <= Len(Written(records))
         /\ Parts(records[n + 1]) \in Nat \ {0}
         /\ Written(records)[Len(Upto(records, n)) + 1].record = records[n + 1]
<1> DEFINE u == Upto(records, n)
           p == PartsOf(records[n + 1])
           v == Upto(records, n + 1)
           w == Written(records)
<1>1. n + 1 \in 0 .. Len(records) /\ n \in 0 .. Len(records) /\ records[n + 1] \in set
  OBVIOUS
<1>2. /\ Parts(records[n + 1]) \in Nat \ {0} /\ p \in Seq(PartsIn(set))
      /\ Len(p) = Parts(records[n + 1]) /\ p[1] = [record |-> records[n + 1], part |-> 1]
  <2>1. /\ Parts(records[n + 1]) \in Nat \ {0} /\ p \in Seq(PartsIn(set))
        /\ Len(p) = Parts(records[n + 1])
        /\ \A i \in 1 .. Parts(records[n + 1]) :
             p[i] = [record |-> records[n + 1], part |-> i]
    BY <1>1, PartsOfType
  <2>2. 1 \in 1 .. Parts(records[n + 1])
    BY <2>1
  <2> QED BY <2>1, <2>2
<1>3. v = u \o p /\ u \in Seq(PartsIn(set))
  BY <1>1, UptoNext, UptoGrows
<1>4. w = Upto(records, Len(records)) /\ Len(records) \in 0 .. Len(records)
  BY UptoNext
<1>5. Len(v) <= Len(w) /\ \A i \in 1 .. Len(v) : w[i] = v[i]
  BY <1>1, <1>4, UptoGrows
<1> HIDE DEF u, p, v, w
<1>6. Len(u) \in Nat /\ Len(v) = Len(u) + Len(p) /\ v[Len(u) + 1] = p[1]
  <2>1. /\ Len(u \o p) = Len(u) + Len(p)
        /\ \A i \in 1 .. Len(p) : (u \o p)[Len(u) + i] = p[i]
    <3>1. u \in Seq(PartsIn(set)) /\ p \in Seq(PartsIn(set))
      BY <1>2, <1>3
    <3> QED BY <3>1, Behind
  <2>2. 1 \in 1 .. Len(p)
    BY <1>2
  <2> QED BY <1>3, <2>1, <2>2
<1>7. w[Len(u) + 1] = p[1]
  <2>1. Len(u) + 1 \in 1 .. Len(v)
    BY <1>2, <1>6
  <2> QED BY <1>5, <1>6, <2>1
<1> QED BY <1>2, <1>5, <1>6, <1>7 DEF u, v, w

-----------------------------------------------------------------------------
(* Loading: the records that are whole in the beginning of a file *)

LEMMA Beginning ==
  ASSUME NEW A, NEW w \in Seq(A), NEW n \in 0 .. Len(w)
  PROVE  /\ SubSeq(w, 1, n) \in Seq(A) /\ Len(SubSeq(w, 1, n)) = n
         /\ \A i \in 1 .. n : SubSeq(w, 1, n)[i] = w[i]
  OBVIOUS

\* A file is a beginning of what was to be written.
Begins(file, records) ==
  /\ Len(file) \in 0 .. Len(Written(records))
  /\ file = SubSeq(Written(records), 1, Len(file))

\* load() is in front of record n + 1.
InFront(file, records, at_, n) ==
  /\ n \in 0 .. Len(records) /\ at_ = Len(Upto(records, n)) /\ at_ <= Len(file)

\* The first n records.
FirstOf(records, n) == {records[i] : i \in 1 .. n}

\* What is next in the file, if it is whole, is the next record; and if there is none,
\* the records before are all that are whole.
LEMMA ReadsRecord ==
  ASSUME NEW set \in SUBSET Records, NEW records \in Seq(set), NEW file,
         Begins(file, records), NEW n, NEW at_, InFront(file, records, at_, n)
  PROVE  /\ Whole(file, at_) =>
              /\ n < Len(records) /\ file[at_ + 1].record = records[n + 1]
              /\ records[n + 1] \in set
              /\ InFront(file, records, at_ + Parts(records[n + 1]), n + 1)
         /\ ~Whole(file, at_) => RecordsIn(file, records) = FirstOf(records, n)
<1> DEFINE w == Written(records)
<1>1. /\ Len(records) \in Nat /\ w = Upto(records, Len(records)) /\ w \in Seq(PartsIn(set))
      /\ n \in 0 .. Len(records) /\ at_ = Len(Upto(records, n)) /\ at_ \in Nat
      /\ at_ <= Len(file) /\ Len(w) \in Nat
  <2>1. Len(records) \in Nat /\ n \in 0 .. Len(records) /\ Len(records) \in 0 .. Len(records)
    BY DEF InFront
  <2>2. w = Upto(records, Len(records)) /\ w \in Seq(PartsIn(set))
    BY <2>1, UptoNext, UptoGrows
  <2>3. Upto(records, n) \in Seq(PartsIn(set))
    BY <2>1, UptoGrows
  <2>4. Len(Upto(records, n)) \in Nat /\ Len(w) \in Nat
    <3> HIDE DEF w
    <3> QED BY <2>2, <2>3
  <2> QED BY <2>1, <2>2, <2>4 DEF InFront
<1>2. /\ Len(file) \in 0 .. Len(w)
      /\ \A i \in 1 .. Len(file) : file[i] = w[i]
  <2>1. PICK l \in 0 .. Len(w) : l = Len(file) /\ file = SubSeq(w, 1, l)
    BY DEF Begins
  <2> HIDE DEF w
  <2>2. \A i \in 1 .. l : SubSeq(w, 1, l)[i] = w[i]
    BY <1>1, Beginning
  <2> QED BY <2>1, <2>2
<1>3. ASSUME n < Len(records)
      PROVE  /\ Len(Upto(records, n + 1)) = at_ + Parts(records[n + 1])
             /\ Len(Upto(records, n + 1)) <= Len(w)
             /\ Parts(records[n + 1]) \in Nat \ {0}
             /\ w[at_ + 1].record = records[n + 1] /\ records[n + 1] \in set
             /\ n + 1 \in 0 .. Len(records)
  <2>1. n \in 0 .. Len(records) - 1 /\ n + 1 \in 0 .. Len(records)
    BY <1>1, <1>3
  <2>2. records[n + 1] \in set
    BY <2>1
  <2>3. /\ Len(Upto(records, n + 1)) = Len(Upto(records, n)) + Parts(records[n + 1])
        /\ Len(Upto(records, n + 1)) <= Len(Written(records))
        /\ Parts(records[n + 1]) \in Nat \ {0}
        /\ Written(records)[Len(Upto(records, n)) + 1].record = records[n + 1]
    BY <2>1, RecordAt
  <2>4. at_ = Len(Upto(records, n))
    BY <1>1
  <2> QED BY ONLY <2>1, <2>2, <2>3, <2>4
<1>4. at_ < Len(file) => n < Len(records) /\ file[at_ + 1].record = records[n + 1]
  <2> SUFFICES ASSUME at_ < Len(file)
               PROVE  n < Len(records) /\ file[at_ + 1].record = records[n + 1]
    OBVIOUS
  <2>1. n < Len(records)
    <3>1. n = Len(records) => at_ = Len(w)
      BY <1>1
    <3> HIDE DEF w
    <3> QED BY <1>1, <1>2, <3>1
  <2>2. at_ + 1 \in 1 .. Len(file)
    BY <1>1, <1>2
  <2> QED BY <1>2, <1>3, <2>1, <2>2
<1>5. Whole(file, at_) <=> n < Len(records) /\ Len(Upto(records, n + 1)) <= Len(file)
  <2>1. CASE n < Len(records)
    <3>1. Len(Upto(records, n + 1)) <= Len(file) => at_ < Len(file)
      BY <1>1, <1>2, <1>3, <2>1
    <3> QED BY <1>1, <1>2, <1>3, <1>4, <2>1, <3>1 DEF Whole
  <2>2. CASE ~(n < Len(records))
    BY <1>4, <2>2 DEF Whole
  <2> QED BY <2>1, <2>2
<1>6. ASSUME Whole(file, at_)
      PROVE  /\ n < Len(records) /\ file[at_ + 1].record = records[n + 1]
             /\ records[n + 1] \in set
             /\ InFront(file, records, at_ + Parts(records[n + 1]), n + 1)
  <2>1. n < Len(records) /\ Len(Upto(records, n + 1)) <= Len(file) /\ at_ < Len(file)
    BY <1>5, <1>6 DEF Whole
  <2> QED BY <1>3, <1>4, <2>1 DEF InFront
<1>7. ASSUME ~Whole(file, at_) PROVE RecordsIn(file, records) = FirstOf(records, n)
  <2> DEFINE whole == {m \in 0 .. Len(records) : Len(Upto(records, m)) <= Len(file)}
  <2>1. n \in whole
    BY <1>1
  <2>2. ASSUME NEW m \in whole PROVE m <= n
    <3> SUFFICES ASSUME ~(m <= n) PROVE FALSE
      OBVIOUS
    <3>1. n < Len(records) /\ n + 1 \in 0 .. m /\ m \in 0 .. Len(records)
      BY <1>1
    <3>2. Len(Upto(records, n + 1)) <= Len(Upto(records, m))
      BY <3>1, UptoGrows
    <3>3. Len(Upto(records, m)) <= Len(file) /\ ~(Len(Upto(records, n + 1)) <= Len(file))
      BY <1>5, <1>7, <3>1
    <3>4. /\ Len(Upto(records, m)) \in Nat /\ Len(Upto(records, n + 1)) \in Nat
      <4>1. \A k \in 0 .. Len(records) : Upto(records, k) \in Seq(PartsIn(set))
        BY UptoGrows
      <4>2. n + 1 \in 0 .. Len(records)
        BY <1>1, <3>1
      <4> QED BY <3>1, <4>1, <4>2
    <3> QED BY <1>2, <3>2, <3>3, <3>4
  <2>3. (CHOOSE k \in whole : \A m \in whole : m <= k) = n
    <3>1. \A k \in whole : k \in Nat
      BY <1>1
    <3> HIDE DEF whole
    <3>2. \E k \in whole : \A m \in whole : m <= k
      BY <2>1, <2>2
    <3> DEFINE c == CHOOSE k \in whole : \A m \in whole : m <= k
    <3>3. c \in whole /\ \A m \in whole : m <= c
      BY <3>2
    <3> HIDE DEF c
    <3>4. c <= n /\ n <= c /\ c \in Nat /\ n \in Nat
      BY <2>1, <2>2, <3>1, <3>3
    <3>5. c = n
      BY <3>4
    <3> QED BY <3>5 DEF c
  <2> QED BY <2>3 DEF RecordsIn, Upto, FirstOf
<1> QED BY <1>6, <1>7

-----------------------------------------------------------------------------
(* The inductive invariant *)

KeyFileRecords == PrivRecords \cup PubRecords

\* What is in memory of the addresses, when the records were loaded: those of others
\* with their state, ours with a time stamp.
PubsOf(records) ==
  {[address |-> r.address, waiting |-> r.waiting] : r \in {q \in records : q.type = "pub"}}
PrivsOf(records) ==
  {[address |-> reloaded[r.address], last |-> r.last] : r \in {q \in records : q.type = "priv"}}
KeysLoaded(records) ==
  /\ ToSet(PubAddresses) = PubsOf(records)
  /\ ToSet(PrivAddresses) \subseteq PrivsOf(records)
  /\ {p.address : p \in ToSet(PrivAddresses)} = {p.address : p \in PrivsOf(records)}

\* What is in memory of the objects.
ObjectsLoaded(records) == {r.object : r \in {q \in records : now < Time[q.object]}}

MeantIsRecords == meant \in [save : Seq(ObjectRecords), keys : Seq(KeyFileRecords)]

FilesBegin == Begins(save, meant.save) /\ Begins(keys, meant.keys)

\* While save() writes, memory is what it means to write.
Saving ==
  /\ pc \in {"loaded", "run", "open"} => at = 0
  /\ pc = "saveobjects" =>
       /\ meant.save = SaveRecords /\ meant.keys = KeyRecords
       /\ Len(save) = at /\ keys = <<>>
  /\ pc = "savekeys" =>
       /\ meant.keys = KeyRecords /\ save = Written(meant.save) /\ Len(keys) = at

\* No two records are of one address of others, in memory and in the file.
Differ(entries) ==
  \A i, j \in DOMAIN entries : entries[i].address = entries[j].address => i = j
PubRecordsDiffer(records) ==
  \A i, j \in DOMAIN records :
    /\ records[i].type = "pub" /\ records[j].type = "pub"
    /\ records[i].address = records[j].address
    => i = j
PubsDiffer == Differ(PubAddresses) /\ PubRecordsDiffer(meant.keys)

\* load() goes through the files record by record.
LoadingKeys(n) ==
  InFront(keys, meant.keys, at, n) /\ KeysLoaded(FirstOf(meant.keys, n))
LoadingObjects(n) ==
  InFront(save, meant.save, at, n) /\ sharedObj = ObjectsLoaded(FirstOf(meant.save, n))
Loading ==
  /\ pc = "off" => sharedObj = {} /\ PrivAddresses = <<>> /\ PubAddresses = <<>>
  /\ pc = "loadkeys" => sharedObj = {} /\ \E n \in Nat : LoadingKeys(n)
  /\ pc \in {"loadobjects", "loaded"} => KeysLoaded(RecordsIn(keys, meant.keys))
  /\ pc = "loadobjects" => \E n \in Nat : LoadingObjects(n)
  /\ pc = "loaded" => sharedObj = ObjectsLoaded(RecordsIn(save, meant.save))

IInv ==
  /\ TypeOK /\ MeantIsRecords /\ FilesBegin /\ Saving /\ SavedUnlessDamaged /\ PubsDiffer
  /\ Loading

-----------------------------------------------------------------------------
(* What the entries of memory are made of *)

PrivEntries == [address : Own, last : Nat]
PubEntries == [address : Others, waiting : BOOLEAN]
AddressesOf(entries) == {p.address : p \in ToSet(entries)}

\* What addAddr does to a vector of addresses.
LEMMA WithIs ==
  ASSUME NEW E, NEW seq \in Seq(E), NEW entry \in E
  PROVE  /\ With(seq, entry) \in Seq(E) /\ Len(seq) <= Len(With(seq, entry))
         /\ \A i \in DOMAIN seq : With(seq, entry)[i] = seq[i]
         /\ Differ(seq) => Differ(With(seq, entry))
         /\ ToSet(seq) \subseteq ToSet(With(seq, entry))
         /\ ToSet(With(seq, entry)) \subseteq ToSet(seq) \cup {entry}
         /\ AddressesOf(With(seq, entry)) = AddressesOf(seq) \cup {entry.address}
<1>1. CASE \E i \in DOMAIN seq : seq[i].address = entry.address
  <2>1. With(seq, entry) = seq /\ Len(seq) \in Nat
    BY <1>1 DEF With
  <2>2. entry.address \in AddressesOf(seq)
    BY <1>1 DEF AddressesOf, ToSet
  <2> QED BY <2>1, <2>2
<1>2. CASE \A i \in DOMAIN seq : seq[i].address # entry.address
  <2> DEFINE more == Append(seq, entry)
  <2>1. With(seq, entry) = more
    BY <1>2 DEF With
  <2>2. /\ more \in Seq(E) /\ Len(more) = Len(seq) + 1 /\ Len(seq) \in Nat
        /\ DOMAIN seq = 1 .. Len(seq) /\ DOMAIN more = 1 .. Len(seq) + 1
        /\ \A i \in 1 .. Len(seq) : more[i] = seq[i]
        /\ more[Len(seq) + 1] = entry
    OBVIOUS
  <2> HIDE DEF more
  <2>3. ToSet(more) = ToSet(seq) \cup {entry}
    <3>1. Len(seq) + 1 \in DOMAIN more /\ \A i \in DOMAIN seq : i \in DOMAIN more
      BY <2>2
    <3>2. \A i \in DOMAIN more : i \in DOMAIN seq \/ i = Len(seq) + 1
      BY <2>2
    <3>3. \A i \in DOMAIN seq : more[i] = seq[i]
      BY <2>2
    <3> QED BY <2>2, <3>1, <3>2, <3>3 DEF ToSet
  <2>4. Differ(seq) => Differ(more)
    <3> SUFFICES ASSUME Differ(seq), NEW i \in DOMAIN more, NEW j \in DOMAIN more,
                        more[i].address = more[j].address
                 PROVE  i = j
      BY DEF Differ
    <3>1. CASE i \in DOMAIN seq /\ j \in DOMAIN seq
      BY <2>2, <3>1 DEF Differ
    <3>2. CASE i \notin DOMAIN seq /\ j \notin DOMAIN seq
      BY <2>2, <3>2
    <3>3. CASE i \in DOMAIN seq /\ j \notin DOMAIN seq
      BY <1>2, <2>2, <3>3
    <3>4. CASE i \notin DOMAIN seq /\ j \in DOMAIN seq
      BY <1>2, <2>2, <3>4
    <3> QED BY <3>1, <3>2, <3>3, <3>4
  <2>5. AddressesOf(more) = AddressesOf(seq) \cup {entry.address}
    BY <2>3 DEF AddressesOf
  <2> QED BY <2>1, <2>2, <2>3, <2>4, <2>5
<1> QED BY <1>1, <1>2

\* ... and for an address of others.
LEMMA WithPubIs ==
  ASSUME NEW seq \in Seq(PubEntries), NEW entry \in PubEntries
  PROVE  /\ WithPub(seq, entry) \in Seq(PubEntries)
         /\ Differ(seq) => Differ(WithPub(seq, entry))
         /\ entry.address \notin AddressesOf(seq) =>
              ToSet(WithPub(seq, entry)) = ToSet(seq) \cup {entry}
<1> DEFINE other == [i \in DOMAIN seq |->
                       IF seq[i].address = entry.address THEN entry ELSE seq[i]]
<1>1. DOMAIN seq = 1 .. Len(seq) /\ Len(seq) \in Nat /\ \A i \in DOMAIN seq : seq[i] \in PubEntries
  OBVIOUS
<1>2. other \in Seq(PubEntries) /\ DOMAIN other = DOMAIN seq
  BY <1>1
<1>3. \A i \in DOMAIN seq : other[i].address = seq[i].address
  OBVIOUS
<1>4. Differ(seq) => Differ(other)
  BY <1>2, <1>3 DEF Differ
<1>5. WithPub(seq, entry) = IF entry.waiting THEN With(seq, entry) ELSE With(other, entry)
  BY DEF WithPub
<1>6. entry.address \notin AddressesOf(seq) => other = seq
  <2> SUFFICES ASSUME entry.address \notin AddressesOf(seq) PROVE other = seq
    OBVIOUS
  <2>1. \A i \in DOMAIN seq : seq[i].address # entry.address
    BY DEF AddressesOf, ToSet
  <2>2. other = [i \in DOMAIN seq |-> seq[i]]
    BY <2>1
  <2> QED BY <2>2
<1> HIDE DEF other
<1>7. /\ With(seq, entry) \in Seq(PubEntries) /\ With(other, entry) \in Seq(PubEntries)
      /\ Differ(seq) => Differ(With(seq, entry))
      /\ Differ(other) => Differ(With(other, entry))
  BY <1>2, WithIs
<1>8. entry.address \notin AddressesOf(seq) => ToSet(With(seq, entry)) = ToSet(seq) \cup {entry}
  <2> SUFFICES ASSUME entry.address \notin AddressesOf(seq)
               PROVE  entry \in ToSet(With(seq, entry))
    BY WithIs
  <2>1. PICK p \in ToSet(With(seq, entry)) : p.address = entry.address
    <3>1. entry.address \in AddressesOf(With(seq, entry))
      BY WithIs
    <3> QED BY <3>1 DEF AddressesOf
  <2>2. p \in ToSet(seq) \/ p = entry
    BY WithIs
  <2>3. p \notin ToSet(seq)
    BY <2>1 DEF AddressesOf
  <2> QED BY <2>2, <2>3
<1> QED BY <1>4, <1>5, <1>6, <1>7, <1>8

\* What is in memory with one more record.
LEMMA FirstOfNext ==
  ASSUME NEW records, NEW n \in Nat
  PROVE  /\ FirstOf(records, n + 1) = FirstOf(records, n) \cup {records[n + 1]}
         /\ FirstOf(records, 0) = {}
<1>1. 1 .. n + 1 = 1 .. n \cup {n + 1} /\ 1 .. 0 = {}
  OBVIOUS
<1> QED BY <1>1 DEF FirstOf

LEMMA PubsWithOne ==
  ASSUME NEW records, NEW r
  PROVE  /\ r.type = "pub" =>
              /\ PubsOf(records \cup {r}) =
                   PubsOf(records) \cup {[address |-> r.address, waiting |-> r.waiting]}
              /\ PrivsOf(records \cup {r}) = PrivsOf(records)
         /\ r.type = "priv" =>
              /\ PubsOf(records \cup {r}) = PubsOf(records)
              /\ PrivsOf(records \cup {r}) =
                   PrivsOf(records) \cup {[address |-> reloaded[r.address], last |-> r.last]}
         /\ PubsOf({}) = {} /\ PrivsOf({}) = {}
<1>1. ASSUME r.type = "pub"
      PROVE  /\ {q \in records \cup {r} : q.type = "pub"} =
                {q \in records : q.type = "pub"} \cup {r}
             /\ {q \in records \cup {r} : q.type = "priv"} = {q \in records : q.type = "priv"}
  BY <1>1
<1>2. ASSUME r.type = "priv"
      PROVE  /\ {q \in records \cup {r} : q.type = "priv"} =
                  {q \in records : q.type = "priv"} \cup {r}
             /\ {q \in records \cup {r} : q.type = "pub"} = {q \in records : q.type = "pub"}
  BY <1>2
<1> QED BY <1>1, <1>2 DEF PubsOf, PrivsOf

LEMMA ObjectsWithOne ==
  ASSUME NEW records, NEW r
  PROVE  /\ ObjectsLoaded(records \cup {r}) =
              IF now < Time[r.object] THEN ObjectsLoaded(records) \cup {r.object}
                                      ELSE ObjectsLoaded(records)
         /\ ObjectsLoaded({}) = {}
BY DEF ObjectsLoaded

-----------------------------------------------------------------------------
(* Files *)

LEMMA FileTypes ==
  ASSUME NEW set \in SUBSET Records, NEW records \in Seq(set), NEW file, Begins(file, records)
  PROVE  /\ Written(records) \in Seq(PartsIn(set)) /\ file \in Seq(PartsIn(set))
         /\ Len(Written(records)) \in Nat /\ Len(file) \in 0 .. Len(Written(records))
         /\ \A i \in DOMAIN file : file[i].record \in set
<1>1. Written(records) \in Seq(PartsIn(set))
  <2>1. Len(records) \in 0 .. Len(records)
    OBVIOUS
  <2> QED BY <2>1, UptoNext, UptoGrows
<1> DEFINE w == Written(records)
<1>2. PICK n \in 0 .. Len(w) : n = Len(file) /\ file = SubSeq(w, 1, n)
  BY DEF Begins
<1> HIDE DEF w
<1>3. w \in Seq(PartsIn(set)) /\ Len(w) \in Nat
  BY <1>1 DEF w
<1>4. SubSeq(w, 1, n) \in Seq(PartsIn(set))
  BY <1>2, <1>3, Beginning
<1>5. file \in Seq(PartsIn(set))
  BY <1>2, <1>4
<1>6. \A i \in DOMAIN file : file[i] \in PartsIn(set)
  BY <1>5
<1> QED BY <1>2, <1>3, <1>5, <1>6 DEF w, PartsIn

LEMMA WrittenType ==
  ASSUME NEW set \in SUBSET Records, NEW records \in Seq(set)
  PROVE  Written(records) \in Seq(PartsIn(set)) /\ Len(Written(records)) \in Nat
<1>1. Written(records) \in Seq(PartsIn(set))
  <2>1. Len(records) \in 0 .. Len(records)
    OBVIOUS
  <2> QED BY <2>1, UptoNext, UptoGrows
<1> DEFINE w == Written(records)
<1> HIDE DEF w
<1>2. w \in Seq(PartsIn(set)) => Len(w) \in Nat
  OBVIOUS
<1> QED BY <1>1, <1>2 DEF w

LEMMA CutsOf ==
  ASSUME NEW A, NEW w \in Seq(A)
  PROVE  /\ SubSeq(w, 1, 0) = <<>> /\ SubSeq(w, 1, Len(w)) = w
         /\ \A n \in 0 .. Len(w) - 1 : SubSeq(w, 1, n + 1) = Append(SubSeq(w, 1, n), w[n + 1])
         /\ \A n \in 0 .. Len(w) : \A m \in 0 .. n :
              SubSeq(SubSeq(w, 1, n), 1, m) = SubSeq(w, 1, m)
OBVIOUS

\* A file that was just opened, the next part, what is left of it, and the last part.
LEMMA FileSteps ==
  ASSUME NEW set \in SUBSET Records, NEW records \in Seq(set)
  PROVE  /\ Begins(<<>>, records)
         /\ \A file : Begins(file, records) /\ Len(file) < Len(Written(records)) =>
              /\ Begins(Append(file, Written(records)[Len(file) + 1]), records)
              /\ Len(Append(file, Written(records)[Len(file) + 1])) = Len(file) + 1
         /\ \A file : Begins(file, records) =>
              \A part \in Beginnings(file) : Begins(part, records)
         /\ \A file : Begins(file, records) /\ Len(file) = Len(Written(records)) =>
              file = Written(records)
         /\ Begins(Written(records), records)
         /\ \A file : Begins(file, records) => IsPrefix(file, Written(records))
<1> DEFINE w == Written(records)
<1>1. w \in Seq(PartsIn(set)) /\ Len(w) \in Nat
  BY WrittenType
<1> HIDE DEF w
<1> DEFINE B(file) == Len(file) \in 0 .. Len(w) /\ file = SubSeq(w, 1, Len(file))
<1>2. \A file : Begins(file, records) <=> B(file)
  BY DEF Begins, w
<1>a. /\ SubSeq(w, 1, 0) = <<>> /\ SubSeq(w, 1, Len(w)) = w
      /\ \A n \in 0 .. Len(w) - 1 : SubSeq(w, 1, n + 1) = Append(SubSeq(w, 1, n), w[n + 1])
      /\ \A n \in 0 .. Len(w) : \A m \in 0 .. n :
           SubSeq(SubSeq(w, 1, n), 1, m) = SubSeq(w, 1, m)
  BY <1>1, CutsOf
<1> HIDE DEF B
<1>3. Begins(<<>>, records)
  <2>1. Len(<<>>) = 0 /\ 0 \in 0 .. Len(w)
    BY <1>1
  <2>2. B(<<>>)
    BY <1>a, <2>1 DEF B
  <2> QED BY <1>2, <2>2
<1>4. ASSUME NEW file, Begins(file, records), Len(file) < Len(w)
      PROVE  /\ Begins(Append(file, w[Len(file) + 1]), records)
             /\ Len(Append(file, w[Len(file) + 1])) = Len(file) + 1
  <2>1. PICK n \in 0 .. Len(w) - 1 : n = Len(file) /\ file = SubSeq(w, 1, n)
    <3>1. B(file)
      BY <1>2, <1>4
    <3>2. Len(file) \in 0 .. Len(w) - 1
      BY <1>1, <1>4, <3>1 DEF B
    <3> QED BY <3>1, <3>2 DEF B
  <2>2. SubSeq(w, 1, n + 1) = Append(SubSeq(w, 1, n), w[n + 1])
    BY <1>a
  <2>3. n + 1 \in 0 .. Len(w)
    BY <1>1
  <2>4. Len(SubSeq(w, 1, n + 1)) = n + 1
    BY <1>1, <2>3, Beginning
  <2>5. Append(file, w[Len(file) + 1]) = SubSeq(w, 1, n + 1)
    BY <2>1, <2>2
  <2>6. B(SubSeq(w, 1, n + 1))
    BY <2>3, <2>4 DEF B
  <2> QED BY <1>2, <2>1, <2>4, <2>5, <2>6
<1>5. ASSUME NEW file, Begins(file, records), NEW part \in Beginnings(file)
      PROVE  Begins(part, records)
  <2>1. PICK n \in 0 .. Len(w) : n = Len(file) /\ file = SubSeq(w, 1, n)
    BY <1>2, <1>5 DEF B
  <2>2. PICK m \in 0 .. n : part = SubSeq(file, 1, m)
    BY <2>1 DEF Beginnings
  <2>3. m \in 0 .. Len(w)
    BY <1>1
  <2>4. part = SubSeq(w, 1, m) /\ Len(SubSeq(w, 1, m)) = m
    <3>1. part = SubSeq(w, 1, m)
      BY <1>a, <2>1, <2>2
    <3> QED BY <1>1, <2>3, <3>1, Beginning
  <2>5. B(part)
    BY <2>3, <2>4 DEF B
  <2> QED BY <1>2, <2>5
<1>6. ASSUME NEW file, Begins(file, records), Len(file) = Len(w) PROVE file = w
  <2>1. B(file)
    BY <1>2, <1>6
  <2> QED BY <1>6, <1>a, <2>1 DEF B
<1>7. Begins(w, records)
  <2>1. Len(w) \in 0 .. Len(w)
    BY <1>1
  <2>2. B(w)
    BY <1>a, <2>1 DEF B
  <2> QED BY <1>2, <2>2
<1>8. ASSUME NEW file, Begins(file, records) PROVE IsPrefix(file, w)
  <2>1. PICK n \in 0 .. Len(w) : n = Len(file) /\ file = SubSeq(w, 1, n)
    BY <1>2, <1>8 DEF B
  <2>2. SubSeq(SubSeq(w, 1, n), 1, n) = SubSeq(w, 1, n)
    <3>1. n \in 0 .. n
      BY <1>1
    <3> QED BY <1>a, <3>1
  <2>3. Len(file) <= Len(w) /\ SubSeq(file, 1, Len(file)) = SubSeq(w, 1, Len(file))
    BY <1>1, <2>1, <2>2
  <2> QED BY <2>3 DEF IsPrefix
<1> QED BY <1>3, <1>4, <1>5, <1>6, <1>7, <1>8 DEF w

-----------------------------------------------------------------------------
(* What save() means to write *)

LEMMA SaveRecordsType ==
  SaveRecords \in Seq(ObjectRecords)
<1> DEFINE R(o) == [type |-> "object", object |-> o]
           seqs == [i \in DOMAIN Objects |->
                      IF Objects[i] \in sharedObj THEN <<R(Objects[i])>> ELSE <<>>]
<1>1. DOMAIN Objects = 1 .. Len(Objects) /\ Len(Objects) \in Nat
      /\ \A i \in DOMAIN Objects : Objects[i] \in ToSet(Objects)
  BY PersistenceAssumption
<1>2. \A o \in ToSet(Objects) : R(o) \in ObjectRecords
  BY DEF ObjectRecords
<1>3. \A r \in ObjectRecords : <<r>> \in Seq(ObjectRecords)
  OBVIOUS
<1>4. <<>> \in Seq(ObjectRecords)
  OBVIOUS
<1>5. \A i \in DOMAIN Objects :
        (IF Objects[i] \in sharedObj THEN <<R(Objects[i])>> ELSE <<>>) \in Seq(ObjectRecords)
  BY <1>1, <1>2, <1>3, <1>4
<1>6. seqs \in Seq(Seq(ObjectRecords))
  BY <1>1, <1>5
<1>7. FlattenSeq(seqs) \in Seq(ObjectRecords)
  <2> HIDE DEF seqs
  <2> QED BY <1>6, FlattenType
<1> QED BY <1>7 DEF SaveRecords

PrivRecord(p) == [type |-> "priv", address |-> p.address, last |-> p.last]
PubRecord(p) == [type |-> "pub", address |-> p.address, waiting |-> p.waiting]

LEMMA KeyRecordsAre ==
  ASSUME PrivAddresses \in Seq(PrivEntries), PubAddresses \in Seq(PubEntries)
  PROVE  /\ KeyRecords \in Seq(KeyFileRecords)
         /\ DOMAIN KeyRecords = 1 .. Len(PrivAddresses) + Len(PubAddresses)
         /\ \A i \in DOMAIN PrivAddresses : KeyRecords[i] = PrivRecord(PrivAddresses[i])
         /\ \A i \in DOMAIN PubAddresses :
              KeyRecords[Len(PrivAddresses) + i] = PubRecord(PubAddresses[i])
<1> DEFINE s == [i \in DOMAIN PrivAddresses |-> PrivRecord(PrivAddresses[i])]
           t == [i \in DOMAIN PubAddresses |-> PubRecord(PubAddresses[i])]
<1>1. \A p \in PrivEntries : PrivRecord(p) \in KeyFileRecords
  BY DEF PrivRecord, PrivEntries, KeyFileRecords, PrivRecords
<1>2. \A p \in PubEntries : PubRecord(p) \in KeyFileRecords
  BY DEF PubRecord, PubEntries, KeyFileRecords, PubRecords
<1>3. s \in Seq(KeyFileRecords) /\ Len(s) = Len(PrivAddresses)
      /\ DOMAIN PrivAddresses = 1 .. Len(PrivAddresses)
  BY <1>1
<1>4. t \in Seq(KeyFileRecords) /\ Len(t) = Len(PubAddresses)
      /\ DOMAIN PubAddresses = 1 .. Len(PubAddresses)
  BY <1>2
<1>5. \A i \in DOMAIN PrivAddresses : s[i] = PrivRecord(PrivAddresses[i])
  OBVIOUS
<1>6. \A i \in DOMAIN PubAddresses : t[i] = PubRecord(PubAddresses[i])
  OBVIOUS
<1>7. KeyRecords = s \o t
  BY DEF KeyRecords, PrivRecord, PubRecord
<1> HIDE DEF s, t
<1>8. /\ s \o t \in Seq(KeyFileRecords) /\ Len(s \o t) = Len(s) + Len(t)
      /\ \A i \in 1 .. Len(s) : (s \o t)[i] = s[i]
      /\ \A i \in 1 .. Len(t) : (s \o t)[Len(s) + i] = t[i]
  <2>1. s \in Seq(KeyFileRecords) /\ t \in Seq(KeyFileRecords)
    BY <1>3, <1>4
  <2> QED BY <2>1, Behind
<1>9. DOMAIN (s \o t) = 1 .. Len(s \o t)
  BY <1>8
<1> QED BY <1>3, <1>4, <1>5, <1>6, <1>7, <1>8, <1>9

\* A record of keys.dat is that of an address of ours or of an address of others.
LEMMA KeyRecordIs ==
  ASSUME PrivAddresses \in Seq(PrivEntries), PubAddresses \in Seq(PubEntries),
         NEW i \in DOMAIN KeyRecords
  PROVE  \/ i \in DOMAIN PrivAddresses /\ KeyRecords[i] = PrivRecord(PrivAddresses[i])
         \/ \E j \in DOMAIN PubAddresses :
              i = Len(PrivAddresses) + j /\ KeyRecords[i] = PubRecord(PubAddresses[j])
<1>1. /\ DOMAIN PrivAddresses = 1 .. Len(PrivAddresses) /\ Len(PrivAddresses) \in Nat
      /\ DOMAIN PubAddresses = 1 .. Len(PubAddresses) /\ Len(PubAddresses) \in Nat
  OBVIOUS
<1>2. i \in 1 .. Len(PrivAddresses) + Len(PubAddresses)
  BY KeyRecordsAre
<1>3. CASE i <= Len(PrivAddresses)
  <2>1. i \in DOMAIN PrivAddresses
    BY <1>1, <1>2, <1>3
  <2> QED BY <2>1, KeyRecordsAre
<1>4. CASE ~(i <= Len(PrivAddresses))
  <2>1. PICK j \in DOMAIN PubAddresses : i = Len(PrivAddresses) + j
    <3>1. i - Len(PrivAddresses) \in 1 .. Len(PubAddresses)
          /\ i = Len(PrivAddresses) + (i - Len(PrivAddresses))
      BY <1>1, <1>2, <1>4
    <3> QED BY <1>1, <3>1
  <2>2. KeyRecords[i] = PubRecord(PubAddresses[j])
    BY <2>1, KeyRecordsAre
  <2> QED BY <2>1, <2>2
<1> QED BY <1>3, <1>4

LEMMA KeyRecordsDiffer ==
  ASSUME PrivAddresses \in Seq(PrivEntries), PubAddresses \in Seq(PubEntries),
         Differ(PubAddresses)
  PROVE  PubRecordsDiffer(KeyRecords)
<1> SUFFICES ASSUME NEW i \in DOMAIN KeyRecords, NEW j \in DOMAIN KeyRecords,
                    KeyRecords[i].type = "pub", KeyRecords[j].type = "pub",
                    KeyRecords[i].address = KeyRecords[j].address
             PROVE  i = j
  BY DEF PubRecordsDiffer
<1>1. \A p : PrivRecord(p).type = "priv" /\ PubRecord(p).address = p.address
  BY DEF PrivRecord, PubRecord
<1>2. PICK k \in DOMAIN PubAddresses :
        i = Len(PrivAddresses) + k /\ KeyRecords[i] = PubRecord(PubAddresses[k])
  BY <1>1, KeyRecordIs
<1>3. PICK m \in DOMAIN PubAddresses :
        j = Len(PrivAddresses) + m /\ KeyRecords[j] = PubRecord(PubAddresses[m])
  BY <1>1, KeyRecordIs
<1>4. PubAddresses[k].address = PubAddresses[m].address
  BY <1>1, <1>2, <1>3
<1> QED BY <1>2, <1>3, <1>4 DEF Differ

-----------------------------------------------------------------------------
(* The initial states, and what most steps leave alone *)

\* The sets of records are records.
LEMMA RecordSets ==
  /\ ObjectRecords \in SUBSET Records /\ KeyFileRecords \in SUBSET Records
  /\ MeantIsRecords =>
       meant.save \in Seq(ObjectRecords) /\ meant.keys \in Seq(KeyFileRecords)
BY DEF Records, KeyFileRecords, MeantIsRecords

LEMMA InitIInv == Init => IInv
<1> SUFFICES ASSUME Init PROVE IInv
  OBVIOUS
<1> USE PersistenceAssumption
<1>1. TypeOK
  <2>1. Lost \in [Own -> [Listeners -> Nat]]
    BY DEF Lost
  <2>2. /\ PrivAddresses \in Seq([address : Own, last : Nat])
        /\ PubAddresses \in Seq([address : Others, waiting : BOOLEAN])
        /\ Len(PrivAddresses) = 0 /\ DOMAIN save = {} /\ DOMAIN keys = {}
    BY DEF Init
  <2>3. answering \in [Listeners -> 0 .. Len(PrivAddresses)]
    BY <2>2 DEF Init
  <2>4. damaged \in BOOLEAN /\ shared \in [Own -> [Listeners -> Nat]]
    BY <2>1 DEF Init
  <2> QED BY <2>2, <2>3, <2>4 DEF Init, TypeOK, Phases
<1>2. MeantIsRecords
  BY DEF Init, MeantIsRecords
<1>3. meant.save = <<>> /\ meant.keys = <<>> /\ save = <<>> /\ keys = <<>> /\ pc = "off"
  BY DEF Init
<1>4. FilesBegin
  <2>1. Begins(<<>>, <<>>)
    <3>1. <<>> \in Seq(ObjectRecords)
      OBVIOUS
    <3> QED BY <3>1, RecordSets, FileSteps
  <2> QED BY <1>3, <2>1 DEF FilesBegin
<1>5. Saving /\ SavedUnlessDamaged
  BY <1>3, WrittenEmpty DEF Saving, SavedUnlessDamaged
<1>6. PubsDiffer
  BY <1>3 DEF Init, PubsDiffer, Differ, PubRecordsDiffer
<1>7. Loading
  BY <1>3 DEF Init, Loading
<1> QED BY <1>1, <1>2, <1>4, <1>5, <1>6, <1>7 DEF IInv

\* The types as the lemmas need them.
LEMMA MemoryTypes ==
  ASSUME TypeOK
  PROVE  /\ PrivAddresses \in Seq(PrivEntries) /\ PubAddresses \in Seq(PubEntries)
         /\ Len(PrivAddresses) \in Nat /\ DOMAIN PrivAddresses = 1 .. Len(PrivAddresses)
         /\ DOMAIN PubAddresses = 1 .. Len(PubAddresses)
BY DEF TypeOK, PrivEntries, PubEntries

LEMMA FilesStay ==
  ASSUME IInv, UNCHANGED <<disk, meant, damaged>>,
         pc \in {"saveobjects", "savekeys"} => pc' \in {"saveobjects", "savekeys"}
  PROVE  /\ MeantIsRecords' /\ FilesBegin' /\ SavedUnlessDamaged'
         /\ (PubRecordsDiffer(meant.keys))'
BY DEF IInv, MeantIsRecords, FilesBegin, SavedUnlessDamaged, disk, PubsDiffer

\* Out of save(), with the memory as it is.
LEMMA OutOfSave ==
  ASSUME pc' \notin {"saveobjects", "savekeys"}, pc' \in {"loaded", "run", "open"} => at' = 0
  PROVE  Saving'
BY DEF Saving

\* Out of load().
LEMMA OutOfLoad ==
  ASSUME pc' \notin {"off", "loadkeys", "loadobjects", "loaded"}
  PROVE  Loading'
BY DEF Loading

LEMMA MemoryStays ==
  ASSUME UNCHANGED memory
  PROVE  /\ SaveRecords' = SaveRecords /\ KeyRecords' = KeyRecords
         /\ Differ(PubAddresses) => (Differ(PubAddresses))'
         /\ \A records : KeysLoaded(records) => (KeysLoaded(records))'
BY DEF memory, SaveRecords, KeyRecords, KeysLoaded

LEMMA RecordsStay ==
  ASSUME UNCHANGED <<disk, meant>>
  PROVE  /\ RecordsIn(keys, meant.keys)' = RecordsIn(keys, meant.keys)
         /\ RecordsIn(save, meant.save)' = RecordsIn(save, meant.save)
BY DEF disk

-----------------------------------------------------------------------------
(* load() *)

LEMMA StartKeeps == IInv /\ Start => IInv'
<1> SUFFICES ASSUME IInv, Start PROVE IInv'
  OBVIOUS
<1> USE PersistenceAssumption
<1>1. TypeOK'
  BY DEF IInv, TypeOK, Start, Goto, memory, disk, Phases
<1>2. pc' = "loadkeys" /\ pc = "off" /\ at' = 0 /\ UNCHANGED <<disk, meant, damaged, memory>>
  BY DEF Start, Goto
<1>3. MeantIsRecords' /\ FilesBegin' /\ SavedUnlessDamaged' /\ (PubRecordsDiffer(meant.keys))'
  BY <1>2, FilesStay
<1>4. PubsDiffer'
  BY <1>2, <1>3, MemoryStays DEF PubsDiffer, IInv
<1>5. Loading'
  <2>1. sharedObj' = {} /\ PrivAddresses' = <<>> /\ PubAddresses' = <<>>
    BY <1>2 DEF IInv, Loading, memory
  <2>2. (KeysLoaded({}))'
    <3>1. PubsOf({}) = {} /\ PrivsOf({}) = {}
      BY PubsWithOne
    <3> QED BY <2>1, <3>1 DEF KeysLoaded, ToSet
  <2>3. FirstOf(meant'.keys, 0) = {}
    BY DEF FirstOf
  <2>4. InFront(keys', meant'.keys, at', 0)
    <3>1. meant'.keys \in Seq(KeyFileRecords) /\ Begins(keys', meant'.keys)
      BY <1>3 DEF FilesBegin, MeantIsRecords
    <3>2. Upto(meant'.keys, 0) = <<>> /\ Len(<<>>) = 0
      BY <3>1, RecordSets, UptoNext
    <3>3. Len(keys') \in Nat /\ Len(meant'.keys) \in Nat
      BY <3>1, RecordSets, FileTypes
    <3> QED BY <1>2, <3>2, <3>3 DEF InFront
  <2>5. LoadingKeys(0)'
    BY <2>2, <2>3, <2>4 DEF LoadingKeys
  <2> QED BY <1>2, <2>1, <2>5 DEF Loading
<1> QED BY <1>1, <1>2, <1>3, <1>4, <1>5, OutOfSave DEF IInv

LEMMA LoadKeyKeeps == IInv /\ LoadKey => IInv'
<1> SUFFICES ASSUME IInv, LoadKey PROVE IInv'
  OBVIOUS
<1> USE PersistenceAssumption
<1>0. PICK r : r = keys[at + 1].record
  OBVIOUS
<1>1. /\ pc = "loadkeys" /\ pc' = "loadkeys" /\ Whole(keys, at) /\ at' = at + Parts(r)
      /\ UNCHANGED <<now, run, sharedObj, disk, answering, meant, damaged, shared, changes>>
      /\ IF r.type = "priv" THEN LoadPriv(r) ELSE LoadPub(r)
  BY <1>0 DEF LoadKey
<1>2. MeantIsRecords' /\ FilesBegin' /\ SavedUnlessDamaged' /\ (PubRecordsDiffer(meant.keys))'
  BY <1>1, FilesStay
<1>3. /\ meant.keys \in Seq(KeyFileRecords) /\ Begins(keys, meant.keys)
      /\ Len(keys) \in Nat /\ sharedObj = {}
  <2>1. MeantIsRecords /\ FilesBegin /\ Loading
    BY DEF IInv
  <2> QED BY <1>1, <2>1, RecordSets, FileTypes DEF FilesBegin, Loading
<1>4. PICK n \in Nat : LoadingKeys(n)
  BY <1>1 DEF IInv, Loading
<1>5. /\ n < Len(meant.keys) /\ r = meant.keys[n + 1] /\ r \in KeyFileRecords
      /\ InFront(keys, meant.keys, at + Parts(r), n + 1) /\ n \in 0 .. Len(meant.keys)
  <2>1. InFront(keys, meant.keys, at, n)
    BY <1>4 DEF LoadingKeys
  <2>2. /\ n < Len(meant.keys) /\ r = meant.keys[n + 1] /\ meant.keys[n + 1] \in KeyFileRecords
        /\ InFront(keys, meant.keys, at + Parts(meant.keys[n + 1]), n + 1)
    <3>1. KeyFileRecords \in SUBSET Records
      BY RecordSets
    <3>2. /\ n < Len(meant.keys) /\ keys[at + 1].record = meant.keys[n + 1]
          /\ meant.keys[n + 1] \in KeyFileRecords
          /\ InFront(keys, meant.keys, at + Parts(meant.keys[n + 1]), n + 1)
      BY <1>1, <1>3, <2>1, <3>1, ReadsRecord
    <3> QED BY <1>0, <3>2
  <2> QED BY <2>1, <2>2 DEF InFront
<1>6. KeysLoaded(FirstOf(meant.keys, n))
  BY <1>4 DEF LoadingKeys
<1>7. FirstOf(meant.keys, n + 1) = FirstOf(meant.keys, n) \cup {r}
  <2>1. FirstOf(meant.keys, n + 1) = FirstOf(meant.keys, n) \cup {meant.keys[n + 1]}
    BY FirstOfNext
  <2> QED BY <1>5, <2>1
<1>8. PrivAddresses \in Seq(PrivEntries) /\ PubAddresses \in Seq(PubEntries)
      /\ Differ(PubAddresses)
  BY MemoryTypes DEF IInv, PubsDiffer
<1>9. /\ PrivAddresses' \in Seq(PrivEntries) /\ PubAddresses' \in Seq(PubEntries)
      /\ Len(PrivAddresses) <= Len(PrivAddresses') /\ Differ(PubAddresses')
      /\ (KeysLoaded(FirstOf(meant.keys, n) \cup {r}))'
  <2> DEFINE F == FirstOf(meant.keys, n)
  <2>1. ToSet(PubAddresses) = PubsOf(F) /\ ToSet(PrivAddresses) \subseteq PrivsOf(F)
        /\ AddressesOf(PrivAddresses) = {p.address : p \in PrivsOf(F)}
    BY <1>6 DEF KeysLoaded, AddressesOf
  <2>2. r.type = "priv" \/ r.type = "pub"
    BY <1>5 DEF KeyFileRecords, PrivRecords, PubRecords
  <2>3. CASE r.type = "priv"
    <3> DEFINE e == [address |-> reloaded[r.address], last |-> r.last]
    <3>1. PrivAddresses' = With(PrivAddresses, e) /\ PubAddresses' = PubAddresses
      BY <1>1, <2>3 DEF LoadPriv
    <3>2. e \in PrivEntries
      BY <1>5, <2>3 DEF KeyFileRecords, PrivRecords, PubRecords, PrivEntries
    <3>3. PubsOf(F \cup {r}) = PubsOf(F) /\ PrivsOf(F \cup {r}) = PrivsOf(F) \cup {e}
      BY <2>3, PubsWithOne
    <3> HIDE DEF e, F
    <3>4. /\ With(PrivAddresses, e) \in Seq(PrivEntries)
          /\ Len(PrivAddresses) <= Len(With(PrivAddresses, e))
          /\ ToSet(With(PrivAddresses, e)) \subseteq ToSet(PrivAddresses) \cup {e}
          /\ AddressesOf(With(PrivAddresses, e)) = AddressesOf(PrivAddresses) \cup {e.address}
      BY <1>8, <3>2, WithIs
    <3>5. {p.address : p \in PrivsOf(F) \cup {e}} = {p.address : p \in PrivsOf(F)} \cup {e.address}
      OBVIOUS
    <3>6. ToSet(PubAddresses') = PubsOf(F \cup {r})
          /\ ToSet(PrivAddresses') \subseteq PrivsOf(F \cup {r})
          /\ AddressesOf(PrivAddresses') = {p.address : p \in PrivsOf(F \cup {r})}
      BY <2>1, <3>1, <3>3, <3>4, <3>5
    <3>7. (KeysLoaded(F \cup {r}))'
      <4>1. F' = F
        BY <1>1 DEF F
      <4> QED BY <3>6, <4>1 DEF KeysLoaded, AddressesOf
    <3> QED BY <1>8, <3>1, <3>4, <3>7 DEF F
  <2>4. CASE r.type = "pub"
    <3> DEFINE e == [address |-> r.address, waiting |-> r.waiting]
    <3>1. PrivAddresses' = PrivAddresses /\ PubAddresses' = WithPub(PubAddresses, e)
      BY <1>1, <2>4 DEF LoadPub
    <3>2. e \in PubEntries
      BY <1>5, <2>4 DEF KeyFileRecords, PrivRecords, PubRecords, PubEntries
    <3>3. PubsOf(F \cup {r}) = PubsOf(F) \cup {e} /\ PrivsOf(F \cup {r}) = PrivsOf(F)
      BY <2>4, PubsWithOne
    <3>4. e.address \notin AddressesOf(PubAddresses)
      <4> SUFFICES ASSUME NEW p \in ToSet(PubAddresses), p.address = r.address PROVE FALSE
        BY DEF AddressesOf
      <4>1. p \in PubsOf(F)
        BY <2>1
      <4>2. PICK i \in 1 .. n : meant.keys[i].type = "pub" /\ p.address = meant.keys[i].address
        BY <4>1 DEF PubsOf, FirstOf
      <4>3. i \in DOMAIN meant.keys /\ n + 1 \in DOMAIN meant.keys /\ i # n + 1
        BY <1>3, <1>5
      <4>4. PubRecordsDiffer(meant.keys)
        BY DEF IInv, PubsDiffer
      <4> QED BY <1>5, <2>4, <4>2, <4>3, <4>4 DEF PubRecordsDiffer
    <3> HIDE DEF e, F
    <3>5. /\ WithPub(PubAddresses, e) \in Seq(PubEntries) /\ Differ(WithPub(PubAddresses, e))
          /\ ToSet(WithPub(PubAddresses, e)) = ToSet(PubAddresses) \cup {e}
      BY <1>8, <3>2, <3>4, WithPubIs
    <3>6. ToSet(PubAddresses') = PubsOf(F \cup {r})
          /\ ToSet(PrivAddresses') \subseteq PrivsOf(F \cup {r})
          /\ AddressesOf(PrivAddresses') = {p.address : p \in PrivsOf(F \cup {r})}
      BY <2>1, <3>1, <3>3, <3>5
    <3>7. (KeysLoaded(F \cup {r}))'
      <4>1. F' = F
        BY <1>1 DEF F
      <4> QED BY <3>6, <4>1 DEF KeysLoaded, AddressesOf
    <3> QED BY <1>8, <3>1, <3>5, <3>7 DEF F
  <2> QED BY <2>2, <2>3, <2>4
<1>10. LoadingKeys(n + 1)'
  <2>1. InFront(keys', meant'.keys, at', n + 1)
    BY <1>1, <1>5 DEF disk
  <2>2. (FirstOf(meant.keys, n) \cup {r})' = FirstOf(meant'.keys, n + 1)
    BY <1>1, <1>7
  <2> QED BY <1>9, <2>1, <2>2 DEF LoadingKeys
<1>11. Loading'
  BY <1>1, <1>3, <1>10 DEF Loading
<1>12. TypeOK'
  <2>1. at' \in Nat /\ at' <= Len(keys)
    BY <1>1, <1>5, <1>3 DEF InFront
  <2> QED BY <1>1, <1>9, <2>1 DEF IInv, TypeOK, disk, PrivEntries, PubEntries
<1>13. PubsDiffer'
  BY <1>2, <1>9 DEF PubsDiffer
<1> QED BY <1>1, <1>2, <1>11, <1>12, <1>13, OutOfSave DEF IInv

\* At the end of keys.dat the addresses of all records that are whole are there.
LEMMA LoadKeysEndKeeps == IInv /\ LoadKeysEnd => IInv'
<1> SUFFICES ASSUME IInv, LoadKeysEnd PROVE IInv'
  OBVIOUS
<1> USE PersistenceAssumption
<1>1. /\ pc = "loadkeys" /\ pc' = "loadobjects" /\ ~Whole(keys, at) /\ at' = 0
      /\ UNCHANGED <<now, run, memory, disk, answering, meant, damaged, shared, changes>>
  BY DEF LoadKeysEnd, Goto
<1>2. MeantIsRecords' /\ FilesBegin' /\ SavedUnlessDamaged' /\ (PubRecordsDiffer(meant.keys))'
  BY <1>1, FilesStay
<1>3. /\ meant.keys \in Seq(KeyFileRecords) /\ Begins(keys, meant.keys)
      /\ meant.save \in Seq(ObjectRecords) /\ Begins(save, meant.save)
      /\ Len(save) \in Nat /\ sharedObj = {} /\ Len(meant.save) \in Nat
  <2>1. MeantIsRecords /\ FilesBegin /\ Loading
    BY DEF IInv
  <2>2. meant.save \in Seq(ObjectRecords) /\ Begins(save, meant.save)
    BY <2>1, RecordSets DEF FilesBegin
  <2>3. Len(save) \in Nat /\ Len(meant.save) \in Nat
    BY <2>2, RecordSets, FileTypes
  <2> QED BY <1>1, <2>1, <2>2, <2>3, RecordSets DEF FilesBegin, Loading
<1>4. PICK n \in Nat : LoadingKeys(n)
  BY <1>1 DEF IInv, Loading
<1>5. RecordsIn(keys, meant.keys) = FirstOf(meant.keys, n)
  <2>1. InFront(keys, meant.keys, at, n)
    BY <1>4 DEF LoadingKeys
  <2>2. KeyFileRecords \in SUBSET Records
    BY RecordSets
  <2>3. ~Whole(keys, at) /\ meant.keys \in Seq(KeyFileRecords) /\ Begins(keys, meant.keys)
    BY <1>1, <1>3
  <2> QED BY <2>1, <2>2, <2>3, ReadsRecord, SMTT(40)
<1>6. KeysLoaded(RecordsIn(keys, meant.keys))
  BY <1>4, <1>5 DEF LoadingKeys
<1>7. (KeysLoaded(RecordsIn(keys, meant.keys)))'
  BY <1>1, <1>6 DEF KeysLoaded, memory, disk
<1>8. LoadingObjects(0)'
  <2>1. InFront(save', meant'.save, at', 0)
    <3>1. Upto(meant.save, 0) = <<>> /\ Len(<<>>) = 0
      BY <1>3, RecordSets, UptoNext
    <3> QED BY <1>1, <1>3, <3>1 DEF InFront, disk
  <2>2. sharedObj' = {} /\ FirstOf(meant'.save, 0) = {}
    BY <1>1, <1>3 DEF memory, FirstOf
  <2>3. (ObjectsLoaded(FirstOf(meant.save, 0)))' = {}
    BY <2>2 DEF ObjectsLoaded
  <2> QED BY <2>1, <2>2, <2>3 DEF LoadingObjects
<1>9. Loading'
  BY <1>1, <1>7, <1>8 DEF Loading
<1>10. TypeOK'
  BY <1>1, <1>3 DEF IInv, TypeOK, memory, disk, Phases
<1>11. PubsDiffer'
  BY <1>1, <1>2, MemoryStays DEF PubsDiffer, IInv
<1> QED BY <1>1, <1>2, <1>9, <1>10, <1>11, OutOfSave DEF IInv

LEMMA LoadObjectKeeps == IInv /\ LoadObject => IInv'
<1> SUFFICES ASSUME IInv, LoadObject PROVE IInv'
  OBVIOUS
<1> USE PersistenceAssumption
<1>0. PICK r : r = save[at + 1].record
  OBVIOUS
<1>1. /\ pc = "loadobjects" /\ pc' = "loadobjects" /\ Whole(save, at) /\ at' = at + Parts(r)
      /\ UNCHANGED <<now, run, PrivAddresses, PubAddresses, disk, answering, meant, damaged,
                     shared, changes>>
      /\ sharedObj' = IF now < Time[r.object] THEN sharedObj \cup {r.object} ELSE sharedObj
  BY <1>0 DEF LoadObject
<1>2. MeantIsRecords' /\ FilesBegin' /\ SavedUnlessDamaged' /\ (PubRecordsDiffer(meant.keys))'
  BY <1>1, FilesStay
<1>3. /\ meant.save \in Seq(ObjectRecords) /\ Begins(save, meant.save)
      /\ Len(save) \in Nat
  <2>1. MeantIsRecords /\ FilesBegin
    BY DEF IInv
  <2>2. meant.save \in Seq(ObjectRecords) /\ Begins(save, meant.save)
    BY <2>1, RecordSets DEF FilesBegin
  <2> QED BY <2>2, RecordSets, FileTypes
<1>4. PICK n \in Nat : LoadingObjects(n)
  BY <1>1 DEF IInv, Loading
<1>5. /\ n < Len(meant.save) /\ r = meant.save[n + 1] /\ r \in ObjectRecords
      /\ InFront(save, meant.save, at + Parts(r), n + 1)
  <2>1. InFront(save, meant.save, at, n)
    BY <1>4 DEF LoadingObjects
  <2>2. ObjectRecords \in SUBSET Records
    BY RecordSets
  <2>3. /\ n < Len(meant.save) /\ save[at + 1].record = meant.save[n + 1]
        /\ meant.save[n + 1] \in ObjectRecords
        /\ InFront(save, meant.save, at + Parts(meant.save[n + 1]), n + 1)
    BY <1>1, <1>3, <2>1, <2>2, ReadsRecord
  <2> QED BY <1>0, <2>3
<1>6. sharedObj = ObjectsLoaded(FirstOf(meant.save, n))
  BY <1>4 DEF LoadingObjects
<1>7. FirstOf(meant.save, n + 1) = FirstOf(meant.save, n) \cup {r}
  <2>1. FirstOf(meant.save, n + 1) = FirstOf(meant.save, n) \cup {meant.save[n + 1]}
    BY FirstOfNext
  <2> QED BY <1>5, <2>1
<1>8. sharedObj' = ObjectsLoaded(FirstOf(meant.save, n + 1))
  BY <1>1, <1>6, <1>7, ObjectsWithOne
<1>9. LoadingObjects(n + 1)'
  <2>1. InFront(save', meant'.save, at', n + 1)
    BY <1>1, <1>5 DEF disk
  <2>2. (ObjectsLoaded(FirstOf(meant.save, n + 1)))' = ObjectsLoaded(FirstOf(meant.save, n + 1))
    BY <1>1 DEF ObjectsLoaded
  <2> QED BY <1>8, <2>1, <2>2 DEF LoadingObjects
<1>10. Loading'
  <2>1. KeysLoaded(RecordsIn(keys, meant.keys))
    BY <1>1 DEF IInv, Loading
  <2>2. (KeysLoaded(RecordsIn(keys, meant.keys)))'
    BY <1>1, <2>1 DEF KeysLoaded, disk
  <2> QED BY <1>1, <1>9, <2>2 DEF Loading
<1>11. TypeOK'
  <2>1. at' \in Nat /\ at' <= Len(save)
    BY <1>1, <1>5, <1>3 DEF InFront
  <2>2. r.object \in ToSet(Objects)
    BY <1>5 DEF ObjectRecords
  <2>3. sharedObj' \subseteq ToSet(Objects)
    BY <1>1, <2>2 DEF IInv, TypeOK
  <2> QED BY <1>1, <2>1, <2>3 DEF IInv, TypeOK, disk
<1>12. PubsDiffer'
  BY <1>1, <1>2 DEF PubsDiffer, IInv
<1> QED BY <1>1, <1>2, <1>10, <1>11, <1>12, OutOfSave DEF IInv

LEMMA LoadEndKeeps == IInv /\ LoadEnd => IInv'
<1> SUFFICES ASSUME IInv, LoadEnd PROVE IInv'
  OBVIOUS
<1> USE PersistenceAssumption
<1>1. /\ pc = "loadobjects" /\ pc' = "loaded" /\ ~Whole(save, at) /\ at' = 0
      /\ UNCHANGED <<now, run, memory, disk, answering, meant, damaged, shared, changes>>
  BY DEF LoadEnd, Goto
<1>2. MeantIsRecords' /\ FilesBegin' /\ SavedUnlessDamaged' /\ (PubRecordsDiffer(meant.keys))'
  BY <1>1, FilesStay
<1>3. meant.save \in Seq(ObjectRecords) /\ Begins(save, meant.save)
  <2>1. MeantIsRecords /\ FilesBegin
    BY DEF IInv
  <2> QED BY <2>1, RecordSets DEF FilesBegin
<1>4. PICK n \in Nat : LoadingObjects(n)
  BY <1>1 DEF IInv, Loading
<1>5. RecordsIn(save, meant.save) = FirstOf(meant.save, n)
  <2>1. InFront(save, meant.save, at, n)
    BY <1>4 DEF LoadingObjects
  <2>2. ObjectRecords \in SUBSET Records
    BY RecordSets
  <2>3. ~Whole(save, at) /\ meant.save \in Seq(ObjectRecords) /\ Begins(save, meant.save)
    BY <1>1, <1>3
  <2> QED BY <2>1, <2>2, <2>3, ReadsRecord, SMTT(40)
<1>6. sharedObj = ObjectsLoaded(RecordsIn(save, meant.save))
  BY <1>4, <1>5 DEF LoadingObjects
<1>7. (sharedObj = ObjectsLoaded(RecordsIn(save, meant.save)))'
  BY <1>1, <1>6 DEF ObjectsLoaded, memory, disk
<1>8. (KeysLoaded(RecordsIn(keys, meant.keys)))'
  <2>1. KeysLoaded(RecordsIn(keys, meant.keys))
    BY <1>1 DEF IInv, Loading
  <2> QED BY <1>1, <2>1 DEF KeysLoaded, memory, disk
<1>9. Loading'
  BY <1>1, <1>7, <1>8 DEF Loading
<1>10. TypeOK'
  BY <1>1 DEF IInv, TypeOK, memory, disk, Phases
<1>11. PubsDiffer'
  BY <1>1, <1>2, MemoryStays DEF PubsDiffer, IInv
<1> QED BY <1>1, <1>2, <1>9, <1>10, <1>11, OutOfSave DEF IInv

-----------------------------------------------------------------------------
(* The run *)

LEMMA RunKeeps == IInv /\ Run => IInv'
<1> SUFFICES ASSUME IInv, Run PROVE IInv'
  OBVIOUS
<1>1. /\ pc = "loaded" /\ pc' = "run"
      /\ UNCHANGED <<now, run, memory, disk, at, answering, meant, damaged, shared, changes>>
  BY DEF Run, Goto
<1>2. MeantIsRecords' /\ FilesBegin' /\ SavedUnlessDamaged' /\ (PubRecordsDiffer(meant.keys))'
  BY <1>1, FilesStay
<1>3. TypeOK'
  BY <1>1 DEF IInv, TypeOK, memory, disk, Phases
<1>4. PubsDiffer'
  BY <1>1, <1>2, MemoryStays DEF PubsDiffer, IInv
<1> QED BY <1>1, <1>2, <1>3, <1>4, OutOfSave, OutOfLoad DEF IInv, Saving

LEMMA TickKeeps == IInv /\ Tick => IInv'
<1> SUFFICES ASSUME IInv, Tick PROVE IInv'
  OBVIOUS
<1>1. /\ pc \in {"run", "off"} /\ pc' = pc /\ now' = now + 1
      /\ UNCHANGED <<run, memory, disk, at, answering, meant, damaged, shared, changes>>
  BY DEF Tick
<1>2. MeantIsRecords' /\ FilesBegin' /\ SavedUnlessDamaged' /\ (PubRecordsDiffer(meant.keys))'
  BY <1>1, FilesStay
<1>3. TypeOK'
  <2>1. now' \in Nat
    BY <1>1 DEF IInv, TypeOK
  <2> QED BY <1>1, <2>1 DEF IInv, TypeOK, memory, disk
<1>4. PubsDiffer'
  BY <1>1, <1>2, MemoryStays DEF PubsDiffer, IInv
<1>5. Loading'
  BY <1>1 DEF IInv, Loading, memory
<1>6. Saving'
  BY <1>1 DEF IInv, Saving
<1> QED BY <1>2, <1>3, <1>4, <1>5, <1>6 DEF IInv

\* What a step of the run has to do for the invariant: it changes memory only.
WorksOn ==
  /\ pc = "run" /\ pc' = "run"
  /\ UNCHANGED <<now, run, disk, at, meant, damaged>>

LEMMA WorkKeeps ==
  ASSUME IInv, WorksOn,
         sharedObj' \subseteq ToSet(Objects),
         PrivAddresses' \in Seq(PrivEntries), PubAddresses' \in Seq(PubEntries),
         Differ(PubAddresses'), answering' \in [Listeners -> 0 .. Len(PrivAddresses')],
         changes' \in 0 .. MaxChanges, shared' \in [Own -> [Listeners -> Nat]]
  PROVE  IInv'
<1>1. /\ pc = "run" /\ pc' = "run" /\ UNCHANGED <<now, run, disk, at, meant, damaged>>
  BY DEF WorksOn
<1>2. MeantIsRecords' /\ FilesBegin' /\ SavedUnlessDamaged' /\ (PubRecordsDiffer(meant.keys))'
  BY <1>1, FilesStay
<1>3. TypeOK'
  BY <1>1 DEF IInv, TypeOK, disk, PrivEntries, PubEntries
<1>4. PubsDiffer'
  BY <1>2 DEF PubsDiffer
<1> QED BY <1>1, <1>2, <1>3, <1>4, OutOfSave, OutOfLoad DEF IInv, Saving

\* What the run finds.
LEMMA AtWork ==
  ASSUME IInv
  PROVE  /\ now \in Nat /\ sharedObj \subseteq ToSet(Objects)
         /\ PrivAddresses \in Seq(PrivEntries) /\ PubAddresses \in Seq(PubEntries)
         /\ Len(PrivAddresses) \in Nat /\ Differ(PubAddresses)
         /\ answering \in [Listeners -> 0 .. Len(PrivAddresses)]
         /\ changes \in 0 .. MaxChanges /\ shared \in [Own -> [Listeners -> Nat]]
         /\ Change => changes' \in 0 .. MaxChanges
<1>1. TypeOK /\ PubsDiffer
  BY DEF IInv
<1>2. Change => changes' \in 0 .. MaxChanges
  BY <1>1, PersistenceAssumption DEF TypeOK, Change
<1> QED BY <1>1, <1>2, MemoryTypes DEF TypeOK, PubsDiffer

LEMMA StoreObjectKeeps == \A o \in ToSet(Objects) : IInv /\ StoreObject(o) => IInv'
<1> SUFFICES ASSUME NEW o \in ToSet(Objects), IInv, StoreObject(o) PROVE IInv'
  OBVIOUS
<1>1. WorksOn /\ Change /\ sharedObj' = sharedObj \cup {o}
      /\ UNCHANGED <<PrivAddresses, PubAddresses, answering, shared>>
  BY DEF StoreObject, WorksOn
<1> QED BY <1>1, AtWork, WorkKeeps

LEMMA AddPrivKeeps == \A a \in Generated : IInv /\ AddPriv(a) => IInv'
<1> SUFFICES ASSUME NEW a \in Generated, IInv, AddPriv(a) PROVE IInv'
  OBVIOUS
<1> DEFINE e == [address |-> a, last |-> 0]
<1>1. WorksOn /\ Change /\ PrivAddresses' = With(PrivAddresses, e)
      /\ UNCHANGED <<sharedObj, PubAddresses, answering, shared>>
  BY DEF AddPriv, WorksOn
<1>2. e \in PrivEntries
  BY PersistenceAssumption DEF PrivEntries
<1> HIDE DEF e
<1>3. PrivAddresses' \in Seq(PrivEntries) /\ Len(PrivAddresses) <= Len(PrivAddresses')
  BY <1>1, <1>2, AtWork, WithIs
<1>4. Len(PrivAddresses) \in Nat /\ Len(PrivAddresses') \in Nat
  BY <1>3, AtWork
<1>5. answering' \in [Listeners -> 0 .. Len(PrivAddresses')]
  <2>1. \A i \in 0 .. Len(PrivAddresses) : i \in 0 .. Len(PrivAddresses')
    BY <1>3, <1>4
  <2> QED BY <1>1, <2>1, AtWork
<1> QED BY <1>1, <1>3, <1>5, AtWork, WorkKeeps

LEMMA AddPubKeeps ==
  \A a \in Others, waiting \in BOOLEAN : IInv /\ AddPub(a, waiting) => IInv'
<1> SUFFICES ASSUME NEW a \in Others, NEW waiting \in BOOLEAN, IInv, AddPub(a, waiting)
             PROVE  IInv'
  OBVIOUS
<1> DEFINE e == [address |-> a, waiting |-> waiting]
<1>1. WorksOn /\ Change /\ PubAddresses' = WithPub(PubAddresses, e)
      /\ UNCHANGED <<sharedObj, PrivAddresses, answering, shared>>
  BY DEF AddPub, WorksOn
<1>2. e \in PubEntries
  BY DEF PubEntries
<1> HIDE DEF e
<1>3. PubAddresses' \in Seq(PubEntries) /\ Differ(PubAddresses')
  BY <1>1, <1>2, AtWork, WithPubIs
<1> QED BY <1>1, <1>3, AtWork, WorkKeeps

LEMMA LearnKeysKeeps == \A i \in DOMAIN PubAddresses : IInv /\ LearnKeys(i) => IInv'
<1> SUFFICES ASSUME NEW i \in DOMAIN PubAddresses, IInv, LearnKeys(i) PROVE IInv'
  OBVIOUS
<1>1. WorksOn /\ Change /\ PubAddresses' = [PubAddresses EXCEPT ![i].waiting = FALSE]
      /\ UNCHANGED <<sharedObj, PrivAddresses, answering, shared>>
  BY DEF LearnKeys, WorksOn
<1>2. PubAddresses \in Seq(PubEntries) /\ Differ(PubAddresses)
  BY AtWork
<1>3. PubAddresses' \in Seq(PubEntries) /\ DOMAIN PubAddresses' = DOMAIN PubAddresses
  <2>1. PubAddresses[i] \in PubEntries
    BY <1>2
  <2>2. [PubAddresses[i] EXCEPT !.waiting = FALSE] \in PubEntries
    BY <2>1 DEF PubEntries
  <2>3. PubAddresses' = [PubAddresses EXCEPT ![i] = [PubAddresses[i] EXCEPT !.waiting = FALSE]]
    BY <1>1
  <2> QED BY <1>2, <2>2, <2>3
<1>4. \A j \in DOMAIN PubAddresses : PubAddresses'[j].address = PubAddresses[j].address
  <2> SUFFICES ASSUME NEW j \in DOMAIN PubAddresses
               PROVE  PubAddresses'[j].address = PubAddresses[j].address
    OBVIOUS
  <2>1. PubAddresses[j] \in PubEntries
    BY <1>2
  <2> QED BY <1>1, <1>2, <2>1 DEF PubEntries
<1>5. Differ(PubAddresses')
  BY <1>2, <1>3, <1>4 DEF Differ
<1> QED BY <1>1, <1>3, <1>5, AtWork, WorkKeeps

LEMMA GetPubKeyKeeps ==
  \A l \in Listeners : \A i \in DOMAIN PrivAddresses : IInv /\ GetPubKey(l, i) => IInv'
<1> SUFFICES ASSUME NEW l \in Listeners, NEW i \in DOMAIN PrivAddresses, IInv, GetPubKey(l, i)
             PROVE  IInv'
  OBVIOUS
<1>1. WorksOn /\ Change /\ answering' = [answering EXCEPT ![l] = i]
      /\ UNCHANGED <<sharedObj, PrivAddresses, PubAddresses, shared>>
  BY DEF GetPubKey, WorksOn, memory
<1>2. i \in 0 .. Len(PrivAddresses)
  BY AtWork
<1>3. answering' \in [Listeners -> 0 .. Len(PrivAddresses')]
  BY <1>1, <1>2, AtWork
<1> QED BY <1>1, <1>3, AtWork, WorkKeeps

LEMMA EncodePubKeyKeeps == \A l \in Listeners : IInv /\ EncodePubKey(l) => IInv'
<1> SUFFICES ASSUME NEW l \in Listeners, IInv, EncodePubKey(l) PROVE IInv'
  OBVIOUS
<1>0. PICK i : i = answering[l]
  OBVIOUS
<1>1. /\ WorksOn /\ UNCHANGED <<sharedObj, PubAddresses, changes>> /\ i # 0
      /\ PrivAddresses' = [PrivAddresses EXCEPT ![i].last = now]
      /\ shared' = [shared EXCEPT ![PrivAddresses[i].address][l] = now]
      /\ answering' = [answering EXCEPT ![l] = 0]
  BY <1>0 DEF EncodePubKey, WorksOn
<1>2. i \in DOMAIN PrivAddresses /\ PrivAddresses[i] \in PrivEntries /\ now \in Nat
      /\ PrivAddresses \in Seq(PrivEntries)
  <2>1. i \in 1 .. Len(PrivAddresses) /\ PrivAddresses \in Seq(PrivEntries)
    BY <1>0, <1>1, AtWork
  <2> QED BY <2>1, AtWork
<1>3. PrivAddresses' \in Seq(PrivEntries) /\ Len(PrivAddresses') = Len(PrivAddresses)
  <2>1. [PrivAddresses[i] EXCEPT !.last = now] \in PrivEntries
    BY <1>2 DEF PrivEntries
  <2>2. PrivAddresses' = [PrivAddresses EXCEPT ![i] = [PrivAddresses[i] EXCEPT !.last = now]]
    BY <1>1
  <2> QED BY <1>2, <2>1, <2>2
<1>4. answering' \in [Listeners -> 0 .. Len(PrivAddresses')]
  BY <1>1, <1>3, AtWork
<1>5. shared' \in [Own -> [Listeners -> Nat]]
  <2>1. PrivAddresses[i].address \in Own
    BY <1>2 DEF PrivEntries
  <2>2. shared \in [Own -> [Listeners -> Nat]]
    BY AtWork
  <2> QED BY <1>1, <1>2, <2>1, <2>2
<1> QED BY <1>1, <1>3, <1>4, <1>5, AtWork, WorkKeeps

-----------------------------------------------------------------------------
(* save() *)

\* Memory types are kept by the steps that leave memory, clock and counters alone.
LEMMA TypesStay ==
  ASSUME IInv, UNCHANGED <<now, run, memory, answering, changes>>,
         pc' \in Phases, at' \in Nat, damaged' \in BOOLEAN,
         pc' \in {"loadobjects", "saveobjects"} => at' <= Len(save'),
         pc' \in {"loadkeys", "savekeys"} => at' <= Len(keys'),
         MeantIsRecords', FilesBegin', shared' \in [Own -> [Listeners -> Nat]]
  PROVE  TypeOK'
<1>1. \A i \in DOMAIN save' : save'[i].record \in ObjectRecords
  <2>1. meant'.save \in Seq(ObjectRecords) /\ Begins(save', meant'.save)
    BY DEF MeantIsRecords, FilesBegin
  <2> QED BY <2>1, RecordSets, FileTypes
<1>2. \A i \in DOMAIN keys' : keys'[i].record \in PrivRecords \cup PubRecords
  <2>1. meant'.keys \in Seq(KeyFileRecords) /\ Begins(keys', meant'.keys)
    BY DEF MeantIsRecords, FilesBegin
  <2>2. KeyFileRecords \in SUBSET Records
    BY RecordSets
  <2>3. \A i \in DOMAIN keys' : keys'[i].record \in KeyFileRecords
    BY <2>1, <2>2, FileTypes
  <2> QED BY <2>3 DEF KeyFileRecords
<1> QED BY <1>1, <1>2 DEF IInv, TypeOK, memory

LEMMA LostType == Lost \in [Own -> [Listeners -> Nat]]
BY DEF Lost

LEMMA QuitKeeps == IInv /\ Quit => IInv'
<1> SUFFICES ASSUME IInv, Quit PROVE IInv'
  OBVIOUS
<1>1. /\ pc = "run" /\ pc' = "open"
      /\ UNCHANGED <<now, run, memory, disk, at, answering, meant, damaged, shared, changes>>
  BY DEF Quit, Goto
<1>2. MeantIsRecords' /\ FilesBegin' /\ SavedUnlessDamaged' /\ (PubRecordsDiffer(meant.keys))'
  BY <1>1, FilesStay
<1>3. TypeOK'
  BY <1>1 DEF IInv, TypeOK, memory, disk, Phases
<1>4. PubsDiffer'
  BY <1>1, <1>2, MemoryStays DEF PubsDiffer, IInv
<1> QED BY <1>1, <1>2, <1>3, <1>4, OutOfSave, OutOfLoad DEF IInv, Saving

\* What memory holds can be saved.
LEMMA ToBeSaved ==
  ASSUME IInv
  PROVE  /\ SaveRecords \in Seq(ObjectRecords) /\ KeyRecords \in Seq(KeyFileRecords)
         /\ PubRecordsDiffer(KeyRecords)
         /\ meant.save \in Seq(ObjectRecords) /\ meant.keys \in Seq(KeyFileRecords)
         /\ Begins(save, meant.save) /\ Begins(keys, meant.keys)
         /\ Begins(<<>>, SaveRecords) /\ Begins(<<>>, KeyRecords)
<1>1. SaveRecords \in Seq(ObjectRecords) /\ KeyRecords \in Seq(KeyFileRecords)
      /\ PubRecordsDiffer(KeyRecords)
  BY AtWork, SaveRecordsType, KeyRecordsAre, KeyRecordsDiffer
<1>2. meant.save \in Seq(ObjectRecords) /\ meant.keys \in Seq(KeyFileRecords)
      /\ Begins(save, meant.save) /\ Begins(keys, meant.keys)
  BY RecordSets DEF IInv, FilesBegin
<1>3. Begins(<<>>, SaveRecords)
  BY <1>1, RecordSets, FileSteps
<1>4. Begins(<<>>, KeyRecords)
  BY <1>1, RecordSets, FileSteps
<1> QED BY <1>1, <1>2, <1>3, <1>4

LEMMA OpenKeeps ==
  \A save_opens, keys_opens \in BOOLEAN : IInv /\ Open(save_opens, keys_opens) => IInv'
<1> SUFFICES ASSUME NEW save_opens \in BOOLEAN, NEW keys_opens \in BOOLEAN, IInv,
                    Open(save_opens, keys_opens)
             PROVE  IInv'
  OBVIOUS
<1>1. /\ pc = "open" /\ UNCHANGED <<now, run, memory, at, answering, changes>>
      /\ save' = IF save_opens THEN <<>> ELSE save
      /\ keys' = IF keys_opens THEN <<>> ELSE keys
      /\ meant' = [save |-> IF save_opens THEN SaveRecords ELSE meant.save,
                   keys |-> IF keys_opens THEN KeyRecords ELSE meant.keys]
      /\ IF save_opens /\ keys_opens
         THEN pc' = "saveobjects" /\ UNCHANGED <<damaged, shared>>
         ELSE pc' = "exit" /\ damaged' = TRUE /\ shared' = Lost
  BY DEF Open, Goto
<1>2. MeantIsRecords'
  BY <1>1, ToBeSaved DEF MeantIsRecords
<1>3. FilesBegin'
  <2>1. Begins(save', meant'.save)
    BY <1>1, ToBeSaved
  <2>2. Begins(keys', meant'.keys)
    BY <1>1, ToBeSaved
  <2> QED BY <2>1, <2>2 DEF FilesBegin
<1>4. PubsDiffer'
  <2>1. PubRecordsDiffer(meant'.keys)
    BY <1>1, ToBeSaved DEF IInv, PubsDiffer
  <2> QED BY <1>1, <2>1, MemoryStays DEF PubsDiffer, IInv
<1>5. SavedUnlessDamaged'
  BY <1>1 DEF SavedUnlessDamaged
<1>6. Saving'
  <2>1. CASE save_opens /\ keys_opens
    <3>1. at = 0
      BY <1>1 DEF IInv, Saving
    <3> QED BY <1>1, <2>1, <3>1, MemoryStays DEF Saving
  <2>2. CASE ~(save_opens /\ keys_opens)
    BY <1>1, <2>2, OutOfSave
  <2> QED BY <2>1, <2>2
<1>7. Loading'
  BY <1>1, OutOfLoad
<1>8. TypeOK'
  <2>1. at' \in Nat /\ (pc' = "saveobjects" => at' <= Len(save'))
    BY <1>1, <1>6 DEF IInv, TypeOK, Saving
  <2>2. pc' \in {"saveobjects", "exit"} /\ damaged' \in BOOLEAN
        /\ shared' \in [Own -> [Listeners -> Nat]]
    BY <1>1, AtWork, LostType DEF IInv, TypeOK
  <2>3. pc' \in Phases
    BY <2>2 DEF Phases
  <2> QED BY <1>1, <1>2, <1>3, <2>1, <2>2, <2>3, TypesStay
<1> QED BY <1>2, <1>3, <1>4, <1>5, <1>6, <1>7, <1>8 DEF IInv

LEMMA CrashInOpenKeeps == IInv /\ CrashInOpen => IInv'
<1> SUFFICES ASSUME IInv, CrashInOpen PROVE IInv'
  OBVIOUS
<1>1. /\ pc = "open" /\ pc' = "exit" /\ save' = <<>> /\ damaged' = TRUE /\ shared' = Lost
      /\ UNCHANGED <<now, run, memory, keys, at, answering, changes>>
      /\ meant' = [meant EXCEPT !.save = SaveRecords]
  BY DEF CrashInOpen, Goto
<1>2. MeantIsRecords' /\ meant'.save = SaveRecords /\ meant'.keys = meant.keys
  BY <1>1, ToBeSaved DEF IInv, MeantIsRecords
<1>3. FilesBegin'
  BY <1>1, <1>2, ToBeSaved DEF FilesBegin
<1>4. PubsDiffer'
  BY <1>1, <1>2, MemoryStays DEF PubsDiffer, IInv
<1>5. SavedUnlessDamaged'
  BY <1>1 DEF SavedUnlessDamaged
<1>6. TypeOK'
  <2>1. at' \in Nat
    BY <1>1 DEF IInv, TypeOK
  <2> QED BY <1>1, <1>2, <1>3, <2>1, TypesStay, LostType DEF Phases
<1> QED BY <1>1, <1>2, <1>3, <1>4, <1>5, <1>6, OutOfSave, OutOfLoad DEF IInv

\* While save() writes, the next part is the one that the file lacks.
LEMMA SaveObjectKeeps == IInv /\ SaveObject => IInv'
<1> SUFFICES ASSUME IInv, SaveObject PROVE IInv'
  OBVIOUS
<1>1. /\ pc = "saveobjects" /\ pc' = "saveobjects" /\ at < Len(Written(SaveRecords))
      /\ save' = Append(save, Written(SaveRecords)[at + 1]) /\ at' = at + 1
      /\ UNCHANGED <<now, run, memory, keys, answering, meant, damaged, shared, changes>>
  BY DEF SaveObject
<1>2. /\ meant.save = SaveRecords /\ meant.keys = KeyRecords /\ Len(save) = at /\ keys = <<>>
  BY <1>1 DEF IInv, Saving
<1>3. Begins(save', meant.save) /\ Len(save') = at + 1
  <2>1. meant.save \in Seq(ObjectRecords) /\ Begins(save, meant.save)
    BY ToBeSaved
  <2>2. ObjectRecords \in SUBSET Records
    BY RecordSets
  <2>3. Len(save) < Len(Written(meant.save))
        /\ save' = Append(save, Written(meant.save)[Len(save) + 1])
    BY <1>1, <1>2
  <2>4. Begins(save', meant.save) /\ Len(save') = Len(save) + 1
    BY <2>1, <2>2, <2>3, FileSteps
  <2> QED BY <1>2, <2>4
<1>4. MeantIsRecords' /\ FilesBegin'
  BY <1>1, <1>3 DEF IInv, MeantIsRecords, FilesBegin
<1>5. PubsDiffer' /\ SaveRecords' = SaveRecords /\ KeyRecords' = KeyRecords
  BY <1>1, MemoryStays DEF PubsDiffer, IInv
<1>6. SavedUnlessDamaged'
  BY <1>1 DEF SavedUnlessDamaged
<1>7. Saving'
  BY <1>1, <1>2, <1>3, <1>5 DEF Saving
<1>8. TypeOK'
  <2>1. at \in Nat /\ shared' \in [Own -> [Listeners -> Nat]] /\ damaged' \in BOOLEAN
    BY <1>1 DEF IInv, TypeOK
  <2>2. at' \in Nat /\ at' <= Len(save')
    BY <1>1, <1>3, <2>1
  <2> QED BY <1>1, <1>4, <2>1, <2>2, TypesStay DEF Phases
<1> QED BY <1>1, <1>4, <1>5, <1>6, <1>7, <1>8, OutOfLoad DEF IInv

LEMMA SaveObjectsEndKeeps == IInv /\ SaveObjectsEnd => IInv'
<1> SUFFICES ASSUME IInv, SaveObjectsEnd PROVE IInv'
  OBVIOUS
<1>1. /\ pc = "saveobjects" /\ pc' = "savekeys" /\ at = Len(Written(SaveRecords)) /\ at' = 0
      /\ UNCHANGED <<now, run, memory, disk, answering, meant, damaged, shared, changes>>
  BY DEF SaveObjectsEnd, Goto
<1>2. /\ meant.save = SaveRecords /\ meant.keys = KeyRecords /\ Len(save) = at /\ keys = <<>>
  BY <1>1 DEF IInv, Saving
<1>3. save = Written(meant.save)
  <2>1. meant.save \in Seq(ObjectRecords) /\ Begins(save, meant.save)
    BY ToBeSaved
  <2>2. ObjectRecords \in SUBSET Records
    BY RecordSets
  <2>3. Len(save) = Len(Written(meant.save))
    BY <1>1, <1>2
  <2> QED BY <2>1, <2>2, <2>3, FileSteps
<1>4. MeantIsRecords' /\ FilesBegin' /\ SavedUnlessDamaged' /\ (PubRecordsDiffer(meant.keys))'
  BY <1>1, FilesStay
<1>5. PubsDiffer' /\ KeyRecords' = KeyRecords
  BY <1>1, <1>4, MemoryStays DEF PubsDiffer, IInv
<1>6. Len(<<>>) = 0
  OBVIOUS
<1>7. Saving'
  BY <1>1, <1>2, <1>3, <1>5, <1>6 DEF Saving, disk
<1>8. TypeOK'
  <2>1. shared' \in [Own -> [Listeners -> Nat]] /\ damaged' \in BOOLEAN
    BY <1>1 DEF IInv, TypeOK
  <2>2. at' \in Nat /\ at' <= Len(keys')
    BY <1>1, <1>2, <1>6 DEF disk
  <2> QED BY <1>1, <1>4, <2>1, <2>2, TypesStay DEF Phases
<1> QED BY <1>1, <1>4, <1>5, <1>7, <1>8, OutOfLoad DEF IInv

LEMMA SaveKeyKeeps == IInv /\ SaveKey => IInv'
<1> SUFFICES ASSUME IInv, SaveKey PROVE IInv'
  OBVIOUS
<1>1. /\ pc = "savekeys" /\ pc' = "savekeys" /\ at < Len(Written(KeyRecords))
      /\ keys' = Append(keys, Written(KeyRecords)[at + 1]) /\ at' = at + 1
      /\ UNCHANGED <<now, run, memory, save, answering, meant, damaged, shared, changes>>
  BY DEF SaveKey
<1>2. meant.keys = KeyRecords /\ save = Written(meant.save) /\ Len(keys) = at
  BY <1>1 DEF IInv, Saving
<1>3. Begins(keys', meant.keys) /\ Len(keys') = at + 1
  <2>1. meant.keys \in Seq(KeyFileRecords) /\ Begins(keys, meant.keys)
    BY ToBeSaved
  <2>2. KeyFileRecords \in SUBSET Records
    BY RecordSets
  <2>3. Len(keys) < Len(Written(meant.keys))
        /\ keys' = Append(keys, Written(meant.keys)[Len(keys) + 1])
    BY <1>1, <1>2
  <2>4. Begins(keys', meant.keys) /\ Len(keys') = Len(keys) + 1
    BY <2>1, <2>2, <2>3, FileSteps
  <2> QED BY <1>2, <2>4
<1>4. MeantIsRecords' /\ FilesBegin'
  BY <1>1, <1>3 DEF IInv, MeantIsRecords, FilesBegin
<1>5. PubsDiffer' /\ KeyRecords' = KeyRecords
  BY <1>1, MemoryStays DEF PubsDiffer, IInv
<1>6. SavedUnlessDamaged'
  BY <1>1 DEF SavedUnlessDamaged
<1>7. Saving'
  BY <1>1, <1>2, <1>3, <1>5 DEF Saving
<1>8. TypeOK'
  <2>1. at \in Nat /\ shared' \in [Own -> [Listeners -> Nat]] /\ damaged' \in BOOLEAN
    BY <1>1 DEF IInv, TypeOK
  <2>2. at' \in Nat /\ at' <= Len(keys')
    BY <1>1, <1>3, <2>1
  <2> QED BY <1>1, <1>4, <2>1, <2>2, TypesStay DEF Phases
<1> QED BY <1>1, <1>4, <1>5, <1>6, <1>7, <1>8, OutOfLoad DEF IInv

\* A finite set of numbers has a greatest one.
LEMMA GreatestIs ==
  ASSUME NEW S, IsFiniteSet(S), S # {}, NEW f \in [S -> Nat]
  PROVE  /\ Max(Range(f)) \in Nat
         /\ \E s \in S : Max(Range(f)) = f[s]
         /\ \A s \in S : f[s] <= Max(Range(f))
<1>0. PICK n \in Nat : ExistsSurjection(1 .. n, S)
  BY FS_NatSurjection
<1>1. PICK g \in [1 .. n -> S] : \A s \in S : \E i \in 1 .. n : g[i] = s
  BY <1>0 DEF ExistsSurjection, Surjection
<1> DEFINE T == {k \in Nat : k \in 1 .. n =>
                   \E i \in 1 .. k : \A j \in 1 .. k : f[g[j]] <= f[g[i]]}
<1>2. 0 \in T
  OBVIOUS
<1>3. ASSUME NEW k \in Nat, k \in T PROVE k + 1 \in T
  <2> SUFFICES ASSUME k + 1 \in 1 .. n
               PROVE  \E i \in 1 .. k + 1 : \A j \in 1 .. k + 1 : f[g[j]] <= f[g[i]]
    OBVIOUS
  <2>1. \A j \in 1 .. n : f[g[j]] \in Nat
    BY <1>1
  <2>2. CASE k = 0
    <3>1. 1 \in 1 .. k + 1 /\ \A j \in 1 .. k + 1 : j = 1
      BY <2>2
    <3>2. f[g[1]] <= f[g[1]]
      BY <2>1, <2>2
    <3> QED BY <3>1, <3>2
  <2>3. CASE k # 0
    <3>1. PICK i \in 1 .. k : \A j \in 1 .. k : f[g[j]] <= f[g[i]]
      BY <1>3, <2>3
    <3>2. i \in 1 .. n /\ \A j \in 1 .. k : j \in 1 .. n
      OBVIOUS
    <3>3. CASE f[g[k + 1]] <= f[g[i]]
      <4>1. \A j \in 1 .. k + 1 : f[g[j]] <= f[g[i]]
        BY <3>1, <3>3
      <4> QED BY <4>1
    <3>4. CASE ~(f[g[k + 1]] <= f[g[i]])
      <4>1. \A j \in 1 .. k + 1 : f[g[j]] <= f[g[k + 1]]
        <5> TAKE j \in 1 .. k + 1
        <5>1. CASE j = k + 1
          BY <2>1, <5>1
        <5>2. CASE j # k + 1
          <6>1. j \in 1 .. k /\ j \in 1 .. n
            BY <5>2
          <6>2. f[g[j]] <= f[g[i]] /\ f[g[j]] \in Nat /\ f[g[i]] \in Nat /\ f[g[k + 1]] \in Nat
            BY <2>1, <3>1, <3>2, <6>1
          <6> QED BY <3>4, <6>2
        <5> QED BY <5>1, <5>2
      <4>2. k + 1 \in 1 .. k + 1
        OBVIOUS
      <4> QED BY <4>1, <4>2
    <3> QED BY <3>3, <3>4
  <2> QED BY <2>2, <2>3
<1> HIDE DEF T
<1>4. \A k \in Nat : k \in T
  BY <1>2, <1>3, Induction
<1>5. n # 0 /\ n \in 1 .. n
  BY <1>1
<1>6. PICK i \in 1 .. n : \A j \in 1 .. n : f[g[j]] <= f[g[i]]
  BY <1>4, <1>5 DEF T
<1>7. PICK m \in S : m = g[i]
  BY <1>1
<1>8. \A s \in S : f[s] <= f[m]
  BY <1>1, <1>6, <1>7
<1>9. f[m] \in Range(f) /\ \A y \in Range(f) : f[m] >= y
  BY <1>8 DEF Range
<1>10. Max(Range(f)) \in Range(f) /\ \A y \in Range(f) : Max(Range(f)) >= y
  BY <1>9 DEF Max
<1> HIDE DEF Max
<1> QED BY <1>10 DEF Range

LEMMA CloseKeeps == IInv /\ Close => IInv'
<1> SUFFICES ASSUME IInv, Close PROVE IInv'
  OBVIOUS
<1>1. /\ pc = "savekeys" /\ pc' = "exit" /\ at = Len(Written(KeyRecords)) /\ damaged' = FALSE
      /\ shared' = [a \in Own |-> [l \in Listeners |-> Max(Range(shared[a]))]]
      /\ UNCHANGED <<now, run, memory, disk, at, answering, meant, changes>>
  BY DEF Close, Goto
<1>2. meant.keys = KeyRecords /\ save = Written(meant.save) /\ Len(keys) = at
  BY <1>1 DEF IInv, Saving
<1>3. keys = Written(meant.keys)
  <2>1. meant.keys \in Seq(KeyFileRecords) /\ Begins(keys, meant.keys)
    BY ToBeSaved
  <2>2. KeyFileRecords \in SUBSET Records
    BY RecordSets
  <2>3. Len(keys) = Len(Written(meant.keys))
    BY <1>1, <1>2
  <2> QED BY <2>1, <2>2, <2>3, FileSteps
<1>4. MeantIsRecords' /\ FilesBegin' /\ PubRecordsDiffer(meant'.keys)
  BY <1>1 DEF IInv, MeantIsRecords, FilesBegin, PubsDiffer, disk
<1>5. SavedUnlessDamaged'
  BY <1>1, <1>2, <1>3 DEF SavedUnlessDamaged, disk
<1>6. PubsDiffer'
  BY <1>1, <1>4, MemoryStays DEF PubsDiffer, IInv
<1>7. shared' \in [Own -> [Listeners -> Nat]]
  <2>1. ASSUME NEW a \in Own, NEW l \in Listeners PROVE Max(Range(shared[a])) \in Nat
    <3>1. shared[a] \in [Listeners -> Nat]
      BY AtWork
    <3> QED BY <3>1, GreatestIs, PersistenceAssumption
  <2> QED BY <1>1, <2>1
<1>8. TypeOK'
  <2>1. at' \in Nat
    BY <1>1 DEF IInv, TypeOK
  <2> QED BY <1>1, <1>4, <1>7, <2>1, TypesStay DEF Phases
<1> QED BY <1>1, <1>4, <1>5, <1>6, <1>8, OutOfSave, OutOfLoad DEF IInv

\* What is left of a file is a beginning of it.
LEMMA SaveFailsKeeps == IInv /\ SaveFails => IInv'
<1> SUFFICES ASSUME IInv, SaveFails PROVE IInv'
  OBVIOUS
<1>1. /\ save' \in Beginnings(save) /\ keys' \in Beginnings(keys)
      /\ pc' = "exit" /\ damaged' = TRUE /\ shared' = Lost
      /\ UNCHANGED <<now, run, memory, at, answering, meant, changes>>
  BY DEF SaveFails, Goto
<1>2. Begins(save', meant.save)
  BY <1>1, ToBeSaved, RecordSets, FileSteps
<1>3. Begins(keys', meant.keys)
  BY <1>1, ToBeSaved, RecordSets, FileSteps
<1>4. MeantIsRecords' /\ FilesBegin' /\ PubRecordsDiffer(meant'.keys)
  BY <1>1, <1>2, <1>3 DEF IInv, MeantIsRecords, FilesBegin, PubsDiffer
<1>5. SavedUnlessDamaged'
  BY <1>1 DEF SavedUnlessDamaged
<1>6. PubsDiffer'
  BY <1>1, <1>4, MemoryStays DEF PubsDiffer, IInv
<1>7. TypeOK'
  <2>1. at' \in Nat
    BY <1>1 DEF IInv, TypeOK
  <2> QED BY <1>1, <1>4, <2>1, TypesStay, LostType DEF Phases
<1> QED BY <1>1, <1>4, <1>5, <1>6, <1>7, OutOfSave, OutOfLoad DEF IInv

LEMMA CrashKeeps == IInv /\ Crash => IInv'
<1> SUFFICES ASSUME IInv, Crash PROVE IInv'
  OBVIOUS
<1>1. /\ pc \in {"loadkeys", "loadobjects", "loaded", "run"} /\ pc' = "exit" /\ shared' = Lost
      /\ UNCHANGED <<now, run, memory, disk, at, answering, meant, damaged, changes>>
  BY DEF Crash, Goto
<1>2. MeantIsRecords' /\ FilesBegin' /\ SavedUnlessDamaged' /\ (PubRecordsDiffer(meant.keys))'
  BY <1>1, FilesStay
<1>3. PubsDiffer'
  BY <1>1, <1>2, MemoryStays DEF PubsDiffer, IInv
<1>4. TypeOK'
  <2>1. at' \in Nat /\ damaged' \in BOOLEAN
    BY <1>1 DEF IInv, TypeOK
  <2> QED BY <1>1, <1>2, <2>1, TypesStay, LostType DEF Phases
<1> QED BY <1>1, <1>2, <1>3, <1>4, OutOfSave, OutOfLoad DEF IInv

LEMMA ExitKeeps == IInv /\ Exit => IInv'
<1> SUFFICES ASSUME IInv, Exit PROVE IInv'
  OBVIOUS
<1>1. /\ pc = "exit" /\ pc' = "off" /\ at' = 0
      /\ sharedObj' = {} /\ PrivAddresses' = <<>> /\ PubAddresses' = <<>>
      /\ answering' = [l \in Listeners |-> 0]
      /\ UNCHANGED <<now, run, disk, meant, damaged, shared, changes>>
  BY DEF Exit, Goto
<1>2. MeantIsRecords' /\ FilesBegin' /\ SavedUnlessDamaged' /\ (PubRecordsDiffer(meant.keys))'
  BY <1>1, FilesStay
<1>3. PubsDiffer'
  BY <1>1, <1>2 DEF PubsDiffer, Differ
<1>4. TypeOK'
  <2>1. /\ PrivAddresses' \in Seq([address : Own, last : Nat]) /\ Len(PrivAddresses') = 0
        /\ PubAddresses' \in Seq([address : Others, waiting : BOOLEAN])
    BY <1>1
  <2>2. answering' \in [Listeners -> 0 .. Len(PrivAddresses')]
    BY <1>1, <2>1
  <2> QED BY <1>1, <2>1, <2>2 DEF IInv, TypeOK, disk, Phases
<1>5. Loading'
  BY <1>1 DEF Loading
<1> QED BY <1>1, <1>2, <1>3, <1>4, <1>5, OutOfSave DEF IInv

-----------------------------------------------------------------------------
(* The theorems *)

LEMMA StutterKeeps == IInv /\ UNCHANGED vars => IInv'
<1> SUFFICES ASSUME IInv, UNCHANGED vars PROVE IInv'
  OBVIOUS
<1>1. UNCHANGED <<pc, now, run, memory, disk, at, answering, meant, damaged, changes, shared>>
  BY DEF vars
<1>2. MeantIsRecords' /\ FilesBegin' /\ SavedUnlessDamaged' /\ (PubRecordsDiffer(meant.keys))'
  BY <1>1, FilesStay
<1>3. PubsDiffer' /\ SaveRecords' = SaveRecords /\ KeyRecords' = KeyRecords
  BY <1>1, <1>2, MemoryStays DEF PubsDiffer, IInv
<1>4. TypeOK'
  BY <1>1 DEF IInv, TypeOK, memory, disk
<1>5. Saving'
  BY <1>1, <1>3 DEF IInv, Saving, disk
<1>6. Loading'
  BY <1>1 DEF IInv, Loading, LoadingKeys, LoadingObjects, KeysLoaded, ObjectsLoaded, memory, disk
<1> QED BY <1>2, <1>3, <1>4, <1>5, <1>6 DEF IInv

LEMMA NextKeeps == IInv /\ [Next]_vars => IInv'
<1> SUFFICES ASSUME IInv, [Next]_vars PROVE IInv'
  OBVIOUS
<1>1. CASE Load
  BY <1>1, StartKeeps, LoadKeyKeeps, LoadKeysEndKeeps, LoadObjectKeeps, LoadEndKeeps DEF Load
<1>2. CASE Work
  BY <1>2, RunKeeps, TickKeeps, StoreObjectKeeps, AddPrivKeeps, AddPubKeeps, LearnKeysKeeps,
     GetPubKeyKeeps, EncodePubKeyKeeps DEF Work
<1>3. CASE Save
  BY <1>3, QuitKeeps, SaveObjectKeeps, SaveObjectsEndKeeps, SaveKeyKeeps, CloseKeeps, OpenKeeps
  DEF Save
<1>4. CASE CrashInOpen \/ SaveFails \/ Crash \/ Exit
  BY <1>4, CrashInOpenKeeps, SaveFailsKeeps, CrashKeeps, ExitKeeps
<1> QED BY <1>1, <1>2, <1>3, <1>4, StutterKeeps DEF Next

\* The inductive invariant: a file is the first parts of the records that save() meant to write,
\* and load() has in memory what the records before the place where it reads say.
THEOREM IInvHolds == Spec => []IInv
<1>1. IInv /\ [Next]_vars => IInv'
  BY NextKeeps
<1> QED BY InitIInv, <1>1, PTL DEF Spec

\* Memory, files and time stamps have their types, from run to run: among them that a Listener
\* answers for an address that is in PrivAddresses.
THEOREM PersistenceType == Spec => []TypeOK
<1>1. IInv => TypeOK
  BY DEF IInv
<1> QED BY IInvHolds, <1>1, PTL

\* save() (BitMRC.cpp) may crash or fail anywhere: what is in a file is a beginning of what that
\* save() meant to write, of any number of records.
THEOREM FilesStartRight == Spec => []FilesAreBeginnings
<1>1. IInv => FilesAreBeginnings
  <2> SUFFICES ASSUME IInv PROVE FilesAreBeginnings
    OBVIOUS
  <2>1. IsPrefix(save, Written(meant.save))
    BY ToBeSaved, RecordSets, FileSteps
  <2>2. IsPrefix(keys, Written(meant.keys))
    BY ToBeSaved, RecordSets, FileSteps
  <2> QED BY <2>1, <2>2 DEF FilesAreBeginnings
<1> QED BY IInvHolds, <1>1, PTL

\* After a save() that went well the files are whole until the next save(), whatever happens.
THEOREM SavedIsWhole == Spec => []SavedUnlessDamaged
<1>1. IInv => SavedUnlessDamaged
  BY DEF IInv
<1> QED BY IInvHolds, <1>1, PTL

\* load() (BitMRC.cpp) brings back the records that are whole in the files, and these only: the
\* objects that have not expired, others' addresses with their state, ours with a time stamp of
\* theirs.
THEOREM WholeRecordsAreLoaded == Spec => []LoadsWholeRecords
<1>1. IInv => LoadsWholeRecords
  <2> SUFFICES ASSUME IInv, pc = "loaded" PROVE LoadsWholeRecords
    BY DEF LoadsWholeRecords
  <2>1. /\ KeysLoaded(RecordsIn(keys, meant.keys))
        /\ sharedObj = ObjectsLoaded(RecordsIn(save, meant.save))
    BY DEF IInv, Loading
  <2> HIDE DEF RecordsIn
  <2> QED BY <2>1 DEF LoadsWholeRecords, KeysLoaded, ObjectsLoaded, PubsOf, PrivsOf
<1> QED BY IInvHolds, <1>1, PTL

-----------------------------------------------------------------------------
(* Time stamps: what a Listener shared, memory and the files have not less *)

\* An address that load() leaves as it is; only these are the same in the next run.
Fixed(a) == reloaded[a] = a

\* No two records are of one address of ours, and behind one that load() will change there
\* are only those that this run generated, which load() never makes of another.
PrivRecordsDiffer(records) ==
  \A i, j \in DOMAIN records :
    /\ records[i].type = "priv" /\ records[j].type = "priv"
    /\ records[i].address = records[j].address
    => i = j
FixedFirst(entries) ==
  \A i, j \in DOMAIN entries :
    i < j /\ ~Fixed(entries[i].address) => entries[j].address \in Generated
FixedRecordsFirst(records) ==
  \A i, j \in DOMAIN records :
    /\ records[i].type = "priv" /\ records[j].type = "priv"
    /\ i < j /\ ~Fixed(records[i].address)
    => records[j].address \in Generated
AllFixed(entries) == \A i \in DOMAIN entries : Fixed(entries[i].address)

LoadPhases == {"off", "loadkeys", "loadobjects", "loaded"}
Ordered ==
  /\ Differ(PrivAddresses) /\ FixedFirst(PrivAddresses)
  /\ PrivRecordsDiffer(meant.keys) /\ FixedRecordsFirst(meant.keys)
  /\ pc \in LoadPhases => AllFixed(PrivAddresses)

\* The time stamp that entries have of an address is not older than when it was shared.
Stamped(a, l, entries) ==
  shared[a][l] = 0 \/ \E p \in entries : p.address = a /\ shared[a][l] <= p.last
AllStamped(entries) == \A a \in Own, l \in Listeners : Fixed(a) => Stamped(a, l, entries)
PrivIn(records) == {q \in ToSet(records) : q.type = "priv"}

\* load() has restored the time stamps of the first n records.
StampsLoaded(n) ==
  /\ \A i \in 1 .. n :
       meant.keys[i].type = "priv" /\ Fixed(meant.keys[i].address) =>
         [address |-> meant.keys[i].address, last |-> meant.keys[i].last]
           \in ToSet(PrivAddresses)
  /\ \A p \in ToSet(PrivAddresses) : \E i \in 1 .. n :
       meant.keys[i].type = "priv" /\ p.address = reloaded[meant.keys[i].address]

BeforeLoad == {"exit", "off", "loadkeys"}
InFile == shared = Lost \/ (~damaged /\ AllStamped(PrivIn(meant.keys)))
Restoring == \E n \in Nat : InFront(keys, meant.keys, at, n) /\ StampsLoaded(n)
MayShare(l) ==
  answering[l] # 0 /\ pc # "exit" =>
    /\ pc = "run"
    /\ LET a == PrivAddresses[answering[l]].address
       IN  Fixed(a) => shared[a][l] + Period < now
Past == \A a \in Own, l \in Listeners : shared[a][l] <= now
StampInv ==
  /\ Period < now /\ Past
  /\ pc \in BeforeLoad => InFile
  /\ pc = "loadkeys" => Restoring
  /\ pc \notin BeforeLoad => AllStamped(ToSet(PrivAddresses))
  /\ \A l \in Listeners : MayShare(l)

TInv == IInv /\ Ordered /\ StampInv

-----------------------------------------------------------------------------
(* The order of the addresses *)

\* A step that leaves our addresses and what is meant to be in keys.dat alone.
SameKeys == UNCHANGED PrivAddresses /\ meant'.keys = meant.keys

LEMMA SameOrder ==
  ASSUME Ordered, SameKeys, pc' \in LoadPhases => pc \in LoadPhases
  PROVE  Ordered'
<1>1. UNCHANGED PrivAddresses /\ meant'.keys = meant.keys
  BY DEF SameKeys
<1>2. (Differ(PrivAddresses))' /\ (FixedFirst(PrivAddresses))'
  BY <1>1 DEF Ordered, Differ, FixedFirst
<1>3. PrivRecordsDiffer(meant'.keys) /\ FixedRecordsFirst(meant'.keys)
  BY <1>1 DEF Ordered
<1>4. pc' \in LoadPhases => AllFixed(PrivAddresses')
  BY <1>1 DEF Ordered
<1> QED BY <1>2, <1>3, <1>4 DEF Ordered

\* What save() writes to keys.dat is ordered as memory is.
LEMMA KeyRecordsOrdered ==
  ASSUME IInv, Ordered
  PROVE  PrivRecordsDiffer(KeyRecords) /\ FixedRecordsFirst(KeyRecords)
<1>1. PrivAddresses \in Seq(PrivEntries) /\ PubAddresses \in Seq(PubEntries)
  BY AtWork
<1>2. ASSUME NEW i \in DOMAIN KeyRecords, KeyRecords[i].type = "priv"
      PROVE  i \in DOMAIN PrivAddresses /\ KeyRecords[i].address = PrivAddresses[i].address
  <2>1. \A p : PubRecord(p).type = "pub" /\ PrivRecord(p).address = p.address
    BY DEF PrivRecord, PubRecord
  <2> QED BY <1>1, <1>2, <2>1, KeyRecordIs
<1>3. Differ(PrivAddresses) /\ FixedFirst(PrivAddresses)
  BY DEF Ordered
<1>4. PrivRecordsDiffer(KeyRecords)
  <2> SUFFICES ASSUME NEW i \in DOMAIN KeyRecords, NEW j \in DOMAIN KeyRecords,
                      KeyRecords[i].type = "priv", KeyRecords[j].type = "priv",
                      KeyRecords[i].address = KeyRecords[j].address
               PROVE  i = j
    BY DEF PrivRecordsDiffer
  <2>1. i \in DOMAIN PrivAddresses /\ KeyRecords[i].address = PrivAddresses[i].address
    BY <1>2
  <2>2. j \in DOMAIN PrivAddresses /\ KeyRecords[j].address = PrivAddresses[j].address
    BY <1>2
  <2> QED BY <1>3, <2>1, <2>2 DEF Differ
<1>5. FixedRecordsFirst(KeyRecords)
  <2> SUFFICES ASSUME NEW i \in DOMAIN KeyRecords, NEW j \in DOMAIN KeyRecords,
                      KeyRecords[i].type = "priv", KeyRecords[j].type = "priv",
                      i < j, ~Fixed(KeyRecords[i].address)
               PROVE  KeyRecords[j].address \in Generated
    BY DEF FixedRecordsFirst
  <2>1. i \in DOMAIN PrivAddresses /\ KeyRecords[i].address = PrivAddresses[i].address
    BY <1>2
  <2>2. j \in DOMAIN PrivAddresses /\ KeyRecords[j].address = PrivAddresses[j].address
    BY <1>2
  <2> QED BY <1>3, <2>1, <2>2 DEF FixedFirst
<1> QED BY <1>4, <1>5

\* An address that is not there is added at the end.
LEMMA WithNew ==
  ASSUME NEW E, NEW seq \in Seq(E), NEW entry \in E, entry.address \notin AddressesOf(seq)
  PROVE  entry \in ToSet(With(seq, entry))
<1>1. PICK p \in ToSet(With(seq, entry)) : p.address = entry.address
  <2>1. entry.address \in AddressesOf(With(seq, entry))
    BY WithIs
  <2> QED BY <2>1 DEF AddressesOf
<1>2. p \in ToSet(seq) \/ p = entry
  BY WithIs
<1>3. p \notin ToSet(seq)
  BY <1>1 DEF AddressesOf
<1> QED BY <1>2, <1>3

\* A step of load() reads the next record of keys.dat.
LEMMA LoadKeyReads ==
  ASSUME IInv, LoadKey, NEW n, InFront(keys, meant.keys, at, n)
  PROVE  /\ n \in Nat /\ n < Len(meant.keys)
         /\ DOMAIN meant.keys = 1 .. Len(meant.keys) /\ Len(meant.keys) \in Nat
         /\ keys[at + 1].record = meant.keys[n + 1]
         /\ meant.keys[n + 1] \in KeyFileRecords
         /\ InFront(keys', meant'.keys, at', n + 1)
<1>1. Whole(keys, at) /\ UNCHANGED <<disk, meant>> /\ at' = at + Parts(keys[at + 1].record)
  BY DEF LoadKey
<1>2. meant.keys \in Seq(KeyFileRecords) /\ Begins(keys, meant.keys)
  BY ToBeSaved
<1>3. KeyFileRecords \in SUBSET Records
  BY RecordSets
<1>4. /\ n < Len(meant.keys) /\ keys[at + 1].record = meant.keys[n + 1]
      /\ meant.keys[n + 1] \in KeyFileRecords
      /\ InFront(keys, meant.keys, at + Parts(meant.keys[n + 1]), n + 1)
  BY <1>1, <1>2, <1>3, ReadsRecord
<1>5. n \in Nat
  BY DEF InFront
<1>6. DOMAIN meant.keys = 1 .. Len(meant.keys) /\ Len(meant.keys) \in Nat
  BY <1>2
<1> QED BY <1>1, <1>4, <1>5, <1>6 DEF disk

LEMMA LoadKeyOrders == IInv /\ Ordered /\ LoadKey => Ordered'
<1> SUFFICES ASSUME IInv, Ordered, LoadKey PROVE Ordered'
  OBVIOUS
<1>0. PICK r : r = keys[at + 1].record
  OBVIOUS
<1>1. /\ pc = "loadkeys" /\ pc' = "loadkeys" /\ meant' = meant
      /\ IF r.type = "priv" THEN LoadPriv(r) ELSE LoadPub(r)
  BY <1>0 DEF LoadKey
<1>2. r \in KeyFileRecords
  <2>1. PICK n \in Nat : InFront(keys, meant.keys, at, n)
    BY <1>1 DEF IInv, Loading, LoadingKeys
  <2> QED BY <1>0, <2>1, LoadKeyReads
<1>3. CASE r.type # "priv"
  <2>1. SameKeys
    BY <1>1, <1>3 DEF LoadPub, SameKeys
  <2> QED BY <1>1, <2>1, SameOrder DEF LoadPhases
<1>4. CASE r.type = "priv"
  <2> DEFINE e == [address |-> reloaded[r.address], last |-> r.last]
             more == With(PrivAddresses, e)
  <2>1. PrivAddresses' = more
    BY <1>1, <1>4 DEF LoadPriv
  <2>2. e \in PrivEntries /\ Fixed(e.address)
    BY <1>2, <1>4, PersistenceAssumption
    DEF KeyFileRecords, PrivRecords, PubRecords, PrivEntries, Fixed
  <2>3. Differ(PrivAddresses) /\ AllFixed(PrivAddresses)
    BY <1>1 DEF Ordered, LoadPhases
  <2> HIDE DEF e
  <2>4. more \in Seq(PrivEntries) /\ Differ(more)
        /\ ToSet(more) \subseteq ToSet(PrivAddresses) \cup {e}
    BY <2>2, <2>3, AtWork, WithIs
  <2> HIDE DEF more
  <2>5. AllFixed(more)
    BY <2>2, <2>3, <2>4 DEF AllFixed, ToSet
  <2>6. FixedFirst(more)
    BY <2>5 DEF FixedFirst, AllFixed
  <2> QED BY <1>1, <2>1, <2>4, <2>5, <2>6 DEF Ordered
<1> QED BY <1>3, <1>4

LEMMA AddPrivOrders == \A a \in Generated : IInv /\ Ordered /\ AddPriv(a) => Ordered'
<1> SUFFICES ASSUME NEW a \in Generated, IInv, Ordered, AddPriv(a) PROVE Ordered'
  OBVIOUS
<1> DEFINE e == [address |-> a, last |-> 0]
           more == Append(PrivAddresses, e)
<1>1. /\ pc' = "run" /\ meant' = meant /\ PrivAddresses' = With(PrivAddresses, e)
      /\ \A i \in DOMAIN PrivAddresses : PrivAddresses[i].address # a
  BY DEF AddPriv
<1>2. PrivAddresses' = more
  BY <1>1 DEF With
<1>3. e \in PrivEntries /\ e.address = a
  BY PersistenceAssumption DEF PrivEntries
<1>4. Differ(PrivAddresses') /\ PrivAddresses \in Seq(PrivEntries) /\ FixedFirst(PrivAddresses)
  <2> HIDE DEF e
  <2> QED BY <1>1, <1>3, AtWork, WithIs DEF Ordered
<1> HIDE DEF e
<1>5. /\ DOMAIN more = 1 .. Len(PrivAddresses) + 1 /\ Len(PrivAddresses) \in Nat
      /\ DOMAIN PrivAddresses = 1 .. Len(PrivAddresses)
      /\ \A i \in 1 .. Len(PrivAddresses) : more[i] = PrivAddresses[i]
      /\ more[Len(PrivAddresses) + 1] = e
  BY <1>3, <1>4
<1> HIDE DEF more
<1>6. FixedFirst(more)
  <2> SUFFICES ASSUME NEW i \in DOMAIN more, NEW j \in DOMAIN more, i < j,
                      ~Fixed(more[i].address)
               PROVE  more[j].address \in Generated
    BY DEF FixedFirst
  <2>1. i \in DOMAIN PrivAddresses
    BY <1>5
  <2>2. CASE j = Len(PrivAddresses) + 1
    BY <1>3, <1>5, <2>2
  <2>3. CASE j # Len(PrivAddresses) + 1
    <3>1. j \in DOMAIN PrivAddresses
      BY <1>5, <2>3
    <3> QED BY <1>4, <1>5, <2>1, <3>1 DEF FixedFirst
  <2> QED BY <2>2, <2>3
<1> QED BY <1>1, <1>2, <1>4, <1>6 DEF Ordered, LoadPhases

LEMMA EncodeOrders == \A l \in Listeners : IInv /\ Ordered /\ EncodePubKey(l) => Ordered'
<1> SUFFICES ASSUME NEW l \in Listeners, IInv, Ordered, EncodePubKey(l) PROVE Ordered'
  OBVIOUS
<1>1. /\ pc' = "run" /\ meant' = meant
      /\ PrivAddresses' = [PrivAddresses EXCEPT ![answering[l]].last = now]
  BY DEF EncodePubKey
<1>2. PrivAddresses \in Seq(PrivEntries) /\ Differ(PrivAddresses) /\ FixedFirst(PrivAddresses)
  BY AtWork DEF Ordered
<1>3. DOMAIN PrivAddresses' = DOMAIN PrivAddresses
  BY <1>1
<1>4. \A j \in DOMAIN PrivAddresses : PrivAddresses'[j].address = PrivAddresses[j].address
  <2> SUFFICES ASSUME NEW j \in DOMAIN PrivAddresses
               PROVE  PrivAddresses'[j].address = PrivAddresses[j].address
    OBVIOUS
  <2>1. PrivAddresses[j] \in PrivEntries
    BY <1>2
  <2> QED BY <1>1, <2>1 DEF PrivEntries
<1>5. Differ(PrivAddresses') /\ FixedFirst(PrivAddresses')
  BY <1>2, <1>3, <1>4 DEF Differ, FixedFirst
<1> QED BY <1>1, <1>5 DEF Ordered, LoadPhases

LEMMA OpenOrders ==
  \A save_opens, keys_opens \in BOOLEAN :
    IInv /\ Ordered /\ Open(save_opens, keys_opens) => Ordered'
<1> SUFFICES ASSUME NEW save_opens \in BOOLEAN, NEW keys_opens \in BOOLEAN, IInv, Ordered,
                    Open(save_opens, keys_opens)
             PROVE  Ordered'
  OBVIOUS
<1>1. /\ UNCHANGED PrivAddresses /\ pc' \in {"saveobjects", "exit"}
      /\ meant'.keys = IF keys_opens THEN KeyRecords ELSE meant.keys
  BY DEF Open, Goto, memory
<1>2. PrivRecordsDiffer(meant'.keys) /\ FixedRecordsFirst(meant'.keys)
  BY <1>1, KeyRecordsOrdered DEF Ordered
<1>3. Differ(PrivAddresses') /\ FixedFirst(PrivAddresses')
  BY <1>1 DEF Ordered
<1> QED BY <1>1, <1>2, <1>3 DEF Ordered, LoadPhases

LEMMA NextOrders == IInv /\ Ordered /\ [Next]_vars => Ordered'
<1> SUFFICES ASSUME IInv, Ordered, [Next]_vars PROVE Ordered'
  OBVIOUS
<1> USE DEF memory, Goto
<1>1. CASE Start \/ LoadKeysEnd \/ LoadObject \/ LoadEnd
  <2>1. SameKeys /\ pc \in LoadPhases
    BY <1>1 DEF Start, LoadKeysEnd, LoadObject, LoadEnd, SameKeys, LoadPhases
  <2> QED BY <2>1, SameOrder
<1>2. CASE Run \/ Tick \/ Quit \/ SaveObject \/ SaveObjectsEnd \/ SaveKey \/ Close
           \/ SaveFails \/ Crash
  <2>1. SameKeys /\ (pc' \in LoadPhases => pc \in LoadPhases)
    BY <1>2 DEF Run, Tick, Quit, SaveObject, SaveObjectsEnd, SaveKey, Close, SaveFails, Crash,
                SameKeys, LoadPhases
  <2> QED BY <2>1, SameOrder
<1>3. CASE CrashInOpen
  <2>1. SameKeys /\ (pc' \in LoadPhases => pc \in LoadPhases)
    BY <1>3 DEF CrashInOpen, SameKeys, LoadPhases, IInv, MeantIsRecords
  <2> QED BY <2>1, SameOrder
<1>4. CASE Exit
  <2>1. PrivAddresses' = <<>> /\ meant' = meant
    BY <1>4 DEF Exit
  <2> QED BY <2>1 DEF Ordered, Differ, FixedFirst, AllFixed
<1>5. CASE Load
  BY <1>1, <1>5, LoadKeyOrders DEF Load
<1>6. CASE Work
  <2>1. ASSUME NEW o, StoreObject(o) PROVE Ordered'
    <3>1. SameKeys /\ pc' = pc
      BY <2>1 DEF StoreObject, SameKeys
    <3> QED BY <3>1, SameOrder
  <2>2. ASSUME NEW a, NEW waiting, AddPub(a, waiting) PROVE Ordered'
    <3>1. SameKeys /\ pc' = pc
      BY <2>2 DEF AddPub, SameKeys
    <3> QED BY <3>1, SameOrder
  <2>3. ASSUME NEW i, LearnKeys(i) PROVE Ordered'
    <3>1. SameKeys /\ pc' = pc
      BY <2>3 DEF LearnKeys, SameKeys
    <3> QED BY <3>1, SameOrder
  <2>4. ASSUME NEW l, NEW i, GetPubKey(l, i) PROVE Ordered'
    <3>1. SameKeys /\ pc' = pc
      BY <2>4 DEF GetPubKey, SameKeys
    <3> QED BY <3>1, SameOrder
  <2> QED BY <1>2, <1>6, <2>1, <2>2, <2>3, <2>4, AddPrivOrders, EncodeOrders DEF Work
<1>7. CASE Save
  BY <1>2, <1>7, OpenOrders DEF Save
<1>8. CASE UNCHANGED vars
  <2>1. SameKeys /\ pc' = pc
    BY <1>8 DEF vars, SameKeys
  <2> QED BY <2>1, SameOrder
<1> QED BY <1>2, <1>3, <1>4, <1>5, <1>6, <1>7, <1>8 DEF Next

-----------------------------------------------------------------------------
(* The time stamps *)

\* What the steps of the run find.
LEMMA StampTypes ==
  ASSUME IInv
  PROVE  /\ now \in Nat /\ Period \in Nat
         /\ \A a \in Own, l \in Listeners : shared[a][l] \in Nat
         /\ \A i \in DOMAIN PrivAddresses :
              /\ PrivAddresses[i].address \in Own /\ PrivAddresses[i].last \in Nat
              /\ PrivAddresses[i] \in ToSet(PrivAddresses)
         /\ \A l \in Listeners : answering[l] # 0 => answering[l] \in DOMAIN PrivAddresses
<1>1. /\ PrivAddresses \in Seq(PrivEntries) /\ shared \in [Own -> [Listeners -> Nat]]
      /\ answering \in [Listeners -> 0 .. Len(PrivAddresses)] /\ now \in Nat
  BY AtWork
<1>2. \A i \in DOMAIN PrivAddresses : PrivAddresses[i] \in PrivEntries
  BY <1>1
<1>3. DOMAIN PrivAddresses = 1 .. Len(PrivAddresses) /\ Len(PrivAddresses) \in Nat
  BY <1>1
<1>4. \A l \in Listeners : answering[l] # 0 => answering[l] \in DOMAIN PrivAddresses
  BY <1>1, <1>3
<1> QED BY <1>1, <1>2, <1>4, PersistenceAssumption DEF PrivEntries, ToSet

\* A step that neither shares a key nor loads or saves an address.
Quiet ==
  /\ UNCHANGED <<PrivAddresses, answering, shared>> /\ meant'.keys = meant.keys
  /\ now' \in Nat /\ now <= now'
  /\ pc' \in BeforeLoad <=> pc \in BeforeLoad
  /\ pc' \in BeforeLoad => damaged' = damaged
  /\ pc' = "loadkeys" => pc = "loadkeys" /\ keys' = keys /\ at' = at
  /\ pc' = "exit" <=> pc = "exit"
  /\ pc = "run" => pc' = "run" \/ \A l \in Listeners : answering[l] = 0

LEMMA QuietStamps ==
  ASSUME IInv, StampInv, Quiet
  PROVE  StampInv'
<1>1. /\ UNCHANGED <<PrivAddresses, answering, shared>> /\ meant'.keys = meant.keys
      /\ now' \in Nat /\ now <= now'
  BY DEF Quiet
<1>2. \A entries : AllStamped(entries) => (AllStamped(entries))'
  BY <1>1 DEF AllStamped, Stamped
<1>3. Period < now' /\ Past'
  <2>1. Period < now /\ Past
    BY DEF StampInv
  <2> QED BY <1>1, <2>1, StampTypes DEF Past
<1>4. pc' \in BeforeLoad => InFile'
  <2> SUFFICES ASSUME pc' \in BeforeLoad PROVE InFile'
    OBVIOUS
  <2>1. pc \in BeforeLoad /\ damaged' = damaged
    BY DEF Quiet
  <2>2. InFile
    BY <2>1 DEF StampInv
  <2>3. AllStamped(PrivIn(meant.keys)) => (AllStamped(PrivIn(meant.keys)))'
    BY <1>1, <1>2
  <2> QED BY <1>1, <2>1, <2>2, <2>3 DEF InFile, Lost
<1>5. pc' = "loadkeys" => Restoring'
  BY <1>1 DEF Quiet, StampInv, Restoring, StampsLoaded
<1>6. pc' \notin BeforeLoad => (AllStamped(ToSet(PrivAddresses)))'
  <2> SUFFICES ASSUME pc' \notin BeforeLoad PROVE (AllStamped(ToSet(PrivAddresses)))'
    OBVIOUS
  <2>1. AllStamped(ToSet(PrivAddresses))
    BY DEF Quiet, StampInv
  <2> QED BY <1>1, <1>2, <2>1
<1>7. ASSUME NEW l \in Listeners PROVE MayShare(l)'
  <2> SUFFICES ASSUME answering[l] # 0, pc' # "exit"
               PROVE  /\ pc' = "run"
                      /\ LET a == PrivAddresses[answering[l]].address
                         IN  Fixed(a) => shared[a][l] + Period < now'
    BY <1>1 DEF MayShare
  <2>1. MayShare(l) /\ pc # "exit"
    BY DEF StampInv, Quiet
  <2>2. pc = "run" /\ (LET a == PrivAddresses[answering[l]].address
                       IN  Fixed(a) => shared[a][l] + Period < now)
    BY <2>1 DEF MayShare
  <2>3. pc' = "run"
    BY <2>2 DEF Quiet
  <2>4. PrivAddresses[answering[l]].address \in Own
    BY StampTypes
  <2> QED BY <1>1, <2>2, <2>3, <2>4, StampTypes
<1> QED BY <1>3, <1>4, <1>5, <1>6, <1>7 DEF StampInv

\* A run that ends without a good save().
Loses ==
  pc' = "exit" /\ shared' = Lost /\ now' = now

LEMMA LosesStamps ==
  ASSUME IInv, StampInv, Loses
  PROVE  StampInv'
<1>1. pc' = "exit" /\ shared' = Lost /\ now' = now
  BY DEF Loses
<1>2. Period < now' /\ Past'
  BY <1>1, StampTypes DEF StampInv, Past, Lost
<1>3. InFile'
  BY <1>1 DEF InFile, Lost
<1>4. \A l \in Listeners : MayShare(l)'
  BY <1>1 DEF MayShare
<1> QED BY <1>1, <1>2, <1>3, <1>4 DEF StampInv, BeforeLoad

LEMMA StartStamps == IInv /\ IInv' /\ StampInv /\ Start => StampInv'
<1> SUFFICES ASSUME IInv, IInv', StampInv, Start PROVE StampInv'
  OBVIOUS
<1>1. /\ pc = "off" /\ pc' = "loadkeys" /\ at' = 0
      /\ UNCHANGED <<now, memory, disk, answering, meant, damaged, shared>>
  BY DEF Start, Goto
<1>2. Period < now' /\ Past'
  BY <1>1 DEF StampInv, Past
<1>3. InFile'
  BY <1>1 DEF StampInv, InFile, BeforeLoad, AllStamped, Stamped, Lost
<1>4. Restoring'
  <2>1. InFront(keys', meant'.keys, at', 0)
    <3>1. meant.keys \in Seq(KeyFileRecords) /\ Begins(keys, meant.keys)
      BY ToBeSaved
    <3>2. Upto(meant.keys, 0) = <<>> /\ Len(<<>>) = 0
      BY <3>1, RecordSets, UptoNext
    <3>3. Len(keys) \in Nat /\ Len(meant.keys) \in Nat
      BY <3>1, RecordSets, FileTypes
    <3> QED BY <1>1, <3>2, <3>3 DEF InFront, disk
  <2>2. PrivAddresses' = <<>>
    BY <1>1 DEF IInv, Loading, memory
  <2>3. StampsLoaded(0)'
    BY <2>2 DEF StampsLoaded, ToSet
  <2> QED BY <2>1, <2>3 DEF Restoring
<1>5. ASSUME NEW l \in Listeners PROVE MayShare(l)'
  <2>1. answering[l] = 0
    BY <1>1 DEF StampInv, MayShare
  <2> QED BY <1>1, <2>1 DEF MayShare
<1> QED BY <1>1, <1>2, <1>3, <1>4, <1>5 DEF StampInv, BeforeLoad

\* A record that load() reads is not of an address that is there: its time stamp is restored.
LEMMA LoadKeyStamps == IInv /\ Ordered /\ StampInv /\ LoadKey => StampInv'
<1> SUFFICES ASSUME IInv, Ordered, StampInv, LoadKey PROVE StampInv'
  OBVIOUS
<1>0. PICK r : r = keys[at + 1].record
  OBVIOUS
<1>1. /\ pc = "loadkeys" /\ pc' = "loadkeys"
      /\ UNCHANGED <<now, disk, answering, meant, damaged, shared>>
      /\ IF r.type = "priv" THEN LoadPriv(r) ELSE LoadPub(r)
  BY <1>0 DEF LoadKey
<1>2. Period < now' /\ Past'
  BY <1>1 DEF StampInv, Past
<1>3. InFile'
  BY <1>1 DEF StampInv, InFile, BeforeLoad, AllStamped, Stamped, Lost
<1>4. PICK n : n \in Nat /\ InFront(keys, meant.keys, at, n) /\ StampsLoaded(n)
  BY <1>1 DEF StampInv, Restoring
<1>5. /\ n \in Nat /\ n < Len(meant.keys) /\ Len(meant.keys) \in Nat
      /\ DOMAIN meant.keys = 1 .. Len(meant.keys)
      /\ r = meant.keys[n + 1] /\ r \in KeyFileRecords
      /\ InFront(keys', meant'.keys, at', n + 1)
  BY <1>0, <1>4, LoadKeyReads
<1>6. /\ \A i \in 1 .. n :
           meant.keys[i].type = "priv" /\ Fixed(meant.keys[i].address) =>
             [address |-> meant.keys[i].address, last |-> meant.keys[i].last]
               \in ToSet(PrivAddresses)
      /\ \A p \in ToSet(PrivAddresses) : \E i \in 1 .. n :
           meant.keys[i].type = "priv" /\ p.address = reloaded[meant.keys[i].address]
  BY <1>4 DEF StampsLoaded
<1>7. (\A i \in 1 .. n : i \in 1 .. n + 1) /\ n + 1 \in 1 .. n + 1
      /\ \A i \in 1 .. n + 1 : i \in 1 .. n \/ i = n + 1
  BY <1>5
<1>8. StampsLoaded(n + 1)'
  <2>1. CASE r.type # "priv"
    <3>1. PrivAddresses' = PrivAddresses
      BY <1>1, <2>1 DEF LoadPub
    <3> QED BY <1>1, <1>5, <1>6, <1>7, <2>1, <3>1 DEF StampsLoaded
  <2>2. CASE r.type = "priv"
    <3> DEFINE e == [address |-> reloaded[r.address], last |-> r.last]
               more == With(PrivAddresses, e)
    <3>1. PrivAddresses' = more
      BY <1>1, <2>2 DEF LoadPriv
    <3>2. e \in PrivEntries /\ r.address \in Own
      BY <1>5, <2>2, PersistenceAssumption DEF KeyFileRecords, PrivRecords, PubRecords, PrivEntries
    <3>3. ToSet(PrivAddresses) \subseteq ToSet(more)
          /\ ToSet(more) \subseteq ToSet(PrivAddresses) \cup {e}
      <4> HIDE DEF e
      <4> QED BY <3>2, AtWork, WithIs
    <3>4. Fixed(r.address) => e \in ToSet(more)
      <4> SUFFICES ASSUME Fixed(r.address) PROVE e \in ToSet(more)
        OBVIOUS
      <4>1. e.address = r.address
        BY DEF Fixed
      <4>2. e.address \notin AddressesOf(PrivAddresses)
        <5> SUFFICES ASSUME NEW p \in ToSet(PrivAddresses), p.address = r.address PROVE FALSE
          BY <4>1 DEF AddressesOf
        <5>1. PICK i \in 1 .. n :
                meant.keys[i].type = "priv" /\ r.address = reloaded[meant.keys[i].address]
          BY <1>6
        <5>2. i \in DOMAIN meant.keys /\ n + 1 \in DOMAIN meant.keys /\ i < n + 1 /\ i # n + 1
          BY <1>5
        <5>3. meant.keys[i].address # r.address
          BY <1>5, <2>2, <5>1, <5>2 DEF Ordered, PrivRecordsDiffer
        <5>4. ~Fixed(meant.keys[i].address)
          BY <5>1, <5>3 DEF Fixed
        <5>5. r.address \in Generated
          BY <1>5, <2>2, <5>1, <5>2, <5>4 DEF Ordered, FixedRecordsFirst
        <5>6. meant.keys[i].address \in Own
          <6>1. meant.keys[i] \in KeyFileRecords
            <7>1. meant.keys \in Seq(KeyFileRecords)
              BY ToBeSaved
            <7> QED BY <5>2, <7>1
          <6> QED BY <5>1, <6>1 DEF KeyFileRecords, PrivRecords, PubRecords
        <5> QED BY <5>1, <5>4, <5>5, <5>6, PersistenceAssumption DEF Fixed
      <4> HIDE DEF e
      <4> QED BY <3>2, <4>2, AtWork, WithNew
    <3>5. e.address = reloaded[r.address]
          /\ (Fixed(r.address) => e = [address |-> r.address, last |-> r.last])
      BY DEF Fixed
    <3> HIDE DEF e, more
    <3>6. ASSUME NEW i \in 1 .. n + 1, meant.keys[i].type = "priv", Fixed(meant.keys[i].address)
          PROVE  [address |-> meant.keys[i].address, last |-> meant.keys[i].last] \in ToSet(more)
      <4>1. CASE i \in 1 .. n
        BY <1>6, <3>3, <3>6, <4>1
      <4>2. CASE i = n + 1
        BY <1>5, <3>4, <3>5, <3>6, <4>2
      <4> QED BY <1>7, <4>1, <4>2
    <3>7. ASSUME NEW p \in ToSet(more)
          PROVE  \E i \in 1 .. n + 1 :
                   meant.keys[i].type = "priv" /\ p.address = reloaded[meant.keys[i].address]
      <4>1. CASE p \in ToSet(PrivAddresses)
        BY <1>6, <1>7, <4>1
      <4>2. CASE p = e
        BY <1>5, <1>7, <2>2, <3>5, <4>2
      <4> QED BY <3>3, <4>1, <4>2
    <3> QED BY <1>1, <3>1, <3>6, <3>7 DEF StampsLoaded
  <2> QED BY <2>1, <2>2
<1>9. Restoring'
  BY <1>5, <1>8 DEF Restoring
<1>10. ASSUME NEW l \in Listeners PROVE MayShare(l)'
  <2>1. answering[l] = 0
    BY <1>1 DEF StampInv, MayShare
  <2> QED BY <1>1, <2>1 DEF MayShare
<1> QED BY <1>1, <1>2, <1>3, <1>9, <1>10 DEF StampInv, BeforeLoad

\* Of a file that is whole every record is read.
LEMMA AllAreRead ==
  ASSUME NEW set \in SUBSET Records, NEW records \in Seq(set), NEW n, NEW at_,
         InFront(Written(records), records, at_, n), ~Whole(Written(records), at_)
  PROVE  n = Len(records)
<1>1. n \in 0 .. Len(records) /\ at_ = Len(Upto(records, n)) /\ Len(records) \in Nat
  BY DEF InFront
<1> SUFFICES ASSUME n < Len(records) PROVE FALSE
  BY <1>1
<1>2. n \in 0 .. Len(records) - 1
  BY <1>1
<1>3. /\ Len(Upto(records, n)) \in Nat
      /\ Len(Upto(records, n + 1)) = Len(Upto(records, n)) + Parts(records[n + 1])
      /\ Len(Upto(records, n + 1)) <= Len(Written(records))
      /\ Parts(records[n + 1]) \in Nat \ {0}
      /\ Written(records)[Len(Upto(records, n)) + 1].record = records[n + 1]
  BY <1>2, RecordAt
<1>4. Len(Written(records)) \in Nat
  BY WrittenType
<1>5. /\ at_ + Parts(records[n + 1]) <= Len(Written(records)) /\ at_ < Len(Written(records))
      /\ Written(records)[at_ + 1].record = records[n + 1]
  BY <1>1, <1>3, <1>4
<1> QED BY <1>5 DEF Whole

LEMMA LoadKeysEndStamps == IInv /\ StampInv /\ LoadKeysEnd => StampInv'
<1> SUFFICES ASSUME IInv, StampInv, LoadKeysEnd PROVE StampInv'
  OBVIOUS
<1>1. /\ pc = "loadkeys" /\ pc' = "loadobjects" /\ ~Whole(keys, at)
      /\ UNCHANGED <<now, memory, disk, answering, meant, damaged, shared>>
  BY DEF LoadKeysEnd, Goto
<1>2. Period < now' /\ Past'
  BY <1>1 DEF StampInv, Past
<1>3. AllStamped(ToSet(PrivAddresses))
  <2> SUFFICES ASSUME NEW a \in Own, NEW l \in Listeners, Fixed(a), shared[a][l] # 0
               PROVE  \E p \in ToSet(PrivAddresses) : p.address = a /\ shared[a][l] <= p.last
    BY DEF AllStamped, Stamped
  <2>1. ~damaged /\ AllStamped(PrivIn(meant.keys))
    BY <1>1 DEF StampInv, BeforeLoad, InFile, Lost
  <2>2. PICK q \in PrivIn(meant.keys) : q.address = a /\ shared[a][l] <= q.last
    BY <2>1 DEF AllStamped, Stamped
  <2>3. PICK i \in DOMAIN meant.keys : q = meant.keys[i] /\ q.type = "priv"
    BY <2>2 DEF PrivIn, ToSet
  <2>4. PICK n \in Nat : InFront(keys, meant.keys, at, n) /\ StampsLoaded(n)
    BY <1>1 DEF StampInv, Restoring
  <2>5. keys = Written(meant.keys)
    BY <1>1, <2>1 DEF IInv, SavedUnlessDamaged
  <2>6. meant.keys \in Seq(KeyFileRecords) /\ KeyFileRecords \in SUBSET Records
    BY ToBeSaved, RecordSets
  <2>7. n = Len(meant.keys)
    <3>1. InFront(Written(meant.keys), meant.keys, at, n) /\ ~Whole(Written(meant.keys), at)
      BY <1>1, <2>4, <2>5
    <3> QED BY <2>6, <3>1, AllAreRead
  <2>8. i \in 1 .. n
    BY <2>6, <2>7
  <2>9. [address |-> q.address, last |-> q.last] \in ToSet(PrivAddresses)
    BY <2>2, <2>3, <2>4, <2>8 DEF StampsLoaded
  <2> QED BY <2>2, <2>9
<1>4. (AllStamped(ToSet(PrivAddresses)))'
  BY <1>1, <1>3 DEF AllStamped, Stamped, memory
<1>5. ASSUME NEW l \in Listeners PROVE MayShare(l)'
  <2>1. answering[l] = 0
    BY <1>1 DEF StampInv, MayShare
  <2> QED BY <1>1, <2>1 DEF MayShare
<1> QED BY <1>1, <1>2, <1>4, <1>5 DEF StampInv, BeforeLoad

LEMMA AddPrivStamps == \A a \in Generated : IInv /\ StampInv /\ AddPriv(a) => StampInv'
<1> SUFFICES ASSUME NEW a \in Generated, IInv, StampInv, AddPriv(a) PROVE StampInv'
  OBVIOUS
<1> DEFINE e == [address |-> a, last |-> 0]
<1>1. /\ pc = "run" /\ pc' = "run" /\ UNCHANGED <<now, answering, shared>>
      /\ PrivAddresses' = With(PrivAddresses, e)
  BY DEF AddPriv
<1>2. e \in PrivEntries
  BY PersistenceAssumption DEF PrivEntries
<1> HIDE DEF e
<1>3. /\ ToSet(PrivAddresses) \subseteq ToSet(PrivAddresses')
      /\ \A i \in DOMAIN PrivAddresses : PrivAddresses'[i] = PrivAddresses[i]
  <2>1. PrivAddresses \in Seq(PrivEntries)
    BY AtWork
  <2>2. /\ ToSet(PrivAddresses) \subseteq ToSet(With(PrivAddresses, e))
        /\ \A i \in DOMAIN PrivAddresses : With(PrivAddresses, e)[i] = PrivAddresses[i]
    BY <1>2, <2>1, WithIs
  <2> QED BY <1>1, <2>2
<1>4. Period < now' /\ Past'
  BY <1>1 DEF StampInv, Past
<1>5. (AllStamped(ToSet(PrivAddresses)))'
  BY <1>1, <1>3 DEF StampInv, BeforeLoad, AllStamped, Stamped
<1>6. ASSUME NEW l \in Listeners PROVE MayShare(l)'
  <2>1. MayShare(l) /\ (answering[l] # 0 => answering[l] \in DOMAIN PrivAddresses)
    BY StampTypes DEF StampInv
  <2> QED BY <1>1, <1>3, <2>1 DEF MayShare
<1> QED BY <1>1, <1>4, <1>5, <1>6 DEF StampInv, BeforeLoad

\* processObj reads the time stamp: the key was shared before it.
LEMMA GetPubKeyStamps ==
  \A l \in Listeners : \A i \in DOMAIN PrivAddresses :
    IInv /\ Ordered /\ StampInv /\ GetPubKey(l, i) => StampInv'
<1> SUFFICES ASSUME NEW l \in Listeners, NEW i \in DOMAIN PrivAddresses, IInv, Ordered, StampInv,
                    GetPubKey(l, i)
             PROVE  StampInv'
  OBVIOUS
<1>1. /\ pc = "run" /\ pc' = "run" /\ UNCHANGED <<now, memory, shared>>
      /\ PrivAddresses[i].last + Period < now
      /\ answering' = [answering EXCEPT ![l] = i]
  BY DEF GetPubKey
<1>2. Period < now' /\ Past'
  BY <1>1 DEF StampInv, Past
<1>3. (AllStamped(ToSet(PrivAddresses)))'
  BY <1>1 DEF StampInv, BeforeLoad, AllStamped, Stamped, memory
<1>4. ASSUME NEW m \in Listeners PROVE MayShare(m)'
  <2>1. answering \in [Listeners -> 0 .. Len(PrivAddresses)]
    BY AtWork
  <2>2. CASE m # l
    <3>1. answering'[m] = answering[m]
      BY <1>1, <2>1, <2>2
    <3>2. MayShare(m)
      BY DEF StampInv
    <3> QED BY <1>1, <3>1, <3>2 DEF MayShare, memory
  <2>3. CASE m = l
    <3> DEFINE a == PrivAddresses[i].address
    <3>1. answering'[l] = i
      BY <1>1, <2>1
    <3>2. Fixed(a) => shared[a][l] + Period < now
      <4> SUFFICES ASSUME Fixed(a) PROVE shared[a][l] + Period < now
        OBVIOUS
      <4>1. /\ a \in Own /\ PrivAddresses[i].last \in Nat /\ now \in Nat /\ Period \in Nat
            /\ shared[a][l] \in Nat
        BY StampTypes
      <4>2. Stamped(a, l, ToSet(PrivAddresses)) /\ Period < now
        BY <1>1, <4>1 DEF StampInv, BeforeLoad, AllStamped
      <4>3. CASE shared[a][l] = 0
        BY <4>1, <4>2, <4>3
      <4>4. CASE shared[a][l] # 0
        <5>1. PICK p \in ToSet(PrivAddresses) : p.address = a /\ shared[a][l] <= p.last
          BY <4>2, <4>4 DEF Stamped
        <5>2. p = PrivAddresses[i]
          BY <5>1 DEF Ordered, Differ, ToSet
        <5> QED BY <1>1, <4>1, <5>1, <5>2
      <4> QED BY <4>3, <4>4
    <3> QED BY <1>1, <2>3, <3>1, <3>2 DEF MayShare, memory
  <2> QED BY <2>2, <2>3
<1> QED BY <1>1, <1>2, <1>3, <1>4 DEF StampInv, BeforeLoad

\* encodePubKey writes it: nobody else shares as this Listener.
LEMMA EncodeIs ==
  ASSUME NEW l \in Listeners, IInv, EncodePubKey(l)
  PROVE  \E i \in DOMAIN PrivAddresses :
           /\ i = answering[l] /\ i # 0 /\ PrivAddresses[i].address \in Own
           /\ pc = "run" /\ pc' = "run" /\ now' = now
           /\ answering' = [answering EXCEPT ![l] = 0]
           /\ DOMAIN PrivAddresses' = DOMAIN PrivAddresses
           /\ \A j \in DOMAIN PrivAddresses :
                /\ PrivAddresses'[j].address = PrivAddresses[j].address
                /\ PrivAddresses'[j].last = IF j = i THEN now ELSE PrivAddresses[j].last
           /\ \A a \in Own, m \in Listeners :
                shared'[a][m] = IF a = PrivAddresses[i].address /\ m = l THEN now
                                                                        ELSE shared[a][m]
<1>1. /\ pc = "run" /\ pc' = "run" /\ now' = now /\ answering[l] # 0
      /\ answering' = [answering EXCEPT ![l] = 0]
      /\ PrivAddresses' = [PrivAddresses EXCEPT ![answering[l]].last = now]
      /\ shared' = [shared EXCEPT ![PrivAddresses[answering[l]].address][l] = now]
  BY DEF EncodePubKey
<1>2. PICK i \in DOMAIN PrivAddresses : i = answering[l] /\ PrivAddresses[i].address \in Own
  BY <1>1, StampTypes
<1>3. PrivAddresses \in Seq(PrivEntries) /\ shared \in [Own -> [Listeners -> Nat]]
  BY AtWork
<1>4. DOMAIN PrivAddresses' = DOMAIN PrivAddresses
  BY <1>1
<1>5. ASSUME NEW j \in DOMAIN PrivAddresses
      PROVE  /\ PrivAddresses'[j].address = PrivAddresses[j].address
             /\ PrivAddresses'[j].last = IF j = i THEN now ELSE PrivAddresses[j].last
  <2>1. PrivAddresses[j] \in PrivEntries
    BY <1>3
  <2> QED BY <1>1, <1>2, <2>1 DEF PrivEntries
<1>6. ASSUME NEW a \in Own, NEW m \in Listeners
      PROVE  shared'[a][m] = IF a = PrivAddresses[i].address /\ m = l THEN now
                                                                       ELSE shared[a][m]
  BY <1>1, <1>2, <1>3
<1> QED BY <1>1, <1>2, <1>4, <1>5, <1>6

LEMMA EncodeStamps == \A l \in Listeners : IInv /\ StampInv /\ EncodePubKey(l) => StampInv'
<1> SUFFICES ASSUME NEW l \in Listeners, IInv, StampInv, EncodePubKey(l) PROVE StampInv'
  OBVIOUS
<1>1. PICK i \in DOMAIN PrivAddresses :
        /\ i = answering[l] /\ i # 0 /\ PrivAddresses[i].address \in Own
        /\ pc = "run" /\ pc' = "run" /\ now' = now
        /\ answering' = [answering EXCEPT ![l] = 0]
        /\ DOMAIN PrivAddresses' = DOMAIN PrivAddresses
        /\ \A j \in DOMAIN PrivAddresses :
             /\ PrivAddresses'[j].address = PrivAddresses[j].address
             /\ PrivAddresses'[j].last = IF j = i THEN now ELSE PrivAddresses[j].last
        /\ \A a \in Own, m \in Listeners :
             shared'[a][m] = IF a = PrivAddresses[i].address /\ m = l THEN now
                                                                     ELSE shared[a][m]
  BY EncodeIs
<1>2. now \in Nat /\ Period < now /\ Past
  BY StampTypes DEF StampInv
<1>3. Period < now' /\ Past'
  BY <1>1, <1>2 DEF Past
<1>4. (AllStamped(ToSet(PrivAddresses)))'
  <2> SUFFICES ASSUME NEW a \in Own, NEW m \in Listeners, Fixed(a), shared'[a][m] # 0
               PROVE  \E p \in ToSet(PrivAddresses') : p.address = a /\ shared'[a][m] <= p.last
    BY DEF AllStamped, Stamped
  <2>0. \A j \in DOMAIN PrivAddresses : PrivAddresses'[j] \in ToSet(PrivAddresses')
    BY <1>1 DEF ToSet
  <2>1. CASE a = PrivAddresses[i].address /\ m = l
    <3>1. shared'[a][m] = now /\ PrivAddresses'[i].address = a /\ PrivAddresses'[i].last = now
      BY <1>1, <2>1
    <3> QED BY <1>2, <2>0, <3>1
  <2>2. CASE ~(a = PrivAddresses[i].address /\ m = l)
    <3>1. shared'[a][m] = shared[a][m] /\ shared[a][m] <= now
      BY <1>1, <1>2, <2>2 DEF Past
    <3>2. PICK p \in ToSet(PrivAddresses) : p.address = a /\ shared[a][m] <= p.last
      BY <1>1, <3>1 DEF StampInv, BeforeLoad, AllStamped, Stamped
    <3>3. PICK j \in DOMAIN PrivAddresses : p = PrivAddresses[j]
      BY <3>2 DEF ToSet
    <3>4. PrivAddresses'[j].address = a /\ shared'[a][m] <= PrivAddresses'[j].last
      BY <1>1, <3>1, <3>2, <3>3
    <3> QED BY <2>0, <3>4
  <2> QED BY <2>1, <2>2
<1>5. ASSUME NEW m \in Listeners PROVE MayShare(m)'
  <2>1. answering \in [Listeners -> 0 .. Len(PrivAddresses)]
    BY AtWork
  <2>2. CASE m = l
    BY <1>1, <2>1, <2>2 DEF MayShare
  <2>3. CASE m # l
    <3>1. answering'[m] = answering[m] /\ MayShare(m)
      BY <1>1, <2>1, <2>3 DEF StampInv
    <3>2. answering[m] # 0 =>
            /\ answering[m] \in DOMAIN PrivAddresses
            /\ PrivAddresses[answering[m]].address \in Own
      BY StampTypes
    <3> QED BY <1>1, <2>3, <3>1, <3>2 DEF MayShare
  <2> QED BY <2>2, <2>3
<1> QED BY <1>1, <1>3, <1>4, <1>5 DEF StampInv, BeforeLoad

LEMMA OpenStamps ==
  \A save_opens, keys_opens \in BOOLEAN :
    IInv /\ StampInv /\ Open(save_opens, keys_opens) => StampInv'
<1> SUFFICES ASSUME NEW save_opens \in BOOLEAN, NEW keys_opens \in BOOLEAN, IInv, StampInv,
                    Open(save_opens, keys_opens)
             PROVE  StampInv'
  OBVIOUS
<1>1. /\ pc = "open" /\ UNCHANGED <<now, memory, answering>>
      /\ IF save_opens /\ keys_opens
         THEN pc' = "saveobjects" /\ UNCHANGED shared
         ELSE pc' = "exit" /\ shared' = Lost
  BY DEF Open, Goto
<1>2. CASE ~(save_opens /\ keys_opens)
  <2>1. Loses
    BY <1>1, <1>2 DEF Loses
  <2> QED BY <2>1, LosesStamps
<1>3. CASE save_opens /\ keys_opens
  <2>1. Period < now' /\ Past'
    BY <1>1, <1>3 DEF StampInv, Past
  <2>2. (AllStamped(ToSet(PrivAddresses)))'
    BY <1>1, <1>3 DEF StampInv, BeforeLoad, AllStamped, Stamped, memory
  <2>3. ASSUME NEW l \in Listeners PROVE MayShare(l)'
    <3>1. answering[l] = 0
      BY <1>1 DEF StampInv, MayShare
    <3> QED BY <1>1, <3>1 DEF MayShare
  <2> QED BY <1>1, <1>3, <2>1, <2>2, <2>3 DEF StampInv, BeforeLoad
<1> QED BY <1>2, <1>3

\* A save() that went well has the time stamps of memory in the file.
LEMMA CloseStamps == IInv /\ StampInv /\ Close => StampInv'
<1> SUFFICES ASSUME IInv, StampInv, Close PROVE StampInv'
  OBVIOUS
<1>1. /\ pc = "savekeys" /\ pc' = "exit" /\ damaged' = FALSE
      /\ shared' = [a \in Own |-> [l \in Listeners |-> Max(Range(shared[a]))]]
      /\ UNCHANGED <<now, memory, answering, meant>>
  BY DEF Close, Goto
<1>2. ASSUME NEW a \in Own, NEW l \in Listeners
      PROVE  \E m \in Listeners : shared'[a][l] = shared[a][m]
  <2>1. shared[a] \in [Listeners -> Nat]
    BY AtWork
  <2>2. PICK m \in Listeners : Max(Range(shared[a])) = shared[a][m]
    BY <2>1, GreatestIs, PersistenceAssumption
  <2> QED BY <1>1, <2>2
<1>3. Period < now' /\ Past'
  <2>1. Period < now /\ Past
    BY DEF StampInv
  <2>2. ASSUME NEW a \in Own, NEW l \in Listeners PROVE shared'[a][l] <= now'
    BY <1>1, <1>2, <2>1 DEF Past
  <2> QED BY <1>1, <2>1, <2>2 DEF Past
<1>4. (AllStamped(PrivIn(meant.keys)))'
  <2> SUFFICES ASSUME NEW a \in Own, NEW l \in Listeners, Fixed(a), shared'[a][l] # 0
               PROVE  \E q \in PrivIn(meant'.keys) : q.address = a /\ shared'[a][l] <= q.last
    BY DEF AllStamped, Stamped
  <2>1. PICK m \in Listeners : shared'[a][l] = shared[a][m]
    BY <1>2
  <2>2. PICK p \in ToSet(PrivAddresses) : p.address = a /\ shared[a][m] <= p.last
    BY <1>1, <2>1 DEF StampInv, BeforeLoad, AllStamped, Stamped
  <2>3. PICK i \in DOMAIN PrivAddresses : p = PrivAddresses[i]
    BY <2>2 DEF ToSet
  <2>4. meant'.keys = KeyRecords
    BY <1>1 DEF IInv, Saving
  <2>5. KeyRecords[i] = PrivRecord(p) /\ i \in DOMAIN KeyRecords
    <3>1. /\ PrivAddresses \in Seq(PrivEntries) /\ PubAddresses \in Seq(PubEntries)
      BY AtWork
    <3>2. /\ DOMAIN KeyRecords = 1 .. Len(PrivAddresses) + Len(PubAddresses)
          /\ KeyRecords[i] = PrivRecord(PrivAddresses[i])
      BY <3>1, KeyRecordsAre
    <3>3. i \in 1 .. Len(PrivAddresses) + Len(PubAddresses)
      <4>1. /\ i \in 1 .. Len(PrivAddresses)
            /\ Len(PrivAddresses) \in Nat /\ Len(PubAddresses) \in Nat
        BY <3>1
      <4> QED BY <4>1
    <3> QED BY <2>3, <3>2, <3>3
  <2>6. /\ PrivRecord(p).type = "priv" /\ PrivRecord(p).address = p.address
        /\ PrivRecord(p).last = p.last
    BY DEF PrivRecord
  <2>7. PrivRecord(p) \in PrivIn(meant'.keys)
    BY <2>4, <2>5, <2>6 DEF PrivIn, ToSet
  <2> QED BY <2>1, <2>2, <2>6, <2>7
<1>5. InFile'
  BY <1>1, <1>4 DEF InFile
<1>6. \A l \in Listeners : MayShare(l)'
  BY <1>1 DEF MayShare
<1> QED BY <1>1, <1>3, <1>5, <1>6 DEF StampInv, BeforeLoad

LEMMA ExitStamps == IInv /\ StampInv /\ Exit => StampInv'
<1> SUFFICES ASSUME IInv, StampInv, Exit PROVE StampInv'
  OBVIOUS
<1>1. /\ pc = "exit" /\ pc' = "off" /\ answering' = [l \in Listeners |-> 0]
      /\ UNCHANGED <<now, meant, damaged, shared>>
  BY DEF Exit, Goto
<1>2. Period < now' /\ Past'
  BY <1>1 DEF StampInv, Past
<1>3. InFile'
  BY <1>1 DEF StampInv, InFile, BeforeLoad, AllStamped, Stamped, Lost
<1>4. \A l \in Listeners : MayShare(l)'
  BY <1>1 DEF MayShare
<1> QED BY <1>1, <1>2, <1>3, <1>4 DEF StampInv, BeforeLoad

LEMMA InitTInv == Init => TInv
<1> SUFFICES ASSUME Init PROVE TInv
  OBVIOUS
<1>1. IInv
  BY InitIInv
<1>2. /\ pc = "off" /\ now = Period + 1 /\ PrivAddresses = <<>> /\ meant.keys = <<>>
      /\ shared = Lost /\ answering = [l \in Listeners |-> 0]
  BY DEF Init
<1>3. Ordered
  BY <1>2
  DEF Ordered, Differ, FixedFirst, PrivRecordsDiffer, FixedRecordsFirst, AllFixed
<1>4. StampInv
  <2>1. Period < now /\ Past
    BY <1>2, PersistenceAssumption DEF Past, Lost
  <2>2. InFile /\ \A l \in Listeners : MayShare(l)
    BY <1>2 DEF InFile, MayShare
  <2> QED BY <1>2, <2>1, <2>2 DEF StampInv, BeforeLoad
<1> QED BY <1>1, <1>3, <1>4 DEF TInv

LEMMA QuietSteps ==
  ASSUME IInv,
         \/ LoadObject \/ LoadEnd \/ Run \/ Tick \/ Quit \/ SaveObject \/ SaveObjectsEnd
         \/ SaveKey \/ UNCHANGED vars
         \/ \E o \in ToSet(Objects) : StoreObject(o)
         \/ \E a \in Others, waiting \in BOOLEAN : AddPub(a, waiting)
         \/ \E i \in DOMAIN PubAddresses : LearnKeys(i)
  PROVE  Quiet
<1> USE DEF Quiet, BeforeLoad, memory, disk, Goto
<1>1. now \in Nat
  BY AtWork
<1>2. CASE LoadObject \/ LoadEnd \/ Run \/ Quit
  BY <1>1, <1>2 DEF LoadObject, LoadEnd, Run, Quit
<1>3. CASE Tick
  BY <1>1, <1>3 DEF Tick
<1>4. CASE SaveObject \/ SaveObjectsEnd \/ SaveKey
  BY <1>1, <1>4 DEF SaveObject, SaveObjectsEnd, SaveKey
<1>5. CASE UNCHANGED vars
  BY <1>1, <1>5 DEF vars
<1>6. ASSUME NEW o \in ToSet(Objects), StoreObject(o) PROVE Quiet
  BY <1>1, <1>6 DEF StoreObject
<1>7. ASSUME NEW a \in Others, NEW waiting \in BOOLEAN, AddPub(a, waiting) PROVE Quiet
  BY <1>1, <1>7 DEF AddPub
<1>8. ASSUME NEW i \in DOMAIN PubAddresses, LearnKeys(i) PROVE Quiet
  BY <1>1, <1>8 DEF LearnKeys
<1> HIDE DEF Quiet
<1> QED BY <1>2, <1>3, <1>4, <1>5, <1>6, <1>7, <1>8

LEMMA NextStamps == IInv /\ IInv' /\ Ordered /\ StampInv /\ [Next]_vars => StampInv'
<1> SUFFICES ASSUME IInv, IInv', Ordered, StampInv, [Next]_vars PROVE StampInv'
  OBVIOUS
<1>1. Quiet => StampInv'
  BY QuietStamps
<1>2. CASE Load
  BY <1>1, <1>2, QuietSteps, StartStamps, LoadKeyStamps, LoadKeysEndStamps DEF Load
<1>3. CASE Work
  BY <1>1, <1>3, QuietSteps, AddPrivStamps, GetPubKeyStamps, EncodeStamps DEF Work
<1>4. CASE Save
  BY <1>1, <1>4, QuietSteps, CloseStamps, OpenStamps DEF Save
<1>5. CASE CrashInOpen \/ SaveFails \/ Crash
  <2>1. Loses
    BY <1>5 DEF CrashInOpen, SaveFails, Crash, Loses, Goto
  <2> QED BY <2>1, LosesStamps
<1>6. CASE Exit
  BY <1>6, ExitStamps
<1>7. CASE UNCHANGED vars
  BY <1>1, <1>7, QuietSteps
<1> QED BY <1>2, <1>3, <1>4, <1>5, <1>6, <1>7 DEF Next

\* The inductive invariant with the time stamps.
THEOREM TInvHolds == Spec => []TInv
<1>1. TInv /\ [Next]_vars => TInv'
  BY NextKeeps, NextOrders, NextStamps DEF TInv
<1> QED BY InitTInv, <1>1, PTL DEF Spec

\* processObj (BitMRC.cpp) reads the time stamp of an address and encodePubKey writes it later: a
\* Listener still does not share the key of an address twice in Period, and a run of the client
\* does not do so either after another that ended with a good save(), for any number of runs.
THEOREM SharedOnceInPeriod == Spec => SharedOncePerListener
<1> DEFINE A == \A a \in Own, l \in Listeners :
                  /\ pc' = "run" /\ reloaded[a] = a
                  /\ shared'[a][l] # shared[a][l]
                  => shared[a][l] + Period < shared'[a][l]
<1>1. TInv /\ [Next]_vars => [A]_vars
  <2> SUFFICES ASSUME TInv, [Next]_vars PROVE A
    OBVIOUS
  <2>0. IInv /\ StampInv
    BY DEF TInv
  <2>1. ASSUME pc' # "run" \/ UNCHANGED shared PROVE A
    BY <2>1
  <2>2. ASSUME NEW l \in Listeners, EncodePubKey(l) PROVE A
    <3>1. PICK i \in DOMAIN PrivAddresses :
            /\ i = answering[l] /\ i # 0 /\ PrivAddresses[i].address \in Own
            /\ pc = "run" /\ now' = now
            /\ \A a \in Own, m \in Listeners :
                 shared'[a][m] = IF a = PrivAddresses[i].address /\ m = l THEN now
                                                                         ELSE shared[a][m]
      BY <2>0, <2>2, EncodeIs
    <3>2. Fixed(PrivAddresses[i].address) =>
            shared[PrivAddresses[i].address][l] + Period < now
      BY <2>0, <3>1 DEF StampInv, MayShare
    <3> QED BY <3>1, <3>2 DEF Fixed
  <2>3. CASE Load
    BY <2>1, <2>3 DEF Load, Start, LoadKey, LoadKeysEnd, LoadObject, LoadEnd
  <2>4. CASE Work
    <3>1. Run \/ Tick => UNCHANGED shared
      BY DEF Run, Tick
    <3>2. \A o \in ToSet(Objects) : StoreObject(o) => UNCHANGED shared
      BY DEF StoreObject
    <3>3. \A a \in Generated : AddPriv(a) => UNCHANGED shared
      BY DEF AddPriv
    <3>4. \A a \in Others, waiting \in BOOLEAN : AddPub(a, waiting) => UNCHANGED shared
      BY DEF AddPub
    <3>5. \A i \in DOMAIN PubAddresses : LearnKeys(i) => UNCHANGED shared
      BY DEF LearnKeys
    <3>6. \A l \in Listeners : \A i \in DOMAIN PrivAddresses :
            GetPubKey(l, i) => UNCHANGED shared
      BY DEF GetPubKey
    <3> HIDE DEF A
    <3> QED BY <2>1, <2>2, <2>4, <3>1, <3>2, <3>3, <3>4, <3>5, <3>6 DEF Work
  <2>5. CASE Save
    <3>1. Quit \/ SaveObject \/ SaveObjectsEnd \/ SaveKey \/ Close => pc' # "run"
      BY DEF Quit, SaveObject, SaveObjectsEnd, SaveKey, Close, Goto
    <3>2. \A save_opens, keys_opens \in BOOLEAN : Open(save_opens, keys_opens) => pc' # "run"
      BY DEF Open, Goto
    <3> HIDE DEF A
    <3> QED BY <2>1, <2>5, <3>1, <3>2 DEF Save
  <2>6. CASE CrashInOpen \/ SaveFails \/ Crash \/ Exit
    <3>1. pc' # "run"
      BY <2>6 DEF CrashInOpen, SaveFails, Crash, Exit, Goto
    <3> HIDE DEF A
    <3> QED BY <2>1, <3>1
  <2>7. CASE UNCHANGED vars
    <3>1. UNCHANGED shared
      BY <2>7 DEF vars
    <3> HIDE DEF A
    <3> QED BY <2>1, <3>1
  <2> HIDE DEF A
  <2> QED BY <2>3, <2>4, <2>5, <2>6, <2>7 DEF Next
<1> QED BY TInvHolds, <1>1, PTL DEF Spec, SharedOncePerListener

=============================================================================
