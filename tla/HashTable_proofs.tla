-------------------------- MODULE HashTable_proofs ---------------------------
(***************************************************************************)
(* What the methods of hash_table<T> return and preserve, for any keys,    *)
(* buckets and hash function: the facts that the proofs about the modules  *)
(* that keep such a table rest on.                                         *)
(***************************************************************************)
EXTENDS HashTable, WellFoundedInduction, SequenceTheorems, TLAPS

\* Every node is in the bucket of its hash, and its hash is Key[info].
Placed(table, Key) ==
  \A b \in Buckets : \A k \in DOMAIN table[b] :
    table[b][k].hash = Key[table[b][k].info] /\ hash_f[table[b][k].hash] = b

\* No info has two nodes.
Unique(table) ==
  \A b1, b2 \in Buckets :
    \A k1 \in DOMAIN table[b1], k2 \in DOMAIN table[b2] :
      table[b1][k1].info = table[b2][k2].info => b1 = b2 /\ k1 = k2

\* The infos of a table are those of its nodes.
LEMMA StoredIff ==
  ASSUME NEW table, NEW info
  PROVE  info \in Stored(table) <=>
           \E b \in Buckets : \E k \in DOMAIN table[b] : table[b][k].info = info
  BY DEF Stored, NodesOf

LEMMA StoredType ==
  ASSUME NEW Infos, NEW table \in Tables(Infos)
  PROVE  Stored(table) \subseteq Infos
<1> SUFFICES ASSUME NEW info \in Stored(table) PROVE info \in Infos
  OBVIOUS
<1>1. PICK b \in Buckets : \E k \in DOMAIN table[b] : table[b][k].info = info
  BY StoredIff
<1>2. table[b] \in Seq([hash : Hashes, info : Infos])
  BY DEF Tables
<1>3. \A k \in DOMAIN table[b] : table[b][k] \in [hash : Hashes, info : Infos]
  BY <1>2, ElementOfSeq, LenProperties
<1>4. QED BY <1>1, <1>3

LEMMA EmptyTableType ==
  ASSUME NEW Infos PROVE EmptyTable \in Tables(Infos)
  BY DEF EmptyTable, Tables

LEMMA EmptyTableFacts ==
  ASSUME NEW Key
  PROVE  Placed(EmptyTable, Key) /\ Unique(EmptyTable) /\ Stored(EmptyTable) = {}
  BY StoredIff DEF EmptyTable, Placed, Unique, Stored, NodesOf

\* insert() either leaves the table alone, because the bucket has the info, or
\* appends one node to the bucket.
LEMMA InsertCases ==
  ASSUME NEW Infos, NEW table \in Tables(Infos), NEW info \in Infos, NEW hash \in Hashes
  PROVE  \/ /\ Insert(table, info, hash) = table
            /\ \E k \in DOMAIN table[hash_f[hash]] : table[hash_f[hash]][k].info = info
         \/ /\ Insert(table, info, hash) =
                 [table EXCEPT ![hash_f[hash]] = Append(@, [hash |-> hash, info |-> info])]
            /\ \A k \in DOMAIN table[hash_f[hash]] : table[hash_f[hash]][k].info # info
  BY HashAssumption DEF Insert, InsertCode, NodesOf, Tables

LEMMA InsertType ==
  ASSUME NEW Infos, NEW table \in Tables(Infos), NEW info \in Infos, NEW hash \in Hashes
  PROVE  Insert(table, info, hash) \in Tables(Infos)
<1> DEFINE b == hash_f[hash]
           node == [hash |-> hash, info |-> info]
<1>1. b \in Buckets /\ table[b] \in Seq([hash : Hashes, info : Infos])
  BY HashAssumption DEF Tables
<1>2. node \in [hash : Hashes, info : Infos]
  OBVIOUS
<1>3. Append(table[b], node) \in Seq([hash : Hashes, info : Infos])
  BY <1>1, <1>2
<1>4. [table EXCEPT ![b] = Append(@, node)] \in Tables(Infos)
  BY <1>1, <1>3 DEF Tables
<1>5. QED BY <1>4, InsertCases, SMTT(40)

\* insert() makes the info one of the table's and loses none.
LEMMA InsertStores ==
  ASSUME NEW Infos, NEW table \in Tables(Infos), NEW info \in Infos, NEW hash \in Hashes
  PROVE  Stored(Insert(table, info, hash)) = Stored(table) \cup {info}
<1> DEFINE b == hash_f[hash]
           new == Insert(table, info, hash)
<1>1. b \in Buckets /\ table[b] \in Seq([hash : Hashes, info : Infos])
  BY HashAssumption DEF Tables
<1>2. CASE new = table /\ \E k \in DOMAIN table[b] : table[b][k].info = info
  BY <1>1, <1>2, StoredIff
<1>3. CASE new = [table EXCEPT ![b] = Append(@, [hash |-> hash, info |-> info])]
  <2>1. \A a \in Buckets : a # b => new[a] = table[a]
    BY <1>3 DEF Tables
  <2>2. new[b] = Append(table[b], [hash |-> hash, info |-> info])
    BY <1>1, <1>3 DEF Tables
  <2>3. /\ DOMAIN new[b] = DOMAIN table[b] \cup {Len(table[b]) + 1}
        /\ \A k \in DOMAIN table[b] : new[b][k] = table[b][k]
        /\ new[b][Len(table[b]) + 1].info = info
    BY <1>1, <2>2
  <2>4. ASSUME NEW x PROVE x \in Stored(new) <=> x \in Stored(table) \cup {info}
    <3>1. x \in Stored(new) => x \in Stored(table) \cup {info}
      BY <1>1, <2>1, <2>3, StoredIff
    <3>2. info \in Stored(new)
      BY <1>1, <2>3, StoredIff
    <3>3. x \in Stored(table) => x \in Stored(new)
      BY <1>1, <2>1, <2>3, StoredIff
    <3>4. QED BY <3>1, <3>2, <3>3
  <2>5. QED BY <2>4
<1>4. QED BY <1>2, <1>3, InsertCases

\* insert() keeps every node in its bucket when it is given the info's own key.
LEMMA InsertPlaces ==
  ASSUME NEW Infos, NEW table \in Tables(Infos), NEW info \in Infos, NEW Key,
         Key[info] \in Hashes, Placed(table, Key)
  PROVE  Placed(Insert(table, info, Key[info]), Key)
<1> DEFINE b == hash_f[Key[info]]
           new == Insert(table, info, Key[info])
<1>1. b \in Buckets /\ table[b] \in Seq([hash : Hashes, info : Infos])
  BY HashAssumption DEF Tables
<1>2. CASE new = table
  BY <1>2
<1>3. CASE new = [table EXCEPT ![b] = Append(@, [hash |-> Key[info], info |-> info])]
  <2>1. \A a \in Buckets : a # b => new[a] = table[a]
    BY <1>3 DEF Tables
  <2>2. new[b] = Append(table[b], [hash |-> Key[info], info |-> info])
    BY <1>1, <1>3 DEF Tables
  <2>3. /\ DOMAIN new[b] = DOMAIN table[b] \cup {Len(table[b]) + 1}
        /\ \A k \in DOMAIN table[b] : new[b][k] = table[b][k]
        /\ new[b][Len(table[b]) + 1] = [hash |-> Key[info], info |-> info]
    BY <1>1, <2>2, SMTT(40)
  <2>4. QED BY <1>1, <2>1, <2>3 DEF Placed
<1>4. QED BY <1>2, <1>3, InsertCases

\* insert() looks for the info in one bucket only, and that is enough.
LEMMA InsertUnique ==
  ASSUME NEW Infos, NEW table \in Tables(Infos), NEW info \in Infos, NEW Key,
         Key[info] \in Hashes, Placed(table, Key), Unique(table)
  PROVE  Unique(Insert(table, info, Key[info]))
<1> DEFINE b == hash_f[Key[info]]
           new == Insert(table, info, Key[info])
<1>1. b \in Buckets /\ table[b] \in Seq([hash : Hashes, info : Infos])
  BY HashAssumption DEF Tables
<1>2. CASE new = table
  BY <1>2
<1>3. CASE /\ new = [table EXCEPT ![b] = Append(@, [hash |-> Key[info], info |-> info])]
           /\ \A k \in DOMAIN table[b] : table[b][k].info # info
  <2>1. \A a \in Buckets : a # b => new[a] = table[a]
    BY <1>3 DEF Tables
  <2>2. new[b] = Append(table[b], [hash |-> Key[info], info |-> info])
    BY <1>1, <1>3 DEF Tables
  <2>3. /\ DOMAIN new[b] = DOMAIN table[b] \cup {Len(table[b]) + 1}
        /\ \A k \in DOMAIN table[b] : new[b][k] = table[b][k]
        /\ new[b][Len(table[b]) + 1].info = info
    BY <1>1, <2>2
  <2>4. \A a \in Buckets : \A k \in DOMAIN table[a] : table[a][k].info # info
    BY <1>3 DEF Placed
  <2>5. \A a \in Buckets : \A k \in DOMAIN new[a] :
          \/ k \in DOMAIN table[a] /\ new[a][k] = table[a][k] /\ new[a][k].info # info
          \/ a = b /\ k = Len(table[b]) + 1 /\ new[a][k].info = info
    BY <1>1, <2>1, <2>3, <2>4
  <2>6. ASSUME NEW a1 \in Buckets, NEW a2 \in Buckets,
               NEW k1 \in DOMAIN new[a1], NEW k2 \in DOMAIN new[a2],
               new[a1][k1].info = new[a2][k2].info
        PROVE  a1 = a2 /\ k1 = k2
    <3>1. CASE new[a1][k1].info = info
      BY <2>5, <2>6, <3>1
    <3>2. CASE new[a1][k1].info # info
      <4>1. /\ k1 \in DOMAIN table[a1] /\ new[a1][k1] = table[a1][k1]
            /\ k2 \in DOMAIN table[a2] /\ new[a2][k2] = table[a2][k2]
        BY <2>5, <2>6, <3>2
      <4>2. QED BY <2>6, <4>1 DEF Unique
    <3>3. QED BY <3>1, <3>2
  <2>7. QED BY <2>6 DEF Unique
<1>4. CASE \E k \in DOMAIN table[b] : table[b][k].info = info
  <2>1. new = table
    BY <1>1, <1>4 DEF Insert, InsertCode, NodesOf
  <2>2. QED BY <1>2, <2>1
<1>5. CASE \A k \in DOMAIN table[b] : table[b][k].info # info
  <2>1. new = [table EXCEPT ![b] = Append(@, [hash |-> Key[info], info |-> info])]
    BY <1>1, <1>5 DEF Insert, InsertCode, NodesOf, Tables
  <2>2. QED BY <1>3, <1>5, <2>1
<1>6. QED BY <1>4, <1>5

\* A set of list positions that is not empty has a first one.
LEMMA HasLeast ==
  ASSUME NEW S, S \subseteq Nat, S # {}
  PROVE  \E x \in S : \A y \in S : x <= y
<1> DEFINE Less == {p \in Nat \X Nat : p[1] < p[2]}
<1>1. IsWellFoundedOn(Less, Nat)
  BY NatLessThanWellFounded DEF OpToRel
<1>2. \E x \in S : \A y \in S : <<y, x>> \notin Less
  BY <1>1, WFMin
<1>3. \A x, y \in S : <<y, x>> \notin Less => x <= y
  OBVIOUS
<1> HIDE DEF Less
<1>4. QED BY <1>2, <1>3

\* searchByHash() of a stored info's key finds that info, collisions in the
\* bucket or not, as long as different infos have different keys.
LEMMA SearchFinds ==
  ASSUME NEW Infos, NEW table \in Tables(Infos), NEW info \in Stored(table), NEW Key, NEW none,
         \A i1, i2 \in Infos : Key[i1] = Key[i2] => i1 = i2,
         Placed(table, Key)
  PROVE  SearchByHash(table, Key[info], none) = info
<1>1. PICK b \in Buckets : \E k \in DOMAIN table[b] : table[b][k].info = info
  BY StoredIff
<1>2. PICK k \in DOMAIN table[b] : table[b][k].info = info
  BY <1>1
<1>3. hash_f[Key[info]] = b /\ table[b][k].hash = Key[info]
  BY <1>2 DEF Placed
<1> DEFINE hits == {j \in DOMAIN table[b] : table[b][j].hash = Key[info]}
           first == CHOOSE i \in hits : \A j \in hits : i <= j
<1>4. hits \subseteq Nat /\ hits # {}
  BY <1>2, <1>3 DEF Tables
<1>5. first \in DOMAIN table[b] /\ table[b][first].hash = Key[info]
  <2>1. first \in hits
    BY <1>4, HasLeast
  <2>2. QED BY <2>1
<1> HIDE DEF first
<1>6. table[b][first].info \in Infos /\ info \in Infos
  <2>1. table[b] \in Seq([hash : Hashes, info : Infos])
    BY DEF Tables
  <2>2. \A j \in DOMAIN table[b] : table[b][j] \in [hash : Hashes, info : Infos]
    BY <2>1, ElementOfSeq, LenProperties
  <2>3. QED BY <1>2, <1>5, <2>2
<1>7. table[b][first].info = info
  <2>1. table[b][first].hash = Key[table[b][first].info]
    BY <1>5 DEF Placed
  <2>2. QED BY <1>5, <1>6, <2>1
<1>8. QED BY <1>3, <1>4, <1>7 DEF SearchByHash, first
=============================================================================
