----------------------------- MODULE HashTable ------------------------------
(***************************************************************************)
(* hash_table<T> of include/utils.h: Dim buckets, each a linked list of    *)
(* nodes [hash, info].  insert() compares the infos of one bucket and      *)
(* appends at its end; present() and searchByHash() compare the hashes.    *)
(* Every method holds mutex_ for as long as it touches the table, so a     *)
(* method is one operator here.  Nothing is ever removed.  sharedObj (info *)
(* is the object's payload, hash its inventory hash) and messages are such *)
(* tables.                                                                 *)
(***************************************************************************)
EXTENDS Naturals, Sequences

CONSTANTS
  Hashes,   \* the keys
  Buckets,  \* 0 .. Dim-1
  hash_f    \* the bucket of a key

ASSUME HashAssumption == hash_f \in [Hashes -> Buckets]

\* The tables whose infos come from the set Infos.
Tables(Infos) == [Buckets -> Seq([hash : Hashes, info : Infos])]

\* hash_table(): every list is empty.
EmptyTable == [b \in Buckets |-> <<>>]

\* The nodes of a list.
NodesOf(chain) == {chain[i] : i \in DOMAIN chain}

\* The infos a table holds.
Stored(table) == {n.info : n \in UNION {NodesOf(table[b]) : b \in Buckets}}

\* What insert(info, hash) returns: 1 when the bucket was empty, 0 when the
\* bucket already has this info, 2 when it only has others.
InsertCode(table, info, hash) ==
  LET chain == table[hash_f[hash]] IN
  IF chain = <<>> THEN 1
  ELSE IF \E n \in NodesOf(chain) : n.info = info THEN 0 ELSE 2

\* Faulty variant: insert() that does not look for the info in the bucket.
InsertUnchecked(table, info, hash) ==
  [table EXCEPT ![hash_f[hash]] = Append(@, [hash |-> hash, info |-> info])]

\* The table after insert(info, hash).
Insert(table, info, hash) ==
  IF InsertCode(table, info, hash) = 0 THEN table
  ELSE [table EXCEPT ![hash_f[hash]] = Append(@, [hash |-> hash, info |-> info])]

\* present(hash)
Present(table, hash) == \E n \in NodesOf(table[hash_f[hash]]) : n.hash = hash

\* searchByHash(hash): the info of the first node of the list with this hash,
\* and the value T() when there is none.
SearchByHash(table, hash, none) ==
  LET chain == table[hash_f[hash]]
      hits  == {i \in DOMAIN chain : chain[i].hash = hash}
  IN  IF hits = {} THEN none
      ELSE chain[CHOOSE i \in hits : \A j \in hits : i <= j].info
=============================================================================
