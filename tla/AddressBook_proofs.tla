------------------------- MODULE AddressBook_proofs -------------------------
(***************************************************************************)
(* The address book, for any Listeners, addresses, objects and lengths of  *)
(* the vector: what PubAddresses holds, that the threads which walk over   *)
(* it and keep indices and a pointer into it find what they left there,    *)
(* that messages are acknowledged and delivered once, and that every step  *)
(* is a step of module KeyBook or a stutter.                               *)
(***************************************************************************)
EXTENDS AddressBook, HashTable_proofs, FiniteSetTheorems

-----------------------------------------------------------------------------
(* The inductive invariant, part by part. *)

\* No key yet, or one that came for the address.
SentFor(key, objects, a) == key = NoKey \/ key \in KeysSent(objects, a)

\* The vector has every address once, with no keys or with some that came for it.
Pool ==
  /\ PubAddresses \in Seq(Entries)
  /\ NoDuplicates
  /\ \A i \in DOMAIN PubAddresses :
       SentFor(PubAddresses[i].key, Stored(sharedObj), PubAddresses[i].address)

\* The points of processObj at which a Listener holds mutex_pub.
Walking == {"loop", "decode", "build", "exec"}
Answering == {"sender", "deliver", "push"}
ListenerPlaces == {"idle", "lock", "decrypt"} \cup Walking \cup Answering

\* The points of main() between two commands, in getPubKey and in sendMessage.
MainPlaces == {"idle", "look", "scan", "found", "add", "ask", "find", "wait", "copy", "encrypt"}
Places == ListenerPlaces \cup MainPlaces

\* An entry that has the tag of the Listener's object.
Hit(l, i) == tag[PubAddresses[i].address] = tag[obj[l].who]

\* A Listener's locals: its object, and an index into PubAddresses such that the
\* entries before it that have the object's tag have their keys.
ListenerOK(l) ==
  /\ pc[l] \in ListenerPlaces
  /\ pc[l] # "idle" => obj[l] \in Objects /\ obj[l] \in Stored(sharedObj)
  /\ pc[l] \in {"lock"} \cup Walking => obj[l].type = "pubkey"
  /\ pc[l] \in Walking =>
       /\ l \in mutex_pub /\ at[l] > 0
       /\ obj[l].fine => \A i \in DOMAIN PubAddresses :
                           i < at[l] /\ Hit(l, i) => ~Waiting(PubAddresses[i])
  /\ pc[l] \in {"decode", "build", "exec"} => at[l] \in DOMAIN PubAddresses /\ Hit(l, at[l])
  /\ pc[l] \in {"build", "exec"} => ~Waiting(PubAddresses[at[l]])
  /\ pc[l] \in Answering /\ obj[l].type = "msg" => obj[l].id \in acked

\* The keys of an address were asked for, or an entry taken for it has them.
Promise(a) ==
  \/ tag[a] \in asked
  \/ \E i \in DOMAIN PubAddresses :
       Same(PubAddresses[i].address, a) /\ ~Waiting(PubAddresses[i])

\* sendMessage's pointer leads to the address it looked for, or is stale.
TargetOK ==
  /\ target \in [index : Nat, moved : Nat]
  /\ target.index \in DOMAIN PubAddresses /\ target.moved <= moved
  /\ PubAddresses[target.index].address = to.address

\* The locals of main(), in getPubKey and sendMessage.
MainOK ==
  /\ pc[Main] \in MainPlaces
  /\ pc[Main] # "idle" => to \in Entries
  /\ pc[Main] \in {"idle", "scan", "found", "add"} => ~sending
  /\ pc[Main] \in {"look", "scan", "found", "add"} =>
       SentFor(to.key, Stored(sharedObj), to.address)
  /\ pc[Main] = "find" => sending
  /\ pc[Main] \in {"look", "ask", "find"} /\ sending => Index(to.address) # {}
  /\ pc[Main] \in {"find", "wait"} => Promise(to.address)
  /\ pc[Main] \in {"wait", "copy"} => TargetOK
  /\ pc[Main] = "copy" => Stale \/ ~Waiting(PubAddresses[target.index])
  /\ pc[Main] = "encrypt" =>
       \/ to.key \in KeysSent(Stored(sharedObj), to.address)
       \/ target \in [index : Nat, moved : Nat] /\ target.moved < moved

\* The messages of the table are queued for the user, shown, or about to be pushed
\* by one Listener.
Queued == {new_messages[i] : i \in DOMAIN new_messages}
Coming == {obj[l].id : l \in Pushing}
Mail ==
  /\ new_messages \in Seq(Hashes)
  /\ \A i, j \in DOMAIN new_messages : new_messages[i] = new_messages[j] => i = j
  /\ \A k, l \in Pushing : obj[k].id = obj[l].id => k = l
  /\ Queued \cap shown = {} /\ Coming \cap (Queued \cup shown) = {}
  /\ messages = Queued \cup shown \cup Coming

\* A query that is about to be sent was built.
QueryBuilt == \A l \in Listeners : pc[l] = "exec" => query \in Rows

\* What holds in every state.
Inv ==
  /\ TypeOK /\ pc \in [Threads -> Places]
  /\ Pool
  /\ \A l \in Listeners : ListenerOK(l)
  /\ MainOK /\ Mail /\ AckBeforeDelivery /\ QueryBuilt

-----------------------------------------------------------------------------
(* The keys that came for an address. *)

\* The ripe of an address is a key.
LEMMA OwnKeys ==
  \A a \in Addresses : ripe[a] \in Ripes /\ ripe[a] \in Keys /\ ripe[a] # NoKey
  BY AddressBookAssumption DEF Ripes, Keys

LEMMA MemberOfSeq ==
  ASSUME NEW S, NEW s \in Seq(S), NEW i \in DOMAIN s PROVE s[i] \in S
  OBVIOUS

\* They are keys, not freed memory.
LEMMA KeysSentType ==
  ASSUME NEW objects, objects \subseteq Objects, NEW a \in Addresses
  PROVE  KeysSent(objects, a) \subseteq Ripes
<1> SUFFICES ASSUME NEW k \in KeysSent(objects, a) PROVE k \in Ripes
  OBVIOUS
<1>1. CASE k = ripe[a]
  BY <1>1, OwnKeys
<1>2. ASSUME NEW i \in DOMAIN Loaded, ~Waiting(Loaded[i]), k = Loaded[i].key
      PROVE  k \in Ripes
  <2>1. Loaded[i] \in [address : Addresses, key : Ripes \cup {NoKey}]
    <3>1. Loaded \in Seq([address : Addresses, key : Ripes \cup {NoKey}])
      BY AddressBookAssumption
    <3>2. QED BY <3>1, MemberOfSeq
  <2>2. QED BY <1>2, <2>1 DEF Waiting
<1>3. ASSUME NEW o \in objects, k = ripe[o.from]
      PROVE  k \in Ripes
  BY <1>3, OwnKeys, AddressBookAssumption DEF ObjectType
<1>4. QED BY <1>1, <1>2, <1>3 DEF KeysSent

\* The more objects have come, the more keys.
LEMMA MoreKeysSent ==
  ASSUME NEW objects, NEW more, objects \subseteq more, NEW a, NEW k
  PROVE  /\ k \in KeysSent(objects, a) => k \in KeysSent(more, a)
         /\ SentFor(k, objects, a) => SentFor(k, more, a)
  BY DEF KeysSent, SentFor

\* The keys of a pubkey came for every address that has its tag.
LEMMA AnswersFor ==
  ASSUME NEW objects, NEW o \in objects, o.type = "pubkey", o.fine, NEW a, tag[o.who] = tag[a]
  PROVE  SentFor(ripe[o.from], objects, a)
  BY DEF KeysSent, SentFor

\* Objects stay in the table.
LEMMA StoredGrows ==
  ASSUME TypeOK, Next
  PROVE  /\ Stored(sharedObj) \subseteq Stored(sharedObj')
         /\ Stored(sharedObj) \subseteq Objects
<1>1. sharedObj \in Tables(Objects)
  BY DEF TypeOK
<1>2. Stored(sharedObj) \subseteq Objects
  BY <1>1, StoredType
<1>3. ASSUME NEW l \in Listeners, NEW o \in Objects, Receive(l, o)
      PROVE  Stored(sharedObj) \subseteq Stored(sharedObj')
  <2>1. o.id \in Hashes
    BY AddressBookAssumption DEF ObjectType
  <2>2. Stored(Insert(sharedObj, o, o.id)) = Stored(sharedObj) \cup {o}
    BY <1>1, <2>1, InsertStores
  <2>3. QED BY <1>3, <2>2 DEF Receive
<1>4. Command \/ GetPubKey \/ SendMessage => sharedObj' = sharedObj
  BY DEF Command, AskCommand, Subscribe, SendCommand, CheckMessage, GetPubKey, Look, Scan,
     AddFound, AddWaiting, Ask, SendMessage, FindTarget, WaitPubKey, CopyTarget, Encrypt
<1>5. \A l \in Listeners : Listener(l) => sharedObj' = sharedObj
  BY DEF Listener, LockPub, NextAddress, Decode, BuildQuery, ExecQuery, UnlockPub, Decrypt,
     AddSender, InsertMessage, PushMessage
<1>6. QED BY <1>2, <1>3, <1>4, <1>5 DEF Next

-----------------------------------------------------------------------------
(* addAddr *)

\* An address of the vector stays where it is and keeps the keys it has.
Grown ==
  \A i \in DOMAIN PubAddresses :
    /\ i \in DOMAIN PubAddresses'
    /\ PubAddresses'[i].address = PubAddresses[i].address
    /\ ~Waiting(PubAddresses[i]) => ~Waiting(PubAddresses'[i])

\* addAddr leaves the entries of other addresses alone, and one of its address
\* that has keys; it appends at most one entry, and only of an absent address.
EntryAdded(seq, entry, new) ==
  /\ new \in Seq(Entries)
  /\ \A i \in DOMAIN seq :
       \/ i \in DOMAIN new /\ new[i] = seq[i]
       \/ /\ i \in DOMAIN new /\ new[i] = entry
          /\ seq[i].address = entry.address /\ Waiting(seq[i])
  /\ \/ DOMAIN new = DOMAIN seq /\ Len(new) = Len(seq)
        /\ \E i \in DOMAIN seq : seq[i].address = entry.address
     \/ /\ DOMAIN new = DOMAIN seq \cup {Len(seq) + 1} /\ Len(new) = Len(seq) + 1
        /\ new = Append(seq, entry)
        /\ \A i \in DOMAIN seq : seq[i].address # entry.address

LEMMA WithEntryCases ==
  ASSUME NEW seq \in Seq(Entries), NEW entry \in Entries
  PROVE  EntryAdded(seq, entry, WithEntry(seq, entry))
<1> DEFINE new == WithEntry(seq, entry)
<1>1. CASE \E i \in DOMAIN seq : seq[i].address = entry.address
  <2>1. new = [i \in DOMAIN seq |->
                IF seq[i].address = entry.address /\ Waiting(seq[i]) THEN entry ELSE seq[i]]
    BY <1>1 DEF WithEntry
  <2>2. \A i \in DOMAIN seq : seq[i] \in Entries
    BY ElementOfSeq, LenProperties
  <2>3. new \in Seq(Entries) /\ Len(new) = Len(seq) /\ DOMAIN new = DOMAIN seq
    BY <2>1, <2>2, LenProperties
  <2>4. \A i \in DOMAIN seq : IF seq[i].address = entry.address /\ Waiting(seq[i])
                              THEN new[i] = entry ELSE new[i] = seq[i]
    BY <2>1
  <2> HIDE DEF new
  <2>5. EntryAdded(seq, entry, new)
    BY <1>1, <2>3, <2>4 DEF EntryAdded
  <2>6. QED BY <2>5 DEF new
<1>2. CASE \A i \in DOMAIN seq : seq[i].address # entry.address
  <2>1. new = Append(seq, entry)
    BY <1>2 DEF WithEntry
  <2>2. /\ new \in Seq(Entries) /\ Len(new) = Len(seq) + 1
        /\ DOMAIN new = DOMAIN seq \cup {Len(seq) + 1}
        /\ \A i \in DOMAIN seq : new[i] = seq[i]
    BY <2>1
  <2> HIDE DEF new
  <2>3. EntryAdded(seq, entry, new)
    BY <1>2, <2>1, <2>2 DEF EntryAdded
  <2>4. QED BY <2>3 DEF new
<1>3. QED BY <1>1, <1>2

\* addAddr keeps the pool in order when the entry's keys came for it.
LEMMA AddAddrKeepsPool ==
  ASSUME TypeOK, Pool, NEW entry \in Entries,
         SentFor(entry.key, Stored(sharedObj), entry.address),
         Stored(sharedObj) \subseteq Stored(sharedObj'),
         AddAddr(entry)
  PROVE  /\ Pool' /\ Grown
         /\ capacity' \in Nat /\ Len(PubAddresses') <= capacity'
         /\ moved' \in Nat /\ moved <= moved'
<1> DEFINE new == WithEntry(PubAddresses, entry)
<1>1. PubAddresses' = new /\ Grow
  BY DEF AddAddr
<1>2. PubAddresses \in Seq(Entries)
  BY DEF Pool
<1>3. /\ new \in Seq(Entries)
      /\ \A i \in DOMAIN PubAddresses :
           \/ i \in DOMAIN new /\ new[i] = PubAddresses[i]
           \/ /\ i \in DOMAIN new /\ new[i] = entry
              /\ PubAddresses[i].address = entry.address /\ Waiting(PubAddresses[i])
      /\ \/ DOMAIN new = DOMAIN PubAddresses /\ Len(new) = Len(PubAddresses)
         \/ /\ DOMAIN new = DOMAIN PubAddresses \cup {Len(PubAddresses) + 1}
            /\ Len(new) = Len(PubAddresses) + 1
            /\ new = Append(PubAddresses, entry)
            /\ \A i \in DOMAIN PubAddresses : PubAddresses[i].address # entry.address
  <2>1. EntryAdded(PubAddresses, entry, new)
    BY <1>2, WithEntryCases, ZenonT(40)
  <2> HIDE DEF new
  <2> QED BY <2>1, ZenonT(40) DEF EntryAdded
<1> HIDE DEF new
<1>4. \A i \in DOMAIN new \ DOMAIN PubAddresses :
        new[i] = entry /\ i = Len(PubAddresses) + 1
        /\ \A j \in DOMAIN PubAddresses : PubAddresses[j].address # entry.address
  BY <1>2, <1>3
<1>5. \A i \in DOMAIN PubAddresses :
        i \in DOMAIN new /\ new[i].address = PubAddresses[i].address
  BY <1>3
<1>6. Grown
  BY <1>1, <1>3 DEF Grown, Waiting
<1>7. NoDuplicates'
  <2> SUFFICES ASSUME NEW i \in DOMAIN new, NEW j \in DOMAIN new, new[i].address = new[j].address
               PROVE  i = j
    BY <1>1 DEF NoDuplicates
  <2>1. CASE i \in DOMAIN PubAddresses /\ j \in DOMAIN PubAddresses
    BY <2>1, <1>5 DEF Pool, NoDuplicates
  <2>2. CASE i \in DOMAIN PubAddresses /\ j \notin DOMAIN PubAddresses
    BY <2>2, <1>4, <1>5
  <2>3. CASE i \notin DOMAIN PubAddresses /\ j \in DOMAIN PubAddresses
    BY <2>3, <1>4, <1>5
  <2>4. CASE i \notin DOMAIN PubAddresses /\ j \notin DOMAIN PubAddresses
    BY <2>4, <1>4
  <2>5. QED BY <2>1, <2>2, <2>3, <2>4
<1>8. ASSUME NEW i \in DOMAIN new
      PROVE  SentFor(new[i].key, Stored(sharedObj'), new[i].address)
  <2>1. SentFor(new[i].key, Stored(sharedObj), new[i].address)
    BY <1>3, <1>4 DEF Pool
  <2>2. QED BY <2>1, MoreKeysSent
<1>9. Pool'
  BY <1>1, <1>3, <1>7, <1>8 DEF Pool
<1>10. /\ capacity' \in Nat /\ Len(PubAddresses') <= capacity'
       /\ moved' \in Nat /\ moved <= moved'
  <2>1. Len(new) <= Len(PubAddresses) + 1 /\ Len(new) \in Nat /\ Len(PubAddresses) \in Nat
    BY <1>2, <1>3
  <2>2. Len(PubAddresses) <= capacity /\ capacity \in Nat /\ moved \in Nat
    BY DEF TypeOK
  <2>3. QED BY <1>1, <2>1, <2>2 DEF Grow
<1>11. QED BY <1>6, <1>9, <1>10

-----------------------------------------------------------------------------
(* The vector, step by step. *)

\* Only addAddr and decodeFromObj touch the vector.
LEMMA BookCases ==
  ASSUME Next
  PROVE  \/ UNCHANGED book
         \/ AddFound \/ AddWaiting
         \/ \E l \in Listeners : AddSender(l) \/ Decode(l)
<1> USE DEF book
<1>1. Command => UNCHANGED book
  BY DEF Command, AskCommand, Subscribe, SendCommand, CheckMessage
<1>2. GetPubKey => UNCHANGED book \/ AddFound \/ AddWaiting
  BY DEF GetPubKey, Look, Scan, Ask
<1>3. SendMessage => UNCHANGED book
  BY DEF SendMessage, FindTarget, WaitPubKey, CopyTarget, Encrypt
<1>4. \A l \in Listeners : \A o \in Objects : Receive(l, o) => UNCHANGED book
  BY DEF Receive
<1>5. \A l \in Listeners : Listener(l) => UNCHANGED book \/ AddSender(l) \/ Decode(l)
  BY DEF Listener, LockPub, NextAddress, BuildQuery, ExecQuery, UnlockPub, Decrypt,
         InsertMessage, PushMessage
<1>6. QED BY <1>1, <1>2, <1>3, <1>4, <1>5 DEF Next

\* decodeFromObj gives an entry of the object's tag the object's keys.
LEMMA DecodeKeepsPool ==
  ASSUME Inv, NEW l \in Listeners, Decode(l)
  PROVE  /\ Pool' /\ Grown /\ UNCHANGED <<capacity, moved>>
         /\ Len(PubAddresses') = Len(PubAddresses)
         /\ obj[l].fine => ~Waiting(PubAddresses'[at[l]])
<1>1. /\ pc[l] = "decode" /\ at[l] \in DOMAIN PubAddresses /\ Hit(l, at[l])
      /\ obj[l] \in Objects /\ obj[l] \in Stored(sharedObj) /\ obj[l].type = "pubkey"
      /\ sharedObj' = sharedObj
  BY DEF Inv, ListenerOK, Walking, Decode
<1>2. ripe[obj[l].from] \in Keys /\ ripe[obj[l].from] # NoKey
  BY <1>1, OwnKeys, AddressBookAssumption DEF ObjectType
<1>3. PubAddresses \in Seq(Entries)
  BY DEF Inv, Pool
<1>4. CASE ~obj[l].fine
  <2>1. UNCHANGED <<PubAddresses, capacity, moved>>
    BY <1>4 DEF Decode
  <2>2. QED BY <1>1, <1>4, <2>1 DEF Inv, Pool, NoDuplicates, Grown
<1>5. CASE obj[l].fine
  <2> DEFINE entry == PubAddresses[at[l]]
             new == [PubAddresses EXCEPT ![at[l]].key = ripe[obj[l].from]]
  <2>1. PubAddresses' = new /\ UNCHANGED <<capacity, moved>>
    BY <1>5 DEF Decode
  <2>2. entry \in Entries
    BY <1>1, <1>3
  <2>3. /\ new \in Seq(Entries) /\ DOMAIN new = DOMAIN PubAddresses
        /\ Len(new) = Len(PubAddresses)
    <3>1. [entry EXCEPT !.key = ripe[obj[l].from]] \in Entries
      BY <1>2, <2>2 DEF Entries
    <3>2. new = [PubAddresses EXCEPT ![at[l]] = [entry EXCEPT !.key = ripe[obj[l].from]]]
      OBVIOUS
    <3>3. QED BY <1>1, <1>3, <3>1, <3>2
  <2>4. \A i \in DOMAIN PubAddresses :
          /\ new[i].address = PubAddresses[i].address
          /\ i # at[l] => new[i] = PubAddresses[i]
    BY <1>1, <1>3 DEF Entries
  <2>5. new[at[l]].key = ripe[obj[l].from]
    BY <1>1, <1>3, <2>2 DEF Entries
  <2> HIDE DEF new
  <2>6. Grown
    BY <2>1, <2>3, <2>4, <2>5, <1>2 DEF Grown, Waiting
  <2>7. NoDuplicates'
    BY <2>1, <2>3, <2>4 DEF Inv, Pool, NoDuplicates
  <2>8. ASSUME NEW i \in DOMAIN new
        PROVE  SentFor(new[i].key, Stored(sharedObj'), new[i].address)
    <3>1. CASE i # at[l]
      BY <1>1, <2>3, <2>4, <3>1 DEF Inv, Pool
    <3>2. CASE i = at[l]
      <4>1. tag[obj[l].who] = tag[entry.address]
        BY <1>1 DEF Hit
      <4>2. SentFor(ripe[obj[l].from], Stored(sharedObj), entry.address)
        BY <1>1, <1>5, <4>1, AnswersFor
      <4>3. QED BY <1>1, <2>3, <2>4, <2>5, <3>2, <4>2
    <3>3. QED BY <3>1, <3>2
  <2>9. ~Waiting(new[at[l]])
    BY <1>2, <2>5 DEF Waiting
  <2>10. QED BY <2>1, <2>3, <2>6, <2>7, <2>8, <2>9 DEF Pool
<1>6. QED BY <1>4, <1>5

\* Whatever step is taken, the vector stays in order and only grows, not while a
\* Listener holds mutex_pub.
LEMMA PoolStep ==
  ASSUME Inv, Next
  PROVE  /\ Pool' /\ Grown
         /\ capacity' \in Nat /\ Len(PubAddresses') <= capacity'
         /\ moved' \in Nat /\ moved <= moved'
         /\ mutex_pub # {} => DOMAIN PubAddresses' = DOMAIN PubAddresses
<1>0. Stored(sharedObj) \subseteq Stored(sharedObj')
  BY StoredGrows DEF Inv
<1>1. CASE UNCHANGED book
  <2>1. UNCHANGED <<PubAddresses, capacity, moved>> /\ Pool
    BY <1>1 DEF book, Inv
  <2>2. ASSUME NEW i \in DOMAIN PubAddresses
        PROVE  SentFor(PubAddresses[i].key, Stored(sharedObj'), PubAddresses[i].address)
    BY <1>0, <2>1, MoreKeysSent DEF Pool
  <2>3. Pool'
    BY <2>1, <2>2 DEF Pool, NoDuplicates
  <2>4. QED BY <2>1, <2>3 DEF Inv, TypeOK, Grown
<1>2. CASE AddFound \/ AddWaiting
  <2>1. AddAddr(to) /\ mutex_pub = {}
    BY <1>2 DEF AddFound, AddWaiting, AddAddr
  <2>2. to \in Entries /\ SentFor(to.key, Stored(sharedObj), to.address)
    BY <1>2 DEF AddFound, AddWaiting, Inv, MainOK
  <2>3. QED BY <1>0, <2>1, <2>2, AddAddrKeepsPool DEF Inv
<1>3. ASSUME NEW l \in Listeners, AddSender(l)
      PROVE  /\ Pool' /\ Grown
             /\ capacity' \in Nat /\ Len(PubAddresses') <= capacity'
             /\ moved' \in Nat /\ moved <= moved'
             /\ mutex_pub # {} => DOMAIN PubAddresses' = DOMAIN PubAddresses
  <2> DEFINE entry == [address |-> obj[l].from, key |-> ripe[obj[l].from]]
  <2>1. AddAddr(entry) /\ mutex_pub = {}
    BY <1>3 DEF AddSender, AddAddr
  <2>2. obj[l].from \in Addresses
    BY <1>3, AddressBookAssumption DEF AddSender, Inv, ListenerOK, ObjectType
  <2>3. entry \in Entries /\ SentFor(entry.key, Stored(sharedObj), entry.address)
    BY <2>2, OwnKeys DEF Entries, SentFor, KeysSent
  <2> HIDE DEF entry
  <2>4. QED BY <1>0, <2>1, <2>3, AddAddrKeepsPool DEF Inv
<1>4. ASSUME NEW l \in Listeners, Decode(l)
      PROVE  /\ Pool' /\ Grown
             /\ capacity' \in Nat /\ Len(PubAddresses') <= capacity'
             /\ moved' \in Nat /\ moved <= moved'
             /\ mutex_pub # {} => DOMAIN PubAddresses' = DOMAIN PubAddresses
  <2>1. /\ Pool' /\ Grown /\ UNCHANGED <<capacity, moved>>
        /\ Len(PubAddresses') = Len(PubAddresses)
    BY <1>4, DecodeKeepsPool
  <2>2. DOMAIN PubAddresses' = DOMAIN PubAddresses
    BY <2>1, LenProperties DEF Inv, Pool
  <2>3. QED BY <2>1, <2>2 DEF Inv, TypeOK
<1>5. QED BY <1>1, <1>2, <1>3, <1>4, BookCases

-----------------------------------------------------------------------------
(* The locals of a Listener. *)

\* A Listener's locals are right as long as it does not move: the vector only
\* grows, and not while it holds mutex_pub.
LEMMA ListenerStays ==
  ASSUME Inv, Next, NEW l \in Listeners,
         UNCHANGED <<pc[l], obj[l], at[l]>>,
         l \in mutex_pub => l \in mutex_pub',
         acked \subseteq acked'
  PROVE  ListenerOK(l)'
<1>1. /\ Grown
      /\ mutex_pub # {} => DOMAIN PubAddresses' = DOMAIN PubAddresses
  BY PoolStep
<1>2. ListenerOK(l) /\ Stored(sharedObj) \subseteq Stored(sharedObj')
  BY StoredGrows DEF Inv
<1>3. \A i \in DOMAIN PubAddresses :
        /\ i \in DOMAIN PubAddresses'
        /\ Hit(l, i)' <=> Hit(l, i)
        /\ Waiting(PubAddresses'[i]) => Waiting(PubAddresses[i])
  BY <1>1 DEF Grown, Hit
<1>4. pc[l] \in Walking => DOMAIN PubAddresses' = DOMAIN PubAddresses
  BY <1>1, <1>2 DEF ListenerOK
<1> DEFINE Done == \A i \in DOMAIN PubAddresses :
                     i < at[l] /\ Hit(l, i) => ~Waiting(PubAddresses[i])
<1>5. pc[l] \in Walking /\ Done => Done'
  BY <1>3, <1>4
<1>6. at[l] \in DOMAIN PubAddresses /\ Hit(l, at[l]) =>
        /\ at[l] \in DOMAIN PubAddresses' /\ Hit(l, at[l])'
        /\ ~Waiting(PubAddresses[at[l]]) => ~Waiting(PubAddresses'[at[l]])
  BY <1>3
<1> HIDE DEF Done
<1>7. /\ pc'[l] = pc[l] /\ obj'[l] = obj[l] /\ at'[l] = at[l]
      /\ (pc[l] \in Walking => l \in mutex_pub /\ at[l] > 0 /\ (obj[l].fine => Done))
  BY <1>2 DEF ListenerOK, Done
<1>8. /\ pc'[l] \in ListenerPlaces
      /\ pc'[l] # "idle" => obj'[l] \in Objects /\ obj'[l] \in Stored(sharedObj')
      /\ pc'[l] \in {"lock"} \cup Walking => obj'[l].type = "pubkey"
      /\ pc'[l] \in Walking => l \in mutex_pub' /\ at'[l] > 0 /\ (obj'[l].fine => Done')
      /\ pc'[l] \in {"decode", "build", "exec"} =>
           at'[l] \in DOMAIN PubAddresses' /\ Hit(l, at[l])'
      /\ pc'[l] \in {"build", "exec"} => ~Waiting(PubAddresses'[at'[l]])
      /\ pc'[l] \in Answering /\ obj'[l].type = "msg" => obj'[l].id \in acked'
  BY <1>2, <1>5, <1>6, <1>7 DEF ListenerOK
<1>9. QED BY <1>8 DEF ListenerOK, Done

\* The threads' places and the Listeners' locals are functions of the threads.
LEMMA Locals ==
  ASSUME Inv
  PROVE  /\ pc \in [Threads -> Places] /\ Main \in Threads
         /\ \A l \in Listeners : l \in Threads /\ l # Main
         /\ obj \in [Listeners -> Objects \cup {Nil}] /\ at \in [Listeners -> Nat]
  BY AddressBookAssumption DEF Inv, TypeOK, Threads

\* A step of main() leaves the Listeners, their mutex and the mail alone.
LEMMA MainSteps ==
  ASSUME Inv, Command \/ GetPubKey \/ SendMessage
  PROVE  /\ \A l \in Listeners : UNCHANGED <<pc[l], obj[l], at[l]>>
         /\ UNCHANGED <<obj, at, mutex_pub, messages, acked, storage>>
         /\ pc' \in [Threads -> Places]
<1>1. UNCHANGED <<obj, at, mutex_pub, messages, acked, storage>>
  <2>1. CASE Command
    BY <2>1 DEF Command, AskCommand, Subscribe, SendCommand, CheckMessage, inbox
  <2>2. CASE GetPubKey
    BY <2>2 DEF GetPubKey, Look, Scan, AddFound, AddWaiting, Ask, inbox
  <2>3. CASE SendMessage
    BY <2>3 DEF SendMessage, FindTarget, WaitPubKey, CopyTarget, Encrypt, inbox
  <2>4. QED BY <2>1, <2>2, <2>3
<1>2. pc' = pc \/ \E where \in MainPlaces : Goto(Main, where)
  <2> USE DEF MainPlaces
  <2>1. CASE Command
    BY <2>1 DEF Command, AskCommand, Subscribe, SendCommand, CheckMessage
  <2>2. CASE GetPubKey
    BY <2>2 DEF GetPubKey, Look, Scan, AddFound, AddWaiting, Ask, Return
  <2>3. CASE SendMessage
    BY <2>3 DEF SendMessage, FindTarget, WaitPubKey, CopyTarget, Encrypt
  <2>4. QED BY <2>1, <2>2, <2>3
<1>3. pc' \in [Threads -> Places] /\ \A l \in Listeners : pc'[l] = pc[l]
  BY <1>2, Locals DEF Goto, Places
<1>4. QED BY <1>1, <1>3

\* A step of one Listener leaves main() and the other Listeners alone.
LEMMA ListenerSteps ==
  ASSUME Inv, NEW l \in Listeners, Listener(l) \/ \E o \in Objects : Receive(l, o)
  PROVE  /\ \A k \in Listeners \ {l} : /\ UNCHANGED <<pc[k], obj[k], at[k]>>
                                       /\ k \in mutex_pub => k \in mutex_pub'
         /\ UNCHANGED <<pc[Main], mainvars, Subscriptions, shown, commands>>
         /\ acked \subseteq acked'
         /\ pc' \in [Threads -> Places]
         /\ obj' \in [Listeners -> Objects \cup {Nil}] /\ at' \in [Listeners -> Nat]
<1>1. UNCHANGED <<mainvars, Subscriptions, shown, commands>>
  BY DEF Listener, LockPub, NextAddress, Decode, BuildQuery, ExecQuery, UnlockPub, Decrypt,
         AddSender, InsertMessage, PushMessage, Receive, bounds, inbox
<1>2. pc' = pc \/ \E where \in ListenerPlaces : Goto(l, where)
  BY DEF ListenerPlaces, Walking, Answering, Listener, LockPub, NextAddress, Decode,
         BuildQuery, ExecQuery, UnlockPub, Decrypt, AddSender, InsertMessage, PushMessage,
         Receive, Finish
<1>3. obj' = obj \/ \E o \in Objects \cup {Nil} : obj' = [obj EXCEPT ![l] = o]
  BY DEF Listener, LockPub, NextAddress, Decode, BuildQuery, ExecQuery, UnlockPub, Decrypt,
         AddSender, InsertMessage, PushMessage, Receive, Finish
<1>4. at' = at \/ at' = [at EXCEPT ![l] = 0] \/ at' = [at EXCEPT ![l] = 1]
        \/ at' = [at EXCEPT ![l] = @ + 1]
  BY DEF Listener, LockPub, NextAddress, Decode, BuildQuery, ExecQuery, UnlockPub, Decrypt,
         AddSender, InsertMessage, PushMessage, Receive, Finish
<1>5. mutex_pub' = mutex_pub \/ mutex_pub' = mutex_pub \cup {l} \/ mutex_pub' = mutex_pub \ {l}
  BY DEF Listener, LockPub, NextAddress, Decode, BuildQuery, ExecQuery, UnlockPub, Decrypt,
         AddSender, InsertMessage, PushMessage, Receive
<1>6. acked' = acked \/ acked' = acked \cup {obj[l].id}
  BY DEF Listener, LockPub, NextAddress, Decode, BuildQuery, ExecQuery, UnlockPub, Decrypt,
         AddSender, InsertMessage, PushMessage, Receive, inbox
<1>7. /\ pc' \in [Threads -> Places]
      /\ \A k \in Threads \ {l} : pc'[k] = pc[k]
  BY <1>2, Locals DEF Goto, Places
<1>8. /\ obj' \in [Listeners -> Objects \cup {Nil}]
      /\ \A k \in Listeners \ {l} : obj'[k] = obj[k]
  BY <1>3, Locals
<1>9. /\ at' \in [Listeners -> Nat]
      /\ \A k \in Listeners \ {l} : at'[k] = at[k]
  BY <1>4, Locals
<1>10. QED BY <1>1, <1>5, <1>6, <1>7, <1>8, <1>9, Locals

\* Each step of processObj leaves the Listener's own locals right.
LEMMA ListenerMoves ==
  ASSUME Inv, Next, NEW l \in Listeners, Listener(l) \/ \E o \in Objects : Receive(l, o)
  PROVE  ListenerOK(l)'
<1> USE Locals DEF Goto, Finish, ListenerPlaces, Walking, Answering
<1>0. ListenerOK(l) /\ PubAddresses \in Seq(Entries)
  BY DEF Inv, Pool
<1>1. ASSUME NEW o \in Objects, Receive(l, o)
      PROVE  ListenerOK(l)'
  <2>1. /\ pc'[l] \in {"idle", "lock", "decrypt"} /\ (pc'[l] # "idle" => obj'[l] = o)
        /\ pc'[l] = "lock" => o.type = "pubkey"
    BY <1>1 DEF Receive
  <2>2. o \in Stored(sharedObj')
    <3>1. sharedObj \in Tables(Objects) /\ o.id \in Hashes
      BY AddressBookAssumption DEF Inv, TypeOK, ObjectType
    <3>2. Stored(Insert(sharedObj, o, o.id)) = Stored(sharedObj) \cup {o}
      BY <3>1, InsertStores
    <3>3. QED BY <1>1, <3>2 DEF Receive
  <2>3. QED BY <2>1, <2>2 DEF ListenerOK
<1>2. CASE LockPub(l)
  <2>1. /\ pc'[l] = "loop" /\ at'[l] = 1 /\ l \in mutex_pub'
        /\ obj'[l] \in Objects /\ obj'[l] \in Stored(sharedObj') /\ obj'[l].type = "pubkey"
    BY <1>2, <1>0 DEF LockPub, ListenerOK
  <2>2. \A i \in DOMAIN PubAddresses' : ~ (i < at'[l])
    BY <1>2, <1>0, <2>1 DEF LockPub, book
  <2>3. QED BY <2>1, <2>2 DEF ListenerOK
<1>3. CASE NextAddress(l)
  <2>1. CASE Waiting(PubAddresses[at[l]]) /\ Hit(l, at[l])
    BY <1>3, <1>0, <2>1 DEF NextAddress, ListenerOK, Hit, book
  <2>2. CASE ~(Waiting(PubAddresses[at[l]]) /\ Hit(l, at[l]))
    <3>1. /\ pc[l] = "loop" /\ pc' = pc /\ at'[l] = at[l] + 1
          /\ UNCHANGED <<PubAddresses, obj, mutex_pub, sharedObj>>
      BY <1>3, <2>2 DEF NextAddress, Hit, book
    <3>2. ASSUME obj[l].fine, NEW i \in DOMAIN PubAddresses, i < at[l] + 1, Hit(l, i)
          PROVE  ~Waiting(PubAddresses[i])
      <4>1. i < at[l] \/ i = at[l]
        BY <1>0, <3>2
      <4>2. QED BY <1>0, <2>2, <3>1, <3>2, <4>1 DEF ListenerOK
    <3>3. QED BY <1>0, <3>1, <3>2 DEF ListenerOK, Hit
  <2>3. QED BY <2>1, <2>2
<1>4. CASE Decode(l)
  <2>1. /\ pc[l] = "decode" /\ l \in mutex_pub /\ at[l] > 0 /\ at[l] \in DOMAIN PubAddresses
        /\ Hit(l, at[l]) /\ obj[l] \in Objects
        /\ obj[l] \in Stored(sharedObj) /\ obj[l].type = "pubkey"
        /\ obj[l].fine => \A i \in DOMAIN PubAddresses :
                            i < at[l] /\ Hit(l, i) => ~Waiting(PubAddresses[i])
    BY <1>0, <1>4 DEF Decode, ListenerOK
  <2>2. UNCHANGED <<obj, mutex_pub, sharedObj>>
    BY <1>4 DEF Decode
  <2>3. CASE ~obj[l].fine
    <3>1. pc'[l] = "loop" /\ at'[l] = at[l] + 1
      BY <1>4, <2>3 DEF Decode
    <3>2. QED BY <2>1, <2>2, <2>3, <3>1 DEF ListenerOK
  <2>4. CASE obj[l].fine
    <3>1. pc'[l] = "build" /\ at'[l] = at[l]
      BY <1>4, <2>4 DEF Decode
    <3>2. /\ Grown /\ DOMAIN PubAddresses' = DOMAIN PubAddresses
          /\ ~Waiting(PubAddresses'[at[l]])
      BY <1>4, <2>1, <2>4, PoolStep, DecodeKeepsPool
    <3>3. \A i \in DOMAIN PubAddresses :
            /\ Hit(l, i)' <=> Hit(l, i)
            /\ Waiting(PubAddresses'[i]) => Waiting(PubAddresses[i])
      BY <2>2, <3>2 DEF Grown, Hit
    <3>4. /\ Hit(l, at[l])'
          /\ \A i \in DOMAIN PubAddresses' : i < at[l] /\ Hit(l, i)' => ~Waiting(PubAddresses'[i])
      BY <2>1, <2>4, <3>1, <3>2, <3>3
    <3>5. QED BY <2>1, <2>2, <3>1, <3>2, <3>4 DEF ListenerOK
  <2>5. QED BY <2>3, <2>4
<1>5. CASE BuildQuery(l)
  BY <1>0, <1>5 DEF BuildQuery, ListenerOK, Hit, book
<1>6. CASE ExecQuery(l)
  <2>1. /\ pc[l] = "exec" /\ pc'[l] = "loop" /\ at'[l] = at[l] + 1
        /\ UNCHANGED <<PubAddresses, obj, mutex_pub, sharedObj>>
    BY <1>6 DEF ExecQuery, book
  <2>2. ASSUME obj[l].fine, NEW i \in DOMAIN PubAddresses, i < at[l] + 1, Hit(l, i)
        PROVE  ~Waiting(PubAddresses[i])
    <3>1. i < at[l] \/ i = at[l]
      BY <1>0, <2>2
    <3>2. QED BY <1>0, <2>1, <2>2, <3>1 DEF ListenerOK
  <2>3. QED BY <1>0, <2>1, <2>2 DEF ListenerOK, Hit
<1>7. CASE UnlockPub(l)
  BY <1>7 DEF UnlockPub, ListenerOK
<1>8. CASE Decrypt(l)
  <2>1. CASE pc'[l] = "idle"
    BY <2>1 DEF ListenerOK
  <2>2. CASE pc'[l] # "idle"
    <3>1. pc[l] = "decrypt" /\ pc'[l] = "sender" /\ UNCHANGED <<obj, sharedObj>>
      BY <1>8, <2>2 DEF Decrypt
    <3>2. obj[l].type = "msg" => obj[l].id \in acked'
      <4>1. ~Finish(l)
        BY <2>2
      <4>2. acked' = IF obj[l].type = "msg" THEN acked \cup {obj[l].id} ELSE acked
        BY <1>8, <4>1 DEF Decrypt
      <4>3. QED BY <4>2
    <3>3. QED BY <1>0, <3>1, <3>2 DEF ListenerOK
  <2>3. QED BY <2>1, <2>2
<1>9. CASE AddSender(l)
  <2>1. pc[l] = "sender" /\ pc'[l] = "deliver" /\ UNCHANGED <<obj, acked, sharedObj>>
    BY <1>9 DEF AddSender, inbox
  <2>2. QED BY <1>0, <2>1 DEF ListenerOK
<1>10. CASE InsertMessage(l)
  <2>1. CASE pc'[l] = "idle"
    BY <2>1 DEF ListenerOK
  <2>2. CASE pc'[l] # "idle"
    <3>1. pc[l] = "deliver" /\ pc'[l] = "push" /\ UNCHANGED <<obj, acked, sharedObj>>
      BY <1>10, <2>2 DEF InsertMessage
    <3>2. QED BY <1>0, <3>1 DEF ListenerOK
  <2>3. QED BY <2>1, <2>2
<1>11. CASE PushMessage(l)
  BY <1>11 DEF PushMessage, ListenerOK
<1>12. QED BY <1>1, <1>2, <1>3, <1>4, <1>5, <1>6, <1>7, <1>8, <1>9, <1>10, <1>11 DEF Listener

\* The locals of every Listener are right after every step.
LEMMA ListenersStep ==
  ASSUME Inv, Next
  PROVE  \A l \in Listeners : ListenerOK(l)'
<1>1. CASE Command \/ GetPubKey \/ SendMessage
  BY <1>1, MainSteps, ListenerStays
<1>2. ASSUME NEW l \in Listeners, Listener(l) \/ \E o \in Objects : Receive(l, o)
      PROVE  \A k \in Listeners : ListenerOK(k)'
  <2>1. ListenerOK(l)'
    BY <1>2, ListenerMoves
  <2>2. ASSUME NEW k \in Listeners \ {l} PROVE ListenerOK(k)'
    BY <1>2, ListenerSteps, ListenerStays
  <2>3. QED BY <2>1, <2>2
<1>3. QED BY <1>1, <1>2 DEF Next

-----------------------------------------------------------------------------
(* The locals of main(). *)

\* An entry stays where it is, with its tag, and a key that came does not go.
LEMMA PromiseStays ==
  ASSUME Grown, asked \subseteq asked', NEW a, Promise(a)
  PROVE  Promise(a)'
  BY DEF Promise, Grown

\* A Listener's step leaves the locals of main() right: the index its pointer stands
\* for stays good, and a pointer that is stale stays stale.
LEMMA MainStays ==
  ASSUME Inv, Next, UNCHANGED <<pc[Main], mainvars>>
  PROVE  MainOK'
<1>1. Grown /\ moved' \in Nat /\ moved \in Nat /\ moved <= moved'
  BY PoolStep DEF Inv, TypeOK
<1>2. MainOK /\ UNCHANGED <<pc[Main], asked, to, sending, target>>
  BY DEF Inv, mainvars
<1>3. Index(to.address) # {} => Index(to.address)' # {}
  BY <1>1, <1>2 DEF Index, Grown
<1>4. Promise(to.address) => Promise(to.address)'
  BY <1>1, <1>2, PromiseStays
<1>5. TargetOK => TargetOK'
  BY <1>1, <1>2 DEF TargetOK, Grown
<1>6. TargetOK /\ (Stale \/ ~Waiting(PubAddresses[target.index]))
        => (Stale \/ ~Waiting(PubAddresses[target.index]))'
  BY <1>1, <1>2 DEF TargetOK, Grown, Stale
<1>7. target \in [index : Nat, moved : Nat] /\ target.moved < moved => target.moved < moved'
  BY <1>1
<1>8. /\ SentFor(to.key, Stored(sharedObj), to.address)
           => SentFor(to.key, Stored(sharedObj'), to.address)
      /\ to.key \in KeysSent(Stored(sharedObj), to.address)
           => to.key \in KeysSent(Stored(sharedObj'), to.address)
  BY StoredGrows, MoreKeysSent DEF Inv
<1>9. QED BY <1>2, <1>3, <1>4, <1>5, <1>6, <1>7, <1>8 DEF MainOK

\* A command begins with an address of the user's or of the vector.
LEMMA CommandKeepsMain ==
  ASSUME Inv, Next, Command
  PROVE  MainOK'
<1> USE Locals DEF Goto, MainPlaces
<1>1. MainOK /\ PubAddresses \in Seq(Entries)
  BY DEF Inv, Pool
<1>2. ASSUME NEW a \in Typed, AskCommand(a) PROVE MainOK'
  <2>1. /\ pc[Main] = "idle" /\ pc'[Main] = "look" /\ to' = [address |-> a, key |-> NoKey]
        /\ UNCHANGED sending
    BY <1>2 DEF AskCommand
  <2>2. to' \in Entries
    BY <2>1, AddressBookAssumption DEF Entries, Keys
  <2>3. ~sending
    BY <1>1, <2>1 DEF MainOK
  <2>4. SentFor(to.key, Stored(sharedObj), to.address)'
    BY <2>1 DEF SentFor
  <2>5. QED BY <2>1, <2>2, <2>3, <2>4 DEF MainOK
<1>3. ASSUME NEW a \in Typed, Subscribe(a) PROVE MainOK'
  BY <1>3, MainStays DEF Subscribe
<1>4. ASSUME NEW i \in DOMAIN PubAddresses, SendCommand(i) PROVE MainOK'
  <2>1. /\ to' = PubAddresses[i] /\ sending' = TRUE /\ UNCHANGED <<PubAddresses, sharedObj>>
        /\ pc'[Main] = IF Waiting(PubAddresses[i]) THEN "look" ELSE "encrypt"
    BY <1>4 DEF SendCommand, book
  <2>2. to' \in Entries
    BY <1>1, <2>1
  <2>3. SentFor(to.key, Stored(sharedObj), to.address)'
    BY <2>1 DEF Inv, Pool
  <2>4. i \in Index(to.address)'
    BY <2>1 DEF Index
  <2>5. ~Waiting(PubAddresses[i]) => to'.key \in KeysSent(Stored(sharedObj'), to'.address)
    BY <2>1, <2>3 DEF SentFor, Waiting
  <2>6. QED BY <2>1, <2>2, <2>3, <2>4, <2>5 DEF MainOK
<1>5. CASE CheckMessage
  BY <1>5, MainStays DEF CheckMessage
<1>6. QED BY <1>2, <1>3, <1>4, <1>5 DEF Command

\* getPubKey comes back to sendMessage only with a key asked for or there already.
LEMMA ReturnKeepsMain ==
  ASSUME Inv, Return, Grown, to \in Entries, asked \subseteq asked',
         sending => Index(to.address) # {} /\ Promise(to.address)'
  PROVE  MainOK'
<1> USE Locals DEF Goto, MainPlaces, Return
<1>1. CASE sending
  <2>1. pc'[Main] = "find" /\ UNCHANGED <<to, sending>>
    BY <1>1
  <2>2. Index(to.address)' # {}
    BY <1>1, <2>1 DEF Index, Grown
  <2>3. Promise(to.address)'
    BY <1>1
  <2>4. QED BY <1>1, <2>1, <2>2, <2>3 DEF MainOK
<1>2. CASE ~sending
  BY <1>2 DEF MainOK
<1>3. QED BY <1>1, <1>2

LEMMA GetPubKeyKeepsMain ==
  ASSUME Inv, Next, GetPubKey
  PROVE  MainOK'
<1> USE Locals DEF Goto, MainPlaces
<1>1. MainOK /\ PubAddresses \in Seq(Entries) /\ Grown
  BY PoolStep DEF Inv, Pool
<1>2. CASE Look
  <2> DEFINE hits == {i \in DOMAIN PubAddresses : Same(PubAddresses[i].address, to.address)}
             first == CHOOSE i \in hits : \A j \in hits : i <= j
  <2>1. /\ pc[Main] = "look" /\ UNCHANGED <<PubAddresses, asked, sharedObj>>
        /\ IF hits = {} THEN Goto(Main, "scan") /\ UNCHANGED <<to, sending>>
           ELSE IF Waiting(PubAddresses[first]) THEN Goto(Main, "ask") /\ UNCHANGED <<to, sending>>
           ELSE Return
    BY <1>2 DEF Look, book
  <2>2. to \in Entries /\ SentFor(to.key, Stored(sharedObj), to.address)
    BY <1>1, <2>1 DEF MainOK
  <2>3. sending => Index(to.address) # {} /\ hits # {}
    <3>1. Same(to.address, to.address)
      BY DEF Same
    <3>2. sending => Index(to.address) # {}
      BY <1>1, <2>1 DEF MainOK
    <3>3. Index(to.address) \subseteq hits
      BY <3>1 DEF Index
    <3>4. QED BY <3>2, <3>3
  <2>4. hits # {} => first \in hits
    <3>1. hits \subseteq Nat
      BY <1>1, LenProperties
    <3>2. QED BY <3>1, HasLeast
  <2> HIDE DEF first
  <2>5. CASE hits = {}
    <3>1. pc'[Main] = "scan" /\ UNCHANGED <<to, sending>> /\ ~sending
      BY <2>1, <2>3, <2>5
    <3>2. SentFor(to.key, Stored(sharedObj), to.address)'
      BY <2>1, <2>2, <3>1
    <3>3. QED BY <2>2, <3>1, <3>2 DEF MainOK
  <2>6. CASE hits # {} /\ Waiting(PubAddresses[first])
    <3>1. pc'[Main] = "ask" /\ UNCHANGED <<to, sending>>
      BY <2>1, <2>6
    <3>2. sending => Index(to.address)' # {}
      BY <2>1, <2>3, <3>1 DEF Index
    <3>3. QED BY <2>2, <3>1, <3>2 DEF MainOK
  <2>7. CASE hits # {} /\ ~Waiting(PubAddresses[first])
    <3>1. Return
      BY <2>1, <2>7
    <3>2. Promise(to.address)
      BY <2>4, <2>7 DEF Promise
    <3>3. sending => Promise(to.address)'
      <4>1. sending => UNCHANGED to
        BY <3>1 DEF Return
      <4>2. QED BY <4>1, <2>1, <3>2 DEF Promise
    <3>4. QED BY <1>1, <2>1, <2>2, <2>3, <3>1, <3>3, ReturnKeepsMain
  <2>8. QED BY <2>5, <2>6, <2>7
<1>3. CASE Scan
  <2> DEFINE hits == PubKeysIn(bucket, tag[to.address])
             first == CHOOSE i \in hits : \A j \in hits : i <= j
             found == sharedObj[bucket][first].info
  <2>1. /\ pc[Main] = "scan" /\ UNCHANGED <<sending, sharedObj>>
        /\ pc'[Main] \in {"scan", "found", "add"}
        /\ \/ to' = to
           \/ hits # {} /\ found.fine /\ to' = [to EXCEPT !.key = ripe[found.from]]
    BY <1>3 DEF Scan
  <2>2. to \in Entries /\ SentFor(to.key, Stored(sharedObj), to.address) /\ ~sending
    BY <1>1, <2>1 DEF MainOK
  <2>3. CASE to' = to
    BY <2>1, <2>2, <2>3 DEF MainOK
  <2>4. CASE hits # {} /\ found.fine /\ to' = [to EXCEPT !.key = ripe[found.from]]
    <3>1. sharedObj[bucket] \in Seq([hash : Hashes, info : Objects]) /\ bucket \in Buckets
      BY DEF Inv, TypeOK, Tables
    <3>2. first \in hits
      <4>1. hits \subseteq Nat
        BY <3>1, LenProperties DEF PubKeysIn
      <4>2. QED BY <2>4, <4>1, HasLeast
    <3> HIDE DEF first
    <3>3. /\ first \in DOMAIN sharedObj[bucket] /\ found.type = "pubkey"
          /\ tag[found.who] = tag[to.address]
      BY <3>2 DEF PubKeysIn
    <3>4. found \in Objects /\ found \in Stored(sharedObj)
      <4>1. sharedObj[bucket][first] \in [hash : Hashes, info : Objects]
        BY <3>1, <3>3, MemberOfSeq, ZenonT(40)
      <4>2. QED BY <3>1, <3>3, <4>1, StoredIff
    <3> HIDE DEF found
    <3>5. SentFor(ripe[found.from], Stored(sharedObj), to.address)
      BY <2>4, <3>3, <3>4, AnswersFor
    <3>6. ripe[found.from] \in Keys
      BY <3>4, OwnKeys, AddressBookAssumption DEF ObjectType
    <3>7. /\ to' \in Entries /\ to'.key = ripe[found.from] /\ to'.address = to.address
      BY <2>2, <2>4, <3>6 DEF Entries
    <3>8. SentFor(to.key, Stored(sharedObj), to.address)'
      BY <2>1, <3>5, <3>7
    <3>9. QED BY <2>1, <2>2, <3>7, <3>8 DEF MainOK
  <2>5. QED BY <2>1, <2>3, <2>4
<1>4. CASE AddFound
  <2>1. pc[Main] = "found" /\ Return /\ UNCHANGED asked
    BY <1>4 DEF AddFound
  <2>2. to \in Entries /\ ~sending
    BY <1>1, <2>1 DEF MainOK
  <2>3. QED BY <1>1, <2>1, <2>2, ReturnKeepsMain
<1>5. CASE AddWaiting
  <2>1. pc[Main] = "add" /\ pc'[Main] = "ask" /\ UNCHANGED <<to, sending>>
    BY <1>5 DEF AddWaiting, mainvars
  <2>2. to \in Entries /\ ~sending
    BY <1>1, <2>1 DEF MainOK
  <2>3. QED BY <2>1, <2>2 DEF MainOK
<1>6. CASE Ask
  <2>1. pc[Main] = "ask" /\ Return /\ asked' = asked \cup {tag[to.address]}
    BY <1>6 DEF Ask
  <2>2. to \in Entries /\ (sending => Index(to.address) # {})
    BY <1>1, <2>1 DEF MainOK
  <2>3. sending => Promise(to.address)'
    BY <2>1 DEF Return, Promise
  <2>4. QED BY <1>1, <2>1, <2>2, <2>3, ReturnKeepsMain
<1>7. QED BY <1>2, <1>3, <1>4, <1>5, <1>6 DEF GetPubKey

\* sendMessage's pointer leads to the address it is for; the keys that end its wait
\* came for that address.
LEMMA SendMessageKeepsMain ==
  ASSUME Inv, Next, SendMessage
  PROVE  MainOK'
<1> USE Locals DEF Goto, MainPlaces
<1>1. /\ MainOK /\ PubAddresses \in Seq(Entries) /\ moved \in Nat
      /\ \A i \in DOMAIN PubAddresses :
           SentFor(PubAddresses[i].key, Stored(sharedObj), PubAddresses[i].address)
  BY DEF Inv, Pool, TypeOK
<1>2. CASE FindTarget
  <2> DEFINE first == CHOOSE i \in Index(to.address) : \A j \in Index(to.address) : i <= j
  <2>1. /\ pc[Main] = "find" /\ pc'[Main] = "wait"
        /\ target' = [index |-> first, moved |-> moved]
        /\ UNCHANGED <<PubAddresses, moved, asked, to, sending>>
    BY <1>2 DEF FindTarget, book
  <2>2. /\ to \in Entries /\ sending /\ Index(to.address) # {} /\ Promise(to.address)
    BY <1>1, <2>1 DEF MainOK
  <2>3. first \in Index(to.address)
    <3>1. Index(to.address) \subseteq Nat
      BY <1>1, LenProperties DEF Index
    <3>2. QED BY <2>2, <3>1, HasLeast
  <2> HIDE DEF first
  <2>4. /\ first \in DOMAIN PubAddresses /\ first \in Nat
        /\ PubAddresses[first].address = to.address
    BY <1>1, <2>3, LenProperties DEF Index
  <2>5. TargetOK' /\ Promise(to.address)'
    BY <1>1, <2>1, <2>2, <2>4 DEF TargetOK, Promise
  <2>6. QED BY <2>1, <2>2, <2>5 DEF MainOK
<1>3. CASE WaitPubKey
  <2>1. /\ pc[Main] = "wait" /\ pc'[Main] = "copy"
        /\ Stale \/ ~Waiting(PubAddresses[target.index])
        /\ UNCHANGED <<PubAddresses, moved, to, sending, target>>
    BY <1>3 DEF WaitPubKey, book, mainvars
  <2>2. to \in Entries /\ TargetOK
    BY <1>1, <2>1 DEF MainOK
  <2>3. TargetOK' /\ (Stale \/ ~Waiting(PubAddresses[target.index]))'
    BY <2>1, <2>2 DEF TargetOK, Stale
  <2>4. QED BY <2>1, <2>2, <2>3 DEF MainOK
<1>4. CASE CopyTarget
  <2>1. /\ pc[Main] = "copy" /\ pc'[Main] = "encrypt"
        /\ to' \in IF Stale THEN {[to EXCEPT !.key = k] : k \in Keys}
                   ELSE {PubAddresses[target.index]}
        /\ UNCHANGED <<moved, sending, target, sharedObj>>
    BY <1>4 DEF CopyTarget, book
  <2>2. to \in Entries /\ TargetOK /\ (Stale \/ ~Waiting(PubAddresses[target.index]))
    BY <1>1, <2>1 DEF MainOK
  <2>3. CASE Stale
    <3>1. \A k \in Keys : [to EXCEPT !.key = k] \in Entries
      BY <2>2 DEF Entries
    <3>2. to' \in Entries
      BY <2>1, <2>3, <3>1
    <3>3. target' \in [index : Nat, moved : Nat] /\ target'.moved < moved'
      BY <1>1, <2>1, <2>2, <2>3 DEF Stale, TargetOK
    <3>4. QED BY <2>1, <3>2, <3>3 DEF MainOK
  <2>4. CASE ~Stale
    <3>1. to' = PubAddresses[target.index] /\ target.index \in DOMAIN PubAddresses
      BY <2>1, <2>2, <2>4 DEF TargetOK
    <3>2. to' \in Entries /\ to'.key \in KeysSent(Stored(sharedObj'), to'.address)
      <4>1. ~Waiting(PubAddresses[target.index])
        BY <2>2, <2>4
      <4>2. SentFor(to'.key, Stored(sharedObj'), to'.address)
        BY <1>1, <2>1, <3>1
      <4>3. QED BY <1>1, <3>1, <4>1, <4>2 DEF Waiting, SentFor
    <3>3. QED BY <2>1, <3>2 DEF MainOK
  <2>5. QED BY <2>3, <2>4
<1>5. CASE Encrypt
  BY <1>5 DEF Encrypt, MainOK
<1>6. QED BY <1>2, <1>3, <1>4, <1>5 DEF SendMessage

\* The locals of main() are right after every step.
LEMMA MainStep ==
  ASSUME Inv, Next
  PROVE  MainOK'
<1>1. ASSUME NEW l \in Listeners, Listener(l) \/ \E o \in Objects : Receive(l, o)
      PROVE  MainOK'
  BY <1>1, ListenerSteps, MainStays
<1>2. QED BY <1>1, CommandKeepsMain, GetPubKeyKeepsMain, SendMessageKeepsMain DEF Next

-----------------------------------------------------------------------------
(* The mail. *)

\* What is in a queue after push() and after pop().
ItemsOf(s) == {s[i] : i \in DOMAIN s}
Distinct(s) == \A i, j \in DOMAIN s : s[i] = s[j] => i = j

LEMMA PushedItems ==
  ASSUME NEW S, NEW s \in Seq(S), NEW x \in S, Distinct(s), x \notin ItemsOf(s)
  PROVE  /\ Append(s, x) \in Seq(S) /\ Distinct(Append(s, x))
         /\ ItemsOf(Append(s, x)) = ItemsOf(s) \cup {x}
<1> DEFINE new == Append(s, x)
<1>1. /\ new \in Seq(S) /\ DOMAIN new = DOMAIN s \cup {Len(s) + 1} /\ Len(s) + 1 \notin DOMAIN s
      /\ new[Len(s) + 1] = x /\ \A i \in DOMAIN s : new[i] = s[i]
  OBVIOUS
<1> HIDE DEF new
<1>2. \A i \in DOMAIN s : s[i] # x
  BY DEF ItemsOf
<1>3. Distinct(new)
  BY <1>1, <1>2 DEF Distinct
<1>4. ItemsOf(new) = ItemsOf(s) \cup {x}
  BY <1>1 DEF ItemsOf
<1>5. QED BY <1>1, <1>3, <1>4 DEF new

LEMMA PoppedItems ==
  ASSUME NEW S, NEW s \in Seq(S), s # <<>>, Distinct(s)
  PROVE  /\ Tail(s) \in Seq(S) /\ Distinct(Tail(s))
         /\ Head(s) \notin ItemsOf(Tail(s)) /\ ItemsOf(s) = ItemsOf(Tail(s)) \cup {Head(s)}
<1> DEFINE t == Tail(s)
<1>1. /\ t \in Seq(S) /\ Len(s) \in Nat \ {0} /\ DOMAIN s = 1 .. Len(s)
      /\ DOMAIN t = 1 .. Len(s) - 1 /\ Head(s) = s[1]
      /\ \A i \in DOMAIN t : i + 1 \in DOMAIN s /\ t[i] = s[i + 1]
  OBVIOUS
<1> HIDE DEF t
<1>2. \A i \in DOMAIN s : i = 1 \/ (i - 1 \in DOMAIN t /\ t[i - 1] = s[i])
  <2> SUFFICES ASSUME NEW i \in DOMAIN s, i # 1 PROVE i - 1 \in DOMAIN t /\ t[i - 1] = s[i]
    OBVIOUS
  <2>1. i - 1 \in DOMAIN t /\ (i - 1) + 1 = i
    BY <1>1
  <2>2. QED BY <1>1, <2>1
<1>3. Distinct(t)
  <2> SUFFICES ASSUME NEW i \in DOMAIN t, NEW j \in DOMAIN t, t[i] = t[j] PROVE i = j
    BY DEF Distinct
  <2>1. s[i + 1] = s[j + 1] /\ i + 1 \in DOMAIN s /\ j + 1 \in DOMAIN s
    BY <1>1
  <2>2. i + 1 = j + 1
    BY <2>1 DEF Distinct
  <2>3. QED BY <1>1, <2>2
<1>4. \A i \in DOMAIN t : t[i] # Head(s)
  <2> SUFFICES ASSUME NEW i \in DOMAIN t, t[i] = Head(s) PROVE FALSE
    OBVIOUS
  <2>1. s[i + 1] = s[1] /\ i + 1 \in DOMAIN s /\ 1 \in DOMAIN s
    BY <1>1
  <2>2. i + 1 = 1
    BY <2>1 DEF Distinct
  <2>3. QED BY <1>1, <2>2
<1>5. ItemsOf(s) = ItemsOf(t) \cup {Head(s)}
  <2>1. ASSUME NEW x \in ItemsOf(s) PROVE x \in ItemsOf(t) \cup {Head(s)}
    <3>1. PICK i \in DOMAIN s : x = s[i]
      BY DEF ItemsOf
    <3>2. QED BY <1>1, <1>2, <3>1 DEF ItemsOf
  <2>2. ItemsOf(t) \subseteq ItemsOf(s)
    BY <1>1 DEF ItemsOf
  <2>3. Head(s) \in ItemsOf(s)
    BY <1>1 DEF ItemsOf
  <2>4. QED BY <2>1, <2>2, <2>3
<1>6. QED BY <1>1, <1>3, <1>4, <1>5 DEF ItemsOf, t

\* The mail is as it was when no Listener comes to push() or leaves it.
LEMMA MailStays ==
  ASSUME Mail, UNCHANGED <<messages, new_messages, shown>>,
         \A l \in Listeners : pc[l] = "push" \/ pc'[l] = "push" => UNCHANGED <<pc[l], obj[l]>>
  PROVE  Mail'
<1>1. Pushing' = Pushing /\ \A l \in Pushing : obj'[l] = obj[l]
  BY DEF Pushing
<1>2. Coming' = Coming
  BY <1>1 DEF Coming
<1>3. Queued' = Queued
  BY DEF Queued
<1>4. QED BY <1>1, <1>2, <1>3 DEF Mail

\* insert() of the table of messages lets one Listener through, and none for a
\* message that was let through before.
LEMMA InsertMessageKeepsMail ==
  ASSUME Inv, NEW l \in Listeners, InsertMessage(l)
  PROVE  Mail'
<1> USE Locals DEF Goto, Finish
<1>1. pc[l] = "deliver" /\ l \notin Pushing /\ UNCHANGED <<new_messages, shown>> /\ Mail
  BY DEF InsertMessage, Pushing, Inv
<1>2. CASE obj[l].id \in messages
  <2>1. messages' = messages /\ pc'[l] = "idle"
    BY <1>2 DEF InsertMessage
  <2>2. \A k \in Listeners \ {l} : UNCHANGED <<pc[k], obj[k]>>
    BY ListenerSteps DEF Listener
  <2>3. QED BY <1>1, <2>1, <2>2, MailStays
<1>3. CASE obj[l].id \notin messages
  <2>1. messages' = messages \cup {obj[l].id} /\ pc'[l] = "push" /\ UNCHANGED obj
    BY <1>3 DEF InsertMessage
  <2>2. \A k \in Listeners \ {l} : UNCHANGED pc[k]
    BY ListenerSteps DEF Listener
  <2>3. Pushing' = Pushing \cup {l}
    BY <2>1, <2>2 DEF Pushing
  <2>4. Coming' = Coming \cup {obj[l].id} /\ Queued' = Queued
    BY <1>1, <2>1, <2>3 DEF Coming, Queued
  <2>5. obj[l].id \notin Coming /\ obj[l].id \notin Queued \cup shown
    BY <1>1, <1>3 DEF Mail
  <2>6. \A k \in Pushing : obj[k].id # obj[l].id
    BY <2>5 DEF Coming
  <2>7. \A j, k \in Pushing' : obj'[j].id = obj'[k].id => j = k
    BY <1>1, <2>1, <2>3, <2>6 DEF Mail
  <2>8. QED BY <1>1, <2>1, <2>4, <2>5, <2>7 DEF Mail
<1>4. QED BY <1>2, <1>3

LEMMA PushMessageKeepsMail ==
  ASSUME Inv, NEW l \in Listeners, PushMessage(l)
  PROVE  Mail'
<1> USE Locals DEF Goto, Finish
<1>1. /\ l \in Pushing /\ new_messages' = Append(new_messages, obj[l].id)
      /\ UNCHANGED <<messages, shown>> /\ Mail /\ pc'[l] = "idle"
  BY DEF PushMessage, Pushing, Inv
<1>2. \A k \in Listeners \ {l} : UNCHANGED <<pc[k], obj[k]>>
  BY ListenerSteps DEF Listener
<1>3. Pushing' = Pushing \ {l}
  BY <1>1, <1>2 DEF Pushing
<1>4. obj[l].id \in Hashes
  BY <1>1, AddressBookAssumption DEF Pushing, Inv, ListenerOK, ObjectType
<1>5. obj[l].id \in Coming /\ obj[l].id \notin Queued
  BY <1>1 DEF Coming, Mail
<1>6. \A k \in Pushing \ {l} : obj[k].id # obj[l].id
  BY <1>1 DEF Mail
<1>7. Coming' = Coming \ {obj[l].id}
  <2>1. Coming' = {obj[k].id : k \in Pushing \ {l}}
    BY <1>2, <1>3 DEF Coming, Pushing
  <2>2. QED BY <1>1, <1>6, <2>1 DEF Coming
<1>8. /\ new_messages' \in Seq(Hashes) /\ Distinct(new_messages')
      /\ Queued' = Queued \cup {obj[l].id}
  <2>1. new_messages \in Seq(Hashes) /\ Distinct(new_messages)
    BY <1>1 DEF Mail, Distinct
  <2>2. Queued = ItemsOf(new_messages) /\ Queued' = ItemsOf(new_messages')
    BY DEF Queued, ItemsOf
  <2>3. QED BY <1>1, <1>4, <1>5, <2>1, <2>2, PushedItems
<1>9. \A j, k \in Pushing' : obj'[j].id = obj'[k].id => j = k
  BY <1>1, <1>2, <1>3 DEF Mail, Pushing
<1>10. QED BY <1>1, <1>5, <1>7, <1>8, <1>9 DEF Mail, Distinct

\* "check message" takes one message from the queue to the user.
LEMMA CheckMessageKeepsMail ==
  ASSUME Inv, CheckMessage
  PROVE  Mail'
<1>1. /\ new_messages # <<>> /\ new_messages' = Tail(new_messages)
      /\ shown' = shown \cup {Head(new_messages)}
      /\ UNCHANGED <<messages, pc, obj>> /\ Mail
  BY DEF CheckMessage, Inv
<1>2. /\ new_messages' \in Seq(Hashes) /\ Distinct(new_messages')
      /\ Head(new_messages) \notin Queued' /\ Queued = Queued' \cup {Head(new_messages)}
  <2>1. new_messages \in Seq(Hashes) /\ Distinct(new_messages)
    BY <1>1 DEF Mail, Distinct
  <2>2. Queued = ItemsOf(new_messages) /\ Queued' = ItemsOf(new_messages')
    BY DEF Queued, ItemsOf
  <2>3. QED BY <1>1, <2>1, <2>2, PoppedItems
<1>3. Pushing' = Pushing /\ Coming' = Coming
  BY <1>1 DEF Pushing, Coming
<1>4. QED BY <1>1, <1>2, <1>3 DEF Mail, Distinct

LEMMA MailStep ==
  ASSUME Inv, Next
  PROVE  Mail'
<1>0. Mail
  BY DEF Inv
<1>1. CASE Command \/ GetPubKey \/ SendMessage
  <2>1. CASE CheckMessage
    BY <2>1, CheckMessageKeepsMail
  <2>2. CASE ~CheckMessage
    <3>1. UNCHANGED <<messages, new_messages, shown>>
      BY <1>1, <2>2 DEF Command, AskCommand, Subscribe, SendCommand, GetPubKey, Look, Scan,
         AddFound, AddWaiting, Ask, SendMessage, FindTarget, WaitPubKey, CopyTarget, Encrypt, inbox
    <3>2. QED BY <1>0, <1>1, <3>1, MainSteps, MailStays
  <2>3. QED BY <2>1, <2>2
<1>2. ASSUME NEW l \in Listeners, Listener(l) \/ \E o \in Objects : Receive(l, o),
             ~InsertMessage(l), ~PushMessage(l)
      PROVE  Mail'
  <2>1. UNCHANGED <<messages, new_messages, shown>>
    BY <1>2 DEF Listener, LockPub, NextAddress, Decode, BuildQuery, ExecQuery, UnlockPub,
       Decrypt, AddSender, Receive, inbox
  <2>2. pc[l] # "push" /\ pc'[l] # "push"
    <3>1. pc[l] # "push" /\ \A where \in ListenerPlaces : Goto(l, where) => pc'[l] = where
      BY <1>2, Locals DEF Listener, LockPub, NextAddress, Decode, BuildQuery, ExecQuery,
         UnlockPub, Decrypt, AddSender, Receive, Goto
    <3>2. pc' = pc \/ \E where \in ListenerPlaces \ {"push"} : Goto(l, where)
      BY <1>2 DEF ListenerPlaces, Walking, Answering, Listener, LockPub, NextAddress, Decode,
         BuildQuery, ExecQuery, UnlockPub, Decrypt, AddSender, Receive, Finish
    <3>3. QED BY <3>1, <3>2
  <2>3. \A k \in Listeners \ {l} : UNCHANGED <<pc[k], obj[k]>>
    BY <1>2, ListenerSteps
  <2>4. QED BY <1>0, <2>1, <2>2, <2>3, MailStays
<1>3. QED BY <1>1, <1>2, InsertMessageKeepsMail, PushMessageKeepsMail DEF Next

-----------------------------------------------------------------------------
(* Acknowledgements, and the queries of store(). *)

\* Only the message of a Listener that has its acknowledgement queued becomes known.
LEMMA AckStep ==
  ASSUME Inv, Next
  PROVE  AckBeforeDelivery'
<1>1. CASE Command \/ GetPubKey \/ SendMessage
  BY <1>1, MainSteps DEF Inv, AckBeforeDelivery
<1>2. ASSUME NEW l \in Listeners, Listener(l) \/ \E o \in Objects : Receive(l, o)
      PROVE  AckBeforeDelivery'
  <2>1. acked \subseteq acked'
    BY <1>2, ListenerSteps
  <2>2. CASE messages' = messages
    BY <2>1, <2>2 DEF Inv, AckBeforeDelivery
  <2>3. CASE InsertMessage(l)
    <3>1. /\ messages' = messages \cup {obj[l].id} /\ pc[l] = "deliver"
      BY <2>3 DEF InsertMessage
    <3>2. obj[l] \in Objects /\ (obj[l].type = "msg" => obj[l].id \in acked)
      BY <3>1 DEF Inv, ListenerOK, Answering
    <3>3. ASSUME NEW o \in Objects, o.type = "msg", o.id = obj[l].id PROVE o.id \in acked
      BY <3>2, <3>3, AddressBookAssumption
    <3>4. QED BY <2>1, <3>1, <3>3 DEF Inv, AckBeforeDelivery
  <2>4. messages' = messages \/ InsertMessage(l)
    BY <1>2 DEF Listener, LockPub, NextAddress, Decode, BuildQuery, ExecQuery, UnlockPub,
       Decrypt, AddSender, PushMessage, Receive, inbox
  <2>5. QED BY <2>2, <2>3, <2>4
<1>3. QED BY <1>1, <1>2 DEF Next

\* The keys a query is built from are never missing.
LEMMA BuildsAQuery ==
  ASSUME Inv, NEW l \in Listeners, BuildQuery(l)
  PROVE  query' \in Rows
<1> DEFINE key == PubAddresses[at[l]].key
<1>1. /\ pc[l] = "build" /\ at[l] \in DOMAIN PubAddresses /\ ~Waiting(PubAddresses[at[l]])
      /\ query' \in [of : {key} \cup (IF Mixed(l) THEN {Garbage} ELSE {}), keys : {key, Garbage}]
  BY DEF BuildQuery, Inv, ListenerOK
<1>2. key \in Ripes
  <2>1. PubAddresses[at[l]].address \in Addresses
    <3>1. PubAddresses[at[l]] \in Entries
      BY <1>1 DEF Inv, Pool
    <3>2. QED BY <3>1 DEF Entries
  <2>2. key \in KeysSent(Stored(sharedObj), PubAddresses[at[l]].address)
    BY <1>1 DEF Inv, Pool, Waiting, SentFor
  <2>3. Stored(sharedObj) \subseteq Objects
    BY StoredType DEF Inv, TypeOK
  <2>4. QED BY <2>1, <2>2, <2>3, KeysSentType
<1> HIDE DEF key
<1>3. QED BY <1>1, <1>2 DEF Rows

LEMMA QueryStep ==
  ASSUME Inv, Next
  PROVE  QueryBuilt'
<1>1. CASE Command \/ GetPubKey \/ SendMessage
  BY <1>1, MainSteps DEF Inv, QueryBuilt, storage
<1>2. ASSUME NEW l \in Listeners, Listener(l) \/ \E o \in Objects : Receive(l, o)
      PROVE  QueryBuilt'
  <2>1. BuildQuery(l) \/ query' = query
    BY <1>2 DEF Listener, LockPub, NextAddress, Decode, ExecQuery, UnlockPub, Decrypt, AddSender,
       InsertMessage, PushMessage, Receive, storage
  <2>2. BuildQuery(l) \/ pc'[l] # "exec" \/ UNCHANGED pc
    <3>1. \/ BuildQuery(l) \/ UNCHANGED pc
          \/ \E where \in ListenerPlaces \ {"exec"} : Goto(l, where)
      BY <1>2 DEF ListenerPlaces, Walking, Answering, Listener, LockPub, NextAddress, Decode,
         ExecQuery, UnlockPub, Decrypt, AddSender, InsertMessage, PushMessage, Receive, Finish
    <3>2. QED BY <3>1, Locals DEF Goto
  <2>3. \A k \in Listeners \ {l} : UNCHANGED pc[k]
    BY <1>2, ListenerSteps
  <2>4. QED BY <2>1, <2>2, <2>3, BuildsAQuery DEF Inv, QueryBuilt
<1>3. QED BY <1>1, <1>2 DEF Next

-----------------------------------------------------------------------------
(* Types. *)

\* The variables of main() and of its commands.
LEMMA MainTypes ==
  ASSUME Inv, Next, Command \/ GetPubKey \/ SendMessage
  PROVE  /\ sharedObj' = sharedObj /\ received' = received /\ commands' \in 0 .. MaxCommands
         /\ Subscriptions' \subseteq Addresses /\ asked' \subseteq Tags
         /\ sending' \in BOOLEAN /\ to' \in Entries \cup {Nil} /\ bucket' \in Buckets
         /\ target' \in [index : Nat, moved : Nat] \cup {Nil}
<1> USE Locals DEF Goto
<1>0. /\ sharedObj \in Tables(Objects) /\ commands \in 0 .. MaxCommands /\ MaxCommands \in Nat
      /\ Subscriptions \subseteq Addresses /\ asked \subseteq Tags /\ sending \in BOOLEAN
      /\ to \in Entries \cup {Nil} /\ bucket \in Buckets /\ 0 \in Buckets
      /\ target \in [index : Nat, moved : Nat] \cup {Nil}
      /\ Typed \subseteq Addresses /\ MainOK'
  BY AddressBookAssumption, MainStep DEF Inv, TypeOK
<1>1. sharedObj' = sharedObj /\ received' = received
  BY DEF Command, AskCommand, Subscribe, SendCommand, CheckMessage, GetPubKey, Look, Scan,
     AddFound, AddWaiting, Ask, SendMessage, FindTarget, WaitPubKey, CopyTarget, Encrypt,
     Input, bounds
<1>2. commands' \in 0 .. MaxCommands
  <2>1. commands' = commands \/ (commands < MaxCommands /\ commands' = commands + 1)
    BY DEF Command, AskCommand, Subscribe, SendCommand, CheckMessage, GetPubKey, Look, Scan,
       AddFound, AddWaiting, Ask, SendMessage, FindTarget, WaitPubKey, CopyTarget, Encrypt,
       Input, bounds
  <2>2. QED BY <1>0, <2>1
<1>3. Subscriptions' \subseteq Addresses
  <2>1. \/ Subscriptions' = Subscriptions
        \/ \E a \in Typed : Subscriptions' = Subscriptions \cup {a}
    BY DEF Command, AskCommand, Subscribe, SendCommand, CheckMessage, GetPubKey, Look, Scan,
       AddFound, AddWaiting, Ask, SendMessage, FindTarget, WaitPubKey, CopyTarget, Encrypt, inbox
  <2>2. QED BY <1>0, <2>1
<1>4. asked' \subseteq Tags
  <2>1. asked' = asked \/ (pc[Main] = "ask" /\ asked' = asked \cup {tag[to.address]})
    BY DEF Command, AskCommand, Subscribe, SendCommand, CheckMessage, GetPubKey, Look, Scan,
       AddFound, AddWaiting, Ask, SendMessage, FindTarget, WaitPubKey, CopyTarget, Encrypt,
       mainvars
  <2>2. pc[Main] = "ask" => tag[to.address] \in Tags
    BY DEF Inv, MainOK, Entries, Tags
  <2>3. QED BY <1>0, <2>1, <2>2
<1>5. sending' \in BOOLEAN
  BY <1>0 DEF Command, AskCommand, Subscribe, SendCommand, CheckMessage, GetPubKey, Look, Scan,
     AddFound, AddWaiting, Ask, SendMessage, FindTarget, WaitPubKey, CopyTarget, Encrypt,
     Return, mainvars
<1>6. to' \in Entries \cup {Nil}
  <2>1. to' \in {to, Nil} \/ pc'[Main] # "idle"
    BY DEF Command, AskCommand, Subscribe, SendCommand, CheckMessage, GetPubKey, Look, Scan,
       AddFound, AddWaiting, Ask, SendMessage, FindTarget, WaitPubKey, CopyTarget, Encrypt,
       Return, mainvars
  <2>2. QED BY <1>0, <2>1 DEF MainOK
<1>7. bucket' \in Buckets
  BY <1>0 DEF Command, AskCommand, Subscribe, SendCommand, CheckMessage, GetPubKey, Look, Scan,
     AddFound, AddWaiting, Ask, SendMessage, FindTarget, WaitPubKey, CopyTarget, Encrypt, mainvars
<1>8. target' \in [index : Nat, moved : Nat] \cup {Nil}
  <2>1. target' \in {target, Nil} \/ pc'[Main] = "wait"
    BY DEF Command, AskCommand, Subscribe, SendCommand, CheckMessage, GetPubKey, Look, Scan,
       AddFound, AddWaiting, Ask, SendMessage, FindTarget, WaitPubKey, CopyTarget, Encrypt,
       mainvars
  <2>2. QED BY <1>0, <2>1 DEF MainOK, TargetOK
<1>9. QED BY <1>1, <1>2, <1>3, <1>4, <1>5, <1>6, <1>7, <1>8

\* The variables of the Listeners.
LEMMA ListenerTypes ==
  ASSUME Inv, NEW l \in Listeners, Listener(l) \/ \E o \in Objects : Receive(l, o)
  PROVE  /\ mutex_pub' \subseteq Listeners
         /\ sharedObj' \in Tables(Objects) /\ received' \in 0 .. MaxObjects
         /\ query' \in Rows \cup {Nil} /\ db' \subseteq Rows
<1>0. /\ mutex_pub \subseteq Listeners
      /\ sharedObj \in Tables(Objects) /\ received \in 0 .. MaxObjects /\ MaxObjects \in Nat
      /\ query \in Rows \cup {Nil} /\ db \subseteq Rows
  BY AddressBookAssumption DEF Inv, TypeOK
<1>1. mutex_pub' \subseteq Listeners
  BY <1>0 DEF Listener, LockPub, NextAddress, Decode, BuildQuery, ExecQuery, UnlockPub, Decrypt,
     AddSender, InsertMessage, PushMessage, Receive
<1>2. sharedObj' \in Tables(Objects)
  <2>1. ASSUME NEW o \in Objects, Receive(l, o) PROVE sharedObj' \in Tables(Objects)
    <3>1. o.id \in Hashes
      BY AddressBookAssumption DEF ObjectType
    <3>2. Insert(sharedObj, o, o.id) \in Tables(Objects)
      BY <1>0, <3>1, InsertType
    <3>3. QED BY <2>1, <3>2 DEF Receive
  <2>2. Listener(l) => UNCHANGED sharedObj
    BY DEF Listener, LockPub, NextAddress, Decode, BuildQuery, ExecQuery, UnlockPub, Decrypt,
       AddSender, InsertMessage, PushMessage
  <2>3. QED BY <1>0, <2>1, <2>2
<1>3. received' \in 0 .. MaxObjects
  <2>1. received' = received \/ (received < MaxObjects /\ received' = received + 1)
    BY DEF Listener, LockPub, NextAddress, Decode, BuildQuery, ExecQuery, UnlockPub, Decrypt,
       AddSender, InsertMessage, PushMessage, Receive, bounds
  <2>2. QED BY <1>0, <2>1
<1>4. query' \in Rows \cup {Nil}
  <2>1. query' = query \/ BuildQuery(l)
    BY DEF Listener, LockPub, NextAddress, Decode, ExecQuery, UnlockPub, Decrypt,
       AddSender, InsertMessage, PushMessage, Receive, storage
  <2>2. QED BY <1>0, <2>1, BuildsAQuery
<1>5. db' \subseteq Rows
  <2>1. db' = db \/ (pc[l] = "exec" /\ db' = db \cup {query})
    BY DEF Listener, LockPub, NextAddress, Decode, BuildQuery, ExecQuery, UnlockPub, Decrypt,
       AddSender, InsertMessage, PushMessage, Receive, storage
  <2>2. pc[l] = "exec" => query \in Rows
    BY DEF Inv, QueryBuilt
  <2>3. QED BY <1>0, <2>1, <2>2
<1>6. QED BY <1>1, <1>2, <1>3, <1>4, <1>5

-----------------------------------------------------------------------------
(* The invariant, and what follows from it. *)

\* A sequence of some entries is a sequence of entries.
LEMMA SeqOfSubset ==
  ASSUME NEW S, NEW T, S \subseteq T, NEW s \in Seq(S) PROVE s \in Seq(T)
  OBVIOUS

LEMMA InvInit == Init => Inv
<1> SUFFICES ASSUME Init PROVE Inv
  OBVIOUS
<1>1. Pool
  <2>1. PubAddresses \in Seq([address : Addresses, key : Ripes \cup {NoKey}])
    BY AddressBookAssumption DEF Init
  <2>2. [address : Addresses, key : Ripes \cup {NoKey}] \subseteq Entries
    BY DEF Entries, Keys
  <2>3. PubAddresses \in Seq(Entries)
    BY <2>1, <2>2, SeqOfSubset
  <2>4. ASSUME NEW i \in DOMAIN Loaded
        PROVE  SentFor(Loaded[i].key, Stored(sharedObj), Loaded[i].address)
    BY DEF SentFor, KeysSent, Waiting
  <2>5. QED BY <2>3, <2>4, AddressBookAssumption DEF Init, Pool, NoDuplicates
<1>2. TypeOK /\ pc \in [Threads -> Places]
  <2>1. EmptyTable \in Tables(Objects)
    BY EmptyTableType
  <2>2. pc \in [Threads -> Places]
    BY DEF Init, Places, ListenerPlaces
  <2>3. /\ PubAddresses \in Seq(Entries) /\ capacity \in Nat /\ moved \in Nat
        /\ Len(PubAddresses) <= capacity
    BY <1>1, AddressBookAssumption DEF Init, Pool
  <2>4. received \in 0 .. MaxObjects /\ commands \in 0 .. MaxCommands /\ bucket \in Buckets
    BY AddressBookAssumption DEF Init
  <2>5. obj \in [Listeners -> Objects \cup {Nil}] /\ at \in [Listeners -> Nat]
    BY DEF Init
  <2>6. QED BY <2>1, <2>2, <2>3, <2>4, <2>5 DEF Init, TypeOK
<1>3. \A l \in Listeners : ListenerOK(l)
  BY DEF Init, Threads, ListenerOK, ListenerPlaces, Walking, Answering
<1>4. MainOK
  BY DEF Init, Threads, MainOK, MainPlaces
<1>5. Pushing = {}
  BY DEF Init, Threads, Pushing
<1>6. Mail /\ AckBeforeDelivery
  BY <1>5 DEF Init, Mail, Queued, Coming, AckBeforeDelivery
<1>7. QueryBuilt
  BY DEF Init, Threads, QueryBuilt
<1>8. QED BY <1>1, <1>2, <1>3, <1>4, <1>6, <1>7 DEF Inv

LEMMA TypeStep ==
  ASSUME Inv, Next
  PROVE  TypeOK' /\ pc' \in [Threads -> Places]
<1>1. /\ PubAddresses' \in Seq(Entries) /\ capacity' \in Nat /\ moved' \in Nat
      /\ Len(PubAddresses') <= capacity'
  BY PoolStep DEF Pool
<1>2. CASE Command \/ GetPubKey \/ SendMessage
  <2>1. UNCHANGED <<obj, at, mutex_pub, query, db>> /\ pc' \in [Threads -> Places]
    BY <1>2, MainSteps DEF storage
  <2>2. QED BY <1>1, <1>2, <2>1, MainTypes DEF Inv, TypeOK
<1>3. ASSUME NEW l \in Listeners, Listener(l) \/ \E o \in Objects : Receive(l, o)
      PROVE  TypeOK' /\ pc' \in [Threads -> Places]
  <2>1. /\ UNCHANGED <<mainvars, Subscriptions, commands>> /\ pc' \in [Threads -> Places]
        /\ obj' \in [Listeners -> Objects \cup {Nil}] /\ at' \in [Listeners -> Nat]
    BY <1>3, ListenerSteps
  <2>2. QED BY <1>1, <1>3, <2>1, ListenerTypes DEF Inv, TypeOK, mainvars
<1>4. QED BY <1>2, <1>3 DEF Next

LEMMA InvStep == Inv /\ [Next]_vars => Inv'
<1> SUFFICES ASSUME Inv, [Next]_vars PROVE Inv'
  OBVIOUS
<1>1. CASE Next
  BY <1>1, TypeStep, PoolStep, ListenersStep, MainStep, MailStep, AckStep, QueryStep
     DEF Inv
<1>2. CASE UNCHANGED vars
  <2> USE <1>2 DEF vars, book, inbox, storage, mainvars, bounds, Inv
  <2>1. TypeOK' /\ pc' \in [Threads -> Places]
    BY DEF TypeOK
  <2>2. Pool'
    BY DEF Pool, NoDuplicates
  <2>3. \A l \in Listeners : ListenerOK(l)'
    BY DEF ListenerOK, Hit
  <2>4. MainOK'
    BY DEF MainOK, TargetOK, Promise, Index, Stale
  <2>5. Mail'
    BY MailStays
  <2>6. QueryBuilt' /\ AckBeforeDelivery'
    BY DEF QueryBuilt, AckBeforeDelivery
  <2>7. QED BY <2>1, <2>2, <2>3, <2>4, <2>5, <2>6
<1>3. QED BY <1>1, <1>2

\* The invariant holds throughout: what the next theorems rest on.
THEOREM InvHolds == Spec => []Inv
  BY InvInit, InvStep, PTL DEF Spec

\* Every variable of the address book keeps its type, for any Listeners, objects
\* and capacity of the vector: no index leaves the vector, no key is lost.
THEOREM AddressBookType == Spec => []TypeOK
<1>1. Inv => TypeOK
  BY DEF Inv
<1>2. QED BY <1>1, InvHolds, PTL

\* addAddr never puts one address twice into PubAddresses, in whatever thread.
THEOREM AddressesAreUnique == Spec => []NoDuplicates
<1>1. Inv => NoDuplicates
  BY DEF Inv, Pool
<1>2. QED BY <1>1, InvHolds, PTL

\* sendMessage waits only for keys that were asked for or that another spelling has.
THEOREM WaitsAreAsked == Spec => []WaitIsAsked
<1>1. Inv => WaitIsAsked
  BY DEF Inv, MainOK, WaitIsAsked, Promise
<1>2. QED BY <1>1, InvHolds, PTL

\* sendMessage encrypts with keys that came for the address it sends to, its own or
\* those of a pubkey with its tag, never with none and never with another entry's,
\* whatever Listeners do to the vector, unless the vector moved under its pointer.
THEOREM RightKey == Spec => []EncryptsWithKeysSent
<1>1. Inv => EncryptsWithKeysSent
  <2> SUFFICES ASSUME Inv, pc[Main] = "encrypt",
                      to.key \notin KeysSent(Stored(sharedObj), to.address)
               PROVE  target # Nil /\ Stale
    BY DEF EncryptsWithKeysSent
  <2>1. target \in [index : Nat, moved : Nat] /\ target.moved < moved /\ moved \in Nat
    BY DEF Inv, MainOK, TypeOK
  <2>2. QED BY <2>1, AddressBookAssumption DEF Stale
<1>2. QED BY <1>1, InvHolds, PTL

\* A sequence without repetitions has as many members as its length says.
LEMMA DistinctCount ==
  ASSUME NEW S, NEW s \in Seq(S), Distinct(s)
  PROVE  Cardinality(ItemsOf(s)) = Len(s)
<1>1. Len(s) \in Nat /\ DOMAIN s = 1 .. Len(s)
  OBVIOUS
<1>2. [i \in 1 .. Len(s) |-> s[i]] \in Bijection(1 .. Len(s), ItemsOf(s))
  BY <1>1 DEF Bijection, Injection, Surjection, IsInjective, Distinct, ItemsOf
<1>3. ExistsBijection(1 .. Len(s), ItemsOf(s))
  BY <1>2 DEF ExistsBijection
<1>4. QED BY <1>1, <1>3, FS_CountingElements

\* A message that several Listeners decrypt is queued, shown or on its way to the
\* queue once.
THEOREM MessagesDeliveredOnce == Spec => []DeliveredOnce
<1>1. Inv => DeliveredOnce
  <2> SUFFICES ASSUME Inv PROVE DeliveredOnce
    OBVIOUS
  <2>1. Mail
    BY DEF Inv
  <2>2. Cardinality(Queued) = Len(new_messages)
    <3>1. new_messages \in Seq(Hashes) /\ Distinct(new_messages) /\ Queued = ItemsOf(new_messages)
      BY <2>1 DEF Mail, Distinct, Queued, ItemsOf
    <3>2. QED BY <3>1, DistinctCount
  <2>3. Cardinality(Coming) = Cardinality(Pushing)
    <3>1. IsFiniteSet(Pushing)
      BY AddressBookAssumption, FS_Subset DEF Pushing
    <3>2. [l \in Pushing |-> obj[l].id] \in Bijection(Pushing, Coming)
      BY <2>1 DEF Mail, Coming, Bijection, Injection, Surjection, IsInjective
    <3>3. ExistsBijection(Pushing, Coming)
      BY <3>2 DEF ExistsBijection
    <3>4. QED BY <3>1, <3>3, FS_Bijection
  <2>4. QED BY <2>1, <2>2, <2>3 DEF Mail, DeliveredOnce, Queued, Coming
<1>2. QED BY <1>1, InvHolds, PTL

\* A message is known, and so can be shown, only when its acknowledgement is queued.
THEOREM AcknowledgedFirst == Spec => []AckBeforeDelivery
<1>1. Inv => AckBeforeDelivery
  BY DEF Inv
<1>2. QED BY <1>1, InvHolds, PTL

-----------------------------------------------------------------------------
(* Action properties, and module KeyBook. *)

\* While a Listener walks over the vector no element is added to it: the loop of
\* processObj keeps mutex_pub from its first element to its last.
THEOREM WalkedPoolIsStill == Spec => HeldPoolIsStill
<1>1. ASSUME Inv, [Next]_vars
      PROVE  mutex_pub # {} => Len(PubAddresses') = Len(PubAddresses)
  <2>1. CASE Next
    <3>1. /\ PubAddresses \in Seq(Entries) /\ PubAddresses' \in Seq(Entries)
          /\ mutex_pub # {} => DOMAIN PubAddresses' = DOMAIN PubAddresses
      BY <1>1, <2>1, PoolStep DEF Inv, Pool
    <3>2. QED BY <3>1, LenProperties
  <2>2. CASE UNCHANGED vars
    BY <2>2 DEF vars, book
  <2>3. QED BY <1>1, <2>1, <2>2
<1>2. QED BY <1>1, InvHolds, PTL DEF Spec, HeldPoolIsStill

\* When processObj gives mutex_pub back after a pubkey that can be decoded, no
\* spelling of its address is left waiting, whatever other Listeners did meanwhile.
THEOREM PubKeysReachAll == Spec => PubKeyReachesAll
<1>1. ASSUME Inv, [Next]_vars, NEW l \in Listeners, Informs(l), NEW i \in DOMAIN PubAddresses,
             Hit(l, i)
      PROVE  ~Waiting(PubAddresses[i])
  <2>1. pc[l] = "loop" /\ at[l] \notin DOMAIN PubAddresses /\ obj[l].fine
    BY <1>1 DEF Informs, UnlockPub
  <2>2. at[l] \in Nat /\ at[l] > 0 /\ PubAddresses \in Seq(Entries)
    BY <1>1, <2>1, Locals DEF Inv, ListenerOK, Walking, Pool
  <2>3. i < at[l]
    BY <2>1, <2>2
  <2>4. QED BY <1>1, <2>1, <2>3 DEF Inv, ListenerOK, Walking
<1>2. ASSUME Inv, [Next]_vars
      PROVE  \A l \in Listeners : Informs(l) =>
               \A i \in DOMAIN PubAddresses :
                 tag[PubAddresses[i].address] = tag[obj[l].who] => ~Waiting(PubAddresses[i])
  BY <1>1, <1>2 DEF Hit
<1>3. QED BY <1>2, InvHolds, PTL DEF Spec, PubKeyReachesAll

\* The state of an address whose entry is known.
LEMMA StateOfEntry ==
  ASSUME NoDuplicates, NEW i \in DOMAIN PubAddresses
  PROVE  StateOf(PubAddresses[i].address) = IF Waiting(PubAddresses[i]) THEN "wanted" ELSE "ready"
<1>1. Index(PubAddresses[i].address) = {i}
  BY DEF NoDuplicates, Index
<1>2. QED BY <1>1 DEF StateOf

\* The state of an address in the next state is the same unless its entry changes.
LEMMA StatesStay ==
  ASSUME NoDuplicates, NoDuplicates', Grown, NEW a,
         \A i \in DOMAIN PubAddresses :
           PubAddresses[i].address = a => PubAddresses'[i] = PubAddresses[i],
         \A i \in DOMAIN PubAddresses' \ DOMAIN PubAddresses : PubAddresses'[i].address # a
  PROVE  StateOf(a)' = StateOf(a)
<1>1. \A i \in DOMAIN PubAddresses :
        i \in DOMAIN PubAddresses' /\ PubAddresses'[i].address = PubAddresses[i].address
  BY DEF Grown
<1>2. Index(a)' = Index(a)
  BY <1>1 DEF Index
<1>3. \A i \in Index(a) : PubAddresses'[i] = PubAddresses[i]
  BY DEF Index
<1>4. QED BY <1>2, <1>3 DEF StateOf

\* Every step that changes one entry, or adds one, is a step of KeyBook.
LEMMA OneEntry ==
  ASSUME Inv, Pool', Grown, NEW a \in Addresses,
         \A i \in DOMAIN PubAddresses :
           PubAddresses[i].address # a => PubAddresses'[i] = PubAddresses[i],
         \A i \in DOMAIN PubAddresses' \ DOMAIN PubAddresses : PubAddresses'[i].address = a
  PROVE  Promised!Next \/ UNCHANGED [b \in Addresses |-> StateOf(b)]
<1> DEFINE old == [b \in Addresses |-> StateOf(b)]
           new == [b \in Addresses |-> StateOf(b)']
<1>1. NoDuplicates /\ NoDuplicates'
  BY DEF Inv, Pool
<1>2. \A b \in Addresses \ {a} : StateOf(b)' = StateOf(b)
  BY <1>1, StatesStay
<1>3. new = [old EXCEPT ![a] = StateOf(a)']
  BY <1>2
<1>4. StateOf(a)' \in {"absent", "wanted", "ready"}
  BY DEF StateOf
<1>5. CASE StateOf(a) = "absent"
  <2>1. old[a] = "absent"
    BY <1>5
  <2>2. CASE StateOf(a)' = "absent"
    BY <1>3, <2>1, <2>2
  <2>3. CASE StateOf(a)' # "absent"
    <3>1. Promised!Enter(a, StateOf(a)')
      BY <1>3, <2>1, <2>3 DEF Promised!Enter
    <3>2. QED BY <1>4, <3>1 DEF Promised!Next, Promised!States
  <2>4. QED BY <2>2, <2>3
<1>6. CASE StateOf(a) # "absent"
  <2>1. PICK i \in DOMAIN PubAddresses : PubAddresses[i].address = a
    BY <1>6 DEF StateOf, Index
  <2>2. /\ i \in DOMAIN PubAddresses' /\ PubAddresses'[i].address = a
        /\ ~Waiting(PubAddresses[i]) => ~Waiting(PubAddresses'[i])
    BY <2>1 DEF Grown
  <2>3. StateOf(a) = IF Waiting(PubAddresses[i]) THEN "wanted" ELSE "ready"
    BY <1>1, <2>1, StateOfEntry
  <2>4. StateOf(a)' = IF Waiting(PubAddresses'[i]) THEN "wanted" ELSE "ready"
    <3>1. Index(a)' = {i}
      BY <1>1, <2>2 DEF NoDuplicates, Index
    <3>2. QED BY <3>1 DEF StateOf
  <2>5. CASE StateOf(a)' = StateOf(a)
    BY <1>3, <2>5
  <2>6. CASE StateOf(a)' # StateOf(a)
    <3>1. old[a] = "wanted" /\ StateOf(a)' = "ready"
      BY <2>2, <2>3, <2>4, <2>6
    <3>2. Promised!Learn(a)
      BY <1>3, <3>1 DEF Promised!Learn
    <3>3. QED BY <3>2 DEF Promised!Next
  <2>7. QED BY <2>5, <2>6
<1>7. QED BY <1>5, <1>6

\* addAddr is at most one step of KeyBook, for the address it is given.
LEMMA AddAddrIsOneEntry ==
  ASSUME Inv, Next, NEW entry \in Entries, AddAddr(entry)
  PROVE  Promised!Next \/ UNCHANGED [b \in Addresses |-> StateOf(b)]
<1> DEFINE new == WithEntry(PubAddresses, entry)
<1>1. PubAddresses' = new /\ PubAddresses \in Seq(Entries)
  BY DEF AddAddr, Inv, Pool
<1>2. /\ \A i \in DOMAIN PubAddresses :
           \/ i \in DOMAIN new /\ new[i] = PubAddresses[i]
           \/ /\ i \in DOMAIN new /\ new[i] = entry
              /\ PubAddresses[i].address = entry.address /\ Waiting(PubAddresses[i])
      /\ \/ DOMAIN new = DOMAIN PubAddresses /\ Len(new) = Len(PubAddresses)
         \/ /\ DOMAIN new = DOMAIN PubAddresses \cup {Len(PubAddresses) + 1}
            /\ Len(new) = Len(PubAddresses) + 1
            /\ new = Append(PubAddresses, entry)
            /\ \A i \in DOMAIN PubAddresses : PubAddresses[i].address # entry.address
  <2>1. EntryAdded(PubAddresses, entry, new)
    BY <1>1, WithEntryCases, ZenonT(40)
  <2> HIDE DEF new
  <2> QED BY <2>1, ZenonT(40) DEF EntryAdded
<1> HIDE DEF new
<1>3. \A i \in DOMAIN new \ DOMAIN PubAddresses : new[i].address = entry.address
  <2>1. Append(PubAddresses, entry)[Len(PubAddresses) + 1] = entry
    BY <1>1
  <2>2. QED BY <1>2, <2>1
<1>4. Pool' /\ Grown /\ entry.address \in Addresses
  BY PoolStep DEF Entries
<1>5. QED BY <1>1, <1>2, <1>3, <1>4, OneEntry

\* decodeFromObj is a step of KeyBook for the address of one entry, or none.
LEMMA DecodeIsOneEntry ==
  ASSUME Inv, Next, NEW l \in Listeners, Decode(l)
  PROVE  Promised!Next \/ UNCHANGED [b \in Addresses |-> StateOf(b)]
<1> DEFINE a == PubAddresses[at[l]].address
<1>1. /\ PubAddresses \in Seq(Entries) /\ NoDuplicates /\ at[l] \in DOMAIN PubAddresses
  BY DEF Inv, Pool, ListenerOK, Decode
<1>2. \/ PubAddresses' = PubAddresses
      \/ PubAddresses' = [PubAddresses EXCEPT ![at[l]].key = ripe[obj[l].from]]
  BY DEF Decode
<1>3. /\ DOMAIN PubAddresses' = DOMAIN PubAddresses
      /\ \A i \in DOMAIN PubAddresses : i # at[l] => PubAddresses'[i] = PubAddresses[i]
  BY <1>1, <1>2
<1>4. \A i \in DOMAIN PubAddresses :
        PubAddresses[i].address # a => PubAddresses'[i] = PubAddresses[i]
  BY <1>1, <1>3
<1>5. a \in Addresses
  <2>1. PubAddresses[at[l]] \in Entries
    BY <1>1
  <2>2. QED BY <2>1 DEF Entries
<1>6. Pool' /\ Grown
  BY PoolStep
<1> HIDE DEF a
<1>7. QED BY <1>3, <1>4, <1>5, <1>6, OneEntry

\* The address book keeps module KeyBook's promise: an address gets in once, from
\* then on it is known, and an address that has its keys keeps them.
THEOREM BookKeepsPromise == Spec => ImplementsKeyBook
<1>1. Init => Promised!Init
  BY DEF Promised!Init, Promised!States, StateOf
<1>2. ASSUME Inv, [Next]_vars
      PROVE  [Promised!Next]_([a \in Addresses |-> StateOf(a)])
  <2>1. CASE UNCHANGED PubAddresses
    BY <2>1 DEF StateOf, Index
  <2>2. CASE Next
    <3>1. CASE UNCHANGED book
      BY <2>1, <3>1 DEF book
    <3>2. CASE AddFound \/ AddWaiting
      <4>1. to \in Entries /\ AddAddr(to)
        BY <1>2, <3>2 DEF AddFound, AddWaiting, Inv, MainOK
      <4>2. QED BY <1>2, <2>2, <4>1, AddAddrIsOneEntry
    <3>3. ASSUME NEW l \in Listeners, AddSender(l)
          PROVE  Promised!Next \/ UNCHANGED [b \in Addresses |-> StateOf(b)]
      <4> DEFINE entry == [address |-> obj[l].from, key |-> ripe[obj[l].from]]
      <4>1. obj[l].from \in Addresses
        BY <1>2, <3>3, AddressBookAssumption DEF AddSender, Inv, ListenerOK, ObjectType
      <4>2. entry \in Entries /\ AddAddr(entry)
        BY <3>3, <4>1, OwnKeys DEF Entries, AddSender
      <4> HIDE DEF entry
      <4>3. QED BY <1>2, <2>2, <4>2, AddAddrIsOneEntry
    <3>4. ASSUME NEW l \in Listeners, Decode(l)
          PROVE  Promised!Next \/ UNCHANGED [b \in Addresses |-> StateOf(b)]
      BY <1>2, <2>2, <3>4, DecodeIsOneEntry
    <3>5. QED BY <2>2, <3>1, <3>2, <3>3, <3>4, BookCases
  <2>3. CASE UNCHANGED vars
    BY <2>1, <2>3 DEF vars, book
  <2>4. QED BY <1>2, <2>2, <2>3
<1>3. QED BY <1>1, <1>2, InvHolds, PTL DEF Spec, ImplementsKeyBook, Promised!Spec
=============================================================================
