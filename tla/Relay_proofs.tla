---------------------------- MODULE Relay_proofs -----------------------------
(***************************************************************************)
(* Relay, for any objects, connections, hash function and bounds: its      *)
(* type, that the table holds an object once, that whatever is announced   *)
(* can be served, and that an accepted node misses nothing.                *)
(***************************************************************************)
EXTENDS Relay, HashTable_proofs, FiniteSetTheorems

\* The threads that run processObj or propagate, and where they may be.
Workers == Peers \cup {Pow}
Working == {"validate", "insert", "announce", "analyse", "p_validate", "p_insert", "p_announce"}

\* Every tag on its way to the nodes was stored before.
QueuesStored ==
  /\ \A k \in DOMAIN new_inv : new_inv[k] \in StoredTags
  /\ inv \subseteq StoredTags
  /\ \A k \in DOMAIN new_packets : new_packets[k].tags \subseteq StoredTags
  /\ packet.tags \subseteq StoredTags

\* So was every tag that a node was told, or that waits for its Sender or in its
\* handshake.
NodesStored ==
  \A n \in Peers :
    /\ told[n] \subseteq StoredTags
    /\ inventory[n] \subseteq StoredTags
    /\ \A k \in DOMAIN Packets[n] :
         Packets[n][k].command = "inv" => Packets[n][k].tags \subseteq StoredTags

\* A thread that is about to announce an object has stored it.
WorkersStored ==
  \A t \in Workers : pc[t] \in {"announce", "p_announce"} => obj[t] \in Stored(sharedObj)

StoredFirst == QueuesStored /\ NodesStored /\ WorkersStored

\* The table, its nodes in their buckets and each info once.
TableOK == Placed(sharedObj, Tag) /\ Unique(sharedObj)

-----------------------------------------------------------------------------
(* The type *)

\* The parts of TypeOK.
TableType ==
  sharedObj \in Tables(Objects) /\ dropped \in SUBSET Objects /\ inputs \in 0 .. MaxInputs
QueueType ==
  /\ objects \in Seq(Objects)
  /\ new_inv \in Seq(Hashes)
  /\ inv \in SUBSET Hashes
  /\ new_packets \in Seq(PacketType)
  /\ packet \in PacketType \cup {NoPacket}
  /\ Packets \in [Peers -> Seq(PacketType)]
NodeType ==
  /\ Nodes \in SUBSET Peers
  /\ state \in [Peers -> 0 .. 3]
  /\ inventory \in [Peers -> SUBSET Hashes]
  /\ i \in [Peers -> Nat]
  /\ told \in [Peers -> SUBSET Hashes]
Places == {"new", "connect", "closed", "recv", "chunk", "addr", "pop", "push", "drain", "send"}
ThreadType ==
  /\ pc \in [Threads -> Places \cup Working]
  /\ obj \in [Workers -> Objects \cup {NoObject}]
  /\ \A t \in Workers : pc[t] \in Working => obj[t] \in Objects
  /\ pc[Fwd] = "push" => packet # NoPacket

LEMMA TypeParts ==
  /\ TypeOK <=> TableType /\ QueueType /\ NodeType /\ ThreadType
  /\ TypeOK' <=> TableType' /\ QueueType' /\ NodeType' /\ ThreadType'
  BY DEF TypeOK, TableType, QueueType, NodeType, ThreadType, Places, Working, Workers

\* Packets of the client are packets.
LEMMA PktType ==
  /\ \A t \in Hashes : Pkt("getdata", {t}) \in PacketType /\ Pkt("object", {t}) \in PacketType
  /\ Pkt("addr", {}) \in PacketType
  /\ \A tags \in SUBSET Hashes : Pkt("inv", tags) \in PacketType
  BY DEF Pkt, PacketType

LEMMA StoredTagsType ==
  TableType => StoredTags \subseteq Hashes /\ Stored(sharedObj) \subseteq Objects
  BY RelayAssumption, StoredType DEF StoredTags, TableType

LEMMA TypeInit == Init => TypeOK
<1> SUFFICES ASSUME Init PROVE TableType /\ QueueType /\ NodeType /\ ThreadType
  BY TypeParts
<1> USE RelayAssumption DEF Init
<1>1. TableType
  BY EmptyTableType DEF TableType
<1>2. QueueType
  BY DEF QueueType
<1>3. NodeType
  BY DEF NodeType
<1>4. ThreadType
  BY DEF ThreadType, Places, Working, Workers, Threads
<1>5. QED BY <1>1, <1>2, <1>3, <1>4

LEMMA TypeFromPeer ==
  ASSUME TypeOK, NEW n \in Peers, FromPeer(n)
  PROVE  TypeOK'
<1>1. TableType /\ QueueType /\ NodeType /\ ThreadType
  BY TypeParts
<1> USE RelayAssumption DEF Goto, Receive, queues
<1>2. TableType'
  BY <1>1 DEF TableType, FromPeer, ReceiveVerack, ReceiveInv, ReceiveGetData, ReceiveAddr,
              ReceiveObject, Disconnect
<1>3. QueueType'
  <2>1. CASE ReceiveInv(n) \/ ReceiveGetData(n)
    <3>1. PICK p \in PacketType : Packets' = [Packets EXCEPT ![n] = Append(@, p)]
      BY <2>1, PktType DEF ReceiveInv, ReceiveGetData
    <3>2. QED BY <1>1, <2>1, <3>1 DEF QueueType, ReceiveInv, ReceiveGetData
  <2>2. CASE ReceiveAddr(n)
    BY <1>1, <2>2, PktType DEF QueueType, ReceiveAddr
  <2>3. CASE ReceiveVerack(n) \/ ReceiveObject(n) \/ Disconnect(n)
    BY <1>1, <2>3 DEF QueueType, ReceiveVerack, ReceiveObject, Disconnect
  <2>4. QED BY <2>1, <2>2, <2>3 DEF FromPeer
<1>4. NodeType'
  <2>1. CASE ReceiveVerack(n)
    BY <1>1, <2>1, StoredTagsType DEF NodeType, ReceiveVerack
  <2>2. CASE Disconnect(n)
    BY <1>1, <2>2 DEF NodeType, Disconnect
  <2>3. CASE ReceiveInv(n) \/ ReceiveGetData(n) \/ ReceiveAddr(n) \/ ReceiveObject(n)
    BY <1>1, <2>3 DEF NodeType, ReceiveInv, ReceiveGetData, ReceiveAddr, ReceiveObject
  <2>4. QED BY <2>1, <2>2, <2>3 DEF FromPeer
<1>5. ThreadType'
  <2>1. CASE ReceiveObject(n)
    BY <1>1, <2>1, StoredTagsType DEF ThreadType, Places, Working, Workers, Threads, ReceiveObject
  <2>2. CASE ReceiveVerack(n) \/ ReceiveAddr(n) \/ Disconnect(n)
    BY <1>1, <2>2 DEF ThreadType, Places, Working, Workers, Threads, ReceiveVerack,
                      ReceiveAddr, Disconnect
  <2>3. CASE ReceiveInv(n) \/ ReceiveGetData(n)
    BY <1>1, <2>3 DEF ThreadType, ReceiveInv, ReceiveGetData
  <2>4. QED BY <2>1, <2>2, <2>3 DEF FromPeer
<1>6. QED BY <1>2, <1>3, <1>4, <1>5, TypeParts

LEMMA TypeNode ==
  ASSUME TypeOK, NEW n \in Peers,
         Connect(n) \/ SendChunk(n) \/ ConnectNode(n) \/ Sender(n)
  PROVE  TypeOK'
<1>1. TableType /\ QueueType /\ NodeType /\ ThreadType
  BY TypeParts
<1> USE RelayAssumption DEF Goto, queues
<1>2. CASE Connect(n)
  <2>1. TableType' /\ QueueType'
    BY <1>1, <1>2 DEF TableType, QueueType, Connect
  <2>2. ThreadType'
    BY <1>1, <1>2 DEF ThreadType, Places, Working, Workers, Threads, Connect
  <2>3. NodeType'
    BY <1>1, <1>2 DEF NodeType, Connect
  <2>4. QED BY <2>1, <2>2, <2>3, TypeParts
<1>3. CASE SendChunk(n)
  <2>1. TableType' /\ QueueType'
    <3>1. UNCHANGED <<sharedObj, objects, new_inv, new_packets, Packets, inv, packet, dropped,
                      inputs>>
      BY <1>3, Zenon DEF SendChunk
    <3>2. QED BY <1>1, <3>1 DEF TableType, QueueType
  <2>2. ThreadType'
    BY <1>1, <1>3 DEF ThreadType, Places, Working, Workers, Threads, SendChunk
  <2>3. PICK chunk \in SUBSET inventory[n] :
          /\ i' = [i EXCEPT ![n] = IF chunk = inventory[n] THEN 0 ELSE @ + Cardinality(chunk)]
          /\ inventory' = [inventory EXCEPT ![n] = @ \ chunk]
          /\ told' = [told EXCEPT ![n] = @ \cup chunk]
    BY <1>3 DEF SendChunk
  <2>4. chunk \subseteq Hashes /\ Cardinality(chunk) \in Nat
    <3>1. chunk \subseteq Hashes
      BY <1>1 DEF NodeType
    <3>2. QED BY <3>1, FS_Subset, FS_CardinalityType
  <2>5. /\ i' \in [Peers -> Nat]
        /\ inventory' \in [Peers -> SUBSET Hashes]
        /\ told' \in [Peers -> SUBSET Hashes]
    BY <1>1, <2>3, <2>4 DEF NodeType
  <2>6. state' \in [Peers -> 0 .. 3] /\ Nodes' = Nodes
    BY <1>1, <1>3 DEF NodeType, SendChunk
  <2>7. NodeType'
    BY <1>1, <2>5, <2>6 DEF NodeType
  <2>8. QED BY <2>1, <2>2, <2>7, TypeParts
<1>4. CASE ConnectNode(n)
  <2>1. TableType' /\ QueueType'
    BY <1>1, <1>4 DEF TableType, QueueType, ConnectNode
  <2>2. NodeType'
    BY <1>1, <1>4 DEF NodeType, ConnectNode
  <2>3. ThreadType'
    BY <1>1, <1>4 DEF ThreadType, Places, Working, Workers, Threads, ConnectNode
  <2>4. QED BY <2>1, <2>2, <2>3, TypeParts
<1>5. CASE Sender(n)
  <2>1. TableType' /\ ThreadType'
    BY <1>1, <1>5 DEF TableType, ThreadType, Sender
  <2>2. Head(Packets[n]) \in PacketType /\ Packets' \in [Peers -> Seq(PacketType)]
    BY <1>1, <1>5 DEF QueueType, Sender
  <2>3. QueueType'
    BY <1>1, <1>5, <2>2 DEF QueueType, Sender
  <2>4. told' \in [Peers -> SUBSET Hashes]
    BY <1>1, <1>5, <2>2 DEF NodeType, Sender, PacketType
  <2>5. NodeType'
    BY <1>1, <1>5, <2>4 DEF NodeType, Sender
  <2>6. QED BY <2>1, <2>3, <2>5, TypeParts
<1>6. QED BY <1>2, <1>3, <1>4, <1>5

LEMMA TypeWork ==
  ASSUME TypeOK, NEW t \in Workers, Work(t)
  PROVE  TypeOK'
<1>1. TableType /\ QueueType /\ NodeType /\ ThreadType
  BY TypeParts
<1> USE RelayAssumption DEF Goto, Done, queues
<1>2. NodeType'
  BY <1>1 DEF NodeType, Work, Validate, InsertReceived, InsertOwn, Announce, Analyse
<1>3. CASE Validate(t)
  <2>1. TableType' /\ QueueType'
    BY <1>1, <1>3 DEF TableType, QueueType, Validate
  <2>2. ThreadType'
    BY <1>1, <1>3 DEF ThreadType, Places, Working, Workers, Threads, Validate
  <2>3. QED BY <1>2, <2>1, <2>2, TypeParts
<1>4. CASE InsertReceived(t) \/ InsertOwn(t)
  <2>1. obj[t] \in Objects /\ Tag[obj[t]] \in Hashes
    BY <1>1, <1>4 DEF ThreadType, Working, InsertReceived, InsertOwn
  <2>2. sharedObj' \in Tables(Objects)
    BY <1>1, <1>4, <2>1, InsertType DEF TableType, InsertReceived, InsertOwn
  <2>3. TableType'
    BY <1>1, <1>4, <2>1, <2>2 DEF TableType, InsertReceived, InsertOwn
  <2>4. QueueType'
    BY <1>1, <1>4 DEF QueueType, InsertReceived, InsertOwn
  <2>5. ThreadType'
    BY <1>1, <1>4 DEF ThreadType, Places, Working, Workers, Threads, InsertReceived, InsertOwn
  <2>6. QED BY <1>2, <2>3, <2>4, <2>5, TypeParts
<1>5. CASE Announce(t)
  <2>1. obj[t] \in Objects /\ Tag[obj[t]] \in Hashes
    BY <1>1, <1>5 DEF ThreadType, Working, Announce
  <2>2. TableType' /\ QueueType'
    BY <1>1, <1>5, <2>1 DEF TableType, QueueType, Announce
  <2>3. ThreadType'
    BY <1>1, <1>5 DEF ThreadType, Places, Working, Workers, Threads, Announce
  <2>4. QED BY <1>2, <2>2, <2>3, TypeParts
<1>6. CASE Analyse(t)
  <2>1. obj[t] \in Objects
    BY <1>1, <1>6 DEF ThreadType, Working, Analyse
  <2>2. Ack[obj[t]] \in Objects \cup {NoObject} /\ Reply[obj[t]] \in Own \cup {NoObject}
    BY <2>1
  <2>3. objects' \in Seq(Objects)
    <3>1. CASE objects' = objects
      BY <1>1, <3>1 DEF QueueType
    <3>2. CASE objects' = Append(objects, Reply[obj[t]]) /\ Reply[obj[t]] # NoObject
      <4>1. Reply[obj[t]] \in Objects
        BY <2>2, <3>2
      <4>2. QED BY <1>1, <3>2, <4>1 DEF QueueType
    <3>3. QED BY <1>6, <3>1, <3>2 DEF Analyse
  <2>4. TableType' /\ QueueType'
    BY <1>1, <1>6, <2>3 DEF TableType, QueueType, Analyse
  <2>5. ThreadType'
    BY <1>1, <1>6, <2>2 DEF ThreadType, Places, Working, Workers, Threads, Analyse
  <2>6. QED BY <1>2, <2>4, <2>5, TypeParts
<1>7. QED BY <1>3, <1>4, <1>5, <1>6 DEF Work

LEMMA TypeOther ==
  ASSUME TypeOK,
         \/ \E o \in Objects : SendObj(o)
         \/ ProcessPOW \/ DrainInv \/ SendInv \/ ListenPacketsPop \/ ListenPacketsPush
  PROVE  TypeOK'
<1>1. TableType /\ QueueType /\ NodeType /\ ThreadType
  BY TypeParts
<1> USE RelayAssumption DEF Goto, queues
<1>2. TableType' /\ NodeType'
  BY <1>1 DEF TableType, NodeType, SendObj, ProcessPOW, DrainInv, SendInv, ListenPacketsPop,
              ListenPacketsPush
<1>3. CASE \E o \in Objects : SendObj(o)
  BY <1>1, <1>2, <1>3, TypeParts DEF QueueType, ThreadType, SendObj
<1>4. CASE ProcessPOW
  <2>1. QueueType'
    BY <1>1, <1>4 DEF QueueType, ProcessPOW
  <2>2. Head(objects) \in Objects
    BY <1>1, <1>4 DEF QueueType, ProcessPOW
  <2>3. ThreadType'
    BY <1>1, <1>4, <2>2 DEF ThreadType, Places, Working, Workers, Threads, ProcessPOW
  <2>4. QED BY <1>2, <2>1, <2>3, TypeParts
<1>5. CASE DrainInv
  <2>1. QueueType'
    <3>1. CASE new_inv # <<>>
      <4>1. Head(new_inv) \in Hashes /\ Tail(new_inv) \in Seq(Hashes)
        BY <1>1, <3>1 DEF QueueType
      <4>2. inv' = inv \cup {Head(new_inv)} /\ new_inv' = Tail(new_inv)
        BY <1>5, <3>1 DEF DrainInv
      <4>3. UNCHANGED <<objects, new_packets, packet, Packets>>
        BY <1>5, Zenon DEF DrainInv
      <4>4. QED BY <1>1, <4>1, <4>2, <4>3 DEF QueueType
    <3>2. CASE new_inv = <<>>
      <4>1. UNCHANGED <<objects, new_inv, inv, new_packets, packet, Packets>>
        BY <1>5, <3>2 DEF DrainInv
      <4>2. QED BY <1>1, <4>1 DEF QueueType
    <3>3. QED BY <3>1, <3>2
  <2>2. ThreadType'
    BY <1>1, <1>5 DEF ThreadType, Places, Working, Workers, Threads, DrainInv
  <2>3. QED BY <1>2, <2>1, <2>2, TypeParts
<1>6. CASE SendInv
  <2>1. QueueType'
    <3>1. Pkt("inv", inv) \in PacketType
      BY <1>1, PktType DEF QueueType
    <3>2. new_packets' = Append(new_packets, Pkt("inv", inv)) /\ inv' = {}
      BY <1>6 DEF SendInv
    <3>3. UNCHANGED <<objects, new_inv, packet, Packets>>
      BY <1>6 DEF SendInv
    <3>4. QED BY <1>1, <3>1, <3>2, <3>3 DEF QueueType
  <2>2. ThreadType'
    BY <1>1, <1>6 DEF ThreadType, Places, Working, Workers, Threads, SendInv
  <2>3. QED BY <1>2, <2>1, <2>2, TypeParts
<1>7. CASE ListenPacketsPop
  <2>1. QueueType'
    BY <1>1, <1>7 DEF QueueType, ListenPacketsPop
  <2>2. Head(new_packets) # NoPacket
    <3>1. Head(new_packets) \in PacketType
      BY <1>1, <1>7 DEF QueueType, ListenPacketsPop
    <3>2. Head(new_packets).command # ""
      BY <3>1 DEF PacketType
    <3>3. NoPacket.command = ""
      BY DEF NoPacket
    <3>4. QED BY <3>2, <3>3
  <2>3. ThreadType'
    BY <1>1, <1>7, <2>2 DEF ThreadType, Places, Working, Workers, Threads, ListenPacketsPop
  <2>4. QED BY <1>2, <2>1, <2>3, TypeParts
<1>8. CASE ListenPacketsPush
  <2>1. packet \in PacketType
    BY <1>1, <1>8 DEF QueueType, ThreadType, ListenPacketsPush
  <2>2. QueueType'
    BY <1>1, <1>8, <2>1 DEF QueueType, ListenPacketsPush
  <2>3. ThreadType'
    BY <1>1, <1>8 DEF ThreadType, Places, Working, Workers, Threads, ListenPacketsPush
  <2>4. QED BY <1>2, <2>2, <2>3, TypeParts
<1>9. QED BY <1>3, <1>4, <1>5, <1>6, <1>7, <1>8

LEMMA TypeStep == TypeOK /\ [Next]_vars => TypeOK'
<1> SUFFICES ASSUME TypeOK, [Next]_vars PROVE TypeOK'
  OBVIOUS
<1>1. CASE Next
  <2>1. CASE \E n \in Peers : FromPeer(n)
    BY <2>1, TypeFromPeer
  <2>2. CASE \E n \in Peers : Connect(n) \/ SendChunk(n) \/ ConnectNode(n) \/ Sender(n)
    BY <2>2, TypeNode
  <2>3. CASE \E t \in Workers : Work(t)
    BY <2>3, TypeWork
  <2>4. CASE \/ \E o \in Objects : SendObj(o)
             \/ ProcessPOW \/ DrainInv \/ SendInv \/ ListenPacketsPop \/ ListenPacketsPush
    BY <2>4, TypeOther
  <2>5. QED BY <1>1, <2>1, <2>2, <2>3, <2>4, Zenon DEF Next, Workers
<1>2. CASE UNCHANGED vars
  <2>1. /\ UNCHANGED <<sharedObj, dropped, inputs>>
        /\ UNCHANGED <<objects, new_inv, inv, new_packets, packet, Packets>>
    BY <1>2, Zenon DEF vars
  <2>2. UNCHANGED <<Nodes, state, inventory, i, told>> /\ UNCHANGED <<pc, obj, packet>>
    BY <1>2, Zenon DEF vars
  <2>3. TableType /\ QueueType /\ NodeType /\ ThreadType
    BY TypeParts
  <2>4. TableType' /\ QueueType' /\ NodeType' /\ ThreadType'
    BY <2>1, <2>2, <2>3 DEF TableType, QueueType, NodeType, ThreadType
  <2>5. QED BY <2>4, TypeParts
<1>3. QED BY <1>1, <1>2

\* The type of every variable: a thread inside processObj or propagate has an
\* object, and listen_packets never pushes an empty packet to the nodes.
THEOREM RelayType == Spec => []TypeOK
  BY TypeInit, TypeStep, PTL DEF Spec

-----------------------------------------------------------------------------
(* The table *)

\* A step leaves the table alone, or is one insert() of an object under its tag.
LEMMA TableChange ==
  ASSUME TypeOK, [Next]_vars
  PROVE  \/ sharedObj' = sharedObj
         \/ \E o \in Objects : sharedObj' = Insert(sharedObj, o, Tag[o])
<1>1. ThreadType
  BY TypeParts
<1>2. CASE \E t \in Workers : InsertReceived(t) \/ InsertOwn(t)
  <2>1. PICK t \in Workers : InsertReceived(t) \/ InsertOwn(t)
    BY <1>2
  <2>2. obj[t] \in Objects
    BY <1>1, <2>1 DEF ThreadType, Working, InsertReceived, InsertOwn
  <2>3. sharedObj' = Insert(sharedObj, obj[t], Tag[obj[t]])
    BY <2>1 DEF InsertReceived, InsertOwn
  <2>4. QED BY <2>2, <2>3
<1>3. CASE \E t \in Workers : Validate(t) \/ Announce(t) \/ Analyse(t)
  BY <1>3 DEF Validate, Announce, Analyse
<1>4. CASE \E n \in Peers : FromPeer(n)
  BY <1>4 DEF FromPeer, ReceiveVerack, ReceiveInv, ReceiveGetData, ReceiveAddr,
              ReceiveObject, Disconnect
<1>5. CASE \E n \in Peers : Connect(n) \/ SendChunk(n) \/ ConnectNode(n) \/ Sender(n)
  BY <1>5, Zenon DEF Connect, SendChunk, ConnectNode, Sender
<1>6. CASE \/ \E o \in Objects : SendObj(o)
           \/ ProcessPOW \/ DrainInv \/ SendInv \/ ListenPacketsPop \/ ListenPacketsPush
  BY <1>6 DEF SendObj, ProcessPOW, DrainInv, SendInv, ListenPacketsPop, ListenPacketsPush
<1>7. CASE UNCHANGED vars
  BY <1>7, Zenon DEF vars
<1>8. QED BY <1>2, <1>3, <1>4, <1>5, <1>6, <1>7, Zenon DEF Next, Work, Workers

\* Nothing leaves the table.
LEMMA StoredGrows ==
  ASSUME TypeOK, [Next]_vars
  PROVE  /\ Stored(sharedObj) \subseteq Stored(sharedObj')
         /\ StoredTags \subseteq StoredTags'
<1>1. sharedObj \in Tables(Objects)
  BY DEF TypeOK
<1>2. Stored(sharedObj) \subseteq Stored(sharedObj')
  <2>1. CASE sharedObj' = sharedObj
    BY <2>1
  <2>2. ASSUME NEW o \in Objects, sharedObj' = Insert(sharedObj, o, Tag[o])
        PROVE  Stored(sharedObj') = Stored(sharedObj) \cup {o}
    <3>1. Tag[o] \in Hashes
      BY RelayAssumption
    <3>2. Stored(Insert(sharedObj, o, Tag[o])) = Stored(sharedObj) \cup {o}
      BY <1>1, <3>1, InsertStores
    <3>3. QED BY <2>2, <3>2
  <2>3. QED BY <2>1, <2>2, TableChange
<1>3. QED BY <1>2 DEF StoredTags

LEMMA TableStep ==
  ASSUME TypeOK, TableOK, [Next]_vars
  PROVE  TableOK'
<1>1. sharedObj \in Tables(Objects)
  BY DEF TypeOK
<1>2. CASE sharedObj' = sharedObj
  BY <1>2 DEF TableOK
<1>3. ASSUME NEW o \in Objects, sharedObj' = Insert(sharedObj, o, Tag[o])
      PROVE  TableOK'
  <2>1. Tag[o] \in Hashes
    BY RelayAssumption
  <2>2. Placed(sharedObj, Tag) /\ Unique(sharedObj)
    BY DEF TableOK
  <2>3. Placed(Insert(sharedObj, o, Tag[o]), Tag)
    BY <1>1, <2>1, <2>2, InsertPlaces
  <2>4. Unique(Insert(sharedObj, o, Tag[o]))
    BY <1>1, <2>1, <2>2, InsertUnique
  <2>5. QED BY <1>3, <2>3, <2>4 DEF TableOK
<1>4. QED BY <1>2, <1>3, TableChange

LEMMA TableInit == Init => TableOK
  BY EmptyTableFacts DEF Init, TableOK

\* Several threads insert the same object at the same time, and the table has
\* it once: the bucket is searched and extended in one step, and an object has
\* one bucket.
THEOREM RelayStoresOnce == Spec => []StoredOnce
<1>1. TableOK => StoredOnce
  BY DEF TableOK, Unique, StoredOnce
<1>2. TypeOK /\ TableOK /\ [Next]_vars => TableOK'
  BY TableStep
<1>3. QED BY <1>1, <1>2, TableInit, RelayType, PTL DEF Spec

-----------------------------------------------------------------------------
(* Stored before announced *)

LEMMA FirstInit == Init => StoredFirst
<1> SUFFICES ASSUME Init PROVE StoredFirst
  OBVIOUS
<1>1. QueuesStored
  <2>1. new_inv = <<>> /\ new_packets = <<>> /\ inv = {} /\ packet = NoPacket
    BY DEF Init
  <2>2. NoPacket.tags = {}
    BY DEF NoPacket
  <2>3. QED BY <2>1, <2>2 DEF QueuesStored
<1>2. NodesStored
  BY DEF Init, NodesStored
<1>3. WorkersStored
  BY RelayAssumption DEF Init, WorkersStored, Workers, Threads
<1>4. QED BY <1>1, <1>2, <1>3 DEF StoredFirst

LEMMA FirstFromPeer ==
  ASSUME TypeOK, StoredFirst, NEW n \in Peers, FromPeer(n),
         Stored(sharedObj) \subseteq Stored(sharedObj'), StoredTags \subseteq StoredTags'
  PROVE  StoredFirst'
<1>1. QueuesStored /\ NodesStored /\ WorkersStored
  BY DEF StoredFirst
<1>2. QueueType /\ NodeType /\ ThreadType
  BY TypeParts
<1> USE DEF Goto, Receive, queues
<1>3. QueuesStored'
  <2>1. CASE ReceiveAddr(n)
    <3>1. new_packets' = Append(new_packets, Pkt("addr", {}))
      BY <2>1 DEF ReceiveAddr
    <3>2. Pkt("addr", {}).tags \subseteq StoredTags'
      BY DEF Pkt
    <3>3. UNCHANGED <<new_inv, inv, packet>>
      BY <2>1 DEF ReceiveAddr
    <3>4. QED BY <1>1, <1>2, <3>1, <3>2, <3>3, PktType DEF QueueType, QueuesStored
  <2>2. CASE \/ ReceiveInv(n) \/ ReceiveGetData(n) \/ ReceiveVerack(n) \/ ReceiveObject(n)
             \/ Disconnect(n)
    <3>1. UNCHANGED <<new_inv, inv, new_packets, packet>>
      BY <2>2 DEF ReceiveInv, ReceiveGetData, ReceiveVerack, ReceiveObject, Disconnect
    <3>2. QED BY <1>1, <3>1 DEF QueuesStored
  <2>3. QED BY <2>1, <2>2 DEF FromPeer
<1>4. NodesStored'
  <2>1. CASE ReceiveInv(n) \/ ReceiveGetData(n)
    <3>1. PICK p \in PacketType :
            Packets' = [Packets EXCEPT ![n] = Append(@, p)] /\ p.command # "inv"
      BY <2>1, PktType DEF ReceiveInv, ReceiveGetData, Pkt
    <3>2. UNCHANGED <<told, inventory>>
      BY <2>1 DEF ReceiveInv, ReceiveGetData
    <3>3. QED BY <1>1, <1>2, <3>1, <3>2 DEF QueueType, NodesStored
  <2>2. CASE ReceiveVerack(n)
    <3>1. inventory' = [inventory EXCEPT ![n] = StoredTags] /\ UNCHANGED <<Packets, told>>
      BY <2>2 DEF ReceiveVerack
    <3>2. QED BY <1>1, <1>2, <3>1 DEF NodeType, NodesStored
  <2>3. CASE Disconnect(n)
    <3>1. inventory' = [inventory EXCEPT ![n] = {}] /\ UNCHANGED <<Packets, told>>
      BY <2>3 DEF Disconnect
    <3>2. QED BY <1>1, <1>2, <3>1 DEF NodeType, NodesStored
  <2>4. CASE ReceiveAddr(n) \/ ReceiveObject(n)
    <3>1. UNCHANGED <<Packets, told, inventory>>
      BY <2>4 DEF ReceiveAddr, ReceiveObject
    <3>2. QED BY <1>1, <3>1 DEF NodesStored
  <2>5. QED BY <2>1, <2>2, <2>3, <2>4 DEF FromPeer
<1>5. WorkersStored'
  <2>1. CASE ReceiveObject(n)
    BY <1>1, <1>2, <2>1 DEF ThreadType, WorkersStored, Workers, Threads, ReceiveObject
  <2>2. CASE ReceiveVerack(n) \/ ReceiveAddr(n) \/ Disconnect(n)
    BY <1>1, <1>2, <2>2 DEF ThreadType, WorkersStored, Workers, Threads, ReceiveVerack,
                            ReceiveAddr, Disconnect
  <2>3. CASE ReceiveInv(n) \/ ReceiveGetData(n)
    <3>1. UNCHANGED <<pc, obj>>
      BY <2>3 DEF ReceiveInv, ReceiveGetData
    <3>2. QED BY <1>1, <3>1 DEF WorkersStored
  <2>4. QED BY <2>1, <2>2, <2>3 DEF FromPeer
<1>6. QED BY <1>3, <1>4, <1>5 DEF StoredFirst

LEMMA FirstNode ==
  ASSUME TypeOK, StoredFirst, NEW n \in Peers,
         Connect(n) \/ SendChunk(n) \/ ConnectNode(n) \/ Sender(n),
         Stored(sharedObj) \subseteq Stored(sharedObj'), StoredTags \subseteq StoredTags'
  PROVE  StoredFirst'
<1>1. QueuesStored /\ NodesStored /\ WorkersStored
  BY DEF StoredFirst
<1>2. QueueType /\ NodeType /\ ThreadType
  BY TypeParts
<1> USE DEF Goto, queues
<1>3. QueuesStored'
  <2>1. UNCHANGED <<new_inv, inv, new_packets, packet>>
    BY Zenon DEF Connect, SendChunk, ConnectNode, Sender
  <2>2. QED BY <1>1, <2>1 DEF QueuesStored
<1>4. NodesStored'
  <2>1. CASE Connect(n) \/ ConnectNode(n)
    <3>1. UNCHANGED <<Packets, told, inventory>>
      BY <2>1 DEF Connect, ConnectNode
    <3>2. QED BY <1>1, <3>1 DEF NodesStored
  <2>2. CASE SendChunk(n)
    <3>1. PICK chunk \in SUBSET inventory[n] :
            /\ inventory' = [inventory EXCEPT ![n] = @ \ chunk]
            /\ told' = [told EXCEPT ![n] = @ \cup chunk]
      BY <2>2 DEF SendChunk
    <3>2. Packets' = Packets
      BY <2>2, Zenon DEF SendChunk
    <3>3. QED BY <1>1, <1>2, <3>1, <3>2 DEF NodeType, NodesStored
  <2>3. CASE Sender(n)
    <3>1. Packets[n] \in Seq(PacketType) /\ Packets[n] # <<>>
      BY <1>2, <2>3 DEF QueueType, Sender
    <3>2. Packets' = [Packets EXCEPT ![n] = Tail(@)] /\ inventory' = inventory
      BY <2>3 DEF Sender
    <3>3. \A m \in Peers : told'[m] \subseteq StoredTags'
      <4>1. Head(Packets[n]).command = "inv" => Head(Packets[n]).tags \subseteq StoredTags
        BY <1>1, <3>1 DEF NodesStored
      <4>2. told' = IF Head(Packets[n]).command = "inv"
                    THEN [told EXCEPT ![n] = @ \cup Head(Packets[n]).tags] ELSE told
        BY <2>3 DEF Sender
      <4>3. QED BY <1>1, <1>2, <4>1, <4>2 DEF NodeType, NodesStored
    <3>4. \A k \in DOMAIN Tail(Packets[n]) :
            k + 1 \in DOMAIN Packets[n] /\ Tail(Packets[n])[k] = Packets[n][k + 1]
      BY <3>1
    <3>5. \A m \in Peers : \A k \in DOMAIN Packets'[m] :
            Packets'[m][k].command = "inv" => Packets'[m][k].tags \subseteq StoredTags'
      BY <1>1, <1>2, <3>1, <3>2, <3>4 DEF QueueType, NodesStored
    <3>6. QED BY <1>1, <3>2, <3>3, <3>5 DEF NodesStored
  <2>4. QED BY <2>1, <2>2, <2>3
<1>5. WorkersStored'
  <2>1. obj' = obj
    BY Zenon DEF Connect, SendChunk, ConnectNode, Sender
  <2>2. \A t \in Workers : pc'[t] \in {"announce", "p_announce"} => pc'[t] = pc[t]
    BY <1>2 DEF ThreadType, Workers, Threads, Connect, SendChunk, ConnectNode, Sender
  <2>3. QED BY <1>1, <2>1, <2>2 DEF WorkersStored
<1>6. QED BY <1>3, <1>4, <1>5 DEF StoredFirst

LEMMA FirstWork ==
  ASSUME TypeOK, StoredFirst, NEW t \in Workers, Work(t),
         Stored(sharedObj) \subseteq Stored(sharedObj'), StoredTags \subseteq StoredTags'
  PROVE  StoredFirst'
<1>1. QueuesStored /\ NodesStored /\ WorkersStored
  BY DEF StoredFirst
<1>2. TableType /\ QueueType /\ NodeType /\ ThreadType
  BY TypeParts
<1> USE DEF Goto, Done, queues
<1>3. NodesStored'
  <2>1. UNCHANGED <<Packets, told, inventory>>
    BY DEF Work, Validate, InsertReceived, InsertOwn, Announce, Analyse
  <2>2. QED BY <1>1, <2>1 DEF NodesStored
<1>4. QueuesStored'
  <2>1. CASE Announce(t)
    <3>1. obj[t] \in Stored(sharedObj) /\ Tag[obj[t]] \in StoredTags
      BY <1>1, <2>1 DEF WorkersStored, Announce, StoredTags
    <3>2. new_inv' = Append(new_inv, Tag[obj[t]]) /\ UNCHANGED <<inv, new_packets, packet>>
      BY <2>1 DEF Announce
    <3>3. Tag[obj[t]] \in Hashes
      BY <1>2, <3>1, StoredTagsType
    <3>4. QED BY <1>1, <1>2, <3>1, <3>2, <3>3 DEF QueueType, QueuesStored
  <2>2. CASE Validate(t) \/ InsertReceived(t) \/ InsertOwn(t) \/ Analyse(t)
    <3>1. UNCHANGED <<new_inv, inv, new_packets, packet>>
      BY <2>2 DEF Validate, InsertReceived, InsertOwn, Analyse
    <3>2. QED BY <1>1, <3>1 DEF QueuesStored
  <2>3. QED BY <2>1, <2>2 DEF Work
<1>5. WorkersStored'
  <2>1. CASE InsertReceived(t) \/ InsertOwn(t)
    <3>1. obj[t] \in Objects /\ Tag[obj[t]] \in Hashes
      BY <1>2, <2>1, RelayAssumption DEF ThreadType, Working, InsertReceived, InsertOwn
    <3>2. sharedObj' = Insert(sharedObj, obj[t], Tag[obj[t]])
      BY <2>1 DEF InsertReceived, InsertOwn
    <3>3. obj[t] \in Stored(sharedObj')
      BY <1>2, <3>1, <3>2, InsertStores DEF TableType
    <3>4. \A s \in Workers \ {t} : pc'[s] = pc[s] /\ obj'[s] = obj[s]
      BY <1>2, <2>1 DEF ThreadType, Workers, Threads, InsertReceived, InsertOwn
    <3>5. pc'[t] \in {"announce", "p_announce"} => obj'[t] = obj[t]
      BY <1>2, <2>1 DEF ThreadType, Workers, Threads, InsertReceived, InsertOwn
    <3>6. QED BY <1>1, <3>3, <3>4, <3>5 DEF WorkersStored
  <2>2. CASE Validate(t) \/ Announce(t) \/ Analyse(t)
    <3>1. \A s \in Workers \ {t} : pc'[s] = pc[s] /\ obj'[s] = obj[s]
      BY <1>2, <2>2 DEF ThreadType, Workers, Threads, Validate, Announce, Analyse
    <3>2. pc'[t] \notin {"announce", "p_announce"}
      BY <1>2, <2>2 DEF ThreadType, Workers, Threads, Validate, Announce, Analyse
    <3>3. QED BY <1>1, <3>1, <3>2 DEF WorkersStored
  <2>3. QED BY <2>1, <2>2 DEF Work
<1>6. QED BY <1>3, <1>4, <1>5 DEF StoredFirst

LEMMA FirstOther ==
  ASSUME TypeOK, StoredFirst,
         \/ \E o \in Objects : SendObj(o)
         \/ ProcessPOW \/ DrainInv \/ SendInv \/ ListenPacketsPop \/ ListenPacketsPush,
         Stored(sharedObj) \subseteq Stored(sharedObj'), StoredTags \subseteq StoredTags'
  PROVE  StoredFirst'
<1>1. QueuesStored /\ NodesStored /\ WorkersStored
  BY DEF StoredFirst
<1>2. QueueType /\ NodeType /\ ThreadType
  BY TypeParts
<1> USE DEF Goto, queues
<1>3. WorkersStored'
  <2>1. \A t \in Workers :
          pc'[t] \in {"announce", "p_announce"} => pc'[t] = pc[t] /\ obj'[t] = obj[t]
    BY <1>2, RelayAssumption DEF ThreadType, Workers, Threads, SendObj, ProcessPOW, DrainInv,
       SendInv, ListenPacketsPop, ListenPacketsPush
  <2>2. QED BY <1>1, <2>1 DEF WorkersStored
<1>4. NodesStored'
  <2>1. CASE ListenPacketsPush
    <3>1. packet \in PacketType
      BY <1>2, <2>1 DEF QueueType, ThreadType, ListenPacketsPush
    <3>2. \A n \in Peers :
            Packets'[n] = IF n \in Nodes THEN Append(Packets[n], packet) ELSE Packets[n]
      BY <2>1 DEF ListenPacketsPush
    <3>3. UNCHANGED <<told, inventory>>
      BY <2>1 DEF ListenPacketsPush
    <3>4. packet.tags \subseteq StoredTags
      BY <1>1 DEF QueuesStored
    <3>5. \A n \in Peers : \A k \in DOMAIN Packets'[n] :
            Packets'[n][k].command = "inv" => Packets'[n][k].tags \subseteq StoredTags'
      <4> SUFFICES ASSUME NEW n \in Peers, NEW k \in DOMAIN Packets'[n],
                          Packets'[n][k].command = "inv"
                   PROVE  Packets'[n][k].tags \subseteq StoredTags'
        OBVIOUS
      <4>1. Packets[n] \in Seq(PacketType)
        BY <1>2 DEF QueueType
      <4>2. \A j \in DOMAIN Packets[n] :
              Packets[n][j].command = "inv" => Packets[n][j].tags \subseteq StoredTags
        BY <1>1 DEF NodesStored
      <4>3. CASE n \in Nodes
        <5>1. Packets'[n] = Append(Packets[n], packet)
          BY <3>2, <4>3
        <5>2. \/ k \in DOMAIN Packets[n] /\ Packets'[n][k] = Packets[n][k]
              \/ Packets'[n][k] = packet
          BY <3>1, <4>1, <5>1
        <5>3. QED BY <3>4, <4>2, <5>2
      <4>4. CASE n \notin Nodes
        BY <3>2, <4>2, <4>4
      <4>5. QED BY <4>3, <4>4
    <3>6. QED BY <1>1, <3>3, <3>5 DEF NodesStored
  <2>2. CASE \/ \E o \in Objects : SendObj(o)
             \/ ProcessPOW \/ DrainInv \/ SendInv \/ ListenPacketsPop
    <3>1. UNCHANGED <<Packets, told, inventory>>
      BY <2>2 DEF SendObj, ProcessPOW, DrainInv, SendInv, ListenPacketsPop
    <3>2. QED BY <1>1, <3>1 DEF NodesStored
  <2>3. QED BY <2>1, <2>2
<1>5. QueuesStored'
  <2>1. CASE DrainInv
    <3>1. UNCHANGED <<new_packets, packet>>
      BY <2>1, Zenon DEF DrainInv
    <3>2. CASE new_inv # <<>>
      <4>1. inv' = inv \cup {Head(new_inv)} /\ new_inv' = Tail(new_inv)
        BY <2>1, <3>2 DEF DrainInv
      <4>2. Head(new_inv) \in StoredTags
        BY <1>1, <1>2, <3>2 DEF QueueType, QueuesStored
      <4>3. \A k \in DOMAIN Tail(new_inv) :
              k + 1 \in DOMAIN new_inv /\ Tail(new_inv)[k] = new_inv[k + 1]
        BY <1>2, <3>2 DEF QueueType
      <4>4. QED BY <1>1, <3>1, <4>1, <4>2, <4>3 DEF QueuesStored
    <3>3. CASE new_inv = <<>>
      <4>1. UNCHANGED <<inv, new_inv>>
        BY <2>1, <3>3 DEF DrainInv
      <4>2. QED BY <1>1, <3>1, <4>1 DEF QueuesStored
    <3>4. QED BY <3>2, <3>3
  <2>2. CASE SendInv
    <3>1. /\ new_packets' = Append(new_packets, Pkt("inv", inv)) /\ inv' = {}
          /\ UNCHANGED <<new_inv, packet>>
      BY <2>2 DEF SendInv
    <3>2. Pkt("inv", inv).tags \subseteq StoredTags
      BY <1>1 DEF QueuesStored, Pkt
    <3>3. Pkt("inv", inv) \in PacketType
      BY <1>2, PktType DEF QueueType
    <3>4. QED BY <1>1, <1>2, <3>1, <3>2, <3>3 DEF QueueType, QueuesStored
  <2>3. CASE ListenPacketsPop
    <3>1. /\ packet' = Head(new_packets) /\ new_packets' = Tail(new_packets)
          /\ UNCHANGED <<new_inv, inv>>
      BY <2>3 DEF ListenPacketsPop
    <3>2. new_packets \in Seq(PacketType) /\ new_packets # <<>>
      BY <1>2, <2>3 DEF QueueType, ListenPacketsPop
    <3>3. Head(new_packets).tags \subseteq StoredTags
      BY <1>1, <3>2 DEF QueuesStored
    <3>4. \A k \in DOMAIN Tail(new_packets) :
            k + 1 \in DOMAIN new_packets /\ Tail(new_packets)[k] = new_packets[k + 1]
      BY <3>2
    <3>5. QED BY <1>1, <3>1, <3>3, <3>4 DEF QueuesStored
  <2>4. CASE ListenPacketsPush
    <3>1. packet' = NoPacket /\ UNCHANGED <<new_inv, inv, new_packets>>
      BY <2>4 DEF ListenPacketsPush
    <3>2. NoPacket.tags = {}
      BY DEF NoPacket
    <3>3. QED BY <1>1, <3>1, <3>2 DEF QueuesStored
  <2>5. CASE (\E o \in Objects : SendObj(o)) \/ ProcessPOW
    <3>1. UNCHANGED <<new_inv, inv, new_packets, packet>>
      BY <2>5 DEF SendObj, ProcessPOW
    <3>2. QED BY <1>1, <3>1 DEF QueuesStored
  <2>6. QED BY <2>1, <2>2, <2>3, <2>4, <2>5
<1>6. QED BY <1>3, <1>4, <1>5 DEF StoredFirst

LEMMA FirstStep ==
  ASSUME TypeOK, StoredFirst, [Next]_vars
  PROVE  StoredFirst'
<1>1. Stored(sharedObj) \subseteq Stored(sharedObj') /\ StoredTags \subseteq StoredTags'
  BY StoredGrows
<1>2. CASE Next
  <2>1. CASE \E n \in Peers : FromPeer(n)
    BY <1>1, <2>1, FirstFromPeer
  <2>2. CASE \E n \in Peers : Connect(n) \/ SendChunk(n) \/ ConnectNode(n) \/ Sender(n)
    BY <1>1, <2>2, FirstNode
  <2>3. CASE \E t \in Workers : Work(t)
    BY <1>1, <2>3, FirstWork
  <2>4. CASE \/ \E o \in Objects : SendObj(o)
             \/ ProcessPOW \/ DrainInv \/ SendInv \/ ListenPacketsPop \/ ListenPacketsPush
    BY <1>1, <2>4, FirstOther
  <2>5. QED BY <1>2, <2>1, <2>2, <2>3, <2>4, Zenon DEF Next, Workers
<1>3. CASE UNCHANGED vars
  <2>1. UNCHANGED <<new_inv, inv, new_packets, packet>> /\ UNCHANGED <<Packets, told, inventory>>
        /\ UNCHANGED <<pc, obj>>
    BY <1>3, Zenon DEF vars
  <2>2. QED BY <1>1, <2>1 DEF StoredFirst, QueuesStored, NodesStored, WorkersStored
<1>4. QED BY <1>2, <1>3

\* What was stored can be found.
LEMMA FirstServable ==
  ASSUME TypeOK, TableOK, StoredFirst
  PROVE  AnnouncedIsServable
<1>1. \A t \in StoredTags :
        LET o == SearchByHash(sharedObj, t, NoObject) IN o # NoObject /\ Tag[o] = t
  <2> SUFFICES ASSUME NEW o \in Stored(sharedObj)
               PROVE  /\ SearchByHash(sharedObj, Tag[o], NoObject) = o
                      /\ o # NoObject
    BY DEF StoredTags
  <2>1. sharedObj \in Tables(Objects) /\ Placed(sharedObj, Tag)
    BY DEF TypeOK, TableOK
  <2>2. o \in Objects
    BY <2>1, StoredType
  <2>3. SearchByHash(sharedObj, Tag[o], NoObject) = o
    BY <2>1, RelayAssumption, SearchFinds
  <2>4. QED BY <2>2, <2>3, RelayAssumption
<1>2. OnTheWay \subseteq StoredTags
  <2>1. QueuesStored
    BY DEF StoredFirst
  <2>2. InvTags(new_packets) \subseteq StoredTags
    BY <2>1 DEF InvTags, QueuesStored
  <2>3. QED BY <2>1, <2>2 DEF OnTheWay, QueuesStored
<1>3. \A n \in Peers : told[n] \cup InvTags(Packets[n]) \subseteq StoredTags
  <2> SUFFICES ASSUME NEW n \in Peers PROVE told[n] \cup InvTags(Packets[n]) \subseteq StoredTags
    OBVIOUS
  <2>1. /\ told[n] \subseteq StoredTags
        /\ \A k \in DOMAIN Packets[n] :
             Packets[n][k].command = "inv" => Packets[n][k].tags \subseteq StoredTags
    BY DEF StoredFirst, NodesStored
  <2>2. InvTags(Packets[n]) \subseteq StoredTags
    BY <2>1 DEF InvTags
  <2>3. QED BY <2>1, <2>2
<1>4. Announced \subseteq StoredTags
  BY <1>2, <1>3 DEF Announced
<1>5. QED BY <1>1, <1>4 DEF AnnouncedIsServable

\* Whatever is announced can be served: an object is stored before its tag is
\* queued, listen_inv, listen_packets, the Senders and the handshakes only carry
\* tags that were stored, and nothing leaves the table.
THEOREM RelayAnnouncesServable == Spec => []AnnouncedIsServable
<1>1. TypeOK /\ TableOK /\ [Next]_vars => TableOK'
  BY TableStep
<1>2. TypeOK /\ StoredFirst /\ [Next]_vars => StoredFirst'
  BY FirstStep
<1>3. TypeOK /\ TableOK /\ StoredFirst => AnnouncedIsServable
  BY FirstServable
<1>4. QED BY <1>1, <1>2, <1>3, TableInit, FirstInit, RelayType, PTL DEF Spec

-----------------------------------------------------------------------------
(* No gap between the handshake and the broadcast *)

\* The tags an accepted node has to hear of, and those that it was told or that
\* will come to its queue.
Due == {Tag[o] : o \in Stored(sharedObj) \ dropped}
Coming(n) == told[n] \cup InvTags(Packets[n]) \cup OnTheWay \cup AboutToAnnounce

\* listen_packets pushes to the nodes of Nodes: a connection that was ever
\* started is one of them.
StartedIsListed == \A n \in Peers \ Nodes : pc[n] = "new" /\ state[n] = 0

\* Of the packets for every node, only an inv has tags.
OnlyInvHasTags ==
  /\ packet.command # "inv" => packet.tags = {}
  /\ \A k \in DOMAIN new_packets : new_packets[k].command # "inv" => new_packets[k].tags = {}

\* listen_packets has pushed its packet when it takes the next one.
PoppedIsPushed == pc[Fwd] = "pop" => packet.tags = {}

\* In the handshake a node may also have to wait for the verack handler's copy.
HandshakeCovers == \A n \in Peers : pc[n] = "chunk" => Due \subseteq inventory[n] \cup Coming(n)

GapInv ==
  StartedIsListed /\ OnlyInvHasTags /\ PoppedIsPushed /\ HandshakeCovers /\ NoAnnouncementGap

\* The tags of a packet for the nodes.
TagsOf(p) == IF p.command = "inv" THEN p.tags ELSE {}

LEMMA InvTagsIff ==
  ASSUME NEW q, NEW t
  PROVE  t \in InvTags(q) <=> \E k \in DOMAIN q : q[k].command = "inv" /\ t \in q[k].tags
  BY DEF InvTags

LEMMA InvTagsAppend ==
  ASSUME NEW q \in Seq(PacketType), NEW p \in PacketType
  PROVE  InvTags(Append(q, p)) = InvTags(q) \cup TagsOf(p)
<1>1. \A k \in DOMAIN q : k \in DOMAIN Append(q, p) /\ Append(q, p)[k] = q[k]
  OBVIOUS
<1>2. Len(q) + 1 \in DOMAIN Append(q, p) /\ Append(q, p)[Len(q) + 1] = p
  OBVIOUS
<1>3. \A k \in DOMAIN Append(q, p) : k \in DOMAIN q \/ k = Len(q) + 1
  OBVIOUS
<1>4. ASSUME NEW t PROVE t \in InvTags(Append(q, p)) <=> t \in InvTags(q) \/ t \in TagsOf(p)
  <2>1. t \in InvTags(q) => t \in InvTags(Append(q, p))
    BY <1>1, InvTagsIff, Zenon
  <2>2. t \in TagsOf(p) => t \in InvTags(Append(q, p))
    <3>1. t \in TagsOf(p) => p.command = "inv" /\ t \in p.tags
      BY DEF TagsOf
    <3>2. QED BY <1>2, <3>1, InvTagsIff
  <2>3. ASSUME t \in InvTags(Append(q, p)) PROVE t \in InvTags(q) \/ t \in TagsOf(p)
    <3>1. PICK k \in DOMAIN Append(q, p) :
            Append(q, p)[k].command = "inv" /\ t \in Append(q, p)[k].tags
      BY <2>3, InvTagsIff
    <3>2. CASE k \in DOMAIN q
      BY <1>1, <3>1, <3>2, InvTagsIff
    <3>3. CASE k = Len(q) + 1
      BY <1>2, <3>1, <3>3 DEF TagsOf
    <3>4. QED BY <1>3, <3>2, <3>3
  <2>4. QED BY <2>1, <2>2, <2>3
<1>5. QED BY <1>4

LEMMA InvTagsHead ==
  ASSUME NEW q \in Seq(PacketType), q # <<>>
  PROVE  InvTags(q) \subseteq TagsOf(Head(q)) \cup InvTags(Tail(q))
<1> SUFFICES ASSUME NEW t \in InvTags(q)
             PROVE  t \in TagsOf(Head(q)) \/ t \in InvTags(Tail(q))
  OBVIOUS
<1>1. PICK k \in DOMAIN q : q[k].command = "inv" /\ t \in q[k].tags
  BY InvTagsIff
<1>2. CASE k = 1
  BY <1>1, <1>2 DEF TagsOf
<1>3. CASE k # 1
  <2>1. k - 1 \in DOMAIN Tail(q) /\ Tail(q)[k - 1] = q[k]
    BY <1>3
  <2>2. QED BY <1>1, <2>1, InvTagsIff
<1>4. QED BY <1>2, <1>3

\* What a node was told, or will be told by its Sender, stays so.
LEMMA SentGrows ==
  ASSUME TypeOK, [Next]_vars, NEW n \in Peers
  PROVE  told[n] \cup InvTags(Packets[n]) \subseteq told'[n] \cup InvTags(Packets'[n])
<1>1. QueueType /\ NodeType /\ ThreadType
  BY TypeParts
<1>2. Packets[n] \in Seq(PacketType) /\ told[n] \subseteq Hashes
  BY <1>1 DEF QueueType, NodeType
<1>3. CASE UNCHANGED <<told, Packets>>
  BY <1>3
<1>4. CASE \E m \in Peers : ReceiveInv(m) \/ ReceiveGetData(m)
  <2>1. PICK m \in Peers, p \in PacketType :
          Packets' = [Packets EXCEPT ![m] = Append(@, p)] /\ told' = told
    BY <1>4, PktType DEF ReceiveInv, ReceiveGetData
  <2>2. Packets'[n] = Packets[n] \/ Packets'[n] = Append(Packets[n], p)
    BY <1>1, <2>1 DEF QueueType
  <2>3. QED BY <1>2, <2>1, <2>2, InvTagsAppend
<1>5. CASE \E m \in Peers : SendChunk(m)
  <2>1. PICK m \in Peers : SendChunk(m)
    BY <1>5
  <2>2. PICK chunk \in SUBSET inventory[m] : told' = [told EXCEPT ![m] = @ \cup chunk]
    BY <2>1 DEF SendChunk
  <2>3. Packets' = Packets
    BY <2>1, Zenon DEF SendChunk, queues
  <2>4. QED BY <1>1, <2>2, <2>3 DEF NodeType
<1>6. CASE \E m \in Peers : Sender(m)
  <2>1. PICK m \in Peers : Sender(m)
    BY <1>6
  <2>2. CASE m = n
    <3>1. Packets[n] # <<>> /\ Packets'[n] = Tail(Packets[n])
      BY <1>1, <2>1, <2>2 DEF Sender, QueueType
    <3>2. told'[n] = told[n] \cup TagsOf(Head(Packets[n]))
      BY <1>1, <2>1, <2>2 DEF Sender, NodeType, TagsOf
    <3>3. QED BY <1>2, <3>1, <3>2, InvTagsHead
  <2>3. CASE m # n
    <3>1. Packets'[n] = Packets[n]
      BY <1>1, <2>1, <2>3 DEF Sender, QueueType
    <3>2. told'[n] = told[n]
      BY <1>1, <2>1, <2>3 DEF Sender, NodeType
    <3>3. QED BY <3>1, <3>2
  <2>4. QED BY <2>2, <2>3
<1>7. CASE ListenPacketsPush
  <2>1. packet \in PacketType
    BY <1>1, <1>7 DEF QueueType, ThreadType, ListenPacketsPush
  <2>2. Packets'[n] = Packets[n] \/ Packets'[n] = Append(Packets[n], packet)
    BY <1>7 DEF ListenPacketsPush
  <2>3. told' = told
    BY <1>7 DEF ListenPacketsPush
  <2>4. QED BY <1>2, <2>1, <2>2, <2>3, InvTagsAppend
<1>8. ASSUME Next PROVE \/ UNCHANGED <<told, Packets>>
                        \/ \E m \in Peers : ReceiveInv(m) \/ ReceiveGetData(m)
                        \/ \E m \in Peers : SendChunk(m)
                        \/ \E m \in Peers : Sender(m)
                        \/ ListenPacketsPush
  <2>1. CASE \E m \in Peers : ReceiveVerack(m) \/ ReceiveAddr(m) \/ ReceiveObject(m)
                              \/ Disconnect(m) \/ Connect(m) \/ ConnectNode(m)
    BY <2>1 DEF ReceiveVerack, ReceiveAddr, ReceiveObject, Disconnect, Connect, ConnectNode, queues
  <2>2. CASE \E t \in Workers : Work(t)
    BY <2>2 DEF Work, Validate, InsertReceived, InsertOwn, Announce, Analyse, queues
  <2>3. CASE \/ \E o \in Objects : SendObj(o)
             \/ ProcessPOW \/ DrainInv \/ SendInv \/ ListenPacketsPop
    BY <2>3 DEF SendObj, ProcessPOW, DrainInv, SendInv, ListenPacketsPop
  <2>4. QED BY <1>8, <2>1, <2>2, <2>3, Zenon DEF Next, FromPeer, Workers
<1>9. CASE UNCHANGED vars
  BY <1>3, <1>9, Zenon DEF vars
<1>10. QED BY <1>3, <1>4, <1>5, <1>6, <1>7, <1>8, <1>9

LEMMA OnTheWayIff ==
  ASSUME NEW t
  PROVE  t \in OnTheWay <=> \/ \E k \in DOMAIN new_inv : new_inv[k] = t
                            \/ t \in inv
                            \/ t \in InvTags(new_packets)
                            \/ t \in packet.tags
  BY DEF OnTheWay

\* A tag leaves the way only into the queue of every node.
LEMMA WayKeeps ==
  ASSUME TypeOK, OnlyInvHasTags, PoppedIsPushed, [Next]_vars, NEW n \in Nodes
  PROVE  OnTheWay \subseteq OnTheWay' \cup InvTags(Packets'[n])
<1>1. QueueType /\ NodeType /\ ThreadType
  BY TypeParts
<1>2. CASE UNCHANGED <<new_inv, inv, new_packets, packet>>
  BY <1>2 DEF OnTheWay
<1>3. CASE \E t \in Workers : Announce(t)
  <2>1. PICK t \in Workers : Announce(t)
    BY <1>3
  <2>2. new_inv' = Append(new_inv, Tag[obj[t]]) /\ UNCHANGED <<inv, new_packets, packet>>
    BY <2>1 DEF Announce
  <2>3. new_inv \in Seq(Hashes)
    BY <1>1 DEF QueueType
  <2>4. \A k \in DOMAIN new_inv : k \in DOMAIN new_inv' /\ new_inv'[k] = new_inv[k]
    BY <2>2, <2>3
  <2>5. QED BY <2>2, <2>4 DEF OnTheWay
<1>4. CASE DrainInv
  <2>1. UNCHANGED <<new_packets, packet>>
    BY <1>4, Zenon DEF DrainInv
  <2>2. CASE new_inv # <<>>
    <3>1. inv' = inv \cup {Head(new_inv)} /\ new_inv' = Tail(new_inv)
      BY <1>4, <2>2 DEF DrainInv
    <3>2. \A k \in DOMAIN new_inv :
            \/ new_inv[k] = Head(new_inv)
            \/ k - 1 \in DOMAIN Tail(new_inv) /\ Tail(new_inv)[k - 1] = new_inv[k]
      BY <1>1, <2>2 DEF QueueType
    <3>3. {new_inv[k] : k \in DOMAIN new_inv} \subseteq
            inv' \cup {new_inv'[k] : k \in DOMAIN new_inv'}
      BY <3>1, <3>2
    <3>4. QED BY <2>1, <3>1, <3>3 DEF OnTheWay
  <2>3. CASE new_inv = <<>>
    BY <1>2, <1>4, <2>1, <2>3 DEF DrainInv
  <2>4. QED BY <2>2, <2>3
<1>5. CASE SendInv
  <2>1. new_packets' = Append(new_packets, Pkt("inv", inv)) /\ UNCHANGED <<new_inv, packet>>
    BY <1>5 DEF SendInv
  <2>2. new_packets \in Seq(PacketType) /\ Pkt("inv", inv) \in PacketType
    BY <1>1, PktType DEF QueueType
  <2>3. InvTags(new_packets') = InvTags(new_packets) \cup inv
    BY <2>1, <2>2, InvTagsAppend DEF TagsOf, Pkt
  <2>4. QED BY <2>1, <2>3 DEF OnTheWay
<1>6. CASE ListenPacketsPop
  <2>1. new_packets \in Seq(PacketType) /\ new_packets # <<>>
    BY <1>1, <1>6 DEF QueueType, ListenPacketsPop
  <2>2. /\ packet' = Head(new_packets) /\ new_packets' = Tail(new_packets)
        /\ UNCHANGED <<new_inv, inv>>
    BY <1>6 DEF ListenPacketsPop
  <2>3. InvTags(new_packets) \subseteq packet'.tags \cup InvTags(new_packets')
    BY <2>1, <2>2, InvTagsHead DEF TagsOf
  <2>4. packet.tags = {}
    BY <1>6 DEF PoppedIsPushed, ListenPacketsPop
  <2>5. QED BY <2>2, <2>3, <2>4 DEF OnTheWay
<1>7. CASE ListenPacketsPush
  <2>1. packet \in PacketType
    BY <1>1, <1>7 DEF QueueType, ThreadType, ListenPacketsPush
  <2>2. n \in Peers /\ Packets[n] \in Seq(PacketType)
    BY <1>1 DEF QueueType, NodeType
  <2>3. Packets'[n] = Append(Packets[n], packet) /\ UNCHANGED <<new_inv, inv, new_packets>>
    BY <1>7, <2>2 DEF ListenPacketsPush
  <2>4. packet.tags \subseteq InvTags(Packets'[n])
    BY <2>1, <2>2, <2>3, InvTagsAppend DEF TagsOf, OnlyInvHasTags
  <2>5. QED BY <2>3, <2>4 DEF OnTheWay
<1>8. CASE \E m \in Peers : ReceiveAddr(m)
  <2>1. /\ new_packets' = Append(new_packets, Pkt("addr", {}))
        /\ UNCHANGED <<new_inv, inv, packet>>
    BY <1>8 DEF ReceiveAddr
  <2>2. InvTags(new_packets) \subseteq InvTags(new_packets')
    BY <1>1, <2>1, PktType, InvTagsAppend DEF QueueType
  <2>3. QED BY <2>1, <2>2 DEF OnTheWay
<1>9. ASSUME Next PROVE \/ UNCHANGED <<new_inv, inv, new_packets, packet>>
                        \/ \E t \in Workers : Announce(t)
                        \/ \E m \in Peers : ReceiveAddr(m)
                        \/ DrainInv \/ SendInv \/ ListenPacketsPop \/ ListenPacketsPush
  <2>1. CASE \E m \in Peers : \/ ReceiveVerack(m) \/ ReceiveInv(m) \/ ReceiveGetData(m)
                              \/ ReceiveObject(m) \/ Disconnect(m)
    BY <2>1 DEF ReceiveVerack, ReceiveInv, ReceiveGetData, ReceiveObject, Disconnect, queues
  <2>2. CASE \E m \in Peers : Connect(m) \/ SendChunk(m) \/ ConnectNode(m) \/ Sender(m)
    BY <2>2, Zenon DEF Connect, SendChunk, ConnectNode, Sender, queues
  <2>3. CASE \E t \in Workers : Validate(t) \/ InsertReceived(t) \/ InsertOwn(t) \/ Analyse(t)
    BY <2>3 DEF Validate, InsertReceived, InsertOwn, Analyse, queues
  <2>4. CASE (\E o \in Objects : SendObj(o)) \/ ProcessPOW
    BY <2>4 DEF SendObj, ProcessPOW
  <2>5. QED BY <1>9, <2>1, <2>2, <2>3, <2>4, Zenon DEF Next, FromPeer, Work, Workers
<1>10. CASE UNCHANGED vars
  BY <1>2, <1>10, Zenon DEF vars
<1>11. QED BY <1>2, <1>3, <1>4, <1>5, <1>6, <1>7, <1>8, <1>9, <1>10

\* A thread that is about to announce an object stays so, with that object,
\* until its tag is in new_inv.
LEMMA AnnouncerStays ==
  ASSUME TypeOK, [Next]_vars, NEW t \in Workers, pc[t] \in {"announce", "p_announce"}
  PROVE  \/ pc'[t] = pc[t] /\ obj'[t] = obj[t]
         \/ new_inv' = Append(new_inv, Tag[obj[t]])
<1>1. ThreadType
  BY TypeParts
<1> USE DEF Goto, Done, Receive
<1>2. CASE \E m \in Peers : FromPeer(m)
  BY <1>1, <1>2 DEF ThreadType, Workers, Threads, FromPeer, ReceiveVerack, ReceiveInv,
                    ReceiveGetData, ReceiveAddr, ReceiveObject, Disconnect
<1>3. CASE \E m \in Peers : Connect(m) \/ SendChunk(m) \/ ConnectNode(m) \/ Sender(m)
  <2>1. obj' = obj
    BY <1>3, Zenon DEF Connect, SendChunk, ConnectNode, Sender
  <2>2. pc'[t] = pc[t]
    BY <1>1, <1>3 DEF ThreadType, Workers, Threads, Connect, SendChunk, ConnectNode, Sender
  <2>3. QED BY <2>1, <2>2
<1>4. CASE \E s \in Workers : Work(s)
  <2>1. PICK s \in Workers : Work(s)
    BY <1>4
  <2>2. CASE s = t
    BY <2>1, <2>2 DEF Work, Validate, InsertReceived, InsertOwn, Announce, Analyse
  <2>3. CASE s # t
    BY <1>1, <2>1, <2>3 DEF ThreadType, Workers, Threads, Work, Validate, InsertReceived,
                            InsertOwn, Announce, Analyse
  <2>4. QED BY <2>2, <2>3
<1>5. CASE \/ \E o \in Objects : SendObj(o)
           \/ ProcessPOW \/ DrainInv \/ SendInv \/ ListenPacketsPop \/ ListenPacketsPush
  BY <1>1, <1>5, RelayAssumption DEF ThreadType, Workers, Threads, SendObj, ProcessPOW, DrainInv,
     SendInv, ListenPacketsPop, ListenPacketsPush
<1>6. CASE UNCHANGED vars
  BY <1>6, Zenon DEF vars
<1>7. QED BY <1>2, <1>3, <1>4, <1>5, <1>6, Zenon DEF Next, Workers

LEMMA AboutIff ==
  /\ \A tag : tag \in AboutToAnnounce <=>
       \E t \in Workers : pc[t] \in {"announce", "p_announce"} /\ tag = Tag[obj[t]]
  /\ \A tag : tag \in AboutToAnnounce' <=>
       \E t \in Workers : pc'[t] \in {"announce", "p_announce"} /\ tag = Tag[obj'[t]]
  BY DEF AboutToAnnounce, Workers

LEMMA AboutKeeps ==
  ASSUME TypeOK, [Next]_vars
  PROVE  AboutToAnnounce \subseteq AboutToAnnounce' \cup OnTheWay'
<1> SUFFICES ASSUME NEW t \in Workers, pc[t] \in {"announce", "p_announce"}
             PROVE  Tag[obj[t]] \in AboutToAnnounce' \cup OnTheWay'
  BY AboutIff
<1>1. CASE pc'[t] = pc[t] /\ obj'[t] = obj[t]
  BY <1>1, AboutIff
<1>2. CASE new_inv' = Append(new_inv, Tag[obj[t]])
  <2>1. new_inv \in Seq(Hashes)
    BY DEF TypeOK
  <2>2. Len(new_inv) + 1 \in DOMAIN new_inv' /\ new_inv'[Len(new_inv) + 1] = Tag[obj[t]]
    BY <1>2, <2>1
  <2>3. QED BY <2>2 DEF OnTheWay
<1>3. QED BY <1>1, <1>2, AnnouncerStays

\* What comes to a listed node does not get lost.
LEMMA ComingGrows ==
  ASSUME TypeOK, OnlyInvHasTags, PoppedIsPushed, [Next]_vars, NEW n \in Nodes
  PROVE  Coming(n) \subseteq Coming(n)'
<1>1. n \in Peers
  BY DEF TypeOK
<1>2. Coming(n)' = told'[n] \cup InvTags(Packets'[n]) \cup OnTheWay' \cup AboutToAnnounce'
  BY DEF Coming, InvTags
<1>3. QED BY <1>1, <1>2, SentGrows, WayKeeps, AboutKeeps DEF Coming

\* An object becomes due when it is stored, by a thread that then announces it.
LEMMA DueGrows ==
  ASSUME TypeOK, [Next]_vars
  PROVE  Due' \subseteq Due \cup AboutToAnnounce'
<1>1. TableType /\ ThreadType
  BY TypeParts
<1>2. CASE sharedObj' = sharedObj /\ dropped \subseteq dropped'
  BY <1>2 DEF Due
<1>3. CASE \E t \in Workers : InsertReceived(t) \/ InsertOwn(t)
  <2>1. PICK t \in Workers : InsertReceived(t) \/ InsertOwn(t)
    BY <1>3
  <2>2. obj[t] \in Objects /\ Tag[obj[t]] \in Hashes
    BY <1>1, <2>1, RelayAssumption DEF ThreadType, Working, InsertReceived, InsertOwn
  <2>3. sharedObj' = Insert(sharedObj, obj[t], Tag[obj[t]])
    BY <2>1 DEF InsertReceived, InsertOwn
  <2>4. Stored(sharedObj') = Stored(sharedObj) \cup {obj[t]}
    BY <1>1, <2>2, <2>3, InsertStores DEF TableType
  <2>5. CASE dropped' = dropped \cup {obj[t]}
    BY <2>4, <2>5 DEF Due
  <2>6. CASE pc'[t] \in {"announce", "p_announce"} /\ obj'[t] = obj[t] /\ dropped' = dropped
    <3>1. Tag[obj[t]] \in AboutToAnnounce'
      BY <2>6, AboutIff
    <3>2. QED BY <2>4, <2>6, <3>1 DEF Due
  <2>7. \/ dropped' = dropped \cup {obj[t]}
        \/ pc'[t] \in {"announce", "p_announce"} /\ obj'[t] = obj[t] /\ dropped' = dropped
    BY <1>1, <2>1 DEF ThreadType, Workers, Threads, InsertReceived, InsertOwn, Goto
  <2>8. QED BY <2>5, <2>6, <2>7
<1>4. CASE \E m \in Peers : FromPeer(m)
  BY <1>2, <1>4 DEF FromPeer, ReceiveVerack, ReceiveInv, ReceiveGetData, ReceiveAddr,
                    ReceiveObject, Disconnect
<1>5. CASE \E m \in Peers : Connect(m) \/ SendChunk(m) \/ ConnectNode(m) \/ Sender(m)
  <2>1. UNCHANGED <<sharedObj, dropped>>
    BY <1>5, Zenon DEF Connect, SendChunk, ConnectNode, Sender
  <2>2. QED BY <1>2, <2>1
<1>6. CASE \E t \in Workers : Validate(t) \/ Announce(t) \/ Analyse(t)
  BY <1>2, <1>6 DEF Validate, Announce, Analyse
<1>7. CASE \/ \E o \in Objects : SendObj(o)
           \/ ProcessPOW \/ DrainInv \/ SendInv \/ ListenPacketsPop \/ ListenPacketsPush
  BY <1>2, <1>7 DEF SendObj, ProcessPOW, DrainInv, SendInv, ListenPacketsPop, ListenPacketsPush
<1>8. CASE UNCHANGED vars
  <2>1. UNCHANGED <<sharedObj, dropped>>
    BY <1>8, Zenon DEF vars
  <2>2. QED BY <1>2, <2>1
<1>9. QED BY <1>3, <1>4, <1>5, <1>6, <1>7, <1>8, Zenon DEF Next, Work, Workers

LEMMA GapInit == Init => GapInv
<1> SUFFICES ASSUME Init PROVE GapInv
  OBVIOUS
<1>1. StartedIsListed
  BY RelayAssumption DEF Init, StartedIsListed, Threads
<1>2. OnlyInvHasTags /\ PoppedIsPushed
  <2>1. packet.tags = {} /\ new_packets = <<>>
    BY DEF Init, NoPacket
  <2>2. QED BY <2>1 DEF OnlyInvHasTags, PoppedIsPushed
<1>3. \A n \in Peers : pc[n] # "chunk" /\ state[n] # 2
  BY RelayAssumption DEF Init, Threads
<1>4. QED BY <1>1, <1>2, <1>3 DEF GapInv, HandshakeCovers, NoAnnouncementGap

LEMMA ListedStep ==
  ASSUME TypeOK, StartedIsListed, [Next]_vars
  PROVE  StartedIsListed'
<1>1. NodeType /\ ThreadType
  BY TypeParts
<1>2. \A n \in Peers \ Nodes : n \in Threads /\ n # Pow /\ n # Inv /\ n # Fwd
  BY RelayAssumption DEF Threads
<1> USE DEF Goto, Done, Receive
<1>3. CASE \E m \in Peers : FromPeer(m)
  BY <1>1, <1>2, <1>3 DEF NodeType, ThreadType, StartedIsListed, FromPeer, ReceiveVerack,
     ReceiveInv, ReceiveGetData, ReceiveAddr, ReceiveObject, Disconnect
<1>4. CASE \E m \in Peers : Connect(m) \/ ConnectNode(m)
  BY <1>1, <1>2, <1>4 DEF NodeType, ThreadType, StartedIsListed, Connect, ConnectNode
<1>5. CASE \E m \in Peers : SendChunk(m)
  BY <1>1, <1>2, <1>5 DEF NodeType, ThreadType, StartedIsListed, SendChunk
<1>6. CASE \E m \in Peers : Sender(m)
  BY <1>6 DEF StartedIsListed, Sender
<1>7. CASE \E t \in Workers : Work(t)
  <2>1. PICK t \in Workers : Work(t)
    BY <1>7
  <2>2. pc[t] # "new" /\ UNCHANGED <<Nodes, state>>
    BY <2>1 DEF Work, Validate, InsertReceived, InsertOwn, Announce, Analyse
  <2>3. \A s \in Threads \ {t} : pc'[s] = pc[s]
    BY <1>1, <2>1 DEF ThreadType, Workers, Threads, Work, Validate, InsertReceived, InsertOwn,
                      Announce, Analyse
  <2>4. QED BY <1>2, <2>2, <2>3 DEF StartedIsListed
<1>8. CASE \/ \E o \in Objects : SendObj(o)
           \/ ProcessPOW \/ DrainInv \/ SendInv \/ ListenPacketsPop \/ ListenPacketsPush
  <2>1. UNCHANGED <<Nodes, state>> /\ \A s \in Threads \ {Pow, Inv, Fwd} : pc'[s] = pc[s]
    BY <1>1, <1>8 DEF ThreadType, SendObj, ProcessPOW, DrainInv, SendInv, ListenPacketsPop,
                      ListenPacketsPush
  <2>2. QED BY <1>2, <2>1 DEF StartedIsListed
<1>9. CASE UNCHANGED vars
  <2>1. UNCHANGED <<Nodes, state, pc>>
    BY <1>9, Zenon DEF vars
  <2>2. QED BY <2>1 DEF StartedIsListed
<1>10. QED BY <1>3, <1>4, <1>5, <1>6, <1>7, <1>8, <1>9, Zenon DEF Next, Workers

LEMMA ForwardStep ==
  ASSUME TypeOK, OnlyInvHasTags, PoppedIsPushed, [Next]_vars
  PROVE  OnlyInvHasTags' /\ PoppedIsPushed'
<1>1. QueueType /\ ThreadType
  BY TypeParts
<1>2. new_packets \in Seq(PacketType)
  BY <1>1 DEF QueueType
<1>3. ASSUME UNCHANGED <<new_packets, packet>>, pc'[Fwd] = pc[Fwd]
      PROVE  OnlyInvHasTags' /\ PoppedIsPushed'
  BY <1>3 DEF OnlyInvHasTags, PoppedIsPushed
<1>4. ASSUME NEW p \in PacketType, p.command # "inv" => p.tags = {},
             new_packets' = Append(new_packets, p), packet' = packet, pc'[Fwd] = pc[Fwd]
      PROVE  OnlyInvHasTags' /\ PoppedIsPushed'
  <2>1. \A k \in DOMAIN new_packets' :
          (k \in DOMAIN new_packets /\ new_packets'[k] = new_packets[k]) \/ new_packets'[k] = p
    BY <1>2, <1>4
  <2>2. QED BY <1>4, <2>1 DEF OnlyInvHasTags, PoppedIsPushed
<1> USE DEF Goto, Done, Receive, queues
<1>5. CASE \E m \in Peers : ReceiveAddr(m)
  <2>1. /\ new_packets' = Append(new_packets, Pkt("addr", {}))
        /\ packet' = packet /\ pc'[Fwd] = pc[Fwd]
    BY <1>1, <1>5, RelayAssumption DEF ThreadType, Threads, ReceiveAddr
  <2>2. Pkt("addr", {}) \in PacketType /\ Pkt("addr", {}).tags = {}
    BY PktType DEF Pkt
  <2>3. QED BY <1>4, <2>1, <2>2
<1>6. CASE SendInv
  <2>1. /\ new_packets' = Append(new_packets, Pkt("inv", inv))
        /\ packet' = packet /\ pc'[Fwd] = pc[Fwd]
    BY <1>1, <1>6, RelayAssumption DEF ThreadType, Threads, SendInv
  <2>2. Pkt("inv", inv) \in PacketType /\ Pkt("inv", inv).command = "inv"
    BY <1>1, PktType DEF QueueType, Pkt
  <2>3. QED BY <1>4, <2>1, <2>2
<1>7. CASE ListenPacketsPop
  <2>1. packet' = Head(new_packets) /\ new_packets' = Tail(new_packets) /\ new_packets # <<>>
    BY <1>7 DEF ListenPacketsPop
  <2>2. Head(new_packets) = new_packets[1] /\ 1 \in DOMAIN new_packets
    BY <1>2, <2>1
  <2>3. \A k \in DOMAIN Tail(new_packets) :
          k + 1 \in DOMAIN new_packets /\ Tail(new_packets)[k] = new_packets[k + 1]
    BY <1>2, <2>1
  <2>4. pc'[Fwd] = "push"
    BY <1>1, <1>7 DEF ThreadType, Threads, ListenPacketsPop
  <2>5. QED BY <2>1, <2>2, <2>3, <2>4 DEF OnlyInvHasTags, PoppedIsPushed
<1>8. CASE ListenPacketsPush
  <2>1. packet' = NoPacket /\ new_packets' = new_packets
    BY <1>8 DEF ListenPacketsPush
  <2>2. packet'.tags = {}
    BY <2>1 DEF NoPacket
  <2>3. QED BY <2>1, <2>2 DEF OnlyInvHasTags, PoppedIsPushed
<1>9. CASE \E m \in Peers : \/ ReceiveVerack(m) \/ ReceiveInv(m) \/ ReceiveGetData(m)
                            \/ ReceiveObject(m) \/ Disconnect(m)
  <2>1. UNCHANGED <<new_packets, packet>>
    BY <1>9 DEF ReceiveVerack, ReceiveInv, ReceiveGetData, ReceiveObject, Disconnect
  <2>2. pc'[Fwd] = pc[Fwd]
    BY <1>1, <1>9, RelayAssumption DEF ThreadType, Threads, ReceiveVerack, ReceiveInv,
       ReceiveGetData, ReceiveObject, Disconnect
  <2>3. QED BY <1>3, <2>1, <2>2
<1>10. CASE \E m \in Peers : Connect(m) \/ SendChunk(m) \/ ConnectNode(m) \/ Sender(m)
  <2>1. UNCHANGED <<new_packets, packet>>
    BY <1>10, Zenon DEF Connect, SendChunk, ConnectNode, Sender
  <2>2. pc'[Fwd] = pc[Fwd]
    BY <1>1, <1>10, RelayAssumption DEF ThreadType, Threads, Connect, SendChunk, ConnectNode,
       Sender
  <2>3. QED BY <1>3, <2>1, <2>2
<1>11. CASE \E t \in Workers : Work(t)
  <2>1. UNCHANGED <<new_packets, packet>>
    BY <1>11 DEF Work, Validate, InsertReceived, InsertOwn, Announce, Analyse
  <2>2. pc'[Fwd] = pc[Fwd]
    BY <1>1, <1>11, RelayAssumption DEF ThreadType, Workers, Threads, Work, Validate,
       InsertReceived, InsertOwn, Announce, Analyse
  <2>3. QED BY <1>3, <2>1, <2>2
<1>12. CASE (\E o \in Objects : SendObj(o)) \/ ProcessPOW \/ DrainInv
  <2>1. UNCHANGED <<new_packets, packet>> /\ pc'[Fwd] = pc[Fwd]
    BY <1>1, <1>12, RelayAssumption DEF ThreadType, Threads, SendObj, ProcessPOW, DrainInv
  <2>2. QED BY <1>3, <2>1
<1>13. CASE UNCHANGED vars
  <2>1. UNCHANGED <<new_packets, packet, pc>>
    BY <1>13, Zenon DEF vars
  <2>2. QED BY <1>3, <2>1
<1>14. QED BY <1>5, <1>6, <1>7, <1>8, <1>9, <1>10, <1>11, <1>12, <1>13, Zenon
       DEF Next, FromPeer, Workers

\* How a node gets into the handshake, and how it is accepted.
LEMMA HandshakeSteps ==
  ASSUME TypeOK, [Next]_vars, NEW n \in Peers
  PROVE  \/ ReceiveVerack(n)
         \/ SendChunk(n)
         \/ /\ pc'[n] = "chunk" => pc[n] = "chunk" /\ inventory'[n] = inventory[n]
            /\ state'[n] = 2 => state[n] = 2
<1>1. NodeType /\ ThreadType
  BY TypeParts
<1>2. n \in Threads /\ n # Pow /\ n # Inv /\ n # Fwd
  BY RelayAssumption DEF Threads
<1> USE DEF Goto, Done, Receive
<1>3. CASE \E m \in Peers : FromPeer(m)
  BY <1>1, <1>2, <1>3 DEF NodeType, ThreadType, FromPeer, ReceiveVerack,
     ReceiveInv, ReceiveGetData, ReceiveAddr, ReceiveObject, Disconnect
<1>4. CASE \E m \in Peers : Connect(m) \/ ConnectNode(m)
  BY <1>1, <1>2, <1>4 DEF NodeType, ThreadType, Connect, ConnectNode
<1>5. CASE \E m \in Peers \ {n} : SendChunk(m)
  <2>1. PICK m \in Peers \ {n} : SendChunk(m)
    BY <1>5
  <2>2. pc'[n] = pc[n] /\ state'[n] = state[n]
    BY <1>1, <1>2, <2>1 DEF NodeType, ThreadType, SendChunk
  <2>3. PICK chunk \in SUBSET inventory[m] : inventory' = [inventory EXCEPT ![m] = @ \ chunk]
    BY <2>1 DEF SendChunk
  <2>4. inventory'[n] = inventory[n]
    BY <1>1, <2>1, <2>3 DEF NodeType
  <2>5. QED BY <2>2, <2>4
<1>6. CASE \E m \in Peers : Sender(m)
  BY <1>6 DEF Sender
<1>7. CASE \E t \in Workers : Work(t)
  BY <1>1, <1>2, <1>7 DEF ThreadType, Workers, Threads, Work, Validate, InsertReceived, InsertOwn,
     Announce, Analyse
<1>8. CASE \/ \E o \in Objects : SendObj(o)
           \/ ProcessPOW \/ DrainInv \/ SendInv \/ ListenPacketsPop \/ ListenPacketsPush
  BY <1>1, <1>2, <1>8 DEF ThreadType, SendObj, ProcessPOW, DrainInv, SendInv, ListenPacketsPop,
     ListenPacketsPush
<1>9. CASE UNCHANGED vars
  <2>1. UNCHANGED <<inventory, state, pc>>
    BY <1>9, Zenon DEF vars
  <2>2. QED BY <2>1
<1>10. QED BY <1>3, <1>4, <1>5, <1>6, <1>7, <1>8, <1>9, Zenon DEF Next, Workers

LEMMA NoGapIff ==
  /\ NoAnnouncementGap <=> \A n \in Peers : state[n] = 2 => Due \subseteq Coming(n)
  /\ NoAnnouncementGap' <=> \A n \in Peers : state'[n] = 2 => Due' \subseteq Coming(n)'
  BY DEF NoAnnouncementGap, Due, Coming

LEMMA GapStep ==
  ASSUME TypeOK, GapInv, [Next]_vars
  PROVE  GapInv'
<1>1. StartedIsListed' /\ OnlyInvHasTags' /\ PoppedIsPushed'
  BY ListedStep, ForwardStep DEF GapInv
<1>2. ASSUME NEW n \in Nodes PROVE Coming(n) \cup AboutToAnnounce' \subseteq Coming(n)'
  <2>1. Coming(n) \subseteq Coming(n)'
    BY ComingGrows DEF GapInv
  <2>2. AboutToAnnounce' \subseteq Coming(n)'
    BY DEF Coming
  <2>3. QED BY <2>1, <2>2
<1>3. \A n \in Peers : pc[n] \in {"recv", "chunk"} \/ state[n] = 2 => n \in Nodes
  BY DEF GapInv, StartedIsListed
<1>4. \A n \in Peers : state[n] = 2 => Due \subseteq Coming(n)
  BY NoGapIff DEF GapInv
<1>5. \A n \in Peers : pc[n] = "chunk" => Due \subseteq inventory[n] \cup Coming(n)
  BY DEF GapInv, HandshakeCovers
<1>6. ASSUME NEW n \in Peers
      PROVE  /\ pc'[n] = "chunk" => Due' \subseteq inventory'[n] \cup Coming(n)'
             /\ state'[n] = 2 => Due' \subseteq Coming(n)'
  <2>1. ASSUME state[n] = 2 PROVE Due' \subseteq Coming(n)'
    BY <1>2, <1>3, <1>4, <2>1, DueGrows
  <2>2. CASE ReceiveVerack(n)
    <3>1. /\ pc[n] = "recv" /\ inventory'[n] = StoredTags
          /\ UNCHANGED <<state, sharedObj, dropped>>
      BY <2>2 DEF ReceiveVerack, Receive, TypeOK
    <3>2. Due' \subseteq inventory'[n]
      BY <3>1 DEF Due, StoredTags
    <3>3. QED BY <2>1, <3>1, <3>2
  <2>3. CASE SendChunk(n)
    <3>1. pc[n] = "chunk" /\ (state'[n] = 2 => state[n] = 2 \/ inventory'[n] = {})
      BY <2>3 DEF SendChunk, TypeOK
    <3>2. PICK chunk \in SUBSET inventory[n] :
            /\ inventory' = [inventory EXCEPT ![n] = @ \ chunk]
            /\ told' = [told EXCEPT ![n] = @ \cup chunk]
      BY <2>3 DEF SendChunk
    <3>3. inventory'[n] = inventory[n] \ chunk /\ told'[n] = told[n] \cup chunk
      BY <3>2 DEF TypeOK
    <3>4. chunk \subseteq Coming(n)'
      BY <3>3 DEF Coming
    <3>5. Due' \subseteq inventory'[n] \cup Coming(n)'
      BY <1>2, <1>3, <1>5, <3>1, <3>3, <3>4, DueGrows
    <3>6. QED BY <2>1, <3>1, <3>5
  <2>4. CASE /\ pc'[n] = "chunk" => pc[n] = "chunk" /\ inventory'[n] = inventory[n]
             /\ state'[n] = 2 => state[n] = 2
    BY <1>2, <1>3, <1>5, <2>1, <2>4, DueGrows
  <2>5. QED BY <2>2, <2>3, <2>4, HandshakeSteps
<1>7. NoAnnouncementGap'
  BY <1>6, NoGapIff
<1>8. HandshakeCovers'
  BY <1>6 DEF HandshakeCovers
<1>9. QED BY <1>1, <1>7, <1>8 DEF GapInv

\* An accepted node misses nothing, however its handshake interleaves with the
\* arrival of objects.  The verack handler copies the tags of the whole table in
\* one step and lets the Sender begin only when it has sent them all; whoever
\* stores an object after that copy announces it, through new_inv, listen_inv
\* and listen_packets, to every node that is listed, and connectNode lists a
\* node before it starts.
THEOREM RelayLeavesNoGap == Spec => []NoAnnouncementGap
<1>1. TypeOK /\ GapInv /\ [Next]_vars => GapInv'
  BY GapStep
<1>2. GapInv => NoAnnouncementGap
  BY DEF GapInv
<1>3. QED BY <1>1, <1>2, GapInit, RelayType, PTL DEF Spec
=============================================================================
