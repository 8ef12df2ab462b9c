------------------------------- MODULE Relay --------------------------------
(***************************************************************************)
(* How one BitMRC client stores objects, announces them to every node it   *)
(* is connected to and serves them: BitMRC::processObj, sendObj,           *)
(* processPOW, propagate, send, listen_inv, listen_packets and             *)
(* connectNode, and the handlers of NodeConnection::Listener and Sender.   *)
(*                                                                         *)
(* Threads: one Listener and one Sender per NodeConnection, processPOW,    *)
(* listen_inv and listen_packets.  A push or a pop of a Queue is one step  *)
(* (module Fifo, which MsgQueue implements), and so is a method of the     *)
(* hash table; between two of them any other thread may run.  What the     *)
(* remote peers send is not constrained.                                   *)
(***************************************************************************)
EXTENDS HashTable, Integers, FiniteSets

CONSTANTS
  Objects,    \* object payloads that occur, own ones and others
  Tag,        \* Tag[o]: inventoryHash(o), 32 bytes of a double SHA-512
  Own,        \* objects this client creates (sendMessage, encodePubKey, ...)
  Reply,      \* Reply[o]: the pubkey object that answers the getpubkey o
  Ack,        \* Ack[o]: the ack object inside the msg o for one of our addresses
  NoObject,
  Peers,      \* the NodeConnection instances that can be created
  Seeds,      \* those that BitMRC::init connects
  MaxInv,     \* tags in one inv packet (50000 in the code)
  MaxInputs,  \* bound: messages from peers, and user requests
  Pow, Inv, Fwd  \* the threads processPOW, listen_inv, listen_packets

Threads == Peers \cup {Pow, Inv, Fwd}

ASSUME RelayAssumption ==
  /\ IsFiniteSet(Hashes)
  /\ Tag \in [Objects -> Hashes]
  /\ \A o1, o2 \in Objects : Tag[o1] = Tag[o2] => o1 = o2
  /\ Own \subseteq Objects
  /\ Reply \in [Objects -> Own \cup {NoObject}]
  /\ Ack \in [Objects -> Objects \cup {NoObject}]
  /\ NoObject \notin Objects
  /\ Seeds \subseteq Peers
  /\ MaxInv \in Nat /\ MaxInputs \in Nat
  /\ Pow # Inv /\ Pow # Fwd /\ Inv # Fwd
  /\ Peers \cap {Pow, Inv, Fwd} = {}

VARIABLES
  sharedObj,    \* hash table of every object seen
  objects,      \* queue: own objects that wait for their proof of work
  new_inv,      \* queue: tags to announce
  inv,          \* listen_inv's packet_inv under construction
  new_packets,  \* queue: packets for every node
  packet,       \* listen_packets' local packet
  Nodes,        \* BitMRC::Nodes
  Packets,      \* Packets[n]: queue of n's Sender
  state,        \* NodeConnection::state: 3 connecting, 1, 2 accepted, 0 closed
  inventory,    \* inventory[n]: verack handler's copy, the tags not yet sent
  i,            \* i[n]: its index
  pc,           \* where each thread is
  obj,          \* obj[t]: the object processObj or propagate works on in t
  told,         \* told[n]: tags announced to n on the wire
  dropped,      \* history: objects processObj stored and dropped (code 2)
  inputs        \* messages received and user requests so far (the bound only)

queues == <<objects, new_inv, new_packets, Packets>>
vars == <<sharedObj, objects, new_inv, inv, new_packets, packet, Nodes,
          Packets, state, inventory, i, pc, obj, told, dropped, inputs>>

PacketType == [command : {"inv", "getdata", "object", "addr"}, tags : SUBSET Hashes]
NoPacket == [command |-> "", tags |-> {}]
Pkt(command, tags) == [command |-> command, tags |-> tags]

StoredTags == {Tag[o] : o \in Stored(sharedObj)}

\* Every call of sendObj makes a payload the client did not have before.
Unborn(o) == o \notin Stored(sharedObj) \cup {objects[k] : k \in DOMAIN objects} \cup {obj[Pow]}

Goto(t, where) == pc' = [pc EXCEPT ![t] = where]

\* Back to the thread's loop; the local object goes out of scope.
Done(t) ==
  /\ Goto(t, IF t = Pow THEN "pop" ELSE "recv")
  /\ obj' = [obj EXCEPT ![t] = NoObject]

Receive(n) ==
  /\ pc[n] = "recv"
  /\ inputs < MaxInputs
  /\ inputs' = inputs + 1

Init ==
  /\ sharedObj = EmptyTable
  /\ objects = <<>> /\ new_inv = <<>> /\ new_packets = <<>>
  /\ inv = {}
  /\ packet = NoPacket
  /\ Nodes = Seeds
  /\ Packets = [n \in Peers |-> <<>>]
  /\ state = [n \in Peers |-> IF n \in Seeds THEN 3 ELSE 0]
  /\ inventory = [n \in Peers |-> {}]
  /\ i = [n \in Peers |-> 0]
  /\ pc = [t \in Threads |->
             CASE t \in Seeds -> "connect"
               [] t \in Peers \ Seeds -> "new"
               [] t = Inv -> "drain"
               [] OTHER -> "pop"]
  /\ obj = [t \in Peers \cup {Pow} |-> NoObject]
  /\ told = [n \in Peers |-> {}]
  /\ dropped = {}
  /\ inputs = 0

-----------------------------------------------------------------------------
(* Faulty variants of steps below: the properties must refuse them. *)

\* The tag is queued when the object is validated, before it is stored.
AnnounceFirst(t) ==
  /\ pc[t] \in {"validate", "p_validate"}
  /\ \/ /\ Goto(t, IF pc[t] = "validate" THEN "insert" ELSE "p_insert")
        /\ new_inv' = Append(new_inv, Tag[obj[t]])
        /\ UNCHANGED obj
     \/ Done(t) /\ UNCHANGED new_inv
  /\ UNCHANGED <<sharedObj, objects, inv, new_packets, packet, Nodes, Packets,
                 state, inventory, i, told, dropped, inputs>>

\* connectNode starts the connection and leaves listing it to someone else.
ConnectUnlisted(n) ==
  /\ pc[n] = "addr"
  /\ \/ Goto(n, "recv") /\ UNCHANGED state
     \/ \E m \in Peers :
          /\ pc[m] = "new"
          /\ state' = [state EXCEPT ![m] = 3]
          /\ Goto(m, "connect")
  /\ UNCHANGED <<sharedObj, queues, inv, packet, Nodes, inventory, i, obj, told,
                 dropped, inputs>>

\* decryptMsg propagates an ack even when the message holds none.
AnalyseAnyAck(t) ==
  /\ pc[t] = "analyse"
  /\ obj' = [obj EXCEPT ![t] = Ack[obj[t]]]
  /\ Goto(t, "p_validate")
  /\ UNCHANGED <<sharedObj, queues, inv, packet, Nodes, state, inventory, i, told,
                 dropped, inputs>>

\* listen_inv waits until there are enough tags for a packet.
DrainInvFull ==
  /\ pc[Inv] = "drain"
  /\ inv # {} \/ Len(new_inv) > 2
  /\ IF new_inv # <<>>
     THEN /\ inv' = inv \cup {Head(new_inv)}
          /\ new_inv' = Tail(new_inv)
          /\ UNCHANGED pc
     ELSE Goto(Inv, "send") /\ UNCHANGED <<inv, new_inv>>
  /\ UNCHANGED <<sharedObj, objects, new_packets, packet, Nodes, Packets, state,
                 inventory, i, obj, told, dropped, inputs>>

-----------------------------------------------------------------------------
(* The user, and NodeConnection::Connect *)

\* sendObj in the user's thread: getPubKey, sendMessage, sendBroadcast.
SendObj(o) ==
  /\ o \in Own /\ Unborn(o)
  /\ inputs < MaxInputs
  /\ inputs' = inputs + 1
  /\ objects' = Append(objects, o)
  /\ UNCHANGED <<sharedObj, new_inv, inv, new_packets, packet, Nodes, Packets,
                 state, inventory, i, pc, obj, told, dropped>>

\* Connect() gets through, or gives up.  Module Connection has its steps.
Connect(n) ==
  /\ pc[n] = "connect"
  /\ \/ Goto(n, "recv") /\ state' = [state EXCEPT ![n] = 1]
     \/ Goto(n, "closed") /\ state' = [state EXCEPT ![n] = 0]
  /\ UNCHANGED <<sharedObj, queues, inv, packet, Nodes, inventory, i, obj, told,
                 dropped, inputs>>

\* The connection breaks: the Listener's recv or send throws, Close(), the end
\* of both threads.  The node stays in Nodes and its queue keeps filling.
Disconnect(n) ==
  /\ pc[n] \in {"recv", "chunk"}
  /\ Goto(n, "closed")
  /\ state' = [state EXCEPT ![n] = 0]
  /\ inventory' = [inventory EXCEPT ![n] = {}]
  /\ i' = [i EXCEPT ![n] = 0]
  /\ UNCHANGED <<sharedObj, queues, inv, packet, Nodes, obj, told, dropped, inputs>>

-----------------------------------------------------------------------------
(* NodeConnection::Listener *)

\* verack: copy the tags of the whole table under its lock.
ReceiveVerack(n) ==
  /\ Receive(n)
  /\ inventory' = [inventory EXCEPT ![n] = StoredTags]
  /\ Goto(n, "chunk")
  /\ UNCHANGED <<sharedObj, queues, inv, packet, Nodes, state, i, obj, told, dropped>>

\* One turn of while (!finished): an inv packet with the tags up to index
\* 50000, straight to the socket; the turn that reaches the end accepts.
SendChunk(n) ==
  /\ pc[n] = "chunk"
  /\ \E chunk \in SUBSET inventory[n] :
       /\ Cardinality(chunk) = IF i[n] + Cardinality(inventory[n]) <= MaxInv
                               THEN Cardinality(inventory[n])
                               ELSE IF i[n] < MaxInv THEN MaxInv - i[n] ELSE 0
       /\ i' = [i EXCEPT ![n] = IF chunk = inventory[n] THEN 0 ELSE @ + Cardinality(chunk)]
       /\ inventory' = [inventory EXCEPT ![n] = @ \ chunk]
       /\ told' = [told EXCEPT ![n] = @ \cup chunk]
  /\ IF inventory'[n] = {}
     THEN state' = [state EXCEPT ![n] = 2] /\ Goto(n, "recv")
     ELSE UNCHANGED <<state, pc>>
  /\ UNCHANGED <<sharedObj, queues, inv, packet, Nodes, obj, dropped, inputs>>

\* inv: ask for the object if it is not in the table; one tag per message here.
ReceiveInv(n) ==
  /\ Receive(n)
  /\ \E t \in Hashes :
       /\ ~Present(sharedObj, t)
       /\ Packets' = [Packets EXCEPT ![n] = Append(@, Pkt("getdata", {t}))]
  /\ UNCHANGED <<sharedObj, objects, new_inv, inv, new_packets, packet, Nodes,
                 state, inventory, i, pc, obj, told, dropped>>

\* getdata: queue the object if it is in the table; one tag per message here.
ReceiveGetData(n) ==
  /\ Receive(n)
  /\ \E t \in Hashes :
       /\ SearchByHash(sharedObj, t, NoObject) # NoObject
       /\ Packets' = [Packets EXCEPT ![n] = Append(@, Pkt("object", {t}))]
  /\ UNCHANGED <<sharedObj, objects, new_inv, inv, new_packets, packet, Nodes,
                 state, inventory, i, pc, obj, told, dropped>>

\* addr: pass the packet on to every node, then connect to each address.
ReceiveAddr(n) ==
  /\ Receive(n)
  /\ new_packets' = Append(new_packets, Pkt("addr", {}))
  /\ Goto(n, "addr")
  /\ UNCHANGED <<sharedObj, objects, new_inv, inv, packet, Nodes, Packets, state,
                 inventory, i, obj, told, dropped>>

\* connectNode, under mutex_nodes, for one more address of the packet; or the
\* end of the list.
ConnectNode(n) ==
  /\ pc[n] = "addr"
  /\ \/ /\ Goto(n, "recv")
        /\ UNCHANGED <<Nodes, state>>
     \/ \E m \in Peers :
          /\ pc[m] = "new"
          /\ Nodes' = Nodes \cup {m}
          /\ state' = [state EXCEPT ![m] = 3]
          /\ Goto(m, "connect")
  /\ UNCHANGED <<sharedObj, queues, inv, packet, inventory, i, obj, told,
                 dropped, inputs>>

\* object: processObj(packet).  A peer can only have an own object from here.
ReceiveObject(n) ==
  /\ Receive(n)
  /\ \E o \in (Objects \ Own) \cup Stored(sharedObj) : obj' = [obj EXCEPT ![n] = o]
  /\ Goto(n, "validate")
  /\ UNCHANGED <<sharedObj, queues, inv, packet, Nodes, state, inventory, i,
                 told, dropped>>

-----------------------------------------------------------------------------
(* BitMRC::processObj and BitMRC::propagate, in thread t *)

\* validateObj(obj): the size, the expiry time against the clock and the proof of
\* work.  The clock moves between two calls, so both answers are possible for any
\* object; nothing happens to one it refuses.
Validate(t) ==
  /\ pc[t] \in {"validate", "p_validate"}
  /\ \/ Goto(t, IF pc[t] = "validate" THEN "insert" ELSE "p_insert") /\ UNCHANGED obj
     \/ Done(t)
  /\ UNCHANGED <<sharedObj, queues, inv, packet, Nodes, state, inventory, i,
                 told, dropped, inputs>>

\* processObj: sharedObj.insert(...), and return when it answers 2.
InsertReceived(t) ==
  /\ pc[t] = "insert"
  /\ sharedObj' = Insert(sharedObj, obj[t], Tag[obj[t]])
  /\ IF InsertCode(sharedObj, obj[t], Tag[obj[t]]) = 2
     THEN Done(t) /\ dropped' = dropped \cup {obj[t]}
     ELSE Goto(t, "announce") /\ UNCHANGED <<obj, dropped>>
  /\ UNCHANGED <<queues, inv, packet, Nodes, state, inventory, i, told, inputs>>

\* propagate: sharedObj.insert(...), whatever it answers.
InsertOwn(t) ==
  /\ pc[t] = "p_insert"
  /\ sharedObj' = Insert(sharedObj, obj[t], Tag[obj[t]])
  /\ Goto(t, "p_announce")
  /\ UNCHANGED <<queues, inv, packet, Nodes, state, inventory, i, obj, told,
                 dropped, inputs>>

\* new_inv.push(tag)
Announce(t) ==
  /\ pc[t] \in {"announce", "p_announce"}
  /\ new_inv' = Append(new_inv, Tag[obj[t]])
  /\ IF pc[t] = "announce" THEN Goto(t, "analyse") /\ UNCHANGED obj ELSE Done(t)
  /\ UNCHANGED <<sharedObj, objects, inv, new_packets, packet, Nodes, Packets,
                 state, inventory, i, told, dropped, inputs>>

\* The rest of processObj: a getpubkey for one of our addresses is answered
\* unless that address was shared less than four days ago; a msg for one of our
\* addresses makes decryptMsg propagate the ack in it.
Analyse(t) ==
  /\ pc[t] = "analyse"
  /\ \/ /\ Reply[obj[t]] # NoObject
        /\ Unborn(Reply[obj[t]])
        /\ objects' = Append(objects, Reply[obj[t]])
        /\ Done(t)
     \/ /\ Ack[obj[t]] # NoObject
        /\ obj' = [obj EXCEPT ![t] = Ack[obj[t]]]
        /\ Goto(t, "p_validate")
        /\ UNCHANGED objects
     \/ /\ Ack[obj[t]] = NoObject
        /\ Done(t)
        /\ UNCHANGED objects
  /\ UNCHANGED <<sharedObj, new_inv, inv, new_packets, packet, Nodes, Packets,
                 state, inventory, i, told, dropped, inputs>>

-----------------------------------------------------------------------------
(* BitMRC::processPOW, listen_inv, listen_packets; NodeConnection::Sender *)

\* Pop an own object and find its nonce; propagate follows.
ProcessPOW ==
  /\ pc[Pow] = "pop"
  /\ objects # <<>>
  /\ obj' = [obj EXCEPT ![Pow] = Head(objects)]
  /\ objects' = Tail(objects)
  /\ Goto(Pow, "p_validate")
  /\ UNCHANGED <<sharedObj, new_inv, inv, new_packets, packet, Nodes, Packets,
                 state, inventory, i, told, dropped, inputs>>

\* while (new_inv.size() > 0) inv.inventory.push_back(new_inv.pop())
DrainInv ==
  /\ pc[Inv] = "drain"
  /\ IF new_inv # <<>>
     THEN /\ inv' = inv \cup {Head(new_inv)}
          /\ new_inv' = Tail(new_inv)
          /\ UNCHANGED pc
     ELSE /\ inv # {}
          /\ Goto(Inv, "send")
          /\ UNCHANGED <<inv, new_inv>>
  /\ UNCHANGED <<sharedObj, objects, new_packets, packet, Nodes, Packets, state,
                 inventory, i, obj, told, dropped, inputs>>

\* send(inv)
SendInv ==
  /\ pc[Inv] = "send"
  /\ new_packets' = Append(new_packets, Pkt("inv", inv))
  /\ inv' = {}
  /\ Goto(Inv, "drain")
  /\ UNCHANGED <<sharedObj, objects, new_inv, packet, Nodes, Packets, state,
                 inventory, i, obj, told, dropped, inputs>>

ListenPacketsPop ==
  /\ pc[Fwd] = "pop"
  /\ new_packets # <<>>
  /\ packet' = Head(new_packets)
  /\ new_packets' = Tail(new_packets)
  /\ Goto(Fwd, "push")
  /\ UNCHANGED <<sharedObj, objects, new_inv, inv, Nodes, Packets, state,
                 inventory, i, obj, told, dropped, inputs>>

\* Under mutex_nodes, shared: the packet goes to every node's queue, closed
\* nodes included.
ListenPacketsPush ==
  /\ pc[Fwd] = "push"
  /\ Packets' = [n \in Peers |->
                   IF n \in Nodes THEN Append(Packets[n], packet) ELSE Packets[n]]
  /\ packet' = NoPacket
  /\ Goto(Fwd, "pop")
  /\ UNCHANGED <<sharedObj, objects, new_inv, inv, new_packets, Nodes, state,
                 inventory, i, obj, told, dropped, inputs>>

\* The Sender takes packets only from an accepted connection.
Sender(n) ==
  /\ state[n] = 2
  /\ Packets[n] # <<>>
  /\ LET p == Head(Packets[n]) IN
     told' = IF p.command = "inv" THEN [told EXCEPT ![n] = @ \cup p.tags] ELSE told
  /\ Packets' = [Packets EXCEPT ![n] = Tail(@)]
  /\ UNCHANGED <<sharedObj, objects, new_inv, inv, new_packets, packet, Nodes,
                 state, inventory, i, pc, obj, dropped, inputs>>

-----------------------------------------------------------------------------
FromPeer(n) ==
  \/ ReceiveVerack(n) \/ ReceiveInv(n) \/ ReceiveGetData(n)
  \/ ReceiveAddr(n) \/ ReceiveObject(n) \/ Disconnect(n)

Work(t) ==
  \/ Validate(t) \/ InsertReceived(t) \/ InsertOwn(t) \/ Announce(t) \/ Analyse(t)

Next ==
  \/ \E o \in Objects : SendObj(o)
  \/ \E n \in Peers : FromPeer(n) \/ Connect(n) \/ SendChunk(n) \/ ConnectNode(n) \/ Sender(n)
  \/ \E t \in Peers \cup {Pow} : Work(t)
  \/ ProcessPOW \/ DrainInv \/ SendInv \/ ListenPacketsPop \/ ListenPacketsPush

\* The client's threads are scheduled, searchPow finds a nonce, and a send to a
\* connected peer goes through or breaks the connection.  Peers, the user and
\* the clock owe nothing.
Fairness ==
  /\ \A n \in Peers : WF_vars(SendChunk(n)) /\ WF_vars(ConnectNode(n)) /\ WF_vars(Sender(n))
  /\ \A t \in Peers \cup {Pow} : WF_vars(Work(t))
  /\ WF_vars(ProcessPOW) /\ WF_vars(DrainInv) /\ WF_vars(SendInv)
  /\ WF_vars(ListenPacketsPop) /\ WF_vars(ListenPacketsPush)

Spec == Init /\ [][Next]_vars /\ Fairness

-----------------------------------------------------------------------------
(* Properties *)

\* Every variable keeps its type; in particular a thread inside processObj or
\* propagate works on an object, and listen_packets never pushes an empty packet.
TypeOK ==
  /\ sharedObj \in Tables(Objects)
  /\ objects \in Seq(Objects)
  /\ new_inv \in Seq(Hashes)
  /\ inv \in SUBSET Hashes
  /\ new_packets \in Seq(PacketType)
  /\ packet \in PacketType \cup {NoPacket}
  /\ pc[Fwd] = "push" => packet # NoPacket
  /\ Nodes \in SUBSET Peers
  /\ Packets \in [Peers -> Seq(PacketType)]
  /\ state \in [Peers -> 0 .. 3]
  /\ inventory \in [Peers -> SUBSET Hashes]
  /\ i \in [Peers -> Nat]
  /\ pc \in [Threads -> {"new", "connect", "closed", "recv", "chunk", "addr",
                         "validate", "insert", "announce", "analyse", "p_validate",
                         "p_insert", "p_announce", "pop", "push", "drain", "send"}]
  /\ obj \in [Peers \cup {Pow} -> Objects \cup {NoObject}]
  /\ \A t \in Peers \cup {Pow} :
       pc[t] \in {"validate", "insert", "announce", "analyse", "p_validate",
                  "p_insert", "p_announce"} => obj[t] \in Objects
  /\ told \in [Peers -> SUBSET Hashes]
  /\ dropped \in SUBSET Objects
  /\ inputs \in 0 .. MaxInputs

\* The tags an inv packet of the sequence carries.
InvTags(q) == UNION {p.tags : p \in {x \in {q[k] : k \in DOMAIN q} : x.command = "inv"}}

\* The tags on their way from processObj or propagate to the nodes' queues.
OnTheWay ==
  {new_inv[k] : k \in DOMAIN new_inv} \cup inv \cup InvTags(new_packets) \cup packet.tags

\* The tags that threads have stored and are about to push on new_inv.
AboutToAnnounce ==
  {Tag[obj[t]] : t \in {t \in Peers \cup {Pow} : pc[t] \in {"announce", "p_announce"}}}

Announced == OnTheWay \cup UNION {told[n] \cup InvTags(Packets[n]) : n \in Peers}

\* Whatever is announced, or in a queue to be announced, can be served: a
\* getdata for it finds the object in the table.  The threads store, announce
\* and serve with no lock in common, so this rests on the order of their steps.
AnnouncedIsServable ==
  \A t \in Announced :
    LET o == SearchByHash(sharedObj, t, NoObject) IN o # NoObject /\ Tag[o] = t

\* The table holds an object once, although several Listeners and processPOW
\* insert the same object at the same time.
StoredOnce ==
  \A b1, b2 \in Buckets :
    \A k1 \in DOMAIN sharedObj[b1], k2 \in DOMAIN sharedObj[b2] :
      sharedObj[b1][k1].info = sharedObj[b2][k2].info => b1 = b2 /\ k1 = k2

\* An accepted node misses nothing: every object of the table was in the
\* verack handler's copy, or its tag is on its way to that node, however its
\* handshake interleaves with the arrival of objects and with the broadcast of
\* inv packets.  Objects that processObj dropped are the exception.
NoAnnouncementGap ==
  \A n \in Peers : state[n] = 2 =>
    \A o \in Stored(sharedObj) \ dropped :
      Tag[o] \in told[n] \cup InvTags(Packets[n]) \cup OnTheWay \cup AboutToAnnounce

\* Once peers and user are quiet, every node that is still accepted has been
\* told of every stored object that processObj did not drop.
EveryNodeIsTold ==
  <>[](\A n \in Peers : state[n] = 2 =>
         {Tag[o] : o \in Stored(sharedObj) \ dropped} \subseteq told[n])

\* BitMRC.cpp: "exit because this object is already analized", after insert():
\* processObj returns before it announces and analyses an object exactly when
\* the table had the object before.
ExitsIffAlreadyAnalysed ==
  [][\A t \in Peers :
       pc[t] = "insert" /\ pc'[t] # "insert" =>
         (pc'[t] = "recv" <=> obj[t] \in Stored(sharedObj))]_vars

\* NodeConnection.cpp: the inv of the handshake "should be the whole list of
\* object hash": the verack handler comes to its end, unless the connection
\* breaks.
HandshakeEnds == \A n \in Peers : pc[n] = "chunk" ~> pc[n] # "chunk"
=============================================================================
