-------------------------- MODULE Lifecycle_proofs --------------------------
(***************************************************************************)
(* The life of the client, for any nodes and objects: while the destructor *)
(* runs, no thread uses a node that it has deleted, and when it has saved  *)
(* the objects no thread is left that could add one.                       *)
(***************************************************************************)
EXTENDS Lifecycle, TLAPS

-----------------------------------------------------------------------------
(* The inductive invariant, part by part. *)

\* Where the threads can be; the workers start when all seeds are connected.
MainPlaces == {"init", "started", "run", "lock", "close", "delete", "joinNode",
               "wake", "join", "save", "done"}
PeerPlaces == {"new", "connect", "recv", "connectNode", "end"}
Places ==
  /\ pc[Main] \in MainPlaces
  /\ \A n \in Peers : pc[n] \in PeerPlaces
  /\ pc[Main] = "init" => \A t \in Workers : pc[t] = "new"

\* Every node that was created is listed until the destructor clears the list, with
\* its lock held since before it closed the nodes.
Listed ==
  pc[Main] \in {"init", "started", "run", "lock", "close", "delete", "joinNode"} =>
    \A n \in Peers : pc[n] # "new" => n \in ToSet(Nodes)

\* From then on no Listener is left to connect a node, and the list stays empty.
Cleared ==
  pc[Main] \in {"wake", "join", "save", "done"} =>
    /\ Nodes = <<>>
    /\ \A n \in Peers : pc[n] \in {"new", "end"}

\* The destructor deletes nodes whose thread has ended, none before it has the lock.
Deleting ==
  /\ pc[Main] \in {"init", "started", "run", "lock", "close"} => deleted = {}
  /\ \A n \in deleted : pc[n] = "end"

\* When it saves, the threads of the client have ended, and it saves once.
Saving ==
  /\ pc[Main] \in {"save", "done"} => \A t \in Workers : pc[t] = "end"
  /\ pc[Main] # "done" => saved = {}

IInv == TypeOK /\ Places /\ Listed /\ Cleared /\ Deleting /\ Saving /\ SavedIsFinal

-----------------------------------------------------------------------------
(* Steps *)

\* The threads are different ones.
LEMMA DistinctThreads ==
  /\ Main \in Threads /\ Fwd \in Threads /\ Inv \in Threads /\ Pow \in Threads
  /\ Main # Fwd /\ Main # Inv /\ Main # Pow /\ Pow # Inv /\ Pow # Fwd /\ Inv # Fwd
  /\ Workers = {Pow, Inv, Fwd}
  /\ \A n \in Peers : n \in Threads /\ n # Main /\ n # Fwd /\ n # Inv /\ n # Pow
  /\ Free # Main /\ Free # Fwd /\ Main # Fwd
  BY LifecycleAssumption DEF Threads, Workers

\* What is listed behind a list.
LEMMA ListedBehind ==
  ASSUME NEW S, NEW s \in Seq(S), NEW x \in S
  PROVE  Append(s, x) \in Seq(S) /\ ToSet(Append(s, x)) = ToSet(s) \cup {x}
<1> DEFINE t == Append(s, x)
<1>1. /\ t \in Seq(S) /\ DOMAIN t = DOMAIN s \cup {Len(s) + 1}
      /\ \A i \in DOMAIN s : t[i] = s[i]
      /\ t[Len(s) + 1] = x
  OBVIOUS
<1> HIDE DEF t
<1>2. ToSet(t) = ToSet(s) \cup {x}
  BY <1>1 DEF ToSet
<1>3. QED BY <1>1, <1>2 DEF t

LEMMA InitIInv == Init => IInv
<1> SUFFICES ASSUME Init PROVE IInv
  OBVIOUS
<1> USE DistinctThreads DEF Init
<1>1. TypeOK
  BY LifecycleAssumption DEF TypeOK
<1>2. Places /\ Listed /\ Cleared
  BY DEF Places, MainPlaces, PeerPlaces, Listed, Cleared
<1>3. Deleting /\ Saving /\ SavedIsFinal
  BY DEF Deleting, Saving, SavedIsFinal
<1>4. QED BY <1>1, <1>2, <1>3 DEF IInv

\* connectNode lists one more node; it can only run while the destructor has not
\* taken the lock, or when nobody is left to call it.
LEMMA ConnectNodeLists ==
  ASSUME IInv, NEW m \in Peers, ConnectNode(m), pc'[m] = "connect",
         pc[Main] \in {"init", "run"} \/ \E n \in Peers : pc[n] = "connectNode"
  PROVE  /\ Nodes' \in Seq(Peers) /\ ToSet(Nodes') = ToSet(Nodes) \cup {m}
         /\ UNCHANGED <<closed, deleted, open>> /\ m \notin deleted
         /\ pc[Main] \in {"init", "started", "run", "lock"} /\ mutex_nodes = Free
<1>1. Nodes \in Seq(Peers) /\ mutex_nodes = Free /\ UNCHANGED <<closed, deleted, open>>
  BY DEF ConnectNode, IInv, TypeOK
<1>2. Nodes' \in Seq(Peers) /\ ToSet(Nodes') = ToSet(Nodes) \cup {m}
  BY <1>1, ListedBehind DEF ConnectNode
<1>3. pc[Main] \notin {"close", "delete", "joinNode"}
  BY <1>1, DistinctThreads DEF IInv, TypeOK
<1>4. pc[Main] \notin {"wake", "join", "save", "done"}
  BY DEF IInv, Cleared
<1>5. m \notin deleted
  BY DEF IInv, Deleting, ConnectNode
<1>6. QED BY <1>1, <1>2, <1>3, <1>4, <1>5 DEF ConnectNode, IInv, Places, MainPlaces

LEMMA InitSeedKeeps == IInv /\ InitSeed => IInv'
<1> SUFFICES ASSUME IInv, InitSeed PROVE IInv'
  OBVIOUS
<1> USE DistinctThreads DEF Goto
<1>1. PICK m \in Peers : ConnectNode(m) /\ pc' = [pc EXCEPT ![m] = "connect"]
  BY LifecycleAssumption DEF InitSeed
<1>2. /\ pc[Main] = "init"
      /\ UNCHANGED <<running, mutex_nodes, queues, obj, sharedObj, saved, inputs>>
  BY DEF InitSeed
<1>3. pc'[m] = "connect" /\ \A t \in Threads : t # m => pc'[t] = pc[t]
  BY <1>1 DEF IInv, TypeOK
<1>4. /\ Nodes' \in Seq(Peers) /\ ToSet(Nodes') = ToSet(Nodes) \cup {m}
      /\ UNCHANGED <<closed, deleted, open>> /\ m \notin deleted
  BY <1>1, <1>2, <1>3, ConnectNodeLists
<1>5. TypeOK'
  BY <1>1, <1>2, <1>3, <1>4 DEF IInv, TypeOK, queues, nodes
<1>6. Places' /\ Listed' /\ Cleared'
  BY <1>1, <1>2, <1>3, <1>4 DEF IInv, Places, MainPlaces, PeerPlaces, Listed, Cleared
<1>7. Deleting' /\ Saving' /\ SavedIsFinal'
  BY <1>1, <1>2, <1>3, <1>4 DEF IInv, Deleting, Saving, SavedIsFinal
<1>8. QED BY <1>5, <1>6, <1>7 DEF IInv

-----------------------------------------------------------------------------
(* BitMRC::start and the user. *)

LEMMA StartWorkersKeeps ==
  ASSUME IInv, StartWorkers PROVE IInv'
<1> USE LifecycleAssumption, DistinctThreads DEF Goto, Input, queues, nodes, StartWorkers
<1>1. TypeOK'
  BY DEF IInv, TypeOK, Places
<1>2. Places' /\ Listed' /\ Cleared'
  BY DEF IInv, TypeOK, Places, MainPlaces, PeerPlaces, Listed, Cleared
<1>3. Deleting' /\ Saving' /\ SavedIsFinal'
  BY DEF IInv, TypeOK, Deleting, Saving, SavedIsFinal, Cleared
<1>4. QED BY <1>1, <1>2, <1>3 DEF IInv

LEMMA SetRunningKeeps ==
  ASSUME IInv, SetRunning PROVE IInv'
<1> USE LifecycleAssumption, DistinctThreads DEF Goto, Input, queues, nodes, SetRunning
<1>1. TypeOK'
  BY DEF IInv, TypeOK
<1>2. Places' /\ Listed' /\ Cleared'
  BY DEF IInv, TypeOK, Places, MainPlaces, PeerPlaces, Listed, Cleared
<1>3. Deleting' /\ Saving' /\ SavedIsFinal'
  BY DEF IInv, TypeOK, Deleting, Saving, SavedIsFinal, Cleared
<1>4. QED BY <1>1, <1>2, <1>3 DEF IInv

LEMMA UserSendsKeeps ==
  ASSUME IInv, NEW o \in Own, UserSends(o) PROVE IInv'
<1> USE LifecycleAssumption, DistinctThreads DEF Goto, Input, queues, nodes, UserSends
<1>1. TypeOK'
  BY DEF IInv, TypeOK
<1>2. Places' /\ Listed' /\ Cleared'
  BY DEF IInv, TypeOK, Places, MainPlaces, PeerPlaces, Listed, Cleared
<1>3. Deleting' /\ Saving' /\ SavedIsFinal'
  BY DEF IInv, TypeOK, Deleting, Saving, SavedIsFinal, Cleared
<1>4. QED BY <1>1, <1>2, <1>3 DEF IInv

-----------------------------------------------------------------------------
(* A node's thread. *)

LEMMA ConnectFailsKeeps ==
  ASSUME IInv, NEW n \in Peers, ConnectFails(n) PROVE IInv'
<1> USE LifecycleAssumption, DistinctThreads DEF Goto, Input, queues, nodes, ConnectFails
<1>1. TypeOK'
  BY DEF IInv, TypeOK
<1>2. Places' /\ Listed' /\ Cleared'
  BY DEF IInv, TypeOK, Places, MainPlaces, PeerPlaces, Listed, Cleared
<1>3. Deleting' /\ Saving' /\ SavedIsFinal'
  BY DEF IInv, TypeOK, Deleting, Saving, SavedIsFinal, Cleared
<1>4. QED BY <1>1, <1>2, <1>3 DEF IInv

LEMMA ConnectedKeeps ==
  ASSUME IInv, NEW n \in Peers, Connected(n) PROVE IInv'
<1> USE LifecycleAssumption, DistinctThreads DEF Goto, Input, queues, nodes, Connected
<1>1. TypeOK'
  BY DEF IInv, TypeOK
<1>2. Places' /\ Listed' /\ Cleared'
  BY DEF IInv, TypeOK, Places, MainPlaces, PeerPlaces, Listed, Cleared
<1>3. Deleting' /\ Saving' /\ SavedIsFinal'
  BY DEF IInv, TypeOK, Deleting, Saving, SavedIsFinal, Cleared
<1>4. QED BY <1>1, <1>2, <1>3 DEF IInv

LEMMA ReceiveObjectKeeps ==
  ASSUME IInv, NEW n \in Peers, ReceiveObject(n) PROVE IInv'
<1> USE LifecycleAssumption, DistinctThreads DEF Goto, Input, queues, nodes, ReceiveObject
<1>1. TypeOK'
  <2>0. /\ sharedObj \in SUBSET (Objects \cup Own \cup {Empty})
        /\ new_inv \in Nat /\ objects \in Seq(Own \cup {Empty})
    BY DEF IInv, TypeOK
  <2>1. /\ sharedObj' \in SUBSET (Objects \cup Own \cup {Empty})
        /\ new_inv' \in Nat /\ objects' \in Seq(Own \cup {Empty})
    <3>1. CASE \E o \in Objects : sharedObj' = sharedObj \cup {o} /\ new_inv' = new_inv + 1
                                 /\ UNCHANGED objects
      BY <2>0, <3>1
    <3>2. CASE \E o \in Own : objects' = Append(objects, o) /\ UNCHANGED <<sharedObj, new_inv>>
      <4>1. PICK o \in Own : objects' = Append(objects, o) /\ UNCHANGED <<sharedObj, new_inv>>
        BY <3>2
      <4>2. objects' \in Seq(Own \cup {Empty})
        BY <2>0, <4>1, ListedBehind
      <4>3. QED BY <2>0, <4>1, <4>2
    <3>3. QED BY <3>1, <3>2
  <2>2. inputs' \in 0 .. MaxInputs
    BY DEF IInv, TypeOK
  <2>3. QED BY <2>1, <2>2 DEF IInv, TypeOK
<1>2. Places' /\ Listed' /\ Cleared'
  BY DEF IInv, TypeOK, Places, MainPlaces, PeerPlaces, Listed, Cleared
<1>3. Deleting' /\ Saving' /\ SavedIsFinal'
  BY DEF IInv, TypeOK, Deleting, Saving, SavedIsFinal, Cleared
<1>4. QED BY <1>1, <1>2, <1>3 DEF IInv

LEMMA ReceiveAddrKeeps ==
  ASSUME IInv, NEW n \in Peers, ReceiveAddr(n) PROVE IInv'
<1> USE LifecycleAssumption, DistinctThreads DEF Goto, Input, queues, nodes, ReceiveAddr
<1>1. TypeOK'
  <2>1. new_packets' \in Nat /\ inputs' \in 0 .. MaxInputs
    BY DEF IInv, TypeOK
  <2>2. /\ pc' = pc \/ pc' = [pc EXCEPT ![n] = "connectNode"]
        /\ pc'[Main] = pc[Main] /\ pc'[Fwd] = pc[Fwd]
    BY DEF IInv, TypeOK
  <2>3. QED BY <2>1, <2>2 DEF IInv, TypeOK
<1>2. Places' /\ Listed' /\ Cleared'
  BY DEF IInv, TypeOK, Places, MainPlaces, PeerPlaces, Listed, Cleared
<1>3. Deleting' /\ Saving' /\ SavedIsFinal'
  BY DEF IInv, TypeOK, Deleting, Saving, SavedIsFinal, Cleared
<1>4. QED BY <1>1, <1>2, <1>3 DEF IInv

LEMMA DisconnectKeeps ==
  ASSUME IInv, NEW n \in Peers, Disconnect(n) PROVE IInv'
<1> USE LifecycleAssumption, DistinctThreads DEF Goto, Input, queues, nodes, Disconnect
<1>1. TypeOK'
  BY DEF IInv, TypeOK
<1>2. Places' /\ Listed' /\ Cleared'
  BY DEF IInv, TypeOK, Places, MainPlaces, PeerPlaces, Listed, Cleared
<1>3. Deleting' /\ Saving' /\ SavedIsFinal'
  BY DEF IInv, TypeOK, Deleting, Saving, SavedIsFinal, Cleared
<1>4. QED BY <1>1, <1>2, <1>3 DEF IInv

LEMMA ListenerEndsKeeps ==
  ASSUME IInv, NEW n \in Peers, ListenerEnds(n) PROVE IInv'
<1> USE LifecycleAssumption, DistinctThreads DEF Goto, Input, queues, nodes, ListenerEnds
<1>1. TypeOK'
  BY DEF IInv, TypeOK
<1>2. Places' /\ Listed' /\ Cleared'
  BY DEF IInv, TypeOK, Places, MainPlaces, PeerPlaces, Listed, Cleared
<1>3. Deleting' /\ Saving' /\ SavedIsFinal'
  BY DEF IInv, TypeOK, Deleting, Saving, SavedIsFinal, Cleared
<1>4. QED BY <1>1, <1>2, <1>3 DEF IInv

-----------------------------------------------------------------------------
(* The workers. *)

LEMMA TestRunningKeeps ==
  ASSUME IInv, NEW t \in Workers, TestRunning(t) PROVE IInv'
<1> USE LifecycleAssumption, DistinctThreads DEF Goto, Input, queues, nodes, TestRunning
<1>1. TypeOK'
  BY DEF IInv, TypeOK
<1>2. Places' /\ Listed' /\ Cleared'
  BY DEF IInv, TypeOK, Places, MainPlaces, PeerPlaces, Listed, Cleared
<1>3. Deleting' /\ Saving' /\ SavedIsFinal'
  BY DEF IInv, TypeOK, Deleting, Saving, SavedIsFinal, Cleared
<1>4. QED BY <1>1, <1>2, <1>3 DEF IInv

LEMMA ListenPacketsPopKeeps ==
  ASSUME IInv, ListenPacketsPop PROVE IInv'
<1> USE LifecycleAssumption, DistinctThreads DEF Goto, Input, queues, nodes, ListenPacketsPop
<1>1. TypeOK'
  BY DEF IInv, TypeOK
<1>2. Places' /\ Listed' /\ Cleared'
  BY DEF IInv, TypeOK, Places, MainPlaces, PeerPlaces, Listed, Cleared
<1>3. Deleting' /\ Saving' /\ SavedIsFinal'
  BY DEF IInv, TypeOK, Deleting, Saving, SavedIsFinal, Cleared
<1>4. QED BY <1>1, <1>2, <1>3 DEF IInv

LEMMA ListenPacketsLockKeeps ==
  ASSUME IInv, ListenPacketsLock PROVE IInv'
<1> USE LifecycleAssumption, DistinctThreads DEF Goto, Input, queues, nodes, ListenPacketsLock
<1>1. TypeOK'
  BY DEF IInv, TypeOK
<1>2. Places' /\ Listed' /\ Cleared'
  BY DEF IInv, TypeOK, Places, MainPlaces, PeerPlaces, Listed, Cleared
<1>3. Deleting' /\ Saving' /\ SavedIsFinal'
  BY DEF IInv, TypeOK, Deleting, Saving, SavedIsFinal, Cleared
<1>4. QED BY <1>1, <1>2, <1>3 DEF IInv

LEMMA ListenPacketsPushKeeps ==
  ASSUME IInv, ListenPacketsPush PROVE IInv'
<1> USE LifecycleAssumption, DistinctThreads DEF Goto, Input, queues, nodes, ListenPacketsPush
<1>1. TypeOK'
  BY DEF IInv, TypeOK
<1>2. Places' /\ Listed' /\ Cleared'
  BY DEF IInv, TypeOK, Places, MainPlaces, PeerPlaces, Listed, Cleared
<1>3. Deleting' /\ Saving' /\ SavedIsFinal'
  BY DEF IInv, TypeOK, Deleting, Saving, SavedIsFinal, Cleared
<1>4. QED BY <1>1, <1>2, <1>3 DEF IInv

LEMMA ListenInvKeeps ==
  ASSUME IInv, ListenInv PROVE IInv'
<1> USE LifecycleAssumption, DistinctThreads DEF Goto, Input, queues, nodes, ListenInv
<1>1. TypeOK'
  BY DEF IInv, TypeOK
<1>2. Places' /\ Listed' /\ Cleared'
  BY DEF IInv, TypeOK, Places, MainPlaces, PeerPlaces, Listed, Cleared
<1>3. Deleting' /\ Saving' /\ SavedIsFinal'
  BY DEF IInv, TypeOK, Deleting, Saving, SavedIsFinal, Cleared
<1>4. QED BY <1>1, <1>2, <1>3 DEF IInv

LEMMA ProcessPOWPopKeeps ==
  ASSUME IInv, ProcessPOWPop PROVE IInv'
<1> USE LifecycleAssumption, DistinctThreads DEF Goto, Input, queues, nodes, ProcessPOWPop
<1>1. TypeOK'
  <2>1. obj' \in Own \cup {Empty} /\ objects' \in Seq(Own \cup {Empty})
    BY DEF IInv, TypeOK
  <2>2. QED BY <2>1 DEF IInv, TypeOK
<1>2. Places' /\ Listed' /\ Cleared'
  BY DEF IInv, TypeOK, Places, MainPlaces, PeerPlaces, Listed, Cleared
<1>3. Deleting' /\ Saving' /\ SavedIsFinal'
  BY DEF IInv, TypeOK, Deleting, Saving, SavedIsFinal, Cleared
<1>4. QED BY <1>1, <1>2, <1>3 DEF IInv

LEMMA ProcessPOWPropagateKeeps ==
  ASSUME IInv, ProcessPOWPropagate PROVE IInv'
<1> USE LifecycleAssumption, DistinctThreads DEF Goto, Input, queues, nodes, ProcessPOWPropagate
<1>1. TypeOK'
  BY DEF IInv, TypeOK
<1>2. Places' /\ Listed' /\ Cleared'
  BY DEF IInv, TypeOK, Places, MainPlaces, PeerPlaces, Listed, Cleared
<1>3. Deleting' /\ Saving' /\ SavedIsFinal'
  BY DEF IInv, TypeOK, Deleting, Saving, SavedIsFinal, Cleared
<1>4. QED BY <1>1, <1>2, <1>3 DEF IInv

-----------------------------------------------------------------------------
(* The destructor. *)

LEMMA StopKeeps ==
  ASSUME IInv, Stop PROVE IInv'
<1> USE LifecycleAssumption, DistinctThreads DEF Goto, Input, queues, nodes, Stop
<1>1. TypeOK'
  BY DEF IInv, TypeOK
<1>2. Places' /\ Listed' /\ Cleared'
  BY DEF IInv, TypeOK, Places, MainPlaces, PeerPlaces, Listed, Cleared
<1>3. Deleting' /\ Saving' /\ SavedIsFinal'
  BY DEF IInv, TypeOK, Deleting, Saving, SavedIsFinal, Cleared
<1>4. QED BY <1>1, <1>2, <1>3 DEF IInv

LEMMA LockNodesKeeps ==
  ASSUME IInv, LockNodes PROVE IInv'
<1> USE LifecycleAssumption, DistinctThreads DEF Goto, Input, queues, nodes, LockNodes
<1>1. TypeOK'
  BY DEF IInv, TypeOK
<1>2. Places' /\ Listed' /\ Cleared'
  BY DEF IInv, TypeOK, Places, MainPlaces, PeerPlaces, Listed, Cleared
<1>3. Deleting' /\ Saving' /\ SavedIsFinal'
  BY DEF IInv, TypeOK, Deleting, Saving, SavedIsFinal, Cleared
<1>4. QED BY <1>1, <1>2, <1>3 DEF IInv

LEMMA CloseNodesKeeps ==
  ASSUME IInv, CloseNodes PROVE IInv'
<1> USE LifecycleAssumption, DistinctThreads DEF Goto, Input, queues, nodes, CloseNodes, CloseNode
<1>1. TypeOK'
  BY DEF IInv, TypeOK
<1>2. Places' /\ Listed' /\ Cleared'
  BY DEF IInv, TypeOK, Places, MainPlaces, PeerPlaces, Listed, Cleared
<1>3. Deleting' /\ Saving' /\ SavedIsFinal'
  BY DEF IInv, TypeOK, Deleting, Saving, SavedIsFinal, Cleared
<1>4. QED BY <1>1, <1>2, <1>3 DEF IInv

LEMMA DeleteNodeKeeps ==
  ASSUME IInv, DeleteNode PROVE IInv'
<1> USE LifecycleAssumption, DistinctThreads DEF Goto, Input, queues, nodes, DeleteNode, CloseNode
<1>1. TypeOK'
  BY DEF IInv, TypeOK
<1>2. Places' /\ Listed' /\ Cleared'
  BY DEF IInv, TypeOK, Places, MainPlaces, PeerPlaces, Listed, Cleared
<1>3. Deleting' /\ Saving' /\ SavedIsFinal'
  BY DEF IInv, TypeOK, Deleting, Saving, SavedIsFinal, Cleared
<1>4. QED BY <1>1, <1>2, <1>3 DEF IInv

LEMMA JoinNodeKeeps ==
  ASSUME IInv, JoinNode PROVE IInv'
<1> USE LifecycleAssumption, DistinctThreads DEF Goto, Input, queues, nodes, JoinNode
<1>1. TypeOK'
  BY DEF IInv, TypeOK
<1>2. Places' /\ Listed' /\ Cleared'
  BY DEF IInv, TypeOK, Places, MainPlaces, PeerPlaces, Listed, Cleared
<1>3. Deleting' /\ Saving' /\ SavedIsFinal'
  BY DEF IInv, TypeOK, Deleting, Saving, SavedIsFinal, Cleared
<1>4. QED BY <1>1, <1>2, <1>3 DEF IInv

LEMMA ClearNodesKeeps ==
  ASSUME IInv, ClearNodes PROVE IInv'
<1> USE LifecycleAssumption, DistinctThreads DEF Goto, Input, queues, nodes, ClearNodes
<1>1. TypeOK'
  BY DEF IInv, TypeOK
<1>2. Places' /\ Listed' /\ Cleared'
  BY DEF IInv, TypeOK, Places, MainPlaces, PeerPlaces, Listed, Cleared, Deleting
<1>3. Deleting' /\ Saving' /\ SavedIsFinal'
  BY DEF IInv, TypeOK, Deleting, Saving, SavedIsFinal, Cleared
<1>4. QED BY <1>1, <1>2, <1>3 DEF IInv

LEMMA WakeWorkersKeeps ==
  ASSUME IInv, WakeWorkers PROVE IInv'
<1> USE LifecycleAssumption, DistinctThreads DEF Goto, Input, queues, nodes, WakeWorkers
<1>1. TypeOK'
  BY DEF IInv, TypeOK
<1>2. Places' /\ Listed' /\ Cleared'
  BY DEF IInv, TypeOK, Places, MainPlaces, PeerPlaces, Listed, Cleared
<1>3. Deleting' /\ Saving' /\ SavedIsFinal'
  BY DEF IInv, TypeOK, Deleting, Saving, SavedIsFinal, Cleared
<1>4. QED BY <1>1, <1>2, <1>3 DEF IInv

LEMMA JoinWorkersKeeps ==
  ASSUME IInv, JoinWorkers PROVE IInv'
<1> USE LifecycleAssumption, DistinctThreads DEF Goto, Input, queues, nodes, JoinWorkers
<1>1. TypeOK'
  BY DEF IInv, TypeOK
<1>2. Places' /\ Listed' /\ Cleared'
  BY DEF IInv, TypeOK, Places, MainPlaces, PeerPlaces, Listed, Cleared
<1>3. Deleting' /\ Saving' /\ SavedIsFinal'
  BY DEF IInv, TypeOK, Deleting, Saving, SavedIsFinal, Cleared
<1>4. QED BY <1>1, <1>2, <1>3 DEF IInv

LEMMA SaveKeeps ==
  ASSUME IInv, Save PROVE IInv'
<1> USE LifecycleAssumption, DistinctThreads DEF Goto, Input, queues, nodes, Save
<1>1. TypeOK'
  BY DEF IInv, TypeOK
<1>2. Places' /\ Listed' /\ Cleared'
  BY DEF IInv, TypeOK, Places, MainPlaces, PeerPlaces, Listed, Cleared
<1>3. Deleting' /\ Saving' /\ SavedIsFinal'
  BY DEF IInv, TypeOK, Deleting, Saving, SavedIsFinal, Cleared
<1>4. QED BY <1>1, <1>2, <1>3 DEF IInv

LEMMA UserConnectsKeeps ==
  ASSUME IInv, NEW m \in Peers, UserConnects(m) PROVE IInv'
<1> USE DistinctThreads DEF Goto
<1>1. /\ ConnectNode(m) /\ pc' = [pc EXCEPT ![m] = "connect"] /\ pc[Main] = "run"
      /\ UNCHANGED <<running, mutex_nodes, queues, obj, sharedObj, saved, inputs>>
  BY DEF UserConnects
<1>2. pc'[m] = "connect" /\ \A t \in Threads : t # m => pc'[t] = pc[t]
  BY <1>1 DEF IInv, TypeOK
<1>3. /\ Nodes' \in Seq(Peers) /\ ToSet(Nodes') = ToSet(Nodes) \cup {m}
      /\ UNCHANGED <<closed, deleted, open>> /\ m \notin deleted
  BY <1>1, <1>2, ConnectNodeLists
<1>4. TypeOK'
  BY <1>1, <1>2, <1>3 DEF IInv, TypeOK, queues, nodes
<1>5. Places' /\ Listed' /\ Cleared'
  BY <1>1, <1>2, <1>3 DEF IInv, Places, MainPlaces, PeerPlaces, Listed, Cleared
<1>6. Deleting' /\ Saving' /\ SavedIsFinal'
  BY <1>1, <1>2, <1>3 DEF IInv, Deleting, Saving, SavedIsFinal
<1>7. QED BY <1>4, <1>5, <1>6 DEF IInv

\* A Listener cannot connect while the destructor has the lock, and when it gives
\* the lock back no Listener is left.
LEMMA ListenerConnectsKeeps ==
  ASSUME IInv, NEW n \in Peers, ListenerConnects(n) PROVE IInv'
<1> USE DistinctThreads DEF Goto
<1>0. /\ pc[n] = "connectNode"
      /\ UNCHANGED <<running, mutex_nodes, queues, obj, sharedObj, saved, inputs>>
  BY DEF ListenerConnects
<1>1. ASSUME NEW m \in Peers, NEW where \in {"connectNode", "recv"}, ConnectNode(m),
             pc' = [pc EXCEPT ![m] = "connect", ![n] = where]
      PROVE  IInv'
  <2>1. pc[m] = "new" /\ m # n
    BY <1>0, <1>1 DEF ConnectNode
  <2>2. /\ pc'[m] = "connect" /\ pc'[n] = where
        /\ \A t \in Threads : t \notin {m, n} => pc'[t] = pc[t]
    BY <1>1, <2>1 DEF IInv, TypeOK
  <2>3. /\ Nodes' \in Seq(Peers) /\ ToSet(Nodes') = ToSet(Nodes) \cup {m}
        /\ UNCHANGED <<closed, deleted, open>> /\ m \notin deleted
        /\ pc[Main] \in {"init", "started", "run", "lock"}
    BY <1>0, <1>1, <2>2, ConnectNodeLists
  <2>4. n \notin deleted
    BY <2>3 DEF IInv, Deleting
  <2>5. TypeOK'
    BY <1>0, <1>1, <2>2, <2>3 DEF IInv, TypeOK, queues, nodes
  <2>6. Places' /\ Listed' /\ Cleared'
    BY <1>0, <1>1, <2>2, <2>3 DEF IInv, Places, MainPlaces, PeerPlaces, Listed, Cleared
  <2>7. Deleting' /\ Saving' /\ SavedIsFinal'
    BY <1>0, <2>2, <2>3, <2>4 DEF IInv, Deleting, Saving, SavedIsFinal
  <2>8. QED BY <2>5, <2>6, <2>7 DEF IInv
<1>2. ASSUME pc' = [pc EXCEPT ![n] = "recv"], UNCHANGED nodes
      PROVE  IInv'
  <2>1. pc'[n] = "recv" /\ \A t \in Threads : t # n => pc'[t] = pc[t]
    BY <1>2 DEF IInv, TypeOK
  <2>2. TypeOK'
    BY <1>0, <1>2, <2>1 DEF IInv, TypeOK, queues, nodes
  <2>3. Places' /\ Listed' /\ Cleared'
    BY <1>0, <1>2, <2>1 DEF IInv, nodes, Places, MainPlaces, PeerPlaces, Listed, Cleared
  <2>4. Deleting' /\ Saving' /\ SavedIsFinal'
    BY <1>0, <1>2, <2>1 DEF IInv, nodes, Deleting, Saving, SavedIsFinal
  <2>5. QED BY <2>2, <2>3, <2>4 DEF IInv
<1>3. QED BY <1>1, <1>2 DEF ListenerConnects

-----------------------------------------------------------------------------
LEMMA NextKeeps == IInv /\ [Next]_vars => IInv'
<1> SUFFICES ASSUME IInv, [Next]_vars PROVE IInv'
  OBVIOUS
<1>1. CASE StartStep
  BY <1>1, InitSeedKeeps, StartWorkersKeeps, SetRunningKeeps DEF StartStep
<1>2. CASE DestructorStep \/ Stop
  BY <1>2, StopKeeps, LockNodesKeeps, CloseNodesKeeps, DeleteNodeKeeps, JoinNodeKeeps,
     ClearNodesKeeps, WakeWorkersKeeps, JoinWorkersKeeps, SaveKeeps DEF DestructorStep
<1>3. CASE FwdStep \/ InvStep \/ PowStep
  BY <1>3, DistinctThreads, TestRunningKeeps, ListenPacketsPopKeeps, ListenPacketsLockKeeps,
     ListenPacketsPushKeeps, ListenInvKeeps, ProcessPOWPopKeeps, ProcessPOWPropagateKeeps
     DEF FwdStep, InvStep, PowStep
<1>4. ASSUME NEW o \in Own, UserSends(o) PROVE IInv'
  BY <1>4, UserSendsKeeps
<1>5. ASSUME NEW n \in Peers,
             \/ UserConnects(n) \/ ReceiveObject(n) \/ ReceiveAddr(n)
             \/ ListenerStep(n) \/ Disconnect(n)
      PROVE  IInv'
  BY <1>5, UserConnectsKeeps, ReceiveObjectKeeps, ReceiveAddrKeeps, ConnectFailsKeeps,
     ConnectedKeeps, ListenerConnectsKeeps, ListenerEndsKeeps, DisconnectKeeps DEF ListenerStep
<1>6. CASE UNCHANGED vars
  BY <1>6 DEF vars, nodes, queues, IInv, TypeOK, Places, Listed, Cleared, Deleting, Saving,
     SavedIsFinal
<1>7. QED BY <1>1, <1>2, <1>3, <1>4, <1>5, <1>6 DEF Next

\* The invariant holds throughout: what the next theorems rest on.
THEOREM IInvHolds == Spec => []IInv
  BY InitIInv, NextKeeps, PTL DEF Spec

\* Every variable of the client keeps its type, and mutex_nodes is held by the
\* destructor while it closes and deletes nodes, by listen_packets while it pushes.
THEOREM LifecycleType == Spec => []TypeOK
<1>1. IInv => TypeOK
  BY DEF IInv
<1>2. QED BY <1>1, IInvHolds, PTL

\* Whatever Listeners connect while the destructor runs, and however long the search
\* for a proof of work takes, what save() has written is all that is ever stored.
THEOREM NothingIsStoredAfterSave == Spec => []SavedIsFinal
<1>1. IInv => SavedIsFinal
  BY DEF IInv
<1>2. QED BY <1>1, IInvHolds, PTL

\* A deleted node's thread has ended, and listen_packets never pushes to a list that
\* has one: it would need the lock that the destructor holds from Close() to clear().
THEOREM NoUseAfterDelete == Spec => []DeletedIsUnused
<1>1. IInv => DeletedIsUnused
  <2> SUFFICES ASSUME IInv, pc[Fwd] = "push" PROVE ToSet(Nodes) \cap deleted = {}
    BY DEF IInv, Deleting, DeletedIsUnused
  <2>1. pc[Main] \notin {"close", "delete", "joinNode"}
    BY DistinctThreads DEF IInv, TypeOK
  <2>2. CASE deleted = {}
    BY <2>2
  <2>3. CASE deleted # {}
    <3>1. Nodes = <<>>
      BY <2>1, <2>3 DEF IInv, Places, MainPlaces, Deleting, Cleared
    <3>2. QED BY <3>1 DEF ToSet
  <2>4. QED BY <2>2, <2>3
<1>2. QED BY <1>1, IInvHolds, PTL
=============================================================================
