----------------------------- MODULE Lifecycle ------------------------------
(***************************************************************************)
(* The life of the client: BitMRC::start (init, the three threads of its   *)
(* own), its work, and ~BitMRC, which stops and joins every thread before  *)
(* it writes the objects to disk.  A node's threads are one here, which    *)
(* runs Connect() and then Listener(); module Connection has the details   *)
(* of both threads, and when a Close() reaches a socket that somebody is   *)
(* blocked in.  What the threads do with objects is in module Relay; here  *)
(* it is reduced to the insertions into sharedObj and the lengths of the   *)
(* queues.                                                                 *)
(*                                                                         *)
(* mutex_nodes is a shared_timed_mutex; listen_packets is its only reader, *)
(* so that one holder describes it.                                        *)
(***************************************************************************)
EXTENDS Naturals, Sequences, SequencesExt

CONSTANTS
  Peers,      \* the NodeConnections that can be created
  Seeds,      \* those that init() connects
  Objects,    \* objects that peers send
  Own,        \* objects this client creates
  Empty,      \* object(): what ~BitMRC pushes to wake processPOW
  Free,       \* mutex_nodes is not held
  MaxInputs,  \* bound: messages from peers, and user requests
  Main, Pow, Inv, Fwd  \* main(), processPOW, listen_inv, listen_packets

Workers == {Pow, Inv, Fwd}
Threads == Peers \cup Workers \cup {Main}

ASSUME LifecycleAssumption ==
  /\ Seeds \subseteq Peers
  /\ Empty \notin Own /\ Free \notin Threads
  /\ MaxInputs \in Nat
  /\ Pow # Inv /\ Pow # Fwd /\ Inv # Fwd /\ Main \notin Workers
  /\ Peers \cap (Workers \cup {Main}) = {}

VARIABLES
  running,      \* BitMRC::running: no constructor sets it
  mutex_nodes,  \* who holds it, or Free
  Nodes,        \* BitMRC::Nodes
  closed,       \* the NodeConnections that ~BitMRC has called Close() on
  deleted,      \* the NodeConnections that ~BitMRC has deleted
  open,         \* open[n]: n is connected, and nobody has shut its socket down
  new_packets,  \* length of the queue
  new_inv,      \* length of the queue
  objects,      \* the queue of objects that wait for their proof of work
  obj,          \* processPOW's local object
  sharedObj,    \* the objects in the hash table
  saved,        \* {}, or {T} when save() has written the table T
  pc,           \* where each thread is
  inputs        \* messages received and user requests so far (the bound only)

queues == <<new_packets, new_inv, objects>>
nodes == <<Nodes, closed, deleted, open>>
vars == <<running, mutex_nodes, nodes, queues, obj, sharedObj, saved, pc, inputs>>

Goto(t, where) == pc' = [pc EXCEPT ![t] = where]

Input == inputs < MaxInputs /\ inputs' = inputs + 1

Init ==
  /\ running \in BOOLEAN
  /\ mutex_nodes = Free
  /\ Nodes = <<>> /\ closed = {} /\ deleted = {}
  /\ open = [n \in Peers |-> FALSE]
  /\ new_packets = 0 /\ new_inv = 0 /\ objects = <<>>
  /\ obj = Empty
  /\ sharedObj = {} /\ saved = {}
  /\ pc = [t \in Threads |-> IF t = Main THEN "init" ELSE "new"]
  /\ inputs = 0

-----------------------------------------------------------------------------
(* Faulty variants of steps below: the properties must refuse them. *)

\* ~BitMRC deletes the nodes with no lock on them.
LockNodesNot ==
  /\ pc[Main] = "lock"
  /\ Goto(Main, "close")
  /\ UNCHANGED <<running, mutex_nodes, nodes, queues, obj, sharedObj, saved, inputs>>

\* ~BitMRC does not wait for processPOW.
JoinWorkersButPow ==
  /\ pc[Main] = "join"
  /\ pc[Fwd] = "end" /\ pc[Inv] = "end"
  /\ Goto(Main, "save")
  /\ UNCHANGED <<running, mutex_nodes, nodes, queues, obj, sharedObj, saved, inputs>>

\* ~BitMRC does not wake processPOW.
WakeWorkersButPow ==
  /\ pc[Main] = "wake"
  /\ new_packets' = new_packets + 1
  /\ new_inv' = new_inv + 1
  /\ Goto(Main, "join")
  /\ UNCHANGED <<running, mutex_nodes, nodes, objects, obj, sharedObj, saved, inputs>>

\* listen_packets walks over Nodes with no lock on them.
ListenPacketsLockNot ==
  /\ pc[Fwd] = "lock"
  /\ Goto(Fwd, "push")
  /\ UNCHANGED <<running, mutex_nodes, nodes, queues, obj, sharedObj, saved, inputs>>

-----------------------------------------------------------------------------
(* BitMRC::start, the user, and connectNode in any thread *)

\* connectNode(m): lock mutex_nodes, list the node, start its thread, unlock.
ConnectNode(m) ==
  /\ mutex_nodes = Free
  /\ pc[m] = "new"
  /\ Nodes' = Append(Nodes, m)
  /\ UNCHANGED <<closed, deleted, open>>

\* init() connects one more seed, whose thread runs from then on.
InitSeed ==
  /\ pc[Main] = "init"
  /\ \E m \in Seeds : ConnectNode(m) /\ Goto(m, "connect")
  /\ UNCHANGED <<running, mutex_nodes, queues, obj, sharedObj, saved, inputs>>

\* All seeds are connected; the three threads start and test running.
StartWorkers ==
  /\ pc[Main] = "init"
  /\ \A m \in Seeds : pc[m] # "new"
  /\ pc' = [t \in Threads |->
              IF t \in Workers THEN "test" ELSE IF t = Main THEN "started" ELSE pc[t]]
  /\ UNCHANGED <<running, mutex_nodes, nodes, queues, obj, sharedObj, saved, inputs>>

SetRunning ==
  /\ pc[Main] = "started"
  /\ running' = TRUE
  /\ Goto(Main, "run")
  /\ UNCHANGED <<mutex_nodes, nodes, queues, obj, sharedObj, saved, inputs>>

\* A command of the user that creates an object, or that connects a node.
UserSends(o) ==
  /\ pc[Main] = "run"
  /\ Input
  /\ objects' = Append(objects, o)
  /\ UNCHANGED <<running, mutex_nodes, nodes, new_packets, new_inv, obj,
                 sharedObj, saved, pc>>

UserConnects(m) ==
  /\ pc[Main] = "run"
  /\ ConnectNode(m) /\ Goto(m, "connect")
  /\ UNCHANGED <<running, mutex_nodes, queues, obj, sharedObj, saved, inputs>>

-----------------------------------------------------------------------------
(* NodeConnection::Connect *)

\* No address is found or accepts, or the connection was closed meanwhile.
ConnectFails(n) ==
  /\ pc[n] = "connect"
  /\ Goto(n, "end")
  /\ UNCHANGED <<running, mutex_nodes, nodes, queues, obj, sharedObj, saved, inputs>>

\* state = 1, whatever it was.  A Close() before this has shut the socket down, or came
\* too early (state was still 0, or 0 again between two addresses) and has no effect.
Connected(n) ==
  /\ pc[n] = "connect"
  /\ Goto(n, "recv")
  /\ open' = [open EXCEPT ![n] = TRUE] \/ (n \in closed /\ UNCHANGED open)
  /\ UNCHANGED <<running, mutex_nodes, Nodes, closed, deleted, queues, obj, sharedObj, saved,
                 inputs>>

-----------------------------------------------------------------------------
(* NodeConnection::Listener.  What a peer has sent before its socket was shut down is
   still read. *)

\* processObj stores an object and announces it, or answers a getpubkey with an
\* object of ours.
ReceiveObject(n) ==
  /\ pc[n] = "recv"
  /\ Input
  /\ \/ /\ \E o \in Objects : sharedObj' = sharedObj \cup {o}
        /\ new_inv' = new_inv + 1
        /\ UNCHANGED objects
     \/ /\ \E o \in Own : objects' = Append(objects, o)
        /\ UNCHANGED <<sharedObj, new_inv>>
  /\ UNCHANGED <<running, mutex_nodes, nodes, new_packets, obj, saved, pc>>

\* An addr packet goes to every node; then connectNode for each IPv4 address.
ReceiveAddr(n) ==
  /\ pc[n] = "recv"
  /\ Input
  /\ new_packets' = new_packets + 1
  /\ Goto(n, "connectNode") \/ UNCHANGED pc
  /\ UNCHANGED <<running, mutex_nodes, nodes, new_inv, objects, obj,
                 sharedObj, saved>>

\* connectNode for one address, the last of the packet or not.  (When Peers is
\* used up the node is outside the model.)
ListenerConnects(n) ==
  /\ pc[n] = "connectNode"
  /\ \/ \E m \in Peers, where \in {"connectNode", "recv"} :
          /\ ConnectNode(m)
          /\ pc' = [pc EXCEPT ![m] = "connect", ![n] = where]
     \/ /\ mutex_nodes = Free
        /\ \A m \in Peers : pc[m] # "new"
        /\ Goto(n, "recv")
        /\ UNCHANGED nodes
  /\ UNCHANGED <<running, mutex_nodes, queues, obj, sharedObj, saved, inputs>>

\* The peer goes away: both threads of the node end.
Disconnect(n) ==
  /\ pc[n] = "recv" /\ open[n]
  /\ open' = [open EXCEPT ![n] = FALSE]
  /\ Goto(n, "end")
  /\ UNCHANGED <<running, mutex_nodes, Nodes, closed, deleted, queues, obj, sharedObj, saved,
                 inputs>>

\* recv on a socket that a Close() has shut down.
ListenerEnds(n) ==
  /\ pc[n] = "recv" /\ ~open[n]
  /\ Goto(n, "end")
  /\ UNCHANGED <<running, mutex_nodes, nodes, queues, obj, sharedObj, saved, inputs>>

-----------------------------------------------------------------------------
(* The workers *)

\* while (this->running)
TestRunning(t) ==
  /\ pc[t] = "test"
  /\ Goto(t, IF ~running THEN "end" ELSE IF t = Inv THEN "drain" ELSE "pop")
  /\ UNCHANGED <<running, mutex_nodes, nodes, queues, obj, sharedObj, saved, inputs>>

ListenPacketsPop ==
  /\ pc[Fwd] = "pop" /\ new_packets > 0
  /\ new_packets' = new_packets - 1
  /\ Goto(Fwd, "lock")
  /\ UNCHANGED <<running, mutex_nodes, nodes, new_inv, objects, obj,
                 sharedObj, saved, inputs>>

ListenPacketsLock ==
  /\ pc[Fwd] = "lock" /\ mutex_nodes = Free
  /\ mutex_nodes' = Fwd
  /\ Goto(Fwd, "push")
  /\ UNCHANGED <<running, nodes, queues, obj, sharedObj, saved, inputs>>

\* The packet goes to every node of Nodes.
ListenPacketsPush ==
  /\ pc[Fwd] = "push"
  /\ mutex_nodes' = Free
  /\ Goto(Fwd, "test")
  /\ UNCHANGED <<running, nodes, queues, obj, sharedObj, saved, inputs>>

\* Drain new_inv and send the inv packet, unless it is empty.
ListenInv ==
  /\ pc[Inv] = "drain"
  /\ new_inv' = 0
  /\ new_packets' = IF new_inv > 0 THEN new_packets + 1 ELSE new_packets
  /\ Goto(Inv, "test")
  /\ UNCHANGED <<running, mutex_nodes, nodes, objects, obj, sharedObj,
                 saved, inputs>>

\* The object() of ~BitMRC has an uninitialised command: it is skipped unless
\* the memory it was made in still says "object".
ProcessPOWPop ==
  /\ pc[Pow] = "pop" /\ objects # <<>>
  /\ obj' = Head(objects)
  /\ objects' = Tail(objects)
  /\ \/ Goto(Pow, "propagate")
     \/ Head(objects) = Empty /\ Goto(Pow, "test")
  /\ UNCHANGED <<running, mutex_nodes, nodes, new_packets, new_inv,
                 sharedObj, saved, inputs>>

\* searchPow, which does not look at running, and propagate, which drops an object
\* that validateObj refuses (too old by the time its nonce is found).
ProcessPOWPropagate ==
  /\ pc[Pow] = "propagate"
  /\ \/ sharedObj' = sharedObj \cup {obj} /\ new_inv' = new_inv + 1
     \/ UNCHANGED <<sharedObj, new_inv>>
  /\ Goto(Pow, "test")
  /\ UNCHANGED <<running, mutex_nodes, nodes, new_packets, objects, obj, saved, inputs>>

-----------------------------------------------------------------------------
(* ~BitMRC, in the main thread *)

\* The user quits: running = false.
Stop ==
  /\ pc[Main] = "run"
  /\ running' = FALSE
  /\ Goto(Main, "lock")
  /\ UNCHANGED <<mutex_nodes, nodes, queues, obj, sharedObj, saved, inputs>>

LockNodes ==
  /\ pc[Main] = "lock" /\ mutex_nodes = Free
  /\ mutex_nodes' = Main
  /\ Goto(Main, "close")
  /\ UNCHANGED <<running, nodes, queues, obj, sharedObj, saved, inputs>>

\* n is the first of Nodes that is not in S.
FirstBut(S, n) ==
  \E k \in DOMAIN Nodes : n = Nodes[k] /\ {Nodes[j] : j \in 1 .. k - 1} = S

\* What a Close() by the destructor does: it shuts the socket down, or does not reach it,
\* because state is 0 or the number in Socket is another connection's by now.
CloseNode(n) == open' = [open EXCEPT ![n] = FALSE] \/ UNCHANGED open

\* Nodes[i]->Close(), for the next i, or the end of the loop.
CloseNodes ==
  /\ pc[Main] = "close"
  /\ \/ /\ \E n \in Peers : FirstBut(closed, n) /\ closed' = closed \cup {n} /\ CloseNode(n)
        /\ UNCHANGED pc
     \/ closed = ToSet(Nodes) /\ Goto(Main, "delete") /\ UNCHANGED <<closed, open>>
  /\ UNCHANGED <<running, mutex_nodes, Nodes, deleted, queues, obj, sharedObj, saved, inputs>>

\* delete Nodes[i] for the next i: ~NodeConnection begins with a Close() of its own.
DeleteNode ==
  /\ pc[Main] = "delete"
  /\ \E n \in Peers : FirstBut(deleted, n) /\ CloseNode(n)
  /\ Goto(Main, "joinNode")
  /\ UNCHANGED <<running, mutex_nodes, Nodes, closed, deleted, queues, obj, sharedObj, saved,
                 inputs>>

\* ~NodeConnection joins the node's threads.
JoinNode ==
  /\ pc[Main] = "joinNode"
  /\ \E n \in Peers : FirstBut(deleted, n) /\ pc[n] = "end" /\ deleted' = deleted \cup {n}
  /\ Goto(Main, "delete")
  /\ UNCHANGED <<running, mutex_nodes, Nodes, closed, open, queues, obj, sharedObj, saved,
                 inputs>>

\* Nodes.clear(), and the mutex is free again.
ClearNodes ==
  /\ pc[Main] = "delete" /\ deleted = ToSet(Nodes)
  /\ Nodes' = <<>>
  /\ mutex_nodes' = Free
  /\ Goto(Main, "wake")
  /\ UNCHANGED <<running, closed, deleted, open, queues, obj, sharedObj, saved, inputs>>

\* Something for each worker that may be waiting in pop().
WakeWorkers ==
  /\ pc[Main] = "wake"
  /\ new_packets' = new_packets + 1
  /\ new_inv' = new_inv + 1
  /\ objects' = Append(objects, Empty)
  /\ Goto(Main, "join")
  /\ UNCHANGED <<running, mutex_nodes, nodes, obj, sharedObj, saved, inputs>>

JoinWorkers ==
  /\ pc[Main] = "join"
  /\ \A t \in Workers : pc[t] = "end"
  /\ Goto(Main, "save")
  /\ UNCHANGED <<running, mutex_nodes, nodes, queues, obj, sharedObj, saved, inputs>>

\* save("save"); then the members are destroyed.
Save ==
  /\ pc[Main] = "save"
  /\ saved' = {sharedObj}
  /\ Goto(Main, "done")
  /\ UNCHANGED <<running, mutex_nodes, nodes, queues, obj, sharedObj, inputs>>

-----------------------------------------------------------------------------
StartStep == InitSeed \/ StartWorkers \/ SetRunning
DestructorStep ==
  \/ LockNodes \/ CloseNodes \/ DeleteNode \/ JoinNode \/ ClearNodes
  \/ WakeWorkers \/ JoinWorkers \/ Save
FwdStep == TestRunning(Fwd) \/ ListenPacketsPop \/ ListenPacketsLock \/ ListenPacketsPush
InvStep == TestRunning(Inv) \/ ListenInv
PowStep == TestRunning(Pow) \/ ProcessPOWPop \/ ProcessPOWPropagate
ListenerStep(n) ==
  ConnectFails(n) \/ Connected(n) \/ ListenerConnects(n) \/ ListenerEnds(n)

Next ==
  \/ StartStep \/ DestructorStep \/ Stop
  \/ FwdStep \/ InvStep \/ PowStep
  \/ \E o \in Own : UserSends(o)
  \/ \E n \in Peers :
       \/ UserConnects(n) \/ ReceiveObject(n) \/ ReceiveAddr(n)
       \/ ListenerStep(n) \/ Disconnect(n)

\* The threads are scheduled, a free mutex is granted, searchPow finds a nonce, connect()
\* returns and an addr packet is finite.  User and peers owe nothing.
Fairness ==
  /\ WF_vars(StartStep) /\ WF_vars(DestructorStep)
  /\ WF_vars(FwdStep) /\ WF_vars(InvStep) /\ WF_vars(PowStep)
  /\ \A n \in Peers : WF_vars(ListenerStep(n))

Spec == Init /\ [][Next]_vars /\ Fairness

-----------------------------------------------------------------------------
(* Properties *)

\* Every variable keeps its type; ~BitMRC closes and deletes nodes, and
\* listen_packets walks over them, holding mutex_nodes.
TypeOK ==
  /\ running \in BOOLEAN
  /\ mutex_nodes \in {Free, Main, Fwd}
  /\ mutex_nodes = Main <=> pc[Main] \in {"close", "delete", "joinNode"}
  /\ mutex_nodes = Fwd <=> pc[Fwd] = "push"
  /\ Nodes \in Seq(Peers)
  /\ closed \in SUBSET Peers /\ deleted \in SUBSET Peers
  /\ open \in [Peers -> BOOLEAN]
  /\ new_packets \in Nat /\ new_inv \in Nat
  /\ objects \in Seq(Own \cup {Empty})
  /\ obj \in Own \cup {Empty}
  /\ sharedObj \in SUBSET (Objects \cup Own \cup {Empty})
  /\ saved \in SUBSET SUBSET (Objects \cup Own \cup {Empty})
  /\ pc \in [Threads ->
       {"init", "started", "run", "lock", "close", "delete", "joinNode", "wake", "join",
        "save", "done", "new", "connect", "recv", "connectNode", "test", "pop", "push", "drain",
        "propagate", "end"}]
  /\ inputs \in 0 .. MaxInputs

\* Nothing is stored behind save()'s back: once it has written the table, no
\* thread is left that could add an object which the next start would miss.
\* Listeners, nodes that other nodes' Listeners connect while the destructor
\* runs, and processPOW all add objects until they are joined.
SavedIsFinal == \A written \in saved : written = sharedObj

\* No thread uses a NodeConnection that has been deleted: its own thread has
\* ended, and listen_packets never walks over Nodes between the first delete
\* and Nodes.clear().
DeletedIsUnused ==
  /\ \A n \in deleted : pc[n] = "end"
  /\ pc[Fwd] = "push" => ToSet(Nodes) \cap deleted = {}

\* The socket of every Listener has been shut down, and none is in Connect(), where it
\* may yet come up with a socket that nobody closes, or in connectNode.
AllShut ==
  pc[Main] = "delete" /\ \A n \in Peers : pc[n] \in {"new", "end"} \/ (pc[n] = "recv" /\ ~open[n])

\* When every Close() of the destructor has reached its socket, the destructor comes to
\* its end, with every thread joined and the objects saved, unless a Listener finds an
\* addr packet that came before, and waits in connectNode for the destructor's mutex.
ShutdownCompletes ==
  AllShut ~> (pc[Main] = "done" \/ \E n \in Peers : pc[n] = "connectNode")

\* BitMRC.cpp: "important: clear thread first then clear data": the destructor ends every
\* thread, and then clears the data, when every Close() has reached its socket.
DestructorClears ==
  (pc[Main] = "delete" /\ \A n \in Peers : pc[n] # "connect" /\ ~open[n]) ~> pc[Main] = "done"

\* BitMRC.h: start() "starts threads": they run until the destructor stops them.
StartedThreadsRun == pc[Main] \in {"started", "run"} => \A t \in Workers : pc[t] # "end"
=============================================================================
