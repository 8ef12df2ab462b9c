-------------------------- MODULE Connection_proofs --------------------------
(***************************************************************************)
(* The connections, for any number of them, of descriptors and of packets: *)
(* a packet of the queue leaves only behind the inventory that answers the *)
(* peer's verack, and a connection that ends by itself, of a host with one *)
(* address, is marked as closed and leaves no descriptor open, whoever     *)
(* else got the number of a descriptor that its threads closed.            *)
(***************************************************************************)
EXTENDS Connection, TLAPS

-----------------------------------------------------------------------------
(* The inductive invariant, part by part. *)

Connecting == {"start", "resolve", "socket", "check", "connect"}
ListenerPlaces ==
  Connecting \cup {"refused", "connected", "version", "recv", "accept", "mark",
                  "closesocket", "end"}
SenderPlaces == {"none", "test", "pop", "send", "mark", "closesocket", "end"}
MainPlaces == {"run", "pick", "mark", "closesocket", "sentinel", "join", "done"}
Everywhere == ListenerPlaces \cup SenderPlaces \cup MainPlaces

\* Where a connection's threads can be: the Sender starts when Connect() is over, an
\* address is left while it tries, and an address refused or the end leaves state 0.
Placed(c) ==
  /\ pc[L(c)] \in ListenerPlaces /\ pc[S(c)] \in SenderPlaces
  /\ pc[L(c)] \in Connecting => addr[c] < NAddrs
  /\ pc[L(c)] \in Connecting \cup {"refused", "connected"} => pc[S(c)] = "none"
  /\ pc[L(c)] \in {"refused", "closesocket", "end"} => state[c] = 0

\* The queue is open only when the verack has been answered.
Answered(c) ==
  state[c] = 2 \/ pc[L(c)] = "accept" \/ pc[S(c)] \in {"pop", "send"} => greeted[c]

\* Where the destructor can be.
MainPlaced ==
  /\ pc[Main] \in MainPlaces
  /\ pc[Main] = "run" => visit = 0
  /\ pc[Main] \in {"mark", "closesocket"} => visit >= 1
  /\ pc[Main] \in {"sentinel", "join"} => Deletes(visit)

\* ~NodeConnection of the n-th connection has not pushed its empty packet.
Awaited(n) ==
  \/ visit < Len(Nodes) + n
  \/ visit = Len(Nodes) + n /\ pc[Main] \in {"mark", "closesocket", "sentinel"}

\* Only that packet makes a queue longer than its bound.
OneSentinel ==
  \A n \in DOMAIN Nodes : Awaited(n) => Packets[Nodes[n]] <= MaxPackets[Nodes[n]]

\* A thread is inside connect() or recv() where it calls them, and a call that nobody
\* has ended is in a socket that is open.
Held(c) ==
  /\ call[c] # "no" => pc[L(c)] \in {"connect", "recv"}
  /\ call[c] = "in" => Net(c) # "closed"

EachHeld == \A c \in Conns : Held(c)

IInv ==
  /\ TypeOK /\ MainPlaced /\ OneSentinel
  /\ \A c \in Conns : Placed(c) /\ Answered(c)

-----------------------------------------------------------------------------
(* Steps *)

\* The threads are different ones.
LEMMA DistinctThreads ==
  /\ Main \in Threads /\ Threads = {Main} \cup {L(c) : c \in Conns} \cup {S(c) : c \in Conns}
  /\ \A c \in Conns : L(c) \in Threads /\ S(c) \in Threads
  /\ \A c, d \in Conns : L(c) # S(d) /\ L(c) # Main /\ S(c) # Main
  /\ \A c, d \in Conns : c # d => L(c) # L(d) /\ S(c) # S(d)
  /\ \A c \in Conns : /\ ConnOf(L(c)) = c /\ ConnOf(S(c)) = c
                      /\ AfterClose(L(c)) = "end" /\ AfterClose(S(c)) = "end"
<1>1. /\ Main \in Threads /\ Threads = {Main} \cup {L(c) : c \in Conns} \cup {S(c) : c \in Conns}
      /\ \A c \in Conns : L(c) \in Threads /\ S(c) \in Threads
  BY DEF Threads
<1>2. \A c, d \in Conns : L(c) # S(d) /\ L(c) # Main /\ S(c) # Main
  BY DEF L, S, Main
<1>3. \A c, d \in Conns : c # d => L(c) # L(d) /\ S(c) # S(d)
  BY DEF L, S
<1>4. \A c \in Conns : L(c)[2] = c /\ S(c)[2] = c
  BY DEF L, S
<1> QED BY <1>1, <1>2, <1>3, <1>4 DEF ConnOf, AfterClose

\* The connection of a turn is one of Nodes.
LEMMA Targets ==
  /\ Len(Nodes) \in Nat /\ DOMAIN Nodes = 1 .. Len(Nodes)
  /\ \A n \in DOMAIN Nodes : Nodes[n] \in Conns
  /\ \A m, n \in DOMAIN Nodes : Nodes[m] = Nodes[n] => m = n
  /\ \A v \in 1 .. 2 * Len(Nodes) : Target(v) \in Conns
  /\ \A v \in 1 .. 2 * Len(Nodes) :
       Deletes(v) => v - Len(Nodes) \in DOMAIN Nodes /\ Target(v) = Nodes[v - Len(Nodes)]
<1>1. Nodes \in Seq(Conns)
  BY ConnectionAssumption
<1>2. /\ Len(Nodes) \in Nat /\ DOMAIN Nodes = 1 .. Len(Nodes)
      /\ \A n \in DOMAIN Nodes : Nodes[n] \in Conns
  BY <1>1
<1>3. \A m, n \in DOMAIN Nodes : Nodes[m] = Nodes[n] => m = n
  BY ConnectionAssumption DEF IsInjective
<1>4. \A v \in 1 .. 2 * Len(Nodes) :
        IF Deletes(v) THEN v - Len(Nodes) \in DOMAIN Nodes ELSE v \in DOMAIN Nodes
  BY <1>2 DEF Deletes
<1>5. \A v \in 1 .. 2 * Len(Nodes) : Target(v) \in Conns
  BY <1>2, <1>4 DEF Target
<1> QED BY <1>2, <1>3, <1>4, <1>5 DEF Target

\* A thread that goes somewhere leaves the others where they are.
LEMMA GoesAlone ==
  ASSUME TypeOK, NEW t \in Threads, NEW where \in Everywhere, Goto(t, where)
  PROVE  /\ pc' \in [Threads -> Everywhere]
         /\ pc'[t] = where /\ \A u \in Threads : u # t => pc'[u] = pc[u]
  BY DEF TypeOK, Goto, Everywhere, ListenerPlaces, SenderPlaces, MainPlaces, Connecting

\* The parts of TypeOK that most steps leave alone.
LEMMA TypesKept ==
  ASSUME TypeOK, pc' \in [Threads -> Everywhere], state' \in [Conns -> 0 .. 3],
         Socket' \in [Conns -> Fds \cup {NoFd}],
         file' \in [Fds -> [owner : Conns, net : {"new", "up", "down"}] \cup {Closed}],
         addr' \in [Conns -> 0 .. NAddrs], call' \in [Conns -> Calls],
         UNCHANGED <<Packets, visit, greeted>>
  PROVE  TypeOK'
  BY DEF TypeOK, Everywhere, ListenerPlaces, SenderPlaces, MainPlaces, Connecting

\* A step of a connection's own threads, or into its queue.
LEMMA ConnectionStep ==
  ASSUME IInv, NEW c \in Conns, TypeOK', Placed(c)', Answered(c)',
         \A u \in Threads : u # L(c) /\ u # S(c) => pc'[u] = pc[u],
         \A d \in Conns : d # c => /\ state'[d] = state[d] /\ addr'[d] = addr[d]
                                   /\ greeted'[d] = greeted[d],
         visit' = visit,
         \A d \in Conns : Packets'[d] <= Packets[d] \/ Packets'[d] <= MaxPackets[d]
  PROVE  IInv'
<1>1. pc'[Main] = pc[Main]
  BY DistinctThreads
<1>2. MainPlaced'
  BY <1>1 DEF IInv, MainPlaced, MainPlaces, Deletes
<1>3. OneSentinel'
  <2>1. ASSUME NEW n \in DOMAIN Nodes, Awaited(n)'
        PROVE  Packets'[Nodes[n]] <= MaxPackets[Nodes[n]]
    <3>1. Packets[Nodes[n]] <= MaxPackets[Nodes[n]]
      BY <1>1, <2>1 DEF Awaited, IInv, OneSentinel
    <3>2. /\ Nodes[n] \in Conns /\ Packets[Nodes[n]] \in Nat /\ Packets'[Nodes[n]] \in Nat
          /\ MaxPackets[Nodes[n]] \in Nat
      BY Targets, ConnectionAssumption DEF IInv, TypeOK
    <3> QED BY <3>1, <3>2
  <2> QED BY <2>1 DEF OneSentinel
<1>4. ASSUME NEW d \in Conns, d # c PROVE Placed(d)' /\ Answered(d)'
  <2>1. pc'[L(d)] = pc[L(d)] /\ pc'[S(d)] = pc[S(d)]
    BY <1>4, DistinctThreads
  <2>2. Placed(d) /\ Answered(d)
    BY DEF IInv
  <2> QED BY <1>4, <2>1, <2>2 DEF Placed, Answered
<1> QED BY <1>2, <1>3, <1>4 DEF IInv

\* A step of the destructor that changes no queue.
LEMMA MainStepKeeps ==
  ASSUME IInv, TypeOK', MainPlaced', \A u \in Threads : u # Main => pc'[u] = pc[u],
         \A d \in Conns : state'[d] \in {0, state[d]}, UNCHANGED <<addr, greeted, Packets>>,
         \A n \in DOMAIN Nodes : Awaited(n)' => Awaited(n)
  PROVE  IInv'
<1>1. OneSentinel'
  BY DEF IInv, OneSentinel
<1>2. ASSUME NEW d \in Conns PROVE Placed(d)' /\ Answered(d)'
  <2>1. pc'[L(d)] = pc[L(d)] /\ pc'[S(d)] = pc[S(d)]
    BY DistinctThreads
  <2>2. Placed(d) /\ Answered(d)
    BY DEF IInv
  <2> QED BY <2>1, <2>2 DEF Placed, Answered
<1> QED BY <1>1, <1>2 DEF IInv

LEMMA InitIInv == Init => IInv
<1> SUFFICES ASSUME Init PROVE IInv
  OBVIOUS
<1>1. /\ \A c \in Conns : pc[L(c)] = "start" /\ pc[S(c)] = "none"
      /\ pc[Main] = "run" /\ visit = 0
  <2>1. \A c \in Conns : L(c)[1] = "listener" /\ S(c)[1] = "sender"
    BY DEF L, S
  <2> QED BY <2>1, DistinctThreads DEF Init
<1>2. TypeOK
  BY ConnectionAssumption, Targets DEF Init, TypeOK, Calls
<1>3. MainPlaced
  BY <1>1 DEF MainPlaced, MainPlaces
<1>4. OneSentinel
  BY Targets, ConnectionAssumption DEF Init, OneSentinel
<1>5. ASSUME NEW c \in Conns PROVE Placed(c) /\ Answered(c)
  BY <1>1, ConnectionAssumption
  DEF Init, Placed, Answered, Connecting, ListenerPlaces, SenderPlaces
<1> QED BY <1>2, <1>3, <1>4, <1>5 DEF IInv

\* What a thread may do with the descriptors keeps their table a table.
LEMMA FileSteps ==
  ASSUME TypeOK
  PROVE  /\ \A c \in Conns, n \in {"up", "down"} :
              Net(c) # "closed" =>
                [file EXCEPT ![Socket[c]].net = n]
                  \in [Fds -> [owner : Conns, net : {"new", "up", "down"}] \cup {Closed}]
         /\ \A fd :
              [f \in Fds |-> IF f = fd THEN Closed ELSE file[f]]
                \in [Fds -> [owner : Conns, net : {"new", "up", "down"}] \cup {Closed}]
<1>1. ASSUME NEW c \in Conns, NEW n \in {"up", "down"}, Net(c) # "closed"
      PROVE  [file EXCEPT ![Socket[c]].net = n]
               \in [Fds -> [owner : Conns, net : {"new", "up", "down"}] \cup {Closed}]
  <2>1. Socket[c] \in Fds /\ file[Socket[c]].net # "closed"
    BY <1>1 DEF Net, TypeOK
  <2>2. file[Socket[c]] \in [owner : Conns, net : {"new", "up", "down"}]
    BY <2>1 DEF TypeOK, Closed
  <2>3. [file[Socket[c]] EXCEPT !.net = n] \in [owner : Conns, net : {"new", "up", "down"}]
    BY <2>2
  <2> QED BY <2>1, <2>3 DEF TypeOK
<1>2. ASSUME NEW fd
      PROVE  [f \in Fds |-> IF f = fd THEN Closed ELSE file[f]]
               \in [Fds -> [owner : Conns, net : {"new", "up", "down"}] \cup {Closed}]
  BY DEF TypeOK
<1> QED BY <1>1, <1>2


\* Calls that end are calls.
LEMMA UnblockSteps ==
  ASSUME TypeOK, NEW fd, NEW how \in {"woken", "orphaned"}, Unblock(fd, how)
  PROVE  call' \in [Conns -> Calls]
  BY DEF TypeOK, Unblock, Calls

\* The thread that runs Connect() and Listener() goes somewhere, with a new state and
\* number of addresses tried.
ListenerGoes(c, where, v, a) ==
  /\ where \in ListenerPlaces /\ Goto(L(c), where)
  /\ v \in 0 .. 3 /\ state' = [state EXCEPT ![c] = v]
  /\ a \in 0 .. NAddrs /\ addr' = [addr EXCEPT ![c] = a]
  /\ Socket' \in [Conns -> Fds \cup {NoFd}]
  /\ file' \in [Fds -> [owner : Conns, net : {"new", "up", "down"}] \cup {Closed}]
  /\ call' \in [Conns -> Calls]
  /\ UNCHANGED <<Packets, visit, greeted>>
  /\ where \in Connecting => a < NAddrs
  /\ where \in Connecting \cup {"refused", "connected"} => pc[S(c)] = "none"
  /\ where \in {"refused", "closesocket", "end"} => v = 0
  /\ v = 2 \/ where = "accept" => greeted[c]

LEMMA ListenerStep ==
  ASSUME IInv, NEW c \in Conns, NEW where, NEW v, NEW a, ListenerGoes(c, where, v, a)
  PROVE  IInv'
<1>0. USE DEF ListenerGoes
<1>1. TypeOK /\ L(c) \in Threads /\ S(c) \in Threads /\ S(c) # L(c) /\ where \in Everywhere
  BY DistinctThreads DEF IInv, Everywhere
<1>2. /\ pc' \in [Threads -> Everywhere] /\ pc'[L(c)] = where
      /\ \A u \in Threads : u # L(c) => pc'[u] = pc[u]
  BY <1>1, GoesAlone
<1>3. /\ state' \in [Conns -> 0 .. 3] /\ addr' \in [Conns -> 0 .. NAddrs]
      /\ state'[c] = v /\ addr'[c] = a
      /\ \A d \in Conns : d # c => state'[d] = state[d] /\ addr'[d] = addr[d]
  BY <1>1 DEF TypeOK
<1>4. TypeOK'
  BY <1>1, <1>2, <1>3, TypesKept
<1>5. Placed(c)' /\ Answered(c)'
  <2>1. Placed(c) /\ Answered(c)
    BY DEF IInv
  <2>2. pc'[S(c)] = pc[S(c)]
    BY <1>1, <1>2
  <2>3. Placed(c)'
    BY <1>2, <1>3, <2>1, <2>2 DEF Placed
  <2>4. Answered(c)'
    BY <1>2, <1>3, <2>1, <2>2 DEF Answered
  <2> QED BY <2>3, <2>4
<1>6. \A d \in Conns : Packets'[d] <= Packets[d] \/ Packets'[d] <= MaxPackets[d]
  BY <1>1 DEF TypeOK
<1> QED BY <1>2, <1>3, <1>4, <1>5, <1>6, ConnectionStep

\* The thread that runs Sender() goes somewhere; it is there only after Connect().
SenderGoes(c, where) ==
  /\ where \in SenderPlaces /\ Goto(S(c), where)
  /\ pc[S(c)] # "none"
  /\ state' \in {state, [state EXCEPT ![c] = 0]}
  /\ file' \in [Fds -> [owner : Conns, net : {"new", "up", "down"}] \cup {Closed}]
  /\ call' \in [Conns -> Calls]
  /\ UNCHANGED <<Socket, addr, Packets, visit, greeted>>
  /\ where \in {"pop", "send"} => greeted[c]

LEMMA SenderStepKeeps ==
  ASSUME IInv, NEW c \in Conns, NEW where, SenderGoes(c, where)
  PROVE  IInv'
<1>0. USE DEF SenderGoes
<1>1. TypeOK /\ L(c) \in Threads /\ S(c) \in Threads /\ S(c) # L(c) /\ where \in Everywhere
  BY DistinctThreads DEF IInv, Everywhere
<1>2. /\ pc' \in [Threads -> Everywhere] /\ pc'[S(c)] = where
      /\ \A u \in Threads : u # S(c) => pc'[u] = pc[u]
  BY <1>1, GoesAlone
<1>3. /\ state' \in [Conns -> 0 .. 3] /\ addr' \in [Conns -> 0 .. NAddrs]
      /\ Socket' \in [Conns -> Fds \cup {NoFd}]
      /\ state'[c] \in {0, state[c]}
      /\ \A d \in Conns : d # c => state'[d] = state[d] /\ addr'[d] = addr[d]
  <2>1. CASE state' = state
    BY <1>1, <2>1 DEF TypeOK
  <2>2. CASE state' = [state EXCEPT ![c] = 0]
    BY <1>1, <2>2 DEF TypeOK
  <2> QED BY <2>1, <2>2
<1>4. TypeOK'
  BY <1>1, <1>2, <1>3, TypesKept
<1>5. Placed(c)' /\ Answered(c)'
  <2>1. Placed(c) /\ Answered(c)
    BY DEF IInv
  <2>2. pc'[L(c)] = pc[L(c)]
    BY <1>1, <1>2
  <2>3. Placed(c)'
    BY <1>2, <1>3, <2>1, <2>2 DEF Placed
  <2>4. Answered(c)'
    BY <1>2, <1>3, <2>1, <2>2 DEF Answered
  <2> QED BY <2>3, <2>4
<1>6. \A d \in Conns : Packets'[d] <= Packets[d] \/ Packets'[d] <= MaxPackets[d]
  BY <1>1 DEF TypeOK
<1> QED BY <1>2, <1>3, <1>4, <1>5, <1>6, ConnectionStep

\* What the invariant says of a connection.
LEMMA OfConnection ==
  ASSUME IInv, NEW c \in Conns
  PROVE  /\ TypeOK /\ Placed(c) /\ Answered(c) /\ state[c] \in 0 .. 3
         /\ addr[c] \in 0 .. NAddrs /\ state = [state EXCEPT ![c] = state[c]]
         /\ addr = [addr EXCEPT ![c] = addr[c]] /\ Socket \in [Conns -> Fds \cup {NoFd}]
         /\ file \in [Fds -> [owner : Conns, net : {"new", "up", "down"}] \cup {Closed}]
         /\ call \in [Conns -> Calls] /\ {"no", "in"} \subseteq Calls
         /\ greeted[c] \in BOOLEAN /\ Packets[c] \in Nat /\ MaxPackets[c] \in Nat
         /\ NAddrs \in Nat \ {0}
  BY ConnectionAssumption DEF IInv, TypeOK, Calls

\* A step that only begins or ends a call.
LEMMA OnlyCalls ==
  ASSUME IInv, call' \in [Conns -> Calls],
         UNCHANGED <<state, Socket, file, addr, pc, Packets, visit, greeted>>
  PROVE  IInv'
  BY DEF IInv, TypeOK, MainPlaced, OneSentinel, Awaited, Placed, Answered

-----------------------------------------------------------------------------
(* NodeConnection::Connect *)

LEMMA StartKeeps == \A c \in Conns : IInv /\ Start(c) => IInv'
<1> SUFFICES ASSUME NEW c \in Conns, IInv, Start(c) PROVE IInv'
  OBVIOUS
<1>1. addr[c] < NAddrs /\ pc[S(c)] = "none"
  BY OfConnection DEF Start, Placed, Connecting
<1>2. ListenerGoes(c, "resolve", 3, addr[c])
  BY <1>1, OfConnection DEF Start, SetState, ListenerGoes, ListenerPlaces, Connecting
<1> QED BY <1>2, ListenerStep

LEMMA ResolveKeeps == \A c \in Conns : IInv /\ Resolve(c) => IInv'
<1> SUFFICES ASSUME NEW c \in Conns, IInv, Resolve(c) PROVE IInv'
  OBVIOUS
<1>1. addr[c] < NAddrs /\ pc[S(c)] = "none"
  BY OfConnection DEF Resolve, Placed, Connecting
<1>2. CASE Goto(L(c), "socket") /\ UNCHANGED state
  <2>1. ListenerGoes(c, "socket", state[c], addr[c])
    BY <1>1, <1>2, OfConnection
    DEF Resolve, ListenerGoes, ListenerPlaces, Connecting, Answered
  <2> QED BY <2>1, ListenerStep
<1>3. CASE SetState(c, 0) /\ Goto(L(c), "end")
  <2>1. ListenerGoes(c, "end", 0, addr[c])
    BY <1>3, OfConnection
    DEF Resolve, SetState, ListenerGoes, ListenerPlaces, Connecting
  <2> QED BY <2>1, ListenerStep
<1> QED BY <1>2, <1>3 DEF Resolve

LEMMA OpenSocketKeeps == \A c \in Conns : IInv /\ OpenSocket(c) => IInv'
<1> SUFFICES ASSUME NEW c \in Conns, IInv, OpenSocket(c) PROVE IInv'
  OBVIOUS
<1>1. addr[c] < NAddrs /\ pc[S(c)] = "none" /\ (state[c] = 2 => greeted[c])
  BY OfConnection DEF OpenSocket, Placed, Connecting, Answered
<1>2. ASSUME NEW f \in Fds,
             file' = [file EXCEPT ![f] = [owner |-> c, net |-> "new"]],
             Socket' = [Socket EXCEPT ![c] = f], Goto(L(c), "check"), UNCHANGED state
      PROVE  IInv'
  <2>1. file' \in [Fds -> [owner : Conns, net : {"new", "up", "down"}] \cup {Closed}]
    <3>1. [owner |-> c, net |-> "new"] \in [owner : Conns, net : {"new", "up", "down"}]
      OBVIOUS
    <3> QED BY <1>2, <3>1, OfConnection
  <2>2. Socket' \in [Conns -> Fds \cup {NoFd}]
    BY <1>2, OfConnection
  <2>3. ListenerGoes(c, "check", state[c], addr[c])
    BY <1>1, <1>2, <2>1, <2>2, OfConnection
    DEF OpenSocket, ListenerGoes, ListenerPlaces, Connecting
  <2> QED BY <2>3, ListenerStep
<1>3. CASE /\ Socket' = [Socket EXCEPT ![c] = NoFd] /\ SetState(c, 0) /\ Goto(L(c), "end")
           /\ UNCHANGED file
  <2>1. Socket' \in [Conns -> Fds \cup {NoFd}]
    BY <1>3, OfConnection
  <2>2. ListenerGoes(c, "end", 0, addr[c])
    BY <1>3, <2>1, OfConnection
    DEF OpenSocket, SetState, ListenerGoes, ListenerPlaces, Connecting
  <2> QED BY <2>2, ListenerStep
<1> QED BY <1>2, <1>3 DEF OpenSocket

LEMMA CheckStateKeeps == \A c \in Conns : IInv /\ CheckState(c) => IInv'
<1> SUFFICES ASSUME NEW c \in Conns, IInv, CheckState(c) PROVE IInv'
  OBVIOUS
<1>1. addr[c] < NAddrs /\ pc[S(c)] = "none" /\ (state[c] = 2 => greeted[c])
  BY OfConnection DEF CheckState, Placed, Connecting, Answered
<1>2. ListenerGoes(c, IF state[c] = 0 THEN "end" ELSE "connect", state[c], addr[c])
  BY <1>1, OfConnection DEF CheckState, ListenerGoes, ListenerPlaces, Connecting
<1> QED BY <1>2, ListenerStep

LEMMA RefusedKeeps ==
  ASSUME IInv, NEW c \in Conns, pc[L(c)] = "connect", Refused(c), call' \in [Conns -> Calls],
         UNCHANGED <<Socket, file, Packets, visit, greeted>>
  PROVE  IInv'
<1>1. addr[c] < NAddrs /\ pc[S(c)] = "none" /\ addr[c] + 1 \in 0 .. NAddrs
  BY OfConnection DEF Placed, Connecting
<1>2. addr' = [addr EXCEPT ![c] = addr[c] + 1] /\ SetState(c, 0) /\ Goto(L(c), "refused")
  BY DEF Refused, Tried
<1>3. ListenerGoes(c, "refused", 0, addr[c] + 1)
  BY <1>1, <1>2, OfConnection DEF SetState, ListenerGoes, ListenerPlaces, Connecting
<1> QED BY <1>3, ListenerStep

LEMMA CallConnectKeeps == \A c \in Conns : IInv /\ CallConnect(c) => IInv'
<1> SUFFICES ASSUME NEW c \in Conns, IInv, CallConnect(c) PROVE IInv'
  OBVIOUS
<1>1. CASE call' = [call EXCEPT ![c] = "in"] /\ UNCHANGED <<state, addr, pc>>
  BY <1>1, OnlyCalls, OfConnection DEF CallConnect
<1>2. CASE Refused(c) /\ UNCHANGED call
  BY <1>2, RefusedKeeps, OfConnection DEF CallConnect
<1> QED BY <1>1, <1>2 DEF CallConnect

LEMMA ConnectSocketKeeps == \A c \in Conns : IInv /\ Held(c) /\ ConnectSocket(c) => IInv'
<1> SUFFICES ASSUME NEW c \in Conns, IInv, Held(c), ConnectSocket(c) PROVE IInv'
  OBVIOUS
<1>1. /\ addr[c] < NAddrs /\ pc[S(c)] = "none" /\ (state[c] = 2 => greeted[c])
      /\ addr[c] + 1 \in 0 .. NAddrs
  BY OfConnection DEF ConnectSocket, Placed, Connecting, Answered
<1>2. call' \in [Conns -> Calls]
  BY OfConnection DEF ConnectSocket
<1>3. CASE /\ file' = IF call[c] = "in" THEN [file EXCEPT ![Socket[c]].net = "up"] ELSE file
           /\ Tried(c) /\ Goto(L(c), "connected") /\ UNCHANGED state
  <2>1. file' \in [Fds -> [owner : Conns, net : {"new", "up", "down"}] \cup {Closed}]
    BY <1>3, OfConnection, FileSteps DEF Held
  <2>2. addr' = [addr EXCEPT ![c] = addr[c] + 1]
    BY <1>3 DEF Tried
  <2>3. ListenerGoes(c, "connected", state[c], addr[c] + 1)
    BY <1>1, <1>2, <1>3, <2>1, <2>2, OfConnection
    DEF ConnectSocket, ListenerGoes, ListenerPlaces, Connecting
  <2> QED BY <2>3, ListenerStep
<1>4. CASE Refused(c) /\ UNCHANGED file
  BY <1>2, <1>4, RefusedKeeps DEF ConnectSocket
<1> QED BY <1>3, <1>4 DEF ConnectSocket

LEMMA GiveUpAddressKeeps == \A c \in Conns : IInv /\ GiveUpAddress(c) => IInv'
<1> SUFFICES ASSUME NEW c \in Conns, IInv, GiveUpAddress(c) PROVE IInv'
  OBVIOUS
<1>1. state[c] = 0 /\ pc[S(c)] = "none"
  BY OfConnection DEF GiveUpAddress, Placed, Connecting
<1>2. Socket' \in [Conns -> Fds \cup {NoFd}]
  BY OfConnection DEF GiveUpAddress
<1>3. ListenerGoes(c, IF addr[c] < NAddrs THEN "socket" ELSE "end", 0, addr[c])
  <2>1. call' \in [Conns -> Calls]
    BY OfConnection, UnblockSteps DEF GiveUpAddress
  <2> QED BY <1>1, <1>2, <2>1, OfConnection, FileSteps
      DEF GiveUpAddress, ListenerGoes, ListenerPlaces, Connecting
<1> QED BY <1>3, ListenerStep

LEMMA ConnectedKeeps == \A c \in Conns : IInv /\ Connected(c) => IInv'
<1> SUFFICES ASSUME NEW c \in Conns, IInv, Connected(c) PROVE IInv'
  OBVIOUS
<1>1. TypeOK /\ L(c) \in Threads /\ S(c) \in Threads /\ S(c) # L(c)
  BY OfConnection, DistinctThreads
<1>2. /\ pc' = [pc EXCEPT ![L(c)] = "version", ![S(c)] = "test"]
      /\ state' = [state EXCEPT ![c] = 1]
      /\ UNCHANGED <<Socket, file, addr, call, Packets, visit, greeted>>
  BY DEF Connected, SetState
<1>3. pc \in [Threads -> Everywhere]
  BY <1>1 DEF TypeOK, Everywhere, ListenerPlaces, SenderPlaces, MainPlaces, Connecting
<1>4. /\ pc' \in [Threads -> Everywhere] /\ pc'[L(c)] = "version" /\ pc'[S(c)] = "test"
      /\ \A u \in Threads : u # L(c) /\ u # S(c) => pc'[u] = pc[u]
  <2>1. "version" \in Everywhere /\ "test" \in Everywhere
    BY DEF Everywhere, ListenerPlaces, SenderPlaces
  <2> QED BY <1>1, <1>2, <1>3, <2>1
<1>5. /\ state' \in [Conns -> 0 .. 3] /\ state'[c] = 1
      /\ \A d \in Conns : d # c => state'[d] = state[d]
  BY <1>2, OfConnection DEF TypeOK
<1>6. TypeOK'
  <2>1. /\ addr' \in [Conns -> 0 .. NAddrs] /\ Socket' \in [Conns -> Fds \cup {NoFd}]
        /\ file' \in [Fds -> [owner : Conns, net : {"new", "up", "down"}] \cup {Closed}]
        /\ call' \in [Conns -> Calls]
    BY <1>1, <1>2 DEF TypeOK
  <2> QED BY <1>1, <1>2, <1>4, <1>5, <2>1, TypesKept
<1>7. Placed(c)' /\ Answered(c)'
  BY <1>4, <1>5 DEF Placed, Answered, ListenerPlaces, SenderPlaces, Connecting
<1>8. \A d \in Conns : Packets'[d] <= Packets[d] \/ Packets'[d] <= MaxPackets[d]
  BY <1>1, <1>2 DEF TypeOK
<1> QED BY <1>2, <1>4, <1>5, <1>6, <1>7, <1>8, ConnectionStep

LEMMA SendVersionKeeps == \A c \in Conns : IInv /\ SendVersion(c) => IInv'
<1> SUFFICES ASSUME NEW c \in Conns, IInv, SendVersion(c) PROVE IInv'
  OBVIOUS
<1>1. ConnOf(L(c)) = c /\ (state[c] = 2 => greeted[c])
  BY DistinctThreads, OfConnection DEF Answered
<1>2. PICK where \in {"recv", "mark", "end"} :
        Goto(L(c), where) /\ (where = "end" => state[c] = 0)
  BY <1>1 DEF SendVersion, Send, CallClose
<1>3. ListenerGoes(c, where, state[c], addr[c])
  BY <1>1, <1>2, OfConnection DEF SendVersion, ListenerGoes, ListenerPlaces, Connecting
<1> QED BY <1>3, ListenerStep

-----------------------------------------------------------------------------
(* NodeConnection::Listener and Sender *)

\* CallClose in the Listener, and a packet that comes for it.
LEMMA ListenerCloses ==
  ASSUME IInv, NEW c \in Conns, pc[L(c)] = "recv", CallClose(L(c)),
         call' \in [Conns -> Calls],
         UNCHANGED <<state, Socket, file, addr, Packets, visit, greeted>>
  PROVE  IInv'
<1>1. ConnOf(L(c)) = c /\ (state[c] = 2 => greeted[c])
  BY DistinctThreads, OfConnection DEF Answered
<1>2. ListenerGoes(c, IF state[c] = 0 THEN "end" ELSE "mark", state[c], addr[c])
  BY <1>1, OfConnection DEF CallClose, ListenerGoes, ListenerPlaces, Connecting
<1> QED BY <1>2, ListenerStep

LEMMA CallRecvKeeps == \A c \in Conns : IInv /\ CallRecv(c) => IInv'
<1> SUFFICES ASSUME NEW c \in Conns, IInv, CallRecv(c) PROVE IInv'
  OBVIOUS
<1>1. CASE call' = [call EXCEPT ![c] = "in"] /\ UNCHANGED pc
  BY <1>1, OnlyCalls, OfConnection DEF CallRecv
<1>2. CASE CallClose(L(c)) /\ UNCHANGED call
  BY <1>2, ListenerCloses, OfConnection DEF CallRecv
<1> QED BY <1>1, <1>2 DEF CallRecv

LEMMA RecvEndsKeeps == \A c \in Conns : IInv /\ (RecvWakes(c) \/ PeerCloses(c)) => IInv'
  BY ListenerCloses, OfConnection DEF RecvWakes, PeerCloses

LEMMA AcceptKeeps == \A c \in Conns : IInv /\ Accept(c) => IInv'
<1> SUFFICES ASSUME NEW c \in Conns, IInv, Accept(c) PROVE IInv'
  OBVIOUS
<1>1. greeted[c]
  BY OfConnection DEF Accept, Answered
<1>2. ListenerGoes(c, "recv", 2, addr[c])
  BY <1>1, OfConnection DEF Accept, SetState, ListenerGoes, ListenerPlaces, Connecting
<1> QED BY <1>2, ListenerStep

\* One more packet in a queue that is not full.
LEMMA QueueGrows ==
  ASSUME IInv, NEW c \in Conns, Packets[c] < MaxPackets[c],
         Packets' = [Packets EXCEPT ![c] = @ + 1], call' \in [Conns -> Calls],
         UNCHANGED <<state, Socket, file, addr, pc, visit, greeted>>
  PROVE  IInv'
<1>1. /\ Packets' \in [Conns -> Nat] /\ Packets'[c] <= MaxPackets[c]
      /\ \A d \in Conns : d # c => Packets'[d] = Packets[d]
  BY OfConnection, ConnectionAssumption DEF TypeOK
<1>2. TypeOK'
  <2>1. \A d \in Conns : Packets'[d] <= MaxPackets[d] + 1
    <3>1. \A d \in Conns : Packets[d] <= MaxPackets[d] + 1 /\ MaxPackets[d] \in Nat
      BY OfConnection, ConnectionAssumption DEF TypeOK
    <3>2. Packets'[c] \in Nat
      BY <1>1
    <3> QED BY <1>1, <3>1, <3>2
  <2> QED BY <1>1, <2>1, OfConnection DEF TypeOK
<1>3. Placed(c)' /\ Answered(c)'
  BY OfConnection DEF Placed, Answered
<1>4. \A d \in Conns : Packets'[d] <= Packets[d] \/ Packets'[d] <= MaxPackets[d]
  <2>1. \A d \in Conns : Packets[d] \in Nat
    BY OfConnection DEF TypeOK
  <2> QED BY <1>1, <2>1
<1> QED BY <1>2, <1>3, <1>4, ConnectionStep

LEMMA ReceiveKeeps == \A c \in Conns : IInv /\ Receive(c) => IInv'
<1> SUFFICES ASSUME NEW c \in Conns, IInv, Receive(c) PROVE IInv'
  OBVIOUS
<1>0. call' \in [Conns -> Calls]
  BY OfConnection DEF Receive
<1>1. CASE /\ Packets[c] < MaxPackets[c] /\ Packets' = [Packets EXCEPT ![c] = @ + 1]
           /\ UNCHANGED <<pc, greeted>>
  BY <1>0, <1>1, QueueGrows DEF Receive
<1>2. CASE Goto(L(c), "accept") /\ greeted' = [greeted EXCEPT ![c] = TRUE] /\ UNCHANGED Packets
  <2>1. TypeOK /\ L(c) \in Threads /\ "accept" \in Everywhere /\ S(c) \in Threads /\ S(c) # L(c)
    BY OfConnection, DistinctThreads DEF Everywhere, ListenerPlaces
  <2>2. /\ pc' \in [Threads -> Everywhere] /\ pc'[L(c)] = "accept"
        /\ \A u \in Threads : u # L(c) => pc'[u] = pc[u]
    BY <1>2, <2>1, GoesAlone
  <2>3. /\ greeted' \in [Conns -> BOOLEAN] /\ greeted'[c] = TRUE
        /\ \A d \in Conns : d # c => greeted'[d] = greeted[d]
    BY <1>2, <2>1, Zenon DEF TypeOK
  <2>4. UNCHANGED <<state, Socket, file, addr, visit, Packets>> /\ pc[L(c)] = "recv"
    BY <1>2 DEF Receive
  <2>5. TypeOK'
    BY <1>0, <2>1, <2>2, <2>3, <2>4
    DEF TypeOK, Everywhere, ListenerPlaces, SenderPlaces, MainPlaces, Connecting
  <2>6. Placed(c)' /\ Answered(c)'
    <3>1. pc'[S(c)] = pc[S(c)] /\ pc[S(c)] \in SenderPlaces
      BY <2>1, <2>2, OfConnection DEF Placed
    <3> QED BY <2>2, <2>3, <2>4, <3>1 DEF Placed, Answered, ListenerPlaces, Connecting
  <2>7. \A d \in Conns : Packets'[d] <= Packets[d] \/ Packets'[d] <= MaxPackets[d]
    BY <2>1, <2>4 DEF TypeOK
  <2> QED BY <2>2, <2>3, <2>4, <2>5, <2>6, <2>7, ConnectionStep
<1>3. CASE UNCHANGED <<pc, Packets, greeted>>
  BY <1>0, <1>3, OnlyCalls DEF Receive
<1> QED BY <1>1, <1>2, <1>3 DEF Receive

LEMMA PushPacketKeeps == \A c \in Conns : IInv /\ PushPacket(c) => IInv'
  BY QueueGrows, OfConnection DEF PushPacket

LEMMA TestKeeps == \A c \in Conns : IInv /\ Test(c) => IInv'
<1> SUFFICES ASSUME NEW c \in Conns, IInv, Test(c) PROVE IInv'
  OBVIOUS
<1>1. CASE Goto(S(c), "end")
  <2>1. SenderGoes(c, "end")
    BY <1>1, OfConnection DEF Test, SenderGoes, SenderPlaces
  <2> QED BY <2>1, SenderStepKeeps
<1>2. CASE state[c] = 2 /\ Goto(S(c), "pop")
  <2>1. SenderGoes(c, "pop")
    BY <1>2, OfConnection DEF Test, SenderGoes, SenderPlaces, Answered
  <2> QED BY <2>1, SenderStepKeeps
<1> QED BY <1>1, <1>2 DEF Test

LEMMA PopPacketKeeps == \A c \in Conns : IInv /\ PopPacket(c) => IInv'
<1> SUFFICES ASSUME NEW c \in Conns, IInv, PopPacket(c) PROVE IInv'
  OBVIOUS
<1>1. TypeOK /\ S(c) \in Threads /\ "send" \in Everywhere /\ L(c) \in Threads /\ S(c) # L(c)
  BY OfConnection, DistinctThreads DEF Everywhere, SenderPlaces
<1>2. /\ pc' \in [Threads -> Everywhere] /\ pc'[S(c)] = "send"
      /\ \A u \in Threads : u # S(c) => pc'[u] = pc[u]
  BY <1>1, GoesAlone DEF PopPacket
<1>3. /\ Packets' \in [Conns -> Nat] /\ Packets'[c] = Packets[c] - 1 /\ Packets[c] \in Nat
      /\ \A d \in Conns : d # c => Packets'[d] = Packets[d]
  BY <1>1 DEF PopPacket, TypeOK
<1>4. \A d \in Conns : Packets'[d] <= Packets[d]
  <2>1. \A d \in Conns : Packets[d] \in Nat
    BY <1>1 DEF TypeOK
  <2> QED BY <1>3, <2>1
<1>5. UNCHANGED <<state, Socket, file, addr, call, visit, greeted>> /\ pc[S(c)] = "pop"
  BY DEF PopPacket
<1>6. TypeOK'
  <2>1. \A d \in Conns : Packets'[d] <= MaxPackets[d] + 1
    <3>1. \A d \in Conns : /\ Packets[d] <= MaxPackets[d] + 1 /\ MaxPackets[d] \in Nat
                           /\ Packets[d] \in Nat /\ Packets'[d] \in Nat
      BY <1>1, <1>3, ConnectionAssumption DEF TypeOK
    <3> QED BY <1>4, <3>1
  <2> QED BY <1>1, <1>2, <1>3, <1>5, <2>1
      DEF TypeOK, Everywhere, ListenerPlaces, SenderPlaces, MainPlaces, Connecting
<1>7. Placed(c)' /\ Answered(c)'
  <2>1. pc'[L(c)] = pc[L(c)] /\ Placed(c) /\ Answered(c)
    BY <1>1, <1>2, OfConnection
  <2> QED BY <1>2, <1>5, <2>1 DEF Placed, Answered, SenderPlaces
<1> QED BY <1>2, <1>4, <1>5, <1>6, <1>7, ConnectionStep

LEMMA SendPacketKeeps == \A c \in Conns : IInv /\ SendPacket(c) => IInv'
<1> SUFFICES ASSUME NEW c \in Conns, IInv, SendPacket(c) PROVE IInv'
  OBVIOUS
<1>1. ConnOf(S(c)) = c
  BY DistinctThreads
<1>2. PICK where \in {"test", "end", "mark"} : Goto(S(c), where)
  BY <1>1 DEF SendPacket, Send, CallClose
<1>3. SenderGoes(c, where)
  BY <1>2, OfConnection DEF SendPacket, SenderGoes, SenderPlaces
<1> QED BY <1>3, SenderStepKeeps

-----------------------------------------------------------------------------
(* Close() and the destructor *)

\* The connection the destructor is at.
LEMMA MainTarget ==
  ASSUME IInv, pc[Main] \in {"mark", "closesocket", "sentinel", "join"}
  PROVE  visit \in 1 .. 2 * Len(Nodes) /\ Target(visit) \in Conns /\ ConnOf(Main) = Target(visit)
<1>1. visit \in 0 .. 2 * Len(Nodes) /\ visit >= 1
  BY Targets DEF IInv, TypeOK, MainPlaced, Deletes
<1>2. visit \in 1 .. 2 * Len(Nodes)
  BY <1>1, Targets
<1> QED BY <1>2, Targets DEF ConnOf

LEMMA CloseMarkKeeps == \A t \in Threads : IInv /\ CloseMark(t) => IInv'
<1> SUFFICES ASSUME NEW t \in Threads, IInv, CloseMark(t) PROVE IInv'
  OBVIOUS
<1>1. ASSUME NEW c \in Conns, c = ConnOf(t)
      PROVE  /\ call' \in [Conns -> Calls]
             /\ file' \in [Fds -> [owner : Conns, net : {"new", "up", "down"}] \cup {Closed}]
             /\ state' = [state EXCEPT ![c] = 0]
             /\ Goto(t, "closesocket") /\ UNCHANGED <<Socket, addr, Packets, visit, greeted>>
  <2>1. call' \in [Conns -> Calls]
    BY UnblockSteps DEF CloseMark, IInv
  <2> QED BY <1>1, <2>1, OfConnection, FileSteps DEF CloseMark, SetState
<1>2. CASE t = Main
  <2>1. Target(visit) \in Conns /\ ConnOf(Main) = Target(visit) /\ pc[Main] = "mark"
    BY <1>2, MainTarget DEF CloseMark
  <2>2. TypeOK /\ "closesocket" \in Everywhere
    BY DEF IInv, Everywhere, ListenerPlaces
  <2>3. /\ pc' \in [Threads -> Everywhere] /\ pc'[Main] = "closesocket"
        /\ \A u \in Threads : u # Main => pc'[u] = pc[u]
    BY <1>1, <1>2, <2>1, <2>2, GoesAlone
  <2>4. /\ state' \in [Conns -> 0 .. 3] /\ \A d \in Conns : state'[d] \in {0, state[d]}
        /\ addr' \in [Conns -> 0 .. NAddrs] /\ Socket' \in [Conns -> Fds \cup {NoFd}]
    <3>1. state' = [state EXCEPT ![Target(visit)] = 0] /\ UNCHANGED <<Socket, addr>>
      BY <1>1, <1>2, <2>1
    <3> QED BY <2>1, <2>2, <3>1 DEF TypeOK
  <2>5. TypeOK'
    BY <1>1, <1>2, <2>1, <2>2, <2>3, <2>4, TypesKept
  <2>6. MainPlaced'
    BY <1>1, <1>2, <2>1, <2>3 DEF IInv, MainPlaced, MainPlaces
  <2>7. \A n \in DOMAIN Nodes : Awaited(n)' => Awaited(n)
    BY <1>1, <1>2, <2>1, <2>3 DEF Awaited
  <2> QED BY <1>1, <1>2, <2>1, <2>3, <2>4, <2>5, <2>6, <2>7, MainStepKeeps
<1>3. ASSUME NEW c \in Conns, t = L(c) PROVE IInv'
  <2>1. ListenerGoes(c, "closesocket", 0, addr[c])
    BY <1>1, <1>3, OfConnection, DistinctThreads DEF ListenerGoes, ListenerPlaces, Connecting
  <2> QED BY <2>1, ListenerStep
<1>4. ASSUME NEW c \in Conns, t = S(c) PROVE IInv'
  <2>1. SenderGoes(c, "closesocket")
    BY <1>1, <1>4, OfConnection, DistinctThreads DEF SenderGoes, SenderPlaces, CloseMark
  <2> QED BY <2>1, SenderStepKeeps
<1> QED BY <1>2, <1>3, <1>4, DistinctThreads

LEMMA CloseSocketKeeps == \A t \in Threads : IInv /\ CloseSocket(t) => IInv'
<1> SUFFICES ASSUME NEW t \in Threads, IInv, CloseSocket(t) PROVE IInv'
  OBVIOUS
<1>1. /\ file' \in [Fds -> [owner : Conns, net : {"new", "up", "down"}] \cup {Closed}]
      /\ Goto(t, AfterClose(t)) /\ pc[t] = "closesocket"
      /\ UNCHANGED <<state, Socket, addr, Packets, visit, greeted>> /\ call' \in [Conns -> Calls]
  <2>1. call' \in [Conns -> Calls]
    BY UnblockSteps DEF CloseSocket, IInv
  <2> QED BY <2>1, FileSteps DEF CloseSocket, IInv
<1>2. CASE t = Main
  <2>1. visit \in 1 .. 2 * Len(Nodes)
    BY <1>1, <1>2, MainTarget
  <2>2. TypeOK /\ AfterClose(Main) \in Everywhere
    BY DEF IInv, Everywhere, MainPlaces, AfterClose
  <2>3. /\ pc' \in [Threads -> Everywhere] /\ pc'[Main] = AfterClose(Main)
        /\ \A u \in Threads : u # Main => pc'[u] = pc[u]
    BY <1>1, <1>2, <2>2, GoesAlone
  <2>4. TypeOK'
    <3>1. /\ state' \in [Conns -> 0 .. 3] /\ addr' \in [Conns -> 0 .. NAddrs]
          /\ Socket' \in [Conns -> Fds \cup {NoFd}]
      BY <1>1, <2>2 DEF TypeOK
    <3> QED BY <1>1, <2>2, <2>3, <3>1, TypesKept
  <2>5. MainPlaced'
    BY <1>1, <2>1, <2>3 DEF MainPlaced, MainPlaces, AfterClose, Deletes
  <2>6. \A n \in DOMAIN Nodes : Awaited(n)' => Awaited(n)
    BY <1>1, <1>2, <2>3 DEF Awaited
  <2> QED BY <1>1, <2>3, <2>4, <2>5, <2>6, MainStepKeeps
<1>3. ASSUME NEW c \in Conns, t = L(c) PROVE IInv'
  <2>1. AfterClose(t) = "end" /\ state[c] = 0
    BY <1>1, <1>3, OfConnection, DistinctThreads DEF Placed
  <2>2. ListenerGoes(c, "end", 0, addr[c])
    BY <1>1, <1>3, <2>1, OfConnection DEF ListenerGoes, ListenerPlaces, Connecting
  <2> QED BY <2>2, ListenerStep
<1>4. ASSUME NEW c \in Conns, t = S(c) PROVE IInv'
  <2>1. SenderGoes(c, "end")
    BY <1>1, <1>4, OfConnection, DistinctThreads DEF SenderGoes, SenderPlaces
  <2> QED BY <2>1, SenderStepKeeps
<1> QED BY <1>2, <1>3, <1>4, DistinctThreads

LEMMA TurnKeeps == IInv /\ Turn => IInv'
<1> SUFFICES ASSUME IInv, Turn PROVE IInv'
  OBVIOUS
<1>1. PICK where \in {"mark", "sentinel", "pick"} :
        /\ Goto(Main, where) /\ (where = "sentinel" => Deletes(visit'))
  BY DEF Turn
<1>2. /\ pc[Main] \in {"run", "pick"} /\ visit < 2 * Len(Nodes) /\ visit' = visit + 1
      /\ UNCHANGED <<state, Socket, file, addr, call, Packets, greeted>>
  BY DEF Turn
<1>3. TypeOK /\ where \in Everywhere /\ visit \in 0 .. 2 * Len(Nodes)
  BY DEF IInv, TypeOK, Everywhere, MainPlaces
<1>4. visit' \in 1 .. 2 * Len(Nodes)
  BY <1>2, <1>3, Targets
<1>5. /\ pc' \in [Threads -> Everywhere] /\ pc'[Main] = where
      /\ \A u \in Threads : u # Main => pc'[u] = pc[u]
  BY <1>1, <1>3, DistinctThreads, GoesAlone
<1>6. TypeOK'
  <2>1. visit' \in 0 .. 2 * Len(Nodes)
    BY <1>4, Targets
  <2> QED BY <1>2, <1>3, <1>5, <2>1
      DEF TypeOK, Everywhere, ListenerPlaces, SenderPlaces, MainPlaces, Connecting
<1>7. MainPlaced'
  BY <1>1, <1>4, <1>5, Targets DEF MainPlaced, MainPlaces
<1>8. \A n \in DOMAIN Nodes : Awaited(n)' => Awaited(n)
  BY <1>2, <1>3, <1>4, Targets DEF Awaited
<1> QED BY <1>2, <1>5, <1>6, <1>7, <1>8, MainStepKeeps

LEMMA SentinelKeeps == IInv /\ Sentinel => IInv'
<1> SUFFICES ASSUME IInv, Sentinel PROVE IInv'
  OBVIOUS
<1> DEFINE c == Target(visit)
           n == visit - Len(Nodes)
<1>1. /\ pc[Main] = "sentinel" /\ Packets' = [Packets EXCEPT ![c] = @ + 1] /\ Goto(Main, "join")
      /\ UNCHANGED <<state, Socket, file, addr, call, visit, greeted>>
  BY DEF Sentinel
<1>2. /\ TypeOK /\ "join" \in Everywhere /\ Deletes(visit) /\ c \in Conns
      /\ visit \in 1 .. 2 * Len(Nodes) /\ n \in DOMAIN Nodes /\ c = Nodes[n]
  BY <1>1, MainTarget, Targets DEF IInv, MainPlaced, Everywhere, MainPlaces
<1>3. /\ pc' \in [Threads -> Everywhere] /\ pc'[Main] = "join"
      /\ \A u \in Threads : u # Main => pc'[u] = pc[u]
  BY <1>1, <1>2, DistinctThreads, GoesAlone
<1>4. visit = Len(Nodes) + n
  BY <1>2, Targets
<1>5. Packets[c] <= MaxPackets[c]
  BY <1>1, <1>2, <1>4 DEF IInv, OneSentinel, Awaited
<1> HIDE DEF c, n
<1>6. /\ Packets' \in [Conns -> Nat] /\ Packets'[c] = Packets[c] + 1
      /\ \A d \in Conns : d # c => Packets'[d] = Packets[d]
  BY <1>1, <1>2 DEF TypeOK
<1>7. TypeOK'
  <2>1. \A d \in Conns : Packets'[d] <= MaxPackets[d] + 1
    <3>1. \A d \in Conns : /\ Packets[d] <= MaxPackets[d] + 1 /\ MaxPackets[d] \in Nat
                           /\ Packets[d] \in Nat
      BY <1>2, ConnectionAssumption DEF TypeOK
    <3>2. Packets'[c] <= MaxPackets[c] + 1
      BY <1>2, <1>5, <1>6, <3>1
    <3>3. \A d \in Conns : d # c => Packets'[d] <= MaxPackets[d] + 1
      BY <1>6, <3>1
    <3> QED BY <3>2, <3>3
  <2> QED BY <1>1, <1>2, <1>3, <1>6, <2>1
      DEF TypeOK, Everywhere, ListenerPlaces, SenderPlaces, MainPlaces, Connecting
<1>8. MainPlaced'
  BY <1>1, <1>2, <1>3 DEF MainPlaced, MainPlaces, Deletes
<1>9. OneSentinel'
  <2>1. ASSUME NEW m \in DOMAIN Nodes, Awaited(m)'
        PROVE  Packets'[Nodes[m]] <= MaxPackets[Nodes[m]]
    <3>1. visit < Len(Nodes) + m
      BY <1>1, <1>3, <2>1 DEF Awaited
    <3>2. m # n /\ Nodes[m] # c
      BY <1>2, <1>4, <3>1, Targets
    <3>3. Packets'[Nodes[m]] = Packets[Nodes[m]]
      BY <1>6, <3>2, Targets
    <3>4. Awaited(m)
      BY <3>1 DEF Awaited
    <3> QED BY <3>3, <3>4 DEF IInv, OneSentinel
  <2> QED BY <2>1 DEF OneSentinel
<1>10. ASSUME NEW d \in Conns PROVE Placed(d)' /\ Answered(d)'
  <2>1. pc'[L(d)] = pc[L(d)] /\ pc'[S(d)] = pc[S(d)]
    BY <1>3, DistinctThreads
  <2> QED BY <1>1, <2>1, OfConnection DEF Placed, Answered
<1> QED BY <1>7, <1>8, <1>9, <1>10 DEF IInv

LEMMA JoinKeeps == IInv /\ Join => IInv'
<1> SUFFICES ASSUME IInv, Join PROVE IInv'
  OBVIOUS
<1>1. PICK where \in {"pick", "done"} : Goto(Main, where)
  BY DEF Join
<1>2. pc[Main] = "join" /\ UNCHANGED <<state, Socket, file, addr, call, Packets, visit, greeted>>
  BY DEF Join
<1>3. TypeOK /\ where \in Everywhere
  BY DEF IInv, Everywhere, MainPlaces
<1>4. /\ pc' \in [Threads -> Everywhere] /\ pc'[Main] = where
      /\ \A u \in Threads : u # Main => pc'[u] = pc[u]
  BY <1>1, <1>3, DistinctThreads, GoesAlone
<1>5. TypeOK'
  BY <1>2, <1>3, <1>4
  DEF TypeOK, Everywhere, ListenerPlaces, SenderPlaces, MainPlaces, Connecting
<1>6. MainPlaced'
  BY <1>4 DEF MainPlaced, MainPlaces
<1>7. \A n \in DOMAIN Nodes : Awaited(n)' => Awaited(n)
  BY <1>2, <1>4 DEF Awaited
<1> QED BY <1>2, <1>4, <1>5, <1>6, <1>7, MainStepKeeps

LEMMA NextKeepsIInv == IInv /\ (\A c \in Conns : Held(c)) /\ [Next]_vars => IInv'
<1> SUFFICES ASSUME IInv, \A c \in Conns : Held(c), [Next]_vars PROVE IInv'
  OBVIOUS
<1>1. CASE UNCHANGED vars
  BY <1>1 DEF vars, IInv, TypeOK, MainPlaced, OneSentinel, Awaited, Placed, Answered
<1>2. ASSUME NEW c \in Conns, ConnectStep(c) PROVE IInv'
  BY <1>2, StartKeeps, ResolveKeeps, OpenSocketKeeps, CheckStateKeeps, CallConnectKeeps,
     ConnectSocketKeeps, GiveUpAddressKeeps, ConnectedKeeps, SendVersionKeeps DEF ConnectStep
<1>3. ASSUME NEW c \in Conns, Receive(c) \/ HandlerStep(c) \/ PushPacket(c) \/ PeerCloses(c)
      PROVE  IInv'
  BY <1>3, ReceiveKeeps, CallRecvKeeps, RecvEndsKeeps, AcceptKeeps, PushPacketKeeps
  DEF HandlerStep
<1>4. ASSUME NEW c \in Conns, SenderStep(c) PROVE IInv'
  BY <1>4, TestKeeps, PopPacketKeeps, SendPacketKeeps DEF SenderStep
<1>5. ASSUME NEW t \in Threads, CloseStep(t) PROVE IInv'
  BY <1>5, CloseMarkKeeps, CloseSocketKeeps DEF CloseStep
<1>6. CASE Turn \/ Sentinel \/ Join
  BY <1>6, TurnKeeps, SentinelKeeps, JoinKeeps
<1> QED BY <1>1, <1>2, <1>3, <1>4, <1>5, <1>6 DEF Next

-----------------------------------------------------------------------------
(* Calls *)

\* A step that begins or ends no call, and changes no descriptor.
LEMMA QuietHolds ==
  ASSUME \A d \in Conns : Held(d), UNCHANGED <<Socket, file, call>>,
         \A d \in Conns : pc'[L(d)] = pc[L(d)] \/ pc[L(d)] \notin {"connect", "recv"}
  PROVE  \A d \in Conns : Held(d)'
  BY DEF Held, Net

\* A step of one Listener that takes no file from a descriptor.
LEMMA ListenerHolds ==
  ASSUME TypeOK, \A d \in Conns : Held(d), NEW c \in Conns, Held(c)',
         \A d \in Conns : d # c => /\ pc'[L(d)] = pc[L(d)] /\ call'[d] = call[d]
                                   /\ Socket'[d] = Socket[d],
         \A f \in Fds : file[f].net # "closed" => file'[f].net # "closed"
  PROVE  \A d \in Conns : Held(d)'
<1> SUFFICES ASSUME NEW d \in Conns, d # c PROVE Held(d)'
  OBVIOUS
<1>1. Held(d) /\ Socket[d] \in Fds \cup {NoFd}
  BY DEF TypeOK
<1>2. Net(d) # "closed" => Net(d)' # "closed"
  BY <1>1 DEF Net
<1> QED BY <1>1, <1>2 DEF Held

\* The descriptor of the calls that a step ends is the only one it changes.
LEMMA UnblockHolds ==
  ASSUME TypeOK, \A d \in Conns : Held(d), NEW fd, NEW how \in {"woken", "orphaned"},
         Unblock(fd, how), \A f \in Fds : f # fd => file'[f] = file[f],
         \A d \in Conns : \/ pc'[L(d)] = pc[L(d)] /\ Socket'[d] = Socket[d]
                          \/ pc[L(d)] \notin {"connect", "recv"}
  PROVE  \A d \in Conns : Held(d)'
<1> SUFFICES ASSUME NEW d \in Conns PROVE Held(d)'
  OBVIOUS
<1>1. Held(d) /\ Socket[d] \in Fds \cup {NoFd}
  BY DEF TypeOK
<1>2. call'[d] = IF call[d] = "in" /\ Socket[d] = fd THEN how ELSE call[d]
  BY DEF Unblock
<1>3. CASE pc[L(d)] \notin {"connect", "recv"}
  BY <1>1, <1>2, <1>3 DEF Held
<1>4. CASE pc'[L(d)] = pc[L(d)] /\ Socket'[d] = Socket[d]
  <2>1. Socket[d] # fd => Net(d)' = Net(d)
    BY <1>1, <1>4 DEF Net
  <2> QED BY <1>1, <1>2, <1>4, <2>1 DEF Held
<1> QED BY <1>3, <1>4

\* Where the other Listeners are after a step of one.
LEMMA OthersStay ==
  ASSUME TypeOK, NEW c \in Conns, NEW where
  PROVE  /\ Goto(L(c), where) =>
              pc'[L(c)] = where /\ \A d \in Conns : d # c => pc'[L(d)] = pc[L(d)]
         /\ Goto(S(c), where) \/ Goto(Main, where) => \A d \in Conns : pc'[L(d)] = pc[L(d)]
<1>1. pc \in [Threads -> {pc[u] : u \in Threads}]
  BY DEF TypeOK
<1>2. \A d \in Conns : L(d) \in Threads /\ L(d) # S(c) /\ L(d) # Main /\ (d # c => L(d) # L(c))
  BY DistinctThreads
<1> QED BY <1>1, <1>2 DEF Goto

\* The Listener of c begins or ends a call, in a socket that stays open.
LEMMA CallHolds ==
  ASSUME TypeOK, \A d \in Conns : Held(d), NEW c \in Conns, NEW what,
         call' = [call EXCEPT ![c] = what], UNCHANGED <<Socket, file>>,
         \A d \in Conns : d # c => pc'[L(d)] = pc[L(d)],
         \/ what = "no"
         \/ Net(c) # "closed" /\ pc'[L(c)] \in {"connect", "recv"}
  PROVE  \A d \in Conns : Held(d)'
<1>1. call'[c] = what /\ \A d \in Conns : d # c => call'[d] = call[d]
  BY DEF TypeOK
<1>2. Held(c)'
  BY <1>1 DEF Held, Net
<1> QED BY <1>1, <1>2, ListenerHolds

LEMMA OpenSocketHolds ==
  ASSUME TypeOK, \A d \in Conns : Held(d), NEW c \in Conns, OpenSocket(c)
  PROVE  \A d \in Conns : Held(d)'
<1>1. call' = call /\ call[c] = "no"
  BY DEF OpenSocket, Held
<1>2. /\ \A d \in Conns : d # c => Socket'[d] = Socket[d]
      /\ \A f \in Fds : file[f].net # "closed" => file'[f].net # "closed"
  <2>1. CASE UNCHANGED file
    BY <2>1 DEF OpenSocket, TypeOK
  <2>2. ASSUME NEW g \in Fds, file[g] = Closed,
               file' = [file EXCEPT ![g] = [owner |-> c, net |-> "new"]]
        PROVE  \A f \in Fds : file[f].net # "closed" => file'[f].net # "closed"
    <3>1. file'[g] = [owner |-> c, net |-> "new"] /\ \A f \in Fds : f # g => file'[f] = file[f]
      BY <2>2 DEF TypeOK
    <3> QED BY <3>1
  <2>3. \A d \in Conns : d # c => Socket'[d] = Socket[d]
    BY DEF OpenSocket, TypeOK
  <2> QED BY <2>1, <2>2, <2>3 DEF OpenSocket
<1>3. \A d \in Conns : d # c => pc'[L(d)] = pc[L(d)]
  BY OthersStay DEF OpenSocket
<1>4. Held(c)'
  BY <1>1 DEF Held
<1> QED BY <1>1, <1>2, <1>3, <1>4, ListenerHolds

LEMMA ConnectSocketHolds ==
  ASSUME TypeOK, \A d \in Conns : Held(d), NEW c \in Conns, ConnectSocket(c)
  PROVE  \A d \in Conns : Held(d)'
<1>1. call'[c] = "no" /\ \A d \in Conns : d # c => call'[d] = call[d]
  BY DEF ConnectSocket, TypeOK
<1>2. /\ UNCHANGED Socket
      /\ \A f \in Fds : file[f].net # "closed" => file'[f].net # "closed"
  <2>1. CASE UNCHANGED file
    BY <2>1 DEF ConnectSocket
  <2>2. CASE file' = [file EXCEPT ![Socket[c]].net = "up"] /\ call[c] = "in"
    <3>1. Net(c) # "closed"
      BY <2>2 DEF Held
    <3>2. Socket[c] \in Fds /\ file[Socket[c]].net # "closed"
      BY <3>1 DEF Net, TypeOK
    <3>3. file[Socket[c]] \in [owner : Conns, net : {"new", "up", "down"}]
      BY <3>2 DEF TypeOK, Closed
    <3>4. [file[Socket[c]] EXCEPT !.net = "up"].net # "closed"
      BY <3>3
    <3> QED BY <2>2, <3>2, <3>4 DEF ConnectSocket, TypeOK
  <2> QED BY <2>1, <2>2 DEF ConnectSocket
<1>3. \A d \in Conns : d # c => pc'[L(d)] = pc[L(d)]
  BY OthersStay DEF ConnectSocket, Refused
<1>4. Held(c)'
  BY <1>1 DEF Held
<1> QED BY <1>1, <1>2, <1>3, <1>4, ListenerHolds

LEMMA ListenerCallsHold ==
  ASSUME TypeOK, \A d \in Conns : Held(d), NEW c \in Conns,
         CallConnect(c) \/ CallRecv(c) \/ Receive(c) \/ RecvWakes(c) \/ PeerCloses(c)
  PROVE  \A d \in Conns : Held(d)'
<1>1. \A d \in Conns : d # c => pc'[L(d)] = pc[L(d)]
  BY OthersStay
  DEF CallConnect, CallRecv, Receive, RecvWakes, PeerCloses, Refused, CallClose
<1>2. UNCHANGED <<Socket, file>>
  BY DEF CallConnect, CallRecv, Receive, RecvWakes, PeerCloses
<1>3. CASE call' = [call EXCEPT ![c] = "no"]
  BY <1>1, <1>2, <1>3, CallHolds
<1>4. CASE /\ call' = [call EXCEPT ![c] = "in"] /\ UNCHANGED pc
           /\ pc[L(c)] \in {"connect", "recv"} /\ Net(c) \in {"new", "up"}
  BY <1>1, <1>2, <1>4, CallHolds
<1>5. CASE UNCHANGED call /\ call[c] = "no"
  <2>1. call' = [call EXCEPT ![c] = "no"]
    BY <1>5 DEF TypeOK
  <2> QED BY <1>1, <1>2, <2>1, CallHolds
<1> QED BY <1>3, <1>4, <1>5 DEF CallConnect, CallRecv, Receive, RecvWakes, PeerCloses

LEMMA CloseHolds ==
  ASSUME TypeOK, \A d \in Conns : Held(d), NEW t \in Threads, CloseStep(t)
  PROVE  \A d \in Conns : Held(d)'
<1>1. PICK how \in {"woken", "orphaned"} : Unblock(Socket[ConnOf(t)], how)
  BY DEF CloseStep, CloseMark, CloseSocket
<1>2. UNCHANGED Socket /\ \A f \in Fds : f # Socket[ConnOf(t)] => file'[f] = file[f]
  BY DEF CloseStep, CloseMark, CloseSocket, TypeOK
<1>3. \A d \in Conns : pc'[L(d)] = pc[L(d)] \/ pc[L(d)] \notin {"connect", "recv"}
  <2>1. PICK where : Goto(t, where) /\ pc[t] \in {"mark", "closesocket"}
    BY DEF CloseStep, CloseMark, CloseSocket
  <2> QED BY <2>1 DEF Goto, TypeOK, Threads
<1> QED BY <1>1, <1>2, <1>3, UnblockHolds

LEMMA NextHolds ==
  ASSUME IInv, \A d \in Conns : Held(d), [Next]_vars
  PROVE  \A d \in Conns : Held(d)'
<1>0. TypeOK
  BY DEF IInv
<1>1. CASE UNCHANGED vars \/ \E c \in Conns : PushPacket(c)
  BY <1>1, QuietHolds DEF vars, PushPacket
<1>2. ASSUME NEW c \in Conns, ConnectStep(c) \/ Accept(c) PROVE \A d \in Conns : Held(d)'
  <2>1. CASE Start(c) \/ Resolve(c) \/ CheckState(c) \/ Connected(c) \/ SendVersion(c)
             \/ Accept(c)
    <3>1. /\ UNCHANGED <<Socket, file, call>> /\ pc[L(c)] \notin {"connect", "recv"}
      BY <2>1 DEF Start, Resolve, CheckState, Connected, SendVersion, Accept
    <3>2. \A d \in Conns : d # c => pc'[L(d)] = pc[L(d)]
      <4>1. CASE Connected(c)
        <5>1. \A d \in Conns : d # c => L(d) \in Threads /\ L(d) # L(c) /\ L(d) # S(c)
          BY DistinctThreads
        <5> QED BY <1>0, <4>1, <5>1 DEF Connected, TypeOK
      <4>2. CASE ~Connected(c)
        BY <1>0, <2>1, <4>2, OthersStay
        DEF Start, Resolve, CheckState, SendVersion, Accept, Send, CallClose
      <4> QED BY <4>1, <4>2
    <3> QED BY <3>1, <3>2, QuietHolds
  <2>2. CASE GiveUpAddress(c)
    <3>1. /\ Unblock(Socket[c], "orphaned") /\ pc[L(c)] = "refused"
          /\ \A f \in Fds : f # Socket[c] => file'[f] = file[f]
          /\ \A d \in Conns : d # c => Socket'[d] = Socket[d]
      BY <1>0, <2>2 DEF GiveUpAddress, TypeOK
    <3>2. \A d \in Conns : d # c => pc'[L(d)] = pc[L(d)]
      BY <1>0, <2>2, OthersStay DEF GiveUpAddress
    <3> QED BY <1>0, <3>1, <3>2, UnblockHolds
  <2> QED BY <1>0, <1>2, <2>1, <2>2, OpenSocketHolds, ConnectSocketHolds, ListenerCallsHold
      DEF ConnectStep
<1>3. ASSUME NEW c \in Conns, Receive(c) \/ CallRecv(c) \/ RecvWakes(c) \/ PeerCloses(c)
      PROVE  \A d \in Conns : Held(d)'
  BY <1>0, <1>3, ListenerCallsHold
<1>4. ASSUME NEW c \in Conns, SenderStep(c) PROVE \A d \in Conns : Held(d)'
  <2>1. UNCHANGED <<Socket, file, call>>
    BY <1>4 DEF SenderStep, Test, PopPacket, SendPacket
  <2>2. \A d \in Conns : pc'[L(d)] = pc[L(d)]
    BY <1>0, <1>4, OthersStay DEF SenderStep, Test, PopPacket, SendPacket, Send, CallClose
  <2> QED BY <2>1, <2>2, QuietHolds
<1>5. ASSUME NEW t \in Threads, CloseStep(t) PROVE \A d \in Conns : Held(d)'
  BY <1>0, <1>5, CloseHolds
<1>6. CASE Turn \/ Sentinel \/ Join
  <2>1. UNCHANGED <<Socket, file, call>>
    BY <1>6 DEF Turn, Sentinel, Join
  <2>2. PICK where : Goto(Main, where)
    BY <1>6 DEF Turn, Sentinel, Join
  <2>3. ASSUME NEW d \in Conns PROVE pc'[L(d)] = pc[L(d)]
    BY <1>0, <2>2, OthersStay
  <2> QED BY <2>1, <2>3, QuietHolds
<1> QED BY <1>1, <1>2, <1>3, <1>4, <1>5, <1>6 DEF Next, HandlerStep

\* The invariant holds throughout: what the next theorems rest on.
THEOREM IInvHolds == Spec => [](IInv /\ EachHeld)
<1>1. Init => EachHeld
  BY DEF Init, Held, EachHeld
<1>2. IInv /\ EachHeld /\ [Next]_vars => EachHeld'
  BY NextHolds DEF EachHeld
<1>3. IInv /\ EachHeld /\ [Next]_vars => IInv'
  BY NextKeepsIInv DEF EachHeld
<1> QED BY <1>1, <1>2, <1>3, InitIInv, PTL DEF Spec

-----------------------------------------------------------------------------
(* What follows. *)

\* Every variable of the connections keeps its type, and no queue outgrows its bound by
\* more than the one empty packet that ~NodeConnection pushes to wake the Sender.
THEOREM ConnectionType == Spec => []TypeOK
<1>1. IInv => TypeOK
  BY DEF IInv
<1> QED BY <1>1, IInvHolds, PTL

\* The Sender lets a packet of its queue out only after the Listener has answered the
\* peer's verack with the inventory, although both write to the socket and only state
\* stands between them.
THEOREM InventoryGoesFirst == Spec => []QueueWaitsForHandshake
<1>1. IInv => QueueWaitsForHandshake
  BY DEF IInv, Answered, QueueWaitsForHandshake
<1> QED BY <1>1, IInvHolds, PTL

-----------------------------------------------------------------------------
(* What a connection leaves behind.  As long as the destructor has not begun, *)
(* the only descriptor a connection can have opened is the one in Socket, and *)
(* a thread is left that will close it.  That takes one address per host:     *)
(* with more, an attempt that failed has set state to 0, and Connect() then   *)
(* gives up with the next socket open.                                        *)

\* Some thread of the connection still is to close its socket.
Kept(c) ==
  \/ pc[L(c)] \in {"check", "connect", "refused", "connected", "mark", "closesocket"}
  \/ pc[L(c)] \in {"version", "recv", "accept"} /\ state[c] # 0
  \/ pc[L(c)] \in {"version", "recv", "accept", "end"} /\ pc[S(c)] = "closesocket"

Clean(c) ==
  pc[Main] = "run" =>
    /\ pc[L(c)] \in {"resolve", "socket", "check", "connect", "connected"} => state[c] = 3
    /\ pc[L(c)] = "refused" => addr[c] = NAddrs
    /\ \A f \in Fds : file[f].owner = c => Socket[c] = f /\ Kept(c)

EachClean == \A c \in Conns : Clean(c)

\* What a thread does with the descriptors takes away owners, and gives none.
LEMMA Owners ==
  ASSUME TypeOK
  PROVE  /\ \A c \in Conns, n \in {"up", "down"} :
              Net(c) # "closed" =>
                \A f \in Fds : [file EXCEPT ![Socket[c]].net = n][f].owner = file[f].owner
         /\ \A fd : \A c \in Conns :
              \A f \in Fds :
                [g \in Fds |-> IF g = fd THEN Closed ELSE file[g]][f].owner = c =>
                  f # fd /\ file[f].owner = c
<1>1. ASSUME NEW c \in Conns, NEW n \in {"up", "down"}, Net(c) # "closed", NEW f \in Fds
      PROVE  [file EXCEPT ![Socket[c]].net = n][f].owner = file[f].owner
  <2>1. Socket[c] \in Fds /\ file[Socket[c]].net # "closed"
    BY <1>1 DEF Net, TypeOK
  <2>2. file[Socket[c]] \in [owner : Conns, net : {"new", "up", "down"}]
    BY <2>1 DEF TypeOK, Closed
  <2>3. [file[Socket[c]] EXCEPT !.net = n].owner = file[Socket[c]].owner
    BY <2>2
  <2> QED BY <2>1, <2>3 DEF TypeOK
<1>2. ASSUME NEW fd, NEW c \in Conns, NEW f \in Fds,
             [g \in Fds |-> IF g = fd THEN Closed ELSE file[g]][f].owner = c
      PROVE  f # fd /\ file[f].owner = c
  BY <1>2, ConnectionAssumption DEF Closed
<1> QED BY <1>1, <1>2

\* What other threads do does not concern a connection, unless it takes its descriptor.
LEMMA OthersClean ==
  ASSUME NEW c \in Conns, Clean(c), pc'[Main] = "run" => pc[Main] = "run",
         pc'[L(c)] = pc[L(c)], pc'[S(c)] = pc[S(c)], state'[c] = state[c], addr'[c] = addr[c],
         Socket'[c] = Socket[c], \A f \in Fds : file'[f].owner = c => file[f].owner = c
  PROVE  Clean(c)'
  BY DEF Clean, Kept

\* A step of the threads of one connection.
Touches(c) ==
  /\ \A u \in Threads : u # L(c) /\ u # S(c) => pc'[u] = pc[u]
  /\ \A d \in Conns : d # c => /\ state'[d] = state[d] /\ addr'[d] = addr[d]
                               /\ Socket'[d] = Socket[d]
  /\ \A d \in Conns : d # c => \A f \in Fds : file'[f].owner = d => file[f].owner = d

LEMMA TouchCleans ==
  ASSUME \A d \in Conns : Clean(d), NEW c \in Conns, Touches(c), Clean(c)'
  PROVE  \A d \in Conns : Clean(d)'
<1> SUFFICES ASSUME NEW d \in Conns, d # c PROVE Clean(d)'
  OBVIOUS
<1>1. pc'[L(d)] = pc[L(d)] /\ pc'[S(d)] = pc[S(d)] /\ pc'[Main] = pc[Main]
  BY DistinctThreads DEF Touches
<1> QED BY <1>1, OthersClean DEF Touches

\* What the threads of a connection find of it, before the destructor.
LEMMA Found ==
  ASSUME IInv, \A d \in Conns : Clean(d), NEW c \in Conns, pc[Main] = "run", NAddrs = 1
  PROVE  /\ pc[L(c)] \in {"resolve", "socket", "check", "connect", "connected"} => state[c] = 3
         /\ pc[L(c)] = "refused" => addr[c] = 1
         /\ pc[L(c)] \in Connecting => addr[c] = 0
         /\ pc[L(c)] \in {"start", "resolve", "socket"} => \A f \in Fds : file[f].owner # c
         /\ \A f \in Fds : file[f].owner = c => Socket[c] = f /\ Kept(c)
<1>1. Clean(c) /\ Placed(c) /\ addr[c] \in 0 .. NAddrs
  BY OfConnection
<1>2. pc[L(c)] \in Connecting => addr[c] = 0
  BY <1>1 DEF Placed
<1>3. pc[L(c)] \in {"start", "resolve", "socket"} => ~Kept(c)
  BY DEF Kept
<1> QED BY <1>1, <1>2, <1>3 DEF Clean

\* One thread of a connection goes somewhere.
LEMMA Moves ==
  ASSUME TypeOK, NEW c \in Conns, NEW where
  PROVE  /\ Goto(L(c), where) =>
              /\ pc'[L(c)] = where /\ pc'[S(c)] = pc[S(c)] /\ pc'[Main] = pc[Main]
              /\ \A u \in Threads : u # L(c) /\ u # S(c) => pc'[u] = pc[u]
         /\ Goto(S(c), where) =>
              /\ pc'[S(c)] = where /\ pc'[L(c)] = pc[L(c)] /\ pc'[Main] = pc[Main]
              /\ \A u \in Threads : u # L(c) /\ u # S(c) => pc'[u] = pc[u]
<1>1. pc \in [Threads -> {pc[u] : u \in Threads}]
  BY DEF TypeOK
<1>2. L(c) \in Threads /\ S(c) \in Threads /\ Main \in Threads
  BY DistinctThreads
<1>3. L(c) # S(c) /\ L(c) # Main /\ S(c) # Main
  BY DistinctThreads
<1> QED BY <1>1, <1>2, <1>3 DEF Goto

LEMMA StartCleans ==
  ASSUME IInv, \A d \in Conns : Clean(d), NAddrs = 1, NEW c \in Conns, Start(c)
  PROVE  \A d \in Conns : Clean(d)'
<1>1. /\ pc'[L(c)] = "resolve" /\ pc'[S(c)] = pc[S(c)] /\ pc'[Main] = pc[Main]
      /\ \A u \in Threads : u # L(c) /\ u # S(c) => pc'[u] = pc[u]
  BY Moves, OfConnection DEF Start
<1>2. /\ state'[c] = 3 /\ \A d \in Conns : d # c => state'[d] = state[d]
      /\ UNCHANGED <<Socket, file, addr>> /\ pc[L(c)] = "start"
  BY OfConnection DEF Start, SetState, TypeOK
<1>3. Touches(c)
  BY <1>1, <1>2 DEF Touches
<1>4. Clean(c)'
  BY <1>1, <1>2, Found DEF Clean, Kept
<1> QED BY <1>3, <1>4, TouchCleans

LEMMA ResolveCleans ==
  ASSUME IInv, \A d \in Conns : Clean(d), NAddrs = 1, NEW c \in Conns, Resolve(c)
  PROVE  \A d \in Conns : Clean(d)'
<1>1. PICK where \in {"socket", "end"} :
        Goto(L(c), where) /\ (where = "socket" => state' = state)
          /\ (where = "end" => SetState(c, 0))
  BY DEF Resolve
<1>2. /\ pc'[L(c)] = where /\ pc'[S(c)] = pc[S(c)] /\ pc'[Main] = pc[Main]
      /\ \A u \in Threads : u # L(c) /\ u # S(c) => pc'[u] = pc[u]
  BY <1>1, Moves, OfConnection
<1>3. /\ \A d \in Conns : d # c => state'[d] = state[d]
      /\ UNCHANGED <<Socket, file, addr>> /\ pc[L(c)] = "resolve"
  BY <1>1, OfConnection DEF Resolve, SetState, TypeOK
<1>4. Touches(c)
  BY <1>2, <1>3 DEF Touches
<1>5. Clean(c)'
  BY <1>1, <1>2, <1>3, Found DEF Clean, Kept
<1> QED BY <1>4, <1>5, TouchCleans

LEMMA OpenSocketCleans ==
  ASSUME IInv, \A d \in Conns : Clean(d), NAddrs = 1, NEW c \in Conns, OpenSocket(c)
  PROVE  \A d \in Conns : Clean(d)'
<1>1. /\ pc[L(c)] = "socket" /\ addr' = addr /\ TypeOK
      /\ (pc[Main] = "run" => state[c] = 3 /\ \A f \in Fds : file[f].owner # c)
  BY Found, OfConnection DEF OpenSocket
<1>2. ASSUME NEW g \in Fds, file[g] = Closed,
             file' = [file EXCEPT ![g] = [owner |-> c, net |-> "new"]],
             Socket' = [Socket EXCEPT ![c] = g], Goto(L(c), "check"), UNCHANGED state
      PROVE  \A d \in Conns : Clean(d)'
  <2>1. /\ pc'[L(c)] = "check" /\ pc'[S(c)] = pc[S(c)] /\ pc'[Main] = pc[Main]
        /\ \A u \in Threads : u # L(c) /\ u # S(c) => pc'[u] = pc[u]
    BY <1>1, <1>2, Moves
  <2>2. /\ Socket'[c] = g /\ \A d \in Conns : d # c => Socket'[d] = Socket[d]
        /\ \A f \in Fds : f # g => file'[f] = file[f]
        /\ file'[g].owner = c
    BY <1>1, <1>2 DEF TypeOK
  <2>3. Touches(c)
    BY <1>1, <1>2, <2>1, <2>2 DEF Touches
  <2>4. Clean(c)'
    BY <1>1, <1>2, <2>1, <2>2 DEF Clean, Kept
  <2> QED BY <2>3, <2>4, TouchCleans
<1>3. ASSUME Socket' = [Socket EXCEPT ![c] = NoFd], SetState(c, 0), Goto(L(c), "end"),
             UNCHANGED file
      PROVE  \A d \in Conns : Clean(d)'
  <2>1. /\ pc'[L(c)] = "end" /\ pc'[S(c)] = pc[S(c)] /\ pc'[Main] = pc[Main]
        /\ \A u \in Threads : u # L(c) /\ u # S(c) => pc'[u] = pc[u]
    BY <1>1, <1>3, Moves
  <2>2. /\ \A d \in Conns : d # c => Socket'[d] = Socket[d] /\ state'[d] = state[d]
        /\ file' = file
    BY <1>1, <1>3 DEF TypeOK, SetState
  <2>3. Touches(c)
    BY <1>1, <2>1, <2>2 DEF Touches
  <2>4. Clean(c)'
    BY <1>1, <2>1, <2>2 DEF Clean, Kept
  <2> QED BY <2>3, <2>4, TouchCleans
<1> QED BY <1>2, <1>3 DEF OpenSocket

LEMMA CheckStateCleans ==
  ASSUME IInv, \A d \in Conns : Clean(d), NAddrs = 1, NEW c \in Conns, CheckState(c)
  PROVE  \A d \in Conns : Clean(d)'
<1> DEFINE where == IF state[c] = 0 THEN "end" ELSE "connect"
<1>1. /\ pc'[L(c)] = where /\ pc'[S(c)] = pc[S(c)] /\ pc'[Main] = pc[Main]
      /\ \A u \in Threads : u # L(c) /\ u # S(c) => pc'[u] = pc[u]
  BY Moves, OfConnection DEF CheckState
<1>2. UNCHANGED <<Socket, file, addr, state>> /\ pc[L(c)] = "check"
  BY DEF CheckState
<1>3. Touches(c)
  BY <1>1, <1>2 DEF Touches
<1>4. Clean(c)'
  BY <1>1, <1>2, Found DEF Clean, Kept
<1> QED BY <1>3, <1>4, TouchCleans

LEMMA RefusedCleans ==
  ASSUME IInv, \A d \in Conns : Clean(d), NAddrs = 1, NEW c \in Conns,
         pc[L(c)] = "connect", Refused(c), UNCHANGED <<Socket, file>>
  PROVE  \A d \in Conns : Clean(d)'
<1>1. /\ pc'[L(c)] = "refused" /\ pc'[S(c)] = pc[S(c)] /\ pc'[Main] = pc[Main]
      /\ \A u \in Threads : u # L(c) /\ u # S(c) => pc'[u] = pc[u]
  BY Moves, OfConnection DEF Refused
<1>2. /\ \A d \in Conns : d # c => state'[d] = state[d] /\ addr'[d] = addr[d]
      /\ addr'[c] = addr[c] + 1
  BY OfConnection DEF Refused, Tried, SetState, TypeOK
<1>3. Touches(c)
  BY <1>1, <1>2 DEF Touches
<1>4. Clean(c)'
  <2>1. addr[c] = 0
    BY OfConnection, Found DEF Placed, Connecting
  <2> QED BY <1>1, <1>2, <2>1, Found DEF Clean, Kept
<1> QED BY <1>3, <1>4, TouchCleans

LEMMA CallConnectCleans ==
  ASSUME IInv, \A d \in Conns : Clean(d), NAddrs = 1, NEW c \in Conns, CallConnect(c)
  PROVE  \A d \in Conns : Clean(d)'
<1>1. CASE UNCHANGED <<state, Socket, file, addr, pc>>
  BY <1>1 DEF Clean, Kept
<1>2. CASE Refused(c) /\ UNCHANGED <<Socket, file>>
  BY <1>2, RefusedCleans DEF CallConnect
<1> QED BY <1>1, <1>2 DEF CallConnect

LEMMA ConnectSocketCleans ==
  ASSUME IInv, \A d \in Conns : Clean(d), NAddrs = 1, NEW c \in Conns, Held(c),
         ConnectSocket(c)
  PROVE  \A d \in Conns : Clean(d)'
<1>1. CASE Refused(c) /\ UNCHANGED <<Socket, file>>
  BY <1>1, RefusedCleans DEF ConnectSocket
<1>2. ASSUME file' = IF call[c] = "in" THEN [file EXCEPT ![Socket[c]].net = "up"] ELSE file,
             Tried(c), Goto(L(c), "connected"), UNCHANGED <<state, Socket>>
      PROVE  \A d \in Conns : Clean(d)'
  <2>1. \A f \in Fds : file'[f].owner = file[f].owner
    BY <1>2, Owners, OfConnection DEF Held
  <2>2. /\ pc'[L(c)] = "connected" /\ pc'[S(c)] = pc[S(c)] /\ pc'[Main] = pc[Main]
        /\ \A u \in Threads : u # L(c) /\ u # S(c) => pc'[u] = pc[u]
    BY <1>2, Moves, OfConnection
  <2>3. pc[L(c)] = "connect" /\ \A d \in Conns : d # c => addr'[d] = addr[d]
    BY <1>2, OfConnection DEF ConnectSocket, Tried, TypeOK
  <2>4. Touches(c)
    BY <1>2, <2>1, <2>2, <2>3 DEF Touches
  <2>5. Clean(c)'
    BY <1>2, <2>1, <2>2, <2>3, Found DEF Clean, Kept
  <2> QED BY <2>4, <2>5, TouchCleans
<1> QED BY <1>1, <1>2 DEF ConnectSocket

LEMMA GiveUpAddressCleans ==
  ASSUME IInv, \A d \in Conns : Clean(d), NAddrs = 1, NEW c \in Conns, GiveUpAddress(c)
  PROVE  \A d \in Conns : Clean(d)'
<1> DEFINE where == IF addr[c] < NAddrs THEN "socket" ELSE "end"
<1>1. /\ pc'[L(c)] = where /\ pc'[S(c)] = pc[S(c)] /\ pc'[Main] = pc[Main]
      /\ \A u \in Threads : u # L(c) /\ u # S(c) => pc'[u] = pc[u]
  BY Moves, OfConnection DEF GiveUpAddress
<1>2. /\ \A d \in Conns : \A f \in Fds :
           file'[f].owner = d => f # Socket[c] /\ file[f].owner = d
      /\ \A d \in Conns : d # c => Socket'[d] = Socket[d]
      /\ UNCHANGED <<addr, state>> /\ pc[L(c)] = "refused"
  BY Owners, OfConnection DEF GiveUpAddress
<1>3. Touches(c)
  BY <1>1, <1>2 DEF Touches
<1>4. pc[Main] = "run" => where = "end"
  BY <1>2, Found
<1>5. Clean(c)'
  BY <1>1, <1>2, <1>4, Found DEF Clean
<1> QED BY <1>3, <1>5, TouchCleans

LEMMA ConnectedCleans ==
  ASSUME IInv, \A d \in Conns : Clean(d), NAddrs = 1, NEW c \in Conns, Connected(c)
  PROVE  \A d \in Conns : Clean(d)'
<1>1. /\ pc'[L(c)] = "version" /\ pc'[S(c)] = "test" /\ pc'[Main] = pc[Main]
      /\ \A u \in Threads : u # L(c) /\ u # S(c) => pc'[u] = pc[u]
  <2>1. L(c) \in Threads /\ S(c) \in Threads /\ Main \in Threads /\ TypeOK
    BY DistinctThreads, OfConnection
  <2>2. L(c) # S(c) /\ L(c) # Main /\ S(c) # Main
    BY DistinctThreads
  <2>3. pc' = [pc EXCEPT ![L(c)] = "version", ![S(c)] = "test"]
    BY DEF Connected
  <2> QED BY <2>1, <2>2, <2>3 DEF TypeOK
<1>2. /\ state'[c] = 1 /\ \A d \in Conns : d # c => state'[d] = state[d]
      /\ UNCHANGED <<Socket, file, addr>> /\ pc[L(c)] = "connected"
  BY OfConnection DEF Connected, SetState, TypeOK
<1>3. Touches(c)
  BY <1>1, <1>2 DEF Touches
<1>4. Clean(c)'
  BY <1>1, <1>2, Found DEF Clean, Kept
<1> QED BY <1>3, <1>4, TouchCleans

LEMMA SendVersionCleans ==
  ASSUME IInv, \A d \in Conns : Clean(d), NAddrs = 1, NEW c \in Conns, SendVersion(c)
  PROVE  \A d \in Conns : Clean(d)'
<1>1. PICK where \in {"recv", "mark", "end"} :
        Goto(L(c), where) /\ (where = "end" => state[c] = 0)
  BY DistinctThreads DEF SendVersion, Send, CallClose
<1>2. /\ pc'[L(c)] = where /\ pc'[S(c)] = pc[S(c)] /\ pc'[Main] = pc[Main]
      /\ \A u \in Threads : u # L(c) /\ u # S(c) => pc'[u] = pc[u]
  BY <1>1, Moves, OfConnection
<1>3. UNCHANGED <<state, Socket, file, addr>> /\ pc[L(c)] = "version"
  BY DEF SendVersion
<1>4. Touches(c)
  BY <1>2, <1>3 DEF Touches
<1>5. Clean(c)'
  BY <1>1, <1>2, <1>3, Found DEF Clean, Kept
<1> QED BY <1>4, <1>5, TouchCleans

LEMMA ListenerCloseCleans ==
  ASSUME IInv, \A d \in Conns : Clean(d), NAddrs = 1, NEW c \in Conns,
         pc[L(c)] = "recv", CallClose(L(c)), UNCHANGED <<state, Socket, file, addr>>
  PROVE  \A d \in Conns : Clean(d)'
<1> DEFINE where == IF state[c] = 0 THEN "end" ELSE "mark"
<1>1. Goto(L(c), where)
  BY DistinctThreads DEF CallClose
<1>2. /\ pc'[L(c)] = where /\ pc'[S(c)] = pc[S(c)] /\ pc'[Main] = pc[Main]
      /\ \A u \in Threads : u # L(c) /\ u # S(c) => pc'[u] = pc[u]
  BY <1>1, Moves, OfConnection
<1>3. Touches(c)
  BY <1>2 DEF Touches
<1>4. Clean(c)'
  BY <1>2, Found DEF Clean, Kept
<1> QED BY <1>3, <1>4, TouchCleans

LEMMA AcceptCleans ==
  ASSUME IInv, \A d \in Conns : Clean(d), NAddrs = 1, NEW c \in Conns, Accept(c)
  PROVE  \A d \in Conns : Clean(d)'
<1>1. /\ pc'[L(c)] = "recv" /\ pc'[S(c)] = pc[S(c)] /\ pc'[Main] = pc[Main]
      /\ \A u \in Threads : u # L(c) /\ u # S(c) => pc'[u] = pc[u]
  BY Moves, OfConnection DEF Accept
<1>2. /\ state'[c] = 2 /\ \A d \in Conns : d # c => state'[d] = state[d]
      /\ UNCHANGED <<Socket, file, addr>> /\ pc[L(c)] = "accept"
  BY OfConnection DEF Accept, SetState, TypeOK
<1>3. Touches(c)
  BY <1>1, <1>2 DEF Touches
<1>4. Clean(c)'
  BY <1>1, <1>2, Found DEF Clean, Kept
<1> QED BY <1>3, <1>4, TouchCleans

LEMMA ReceiveCleans ==
  ASSUME IInv, \A d \in Conns : Clean(d), NAddrs = 1, NEW c \in Conns, Receive(c)
  PROVE  \A d \in Conns : Clean(d)'
<1>1. /\ UNCHANGED <<state, Socket, file, addr>> /\ pc[L(c)] = "recv"
      /\ pc' = pc \/ Goto(L(c), "accept")
  BY DEF Receive
<1>2. /\ pc'[L(c)] \in {"recv", "accept"} /\ pc'[S(c)] = pc[S(c)] /\ pc'[Main] = pc[Main]
      /\ \A u \in Threads : u # L(c) /\ u # S(c) => pc'[u] = pc[u]
  BY <1>1, Moves, OfConnection
<1>3. Touches(c)
  BY <1>1, <1>2 DEF Touches
<1>4. Clean(c)'
  BY <1>1, <1>2, Found DEF Clean, Kept
<1> QED BY <1>3, <1>4, TouchCleans

\* The Sender ends only on a closed connection.
LEMMA SenderCleans ==
  ASSUME IInv, \A d \in Conns : Clean(d), NAddrs = 1, NEW c \in Conns, SenderStep(c)
  PROVE  \A d \in Conns : Clean(d)'
<1>1. PICK where \in SenderPlaces : Goto(S(c), where)
  <2>1. ConnOf(S(c)) = c
    BY DistinctThreads
  <2> QED BY <2>1 DEF SenderStep, Test, PopPacket, SendPacket, Send, CallClose, SenderPlaces
<1>2. /\ UNCHANGED <<state, Socket, file, addr>> /\ pc[S(c)] \in {"test", "pop", "send"}
  BY DEF SenderStep, Test, PopPacket, SendPacket
<1>3. /\ pc'[S(c)] = where /\ pc'[L(c)] = pc[L(c)] /\ pc'[Main] = pc[Main]
      /\ \A u \in Threads : u # L(c) /\ u # S(c) => pc'[u] = pc[u]
  BY <1>1, Moves, OfConnection
<1>4. Touches(c)
  BY <1>2, <1>3 DEF Touches
<1>5. Clean(c)'
  BY <1>2, <1>3, Found DEF Clean, Kept
<1> QED BY <1>4, <1>5, TouchCleans

\* Close() in one of the connection's own threads.
LEMMA CloseCleans ==
  ASSUME IInv, \A d \in Conns : Clean(d), NAddrs = 1, NEW c \in Conns,
         CloseStep(L(c)) \/ CloseStep(S(c))
  PROVE  \A d \in Conns : Clean(d)'
<1>1. PICK t \in {L(c), S(c)} : CloseMark(t) \/ CloseSocket(t)
  BY DEF CloseStep
<1>2. ConnOf(t) = c /\ AfterClose(t) = "end"
  BY <1>1, DistinctThreads
<1>3. CASE CloseMark(t)
  <2>1. /\ state' = [state EXCEPT ![c] = 0] /\ UNCHANGED <<Socket, addr>> /\ pc[t] = "mark"
        /\ Goto(t, "closesocket")
    BY <1>2, <1>3 DEF CloseMark, SetState
  <2>2. /\ pc'[Main] = pc[Main] /\ \A u \in Threads : u # L(c) /\ u # S(c) => pc'[u] = pc[u]
        /\ pc'[t] = "closesocket"
        /\ t = L(c) => pc'[S(c)] = pc[S(c)]
        /\ t = S(c) => pc'[L(c)] = pc[L(c)]
    BY <1>1, <2>1, Moves, OfConnection
  <2>3. \A f \in Fds : file'[f].owner = file[f].owner
    <3>1. CASE Net(c) = "up"
      BY <1>2, <1>3, <3>1, Owners, OfConnection DEF CloseMark
    <3>2. CASE Net(c) # "up"
      BY <1>2, <1>3, <3>2 DEF CloseMark
    <3> QED BY <3>1, <3>2
  <2>4. state'[c] = 0 /\ \A d \in Conns : d # c => state'[d] = state[d]
    BY <2>1, OfConnection DEF TypeOK
  <2>5. Touches(c)
    BY <2>1, <2>2, <2>3, <2>4 DEF Touches
  <2>6. Clean(c)'
    <3>1. Placed(c)
      BY OfConnection
    <3>2. CASE t = L(c)
      BY <2>1, <2>2, <2>3, <2>4, <3>2, Found DEF Clean, Kept
    <3>3. CASE t = S(c)
      <4>1. /\ pc[L(c)] \notin Connecting \cup {"refused", "connected"}
            /\ pc[L(c)] \in ListenerPlaces
        BY <2>1, <3>1, <3>3 DEF Placed
      <4>2. pc'[L(c)] \in {"version", "recv", "accept", "mark", "closesocket", "end"}
        BY <2>2, <3>3, <4>1 DEF ListenerPlaces
      <4> QED BY <2>1, <2>2, <2>3, <2>4, <3>3, <4>2, Found DEF Clean, Kept
    <3> QED BY <1>1, <3>2, <3>3
  <2> QED BY <2>5, <2>6, TouchCleans
<1>4. CASE CloseSocket(t)
  <2>1. /\ UNCHANGED <<state, Socket, addr>> /\ pc[t] = "closesocket" /\ Goto(t, "end")
    BY <1>2, <1>4 DEF CloseSocket
  <2>2. /\ pc'[Main] = pc[Main] /\ \A u \in Threads : u # L(c) /\ u # S(c) => pc'[u] = pc[u]
        /\ pc'[t] = "end"
        /\ t = L(c) => pc'[S(c)] = pc[S(c)]
        /\ t = S(c) => pc'[L(c)] = pc[L(c)]
    BY <1>1, <2>1, Moves, OfConnection
  <2>3. \A d \in Conns : \A f \in Fds :
          file'[f].owner = d => f # Socket[c] /\ file[f].owner = d
    BY <1>2, <1>4, Owners, OfConnection DEF CloseSocket
  <2>4. Touches(c)
    BY <2>1, <2>2, <2>3 DEF Touches
  <2>5. Clean(c)'
    <3>1. Placed(c)
      BY OfConnection
    <3>2. pc[Main] = "run" => \A f \in Fds : file'[f].owner # c
      BY <2>3, Found
    <3>3. pc'[L(c)] \notin {"resolve", "socket", "check", "connect", "connected", "refused"}
      BY <1>1, <2>1, <2>2, <3>1 DEF Placed, Connecting
    <3> QED BY <2>2, <3>2, <3>3 DEF Clean
  <2> QED BY <2>4, <2>5, TouchCleans
<1> QED BY <1>1, <1>3, <1>4

\* The destructor's steps come after its beginning.
LEMMA MainCleans ==
  ASSUME IInv, Turn \/ Sentinel \/ Join \/ CloseStep(Main)
  PROVE  \A d \in Conns : Clean(d)'
<1>1. pc'[Main] # "run"
  <2>1. PICK where \in {"mark", "sentinel", "pick", "join", "done", "closesocket"} :
          Goto(Main, where)
    BY DEF Turn, Sentinel, Join, CloseStep, CloseMark, CloseSocket, AfterClose
  <2> QED BY <2>1, DistinctThreads DEF IInv, TypeOK, Goto
<1> QED BY <1>1 DEF Clean

LEMMA NextCleans ==
  ASSUME IInv, \A d \in Conns : Held(d), \A d \in Conns : Clean(d), NAddrs = 1, [Next]_vars
  PROVE  \A d \in Conns : Clean(d)'
<1>1. CASE \/ UNCHANGED vars
           \/ \E c \in Conns : PushPacket(c)
  <2>1. UNCHANGED <<state, Socket, file, addr, pc>>
    BY <1>1 DEF vars, PushPacket
  <2> QED BY <2>1 DEF Clean, Kept
<1>2. ASSUME NEW c \in Conns, ConnectStep(c) PROVE \A d \in Conns : Clean(d)'
  BY <1>2, StartCleans, ResolveCleans, OpenSocketCleans, CheckStateCleans, CallConnectCleans,
     ConnectSocketCleans, GiveUpAddressCleans, ConnectedCleans, SendVersionCleans
  DEF ConnectStep
<1>3. ASSUME NEW c \in Conns, Receive(c) \/ HandlerStep(c) \/ PeerCloses(c)
      PROVE  \A d \in Conns : Clean(d)'
  <2>1. CASE UNCHANGED <<state, Socket, file, addr, pc>>
    BY <2>1 DEF Clean, Kept
  <2>2. CASE /\ pc[L(c)] = "recv" /\ CallClose(L(c)) /\ UNCHANGED <<state, Socket, file, addr>>
    BY <2>2, ListenerCloseCleans
  <2> QED BY <1>3, <2>1, <2>2, ReceiveCleans, AcceptCleans
      DEF HandlerStep, CallRecv, RecvWakes, PeerCloses
<1>4. ASSUME NEW c \in Conns, SenderStep(c) PROVE \A d \in Conns : Clean(d)'
  BY <1>4, SenderCleans
<1>5. ASSUME NEW t \in Threads, CloseStep(t) PROVE \A d \in Conns : Clean(d)'
  <2>1. t = Main \/ \E c \in Conns : t = L(c) \/ t = S(c)
    BY DistinctThreads
  <2> QED BY <1>5, <2>1, CloseCleans, MainCleans
<1>6. CASE Turn \/ Sentinel \/ Join
  BY <1>6, MainCleans
<1> QED BY <1>1, <1>2, <1>3, <1>4, <1>5, <1>6 DEF Next

\* If every host has one address, a connection whose two threads have ended by themselves
\* has state 0 and leaves no descriptor open, however the Close() calls of its threads met
\* each other and those of other connections that had got the same descriptor.
THEOREM EndedConnectionIsClean ==
  ASSUME NAddrs = 1
  PROVE  Spec => []DeadConnectionIsClean
<1>1. Init => EachClean
  <2> SUFFICES ASSUME Init, NEW d \in Conns PROVE Clean(d)
    BY DEF EachClean
  <2>1. pc[L(d)] = "start" /\ \A f \in Fds : file[f].owner # d
    <3>1. L(d) \in Threads /\ L(d) # Main /\ L(d)[1] = "listener"
      BY DistinctThreads DEF L
    <3> QED BY <3>1, ConnectionAssumption DEF Init, Closed
  <2> QED BY <2>1 DEF Clean
<1>2. IInv /\ EachHeld /\ EachClean /\ [Next]_vars => EachClean'
  BY NextCleans DEF EachHeld, EachClean
<1>3. IInv /\ EachClean => DeadConnectionIsClean
  <2> SUFFICES ASSUME IInv, \A d \in Conns : Clean(d), NEW c \in Conns, Ended(c),
                      pc[Main] = "run"
               PROVE  state[c] = 0 /\ \A f \in Fds : file[f].owner # c
    BY DEF DeadConnectionIsClean, EachClean
  <2>1. state[c] = 0
    BY OfConnection DEF Placed, Ended
  <2>2. ~Kept(c)
    BY DEF Kept, Ended
  <2> QED BY <2>1, <2>2, Found
<1> QED BY <1>1, <1>2, <1>3, IInvHolds, PTL DEF Spec
=============================================================================
