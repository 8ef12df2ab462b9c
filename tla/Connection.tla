----------------------------- MODULE Connection -----------------------------
(***************************************************************************)
(* The life of NodeConnections: the thread that runs Connect() and then    *)
(* Listener(), the thread that runs Sender(), and the client's destructor  *)
(* (~BitMRC, ~NodeConnection), which calls Close() on every connection and *)
(* joins both threads.  All three read and write state and Socket with no  *)
(* lock, so every access is a step of its own.                             *)
(*                                                                         *)
(* A socket is an open file behind a descriptor; the system may hand the   *)
(* number of a closed descriptor to the next socket() call of any          *)
(* connection, while Socket keeps the old number.  A thread that is inside *)
(* connect() or recv() holds on to the file: shutdown() of the descriptor  *)
(* wakes it, closesocket() does not.                                       *)
(***************************************************************************)
EXTENDS Naturals, Sequences, SequencesExt

CONSTANTS
  Nodes,       \* BitMRC::Nodes: the NodeConnections, each started once
  NFds,        \* descriptors of the process
  NoFd,        \* INVALID_SOCKET
  Nobody,      \* owner of a descriptor that is not open
  NAddrs,      \* addresses that getaddrinfo finds for a host
  MaxPackets   \* bound: length of each Packets up to which others than ~NodeConnection push

Conns == ToSet(Nodes)
Fds == 1 .. NFds
Main == <<"main">>
L(c) == <<"listener", c>>
S(c) == <<"sender", c>>
Threads == {L(c) : c \in Conns} \cup {S(c) : c \in Conns} \cup {Main}

ASSUME ConnectionAssumption ==
  /\ Nodes \in Seq(Conns) /\ IsInjective(Nodes)
  /\ NFds \in Nat /\ NoFd \notin Fds /\ Nobody \notin Conns
  /\ NAddrs \in Nat \ {0} /\ MaxPackets \in [Conns -> Nat]

VARIABLES
  state,      \* NodeConnection::state: 0, 3 connecting, 1 connected, 2 accepted
  Socket,     \* NodeConnection::Socket
  file,       \* the process's descriptor table
  addr,       \* addr[c]: addresses of getaddrinfo's list that connect() was tried on
  call,       \* call[c]: the Listener's connect() or recv(), see Calls
  pc,         \* where each thread is
  Packets,    \* Packets[c]: length of the Sender's queue
  visit,      \* ~BitMRC: turns of its two loops over Nodes, Close() and delete, begun
  greeted     \* history: the Listener answered a verack with its inventory

vars == <<state, Socket, file, addr, call, pc, Packets, visit, greeted>>

\* A blocking call: none, one in the file behind Socket, one that a shutdown of that
\* file has woken, one whose file was taken from its descriptor by a closesocket.
Calls == {"no", "in", "woken", "orphaned"}

Closed == [owner |-> Nobody, net |-> "closed"]

\* The open file Socket refers to now, whoever opened it; "closed" if the descriptor
\* is not open.
Net(c) == IF Socket[c] = NoFd THEN "closed" ELSE file[Socket[c]].net

\* The calls that are blocked in the file behind a descriptor become what ends them.
Unblock(fd, how) ==
  call' = [c \in Conns |-> IF call[c] = "in" /\ Socket[c] = fd THEN how ELSE call[c]]

Goto(t, where) == pc' = [pc EXCEPT ![t] = where]
SetState(c, v) == state' = [state EXCEPT ![c] = v]

\* The connection of a turn of ~BitMRC, in the loop that deletes or the one before.
Deletes(turn) == turn > Len(Nodes)
Target(turn) == Nodes[IF Deletes(turn) THEN turn - Len(Nodes) ELSE turn]

\* The connection a thread's Close() is about, and where Close() returns to.
ConnOf(t) == IF t = Main THEN Target(visit) ELSE t[2]
AfterClose(t) ==
  IF t # Main THEN "end" ELSE IF Deletes(visit) THEN "sentinel" ELSE "pick"

\* Close() of a connection's own threads begins: if (!this->state) return.
CallClose(t) == Goto(t, IF state[ConnOf(t)] = 0 THEN "end" ELSE "mark")

\* A send on c's descriptor: it goes through on a connected socket and throws
\* on any other; it may also throw because the peer is gone.
Send(c, t, next) ==
  \/ Net(c) = "up" /\ Goto(t, next)
  \/ CallClose(t)

Init ==
  /\ state = [c \in Conns |-> 0]
  /\ Socket = [c \in Conns |-> NoFd]
  /\ file = [f \in Fds |-> Closed]
  /\ addr = [c \in Conns |-> 0]
  /\ call = [c \in Conns |-> "no"]
  /\ pc = [t \in Threads |->
             IF t = Main THEN "run" ELSE IF t[1] = "listener" THEN "start" ELSE "none"]
  /\ Packets = [c \in Conns |-> 0]
  /\ visit = 0
  /\ greeted = [c \in Conns |-> FALSE]

-----------------------------------------------------------------------------
(* Faulty variants of steps below: the properties must refuse them. *)

\* The descriptor of a refused connection is not closed.
GiveUpAddressOpen(c) ==
  /\ pc[L(c)] = "refused"
  /\ Socket' = [Socket EXCEPT ![c] = NoFd]
  /\ Goto(L(c), IF addr[c] < NAddrs THEN "socket" ELSE "end")
  /\ UNCHANGED <<state, file, addr, call, Packets, visit, greeted>>

\* The Sender works on every connection that is not closed.
TestUnaccepted(c) ==
  /\ pc[S(c)] = "test"
  /\ Goto(S(c), IF state[c] = 0 THEN "end" ELSE "pop")
  /\ UNCHANGED <<state, Socket, file, addr, call, Packets, visit, greeted>>

\* Close() closes the socket without shutting it down first.
CloseMarkSilent(t) ==
  /\ pc[t] = "mark"
  /\ SetState(ConnOf(t), 0)
  /\ Goto(t, "closesocket")
  /\ UNCHANGED <<Socket, file, addr, call, Packets, visit, greeted>>

\* The Sender takes a packet without waiting for one.
PopUnwaited(c) ==
  /\ pc[S(c)] = "pop"
  /\ Packets' = [Packets EXCEPT ![c] = @ - 1]
  /\ Goto(S(c), "send")
  /\ UNCHANGED <<state, Socket, file, addr, call, visit, greeted>>

-----------------------------------------------------------------------------
(* NodeConnection::Connect, in the listener thread *)

Start(c) ==
  /\ pc[L(c)] = "start"
  /\ SetState(c, 3)
  /\ Goto(L(c), "resolve")
  /\ UNCHANGED <<Socket, file, addr, call, Packets, visit, greeted>>

\* getaddrinfo: a list of NAddrs addresses, or an error.
Resolve(c) ==
  /\ pc[L(c)] = "resolve"
  /\ \/ Goto(L(c), "socket") /\ UNCHANGED state
     \/ SetState(c, 0) /\ Goto(L(c), "end")
  /\ UNCHANGED <<Socket, file, addr, call, Packets, visit, greeted>>

\* socket() for the next address of the list returns the lowest free descriptor;
\* when it fails Connect gives up.
OpenSocket(c) ==
  /\ pc[L(c)] = "socket"
  /\ \/ \E f \in Fds :
          /\ file[f] = Closed /\ \A g \in 1 .. f - 1 : file[g] # Closed
          /\ file' = [file EXCEPT ![f] = [owner |-> c, net |-> "new"]]
          /\ Socket' = [Socket EXCEPT ![c] = f]
          /\ Goto(L(c), "check")
          /\ UNCHANGED state
     \/ /\ Socket' = [Socket EXCEPT ![c] = NoFd]
        /\ SetState(c, 0)
        /\ Goto(L(c), "end")
        /\ UNCHANGED file
  /\ UNCHANGED <<addr, call, Packets, visit, greeted>>

\* if (this->state == 0) return false
CheckState(c) ==
  /\ pc[L(c)] = "check"
  /\ Goto(L(c), IF state[c] = 0 THEN "end" ELSE "connect")
  /\ UNCHANGED <<state, Socket, file, addr, call, Packets, visit, greeted>>

\* One more address was tried, the last one in vain if it is refused: state = 0.
Tried(c) == addr' = [addr EXCEPT ![c] = @ + 1]
Refused(c) == Tried(c) /\ SetState(c, 0) /\ Goto(L(c), "refused")

\* connect() begins: it fails at once on a socket that is not open or not new.
CallConnect(c) ==
  /\ pc[L(c)] = "connect" /\ call[c] = "no"
  /\ IF Net(c) = "new"
     THEN call' = [call EXCEPT ![c] = "in"] /\ UNCHANGED <<state, addr, pc>>
     ELSE Refused(c) /\ UNCHANGED call
  /\ UNCHANGED <<Socket, file, Packets, visit, greeted>>

\* connect() returns: the peer accepts, unless a shutdown has ended the attempt, or
\* there is an error.
ConnectSocket(c) ==
  /\ pc[L(c)] = "connect" /\ call[c] # "no"
  /\ call' = [call EXCEPT ![c] = "no"]
  /\ \/ /\ call[c] # "woken"
        /\ file' = IF call[c] = "in" THEN [file EXCEPT ![Socket[c]].net = "up"] ELSE file
        /\ Tried(c) /\ Goto(L(c), "connected")
        /\ UNCHANGED state
     \/ Refused(c) /\ UNCHANGED file
  /\ UNCHANGED <<Socket, Packets, visit, greeted>>

\* closesocket(Socket); Socket = INVALID_SOCKET; then the next address, or none
\* is left and Connect gives up (state is 0 already).
GiveUpAddress(c) ==
  /\ pc[L(c)] = "refused"
  /\ file' = [f \in Fds |-> IF f = Socket[c] THEN Closed ELSE file[f]]
  /\ Socket' = [Socket EXCEPT ![c] = NoFd]
  /\ Unblock(Socket[c], "orphaned")
  /\ Goto(L(c), IF addr[c] < NAddrs THEN "socket" ELSE "end")
  /\ UNCHANGED <<state, addr, Packets, visit, greeted>>

\* state = 1, and the thread that runs Sender().
Connected(c) ==
  /\ pc[L(c)] = "connected"
  /\ SetState(c, 1)
  /\ pc' = [pc EXCEPT ![L(c)] = "version", ![S(c)] = "test"]
  /\ UNCHANGED <<Socket, file, addr, call, Packets, visit, greeted>>

\* The version packet.  setTimeout changes nothing on Linux (the option wants a
\* timeval), so a silent peer keeps the Listener that follows in recv for ever.
SendVersion(c) ==
  /\ pc[L(c)] = "version"
  /\ Send(c, L(c), "recv")
  /\ UNCHANGED <<state, Socket, file, addr, call, Packets, visit, greeted>>

-----------------------------------------------------------------------------
(* NodeConnection::Listener *)

\* recv() begins: it fails at once on a socket that is not connected.
CallRecv(c) ==
  /\ pc[L(c)] = "recv" /\ call[c] = "no"
  /\ IF Net(c) = "up"
     THEN call' = [call EXCEPT ![c] = "in"] /\ UNCHANGED pc
     ELSE CallClose(L(c)) /\ UNCHANGED call
  /\ UNCHANGED <<state, Socket, file, addr, Packets, visit, greeted>>

\* A packet arrives in the file that recv holds, and its answer goes out.  inv and
\* getdata put theirs on Packets; that of verack (verack, addr and the inventory)
\* goes straight to the socket; no other command changes anything here.
Receive(c) ==
  /\ pc[L(c)] = "recv" /\ call[c] \in {"in", "orphaned"}
  /\ call' = [call EXCEPT ![c] = "no"]
  /\ \/ UNCHANGED <<pc, Packets, greeted>>
     \/ /\ Packets[c] < MaxPackets[c]
        /\ Packets' = [Packets EXCEPT ![c] = @ + 1]
        /\ UNCHANGED <<pc, greeted>>
     \/ /\ Net(c) = "up"
        /\ Goto(L(c), "accept")
        /\ greeted' = [greeted EXCEPT ![c] = TRUE]
        /\ UNCHANGED Packets
  /\ UNCHANGED <<state, Socket, file, addr, visit>>

\* A recv that a shutdown has woken returns 0.  (What had arrived before is read
\* first: its answers fail, or are packets that PushPacket might have pushed.)
RecvWakes(c) ==
  /\ pc[L(c)] = "recv" /\ call[c] = "woken"
  /\ call' = [call EXCEPT ![c] = "no"]
  /\ CallClose(L(c))
  /\ UNCHANGED <<state, Socket, file, addr, Packets, visit, greeted>>

\* state = 2, after the answer to verack.
Accept(c) ==
  /\ pc[L(c)] = "accept"
  /\ SetState(c, 2)
  /\ Goto(L(c), "recv")
  /\ UNCHANGED <<Socket, file, addr, call, Packets, visit, greeted>>

-----------------------------------------------------------------------------
(* NodeConnection::Sender *)

\* while (Socket != SOCKET_ERROR && state != 0): sleep until state is 2.
Test(c) ==
  /\ pc[S(c)] = "test"
  /\ \/ state[c] = 0 /\ Goto(S(c), "end")
     \/ state[c] = 2 /\ Goto(S(c), "pop")
  /\ UNCHANGED <<state, Socket, file, addr, call, Packets, visit, greeted>>

PopPacket(c) ==
  /\ pc[S(c)] = "pop"
  /\ Packets[c] > 0
  /\ Packets' = [Packets EXCEPT ![c] = @ - 1]
  /\ Goto(S(c), "send")
  /\ UNCHANGED <<state, Socket, file, addr, call, visit, greeted>>

SendPacket(c) ==
  /\ pc[S(c)] = "send"
  /\ Send(c, S(c), "test")
  /\ UNCHANGED <<state, Socket, file, addr, call, Packets, visit, greeted>>

-----------------------------------------------------------------------------
(* NodeConnection::Close, in thread t *)

\* state = 0, and shutdown(), in one step: it ends a connected socket, wakes whoever
\* is blocked in it or in connecting it, and fails on any other.
CloseMark(t) ==
  /\ pc[t] = "mark"
  /\ SetState(ConnOf(t), 0)
  /\ LET fd == Socket[ConnOf(t)] IN
     file' = IF Net(ConnOf(t)) = "up" THEN [file EXCEPT ![fd].net = "down"] ELSE file
  /\ Unblock(Socket[ConnOf(t)], "woken")
  /\ Goto(t, "closesocket")
  /\ UNCHANGED <<Socket, addr, Packets, visit, greeted>>

\* closesocket(): frees the descriptor, whoever opened it; Socket keeps it.  A call
\* that is still blocked in the file stays blocked, and no shutdown reaches it any more.
CloseSocket(t) ==
  /\ pc[t] = "closesocket"
  /\ file' = [f \in Fds |-> IF f = Socket[ConnOf(t)] THEN Closed ELSE file[f]]
  /\ Unblock(Socket[ConnOf(t)], "orphaned")
  /\ Goto(t, AfterClose(t))
  /\ UNCHANGED <<state, Socket, addr, Packets, visit, greeted>>

-----------------------------------------------------------------------------
(* ~BitMRC and ~NodeConnection, in the main thread *)

\* The next turn of the first loop (Close) or of the second (delete, which
\* begins with Close): both return at once if state is 0.
Turn ==
  /\ pc[Main] \in {"run", "pick"} /\ visit < 2 * Len(Nodes)
  /\ visit' = visit + 1
  /\ Goto(Main, IF state[Target(visit')] # 0 THEN "mark"
                ELSE IF Deletes(visit') THEN "sentinel" ELSE "pick")
  /\ UNCHANGED <<state, Socket, file, addr, call, Packets, greeted>>

\* Packets.push(Packet())
Sentinel ==
  /\ pc[Main] = "sentinel"
  /\ Packets' = [Packets EXCEPT ![Target(visit)] = @ + 1]
  /\ Goto(Main, "join")
  /\ UNCHANGED <<state, Socket, file, addr, call, visit, greeted>>

\* thread_listener.join(), thread_sender.join(); the destructor is over after
\* the last connection's.
Join ==
  /\ pc[Main] = "join"
  /\ pc[L(Target(visit))] = "end" /\ pc[S(Target(visit))] \in {"none", "end"}
  /\ Goto(Main, IF visit < 2 * Len(Nodes) THEN "pick" ELSE "done")
  /\ UNCHANGED <<state, Socket, file, addr, call, Packets, visit, greeted>>

-----------------------------------------------------------------------------
(* The rest of the client, and the network *)

\* listen_packets pushes a packet for the connection, whatever its state.
PushPacket(c) ==
  /\ Packets[c] < MaxPackets[c]
  /\ Packets' = [Packets EXCEPT ![c] = @ + 1]
  /\ UNCHANGED <<state, Socket, file, addr, call, pc, visit, greeted>>

\* The peer goes away while the Listener is in recv (a send that meets this
\* throws: see Send), or the answer to what it sent cannot be sent.
PeerCloses(c) ==
  /\ pc[L(c)] = "recv" /\ call[c] \in {"in", "orphaned"}
  /\ call' = [call EXCEPT ![c] = "no"]
  /\ CallClose(L(c))
  /\ UNCHANGED <<state, Socket, file, addr, Packets, visit, greeted>>

ConnectStep(c) ==
  \/ Start(c) \/ Resolve(c) \/ OpenSocket(c) \/ CheckState(c) \/ CallConnect(c)
  \/ ConnectSocket(c) \/ GiveUpAddress(c) \/ Connected(c) \/ SendVersion(c)
HandlerStep(c) == CallRecv(c) \/ RecvWakes(c) \/ Accept(c)
SenderStep(c) == Test(c) \/ PopPacket(c) \/ SendPacket(c)
CloseStep(t) == CloseMark(t) \/ CloseSocket(t)
MainStep == (pc[Main] = "pick" /\ Turn) \/ CloseStep(Main) \/ Sentinel \/ Join

Next ==
  \/ \E c \in Conns : ConnectStep(c) \/ Receive(c) \/ HandlerStep(c) \/ SenderStep(c)
                    \/ PushPacket(c) \/ PeerCloses(c)
  \/ \E t \in Threads : CloseStep(t)
  \/ Turn \/ Sentinel \/ Join

\* The threads are scheduled; system calls return, except a recv that no shutdown has
\* woken and a wait for a packet or for a thread.  Nobody has to quit the
\* program, push a packet, send a message or close a connection.
Fairness ==
  /\ \A c \in Conns :
       /\ WF_vars(ConnectStep(c) \/ HandlerStep(c) \/ CloseStep(L(c)))
       /\ WF_vars(SenderStep(c) \/ CloseStep(S(c)))
  /\ WF_vars(MainStep)

Spec == Init /\ [][Next]_vars /\ Fairness

-----------------------------------------------------------------------------
(* Properties *)

Ended(c) == pc[L(c)] = "end" /\ pc[S(c)] \in {"none", "end"}
Listening(c) == pc[L(c)] \in {"recv", "accept"}

\* Every variable keeps its type; a closed descriptor belongs to nobody.
TypeOK ==
  /\ state \in [Conns -> 0 .. 3]
  /\ Socket \in [Conns -> Fds \cup {NoFd}]
  /\ file \in [Fds -> [owner : Conns, net : {"new", "up", "down"}] \cup {Closed}]
  /\ addr \in [Conns -> 0 .. NAddrs] /\ call \in [Conns -> Calls]
  /\ pc \in [Threads ->
       {"run", "pick", "mark", "closesocket", "sentinel", "join", "done",
        "start", "resolve", "socket", "check", "connect", "refused", "connected",
        "version", "recv", "accept", "none", "test", "pop", "send", "end"}]
  /\ Packets \in [Conns -> Nat] /\ \A c \in Conns : Packets[c] <= MaxPackets[c] + 1
  /\ visit \in 0 .. 2 * Len(Nodes)
  /\ greeted \in [Conns -> BOOLEAN]

\* A packet of the queue leaves only behind the inventory that answers the
\* peer's verack, although the Listener writes the one and the Sender the
\* other, both straight to the socket.
QueueWaitsForHandshake == \A c \in Conns : pc[S(c)] \in {"pop", "send"} => greeted[c]

\* A connection whose threads have both ended without the destructor's help is
\* "not connected" and has given its descriptor back, however the Close() calls
\* of its two threads met each other and those of other connections.  (For a
\* host with one address: see TriesEveryAddress.)
DeadConnectionIsClean ==
  \A c \in Conns :
    Ended(c) /\ pc[Main] = "run" =>
      state[c] = 0 /\ \A f \in Fds : file[f].owner # c

\* The destructor joins both threads of every connection and comes to its end if it
\* begins when every connection is past Connect(), no Sender is inside Close() and no
\* recv has lost its descriptor: then no number comes back, and whoever closes a
\* descriptor first has woken the recv in it.
DestructorEnds ==
  (/\ visit = 1 /\ pc[Main] \in {"mark", "pick"}
   /\ \A c \in Conns : /\ Listening(c) \/ Ended(c)
                       /\ pc[S(c)] \notin {"mark", "closesocket"} /\ call[c] # "orphaned")
    ~> pc[Main] = "done"

\* NodeConnection.cpp: "Attempt to connect to an address until one succeeds":
\* a connection that ends unconnected, nobody having closed it and socket()
\* having worked, has tried every address it found.
TriesEveryAddress ==
  \A c \in Conns :
    pc[L(c)] = "end" /\ pc[S(c)] = "none" /\ pc[Main] = "run" /\ Socket[c] # NoFd
      => addr[c] = NAddrs
=============================================================================
