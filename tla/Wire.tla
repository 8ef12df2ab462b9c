-------------------------------- MODULE Wire --------------------------------
(***************************************************************************)
(* One connection from the first byte to the last: the Listener and the    *)
(* Sender of a node write frames to one socket, field by field and with no *)
(* lock (Packet::sendData), and a peer that runs the same code reads them  *)
(* (Packet::getCommand), decodes their lists and validates an object, whose *)
(* proof of work was made before it was queued.  The connection may break  *)
(* at any moment, a send may take a part of the bytes, and time passes.    *)
(*                                                                         *)
(* A field of the header is one unit of the stream, and so is each element *)
(* of a payload.  Frames are numbered in the order in which they begin.    *)
(***************************************************************************)
EXTENDS Codec, Pow, SequencesExt

CONSTANTS
  Inventory,   \* the tags of the objects in the table at the handshake
  Queue,       \* the packets that other threads have queued before it
  Sizes,       \* lengths of the payloads of objects of ours, without the nonce
  MaxObject,   \* 0x40000: the longest payload that validateObj takes
  Lives_,      \* how long it may have to live when the search for its nonce starts
  MaxTTL,      \* 28 days and 3 hours
  Window,      \* how much the connection holds
  MaxEvents,   \* bound: commands that the Listener answers, and partial sends
  MaxTime      \* bound: time from then to when the peer validates it

\* Lists whose length a packet can tell.
Lists == {list \in Seq(Nat) : Len(list) < Max64}

ASSUME WireAssumption ==
  /\ Inventory \in Lists
  /\ Queue \in Seq([command : {"getdata", "inv", "addr"}, list : Lists])
  /\ Lives_ \subseteq Int /\ MaxTTL \in Nat /\ \A life \in Lives_ : life <= MaxTTL
  /\ Sizes \subseteq Nat \ {0} /\ \A size \in Sizes : Fits(size, MaxTTL)
  /\ MaxObject \in Nat /\ Window \in Nat \ {0}
  /\ MaxEvents \in Nat /\ MaxTime \in Nat

VARIABLES
  state,     \* NodeConnection::state: 1 handshake, 2 open, 0 closed
  Packets,   \* the queue of the Sender
  todo,      \* frames that the Listener has yet to write in the handler it is in
  out,       \* per thread, the frame that it writes: fields sent, and iResult
  frames,    \* history: the frames that were begun
  wire,      \* units that are sent and not yet read
  reader,    \* the peer: the units of the frame that it reads, or what it is doing
  received,  \* history: the frames that the peer read, with their lists
  object,    \* our object once its nonce is found: [life, size, pow]
  events,    \* bound: counts them
  disturbed  \* history: the Listener answered in state 2, or a send was partial

vars == <<state, Packets, todo, out, frames, wire, reader, received, object, events,
          disturbed>>
writers == <<state, Packets, todo, out, frames, events, disturbed>>
readers == <<reader, received>>

-----------------------------------------------------------------------------
(* Packets and frames *)

\* Packets with a list, which encodeData writes behind its length, and others.
List(command, list) == [command |-> command, list |-> list]
Raw(command, bytes) == [command |-> command, bytes |-> bytes]

Payload(packet) ==
  IF "list" \in DOMAIN packet
  THEN appendVarInt_B(Len(packet.list)) \o packet.list
  ELSE packet.bytes

\* decodeData of packet_inv, packet_getdata, packet_addr; other payloads are taken whole.
Decode(packet) ==
  LET b == Payload(packet)
  IN  IF "list" \in DOMAIN packet
      THEN [packet EXCEPT !.list = [j \in 1 .. getVarInt_B(b, 1) |-> b[VarIntSize(b, 1) + j]]]
      ELSE packet

\* magic, command, length, checksum.
HeaderFields == 4
Length == 3
Units(n) == HeaderFields + Len(Payload(frames[n]))
Unit_(n, field) == [frame |-> n, field |-> field]

Threads == {"listener", "sender"}
Idle == [frame |-> 0, sent |-> 0, iResult |-> 0]

Init ==
  /\ state = 1 /\ Packets = Queue
  /\ todo = <<Raw("version", <<1>>)>>
  /\ out = [t \in Threads |-> Idle]
  /\ frames = <<>> /\ wire = <<>>
  /\ reader = [doing |-> "read", units |-> <<>>] /\ received = <<>>
  /\ object = <<>>
  /\ events = 0 /\ disturbed = FALSE

-----------------------------------------------------------------------------
(* The node writes *)

Begin(t, packet) ==
  /\ state # 0 /\ out[t] = Idle
  /\ frames' = Append(frames, packet)
  /\ out' = [out EXCEPT ![t].frame = Len(frames')]

\* Connect() and the handlers of pong and verack, frame by frame.
ListenerBegins ==
  /\ todo # <<>>
  /\ Begin("listener", Head(todo)) /\ todo' = Tail(todo)
  /\ UNCHANGED <<state, Packets, wire, readers, object, events, disturbed>>

\* Faulty variant: the Sender does not wait for the handshake.
SenderPopsAtOnce ==
  /\ Packets # <<>>
  /\ Begin("sender", Head(Packets)) /\ Packets' = Tail(Packets)
  /\ UNCHANGED <<state, todo, wire, readers, object, events, disturbed>>

SenderPops ==
  /\ state = 2 /\ Packets # <<>>
  /\ Begin("sender", Head(Packets)) /\ Packets' = Tail(Packets)
  /\ UNCHANGED <<state, todo, wire, readers, object, events, disturbed>>

\* Faulty variant: the loop over the fields runs once too often.
SendFieldBeyond(t) ==
  /\ state # 0 /\ out[t] # Idle /\ out[t].sent <= HeaderFields /\ Len(wire) < Window
  /\ wire' = Append(wire, Unit_(out[t].frame, out[t].sent + 1))
  /\ out' = [out EXCEPT ![t].sent = @ + 1]
  /\ UNCHANGED <<state, Packets, todo, frames, readers, object, events,
                 disturbed>>

\* A field of the header, or k more units of the payload: sendUstring forgets what
\* it sent before.
SendField(t) ==
  /\ state # 0 /\ out[t] # Idle /\ out[t].sent < HeaderFields /\ Len(wire) < Window
  /\ wire' = Append(wire, Unit_(out[t].frame, out[t].sent + 1))
  /\ out' = [out EXCEPT ![t].sent = @ + 1]
  /\ UNCHANGED <<state, Packets, todo, frames, readers, object, events,
                 disturbed>>

Event == events < MaxEvents /\ events' = events + 1

SendPayload(t, k) ==
  LET o == out[t]
      length == Len(Payload(frames[o.frame]))
  IN  /\ state # 0 /\ o # Idle /\ o.sent = HeaderFields
      /\ k \in 1 .. length - o.iResult
      /\ wire' = wire \o [j \in 1 .. k |-> Unit_(o.frame, HeaderFields + o.iResult + j)]
      /\ Len(wire') <= Window
      /\ IF k < length - o.iResult
         THEN Event /\ disturbed' = TRUE
         ELSE UNCHANGED <<events, disturbed>>
      /\ out' = [out EXCEPT ![t].iResult = k]
      /\ UNCHANGED <<state, Packets, todo, frames, readers, object>>

\* sendData returns; the verack handler ends with state 2.
Sent(t) ==
  /\ state # 0 /\ out[t] # Idle /\ out[t].sent = HeaderFields
  /\ out[t].iResult = Len(Payload(frames[out[t].frame]))
  /\ out' = [out EXCEPT ![t] = Idle]
  /\ state' = IF t = "listener" /\ todo = <<>> /\ frames[out[t].frame].command = "inv"
              THEN 2 ELSE state
  /\ UNCHANGED <<Packets, todo, frames, wire, readers, object, events, disturbed>>

\* The Listener reads a command that it answers; in state 2 the Sender may be writing.
Answer(handler) ==
  /\ state # 0 /\ todo = <<>> /\ out["listener"] = Idle
  /\ Event
  /\ todo' = handler
  /\ disturbed' = (disturbed \/ state = 2)
  /\ UNCHANGED <<state, Packets, out, frames, wire, readers, object>>

Pong == Answer(<<Raw("pong", <<>>)>>)
Verack == Answer(<<Raw("verack", <<>>), List("addr", <<>>), List("inv", Inventory)>>)

\* An error of the socket: the thread that meets it calls Close().
Break ==
  /\ state # 0
  /\ state' = 0
  /\ UNCHANGED <<Packets, todo, out, frames, wire, readers, object, events,
                 disturbed>>

-----------------------------------------------------------------------------
(* The peer reads *)

\* What getUstring has yet to read of the frame.
Missing(units) ==
  IF Len(units) < HeaderFields THEN HeaderFields - Len(units)
  ELSE Units(units[Length].frame) - Len(units)

\* Faulty variant: one recv for the payload.
CompleteAtOnce(units) == Len(units) > HeaderFields \/ Missing(units) = 0

Complete(units) == Len(units) >= HeaderFields /\ Missing(units) = 0

\* recv returns some of what has arrived.  Where another frame's byte is taken for
\* the length, what follows depends on the bytes: the peer is lost, and the model ends.
Recv(k) ==
  LET units == reader.units \o SubSeq(wire, 1, k)
  IN  /\ reader.doing = "read" /\ ~Complete(reader.units)
      /\ k \in 1 .. Len(wire) /\ k <= Missing(reader.units)
      /\ wire' = SubSeq(wire, k + 1, Len(wire))
      /\ reader' = IF Len(units) >= Length /\ units[Length].field # Length
                   THEN [doing |-> "lost", units |-> <<>>]
                   ELSE [reader EXCEPT !.units = units]
      /\ UNCHANGED <<writers, received, object>>

Intact(units) ==
  /\ Len(units) = Units(units[1].frame)
  /\ \A j \in DOMAIN units : units[j] = Unit_(units[1].frame, j)

\* getCommand returns the packet, or a mixture of two.
Got ==
  LET packet == Decode(frames[reader.units[1].frame])
  IN  /\ reader.doing = "read" /\ Complete(reader.units)
      /\ IF Intact(reader.units)
         THEN /\ received' = Append(received, packet)
              /\ reader' = [doing |-> IF packet.command = "object" THEN "validate" ELSE "read",
                            units |-> <<>>]
         ELSE /\ received' = Append(received, Raw("mixture", <<>>))
              /\ reader' = [doing |-> "lost", units |-> <<>>]
      /\ UNCHANGED <<writers, wire, object>>

-----------------------------------------------------------------------------
(* The object *)

\* processPOW computes the target when it starts to search, and finds a nonce some
\* time later; the object is then stored, announced, asked for and queued.  Nothing
\* bounds its length there.
Found(life, size, pow) ==
  /\ object = <<>> /\ state # 0
  /\ pow <= getTarget(size, Unsigned(life))
  /\ object' = <<[life |-> life, size |-> size, pow |-> pow]>>
  /\ Packets' = Append(Packets, Raw("object", <<pow>> \o [j \in 1 .. size |-> 0]))
  /\ UNCHANGED <<state, todo, out, frames, events, disturbed, wire, readers>>

\* validateObj: the length of the payload, nonce and all, and the time first ...
ValidateTime(now) ==
  LET tooLarge == Len(Last(received).bytes) > MaxObject
      left == object[1].life - now
  IN  /\ reader.doing = "validate"
      /\ reader' = [doing |-> IF tooLarge \/ left > MaxTTL \/ left < -Past
                             THEN "refused" ELSE "checkPow",
                    units |-> <<now>>]
      /\ UNCHANGED <<writers, wire, received, object>>

\* ... then the proof of work, for which the clock is read again.
ValidatePow(now) ==
  LET pow == Last(received).bytes[1]
  IN  /\ reader.doing = "checkPow" /\ now >= reader.units[1]
      /\ reader' = [doing |-> IF checkPow(object[1].size, pow, object[1].life - now)
                             THEN "accepted" ELSE "refused",
                    units |-> <<now>>]
      /\ UNCHANGED <<writers, wire, received, object>>

Validated ==
  /\ reader.doing \in {"accepted", "refused"}
  /\ reader' = [doing |-> "read", units |-> <<>>]
  /\ UNCHANGED <<writers, wire, received, object>>

-----------------------------------------------------------------------------
Writes(t) == SendField(t) \/ (\E k \in 1 .. Window : SendPayload(t, k)) \/ Sent(t)
Reads ==
  \/ Got \/ Validated \/ \E k \in 1 .. Window : Recv(k)
  \/ \E now \in 0 .. MaxTime : ValidateTime(now) \/ ValidatePow(now)

Next ==
  \/ ListenerBegins \/ SenderPops \/ Pong \/ Verack \/ Break
  \/ \E t \in Threads : Writes(t)
  \/ Reads
  \/ \E life \in Lives_, size \in Sizes : Found(life, size, getTarget(size, Unsigned(life)))

\* The threads run, and the network moves what is sent.
Fairness ==
  /\ \A t \in Threads : WF_vars(Writes(t))
  /\ WF_vars(ListenerBegins) /\ WF_vars(SenderPops) /\ WF_vars(Reads)

Spec == Init /\ [][Next]_vars /\ Fairness

-----------------------------------------------------------------------------
(* Properties *)

\* The type invariant of the two ends of the connection.
TypeOK ==
  /\ state \in 0 .. 2
  /\ events \in 0 .. MaxEvents /\ disturbed \in BOOLEAN
  /\ \A t \in Threads :
       /\ out[t].frame \in 0 .. Len(frames) /\ out[t].sent \in 0 .. HeaderFields
       /\ out[t] # Idle => out[t].iResult \in 0 .. Len(Payload(frames[out[t].frame]))
  /\ \A j \in DOMAIN wire :
       wire[j].frame \in DOMAIN frames /\ wire[j].field \in 1 .. Units(wire[j].frame)
  /\ Len(wire) <= Window
  /\ reader.doing \in {"read", "lost", "validate", "checkPow", "accepted", "refused"}
  /\ \A j \in DOMAIN object :
       object[j].life \in Lives_ /\ object[j].size \in Sizes /\ object[j].pow \in 0 .. Word - 1

\* The peer reads the packets that were sent, each of them once, whole, in order
\* and with the lists they had, however the bytes are cut into pieces and where
\* the connection breaks; unless the Listener answered a pong, or a verack once
\* more, in state 2, when the Sender may be writing, or a send took a part of the
\* bytes.  The handshake needs no such condition: no packet gets into its frames.
PeerReadsWhatWasSent == ~disturbed => IsPrefix(received, frames)

\* Whoever finds a nonce has found one for the peers: an object whose payload is
\* not too large for them is refused only when it has expired for Past, however
\* long the search and the way took.
RefusedOnlyWhenPast ==
  /\ reader.doing = "refused"
  /\ 1 + object[1].size <= MaxObject
  => reader.units[1] >= object[1].life + Past

\* What is sent arrives: the peer never stays behind for good, unless the connection
\* breaks or as above.
FramesArrive == []<>(Len(received) = Len(frames) \/ disturbed \/ state = 0)
=============================================================================
