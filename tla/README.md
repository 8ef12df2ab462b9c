# BitMRC in TLA+

BitMRC (`src/BitMRC`) is a client of the Bitmessage network: it keeps TCP
connections to other nodes, stores every object it sees in a hash table,
announces it to its peers, serves it on request, decrypts what is addressed to
it, and computes the proof of work for the objects it makes itself. This
directory holds a model of the client, from the bytes on a socket to the files it
leaves behind, the TLC configurations that check it, and TLAPS proofs about it.

## 1. Inventory

### Threads

| thread | code | loop |
|---|---|---|
| main | `main.cpp` | reads commands; `quit` ends in `~BitMRC` |
| `listen_packets` | `BitMRC.cpp:256` | `new_packets` -> every node's `Packets` |
| `listen_inv` | `BitMRC.cpp:270` | every 5 s: all of `new_inv` -> one inv packet |
| `processPOW` | `BitMRC.cpp:654` | `objects` -> proof of work -> `propagate` |
| Listener, one per node | `NodeConnection.cpp:115,279` | `Connect`, then receive and handle |
| Sender, one per node | `NodeConnection.cpp:246` | `Packets` -> socket, when `state` is 2 |

### Components

| component | state | operations | what makes it correct |
|---|---|---|---|
| `Queue<T>` (`utils.h:356`) | deque, mutex, condition variable | `push`, `pop`, `size` | FIFO; no element lost or taken twice; no lost wakeup |
| `hash_table<T>` (`utils.h:414`) | buckets of linked lists, mutex | `insert`, `present`, `searchByHash` | each info once, findable under its hash; nothing disappears |
| object relay (`BitMRC.cpp`, `NodeConnection::Listener`) | `sharedObj`, `objects`, `new_inv`, `new_packets`, `Nodes`, `Packets` | `processObj`, `propagate`, `send`, the message handlers | announced implies stored; stored implies announced to every accepted node |
| `NodeConnection` | `state`, `Socket`, `Packets`, two threads | `Connect`, `Listener`, `Sender`, `Close`, destructor | no descriptor leaks, handshake before queue, joins end |
| client lifecycle | `running`, `mutex_nodes`, threads | `start`, `connectNode`, `~BitMRC` | all threads end, then data is saved and cleared |
| address book | `PubAddresses`, `PrivAddresses`, `Subscriptions`, their mutexes | `getPubKey`, `sendMessage`, `addAddr`, pubkey branch of `processObj` | a pubkey that arrives reaches all who wait for it; keys are never lost, addresses never doubled |
| messages | `messages`, `new_messages` | `sendMessage`, `sendBroadcast`, `decryptMsg` | a message is delivered once, after its ack; it is encrypted with keys that came for its address |
| persistence | files `save`, `keys.dat` | `load`, `save` | what was saved is loaded, and nothing else; time stamps survive |
| wire format (`Packet.h`, `packet.cpp`, `utils.cpp`) | the socket, the frame in progress | encode/decode, varints, partial sends and receives | decode inverts encode; the peer reads the frames that were sent |
| proof of work (`pow.cpp`, `validateObj`) | - | `getTarget`, `checkPow`, `searchPow` | a found nonce is accepted until the object has expired |
| addresses and keys (`Addr.cpp`, `base58.cpp`) | keys, ripe, tag | encode/decode, generation | address round trips |
| configuration, storage (`Configuration.cpp`, `Storage/`) | settings, SQL, the query buffer | getters, setters, queries, `store` | (the shared buffer and the keys it is built from, see the hazards) |
| `NodeBlacklist` | a constant list | `is_blacklisted`, asked by `init` | (it never finds an address, see the hazards) |
| `class.*`, tests, `trial/`, the vendored SQLite | - | not part of the client | - |

The components interact through the queues (threads hand over by `push` and
`pop`), through `sharedObj` (each method under its own lock), through
`mutex_nodes` (readers: `listen_packets`; writers: `connectNode`, `~BitMRC`) and,
with no lock at all, through `running`, `NodeConnection::state` and
`NodeConnection::Socket`.

What is hard: no operation spans two of those structures under one lock, so every
end-to-end promise (announced objects can be served, nobody misses an
announcement) depends on the order of steps of several threads; connections are
closed by three different threads; the destructor runs against all of them;
`main()` reads the address book with no lock and keeps a pointer into it while
Listeners let it grow; two threads write frames to one socket with no lock; the
files are truncated before they are written. The hazards, each at its line, are listed in `PROJECT.json`.

## 2. Modules

| module | models | state and actions |
|---|---|---|
| `Fifo` | what a queue promises | `items`; `Put`, `Get` |
| `MsgQueue` | `Queue<T>` step by step | `queue_`, `mutex_`, waiters (in `pc`); one action per lock, store, unlock, notify, wait, spurious wakeup, front, remove, return; `size()` as `listen_inv` uses it |
| `HashTable` | `hash_table<T>` | operators on `[Buckets -> Seq([hash, info])]`; `InsertCode` is the return value 0/1/2 |
| `Relay` | storing, announcing, serving | the four queues, `sharedObj`, `Nodes`, per node `state` and the handshake's `inventory`/`i`; one action per step between two shared accesses of `processObj`, `propagate`, the five message handlers and the three loops |
| `Connection` | one `NodeConnection`'s threads and the destructor | `state`, `Socket`, the process's descriptor table, the calls that block in its files, queue lengths; every unguarded read or write is an action |
| `Lifecycle` | `start` .. `~BitMRC` | `running`, `mutex_nodes`, `Nodes`, which sockets are open, queue lengths, what was stored and saved; the destructor goes over the nodes one by one |
| `KeyBook` | what the address book promises | per address absent, wanted or ready; `Enter`, `Learn` |
| `AddressBook` | `getPubKey`, `sendMessage`'s wait, `addAddr`, the pubkey branch of `processObj`, `store`, both `decryptMsg` | the vector with its capacity, `mutex_pub`, the table, the query buffer, subscriptions, messages, each thread's place; one action per unguarded access |
| `Persistence` | `load`, `save`, the time stamp of a shared pubkey | memory, the two files as sequences of values, the clock, the number of the run; one action per value written and record read, failures at any step |
| `Codec` | big-endian integers and the varint of `ustring` | operators on sequences of bytes |
| `Pow` | `getTarget`, `checkPow` | operators in integers modulo `Word` |
| `Wire` | `sendData`, `getCommand`, `encodeData`/`decodeData`, `validateObj` | what is in the socket, the frame each thread writes, the frame the peer reads; one action per field and per piece of a payload |
| `MC*` | instances for TLC | |
| `*_proofs` | theorems about `HashTable`, `MsgQueue`, `Relay`, `Connection`, `Lifecycle`, `AddressBook`, `Persistence`, `Wire` (with `Codec` and `Pow`) | |

How they fit: `MsgQueue` implements `Fifo` (checked by TLC and, for the steps,
proved), and `Relay`, `Connection` and `Lifecycle` use a queue as `Fifo` describes
it: one atomic step per push or pop. A method of the hash table holds the table's
mutex throughout, hence is one operator and one step. `Relay` reduces `Connect()`
to success or failure and the Sender's pop and send to one step; `Connection` has
their steps and leaves the objects out. `Lifecycle` reduces a node to its Listener,
inside `Connect()`, in `recv` or in `connectNode`, and objects to set insertions; it
takes from `Connection` that a `Close()` may come too early or miss the socket. `AddressBook` EXTENDS `HashTable` (it searches the
object table bucket by bucket) and implements `KeyBook` through the mapping `StateOf`
(checked by TLC, and proved). `Wire` EXTENDS `Codec` and `Pow`: it composes the two ends of one
connection, where `Connection` has the order of the calls and `Wire` the bytes.
`Persistence` follows the client over several runs, each of which ends in what
`Lifecycle` describes, or in a crash.

Abstractions of `Relay`: an object is a model value; `Tag` is its inventory hash and
is injective (SHA-512 does not collide); `Reply` and `Ack` say what its analysis
leads to. `validateObj` may accept or refuse any object at any call, because the
clock it reads moves. Peers send any message at any time, without regard to a
protocol; only they cannot send an object of ours before we have published it.
Each `inv` and `getdata` carries one tag, since the code treats each tag of a
packet alone. The random delays are not modelled: any thread may wait arbitrarily
long.

Abstractions of `Connection`: `connect` and `recv` hold the file that was behind the
descriptor when they were called. `shutdown` of that descriptor wakes them;
`closesocket` does not, and when another connection's `closesocket` has freed the
number (`Socket` keeps it after a `Close()`), no later `shutdown` reaches the call: it
is `orphaned` and ends only if the peer does something. A send does not block.
`state = 0` and `shutdown()` are one step.

Abstractions of `AddressBook`: keys are named by the ripe they hash to. An address has
a ripe, a tag and a version, and may have several spellings, because `loadAddr` takes
it with or without "BM-" and the pool compares strings. A pubkey has the tag of one
address and keys that may be another's: `decodeFromObj` verifies that they signed it
and compares nothing with the ripe. Whether an object can be decoded or
decrypted and whether its acknowledgement is long enough to be a packet belong to
the object. The id of a message stands for its signature as well. Both `decryptMsg`
are one chain of actions. A subscription is typed while no broadcast is being
analysed (`mutex_subs`). Of a row of the storage the model keeps which keys its address
was built from and which keys it has. `ustring` is a submodule whose source is not in
the repository; `toString()` is taken to return a new `std::string`, as all its
uses have it.

Abstractions of `Persistence`: stdio may write what it holds at any time, so a crash
leaves any beginning of a file; `load` and `save` take less than a unit of the clock;
an exception of a read past the end ends the loop of `load`, as it does in the code.
An address of ours is computed anew from its keys, and for some keys this gives
another address (a coordinate that is shorter than the others): `reloaded`.

Abstractions of `Wire`: a field of a header is one unit, and so is an element of a
payload; two threads interleave at units. A peer that takes another frame's byte for
a length is `lost`, since what follows depends on the bytes. The handshake's
`version` has one byte, other packets without a list none. The operands of
`getInt8(b) << 8 + getInt8(b)` are taken left to right, which C++ does not promise
and the usual compilers do. `Found` takes the worst value a search may return, the
target itself; the payload has any length of `Sizes`, with the nonce as one unit in front
of it, and `validateObj` refuses what is longer than `MaxObject`.

Undefined behaviour is a choice over what can happen: `running` is read before it
is set (`Lifecycle`'s `Init`), the `command` of the empty object that wakes
`processPOW` is uninitialised (`ProcessPOWPop`), and `sendMessage` reads through a
pointer into a vector that has moved (`WaitPubKey`, `CopyTarget`: either answer, any
key). `get_update_query` encodes the keys from the text of a temporary that is gone
(`BuildQuery`: the keys or `Garbage`), and reads an entry that another Listener may be
writing (`Mixed`).

## 3. What the runs show

| run | result | question |
|---|---|---|
| `queue` | pass | Do mutex and condition variable make a FIFO, with no lost wakeup, and is every element taken in the end? |
| `relay` | pass | Can what is announced be served? Is an object stored once? Does an accepted node miss anything? Is it told in the end? |
| `connection` | pass | Does the queue wait for the handshake? Does a dead connection leave anything behind? When do the destructor's joins end? |
| `lifecycle` | pass | Is the saved table final? Is a deleted node used? Does the destructor end once every socket is shut down? |
| `address_book` | pass | Does a pubkey reach every spelling that waits for it, and does `sendMessage` then go on? Are messages delivered once, and encrypted with keys that came for the address? Does the book keep what it has? |
| `persistence` | pass | Are the files always a beginning of one save, and loaded whole? Does a restart forget what was shared? |
| `wire` | pass | Does the peer read what was sent? Is an object whose nonce was found, and which is not too large, ever refused too early? |
| `relay_exit` | violated | Is the early return of `processObj` for objects "already analized"? |
| `relay_handshake` | violated | Does the handshake announce "the whole list"? |
| `connection_addresses` | violated | Are addresses tried "until one succeeds"? |
| `lifecycle_exit` | violated | Does the destructor "clear thread first"? |
| `lifecycle_start` | violated | Does `start()` start threads that run? |

The violated ones are disagreements between a comment and the code:

- **`relay_exit`**: `insert()` answers 0 for a duplicate, 1 for an empty bucket, 2
  for a new entry in a used bucket; `processObj` returns on 2. A new object that
  collides is stored but neither announced nor analysed, and a duplicate is
  announced and analysed again. `NoAnnouncementGap` and `EveryNodeIsTold` except
  exactly these objects (`dropped`) to say what holds otherwise.
- **`relay_handshake`**: the index of the inventory is absolute but compared with
  the packet limit (50000; `MaxInv` here): a larger inventory never ends.
- **`connection_addresses`**: a refused `connect` sets `state` to 0, which the next
  turn of the loop takes for a `Close()`; it returns and leaks that turn's socket.
  `DeadConnectionIsClean` is therefore checked with one address per host.
- **`lifecycle_exit`**: `~BitMRC` joins Listeners under `mutex_nodes`, which
  `connectNode` needs. This happens with every socket shut down and every `Connect()`
  over.
- **`lifecycle_start`**: the threads read `running` before `start()` sets it. If they
  read false they are gone for the session.

Not every shutdown ends. `Close()` returns at once while `state` is still 0, and
`Connect()` overwrites the 0 that a `Close()` wrote with 1 (`NodeConnection.cpp:182`). The
Listener then sits in `recv` on a connected socket that nobody shuts down, and the
join waits for a silent peer: `setTimeout` passes an `int` where Linux wants a `timeval`,
so there is no receive timeout. Both `Connection` and `Lifecycle` have these schedules,
and TLC shows them when the preconditions are dropped. Three properties say when the
destructor does end:

- `DestructorEnds` (one step at a time, over descriptors): it begins when every
  connection is past `Connect()`, no Sender is inside `Close()`, and no `recv` has lost its
  descriptor. Without the second condition a Sender between its `shutdown` and its
  `closesocket` may free a number that the destructor has closed and a new connection
  has been given: that connection's `shutdown` then fails and its `recv` is not woken.
- `ShutdownCompletes` (the whole client): once the nodes are closed, no Listener is inside
  `Connect()` and every socket is shut down, it ends or some Listener is in `connectNode`.
- `DestructorClears` has the precondition alone; it is what `lifecycle_exit` violates.

Other properties hold with exceptions that name what the code does not give:

- `PeerReadsWhatWasSent` and `FramesArrive` except a connection that is `disturbed`:
  the Listener answered a ping, or a second verack, in state 2, when the Sender may
  be in the middle of a frame, or a send took a part of the bytes. Without the
  exception TLC finds frames mixed, and bytes repeated: `sendUstring` overwrites its
  offset with what the last call sent, and ends only if a call takes exactly the
  rest. In the handshake nothing needs to be excepted.
- `EncryptsWithKeysSent` and `AnswerEndsWait` except a vector that moved while
  `sendMessage` held a pointer into it. `EncryptsWithKeysSent` does not say whose keys they
  are: a pubkey that carries the tag is enough for `decodeFromObj`. `WaitIsAsked` excepts
  another spelling of the address that already has the keys: `getPubKey` is content with
  it and asks nobody, and `sendMessage` waits for the string it was given.
- `RefusedOnlyWhenPast` excepts a payload over the limit of `validateObj`: nothing bounds
  it before the nonce is searched for.
- `SharedOncePerListener` is per Listener: two of them both read the time stamp
  before either writes it.

Of the rows of the storage no property speaks. `get_update_query` has one static buffer
for Listeners that share `mutex_pub`: with two of them in `store()`, both may send the
second query, and the first pubkey, though valid and reported stored, has no row. The
keys in a row are encoded from the characters of a string that was destroyed one
statement before (`Addr.cpp:746`, `750`). The model has both.

### Bounds

- `MsgQueue`: 2 producers, 2 consumers (one pops, one drains), 2 values, 4 pushes:
  enough for two elements notified at once, a notified consumer overtaken by
  another, and both waiting.
- `Relay`: 2 connections (a seed and one that an addr packet adds), 4 objects of
  which 2 share a bucket, `MaxInputs` = 3 messages or requests. Three are what the
  longest interesting schedule takes: two objects and a handshake. `MaxInv` = 4 in
  the passing run, so that a handshake fits into one packet; 1 in
  `relay_handshake`.
- `Connection`: 2 connections, 2 descriptors (a third could never be closed by the
  wrong connection in a new way), 1 address, at most one packet that others push
  to the first connection. The destructor may begin at any moment. A late `closesocket`
  on a number that has come back takes two connections and one descriptor.
- `Lifecycle`: one seed, one further node, `MaxInputs` = 3.
- `AddressBook`: 2 Listeners, 2 addresses of which one has 2 spellings, an address
  that waits from the start in a vector that is then full, so that the next entry
  moves it; one address of version 3 (compared by ripe) and one of version 4; 2 objects
  received (of a good pubkey of either address, one with the tag of one and the keys of the
  other, one that cannot be decoded, a message with and one without a packet for an ack, a broadcast), 2
  commands. Two objects meet in every pair of places of the two Listeners, while
  `main()` asks and sends; a third would repeat one of them.
- `Persistence`: 3 runs, 4 changes, clock to 4 with a period of 1, 2 objects (one
  expires within the clock), 2 addresses of ours (one is reloaded as another) and one
  of another's. Three runs are a save, a save over it that fails, and a load; with a
  good save in the middle, a time stamp that crosses two restarts.
- `Wire`: a byte has 5 values, so that the inventory of 2 takes a mark and two bytes;
  `Word` = 256; the peer's pipe holds 5 units, less than a frame; 2 events (answers or
  partial sends) so that both ends of a frame may be disturbed; an inventory, a queued
  getdata and an object, which may begin with no time left, with a payload that just
  fits `validateObj` or is one unit too long, and a clock that passes
  `Past`. The marks for four and eight bytes are too long to run and are covered by
  the theorems.
- Deadlock checking is off where the system may stop: peers and user owe nothing,
  and the destructor ends the program.

### Fairness

Weak fairness for each thread of the client: threads are scheduled, a mutex that
stays free is granted, a system call returns (except a `recv` that no `shutdown` has
woken),
and `searchPow` finds a nonce. Peers, user and clock get none. In `MsgQueue` a
consumer's wakeup without a notification is possible but never owed. For each
Listener and Sender, fairness is on all of the thread's steps together: a thread is
one flow of control. In `AddressBook` the user and the peers owe nothing, `main()` and
the Listeners go on with what they have begun. In `Wire` the two threads and the
peer's reading are fair, so that what is in the socket arrives unless it breaks.
`Persistence` has safety properties only.

Every property of a passing run has a mutant, an operator of the same module that
changes one definition as a plausible bug would ("Faulty variants" in each module);
TLC finds the property violated under it.

## 4. What is proved

Every safety property of a passing run is a theorem: for any sets of threads,
connections, objects, addresses and keys, any hash function, any length of the queues
and the vector, and any bounds that satisfy the modules' named assumptions.

Two theorems have a hypothesis of their own. `EndedConnectionIsClean` is about hosts
with one address (`NAddrs = 1`): with more, the run `connection_addresses` shows the
leak. `WireType` is about lives above `-Past` at the moment the search begins: for one
that has expired for longer, the unsigned product in `getTarget` wraps and the divisor may
be 0. An object of ours has days to live when it is queued. `RefusedOnlyWhenPast` does not
need the hypothesis.

### Assumptions

| assumption | says | why |
|---|---|---|
| `QueueAssumption`, `LifecycleAssumption`, `ConnectionAssumption` | threads are finitely many (`MsgQueue`) and distinct, bounds are numbers | a process's threads |
| `HashAssumption`, `RelayAssumption` | a bucket for every hash, tags injective, finitely many hashes | 32 bytes of SHA-512, which does not collide |
| `AddressBookAssumption` | finitely many Listeners; spellings with one tag have one ripe and version; an object's `id` is its own; the entries at the start are distinct and fit the vector; there is a bucket 0 | the tag is a hash of version and ripe; `id` is the object's inventory hash; `load` fills the vector through `addAddr`; the table's size is a constant |
| `PersistenceAssumption` | an address computed from its keys twice is the one computed once, and is not one that a run generates; finitely many Listeners | `load` computes it from the private keys alone; new keys are random |
| `BaseAssumption`, `PowAssumption`, `WireAssumption` | a byte has at least four values, integers an even modulus, and the products of `getTarget` stay below half of it for our payloads and the longest life that `validateObj` accepts | 256, 2^64, 28 days and three hours |

TLC evaluates each of them in the runs.

### The arguments

`MsgQueue_proofs`
- `QueueType`: `TypeOK`. Its inductive form `Typing` adds mutual exclusion: a thread
  inside a critical section is the holder of the mutex, and a consumer in `front`
  has the head of a nonempty queue.
- `QueueNoLostWakeup`: while somebody waits, elements <= pending notifications +
  awake consumers. It is inductive given `Typing`: a push adds one on both sides, a
  notification turns one notifier into one awake consumer, and a consumer goes to
  sleep only with the queue empty. The counting rests on cardinality lemmas.
- `QueueSoleDrainer`: the only consumer never blocks after `size() > 0`; the
  strengthening is that its answer stays true until it pops.
- `QueueStepsAreFifoSteps`: every step is a `Fifo` step or a stutter under
  `items <- Contents`, where the element leaves the abstract queue when its front is
  read.

`HashTable_proofs`: lemmas on `Insert` and `SearchByHash`, among them that insertion
keeps every node in the bucket of its hash (`InsertPlaces`) and every info unique
(`InsertUnique`: the same info has the same hash, so one bucket sees all its
insertions), and that what is stored is found (`SearchFinds`).

`Relay_proofs`
- `RelayType`: `TypeOK`, by its four parts (table, queues, nodes, threads), one case
  per action.
- `RelayStoresOnce`: from the invariant `TableOK` (placed and unique), as a step
  leaves the table alone or is one `Insert` (`TableChange`).
- `RelayAnnouncesServable`: from `StoredFirst`: every tag in a queue, a packet, a
  handshake or already sent was stored before. `AnnouncedIsServable` alone is not
  inductive, since it says nothing of the handshake's copy or of a thread between
  its insert and its push. The table only grows (`StoredGrows`).
- `RelayLeavesNoGap`: `NoAnnouncementGap`. What is on its way to a listed node (told,
  in its queue, in the queues before it, in the hands of a thread) never shrinks
  (`ComingGrows`), and an object becomes due only by an insertion whose thread then
  announces it (`DueGrows`). The invariant `GapInv` adds the handshake: while it lasts,
  what is due and not coming is in the verack handler's copy (`HandshakeCovers`). It
  needs that a node is listed before its threads start (`StartedIsListed`), since
  `listen_packets` pushes to listed nodes only.

`Connection_proofs`
- `ConnectionType`, `InventoryGoesFirst`: the invariant `IInv` says where the two threads
  of a connection and the destructor may be at once, that `state` 2 or a Sender past its
  test means that the verack was answered (`Answered`), and that only the destructor's
  empty packet takes a queue beyond its bound (`OneSentinel`).
- `EndedConnectionIsClean`: from a second invariant, `Clean`: until the destructor begins, a
  descriptor that a connection owns is the one in its `Socket`, and one of its threads is
  left that will close it. Both go with `Held`: a call that is `in` its file has that file behind
  `Socket`, so that a `connect` that succeeds never opens a descriptor that was closed.

`Lifecycle_proofs`
- `LifecycleType`, `NothingIsStoredAfterSave`, `NoUseAfterDelete`: the invariant lists, for
  each place of the destructor, which threads are over: created nodes stay listed until
  `clear()` (`Listed`), afterwards no Listener is left to create one (`Cleared`), what is
  deleted was joined (`Deleting`), one node after the other, and when it saves the three loops have ended
  (`Saving`).

`AddressBook_proofs`, from one invariant `Inv`
- its parts are the vector (`Pool`), a Listener's index into it (`ListenerOK`: behind it no
  entry with the object's tag still waits), `main()`'s locals (`MainOK`: its pointer leads
  to the address it looked for, or the vector has moved since), the messages (`Mail`), the
  query (`QueryBuilt`).
- `AddressesAreUnique`, `WaitsAreAsked`, `AcknowledgedFirst` are parts or consequences of it;
  so is `RightKey`: the keys of an entry are its own, those it was loaded with or those of a
  pubkey with its tag that is stored (`KeysSent`), and the table only grows; `MessagesDeliveredOnce` adds the counting of a sequence
  without repetitions (`DistinctCount`). `WalkedPoolIsStill` and `PubKeysReachAll` follow for
  each step from it.
- `BookKeepsPromise`: the whole of `ImplementsKeyBook`. `addAddr` leaves other entries alone
  (`WithEntryCases`), and the state of an address follows its only entry.

`Persistence_proofs`
- `PersistenceType`, `FilesStartRight`, `SavedIsWhole`, `WholeRecordsAreLoaded`: the invariant
  says that each file is a beginning of the values of what was meant (`FilesBegin`), that
  memory is what is meant while `save()` writes (`Saving`), and that `load()` stands between
  two records (`InFront`), with those before it in memory (`Loading`).
- `SharedOnceInPeriod`: the time stamp of the last sharing is in memory, or, between two
  runs, in `keys.dat`, unless the `save()` was damaged (`StampInv`). It needs an order among the
  addresses (`Ordered`): `load()` keeps the first of two that it makes one, and no entry in
  front of an address that it leaves as it is becomes that address.
- What a file holds is a concatenation (`FlattenSeq`), whose length and prefixes need
  induction. The induction theorems of the library take an operator, which the provers
  cannot instantiate; lemma `Induction` is stated over a set of numbers instead, and follows from
  the well-foundedness of <.

`Wire_proofs`
- `VarIntRoundTrip`: what `appendVarInt_B` wrote, anywhere in a packet, `getVarInt_B`
  reads back, by as many bytes. It rests on one lemma per width (`Read16` to
  `Read64`: the getters return the number modulo what fits) and on the digits of a
  number (`Digits`). `DecodeInvertsEncode`: so `decodeData` gives back a list of any
  length.
- `TargetIsQuotient`: doubling the quotient of 2^63 and looking at twice the remainder
  is the division of 2^64.
- `FoundStaysAccepted`: a nonce found for some life is accepted at any later moment
  before the object has expired for `Past`. The divisor grows with the life that counts
  (`DivisorGrows`), which the clamp keeps positive exactly on the lives that
  `validateObj` lets through (`LivesCounted`).
- `FoundIsAccepted`: `RefusedOnlyWhenPast`. The invariant `IInv` says that the only object
  packet anywhere - queued, begun, in the socket or read - is the one whose nonce was
  found for its life and its length, and that a peer validates nothing else; it needs that decoding
  gives back what was sent, whichever frames the bytes come from.
- `WireType`: with `WritersOK`, what the two writers may hold.
- `PeerReadsInOrder`: `PeerReadsWhatWasSent`. Until the connection is `disturbed` one thread
  at most is in a frame, the last one (`OneWriter`), and what the peer has read, what is in
  the socket and what is still to be written follow each other without a gap in the stream of
  all fields (`Streamed`, by the place where each frame starts).

### Only model-checked

- The liveness properties: `ImplementsFifo`'s second half, `EveryNodeIsTold`,
  `DestructorEnds`, `ShutdownCompletes`, `AnswerEndsWait`, `FramesArrive`. Fairness and ENABLED
  are out of the prover's reach.
- The violated runs: a counterexample is TLC's to show.

## 5. Plan

Done: every module of section 2 and a proof of every safety property. What is left is to say
more at the places where a theorem stops:

1. What an exception leaves: after `dropped`, `disturbed` or a moved vector the
   properties say nothing. State what still holds there (an object of a collision is served
   when it is asked for; a frame is wrong only from the first disturbance on) and prove it.
2. The steps behind the liveness properties that are safety: when a queue is empty
   and no thread is in `processObj`, every accepted node was told (`EveryNodeIsTold` without
   fairness); while a join waits, the thread it waits for can take a step.

## 6. Not modelled

- Cryptography (Crypto++), Base58, the ripe and the generation of keys: sequential
  conversions of one thread with no state that others see. What the client does with
  their success or failure is modelled.
- The layout of the fields of `version`, `addr` and object payloads: reads and writes in
  a fixed order, with no branch that the properties tell apart.
- The DNS lookup and seed list of `init`, `NodeBlacklist` (it compares a whole socket
  address with four bytes and never finds one, so that the client behaves as if the
  list were empty), `updateByHash`, `getVarInt32`, `getVarInt64` and `getVarString` (no
  caller), the menus of `main.cpp`, Windows-only branches, tests and `trial/`.
- The SQL of the storage layer but for `store()` of an address: getters, setters and
  statements for a server. `init` creates a `Storage_mysql` and sets it before any
  Listener can store; `Storage_sqlite3` is not created by the client.
- SQLite (`src/windows/sqlite3`) is vendored: 132,000 of the repository's 142,700 lines
  of implementation, and the client is about 10,000. The share of lines that the models
  stand for is to be read against that.

Assumptions on the environment: process death by SIGPIPE when a send meets a closed
socket is taken for the exception the code expects; `SO_RCVTIMEO` is given an `int`
where Linux wants a `timeval` and has no effect; memory does not run out.

## Running

    tlc -workers 2 -config Relay.cfg MCRelay
    tlapm Relay_proofs.tla
