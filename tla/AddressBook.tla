---------------------------- MODULE AddressBook -----------------------------
(***************************************************************************)
(* The address book PubAddresses and everything that meets in it: main(),  *)
(* which asks for public keys (getPubKey) and waits for them (sendMessage),*)
(* and the Listeners, which analyse the objects that peers send            *)
(* (processObj, both decryptMsg): a pubkey gives its keys to the addresses *)
(* that wait for it and is written to the storage, a message or broadcast  *)
(* adds its sender and is delivered once.                                  *)
(*                                                                         *)
(* main() reads the vector with no lock and keeps a pointer into it; the   *)
(* Listeners hold mutex_pub shared while they walk over it and exclusively *)
(* while they add to it.  Keys are named by the ripe they hash to: nothing *)
(* compares it with the ripe of the address they come for.  One address    *)
(* has several spellings (loadAddr takes it with or without "BM-" and      *)
(* keeps the string as it came).                                           *)
(***************************************************************************)
EXTENDS HashTable, FiniteSets

CONSTANTS
  Listeners,  \* the threads that run processObj
  Main,       \* the thread of main()
  Addresses,  \* address strings
  tag,        \* the tag of an address string
  ripe,       \* the ripe in it: the hash of its keys
  version,    \* the version in it
  Typed,      \* the address strings that the user types in
  Loaded,     \* what load() put into PubAddresses
  room,       \* the capacity of the vector after that
  Objects,    \* valid objects that peers send
  NoKey,      \* an address that waits for its keys
  Garbage,    \* what a read of freed memory may find
  Nil,        \* a local variable that is not in use
  MaxObjects, \* bound: objects received, duplicates included
  MaxCommands \* bound: commands of the user, but for "check message"

Tags == {tag[a] : a \in Addresses}
Ripes == {ripe[a] : a \in Addresses}
Keys == Ripes \cup {NoKey, Garbage}
Entries == [address : Addresses, key : Keys]
Rows == [of : Ripes \cup {Garbage}, keys : Ripes \cup {Garbage}]
Threads == Listeners \cup {Main}

\* id: the object's inventory hash, which stands for a message's signature too.
\* who: the address a pubkey is for or a broadcast is encrypted with.  from: the
\* address of the keys in it.  fine: it can be decrypted and was signed with these
\* keys.  ack: the acknowledgement is as long as a packet.
ObjectType == [id : Hashes, type : {"pubkey", "msg", "broadcast"}, who : Addresses,
               from : Addresses, fine : BOOLEAN, ack : BOOLEAN]

ASSUME AddressBookAssumption ==
  /\ IsFiniteSet(Listeners) /\ Main \notin Listeners
  /\ tag \in [Addresses -> Tags] /\ ripe \in [Addresses -> Ripes]
  /\ version \in [Addresses -> Nat]
  /\ \A a, b \in Addresses : tag[a] = tag[b] => ripe[a] = ripe[b] /\ version[a] = version[b]
  /\ Typed \subseteq Addresses
  /\ NoKey \notin Ripes /\ Garbage \notin Ripes /\ NoKey # Garbage
  /\ Loaded \in Seq([address : Addresses, key : Ripes \cup {NoKey}])
  /\ \A i, j \in DOMAIN Loaded : Loaded[i].address = Loaded[j].address => i = j
  /\ room \in Nat /\ Len(Loaded) <= room
  /\ Objects \subseteq ObjectType
  /\ \A o1, o2 \in Objects : o1.id = o2.id => o1 = o2
  /\ Nil \notin [index : Nat, moved : Nat] /\ Nil \notin Rows
  /\ MaxObjects \in Nat /\ MaxCommands \in Nat
  /\ Buckets = 0 .. Cardinality(Buckets) - 1 /\ 0 \in Buckets

VARIABLES
  PubAddresses,   \* the vector
  capacity,       \* of the vector
  moved,          \* how often the vector has moved to a larger buffer
  mutex_pub,      \* the Listeners that hold it shared
  sharedObj,      \* the table of objects
  Subscriptions,  \* the addresses in BitMRC::Subscriptions
  messages,       \* the signatures in the table of messages
  new_messages,   \* the queue of messages for the user
  shown,          \* history: the messages "check message" has printed
  acked,          \* history: the messages whose acknowledgement was queued
  asked,          \* history: tags of the getpubkey objects queued
  query,          \* the buffer of get_update_query: the row it tells to save
  db,             \* the rows of the storage: of the address of which keys, with which keys
  pc,             \* where each thread is
  obj,            \* the Listener's object
  at,             \* the Listener's index into PubAddresses
  to,             \* main(): getPubKey's address, sendMessage's toAddr
  sending,        \* main(): getPubKey was called by sendMessage
  bucket,         \* main(): getPubKey's bucket of sharedObj
  target,         \* main(): sendMessage's pointer: index, and moved when it was taken
  received,       \* objects received so far (the bound only)
  commands        \* commands so far (the bound only)

book == <<PubAddresses, capacity, moved>>
inbox == <<Subscriptions, messages, new_messages, shown, acked>>
storage == <<query, db>>
mainvars == <<asked, to, sending, bucket, target>>
bounds == <<received, commands>>
vars == <<book, mutex_pub, sharedObj, inbox, storage, mainvars, pc, obj, at, bounds>>

Goto(t, where) == pc' = [pc EXCEPT ![t] = where]

Waiting(entry) == entry.key = NoKey
\* getPubKey's comparison of two addresses.
Same(a, b) ==
  version[a] = version[b] /\ IF version[b] >= 4 THEN tag[a] = tag[b] ELSE ripe[a] = ripe[b]
Index(a) == {i \in DOMAIN PubAddresses : PubAddresses[i].address = a}
Stale == target.moved # moved

Init ==
  /\ PubAddresses = Loaded /\ capacity = room /\ moved = 0
  /\ mutex_pub = {}
  /\ sharedObj = EmptyTable
  /\ Subscriptions = {} /\ messages = {} /\ new_messages = <<>> /\ shown = {} /\ acked = {}
  /\ asked = {}
  /\ query = Nil /\ db = {}
  /\ pc = [t \in Threads |-> "idle"]
  /\ obj = [l \in Listeners |-> Nil] /\ at = [l \in Listeners |-> 0]
  /\ to = Nil /\ sending = FALSE /\ bucket = 0 /\ target = Nil
  /\ received = 0 /\ commands = 0

-----------------------------------------------------------------------------
(* Faulty variants of definitions below: the properties must refuse them. *)

\* addAddr does not look for the address, or overwrites what it finds.
WithEntryTwice(seq, entry) == Append(seq, entry)
WithEntryOverwritten(seq, entry) ==
  IF \E i \in DOMAIN seq : seq[i].address = entry.address
  THEN [i \in DOMAIN seq |-> IF seq[i].address = entry.address THEN entry ELSE seq[i]]
  ELSE Append(seq, entry)

\* getPubKey does not ask for an address that is in the pool.
LookSilently ==
  /\ pc[Main] = "look"
  /\ IF \E i \in DOMAIN PubAddresses : Same(PubAddresses[i].address, to.address)
     THEN IF sending THEN Goto(Main, "find") /\ UNCHANGED <<to, sending>>
          ELSE Goto(Main, "idle") /\ to' = Nil /\ UNCHANGED sending
     ELSE Goto(Main, "scan") /\ UNCHANGED <<to, sending>>
  /\ UNCHANGED <<book, mutex_pub, sharedObj, inbox, storage, asked, bucket, target, obj, at,
                 bounds>>

\* sendMessage does not wait for the keys.
WaitNot ==
  /\ pc[Main] = "wait"
  /\ Goto(Main, "copy")
  /\ UNCHANGED <<book, mutex_pub, sharedObj, inbox, storage, mainvars, obj, at, bounds>>

\* The pubkey loop ends at the first address with the tag, or compares strings.
NextAddressOnly(l) ==
  /\ pc[l] = "loop" /\ at[l] \in DOMAIN PubAddresses
  /\ LET entry == PubAddresses[at[l]] IN
     IF tag[entry.address] # tag[obj[l].who]
     THEN at' = [at EXCEPT ![l] = @ + 1] /\ UNCHANGED pc
     ELSE IF Waiting(entry) THEN Goto(l, "decode") /\ UNCHANGED at
     ELSE at' = [at EXCEPT ![l] = Len(PubAddresses) + 1] /\ UNCHANGED pc
  /\ UNCHANGED <<book, mutex_pub, sharedObj, inbox, storage, mainvars, obj, bounds>>
NextAddressByName(l) ==
  /\ pc[l] = "loop" /\ at[l] \in DOMAIN PubAddresses
  /\ LET entry == PubAddresses[at[l]] IN
     IF Waiting(entry) /\ entry.address = obj[l].who
     THEN Goto(l, "decode") /\ UNCHANGED at
     ELSE at' = [at EXCEPT ![l] = @ + 1] /\ UNCHANGED pc
  /\ UNCHANGED <<book, mutex_pub, sharedObj, inbox, storage, mainvars, obj, bounds>>

\* The acknowledgement is not sent.
DecryptSilently(l) ==
  /\ pc[l] = "decrypt"
  /\ IF obj[l].fine THEN Goto(l, "sender") /\ UNCHANGED <<obj, at>>
     ELSE Goto(l, "idle") /\ obj' = [obj EXCEPT ![l] = Nil] /\ at' = [at EXCEPT ![l] = 0]
  /\ UNCHANGED <<book, mutex_pub, sharedObj, inbox, storage, mainvars, bounds>>

\* What messages.insert returns is not looked at.
InsertMessageAgain(l) ==
  /\ pc[l] = "deliver"
  /\ Goto(l, "push")
  /\ messages' = messages \cup {obj[l].id}
  /\ UNCHANGED <<book, mutex_pub, sharedObj, Subscriptions, new_messages, shown, acked, storage,
                 mainvars, obj, at, bounds>>

\* The vector keeps its capacity.
GrowNot == UNCHANGED <<capacity, moved>>

-----------------------------------------------------------------------------
(* addAddr(PubAddr) *)

\* The vector after an entry: one that is there only gets keys it waits for.
WithEntry(seq, entry) ==
  IF \E i \in DOMAIN seq : seq[i].address = entry.address
  THEN [i \in DOMAIN seq |->
          IF seq[i].address = entry.address /\ Waiting(seq[i]) THEN entry ELSE seq[i]]
  ELSE Append(seq, entry)

\* push_back doubles a vector that is full.
Grow ==
  IF Len(PubAddresses') > capacity
  THEN capacity' = (IF capacity = 0 THEN 1 ELSE 2 * capacity) /\ moved' = moved + 1
  ELSE UNCHANGED <<capacity, moved>>

\* Faulty variant: mutex_pub is not waited for.
AddAddrUnlocked(entry) == PubAddresses' = WithEntry(PubAddresses, entry) /\ Grow

\* mutex_pub is taken exclusively.
AddAddr(entry) ==
  /\ mutex_pub = {}
  /\ PubAddresses' = WithEntry(PubAddresses, entry)
  /\ Grow

-----------------------------------------------------------------------------
(* main(): getPubKey *)

\* Where getPubKey returns to, and what is left of its locals.
Return ==
  IF sending THEN Goto(Main, "find") /\ UNCHANGED <<to, sending>>
  ELSE Goto(Main, "idle") /\ to' = Nil /\ UNCHANGED sending

\* A command the user types.
Input == commands < MaxCommands /\ commands' = commands + 1

\* "address public": getPubKey of an address that was typed in.
AskCommand(a) ==
  /\ pc[Main] = "idle" /\ Input
  /\ to' = [address |-> a, key |-> NoKey]
  /\ Goto(Main, "look")
  /\ UNCHANGED <<book, mutex_pub, sharedObj, inbox, storage, asked, sending, bucket,
                 target, obj, at, received>>

\* The loop over PubAddresses: the first entry of the same address decides.
Look ==
  /\ pc[Main] = "look"
  /\ LET hits == {i \in DOMAIN PubAddresses : Same(PubAddresses[i].address, to.address)}
     IN  IF hits = {} THEN Goto(Main, "scan") /\ UNCHANGED <<to, sending>>
         ELSE IF Waiting(PubAddresses[CHOOSE i \in hits : \A j \in hits : i <= j])
         THEN Goto(Main, "ask") /\ UNCHANGED <<to, sending>>
         ELSE Return
  /\ UNCHANGED <<book, mutex_pub, sharedObj, inbox, storage, asked, bucket, target, obj, at,
                 bounds>>

\* Where the pubkeys with a tag are in the list of a bucket.
PubKeysIn(b, t) ==
  {i \in DOMAIN sharedObj[b] :
     LET o == sharedObj[b][i].info IN o.type = "pubkey" /\ tag[o.who] = t}

\* One bucket is searched under sharedObj.mutex_; the first pubkey is tried, and
\* what decodeFromObj returns is not looked at.
Scan ==
  /\ pc[Main] = "scan"
  /\ LET hits  == PubKeysIn(bucket, tag[to.address])
         found == sharedObj[bucket][CHOOSE i \in hits : \A j \in hits : i <= j].info
     IN  IF hits # {}
         THEN /\ to' = IF found.fine THEN [to EXCEPT !.key = ripe[found.from]] ELSE to
              /\ bucket' = 0
              /\ Goto(Main, "found")
         ELSE /\ IF bucket + 1 \in Buckets
                 THEN bucket' = bucket + 1 /\ UNCHANGED pc
                 ELSE bucket' = 0 /\ Goto(Main, "add")
              /\ UNCHANGED to
  /\ UNCHANGED <<book, mutex_pub, sharedObj, inbox, storage, asked, sending, target, obj, at,
                 bounds>>

\* addAddr with the pubkey that was found, sharedObj.mutex_ still held; no request.
AddFound ==
  /\ pc[Main] = "found"
  /\ AddAddr(to)
  /\ Return
  /\ UNCHANGED <<mutex_pub, sharedObj, inbox, storage, asked, bucket, target, obj, at, bounds>>

AddWaiting ==
  /\ pc[Main] = "add"
  /\ AddAddr(to)
  /\ Goto(Main, "ask")
  /\ UNCHANGED <<mutex_pub, sharedObj, inbox, storage, mainvars, obj, at, bounds>>

\* sendObj(getpubkey)
Ask ==
  /\ pc[Main] = "ask"
  /\ asked' = asked \cup {tag[to.address]}
  /\ Return
  /\ UNCHANGED <<book, mutex_pub, sharedObj, inbox, storage, bucket, target, obj, at, bounds>>

-----------------------------------------------------------------------------
(* main(): sendMessage, and the other commands *)

\* "send": toAddr is a copy of an entry of PubAddresses.
SendCommand(i) ==
  /\ pc[Main] = "idle" /\ Input
  /\ to' = PubAddresses[i]
  /\ sending' = TRUE
  /\ Goto(Main, IF Waiting(PubAddresses[i]) THEN "look" ELSE "encrypt")
  /\ UNCHANGED <<book, mutex_pub, sharedObj, inbox, storage, asked, bucket, target, obj, at,
                 received>>

\* The pointer to the address in the pool.  The search is one step: a vector that
\* moves in the middle of it leaves a pointer into the old buffer, as one that
\* moves right after it does.
FindTarget ==
  /\ pc[Main] = "find"
  /\ target' = [index |-> CHOOSE i \in Index(to.address) :
                            \A j \in Index(to.address) : i <= j,
                moved |-> moved]
  /\ Goto(Main, "wait")
  /\ UNCHANGED <<book, mutex_pub, sharedObj, inbox, storage, asked, to, sending, bucket,
                 obj, at, bounds>>

\* while (target->waitingPubKey()): in freed memory it may find either answer.
WaitPubKey ==
  /\ pc[Main] = "wait"
  /\ Stale \/ ~Waiting(PubAddresses[target.index])
  /\ Goto(Main, "copy")
  /\ UNCHANGED <<book, mutex_pub, sharedObj, inbox, storage, mainvars, obj, at, bounds>>

\* toAddr = *target
CopyTarget ==
  /\ pc[Main] = "copy"
  /\ to' \in IF Stale THEN {[to EXCEPT !.key = k] : k \in Keys}
             ELSE {PubAddresses[target.index]}
  /\ Goto(Main, "encrypt")
  /\ UNCHANGED <<book, mutex_pub, sharedObj, inbox, storage, asked, sending, bucket, target,
                 obj, at, bounds>>

\* The message is encrypted with toAddr's key and queued, as in module Relay.
Encrypt ==
  /\ pc[Main] = "encrypt"
  /\ to' = Nil /\ sending' = FALSE /\ target' = Nil
  /\ Goto(Main, "idle")
  /\ UNCHANGED <<book, mutex_pub, sharedObj, inbox, storage, asked, bucket, obj, at, bounds>>

\* "address broadcast": addSubscription, under mutex_subs.
Subscribe(a) ==
  /\ pc[Main] = "idle" /\ Input
  /\ \A l \in Listeners : obj[l] # Nil => obj[l].type # "broadcast"
  /\ Subscriptions' = Subscriptions \cup {a}
  /\ UNCHANGED <<book, mutex_pub, sharedObj, messages, new_messages, shown, acked, storage,
                 mainvars, pc, obj, at, received>>

\* "check message": main() is the only one to pop.
CheckMessage ==
  /\ pc[Main] = "idle" /\ new_messages # <<>>
  /\ shown' = shown \cup {Head(new_messages)}
  /\ new_messages' = Tail(new_messages)
  /\ UNCHANGED <<book, mutex_pub, sharedObj, Subscriptions, messages, acked, storage, mainvars,
                 pc, obj, at, bounds>>

-----------------------------------------------------------------------------
(* A Listener: processObj *)

\* Back to the socket: the locals are gone.
Finish(l) == Goto(l, "idle") /\ obj' = [obj EXCEPT ![l] = Nil] /\ at' = [at EXCEPT ![l] = 0]

\* A valid object is inserted (while main() does not hold sharedObj.mutex_) and
\* analysed, unless insert() says 2.  The announcement is in module Relay.
Receive(l, o) ==
  /\ pc[l] = "idle" /\ received < MaxObjects /\ received' = received + 1
  /\ pc[Main] # "found"
  /\ sharedObj' = Insert(sharedObj, o, o.id)
  /\ IF InsertCode(sharedObj, o, o.id) = 2 THEN UNCHANGED <<pc, obj>>
     ELSE /\ obj' = [obj EXCEPT ![l] = o]
          /\ Goto(l, IF o.type = "pubkey" THEN "lock" ELSE "decrypt")
  /\ UNCHANGED <<book, mutex_pub, inbox, storage, mainvars, at, commands>>

\* A pubkey: mutex_pub is taken shared for the whole loop.
LockPub(l) ==
  /\ pc[l] = "lock"
  /\ mutex_pub' = mutex_pub \cup {l}
  /\ at' = [at EXCEPT ![l] = 1]
  /\ Goto(l, "loop")
  /\ UNCHANGED <<book, sharedObj, inbox, storage, mainvars, obj, bounds>>

\* The next address that waits for a pubkey with this tag.
NextAddress(l) ==
  /\ pc[l] = "loop" /\ at[l] \in DOMAIN PubAddresses
  /\ LET entry == PubAddresses[at[l]] IN
     IF Waiting(entry) /\ tag[entry.address] = tag[obj[l].who]
     THEN Goto(l, "decode") /\ UNCHANGED at
     ELSE at' = [at EXCEPT ![l] = @ + 1] /\ UNCHANGED pc
  /\ UNCHANGED <<book, mutex_pub, sharedObj, inbox, storage, mainvars, obj, bounds>>

\* decodeFromObj: loadKeys sets the keys under the address's own mutex, whatever
\* address they are of.
Decode(l) ==
  /\ pc[l] = "decode"
  /\ IF obj[l].fine
     THEN /\ PubAddresses' = [PubAddresses EXCEPT ![at[l]].key = ripe[obj[l].from]]
          /\ Goto(l, "build")
          /\ UNCHANGED at
     ELSE /\ at' = [at EXCEPT ![l] = @ + 1]
          /\ Goto(l, "loop")
          /\ UNCHANGED PubAddresses
  /\ UNCHANGED <<capacity, moved, mutex_pub, sharedObj, inbox, storage, mainvars, obj, bounds>>

\* get_update_query reads the two keys of the entry one after the other: another
\* Listener may give the entry other keys in between.
Mixed(l) ==
  \E k \in Listeners \ {l} :
    /\ pc[k] = "decode" /\ at[k] = at[l] /\ obj[k].fine
    /\ ripe[obj[k].from] # PubAddresses[at[l]].key

\* store(): get_update_query writes to a buffer all threads share.  The row is for
\* the address of the entry's keys; the keys in it are read from freed memory ...
BuildQuery(l) ==
  /\ pc[l] = "build"
  /\ LET key == PubAddresses[at[l]].key IN
     query' \in [of : {key} \cup (IF Mixed(l) THEN {Garbage} ELSE {}), keys : {key, Garbage}]
  /\ Goto(l, "exec")
  /\ UNCHANGED <<book, mutex_pub, sharedObj, inbox, db, mainvars, obj, at, bounds>>

\* ... and sql_exec sends what is there then to the data base, or fails.
ExecQuery(l) ==
  /\ pc[l] = "exec"
  /\ db' = db \cup {query} \/ UNCHANGED db
  /\ at' = [at EXCEPT ![l] = @ + 1]
  /\ Goto(l, "loop")
  /\ UNCHANGED <<book, mutex_pub, sharedObj, inbox, query, mainvars, obj, bounds>>

UnlockPub(l) ==
  /\ pc[l] = "loop" /\ at[l] \notin DOMAIN PubAddresses
  /\ mutex_pub' = mutex_pub \ {l}
  /\ Finish(l)
  /\ UNCHANGED <<book, sharedObj, inbox, storage, mainvars, bounds>>

\* decryptMsg: a message that is for us, or a broadcast we are subscribed to, and
\* whose signature is right.  Packet(AckData) throws when it is too short; the
\* acknowledgement of another one is propagated before anything is stored.
Decrypt(l) ==
  /\ pc[l] = "decrypt"
  /\ IF \/ ~obj[l].fine
        \/ obj[l].type = "msg" /\ ~obj[l].ack
        \/ obj[l].type = "broadcast" /\ \A a \in Subscriptions : tag[a] # tag[obj[l].who]
     THEN Finish(l) /\ UNCHANGED acked
     ELSE /\ acked' = IF obj[l].type = "msg" THEN acked \cup {obj[l].id} ELSE acked
          /\ Goto(l, "sender")
          /\ UNCHANGED <<obj, at>>
  /\ UNCHANGED <<book, mutex_pub, sharedObj, Subscriptions, messages, new_messages, shown,
                 storage, mainvars, bounds>>

\* The sender's address, built from the keys in the message.
AddSender(l) ==
  /\ pc[l] = "sender"
  /\ AddAddr([address |-> obj[l].from, key |-> ripe[obj[l].from]])
  /\ Goto(l, "deliver")
  /\ UNCHANGED <<mutex_pub, sharedObj, inbox, storage, mainvars, obj, at, bounds>>

\* messages.insert, whose answer decides whether the message is new ...
InsertMessage(l) ==
  /\ pc[l] = "deliver"
  /\ IF obj[l].id \in messages THEN Finish(l)
     ELSE Goto(l, "push") /\ UNCHANGED <<obj, at>>
  /\ messages' = messages \cup {obj[l].id}
  /\ UNCHANGED <<book, mutex_pub, sharedObj, Subscriptions, new_messages, shown, acked, storage,
                 mainvars, bounds>>

\* ... and new_messages.push
PushMessage(l) ==
  /\ pc[l] = "push"
  /\ new_messages' = Append(new_messages, obj[l].id)
  /\ Finish(l)
  /\ UNCHANGED <<book, mutex_pub, sharedObj, Subscriptions, messages, shown, acked, storage,
                 mainvars, bounds>>

-----------------------------------------------------------------------------
Listener(l) ==
  \/ LockPub(l) \/ NextAddress(l) \/ Decode(l) \/ BuildQuery(l) \/ ExecQuery(l) \/ UnlockPub(l)
  \/ Decrypt(l) \/ AddSender(l) \/ InsertMessage(l) \/ PushMessage(l)

GetPubKey == Look \/ Scan \/ AddFound \/ AddWaiting \/ Ask
SendMessage == FindTarget \/ WaitPubKey \/ CopyTarget \/ Encrypt

Command ==
  \/ \E a \in Typed : AskCommand(a) \/ Subscribe(a)
  \/ \E i \in DOMAIN PubAddresses : SendCommand(i)
  \/ CheckMessage

Next ==
  \/ Command \/ GetPubKey \/ SendMessage
  \/ \E l \in Listeners : Listener(l) \/ \E o \in Objects : Receive(l, o)

\* The threads go on with what they began; nobody has to type or to send anything.
Fairness ==
  /\ WF_vars(GetPubKey \/ SendMessage)
  /\ \A l \in Listeners : WF_vars(Listener(l))

Spec == Init /\ [][Next]_vars /\ Fairness

-----------------------------------------------------------------------------
(* Properties *)

\* The type invariant of the address book (PubAddresses, the threads that use it).
TypeOK ==
  /\ PubAddresses \in Seq(Entries) /\ capacity \in Nat /\ moved \in Nat
  /\ Len(PubAddresses) <= capacity
  /\ mutex_pub \subseteq Listeners
  /\ sharedObj \in Tables(Objects) /\ received \in 0 .. MaxObjects /\ commands \in 0 .. MaxCommands
  /\ Subscriptions \subseteq Addresses
  /\ asked \subseteq Tags
  /\ query \in Rows \cup {Nil} /\ db \subseteq Rows
  /\ sending \in BOOLEAN
  /\ obj \in [Listeners -> Objects \cup {Nil}] /\ at \in [Listeners -> Nat]
  /\ to \in Entries \cup {Nil} /\ bucket \in Buckets
  /\ target \in [index : Nat, moved : Nat] \cup {Nil}

\* getPubKey and addAddr never forget an address, whoever else is in the vector,
\* and no thread takes keys away from an address that has them.
StateOf(a) ==
  IF Index(a) = {} THEN "absent"
  ELSE IF \E i \in Index(a) : Waiting(PubAddresses[i]) THEN "wanted" ELSE "ready"
Promised == INSTANCE KeyBook WITH book <- [a \in Addresses |-> StateOf(a)]
ImplementsKeyBook == Promised!Spec

\* addAddr by main() and by Listeners at the same time never puts one address twice
\* into PubAddresses.
NoDuplicates ==
  \A i, j \in DOMAIN PubAddresses : PubAddresses[i].address = PubAddresses[j].address => i = j

\* While a Listener walks over PubAddresses in processObj, with a reference to an
\* element, no thread adds an address: push_back may move the elements.
HeldPoolIsStill == [][mutex_pub # {} => Len(PubAddresses') = Len(PubAddresses)]_vars

\* When processObj is done with a pubkey that can be decoded, every spelling of
\* its address that is in the pool has the keys.
Informs(l) == UnlockPub(l) /\ obj[l].fine
PubKeyReachesAll ==
  [][\A l \in Listeners : Informs(l) =>
       \A i \in DOMAIN PubAddresses :
         tag[PubAddresses[i].address] = tag[obj[l].who] => ~Waiting(PubAddresses[i])]_vars

\* sendMessage never waits for a key that was not asked for, unless another entry
\* that getPubKey takes for the address has it: getPubKey looks for the tag or the
\* ripe, sendMessage for the string.
WaitIsAsked ==
  pc[Main] = "wait" /\ ~Stale /\ Waiting(PubAddresses[target.index]) =>
    \/ tag[to.address] \in asked
    \/ \E i \in DOMAIN PubAddresses :
         Same(PubAddresses[i].address, to.address) /\ ~Waiting(PubAddresses[i])

\* A message is encrypted with keys, and only with some that came for the address it
\* is for, whatever Listeners do to the pool meanwhile, unless the vector moved away
\* under sendMessage's pointer: with the address's own or those it was loaded with,
\* or with those of a pubkey with its tag.  (Whose they are is not checked.)
KeysSent(objects, a) ==
  {ripe[a]}
  \cup {Loaded[i].key : i \in {j \in DOMAIN Loaded : Loaded[j].address = a /\ ~Waiting(Loaded[j])}}
  \cup {ripe[o.from] : o \in {p \in objects : p.type = "pubkey" /\ p.fine /\ tag[p.who] = tag[a]}}
EncryptsWithKeysSent ==
  pc[Main] = "encrypt" =>
    to.key \in KeysSent(Stored(sharedObj), to.address) \/ (target # Nil /\ Stale)

\* A message or broadcast that several Listeners decrypt, again and again, is in
\* new_messages or shown once, and one that is in messages is not lost for the user.
Pushing == {l \in Listeners : pc[l] = "push"}
DeliveredOnce ==
  LET queued == {new_messages[i] : i \in DOMAIN new_messages}
      coming == {obj[l].id : l \in Pushing}
  IN  /\ Cardinality(queued) = Len(new_messages)
      /\ Cardinality(coming) = Cardinality(Pushing)
      /\ queued \cap shown = {} /\ coming \cap (queued \cup shown) = {}
      /\ messages = queued \cup shown \cup coming

\* The user does not see a message before its acknowledgement is on its way.
AckBeforeDelivery ==
  \A o \in Objects : o.type = "msg" /\ o.id \in messages => o.id \in acked

\* When a pubkey that can be decoded comes for the address sendMessage waits for,
\* the wait ends, unless the vector moved away under its pointer.
AnswerEndsWait ==
  \A l \in Listeners :
    (/\ pc[Main] = "wait" /\ ~Stale /\ pc[l] = "lock" /\ obj[l].fine
     /\ tag[obj[l].who] = tag[to.address])
      ~> (pc[Main] # "wait" \/ Stale)
=============================================================================
