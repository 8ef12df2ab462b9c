---------------------------- MODULE Persistence -----------------------------
(***************************************************************************)
(* What survives from one run of the client to the next: ~BitMRC writes    *)
(* the objects to one file and the addresses to another (save), BitMRC()   *)
(* reads them back (load).  The process may crash at any moment, a file    *)
(* may not open and the disk may be full.  Between the two a Listener      *)
(* answers requests for the public keys of our addresses, for each address *)
(* once in Period, by a time stamp that is saved with the address.         *)
(*                                                                         *)
(* A file is a sequence of parts; part i of a record is the i-th value     *)
(* that is written for it.  stdio writes what it holds whenever it likes,  *)
(* so that a crash leaves any beginning of what was written to the file.   *)
(***************************************************************************)
EXTENDS Naturals, Sequences, SequencesExt, FiniteSets

CONSTANTS
  Objects,     \* the objects, in the order of sharedObj's buckets
  Time,        \* Time[o]: when the object expires
  Own,         \* addresses of this client
  Generated,   \* those that are generated
  reloaded,    \* reloaded[a]: the address that load() computes from a's private keys
  Others,      \* addresses of others
  Listeners,
  Period,      \* the four days in which a pubkey is not shared again
  MaxChanges,  \* bound: changes to memory, and requests for our keys
  MaxTime,     \* bound: the clock
  MaxRuns      \* bound: runs of the client

ASSUME PersistenceAssumption ==
  /\ Objects \in Seq(ToSet(Objects)) /\ IsInjective(Objects)
  /\ Time \in [ToSet(Objects) -> Nat]
  /\ Generated \subseteq Own /\ reloaded \in [Own -> Own]
  /\ \A a \in Own : reloaded[reloaded[a]] = reloaded[a]
  /\ \A a \in Own : reloaded[a] # a => reloaded[a] \notin Generated
  /\ IsFiniteSet(Listeners)
  /\ Period \in Nat /\ MaxChanges \in Nat /\ MaxTime \in Nat /\ MaxRuns \in Nat

VARIABLES
  pc,            \* where main() is in a run of the client
  now,           \* std::time
  run,           \* number of the run
  sharedObj,     \* the objects in memory
  PrivAddresses, \* our addresses: [address, last], last is lastPubKeyRequest
  PubAddresses,  \* others' addresses: [address, waiting]
  save,          \* the file "save"
  keys,          \* the file "keys.dat"
  at,            \* save(): parts written; load(): parts read
  answering,     \* what a Listener is about to share: an index into PrivAddresses, or 0
  meant,         \* history: the records that each file was last opened to hold
  damaged,       \* history: the last save() did not succeed
  changes,       \* bound: counts the changes to memory
  shared         \* history: when a Listener last shared a pubkey of ours

memory == <<sharedObj, PrivAddresses, PubAddresses>>
disk == <<save, keys>>
vars == <<pc, now, run, memory, disk, at, answering, meant, damaged, changes, shared>>

-----------------------------------------------------------------------------
(* The files *)

ObjectRecords == [type : {"object"}, object : ToSet(Objects)]
PrivRecords == [type : {"priv"}, address : Own, last : Nat]
PubRecords == [type : {"pub"}, address : Others, waiting : BOOLEAN]

\* How many values are written for a record: hash, payload; the type, the address,
\* two private keys, the time; the type, waiting, the address, then four of the keys.
Parts(r) ==
  CASE r.type = "object" -> 2
    [] r.type = "priv"   -> 5
    [] r.type = "pub"    -> IF r.waiting THEN 3 ELSE 7

PartsOf(r) == [i \in 1 .. Parts(r) |-> [record |-> r, part |-> i]]

\* What save() writes to a file.
Written(records) == FlattenSeq([i \in DOMAIN records |-> PartsOf(records[i])])

\* The loops of save() over the table, PrivAddresses and PubAddresses.
SaveRecords ==
  FlattenSeq([i \in DOMAIN Objects |->
     IF Objects[i] \in sharedObj THEN <<[type |-> "object", object |-> Objects[i]]>> ELSE <<>>])
KeyRecords ==
  [i \in DOMAIN PrivAddresses |->
     [type |-> "priv", address |-> PrivAddresses[i].address, last |-> PrivAddresses[i].last]]
  \o [i \in DOMAIN PubAddresses |->
     [type |-> "pub", address |-> PubAddresses[i].address, waiting |-> PubAddresses[i].waiting]]

\* Beginnings of a file.
Beginnings(file) == {SubSeq(file, 1, n) : n \in 0 .. Len(file)}

\* Faulty variant: a read past the end does not throw.
WholeOrTorn(file, n) == n < Len(file)

\* A record that starts after part n of the file and is there to its end.
Whole(file, n) == n < Len(file) /\ n + Parts(file[n + 1].record) <= Len(file)

Goto(where) == pc' = where

\* A run ends without a good save().
Lost == [a \in Own |-> [l \in Listeners |-> 0]]

Init ==
  /\ pc = "off" /\ run = 0 /\ now = Period + 1
  /\ sharedObj = {} /\ PrivAddresses = <<>> /\ PubAddresses = <<>>
  /\ save = <<>> /\ keys = <<>> /\ at = 0
  /\ answering = [l \in Listeners |-> 0]
  /\ meant = [save |-> <<>>, keys |-> <<>>]
  /\ damaged = FALSE /\ changes = 0 /\ shared = Lost

-----------------------------------------------------------------------------
(* load() *)

\* BitMRC(): nothing in memory, keys.dat is read first.
Start ==
  /\ pc = "off" /\ run < MaxRuns
  /\ run' = run + 1 /\ at' = 0
  /\ Goto("loadkeys")
  /\ UNCHANGED <<now, memory, disk, answering, meant, damaged, shared, changes>>

\* addAddr of either kind: an address that is there stays as it is.
With(seq, entry) ==
  IF \E i \in DOMAIN seq : seq[i].address = entry.address THEN seq ELSE Append(seq, entry)

\* ... but for an address of others that gets the keys it waits for.
WithPub(seq, entry) ==
  IF entry.waiting THEN With(seq, entry)
  ELSE With([i \in DOMAIN seq |-> IF seq[i].address = entry.address THEN entry ELSE seq[i]], entry)

\* Faulty variant: the time stamp is not restored.
LoadPrivUnstamped(r) ==
  /\ PrivAddresses' = With(PrivAddresses, [address |-> reloaded[r.address], last |-> 0])
  /\ UNCHANGED PubAddresses

\* A private address is computed anew from its keys.
LoadPriv(r) ==
  /\ PrivAddresses' = With(PrivAddresses, [address |-> reloaded[r.address], last |-> r.last])
  /\ UNCHANGED PubAddresses

LoadPub(r) ==
  /\ PubAddresses' = WithPub(PubAddresses, [address |-> r.address, waiting |-> r.waiting])
  /\ UNCHANGED PrivAddresses

LoadKey ==
  /\ pc = "loadkeys" /\ Whole(keys, at)
  /\ LET r == keys[at + 1].record IN
     /\ IF r.type = "priv" THEN LoadPriv(r) ELSE LoadPub(r)
     /\ at' = at + Parts(r)
  /\ UNCHANGED <<pc, now, run, sharedObj, disk, answering, meant, damaged, shared, changes>>

\* The end of the file, which may be in the middle of a record: a read throws.
LoadKeysEnd ==
  /\ pc = "loadkeys" /\ ~Whole(keys, at)
  /\ at' = 0
  /\ Goto("loadobjects")
  /\ UNCHANGED <<now, run, memory, disk, answering, meant, damaged, shared, changes>>

\* An object that has expired is left out.
LoadObject ==
  /\ pc = "loadobjects" /\ Whole(save, at)
  /\ LET r == save[at + 1].record IN
     /\ sharedObj' = IF now < Time[r.object] THEN sharedObj \cup {r.object} ELSE sharedObj
     /\ at' = at + Parts(r)
  /\ UNCHANGED <<pc, now, run, PrivAddresses, PubAddresses, disk, answering, meant, damaged,
                 shared, changes>>

LoadEnd ==
  /\ pc = "loadobjects" /\ ~Whole(save, at)
  /\ at' = 0
  /\ Goto("loaded")
  /\ UNCHANGED <<now, run, memory, disk, answering, meant, damaged, shared, changes>>

-----------------------------------------------------------------------------
(* The run: what the other modules do to memory, and the requests for our keys *)

Run ==
  /\ pc = "loaded"
  /\ Goto("run")
  /\ UNCHANGED <<now, run, memory, disk, at, answering, meant, damaged, shared, changes>>

Change == changes < MaxChanges /\ changes' = changes + 1

StoreObject(o) ==
  /\ pc = "run" /\ Change /\ o \notin sharedObj /\ now < Time[o]
  /\ sharedObj' = sharedObj \cup {o}
  /\ UNCHANGED <<pc, now, run, PrivAddresses, PubAddresses, disk, at, answering, meant, damaged,
                 shared>>

AddPriv(a) ==
  /\ pc = "run" /\ Change
  /\ \A i \in DOMAIN PrivAddresses : PrivAddresses[i].address # a
  /\ PrivAddresses' = With(PrivAddresses, [address |-> a, last |-> 0])
  /\ UNCHANGED <<pc, now, run, sharedObj, PubAddresses, disk, at, answering, meant, damaged,
                 shared>>

AddPub(a, waiting) ==
  /\ pc = "run" /\ Change
  /\ PubAddresses' = WithPub(PubAddresses, [address |-> a, waiting |-> waiting])
  /\ UNCHANGED <<pc, now, run, sharedObj, PrivAddresses, disk, at, answering, meant, damaged,
                 shared>>

LearnKeys(i) ==
  /\ pc = "run" /\ Change /\ PubAddresses[i].waiting
  /\ PubAddresses' = [PubAddresses EXCEPT ![i].waiting = FALSE]
  /\ UNCHANGED <<pc, now, run, sharedObj, PrivAddresses, disk, at, answering, meant, damaged,
                 shared>>

\* processObj of a getpubkey reads the time stamp with mutex_priv held shared ...
GetPubKey(l, i) ==
  /\ pc = "run" /\ Change /\ answering[l] = 0
  /\ PrivAddresses[i].last + Period < now
  /\ answering' = [answering EXCEPT ![l] = i]
  /\ UNCHANGED <<pc, now, run, memory, disk, at, meant, damaged, shared>>

\* ... and encodePubKey, which it calls, writes it; the destructor waits for this.
EncodePubKey(l) ==
  /\ pc = "run" /\ answering[l] # 0
  /\ PrivAddresses' = [PrivAddresses EXCEPT ![answering[l]].last = now]
  /\ shared' = [shared EXCEPT ![PrivAddresses[answering[l]].address][l] = now]
  /\ answering' = [answering EXCEPT ![l] = 0]
  /\ UNCHANGED <<pc, now, run, sharedObj, PubAddresses, disk, at, meant, damaged, changes>>

\* Time passes; load() and save() are shorter than a unit of it.
Tick ==
  /\ pc \in {"run", "off"} /\ now < MaxTime
  /\ now' = now + 1
  /\ UNCHANGED <<pc, run, memory, disk, at, answering, meant, damaged, shared, changes>>

-----------------------------------------------------------------------------
(* ~BitMRC and save() *)

\* The threads are joined.
Quit ==
  /\ pc = "run" /\ \A l \in Listeners : answering[l] = 0
  /\ Goto("open")
  /\ UNCHANGED <<now, run, memory, disk, at, answering, meant, damaged, shared, changes>>

\* Faulty variant: keys.dat is opened to append to it.
OpenToAppend(save_opens, keys_opens) ==
  /\ pc = "open"
  /\ save' = IF save_opens THEN <<>> ELSE save
  /\ keys' = keys
  /\ meant' = [save |-> IF save_opens THEN SaveRecords ELSE meant.save,
               keys |-> IF keys_opens THEN KeyRecords ELSE meant.keys]
  /\ IF save_opens /\ keys_opens
     THEN Goto("saveobjects") /\ UNCHANGED <<damaged, shared>>
     ELSE Goto("exit") /\ damaged' = TRUE /\ shared' = Lost
  /\ UNCHANGED <<now, run, memory, at, answering, changes>>

\* Both files are opened, and truncated by it, before either is looked at.
Open(save_opens, keys_opens) ==
  /\ pc = "open"
  /\ save' = IF save_opens THEN <<>> ELSE save
  /\ keys' = IF keys_opens THEN <<>> ELSE keys
  /\ meant' = [save |-> IF save_opens THEN SaveRecords ELSE meant.save,
               keys |-> IF keys_opens THEN KeyRecords ELSE meant.keys]
  /\ IF save_opens /\ keys_opens
     THEN Goto("saveobjects") /\ UNCHANGED <<damaged, shared>>
     ELSE Goto("exit") /\ damaged' = TRUE /\ shared' = Lost
  /\ UNCHANGED <<now, run, memory, at, answering, changes>>

\* A crash between the two calls of fopen.
CrashInOpen ==
  /\ pc = "open"
  /\ save' = <<>> /\ meant' = [meant EXCEPT !.save = SaveRecords]
  /\ Goto("exit") /\ damaged' = TRUE /\ shared' = Lost
  /\ UNCHANGED <<now, run, memory, keys, at, answering, changes>>

\* The next part of a file is written.
SaveObject ==
  /\ pc = "saveobjects" /\ at < Len(Written(SaveRecords))
  /\ save' = Append(save, Written(SaveRecords)[at + 1])
  /\ at' = at + 1
  /\ UNCHANGED <<pc, now, run, memory, keys, answering, meant, damaged, shared, changes>>

\* Faulty variant: the loop leaves out the last object.
SaveObjectsEndEarly ==
  /\ pc = "saveobjects" /\ at + Parts([type |-> "object"]) >= Len(Written(SaveRecords))
  /\ at' = 0
  /\ Goto("savekeys")
  /\ UNCHANGED <<now, run, memory, disk, answering, meant, damaged, shared, changes>>

SaveObjectsEnd ==
  /\ pc = "saveobjects" /\ at = Len(Written(SaveRecords))
  /\ at' = 0
  /\ Goto("savekeys")
  /\ UNCHANGED <<now, run, memory, disk, answering, meant, damaged, shared, changes>>

SaveKey ==
  /\ pc = "savekeys" /\ at < Len(Written(KeyRecords))
  /\ keys' = Append(keys, Written(KeyRecords)[at + 1])
  /\ at' = at + 1
  /\ UNCHANGED <<pc, now, run, memory, save, answering, meant, damaged, shared, changes>>

\* fclose of both; the process ends.
Close ==
  /\ pc = "savekeys" /\ at = Len(Written(KeyRecords))
  /\ Goto("exit")
  /\ damaged' = FALSE
  /\ shared' = [a \in Own |-> [l \in Listeners |-> Max(Range(shared[a]))]]
  /\ UNCHANGED <<now, run, memory, disk, at, answering, meant, changes>>

\* A write fails, or the process crashes, in save(): what stdio had not yet written
\* is gone, and what was not yet given to it is never written.
SaveFails ==
  /\ pc \in {"saveobjects", "savekeys"}
  /\ save' \in Beginnings(save) /\ keys' \in Beginnings(keys)
  /\ Goto("exit") /\ damaged' = TRUE /\ shared' = Lost
  /\ UNCHANGED <<now, run, memory, at, answering, meant, changes>>

\* A crash out of save(): the files stay what they were.
Crash ==
  /\ pc \in {"loadkeys", "loadobjects", "loaded", "run"}
  /\ Goto("exit") /\ shared' = Lost
  /\ UNCHANGED <<now, run, memory, disk, at, answering, meant, damaged, changes>>

\* The memory of the process is gone.
Exit ==
  /\ pc = "exit"
  /\ sharedObj' = {} /\ PrivAddresses' = <<>> /\ PubAddresses' = <<>>
  /\ at' = 0 /\ answering' = [l \in Listeners |-> 0]
  /\ Goto("off")
  /\ UNCHANGED <<now, run, disk, meant, damaged, shared, changes>>

-----------------------------------------------------------------------------
Load == Start \/ LoadKey \/ LoadKeysEnd \/ LoadObject \/ LoadEnd
Work ==
  \/ Run \/ Tick
  \/ \E o \in ToSet(Objects) : StoreObject(o)
  \/ \E a \in Generated : AddPriv(a)
  \/ \E a \in Others, waiting \in BOOLEAN : AddPub(a, waiting)
  \/ \E i \in DOMAIN PubAddresses : LearnKeys(i)
  \/ \E l \in Listeners : EncodePubKey(l) \/ \E i \in DOMAIN PrivAddresses : GetPubKey(l, i)
Save ==
  \/ Quit \/ SaveObject \/ SaveObjectsEnd \/ SaveKey \/ Close
  \/ \E save_opens, keys_opens \in BOOLEAN : Open(save_opens, keys_opens)

Next == Load \/ Work \/ Save \/ CrashInOpen \/ SaveFails \/ Crash \/ Exit

Spec == Init /\ [][Next]_vars

-----------------------------------------------------------------------------
(* Properties *)

Phases == {"off", "loadkeys", "loadobjects", "loaded", "run", "open", "saveobjects", "savekeys",
           "exit"}

\* The type invariant of memory, files and time stamps.
TypeOK ==
  /\ pc \in Phases /\ now \in Nat /\ run \in 0 .. MaxRuns /\ at \in Nat
  /\ pc \in {"loadobjects", "saveobjects"} => at <= Len(save)
  /\ pc \in {"loadkeys", "savekeys"} => at <= Len(keys)
  /\ sharedObj \subseteq ToSet(Objects)
  /\ PrivAddresses \in Seq([address : Own, last : Nat])
  /\ PubAddresses \in Seq([address : Others, waiting : BOOLEAN])
  /\ \A i \in DOMAIN save : save[i].record \in ObjectRecords
  /\ \A i \in DOMAIN keys : keys[i].record \in PrivRecords \cup PubRecords
  /\ answering \in [Listeners -> 0 .. Len(PrivAddresses)]
  /\ damaged \in BOOLEAN
  /\ changes \in 0 .. MaxChanges
  /\ shared \in [Own -> [Listeners -> Nat]]

\* Each file is a beginning of what a save() meant to write to it, whenever the
\* process crashes or the disk fills up: never a mixture of two saves, never
\* what is left of a longer one.
FilesAreBeginnings ==
  IsPrefix(save, Written(meant.save)) /\ IsPrefix(keys, Written(meant.keys))

\* After a save() that went well, the files hold all of the memory, and nothing
\* but the next save() touches them: not a crash, and not load().
SavedUnlessDamaged ==
  ~damaged /\ pc \notin {"saveobjects", "savekeys"} =>
    save = Written(meant.save) /\ keys = Written(meant.keys)

\* load() brings back the records that are whole, neither half a record nor less
\* than there is: of the objects those that have not expired, the addresses of
\* others with their state, and ours with their time stamps (of two that load() makes
\* one, one of the two).
RecordsIn(file, records) ==
  LET whole == {n \in 0 .. Len(records) : Len(Written(SubSeq(records, 1, n))) <= Len(file)}
  IN  {records[i] : i \in 1 .. CHOOSE n \in whole : \A m \in whole : m <= n}
LoadsWholeRecords ==
  pc = "loaded" =>
    LET k == RecordsIn(keys, meant.keys)
    IN  /\ sharedObj = {r.object : r \in {q \in RecordsIn(save, meant.save) :
                                             now < Time[q.object]}}
        /\ ToSet(PubAddresses) =
             {[address |-> r.address, waiting |-> r.waiting] :
                r \in {q \in k : q.type = "pub"}}
        /\ LET ours == {[address |-> reloaded[r.address], last |-> r.last] :
                           r \in {q \in k : q.type = "priv"}}
           IN  /\ ToSet(PrivAddresses) \subseteq ours
               /\ {p.address : p \in ToSet(PrivAddresses)} = {p.address : p \in ours}

\* A Listener shares the pubkey of an address once in Period, and a run of the
\* client does not share what the run before it shared less than Period ago, if
\* that run ended with a good save(): the time stamp survives the restart.  (An
\* address that load() changes is new when it is generated again.)
SharedOncePerListener ==
  [][\A a \in Own, l \in Listeners :
       /\ pc' = "run" /\ reloaded[a] = a
       /\ shared'[a][l] # shared[a][l]
       => shared[a][l] + Period < shared'[a][l]]_vars
=============================================================================
