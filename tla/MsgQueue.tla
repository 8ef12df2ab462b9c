------------------------------ MODULE MsgQueue ------------------------------
(***************************************************************************)
(* Queue<T> of include/utils.h: a std::queue guarded by mutex_, with a     *)
(* condition variable that pop() waits on and push() notifies AFTER it has *)
(* released the mutex.  Every hand-over between threads of the client goes *)
(* through one: NodeConnection::Packets, BitMRC::new_packets, new_inv,     *)
(* objects and new_messages.                                               *)
(*                                                                         *)
(* A step is what one thread does between two points where another thread  *)
(* can see the difference.  std::condition_variable may wake a waiter with *)
(* no notification, and notify_one picks any waiter; std::mutex gives      *)
(* itself to any of the threads that ask.                                  *)
(***************************************************************************)
EXTENDS Naturals, Sequences, FiniteSets

CONSTANTS
  Producers,  \* threads that call push()
  Consumers,  \* threads that call pop()
  Drainers,   \* the consumers that pop() only after size() > 0 (listen_inv)
  Items,      \* what the queue carries
  NoItem,     \* no element read yet
  Free,       \* mutex_ is not held
  MaxPush     \* bound: calls of push()

Threads == Producers \cup Consumers

ASSUME QueueAssumption ==
  /\ IsFiniteSet(Threads)
  /\ Producers \cap Consumers = {}
  /\ Drainers \subseteq Consumers
  /\ NoItem \notin Items
  /\ Free \notin Threads
  /\ MaxPush \in Nat

VARIABLES
  queue_,     \* the std::queue
  mutex_,     \* who holds the mutex, or Free
  pc,         \* where each thread is
  item,       \* pop()'s local: the element the thread read last
  pushes      \* calls of push() so far (the bound only)

vars == <<queue_, mutex_, pc, item, pushes>>

\* Threads blocked inside cond_.wait().
Waiting == {t \in Consumers : pc[t] = "waiting"}

\* Threads inside pop() that will still test queue_.empty() or take.
Awake == {t \in Consumers : pc[t] \in {"pop", "relock", "locked", "front"}}

\* Threads inside push() whose element is in the queue and not yet notified.
Notifying == {t \in Producers : pc[t] \in {"stored", "notify"}}

\* unique_lock's constructor.
Lock(t) ==
  /\ mutex_ = Free
  /\ mutex_' = t

Goto(t, where) == pc' = [pc EXCEPT ![t] = where]

Init ==
  /\ queue_ = <<>>
  /\ mutex_ = Free
  /\ pc = [t \in Threads |-> "idle"]
  /\ item = [t \in Consumers |-> NoItem]
  /\ pushes = 0

-----------------------------------------------------------------------------
(* Faulty variants of the steps below: the properties must refuse them. *)

\* Notify only when the element is the first one of the queue.
NotifyFirstOnly(p) ==
  /\ pc[p] = "notify"
  /\ \/ /\ Waiting = {} \/ Len(queue_) > 1
        /\ Goto(p, "idle")
     \/ /\ Len(queue_) <= 1
        /\ \E c \in Waiting : pc' = [pc EXCEPT ![p] = "idle", ![c] = "relock"]
  /\ UNCHANGED <<queue_, mutex_, item, pushes>>

\* cond_.wait() comes back without the mutex.
WakeUnlocked(c) ==
  /\ \/ pc[c] = "pop" /\ Lock(c)
     \/ pc[c] = "relock" /\ UNCHANGED mutex_
  /\ Goto(c, "locked")
  /\ UNCHANGED <<queue_, item, pushes>>

\* "if (empty) wait" in place of "while (empty) wait": front() of an empty queue.
FrontUnchecked(c) ==
  /\ pc[c] = "locked"
  /\ item' = [item EXCEPT ![c] = IF queue_ = <<>> THEN "garbage" ELSE Head(queue_)]
  /\ Goto(c, IF queue_ = <<>> THEN "return" ELSE "front")
  /\ UNCHANGED <<queue_, mutex_, pushes>>

-----------------------------------------------------------------------------
(* push(item) *)

PushLock(p) ==
  /\ pc[p] = "idle"
  /\ pushes < MaxPush
  /\ Lock(p)
  /\ pushes' = pushes + 1
  /\ Goto(p, "locked")
  /\ UNCHANGED <<queue_, item>>

PushStore(p) ==
  /\ pc[p] = "locked"
  /\ \E v \in Items : queue_' = Append(queue_, v)
  /\ Goto(p, "stored")
  /\ UNCHANGED <<mutex_, item, pushes>>

PushUnlock(p) ==
  /\ pc[p] = "stored"
  /\ mutex_' = Free
  /\ Goto(p, "notify")
  /\ UNCHANGED <<queue_, item, pushes>>

\* notify_one(): one waiter, any, must now reacquire the mutex; none if none.
PushNotify(p) ==
  /\ pc[p] = "notify"
  /\ \/ /\ Waiting = {}
        /\ Goto(p, "idle")
     \/ \E c \in Waiting : pc' = [pc EXCEPT ![p] = "idle", ![c] = "relock"]
  /\ UNCHANGED <<queue_, mutex_, item, pushes>>

-----------------------------------------------------------------------------
(* pop() and pop(item) *)

\* A drainer calls size() first; the others call pop() outright.
PopCall(c) ==
  /\ pc[c] = "idle"
  /\ c \notin Drainers
  /\ Goto(c, "pop")
  /\ UNCHANGED <<queue_, mutex_, item, pushes>>

PopLock(c) ==
  /\ pc[c] \in {"pop", "relock"}
  /\ Lock(c)
  /\ Goto(c, "locked")
  /\ UNCHANGED <<queue_, item, pushes>>

\* cond_.wait(mlock): releases the mutex and blocks in one step.
PopWait(c) ==
  /\ pc[c] = "locked"
  /\ queue_ = <<>>
  /\ mutex_' = Free
  /\ Goto(c, "waiting")
  /\ UNCHANGED <<queue_, item, pushes>>

SpuriousWakeup(c) ==
  /\ pc[c] = "waiting"
  /\ Goto(c, "relock")
  /\ UNCHANGED <<queue_, mutex_, item, pushes>>

PopFront(c) ==
  /\ pc[c] = "locked"
  /\ queue_ # <<>>
  /\ item' = [item EXCEPT ![c] = Head(queue_)]
  /\ Goto(c, "front")
  /\ UNCHANGED <<queue_, mutex_, pushes>>

PopRemove(c) ==
  /\ pc[c] = "front"
  /\ queue_' = Tail(queue_)
  /\ Goto(c, "return")
  /\ UNCHANGED <<mutex_, item, pushes>>

\* return item: unique_lock's destructor releases the mutex.
PopReturn(c) ==
  /\ pc[c] = "return"
  /\ mutex_' = Free
  /\ Goto(c, "idle")
  /\ UNCHANGED <<queue_, item, pushes>>

-----------------------------------------------------------------------------
(* size(), as listen_inv uses it: while (size() > 0) pop() *)

SizeLock(c) ==
  /\ pc[c] = "idle"
  /\ c \in Drainers
  /\ Lock(c)
  /\ Goto(c, "size")
  /\ UNCHANGED <<queue_, item, pushes>>

SizeReturn(c) ==
  /\ pc[c] = "size"
  /\ mutex_' = Free
  /\ Goto(c, IF Len(queue_) > 0 THEN "pop" ELSE "idle")
  /\ UNCHANGED <<queue_, item, pushes>>

-----------------------------------------------------------------------------
Push(p) == PushLock(p) \/ PushStore(p) \/ PushUnlock(p) \/ PushNotify(p)

Pop(c) ==
  \/ PopCall(c) \/ PopLock(c) \/ PopWait(c)
  \/ PopFront(c) \/ PopRemove(c) \/ PopReturn(c)
  \/ SizeLock(c) \/ SizeReturn(c)

Next ==
  \/ \E p \in Producers : Push(p)
  \/ \E c \in Consumers : Pop(c) \/ SpuriousWakeup(c)

\* Running threads are scheduled, and a mutex that stays free is acquired by a
\* thread that asks for it.  The consumers' loops call pop() (or size()) again
\* after each element.  Nobody is obliged to call push(), and no wakeup is owed
\* without a notification.
Fairness ==
  /\ \A p \in Producers :
       WF_vars(PushStore(p) \/ PushUnlock(p) \/ PushNotify(p))
  /\ \A c \in Consumers : WF_vars(Pop(c))

Spec == Init /\ [][Next]_vars /\ Fairness

-----------------------------------------------------------------------------
(* Properties *)

\* Every variable keeps its type: the std::queue holds items, the mutex has
\* at most one owner among the threads, and each thread is inside an
\* operation it may call.
TypeOK ==
  /\ queue_ \in Seq(Items)
  /\ mutex_ \in Threads \cup {Free}
  /\ pc \in [Threads -> {"idle", "locked", "stored", "notify", "pop", "relock",
                         "waiting", "front", "return", "size"}]
  /\ \A p \in Producers : pc[p] \in {"idle", "locked", "stored", "notify"}
  /\ \A c \in Consumers : pc[c] \notin {"stored", "notify"}
  /\ item \in [Consumers -> Items \cup {NoItem}]
  /\ pushes \in 0 .. MaxPush

\* push() notifies after unlocking, so there is a window in which the element
\* is visible and nobody was told.  While a thread waits on cond_, every
\* element of the queue is accounted for by a thread that is about to notify
\* or by a consumer that is awake and will look: no wakeup is lost.
NoLostWakeup ==
  Waiting # {} => Len(queue_) <= Cardinality(Notifying) + Cardinality(Awake)

\* listen_inv's "while (new_inv.size() > 0) new_inv.pop()" releases the mutex
\* between size() and pop().  When it is the queue's only consumer the pop()
\* still never blocks: no other thread can have emptied the queue.
SoleDrainerNeverWaits ==
  \A c \in Drainers : Consumers = {c} => pc[c] # "waiting"

\* pop() takes effect when it reads the front: from then on the element is
\* its caller's, although it is removed one step later.
Contents ==
  IF \E c \in Consumers : pc[c] = "front" THEN Tail(queue_) ELSE queue_

Abstract == INSTANCE Fifo WITH items <- Contents

\* The queue is a FIFO: no element is lost, duplicated or overtaken, whatever
\* the interleaving of the threads inside push() and pop(); and while
\* consumers keep calling pop() (or draining), an element does not stay in it
\* for ever.
ImplementsFifo == Abstract!Spec
=============================================================================
