--------------------------- MODULE MsgQueue_proofs ---------------------------
(***************************************************************************)
(* Queue<T>, for any threads and any items: its type, mutual exclusion, no *)
(* lost wakeup, a sole drainer that never blocks, and that every step is a *)
(* step of module Fifo or a stutter.                                       *)
(***************************************************************************)
EXTENDS MsgQueue, FiniteSetTheorems, TLAPS

\* The points of push(), pop() and size() at which a thread holds mutex_.
Holding == {"locked", "stored", "front", "return", "size"}

\* mutex_ is held by the thread that is between its lock and its unlock, and
\* there is only one such thread.
Exclusion == \A t \in Threads : pc[t] \in Holding <=> mutex_ = t

\* Between front() and pop() of the std::queue the element it read is in place.
FrontInPlace ==
  \A c \in Consumers : pc[c] = "front" => queue_ # <<>> /\ item[c] = Head(queue_)

\* What holds in every state: the type, and what makes it inductive.
Typing == TypeOK /\ Exclusion /\ FrontInPlace

-----------------------------------------------------------------------------
\* The type is an invariant of the queue for all threads and items: push() and
\* pop() never leave a thread where it must not be, and the std::queue always
\* holds items.  It rests on mutual exclusion: pop() of the std::queue would
\* otherwise meet an empty one.
LEMMA TypingInit == Init => Typing
  BY QueueAssumption DEF Init, Typing, TypeOK, Exclusion, FrontInPlace, Holding, Threads

LEMMA TypingPush ==
  ASSUME Typing, NEW p \in Producers, Push(p)
  PROVE  Typing'
<1> USE QueueAssumption DEF Typing, TypeOK, Exclusion, FrontInPlace, Holding, Threads, Goto, Lock
<1>1. CASE PushLock(p)
  BY <1>1 DEF PushLock
<1>2. CASE PushStore(p)
  BY <1>2 DEF PushStore
<1>3. CASE PushUnlock(p)
  BY <1>3 DEF PushUnlock
<1>4. CASE PushNotify(p)
  BY <1>4 DEF PushNotify, Waiting
<1>5. QED BY <1>1, <1>2, <1>3, <1>4 DEF Push

LEMMA TypingPop ==
  ASSUME Typing, NEW c \in Consumers, Pop(c) \/ SpuriousWakeup(c)
  PROVE  Typing'
<1> USE QueueAssumption DEF Typing, TypeOK, Exclusion, FrontInPlace, Holding, Threads, Goto, Lock
<1>1. CASE PopCall(c)
  BY <1>1 DEF PopCall
<1>2. CASE PopLock(c)
  BY <1>2 DEF PopLock
<1>3. CASE PopWait(c)
  BY <1>3 DEF PopWait
<1>4. CASE PopFront(c)
  BY <1>4 DEF PopFront
<1>5. CASE PopRemove(c)
  BY <1>5 DEF PopRemove
<1>6. CASE PopReturn(c)
  BY <1>6 DEF PopReturn
<1>7. CASE SizeLock(c)
  BY <1>7 DEF SizeLock
<1>8. CASE SizeReturn(c)
  BY <1>8 DEF SizeReturn
<1>9. CASE SpuriousWakeup(c)
  BY <1>9 DEF SpuriousWakeup
<1>10. QED BY <1>1, <1>2, <1>3, <1>4, <1>5, <1>6, <1>7, <1>8, <1>9 DEF Pop

LEMMA TypingStep == Typing /\ [Next]_vars => Typing'
<1> SUFFICES ASSUME Typing, [Next]_vars PROVE Typing'
  OBVIOUS
<1>1. CASE UNCHANGED vars
  BY <1>1 DEF vars, Typing, TypeOK, Exclusion, FrontInPlace
<1>2. CASE Next
  BY <1>2, TypingPush, TypingPop DEF Next
<1>3. QED BY <1>1, <1>2

\* The type, mutual exclusion and the place of the front hold throughout.
THEOREM TypingHolds == Spec => []Typing
  BY TypingInit, TypingStep, PTL DEF Spec

\* TypeOK, for every choice of threads and items.
THEOREM QueueType == Spec => []TypeOK
<1>1. Typing => TypeOK
  BY DEF Typing
<1>2. QED BY <1>1, TypingHolds, PTL

-----------------------------------------------------------------------------
\* The threads are finitely many, and so are those of any description.
LEMMA FiniteCounts ==
  /\ IsFiniteSet(Awake) /\ IsFiniteSet(Notifying)
  /\ Cardinality(Awake) \in Nat /\ Cardinality(Notifying) \in Nat
<1>1. Awake \subseteq Threads /\ Notifying \subseteq Threads
  BY DEF Awake, Notifying, Threads
<1>2. IsFiniteSet(Awake) /\ IsFiniteSet(Notifying)
  BY <1>1, QueueAssumption, FS_Subset
<1>3. QED BY <1>2, FS_CardinalityType

LEMMA WakeupPush ==
  ASSUME Typing, NoLostWakeup, NEW p \in Producers, Push(p)
  PROVE  NoLostWakeup'
<1> USE QueueAssumption DEF Typing, TypeOK, Threads, Goto, Lock
<1>1. CASE PushLock(p)
  <2>1. Waiting' = Waiting /\ Awake' = Awake /\ Notifying' = Notifying /\ queue_' = queue_
    BY <1>1 DEF PushLock, Waiting, Awake, Notifying
  <2>2. QED BY <2>1 DEF NoLostWakeup
<1>2. CASE PushStore(p)
  <2>1. Waiting' = Waiting /\ Awake' = Awake
    BY <1>2 DEF PushStore, Waiting, Awake
  <2>2. p \notin Notifying /\ Notifying' = Notifying \cup {p}
    BY <1>2 DEF PushStore, Notifying
  <2>3. Len(queue_') = Len(queue_) + 1
    BY <1>2 DEF PushStore
  <2>4. Cardinality(Notifying') = Cardinality(Notifying) + 1
    BY <2>2, FiniteCounts, FS_AddElement
  <2>5. QED BY <2>1, <2>3, <2>4, FiniteCounts DEF NoLostWakeup
<1>3. CASE PushUnlock(p)
  <2>1. Waiting' = Waiting /\ Awake' = Awake /\ Notifying' = Notifying /\ queue_' = queue_
    BY <1>3 DEF PushUnlock, Waiting, Awake, Notifying
  <2>2. QED BY <2>1 DEF NoLostWakeup
<1>4. CASE PushNotify(p)
  <2>1. CASE Waiting = {} /\ Goto(p, "idle")
    <3>1. Waiting' = {}
      BY <2>1, <1>4 DEF Waiting
    <3>2. QED BY <3>1 DEF NoLostWakeup
  <2>2. CASE \E c \in Waiting : pc' = [pc EXCEPT ![p] = "idle", ![c] = "relock"]
    <3>1. PICK c \in Waiting : pc' = [pc EXCEPT ![p] = "idle", ![c] = "relock"]
      BY <2>2
    <3>2. p \in Notifying /\ Notifying' = Notifying \ {p}
      BY <3>1, <1>4 DEF PushNotify, Notifying, Waiting
    <3>3. c \notin Awake /\ Awake' = Awake \cup {c}
      BY <3>1, <1>4 DEF Awake, Waiting
    <3>4. Cardinality(Notifying') = Cardinality(Notifying) - 1
      BY <3>2, FiniteCounts, FS_RemoveElement
    <3>5. Cardinality(Awake') = Cardinality(Awake) + 1
      BY <3>3, FiniteCounts, FS_AddElement
    <3>6. queue_' = queue_
      BY <1>4 DEF PushNotify
    <3>7. Waiting # {}
      BY <3>1
    <3>8. QED BY <3>4, <3>5, <3>6, <3>7, FiniteCounts DEF NoLostWakeup
  <2>3. QED BY <1>4, <2>1, <2>2 DEF PushNotify
<1>5. QED BY <1>1, <1>2, <1>3, <1>4 DEF Push

\* A consumer's step never lowers the right-hand side by more than the left:
\* only PopRemove takes a thread out of Awake, with the element it read.
LEMMA WakeupPop ==
  ASSUME Typing, NoLostWakeup, NEW c \in Consumers, Pop(c) \/ SpuriousWakeup(c)
  PROVE  NoLostWakeup'
<1> USE QueueAssumption DEF Typing, TypeOK, Threads, Goto, Lock
<1>1. Notifying' = Notifying
  BY DEF Notifying, Pop, PopCall, PopLock, PopWait, PopFront, PopRemove, PopReturn,
         SizeLock, SizeReturn, SpuriousWakeup
<1>2. ASSUME Awake' = Awake \/ Awake' = Awake \cup {c}
      PROVE  Cardinality(Awake') \in Nat /\ Cardinality(Awake) <= Cardinality(Awake')
  <2>1. Cardinality(Awake \cup {c}) \in {Cardinality(Awake), Cardinality(Awake) + 1}
    BY FiniteCounts, FS_AddElement
  <2>2. Cardinality(Awake') \in {Cardinality(Awake), Cardinality(Awake) + 1}
    BY <1>2, <2>1
  <2>3. QED BY <2>2, FiniteCounts
<1>3. CASE \/ PopCall(c) \/ PopLock(c) \/ PopFront(c) \/ PopReturn(c)
           \/ SizeLock(c) \/ SizeReturn(c) \/ SpuriousWakeup(c)
  <2>1. Waiting' \subseteq Waiting /\ queue_' = queue_
    BY <1>3 DEF Waiting, PopCall, PopLock, PopFront, PopReturn, SizeLock, SizeReturn,
                SpuriousWakeup
  <2>2. Awake' = Awake \/ Awake' = Awake \cup {c}
    BY <1>3 DEF Awake, PopCall, PopLock, PopFront, PopReturn, SizeLock, SizeReturn,
                SpuriousWakeup
  <2>3. QED BY <1>1, <1>2, <2>1, <2>2, FiniteCounts DEF NoLostWakeup
<1>4. CASE PopWait(c)
  <2>1. Len(queue_') = 0
    BY <1>4 DEF PopWait
  <2>2. Awake' = Awake \ {c}
    BY <1>4 DEF PopWait, Awake
  <2>3. Cardinality(Awake') \in Nat
    BY <2>2, FiniteCounts, FS_RemoveElement, FS_CardinalityType
  <2>4. QED BY <1>1, <2>1, <2>3, FiniteCounts DEF NoLostWakeup
<1>5. CASE PopRemove(c)
  <2>1. c \in Awake /\ Awake' = Awake \ {c}
    BY <1>5 DEF PopRemove, Awake
  <2>2. Cardinality(Awake') = Cardinality(Awake) - 1
    BY <2>1, FiniteCounts, FS_RemoveElement
  <2>3. Len(queue_') = Len(queue_) - 1
    BY <1>5 DEF PopRemove, FrontInPlace
  <2>4. Waiting' = Waiting
    BY <1>5 DEF PopRemove, Waiting
  <2>5. QED BY <1>1, <2>2, <2>3, <2>4, FiniteCounts DEF NoLostWakeup
<1>6. QED BY <1>3, <1>4, <1>5 DEF Pop

\* push() notifies after it has unlocked, and still no wakeup is lost, for any
\* number of threads on either side: while a consumer waits, every element in
\* the queue has a thread of its own that is about to notify or to look.
THEOREM QueueNoLostWakeup == Spec => []NoLostWakeup
<1>1. Init => NoLostWakeup
  BY QueueAssumption DEF Init, NoLostWakeup, Waiting, Threads
<1>2. ASSUME Typing, NoLostWakeup, [Next]_vars PROVE NoLostWakeup'
  <2>1. CASE UNCHANGED vars
    BY <1>2, <2>1 DEF vars, NoLostWakeup, Waiting, Awake, Notifying
  <2>2. CASE Next
    BY <1>2, <2>2, WakeupPush, WakeupPop DEF Next
  <2>3. QED BY <1>2, <2>1, <2>2
<1>3. QED BY <1>1, <1>2, TypingHolds, PTL DEF Spec

-----------------------------------------------------------------------------
\* A sole drainer that has seen size() > 0 finds an element when it gets to
\* look, since nobody else takes one.
DrainerSees ==
  \A c \in Drainers : Consumers = {c} =>
    /\ pc[c] \notin {"waiting", "relock"}
    /\ pc[c] \in {"pop", "locked"} => queue_ # <<>>

LEMMA DrainerStep ==
  ASSUME Typing, DrainerSees, [Next]_vars
  PROVE  DrainerSees'
<1> USE QueueAssumption DEF Typing, TypeOK, DrainerSees, Threads, Goto, Lock
<1>1. CASE UNCHANGED vars
  BY <1>1 DEF vars
<1>2. ASSUME NEW p \in Producers, Push(p) PROVE DrainerSees'
  <2>1. \A c \in Drainers : Consumers = {c} => pc'[c] = pc[c]
    BY <1>2 DEF Push, PushLock, PushStore, PushUnlock, PushNotify, Waiting
  <2>2. queue_ # <<>> => queue_' # <<>>
    BY <1>2 DEF Push, PushLock, PushStore, PushUnlock, PushNotify
  <2>3. QED BY <2>1, <2>2
<1>3. ASSUME NEW c \in Consumers, Pop(c) \/ SpuriousWakeup(c) PROVE DrainerSees'
  <2> SUFFICES ASSUME NEW d \in Drainers, Consumers = {d}
               PROVE  /\ pc'[d] \notin {"waiting", "relock"}
                      /\ pc'[d] \in {"pop", "locked"} => queue_' # <<>>
    OBVIOUS
  <2>1. c = d
    OBVIOUS
  <2>2. ASSUME PopLock(c) \/ SizeLock(c) \/ SizeReturn(c)
        PROVE  /\ pc'[d] \notin {"waiting", "relock"}
               /\ pc'[d] \in {"pop", "locked"} => queue_' # <<>>
    BY <2>1, <2>2 DEF PopLock, SizeLock, SizeReturn
  <2>3. ASSUME PopFront(c) \/ PopRemove(c) \/ PopReturn(c)
        PROVE  pc'[d] \notin {"waiting", "relock", "pop", "locked"}
    BY <2>1, <2>3 DEF PopFront, PopRemove, PopReturn
  <2>4. ~PopCall(c) /\ ~PopWait(c) /\ ~SpuriousWakeup(c)
    BY <2>1 DEF PopCall, PopWait, SpuriousWakeup
  <2>5. QED BY <1>3, <2>2, <2>3, <2>4 DEF Pop
<1>4. QED BY <1>1, <1>2, <1>3 DEF Next

\* listen_inv alone drains new_inv, so that its pop() after size() > 0 never
\* blocks, whatever the other threads push meanwhile.
THEOREM QueueSoleDrainer == Spec => []SoleDrainerNeverWaits
<1>1. Init => DrainerSees
  BY QueueAssumption DEF Init, DrainerSees, Threads
<1>2. Typing /\ DrainerSees /\ [Next]_vars => DrainerSees'
  BY DrainerStep
<1>3. DrainerSees => SoleDrainerNeverWaits
  BY DEF DrainerSees, SoleDrainerNeverWaits
<1>4. QED BY <1>1, <1>2, <1>3, TypingHolds, PTL DEF Spec

-----------------------------------------------------------------------------
\* Contents, once it is known whether a consumer is between front() and pop().
LEMMA ContentsFront ==
  ASSUME NEW c \in Consumers, pc[c] = "front" PROVE Contents = Tail(queue_)
  BY DEF Contents

LEMMA FifoPush ==
  ASSUME Typing, NEW p \in Producers, Push(p)
  PROVE  (\E v \in Items : Abstract!Put(v)) \/ UNCHANGED <<Contents, item>>
<1> USE QueueAssumption DEF Typing, TypeOK, Threads, Goto, Lock
<1>1. \A c \in Consumers : pc'[c] = "front" <=> pc[c] = "front"
  BY DEF Push, PushLock, PushStore, PushUnlock, PushNotify, Waiting
<1>2. item' = item
  BY DEF Push, PushLock, PushStore, PushUnlock, PushNotify
<1>3. CASE PushStore(p)
  <2>1. PICK v \in Items : queue_' = Append(queue_, v)
    BY <1>3 DEF PushStore
  <2>2. \A c \in Consumers : pc[c] # "front"
    BY <1>3 DEF PushStore, Exclusion, Holding
  <2>3. Contents = queue_ /\ Contents' = queue_'
    BY <1>1, <2>2 DEF Contents
  <2>4. QED BY <1>2, <2>1, <2>3 DEF Abstract!Put
<1>4. CASE PushLock(p) \/ PushUnlock(p) \/ PushNotify(p)
  <2>1. queue_' = queue_
    BY <1>4 DEF PushLock, PushUnlock, PushNotify
  <2>2. QED BY <1>1, <1>2, <2>1 DEF Contents
<1>5. QED BY <1>3, <1>4 DEF Push

LEMMA FifoPop ==
  ASSUME Typing, NEW c \in Consumers, Pop(c) \/ SpuriousWakeup(c)
  PROVE  Abstract!Get(c) \/ UNCHANGED <<Contents, item>>
<1> USE QueueAssumption DEF Typing, TypeOK, Threads, Goto, Lock
<1>1. CASE PopFront(c)
  <2>1. \A d \in Consumers : pc[d] # "front"
    BY <1>1 DEF PopFront, Exclusion, Holding
  <2>2. Contents = queue_
    BY <2>1 DEF Contents
  <2>3. pc'[c] = "front" /\ queue_' = queue_
    BY <1>1 DEF PopFront
  <2>4. Contents' = Tail(queue_)
    BY <2>3 DEF Contents
  <2>5. QED BY <1>1, <2>2, <2>4 DEF PopFront, Abstract!Get
<1>2. CASE PopRemove(c)
  <2>1. Contents = Tail(queue_)
    BY <1>2, ContentsFront DEF PopRemove
  <2>2. \A d \in Consumers : pc'[d] # "front"
    BY <1>2 DEF PopRemove, Exclusion, Holding
  <2>3. Contents' = queue_'
    BY <2>2 DEF Contents
  <2>4. QED BY <1>2, <2>1, <2>3 DEF PopRemove
<1>3. CASE \/ PopCall(c) \/ PopLock(c) \/ PopWait(c) \/ PopReturn(c)
           \/ SizeLock(c) \/ SizeReturn(c) \/ SpuriousWakeup(c)
  <2>1. \A d \in Consumers : pc'[d] = "front" <=> pc[d] = "front"
    BY <1>3 DEF PopCall, PopLock, PopWait, PopReturn, SizeLock, SizeReturn, SpuriousWakeup
  <2>2. queue_' = queue_ /\ item' = item
    BY <1>3 DEF PopCall, PopLock, PopWait, PopReturn, SizeLock, SizeReturn, SpuriousWakeup
  <2>3. QED BY <2>1, <2>2 DEF Contents
<1>4. QED BY <1>1, <1>2, <1>3 DEF Pop

\* Queue<T> is a first-in, first-out queue: push() takes effect when it stores
\* the element, pop() when it reads the front, and every other step inside
\* them changes nothing a caller could see.  (The fairness part of
\* ImplementsFifo is left to TLC.)
THEOREM QueueStepsAreFifoSteps ==
  Spec => Abstract!Init /\ [][Abstract!Next]_(Abstract!fifoVars)
<1>1. Init => Abstract!Init
  BY QueueAssumption DEF Init, Abstract!Init, Contents, Threads
<1>2. ASSUME Typing, [Next]_vars
      PROVE  [Abstract!Next]_(Abstract!fifoVars)
  <2>1. CASE UNCHANGED vars
    BY <2>1 DEF vars, Contents, Abstract!fifoVars
  <2>2. CASE Next
    BY <1>2, <2>2, FifoPush, FifoPop DEF Next, Abstract!Next, Abstract!fifoVars
  <2>3. QED BY <1>2, <2>1, <2>2
<1>3. QED BY <1>1, <1>2, TypingHolds, PTL DEF Spec
=============================================================================
