-------------------------------- MODULE Fifo --------------------------------
(***************************************************************************)
(* What include/utils.h promises of Queue<T>: one unbounded first-in,      *)
(* first-out sequence that any thread may append to and any thread may     *)
(* take from.  MsgQueue (the mutex and the condition variable) implements  *)
(* it; Relay uses this view of a queue, one atomic step per push or pop.   *)
(***************************************************************************)
EXTENDS Naturals, Sequences

CONSTANTS
  Items,      \* what the queue carries (Packet, sTag, object, message)
  Consumers,  \* threads that call pop()
  NoItem      \* what a consumer holds before its first pop()

VARIABLES
  items,      \* the elements pushed and not yet popped, oldest first
  item        \* item[c]: what c's last pop() returned

fifoVars == <<items, item>>

Init ==
  /\ items = <<>>
  /\ item = [c \in Consumers |-> NoItem]

\* push(v): v goes behind everything pushed before it.
Put(v) ==
  /\ items' = Append(items, v)
  /\ UNCHANGED item

\* pop() in c: the oldest element leaves the queue and is returned to c.
Get(c) ==
  /\ items # <<>>
  /\ item' = [item EXCEPT ![c] = Head(items)]
  /\ items' = Tail(items)

Next ==
  \/ \E v \in Items : Put(v)
  \/ \E c \in Consumers : Get(c)

\* Consumers that keep calling pop() are served: the queue does not stay
\* nonempty forever without an element leaving it.
Spec == Init /\ [][Next]_fifoVars /\ WF_fifoVars(\E c \in Consumers : Get(c))
=============================================================================
