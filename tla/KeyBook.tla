------------------------------ MODULE KeyBook -------------------------------
(***************************************************************************)
(* What the address book promises: an address is not known, wanted (the    *)
(* client waits for its public keys) or ready (it has them).  It gets into *)
(* the book once, and an address that is ready stays ready, whatever the   *)
(* threads that add addresses and analyse pubkeys and messages do.         *)
(***************************************************************************)
CONSTANT Addresses

VARIABLE book

States == {"absent", "wanted", "ready"}

Init == book \in [Addresses -> States]

\* A user asks for an address, or a message shows its sender's keys.
Enter(a, s) == book[a] = "absent" /\ s # "absent" /\ book' = [book EXCEPT ![a] = s]

\* The keys of some of the wanted addresses arrive.
Learn(a) == book[a] = "wanted" /\ book' = [book EXCEPT ![a] = "ready"]

Next == \E a \in Addresses : Learn(a) \/ \E s \in States : Enter(a, s)

Spec == Init /\ [][Next]_book
=============================================================================
