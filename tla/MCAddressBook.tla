--------------------------- MODULE MCAddressBook ----------------------------
(***************************************************************************)
(* AddressBook for TLC: two Listeners; address B, loaded without its keys  *)
(* into a vector that is then full, and address A in two spellings.  B is  *)
(* of version 3, which getPubKey compares by the ripe, A of version 4.     *)
(***************************************************************************)
EXTENDS AddressBook, TLC

CONSTANTS l1, l2, longA, shortA, longB, tagA, tagB, ripeA, ripeB

MCTag == (longA :> tagA) @@ (shortA :> tagA) @@ (longB :> tagB)
MCRipe == (longA :> ripeA) @@ (shortA :> ripeA) @@ (longB :> ripeB)
MCVersion == (longA :> 4) @@ (shortA :> 4) @@ (longB :> 3)
MCLoaded == <<[address |-> longB, key |-> NoKey]>>

Object(id, type, who, from, fine, ack) ==
  [id |-> id, type |-> type, who |-> who, from |-> from, fine |-> fine, ack |-> ack]

\* Two pubkeys of A, of which one cannot be decoded, one of B, and one for A with
\* B's keys; a message from A, one as sendMessage writes it (in the same bucket),
\* and a broadcast encrypted with A and signed by B.
MCObjects ==
  {Object(1, "pubkey", longA, longA, TRUE, FALSE), Object(2, "pubkey", longA, longA, FALSE, FALSE),
   Object(3, "pubkey", longB, longB, TRUE, FALSE), Object(4, "msg", longA, longA, TRUE, TRUE),
   Object(5, "msg", longA, longA, TRUE, FALSE), Object(6, "broadcast", longA, longB, TRUE, FALSE),
   Object(7, "pubkey", longA, longB, TRUE, FALSE)}
MCHashes == 1 .. 7
MCBuckets == 0 .. 3
MCHash_f == [h \in MCHashes |-> CASE h \in 5 .. 6 -> 3 [] h = 7 -> 1 [] OTHER -> h - 1]
=============================================================================
