----------------------------- MODULE MCMsgQueue -----------------------------
(***************************************************************************)
(* MsgQueue for TLC: two producers, one consumer that pops (listen_packets, *)
(* Sender, processPOW) and one that drains (listen_inv), so that all shapes *)
(* of contention at the mutex and the condition variable occur.            *)
(***************************************************************************)
EXTENDS MsgQueue

CONSTANTS p1, p2, c1, c2, v1, v2

MCProducers == {p1, p2}
MCConsumers == {c1, c2}
MCDrainers == {c2}
MCItems == {v1, v2}
=============================================================================
