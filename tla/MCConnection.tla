---------------------------- MODULE MCConnection ----------------------------
(***************************************************************************)
(* Connection for TLC: two connections that share two descriptors, so that *)
(* the number one of them closes can come back in the other.               *)
(***************************************************************************)
EXTENDS Connection

CONSTANTS c1, c2

MCNodes == <<c1, c2>>
MCMaxPackets == (c1 :> 1) @@ (c2 :> 0)
=============================================================================
