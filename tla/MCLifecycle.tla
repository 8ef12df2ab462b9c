---------------------------- MODULE MCLifecycle -----------------------------
(***************************************************************************)
(* Lifecycle for TLC: a seed, a node that the user or an addr packet can   *)
(* add, one object of the network and one of ours.                         *)
(***************************************************************************)
EXTENDS Lifecycle

CONSTANTS n1, n2, o1, own1

MCPeers == {n1, n2}
MCSeeds == {n1}
MCObjects == {o1}
MCOwn == {own1}
=============================================================================
