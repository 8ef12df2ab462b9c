------------------------------ MODULE MCRelay -------------------------------
(***************************************************************************)
(* Relay for TLC: a seed connection and one that an addr packet adds while *)
(* the client runs.  "pub" is our pubkey, the answer to the getpubkey      *)
(* "get"; "ack" is the ack inside the message "msg".  "msg" and "pub" fall *)
(* into one bucket of the hash table, the others have one each.            *)
(***************************************************************************)
EXTENDS Relay

CONSTANTS n1, n2, pub, get, msg, ack, none

MCObjects == {pub, get, msg, ack}
MCTag == [o \in MCObjects |-> <<"tag", o>>]
MCHashes == {MCTag[o] : o \in MCObjects}
MCBuckets == 0 .. 2
MChash_f == [h \in MCHashes |-> CASE h = MCTag[get] -> 1 [] h = MCTag[ack] -> 2 [] OTHER -> 0]
MCOwn == {pub}
MCReply == [o \in MCObjects |-> IF o = get THEN pub ELSE none]
MCAck == [o \in MCObjects |-> IF o = msg THEN ack ELSE none]
MCPeers == {n1, n2}
MCSeeds == {n1}
=============================================================================
