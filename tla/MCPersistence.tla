--------------------------- MODULE MCPersistence ----------------------------
(***************************************************************************)
(* Persistence for TLC: three runs; an object that expires early and one   *)
(* that does not; two addresses of ours, of which one is another when it   *)
(* is loaded; one of another's.                                            *)
(***************************************************************************)
EXTENDS Persistence, TLC

CONSTANTS early, late, own1, own2, own2b, l1, l2

MCObjects == <<early, late>>
MCTime == (early :> 3) @@ (late :> 9)
MCReloaded == (own1 :> own1) @@ (own2 :> own2b) @@ (own2b :> own2b)
Alike == Permutations(Listeners)
=============================================================================
