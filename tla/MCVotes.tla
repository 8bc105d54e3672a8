------------------------------ MODULE MCVotes ------------------------------
(* VoteHandling on a small instance. *)
EXTENDS VoteHandling

(* Validator 2 gains power, with a new key, and leaves. *)
MCValSets == <<(1 :> 3 @@ 2 :> 1), (1 :> 1 @@ 2 :> 3), (1 :> 1)>>
MCPubKeys == <<(1 :> 1 @@ 2 :> 1), (1 :> 1 @@ 2 :> 2), (1 :> 1)>>
=============================================================================
