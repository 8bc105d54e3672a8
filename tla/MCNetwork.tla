----------------------------- MODULE MCNetwork -----------------------------
(* Instances of BlockSync, PeerGossip and BlockParts, the parts that the    *)
(* host's network drives.  They share no variables; one of them is chosen   *)
(* at the start and the others stand still.                                 *)
EXTENDS BlockSync, PeerGossip, BlockParts

VARIABLE what

MCValSetAt == <<"A", "A", "B", "B">>
MCVoteKinds == {<<"prevote", 1>>, <<"precommit", 0>>}

(* The contents are alike, so every block starts with the same. *)
SomeData == CHOOSE d \in Data : TRUE

MCInit ==
  /\ what \in {"sync", "gossip", "parts"}
  /\ Init /\ (what # "sync" => ahead = 0)
  /\ GossipInit /\ (what # "gossip" => peerValSet = 1)
  /\ PartsInit /\ block[1] = SomeData /\ (what # "parts" => Len(block) = 1)

MCNext ==
  \/ what = "sync" /\ Next /\ UNCHANGED <<what, gossip, partVars>>
  \/ what = "gossip" /\ GossipNext /\ UNCHANGED <<what, vars, partVars>>
  \/ what = "parts" /\ PartsNext /\ UNCHANGED <<what, vars, gossip>>

(* Nothing that is fair is enabled before Start. *)
MCSpec == MCInit /\ [][MCNext]_<<what, vars, gossip, partVars>> /\ Fairness
=============================================================================
