---------------------------- MODULE MCConsensus ----------------------------
(* Instances of ConsensusState: validators are 1 .. N, as many as Power is *)
(* long, and the proposers are those that module ValidatorSet computes.    *)
EXTENDS ConsensusState, TLC

CONSTANTS Power, MaxPower

MCValidators == DOMAIN Power
VS == INSTANCE ValidatorSet WITH MaxTotalVotingPower <- MaxPower

(* The name of its own, and @@, make TLC compute the table once. *)
ProposerTable ==
  [x \in Heights \X Rounds |->
     LET sets[h \in 1 .. x[1]] ==
           IF h = 1 THEN VS!Genesis(Power) ELSE VS!WithIncrementedPriority(sets[h - 1], 1)
     IN  VS!GetProposerForRound(sets[x[1]], x[2])] @@ <<>>

MCProposer == ProposerTable
FirstFails == {<<1, 0>>}
Power11 == <<1, 1>>
Power211 == <<2, 1, 1>>

(* Some behaviours of Spec, small enough to reach round 2: the network     *)
(* loses what validator 2 sends, except its prevotes to 1, and the first   *)
(* proposal to 3.  All validators are correct.                             *)
Lost(n, v) == v.v = 2 /\ ~(n = 1 /\ v.t = "prevote")
CutNext ==
  \E n \in Correct :
    \/ Start(n)
    \/ \E p \in proposals : ~(n = 3 /\ p.r = 0) /\ ReceiveProposal(n, p)
    \/ \E v \in votes : ~Lost(n, v) /\ ~(n = 2 /\ v.v = 3) /\ ReceiveVote(n, v)
    \/ TimerFires(n)
CutSpec == Init /\ [][CutNext]_vars
=============================================================================
