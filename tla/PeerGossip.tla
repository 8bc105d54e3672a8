----------------------------- MODULE PeerGossip -----------------------------
(* Peers that go through heights and rounds, and the PeerSet in which a     *)
(* node keeps what they report.  Reports come late, twice and out of order. *)
EXTENDS PeerState

CONSTANTS
  MaxPeerHeight, MaxPeerRound,  \* bounds on what the peers reach
  Steps,      \* the steps before RoundStepCommit that they report
  MaxValSet,  \* the size of the largest validator set
  VoteKinds   \* the votes of a round that are looked at: <<type, index>>

ASSUME GossipAssumption ==
  /\ MaxPeerHeight \in Nat /\ MaxPeerRound \in Nat /\ MaxValSet \in Nat
  /\ Steps \subseteq Nat
  /\ VoteKinds \subseteq {"prevote", "precommit"} \X Nat

VARIABLES
  real,        \* real[p]: where p is, and what it has of its current round
  view,        \* PeerSet.peers
  peerValSet,  \* PeerSet.valSet
  marking      \* MarkPeerCatchingUp between Height and SetCatchingUp: <<p, flag>>

gossip == <<real, view, peerValSet, marking>>

PeerVotes == {[height |-> h, round |-> r, type |-> k[1], index |-> k[2]] :
            h \in 1 .. MaxPeerHeight, r \in 0 .. MaxPeerRound, k \in VoteKinds}

(* The host's peer, as its reports describe it. *)
Fresh(h, r) == [height |-> h, round |-> r, step |-> RoundStepNewHeight, proposal |-> FALSE,
                votes |-> {}]

GossipInit ==
  /\ real = [p \in Peers |-> Fresh(1, 0)]
  /\ view = [p \in {} |-> NewPeerState(MaxValSet)]
  /\ peerValSet \in 1 .. MaxValSet
  /\ marking = <<>>

-----------------------------------------------------------------------------
(* The peers.  What they have of a round only grows. *)

PeerSteps(p) ==
  /\ \E s \in Steps \cup {RoundStepCommit} :
       s > real[p].step /\ real' = [real EXCEPT ![p].step = s]
  /\ UNCHANGED <<view, peerValSet, marking>>

PeerGets(p) ==
  /\ \/ real' = [real EXCEPT ![p].proposal = TRUE]
     \/ \E k \in VoteKinds : real' = [real EXCEPT ![p].votes = @ \cup {k}]
  /\ UNCHANGED <<view, peerValSet, marking>>

PeerMovesOn(p) ==
  /\ \/ real[p].round < MaxPeerRound /\ real[p].step # RoundStepCommit
        /\ real' = [real EXCEPT ![p] = Fresh(@.height, @.round + 1)]
     \/ real[p].height < MaxPeerHeight /\ real[p].step = RoundStepCommit
        /\ real' = [real EXCEPT ![p] = Fresh(@.height + 1, 0)]
  /\ UNCHANGED <<view, peerValSet, marking>>

(* A peer that lost its memory comes back on a new connection. *)
PeerRestarts(p) ==
  /\ p \notin DOMAIN view /\ real[p] # Fresh(real[p].height, 0)
  /\ real' = [real EXCEPT ![p] = Fresh(@.height, 0)]
  /\ UNCHANGED <<view, peerValSet, marking>>

-----------------------------------------------------------------------------
(* The node.  A report is about a round that the peer has left, or true of *)
(* the one it is in.                                                       *)

Past(p, h, r) == h < real[p].height \/ (h = real[p].height /\ r < real[p].round)
Present(p, h, r) == h = real[p].height /\ r = real[p].round

Learn(p, ps) ==
  /\ view' = [view EXCEPT ![p] = ps]
  /\ UNCHANGED <<real, peerValSet, marking>>

HearStep(p) ==
  \E h \in 1 .. MaxPeerHeight, r \in 0 .. MaxPeerRound,
     s \in Steps \cup {RoundStepNewHeight, RoundStepCommit} :
    /\ Past(p, h, r) \/ (Present(p, h, r) /\ s <= real[p].step)
    /\ Learn(p, ApplyNewRoundStep(view[p], h, r, s))

HearCommit(p) ==
  \E h \in 1 .. MaxPeerHeight, r \in 0 .. MaxPeerRound :
    /\ h < real[p].height \/ (Present(p, h, r) /\ real[p].step = RoundStepCommit)
    /\ Learn(p, ApplyCommit(view[p], h, r))

HearProposal(p) ==
  \E h \in 1 .. MaxPeerHeight, r \in 0 .. MaxPeerRound :
    /\ Past(p, h, r) \/ (Present(p, h, r) /\ real[p].proposal)
    /\ Learn(p, SetHasProposal(view[p], h, r))

HearVote(p) ==
  \E v \in PeerVotes :
    /\ \/ Past(p, v.height, v.round)
       \/ Present(p, v.height, v.round) /\ <<v.type, v.index>> \in real[p].votes
    /\ Learn(p, SetHasVote(view[p], v))

Connect(p) ==
  /\ p \notin DOMAIN view /\ marking = <<>>
  /\ view' = AddPeer(view, p, peerValSet)
  /\ UNCHANGED <<real, peerValSet, marking>>

Disconnect(p) ==
  /\ marking = <<>>
  /\ view' = RemovePeer(view, p)
  /\ UNCHANGED <<real, peerValSet, marking>>

(* PeerSet.MarkPeerCatchingUp holds the lock of the set, so nobody joins or *)
(* leaves, but takes the lock of the peer twice.                            *)
MarkReads(p) ==
  /\ marking = <<>>
  /\ \E ourHeight \in 1 .. MaxPeerHeight + 1 : marking' = <<p, view[p].height < ourHeight>>
  /\ UNCHANGED <<real, view, peerValSet>>
MarkSets ==
  /\ marking # <<>>
  /\ view' = [view EXCEPT ![marking[1]] = SetCatchingUp(@, marking[2])]
  /\ marking' = <<>>
  /\ UNCHANGED <<real, peerValSet>>

ChangeValidators ==
  /\ marking = <<>>
  /\ peerValSet' \in (1 .. MaxValSet) \ {peerValSet}
  /\ view' = UpdateValidatorSet(view, peerValSet')
  /\ UNCHANGED <<real, marking>>

GossipNext ==
  \/ \E p \in Peers : PeerSteps(p) \/ PeerGets(p) \/ PeerMovesOn(p) \/ PeerRestarts(p) \/ Connect(p)
  \/ \E p \in DOMAIN view :
       \/ HearStep(p) \/ HearCommit(p) \/ HearProposal(p) \/ HearVote(p)
       \/ Disconnect(p) \/ MarkReads(p)
  \/ MarkSets
  \/ ChangeValidators

GossipSpec == GossipInit /\ [][GossipNext]_gossip

-----------------------------------------------------------------------------
(* A vote or proposal is withheld from a peer only if the peer has it: in  *)
(* the round the peer is in, NeedsVote and NeedsProposal are false only    *)
(* for what it has.  And a vote of a current validator that the peer       *)
(* reports is not offered again, as the bitmaps have room for it.  Both    *)
(* although reports are reordered, peers reconnect and the validator set   *)
(* changes in between.                                                     *)
OffersAreRight ==
  \A p \in DOMAIN view : LET h == real[p].height  r == real[p].round IN
    view[p].height = h /\ view[p].round = r =>
      /\ ~NeedsProposal(view[p], h, r) => real[p].proposal
      /\ \A v \in PeerVotes : v.height = h /\ v.round = r =>
           /\ ~NeedsVote(view[p], v) => <<v.type, v.index>> \in real[p].votes
           /\ v.index < peerValSet => ~NeedsVote(SetHasVote(view[p], v), v)

(* The view of a peer is never ahead of the peer: BlockSyncer takes its    *)
(* target from these heights.                                              *)
ViewIsBehind ==
  \A p \in DOMAIN view :
    \/ view[p].height < real[p].height
    \/ /\ view[p].height = real[p].height
       /\ view[p].round < real[p].round
            \/ (view[p].round = real[p].round /\ view[p].step <= real[p].step)
=============================================================================
