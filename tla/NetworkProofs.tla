--------------------------- MODULE NetworkProofs ---------------------------
(* What holds of the parts that the host's network drives, BlockSync,       *)
(* PeerGossip and BlockParts, for every number of heights, peers, requests, *)
(* stops, rounds, validators and parts.                                     *)
EXTENDS BlockSync, PeerGossip, BlockParts, SumProofs

-----------------------------------------------------------------------------
(* PeerGossip. *)

RealPeer ==
  [height : Nat \ {0}, round : Nat, step : Nat, proposal : BOOLEAN, votes : SUBSET VoteKinds]

KnownPeer ==
  [height : Nat, round : Nat, step : Nat, proposal : BOOLEAN, prevotes : SUBSET Nat,
   precommits : SUBSET Nat, numVals : Nat, lastCommitRound : Nat, catchingUp : BOOLEAN,
   valSet : Nat]

(* The peer q is no earlier than what is known of it, ps. *)
Behind(q, ps) ==
  \/ ps.height < q.height
  \/ /\ ps.height = q.height
     /\ ps.round < q.round \/ (ps.round = q.round /\ ps.step <= q.step)

(* What ps says of the round that q is in is true. *)
Truthful(q, ps) ==
  ps.height = q.height /\ ps.round = q.round =>
    /\ ps.proposal => q.proposal
    /\ \A i \in ps.prevotes : <<"prevote", i>> \in q.votes
    /\ \A i \in ps.precommits : <<"precommit", i>> \in q.votes

Known(q, ps, n) ==
  ps \in KnownPeer /\ ps.numVals = n /\ ps.valSet = n /\ Behind(q, ps) /\ Truthful(q, ps)

GInv ==
  /\ real \in [Peers -> RealPeer]
  /\ peerValSet \in Nat
  /\ DOMAIN view \subseteq Peers
  /\ view = [p \in DOMAIN view |-> view[p]]
  /\ marking # <<>> => marking \in (DOMAIN view) \X BOOLEAN
  /\ \A p \in DOMAIN view : Known(real[p], view[p], peerValSet)

-----------------------------------------------------------------------------
(* The methods of PeerState. *)

(* ApplyNewRoundStep of a true or an old report. *)
LEMMA NewRoundStepIsTrue ==
  ASSUME NEW q \in RealPeer, NEW n \in Nat, NEW ps, Known(q, ps, n),
         NEW h \in Nat, NEW r \in Nat, NEW s \in Nat,
         \/ h < q.height \/ (h = q.height /\ r < q.round)
         \/ h = q.height /\ r = q.round /\ s <= q.step
  PROVE  Known(q, ApplyNewRoundStep(ps, h, r, s), n)
<1> DEFINE new == ApplyNewRoundStep(ps, h, r, s)
<1>1. CASE h > ps.height
  BY <1>1 DEF Known, KnownPeer, RealPeer, Behind, Truthful, ApplyNewRoundStep, NewPeerState
<1>2. CASE h = ps.height /\ r > ps.round
  BY <1>2 DEF Known, KnownPeer, RealPeer, Behind, Truthful, ApplyNewRoundStep
<1>3. CASE h = ps.height /\ r = ps.round /\ s > ps.step
  BY <1>3 DEF Known, KnownPeer, RealPeer, Behind, Truthful, ApplyNewRoundStep
<1>4. CASE new = ps
  BY <1>4
<1>5. QED
  BY <1>1, <1>2, <1>3, <1>4 DEF Known, KnownPeer, ApplyNewRoundStep

(* ApplyCommit of a commit of the peer's height, or of one that it left. *)
LEMMA CommitIsTrue ==
  ASSUME NEW q \in RealPeer, NEW n \in Nat, NEW ps, Known(q, ps, n), NEW h \in Nat, NEW r \in Nat,
         h < q.height \/ (h = q.height /\ r = q.round /\ q.step = RoundStepCommit)
  PROVE  Known(q, ApplyCommit(ps, h, r), n)
<1>1. CASE h # ps.height
  BY <1>1 DEF ApplyCommit
<1>2. CASE h = ps.height
  <2> DEFINE new == [ps EXCEPT !.lastCommitRound = r, !.step = RoundStepCommit]
  <2>1. ApplyCommit(ps, h, r) = new
    BY <1>2 DEF ApplyCommit
  <2>2. new \in KnownPeer /\ new.numVals = n /\ new.valSet = n
    BY DEF Known, KnownPeer, RoundStepCommit
  <2>3. Behind(q, new)
    BY <1>2 DEF Known, KnownPeer, RealPeer, Behind, RoundStepCommit
  <2>4. Truthful(q, new)
    BY DEF Known, KnownPeer, Truthful
  <2>5. QED
    BY <2>1, <2>2, <2>3, <2>4 DEF Known
<1>3. QED
  BY <1>1, <1>2

(* SetHasProposal of a proposal that the peer has, or of an old one. *)
LEMMA ProposalIsTrue ==
  ASSUME NEW q \in RealPeer, NEW n \in Nat, NEW ps, Known(q, ps, n), NEW h \in Nat, NEW r \in Nat,
         h = q.height /\ r = q.round => q.proposal
  PROVE  Known(q, SetHasProposal(ps, h, r), n)
BY DEF Known, KnownPeer, RealPeer, Behind, Truthful, SetHasProposal

(* SetHasVote of a vote that the peer has, or of an old one. *)
LEMMA VoteIsTrue ==
  ASSUME NEW q \in RealPeer, NEW n \in Nat, NEW ps, Known(q, ps, n),
         NEW v \in [height : Nat, round : Nat, type : {"prevote", "precommit"}, index : Nat],
         v.height = q.height /\ v.round = q.round => <<v.type, v.index>> \in q.votes
  PROVE  Known(q, SetHasVote(ps, v), n)
<1>1. CASE v.height = ps.height /\ v.round = ps.round /\ v.type = "prevote" /\ v.index < n
  BY <1>1 DEF Known, KnownPeer, RealPeer, Behind, Truthful, SetHasVote, Set
<1>2. CASE v.height = ps.height /\ v.round = ps.round /\ v.type = "precommit" /\ v.index < n
  BY <1>2 DEF Known, KnownPeer, RealPeer, Behind, Truthful, SetHasVote, Set
<1>3. CASE ~(v.height = ps.height /\ v.round = ps.round)
  BY <1>3 DEF SetHasVote
<1>4. CASE v.height = ps.height /\ v.round = ps.round /\ v.index >= n
  BY <1>4 DEF Known, KnownPeer, RealPeer, Behind, Truthful, SetHasVote, Set
<1>5. QED
  BY <1>1, <1>2, <1>3, <1>4

(* NewPeerState, UpdateValidatorSet and SetCatchingUp claim nothing. *)
LEMMA NewPeerIsTrue ==
  ASSUME NEW q \in RealPeer, NEW n \in Nat
  PROVE  Known(q, NewPeerState(n), n)
BY DEF Known, KnownPeer, RealPeer, Behind, Truthful, NewPeerState, RoundStepNewHeight

LEMMA UpdateIsTrue ==
  ASSUME NEW q \in RealPeer, NEW n \in Nat, NEW k \in Nat, NEW ps, Known(q, ps, n)
  PROVE  Known(q, UpdatePeerValidatorSet(ps, k), k)
BY DEF Known, KnownPeer, RealPeer, Behind, Truthful, UpdatePeerValidatorSet

LEMMA FlagIsTrue ==
  ASSUME NEW q \in RealPeer, NEW n \in Nat, NEW ps, Known(q, ps, n), NEW c \in BOOLEAN
  PROVE  Known(q, SetCatchingUp(ps, c), n)
BY DEF Known, KnownPeer, RealPeer, Behind, Truthful, SetCatchingUp

-----------------------------------------------------------------------------
(* A peer that goes on in its round, or to a later one, leaves what is     *)
(* known of it true.                                                       *)
LEMMA PeerGoesOn ==
  ASSUME GInv, NEW p \in Peers, NEW q \in RealPeer, real' = [real EXCEPT ![p] = q],
         UNCHANGED <<view, peerValSet, marking>>,
         \/ q.height > real[p].height
         \/ q.height = real[p].height /\ q.round > real[p].round
         \/ /\ q.height = real[p].height /\ q.round = real[p].round /\ q.step >= real[p].step
            /\ real[p].proposal => q.proposal
            /\ real[p].votes \subseteq q.votes
         \/ p \notin DOMAIN view
  PROVE  GInv'
<1>1. real' \in [Peers -> RealPeer]
  BY DEF GInv
<1>2. ASSUME NEW o \in DOMAIN view PROVE Known(real'[o], view[o], peerValSet)
  <2>1. CASE o # p
    BY <2>1 DEF GInv
  <2>2. CASE o = p
    <3>1. Known(real[p], view[p], peerValSet) /\ real[p] \in RealPeer /\ real'[p] = q
      BY <1>2, <2>2 DEF GInv
    <3>2. QED
      BY <1>2, <2>2, <3>1 DEF Known, KnownPeer, RealPeer, Behind, Truthful
  <2>3. QED
    BY <2>1, <2>2
<1>3. QED
  BY <1>1, <1>2 DEF GInv

(* One peer's record is replaced by one that is true. *)
LEMMA LearnTruth ==
  ASSUME GInv, NEW p \in DOMAIN view, NEW ps, Known(real[p], ps, peerValSet), Learn(p, ps)
  PROVE  GInv'
BY DEF GInv, Learn

(* Every step of the peers and of the node keeps the invariant. *)
LEMMA GossipStep ==
  ASSUME GInv, [GossipNext]_gossip
  PROVE  GInv'
<1> USE GossipAssumption
<1>1. ASSUME NEW p \in Peers, PeerSteps(p) PROVE GInv'
  <2>1. PICK s \in Steps \cup {RoundStepCommit} :
          s > real[p].step /\ real' = [real EXCEPT ![p].step = s]
    BY <1>1 DEF PeerSteps
  <2> DEFINE q == [real[p] EXCEPT !.step = s]
  <2>2. real' = [real EXCEPT ![p] = q] /\ real[p] \in RealPeer
    BY <2>1 DEF GInv
  <2>3. q \in RealPeer /\ q.height = real[p].height /\ q.round = real[p].round /\ q.step >= real[p].step
        /\ q.proposal = real[p].proposal /\ q.votes = real[p].votes
    BY <2>1, <2>2 DEF RealPeer, RoundStepCommit
  <2>4. QED
    BY <1>1, <2>2, <2>3, PeerGoesOn DEF PeerSteps
<1>2. ASSUME NEW p \in Peers, PeerGets(p) PROVE GInv'
  <2>0. real[p] \in RealPeer
    BY DEF GInv
  <2>1. CASE real' = [real EXCEPT ![p].proposal = TRUE]
    <3> DEFINE q == [real[p] EXCEPT !.proposal = TRUE]
    <3>1. real' = [real EXCEPT ![p] = q]
      BY <2>1
    <3>2. ASSUME NEW c \in BOOLEAN
          PROVE  LET x == [real[p] EXCEPT !.proposal = c]
                 IN  x \in RealPeer /\ x.height = real[p].height /\ x.round = real[p].round
                     /\ x.step >= real[p].step /\ x.votes = real[p].votes /\ x.proposal = c
      BY <2>0 DEF RealPeer
    <3>3. q \in RealPeer /\ q.height = real[p].height /\ q.round = real[p].round
          /\ q.step >= real[p].step /\ q.votes = real[p].votes /\ q.proposal = TRUE
      BY <3>2, Zenon
    <3>4. QED
      BY <1>2, <3>1, <3>3, PeerGoesOn DEF PeerGets
  <2>2. ASSUME NEW k \in VoteKinds, real' = [real EXCEPT ![p].votes = @ \cup {k}] PROVE GInv'
    <3> DEFINE q == [real[p] EXCEPT !.votes = @ \cup {k}]
    <3>1. real' = [real EXCEPT ![p] = q]
      BY <2>2
    <3>2. q \in RealPeer /\ q.height = real[p].height /\ q.round = real[p].round /\ q.step >= real[p].step
          /\ q.proposal = real[p].proposal /\ real[p].votes \subseteq q.votes
      BY <2>0 DEF RealPeer
    <3>3. QED
      BY <1>2, <3>1, <3>2, PeerGoesOn DEF PeerGets
  <2>3. QED
    BY <1>2, <2>1, <2>2 DEF PeerGets
<1>3. ASSUME NEW p \in Peers, PeerMovesOn(p) PROVE GInv'
  <2>0. real[p] \in RealPeer
    BY DEF GInv
  <2>1. PICK h \in Nat \ {0}, r \in Nat :
          /\ real' = [real EXCEPT ![p] = Fresh(h, r)]
          /\ h > real[p].height \/ (h = real[p].height /\ r > real[p].round)
    BY <1>3, <2>0 DEF PeerMovesOn, RealPeer
  <2>2. Fresh(h, r) \in RealPeer /\ Fresh(h, r).height = h /\ Fresh(h, r).round = r
    BY DEF Fresh, RealPeer, RoundStepNewHeight
  <2>3. QED
    BY <1>3, <2>1, <2>2, PeerGoesOn DEF PeerMovesOn
<1>4. ASSUME NEW p \in Peers, PeerRestarts(p) PROVE GInv'
  <2>1. Fresh(real[p].height, 0) \in RealPeer
    BY DEF Fresh, RealPeer, RoundStepNewHeight, GInv
  <2>2. QED
    BY <1>4, <2>1, PeerGoesOn DEF PeerRestarts
<1>5. ASSUME NEW p \in Peers, Connect(p) PROVE GInv'
  <2>1. Known(real[p], NewPeerState(peerValSet), peerValSet)
    BY NewPeerIsTrue DEF GInv
  <2>2. QED
    BY <1>5, <2>1 DEF Connect, AddPeer, GInv
<1>6. ASSUME NEW p \in DOMAIN view, HearStep(p) PROVE GInv'
  <2>1. PICK h \in 1 .. MaxPeerHeight, r \in 0 .. MaxPeerRound,
             s \in Steps \cup {RoundStepNewHeight, RoundStepCommit} :
          /\ Past(p, h, r) \/ (Present(p, h, r) /\ s <= real[p].step)
          /\ Learn(p, ApplyNewRoundStep(view[p], h, r, s))
    BY <1>6 DEF HearStep
  <2>2. h \in Nat /\ r \in Nat /\ s \in Nat
    BY DEF RoundStepNewHeight, RoundStepCommit
  <2>3. real[p] \in RealPeer /\ peerValSet \in Nat /\ Known(real[p], view[p], peerValSet)
    BY DEF GInv
  <2>4. Known(real[p], ApplyNewRoundStep(view[p], h, r, s), peerValSet)
    BY <2>1, <2>2, <2>3, NewRoundStepIsTrue DEF Past, Present
  <2>5. QED
    BY <2>1, <2>4, LearnTruth
<1>7. ASSUME NEW p \in DOMAIN view, HearCommit(p) PROVE GInv'
  <2>1. PICK h \in 1 .. MaxPeerHeight, r \in 0 .. MaxPeerRound :
          /\ h < real[p].height \/ (Present(p, h, r) /\ real[p].step = RoundStepCommit)
          /\ Learn(p, ApplyCommit(view[p], h, r))
    BY <1>7 DEF HearCommit
  <2>2. real[p] \in RealPeer /\ peerValSet \in Nat /\ Known(real[p], view[p], peerValSet)
    BY DEF GInv
  <2>3. Known(real[p], ApplyCommit(view[p], h, r), peerValSet)
    BY <2>1, <2>2, CommitIsTrue DEF Present
  <2>4. QED
    BY <2>1, <2>3, LearnTruth
<1>8. ASSUME NEW p \in DOMAIN view, HearProposal(p) PROVE GInv'
  <2>1. PICK h \in 1 .. MaxPeerHeight, r \in 0 .. MaxPeerRound :
          /\ Past(p, h, r) \/ (Present(p, h, r) /\ real[p].proposal)
          /\ Learn(p, SetHasProposal(view[p], h, r))
    BY <1>8 DEF HearProposal
  <2>2. real[p] \in RealPeer /\ peerValSet \in Nat /\ Known(real[p], view[p], peerValSet)
    BY DEF GInv
  <2>3. h = real[p].height /\ r = real[p].round => real[p].proposal
    BY <2>1, <2>2 DEF Past, Present, RealPeer
  <2>4. Known(real[p], SetHasProposal(view[p], h, r), peerValSet)
    BY <2>1, <2>2, <2>3, ProposalIsTrue
  <2>5. QED
    BY <2>1, <2>4, LearnTruth
<1>9. ASSUME NEW p \in DOMAIN view, HearVote(p) PROVE GInv'
  <2>1. PICK v \in PeerVotes :
          /\ \/ Past(p, v.height, v.round)
             \/ Present(p, v.height, v.round) /\ <<v.type, v.index>> \in real[p].votes
          /\ Learn(p, SetHasVote(view[p], v))
    BY <1>9 DEF HearVote
  <2>2. real[p] \in RealPeer /\ peerValSet \in Nat /\ Known(real[p], view[p], peerValSet)
    BY DEF GInv
  <2>3. v \in [height : Nat, round : Nat, type : {"prevote", "precommit"}, index : Nat]
    BY <2>1 DEF PeerVotes
  <2>4. v.height = real[p].height /\ v.round = real[p].round => <<v.type, v.index>> \in real[p].votes
    BY <2>1, <2>2, <2>3 DEF Past, Present, RealPeer
  <2>5. Known(real[p], SetHasVote(view[p], v), peerValSet)
    BY <2>2, <2>3, <2>4, VoteIsTrue
  <2>6. QED
    BY <2>1, <2>5, LearnTruth
<1>10. ASSUME NEW p \in DOMAIN view, Disconnect(p) PROVE GInv'
  BY <1>10 DEF Disconnect, RemovePeer, GInv
<1>11. ASSUME NEW p \in DOMAIN view, MarkReads(p) PROVE GInv'
  <2>1. PICK o \in 1 .. MaxPeerHeight + 1 : marking' = <<p, view[p].height < o>>
    BY <1>11 DEF MarkReads
  <2> DEFINE flag == view[p].height < o
  <2>2. flag \in BOOLEAN
    BY DEF GInv, Known, KnownPeer
  <2> HIDE DEF flag
  <2>3. <<p, flag>> \in (DOMAIN view) \X BOOLEAN
    BY <2>2
  <2>4. QED
    BY <1>11, <2>1, <2>3 DEF MarkReads, GInv, flag
<1>12. CASE MarkSets
  <2>1. marking[1] \in DOMAIN view /\ marking[2] \in BOOLEAN
    BY <1>12 DEF MarkSets, GInv
  <2>2. Known(real[marking[1]], SetCatchingUp(view[marking[1]], marking[2]), peerValSet)
    BY <2>1, FlagIsTrue DEF GInv
  <2>3. QED
    BY <1>12, <2>1, <2>2 DEF MarkSets, GInv
<1>13. CASE ChangeValidators
  <2>1. peerValSet' \in Nat
    BY <1>13 DEF ChangeValidators
  <2>2. \A p \in DOMAIN view : Known(real[p], UpdatePeerValidatorSet(view[p], peerValSet'), peerValSet')
    BY <2>1, UpdateIsTrue DEF GInv
  <2>3. QED
    BY <1>13, <2>1, <2>2 DEF ChangeValidators, UpdateValidatorSet, GInv
<1>14. CASE UNCHANGED gossip
  BY <1>14 DEF gossip, GInv
<1>15. QED
  BY <1>1, <1>2, <1>3, <1>4, <1>5, <1>6, <1>7, <1>8, <1>9, <1>10, <1>11, <1>12, <1>13, <1>14 DEF GossipNext

LEMMA GossipInvariant == GossipSpec => []GInv
<1>1. GossipInit => GInv
  BY GossipAssumption DEF GossipInit, GInv, Fresh, RealPeer, RoundStepNewHeight
<1>2. GInv /\ [GossipNext]_gossip => GInv'
  BY GossipStep
<1>3. QED
  BY <1>1, <1>2, PTL DEF GossipSpec

(* For any number of peers, rounds and validators: what is withheld from a *)
(* peer it has, and what it reports is not offered again (NeedsVote,       *)
(* NeedsProposal, SetHasVote).                                             *)
THEOREM OffersTheorem == GossipSpec => []OffersAreRight
<1>1. GInv => OffersAreRight
  <2> SUFFICES ASSUME GInv, NEW p \in DOMAIN view,
                      view[p].height = real[p].height, view[p].round = real[p].round
               PROVE  /\ ~NeedsProposal(view[p], real[p].height, real[p].round) => real[p].proposal
                      /\ \A v \in PeerVotes : v.height = real[p].height /\ v.round = real[p].round =>
                           /\ ~NeedsVote(view[p], v) => <<v.type, v.index>> \in real[p].votes
                           /\ v.index < peerValSet => ~NeedsVote(SetHasVote(view[p], v), v)
    BY DEF OffersAreRight
  <2>1. Known(real[p], view[p], peerValSet) /\ peerValSet \in Nat
    BY DEF GInv
  <2>2. ~NeedsProposal(view[p], real[p].height, real[p].round) => real[p].proposal
    BY <2>1 DEF NeedsProposal, Known, Truthful
  <2>3. ASSUME NEW v \in PeerVotes, v.height = real[p].height, v.round = real[p].round
        PROVE  /\ ~NeedsVote(view[p], v) => <<v.type, v.index>> \in real[p].votes
               /\ v.index < peerValSet => ~NeedsVote(SetHasVote(view[p], v), v)
    <3>1. v.type \in {"prevote", "precommit"} /\ v.index \in Nat
      BY GossipAssumption DEF PeerVotes
    <3>2. CASE v.type = "prevote"
      BY <2>1, <2>3, <3>1, <3>2 DEF NeedsVote, SetHasVote, Set, Known, KnownPeer, Truthful
    <3>3. CASE v.type = "precommit"
      BY <2>1, <2>3, <3>1, <3>3 DEF NeedsVote, SetHasVote, Set, Known, KnownPeer, Truthful
    <3>4. QED
      BY <3>1, <3>2, <3>3
  <2>4. QED
    BY <2>2, <2>3
<1>2. QED
  BY <1>1, GossipInvariant, PTL

(* No view is ahead of its peer (ApplyNewRoundStep, ApplyCommit). *)
THEOREM BehindTheorem == GossipSpec => []ViewIsBehind
<1>1. GInv => ViewIsBehind
  BY DEF GInv, Known, Behind, ViewIsBehind
<1>2. QED
  BY <1>1, GossipInvariant, PTL

-----------------------------------------------------------------------------
(* BlockSync. *)

(* Where the heights are, and that a callback was started only for heights *)
(* that were passed.                                                       *)
HeightsOK ==
  /\ currentHeight \in 0 .. MaxHeight
  /\ targetHeight \in Nat
  /\ notified \subseteq 1 .. currentHeight
  /\ callbacks \subseteq notified

IInv == HeightsOK /\ SyncedIsStored /\ StateMatchesHeights

(* Stored grows with the store (Stored). *)
LEMMA StoredGrows ==
  ASSUME NEW h, NEW b, store' = store \cup {<<h, b>>}
  PROVE  Stored' = Stored \cup {h}
<1>1. \A x \in store : x[1] \in Stored
  BY DEF Stored
<1>2. <<h, b>>[1] = h
  OBVIOUS
<1>3. ASSUME NEW y \in Stored' PROVE y \in Stored \cup {h}
  <2>1. PICK x \in store' : y = x[1]
    BY <1>3 DEF Stored
  <2>2. QED
    BY <1>1, <1>2, <2>1
<1>4. ASSUME NEW y \in Stored \cup {h} PROVE y \in Stored'
  <2>1. \E x \in store' : y = x[1]
    BY <1>2, <1>4 DEF Stored
  <2>2. QED
    BY <2>1 DEF Stored
<1>5. QED
  BY <1>3, <1>4

(* Nothing that IInv speaks of changes (every action but those of the      *)
(* lemmas below and BlockCallback).                                        *)
LEMMA IInvStays ==
  ASSUME IInv, UNCHANGED <<currentHeight, targetHeight, notified, store, state>>,
         callbacks' \subseteq callbacks
  PROVE  IInv'
BY DEF IInv, HeightsOK, SyncedIsStored, StateMatchesHeights, Stored

(* The store has no gap below the height that Start finds, so no height    *)
(* for which a callback was started is above it (Start).                   *)
LEMMA StartKeeps ==
  ASSUME IInv, Start
  PROVE  IInv'
<1> USE MaxHeightAssumption
<1>1. PICK h \in 0 .. MaxHeight : IsStoreHeight(h) /\ currentHeight' = h
  BY DEF Start
<1>2. currentHeight <= h
  <2>1. SUFFICES ASSUME h < currentHeight PROVE FALSE
    BY <1>1 DEF IInv, HeightsOK
  <2>2. h + 1 \in 1 .. currentHeight
    BY <1>1, <2>1 DEF IInv, HeightsOK
  <2>3. QED
    BY <1>1, <2>2 DEF IInv, SyncedIsStored, IsStoreHeight
<1>3. 1 .. currentHeight \subseteq 1 .. h
  BY <1>1, <1>2 DEF IInv, HeightsOK
<1>4. HeightsOK'
  BY <1>1, <1>3 DEF IInv, HeightsOK, Start
<1>5. SyncedIsStored'
  BY <1>1 DEF IInv, SyncedIsStored, IsStoreHeight, Stored, Start
<1>6. StateMatchesHeights'
  BY DEF StateMatchesHeights, Start
<1>7. QED
  BY <1>4, <1>5, <1>6 DEF IInv

(* The state follows a new target (UpdateTargetHeight). *)
LEMMA TickKeeps ==
  ASSUME IInv, Tick
  PROVE  IInv'
<1> USE MaxHeightAssumption
<1>1. PICK target \in 0 .. MaxHeight + 1 : UpdateTargetHeight(target)
  BY DEF Tick
<1>2. HeightsOK'
  BY <1>1 DEF IInv, HeightsOK, UpdateTargetHeight, Tick
<1>3. SyncedIsStored'
  BY DEF IInv, SyncedIsStored, Stored, Tick
<1>4. StateMatchesHeights'
  BY <1>1 DEF IInv, HeightsOK, StateMatchesHeights, UpdateTargetHeight, Tick
<1>5. QED
  BY <1>2, <1>3, <1>4 DEF IInv

(* A block is saved before it counts as progress, and progress ends the    *)
(* synchronisation at the target (ReceiveBlock).                           *)
LEMMA ReceiveBlockKeeps ==
  ASSUME IInv, NEW h \in Heights, NEW k \in Heights, NEW b \in Blocks, ReceiveBlock(h, k, b)
  PROVE  IInv'
<1> USE MaxHeightAssumption DEF Heights
<1>1. b = "chain" /\ store' = store \cup {<<h, b>>}
  BY DEF ReceiveBlock, Accepts, VerifyCommit
<1>2. Stored' = Stored \cup {h}
  BY <1>1, StoredGrows
<1>3. \A x \in store' : x[2] = "chain"
  BY <1>1 DEF IInv, SyncedIsStored
<1>4. Advance(h) /\ UNCHANGED targetHeight
  BY DEF ReceiveBlock
<1>5. CASE h = currentHeight + 1
  <2>1. currentHeight' = h /\ notified' = notified \cup {h} /\ callbacks' = callbacks \cup {h}
    BY <1>4, <1>5 DEF Advance
  <2>2. 1 .. h = (1 .. currentHeight) \cup {h}
    BY <1>5 DEF IInv, HeightsOK
  <2>3. HeightsOK'
    BY <1>4, <2>1, <2>2 DEF IInv, HeightsOK
  <2>4. SyncedIsStored'
    BY <1>2, <1>3, <2>1, <2>2 DEF IInv, SyncedIsStored
  <2>5. StateMatchesHeights'
    BY <1>4, <1>5, <2>1 DEF IInv, HeightsOK, StateMatchesHeights, Advance
  <2>6. QED
    BY <2>3, <2>4, <2>5 DEF IInv
<1>6. CASE h # currentHeight + 1
  <2>1. UNCHANGED <<currentHeight, targetHeight, callbacks, notified, state>>
    BY <1>4, <1>6 DEF Advance
  <2>2. QED
    BY <1>2, <1>3, <2>1 DEF IInv, HeightsOK, SyncedIsStored, StateMatchesHeights
<1>7. QED
  BY <1>5, <1>6

(* Every step of the syncer and of what is around it keeps the invariant. *)
LEMMA StepKeeps ==
  ASSUME IInv, [Next]_vars
  PROVE  IInv'
<1>1. CASE Start
  BY <1>1, StartKeeps
<1>2. CASE Stop \/ StopReturns \/ LoopEnds \/ CaughtUpCallback
  BY <1>2, IInvStays DEF Stop, StopReturns, LoopEnds, CaughtUpCallback, syncer
<1>3. CASE BlockCallback
  BY <1>3, IInvStays DEF BlockCallback
<1>4. CASE Tick
  BY <1>4, TickKeeps
<1>5. CASE \E asked \in SUBSET Missing : requestMissingBlocks(asked)
  BY <1>5, IInvStays DEF requestMissingBlocks
<1>6. CASE \E old \in SUBSET pendingRequests : checkTimeouts(old)
  BY <1>6, IInvStays DEF checkTimeouts
<1>7. ASSUME NEW h \in Heights, Answer(h) PROVE IInv'
  <2>1. CASE ReceiveBlock(h, h, "chain")
    BY <2>1, ReceiveBlockKeeps DEF Blocks
  <2>2. CASE ~ReceiveBlock(h, h, "chain")
    BY <1>7, <2>2, IInvStays DEF Answer, syncer
  <2>3. QED
    BY <2>1, <2>2
<1>8. ASSUME NEW h \in Heights, Lose(h) PROVE IInv'
  BY <1>8, IInvStays DEF Lose, syncer
<1>9. ASSUME NEW h \in Heights, NEW k \in Heights, NEW b \in Blocks, Gossip(h, k, b) PROVE IInv'
  BY <1>9, ReceiveBlockKeeps DEF Gossip
<1>10. CASE \E p \in Peers : PeerLeaves(p) \/ \E h \in 1 .. MaxHeight + ahead : PeerReports(p, h)
  BY <1>10, IInvStays DEF PeerLeaves, PeerReports, syncer
<1>11. CASE UNCHANGED vars
  BY <1>11, IInvStays DEF vars, syncer
<1>12. QED
  BY <1>1, <1>2, <1>3, <1>4, <1>5, <1>6, <1>7, <1>8, <1>9, <1>10, <1>11 DEF Next

(* The invariant holds always. *)
LEMMA Always == Spec => []IInv
<1>1. Init => IInv
  BY MaxHeightAssumption DEF Init, IInv, HeightsOK, SyncedIsStored, StateMatchesHeights, Stored
<1>2. IInv /\ [Next]_vars => IInv'
  BY StepKeeps
<1>3. QED
  BY <1>1, <1>2, PTL DEF Spec

(* Every height that the syncer has passed is in the store, and only       *)
(* blocks that their commits are for are there (ReceiveBlock).             *)
THEOREM ProgressIsReal == Spec => []SyncedIsStored
<1>1. IInv => SyncedIsStored
  BY DEF IInv
<1>2. QED
  BY <1>1, Always, PTL

(* A syncer is Syncing only when it is behind its target and CaughtUp only *)
(* when it is not (UpdateTargetHeight, ReceiveBlock).                      *)
THEOREM StateIsRight == Spec => []StateMatchesHeights
<1>1. IInv => StateMatchesHeights
  BY DEF IInv
<1>2. QED
  BY <1>1, Always, PTL

(* onBlockCommitted is started once for a height, in the order of heights, *)
(* also over a Stop and a Start (Start, ReceiveBlock).                     *)
THEOREM EachBlockOnce == Spec => NotifiedOnce
<1> DEFINE Ascending == \A h \in callbacks' \ callbacks : \A k \in notified : k < h
<1>1. ASSUME IInv, NEW h \in Heights, NEW k \in Heights, NEW b \in Blocks, ReceiveBlock(h, k, b)
      PROVE  Ascending
  <2>1. callbacks' \ callbacks \subseteq {h} /\ (h # currentHeight + 1 => callbacks' = callbacks)
    BY <1>1 DEF ReceiveBlock, Advance
  <2>2. QED
    BY <1>1, <2>1, MaxHeightAssumption DEF IInv, HeightsOK
<1>2. IInv /\ [Next]_vars => [Ascending]_vars
  <2> SUFFICES ASSUME IInv, Next PROVE Ascending
    OBVIOUS
  <2>1. CASE callbacks' \subseteq callbacks
    BY <2>1
  <2>2. ASSUME NEW h \in Heights, Answer(h) PROVE Ascending
    <3>1. CASE ReceiveBlock(h, h, "chain")
      BY <1>1, <3>1 DEF Blocks
    <3>2. CASE ~ReceiveBlock(h, h, "chain")
      BY <2>2, <3>2 DEF Answer
    <3>3. QED
      BY <3>1, <3>2
  <2>3. ASSUME NEW h \in Heights, NEW k \in Heights, NEW b \in Blocks, Gossip(h, k, b)
        PROVE  Ascending
    BY <1>1, <2>3 DEF Gossip
  <2>4. CASE Start \/ Stop \/ StopReturns \/ LoopEnds \/ BlockCallback \/ CaughtUpCallback \/ Tick
    BY <2>4, <2>1 DEF Start, Stop, StopReturns, LoopEnds, BlockCallback, CaughtUpCallback, Tick
  <2>5. CASE \/ \E asked \in SUBSET Missing : requestMissingBlocks(asked)
             \/ \E old \in SUBSET pendingRequests : checkTimeouts(old)
             \/ \E h \in Heights : Lose(h)
             \/ \E p \in Peers : PeerLeaves(p) \/ \E h \in 1 .. MaxHeight + ahead : PeerReports(p, h)
    BY <2>5, <2>1 DEF requestMissingBlocks, checkTimeouts, Lose, PeerLeaves, PeerReports
  <2>6. QED
    BY <2>2, <2>3, <2>4, <2>5 DEF Next
<1>3. QED
  BY <1>2, Always, PTL DEF Spec, NotifiedOnce

(* What is asked for goes from the lowest height up to the limit, so the   *)
(* limit is kept: the requests below the last one that is sent leave room  *)
(* for it (requestMissingBlocks).                                          *)
LEMMA LimitKept ==
  ASSUME NEW N \in Nat, NEW asked \in SUBSET (1 .. N), pendingRequests \in SUBSET (1 .. N),
         Cardinality(pendingRequests) <= MaxPendingRequests
  PROVE  Cardinality(pendingRequests \cup Requested(asked)) <= MaxPendingRequests
<1> DEFINE R == Requested(asked)
           c == Cardinality(pendingRequests)
           Below(h) == {k \in asked : k < h}
<1>1. IsFiniteSet(1 .. N)
  BY FS_Interval
<1>2. \A S \in SUBSET (1 .. N) : IsFiniteSet(S) /\ Cardinality(S) \in Nat
  BY <1>1, FS_Subset, FS_CardinalityType, Zenon
<1>3. R \in SUBSET asked
  BY DEF Requested
<1>4. CASE R = {}
  BY <1>4
<1> HIDE DEF R
<1>5. CASE R # {}
  <2>1. PICK m \in R : \A k \in R : k <= m
    <3>1. R \in SUBSET (0 .. N)
      BY <1>3
    <3>2. QED
      BY <1>5, <3>1, LastNumber, Zenon
  <2>2. c + Cardinality(Below(m)) < MaxPendingRequests
    BY <2>1 DEF Requested, R
  <2>3. R \in SUBSET (Below(m) \cup {m}) /\ m \notin Below(m) /\ Below(m) \in SUBSET (1 .. N)
    <3>1. \A k \in R : k \in Below(m) \/ k = m
      BY <1>3, <2>1
    <3>2. m \in Int
      BY <1>3, <2>1
    <3>3. m \notin Below(m) /\ Below(m) \subseteq asked
      BY <3>2
    <3> HIDE DEF Below
    <3>4. QED
      BY <3>1, <3>3, Zenon
  <2> HIDE DEF Below
  <2>4. Cardinality(Below(m) \cup {m}) = Cardinality(Below(m)) + 1 /\ IsFiniteSet(Below(m) \cup {m})
    BY <1>2, <2>3, FS_AddElement
  <2>5. Cardinality(R) <= Cardinality(Below(m)) + 1
    BY <2>3, <2>4, FS_Subset
  <2>6. R \in SUBSET (1 .. N) /\ pendingRequests \cap R \in SUBSET (1 .. N)
    BY <1>3
  <2>7. Cardinality(pendingRequests \cup R)
          = c + Cardinality(R) - Cardinality(pendingRequests \cap R)
    BY <1>2, <2>6, FS_Union
  <2>8. /\ Cardinality(R) \in Nat /\ Cardinality(pendingRequests \cap R) \in Nat
        /\ Cardinality(Below(m)) \in Nat /\ c \in Nat
    BY <1>2, <2>3, <2>6
  <2> HIDE DEF c
  <2>9. Cardinality(pendingRequests \cup R) <= MaxPendingRequests
    BY <2>2, <2>5, <2>7, <2>8, PendingAssumption
  <2>10. QED
    BY <2>9 DEF R
<1>6. QED
  BY <1>4, <1>5

SyncTyped == TypeOK /\ targetHeight \in 0 .. MaxHeight + 1

(* A step that changes no height, no request and no block. *)
LEMMA TypedStays ==
  ASSUME SyncTyped,
         UNCHANGED <<state, startHeight, currentHeight, targetHeight, pendingRequests, store,
                     notified>>,
         started' \in BOOLEAN, stopping' \in BOOLEAN, callbacks' \subseteq callbacks,
         loop' \in {"none", "wait", "request", "check"}, caughtUps' \in Nat
  PROVE  SyncTyped'
BY DEF SyncTyped, TypeOK

(* Fewer requests stay within the limit (checkTimeouts, ReceiveBlock). *)
LEMMA FewerRequests ==
  ASSUME SyncTyped, NEW S \in SUBSET pendingRequests
  PROVE  S \subseteq 1 .. MaxHeight + 1 /\ Cardinality(S) <= MaxPendingRequests
<1>1. MaxHeight + 1 \in Nat /\ MaxPendingRequests \in Nat
  BY MaxHeightAssumption, PendingAssumption
<1>2. IsFiniteSet(pendingRequests)
  <2>1. IsFiniteSet(1 .. MaxHeight + 1)
    BY <1>1, FS_Interval
  <2>2. pendingRequests \in SUBSET (1 .. MaxHeight + 1)
    BY DEF SyncTyped, TypeOK
  <2>3. QED
    BY <2>1, <2>2, FS_Subset
<1>3. Cardinality(S) <= Cardinality(pendingRequests) /\ Cardinality(pendingRequests) <= MaxPendingRequests
  BY <1>2, FS_Subset DEF SyncTyped, TypeOK
<1>4. Cardinality(S) \in Nat /\ Cardinality(pendingRequests) \in Nat
  BY <1>2, FS_Subset, FS_CardinalityType
<1>5. QED
  BY <1>1, <1>3, <1>4 DEF SyncTyped, TypeOK

LEMMA ReceiveBlockTyped ==
  ASSUME SyncTyped, NEW h \in Heights, NEW k \in Heights, NEW b \in Blocks, ReceiveBlock(h, k, b)
  PROVE  SyncTyped'
<1> USE MaxHeightAssumption
<1>1. store' \subseteq Heights \X Blocks
  BY DEF ReceiveBlock, SyncTyped, TypeOK
<1>2. pendingRequests' \subseteq 1 .. MaxHeight + 1 /\ Cardinality(pendingRequests') <= MaxPendingRequests
  BY FewerRequests DEF ReceiveBlock
<1>3. UNCHANGED <<startHeight, targetHeight, started, loop, stopping>>
  BY DEF ReceiveBlock
<1>4. /\ state' \in {"Idle", "Syncing", "CaughtUp"} /\ caughtUps' \in Nat
      /\ callbacks' \subseteq notified' /\ notified' \subseteq Heights
  BY DEF ReceiveBlock, Advance, SyncTyped, TypeOK
<1>5. currentHeight' \in startHeight .. MaxHeight
  BY DEF ReceiveBlock, Advance, SyncTyped, TypeOK, Heights
<1>6. QED
  BY <1>1, <1>2, <1>3, <1>4, <1>5 DEF SyncTyped, TypeOK

LEMMA RequestTyped ==
  ASSUME SyncTyped, NEW asked \in SUBSET Missing, requestMissingBlocks(asked)
  PROVE  SyncTyped'
<1> USE MaxHeightAssumption
<1>1. asked \in SUBSET (1 .. MaxHeight + 1)
  BY DEF Missing, SyncTyped, TypeOK
<1>2. Requested(asked) \subseteq asked
  BY DEF Requested
<1>3. pendingRequests' = pendingRequests \cup Requested(asked)
  BY DEF requestMissingBlocks
<1>4. Cardinality(pendingRequests \cup Requested(asked)) <= MaxPendingRequests
  <2>1. MaxHeight + 1 \in Nat /\ pendingRequests \in SUBSET (1 .. MaxHeight + 1)
        /\ Cardinality(pendingRequests) <= MaxPendingRequests
    BY DEF SyncTyped, TypeOK
  <2>2. QED
    BY <1>1, <2>1, LimitKept
<1>5. QED
  BY <1>1, <1>2, <1>3, <1>4 DEF requestMissingBlocks, SyncTyped, TypeOK

LEMMA StepTyped ==
  ASSUME SyncTyped, [Next]_vars
  PROVE  SyncTyped'
<1> USE MaxHeightAssumption
<1>1. CASE Start
  BY <1>1 DEF Start, SyncTyped, TypeOK
<1>2. CASE Stop
  BY <1>2, TypedStays DEF Stop, SyncTyped, TypeOK
<1>3. CASE StopReturns
  BY <1>3, TypedStays DEF StopReturns, syncer, SyncTyped, TypeOK
<1>4. CASE LoopEnds
  BY <1>4, TypedStays DEF LoopEnds, syncer, SyncTyped, TypeOK
<1>5. CASE BlockCallback
  BY <1>5, TypedStays DEF BlockCallback, SyncTyped, TypeOK
<1>6. CASE CaughtUpCallback
  BY <1>6, TypedStays DEF CaughtUpCallback, syncer, SyncTyped, TypeOK
<1>7. CASE Tick
  BY <1>7 DEF Tick, UpdateTargetHeight, SyncTyped, TypeOK
<1>8. ASSUME NEW asked \in SUBSET Missing, requestMissingBlocks(asked) PROVE SyncTyped'
  BY <1>8, RequestTyped
<1>9. ASSUME NEW old \in SUBSET pendingRequests, checkTimeouts(old) PROVE SyncTyped'
  <2>1. /\ pendingRequests' \subseteq 1 .. MaxHeight + 1
        /\ Cardinality(pendingRequests') <= MaxPendingRequests
    BY <1>9, FewerRequests DEF checkTimeouts
  <2>2. QED
    BY <1>9, <2>1 DEF checkTimeouts, SyncTyped, TypeOK
<1>10. ASSUME NEW h \in Heights, Answer(h) PROVE SyncTyped'
  <2>1. CASE ReceiveBlock(h, h, "chain")
    BY <2>1, ReceiveBlockTyped DEF Blocks
  <2>2. CASE ~ReceiveBlock(h, h, "chain")
    BY <1>10, <2>2, TypedStays DEF Answer, syncer, SyncTyped, TypeOK
  <2>3. QED
    BY <2>1, <2>2
<1>11. ASSUME NEW h \in Heights, Lose(h) PROVE SyncTyped'
  BY <1>11, TypedStays DEF Lose, syncer, SyncTyped, TypeOK
<1>12. ASSUME NEW h \in Heights, NEW k \in Heights, NEW b \in Blocks, Gossip(h, k, b)
       PROVE  SyncTyped'
  BY <1>12, ReceiveBlockTyped DEF Gossip
<1>13. ASSUME NEW p \in Peers,
              PeerLeaves(p) \/ \E h \in 1 .. MaxHeight + ahead : PeerReports(p, h)
       PROVE  SyncTyped'
  BY <1>13, TypedStays DEF PeerLeaves, PeerReports, syncer, SyncTyped, TypeOK
<1>14. CASE UNCHANGED vars
  BY <1>14, TypedStays DEF vars, syncer, SyncTyped, TypeOK
<1>15. QED
  BY <1>1, <1>2, <1>3, <1>4, <1>5, <1>6, <1>7, <1>8, <1>9, <1>10, <1>11, <1>12, <1>13, <1>14
  DEF Next

(* The syncer keeps to its types, and to the limit of pending requests,    *)
(* over late answers, timeouts and restarts (requestMissingBlocks).        *)
THEOREM LimitedRequests == Spec => []TypeOK
<1>1. Init => SyncTyped
  <2>1. Cardinality({}) = 0
    BY FS_EmptySet
  <2>2. SUFFICES ASSUME Init PROVE SyncTyped
    OBVIOUS
  <2>3. /\ startHeight \in 0 .. MaxHeight /\ currentHeight \in startHeight .. MaxHeight
        /\ targetHeight \in 0 .. MaxHeight + 1 /\ caughtUps \in Nat
    BY <2>2, MaxHeightAssumption DEF Init
  <2>4. /\ pendingRequests \subseteq 1 .. MaxHeight + 1
        /\ Cardinality(pendingRequests) <= MaxPendingRequests
    BY <2>1, <2>2, PendingAssumption DEF Init
  <2>5. QED
    BY <2>2, <2>3, <2>4, MaxHeightAssumption DEF Init, SyncTyped, TypeOK
<1>2. SyncTyped /\ [Next]_vars => SyncTyped'
  BY StepTyped
<1>3. SyncTyped => TypeOK
  BY DEF SyncTyped
<1>4. QED
  BY <1>1, <1>2, <1>3, PTL DEF Spec

-----------------------------------------------------------------------------
(* BlockParts. *)

(* A sequence of s elements, whatever they are. *)
IsSeq(f, s) == s \in Nat /\ f = [i \in 1 .. s |-> f[i]]

LEMMA LenIs ==
  ASSUME NEW s, NEW f, IsSeq(f, s)
  PROVE  Len(f) = s
<1> DEFINE S == {f[i] : i \in 1 .. s}
<1>1. f \in [1 .. s -> S] /\ s \in Nat
  BY DEF IsSeq
<1>2. f \in Seq(S) /\ DOMAIN f = 1 .. s
  BY <1>1
<1> HIDE DEF S
<1>3. Len(f) \in Nat /\ DOMAIN f = 1 .. Len(f)
  BY <1>2
<1>4. QED
  BY <1>1, <1>2, <1>3

(* A hash does not collide. *)
LEMMA HashesDiffer == ASSUME NEW c, NEW d, Hash(c) = Hash(d) PROVE c = d
<1>1. Hash(c).hashed = c /\ Hash(d).hashed = d
  BY DEF Hash
<1>2. QED
  BY <1>1

LEMMA PairsDiffer ==
  ASSUME NEW a, NEW b, NEW l, NEW r, Pair(a, b) = Pair(l, r)
  PROVE  a = l /\ b = r
<1>1. [left |-> a, right |-> b] = [left |-> l, right |-> r]
  BY HashesDiffer DEF Pair
<1>2. QED
  BY <1>1

-----------------------------------------------------------------------------
(* The levels of the tree. *)

LevelsAre(f, hs) ==
  f = [k \in 0 .. Len(hs) |-> IF k = 0 THEN Leaves(hs) ELSE NextLevel(f[k - 1])]

LEMMA LevelsExist ==
  ASSUME NEW hs, Len(hs) \in Nat
  PROVE  LevelsAre(Levels(hs), hs)
<1> DEFINE n == Len(hs)
           Upto(m, f) == /\ f = [k \in 0 .. m |-> f[k]]
                         /\ f[0] = Leaves(hs)
                         /\ \A k \in 1 .. m : f[k] = NextLevel(f[k - 1])
           T == {m \in Nat : \E f : Upto(m, f)}
<1>1. 0 \in T
  <2> DEFINE f0 == [k \in 0 .. 0 |-> Leaves(hs)]
  <2>1. Upto(0, f0)
    OBVIOUS
  <2>2. QED
    BY <2>1
<1>2. ASSUME NEW m \in Nat, m \in T PROVE m + 1 \in T
  <2>1. PICK g : Upto(m, g)
    BY <1>2
  <2> DEFINE f == [k \in 0 .. m + 1 |-> IF k = m + 1 THEN NextLevel(g[m]) ELSE g[k]]
  <2>2. f = [k \in 0 .. m + 1 |-> f[k]]
    OBVIOUS
  <2>3. f[m + 1] = NextLevel(g[m]) /\ \A k \in 0 .. m : f[k] = g[k]
    OBVIOUS
  <2> HIDE DEF f
  <2>4. f[0] = Leaves(hs)
    BY <2>1, <2>3
  <2>5. ASSUME NEW k \in 1 .. m + 1 PROVE f[k] = NextLevel(f[k - 1])
    <3>1. CASE k = m + 1
      BY <2>3, <3>1
    <3>2. CASE k # m + 1
      <4>1. k \in 1 .. m /\ k \in 0 .. m /\ k - 1 \in 0 .. m
        BY <3>2
      <4>2. QED
        BY <2>1, <2>3, <4>1
    <3>3. QED
      BY <3>1, <3>2
  <2>6. Upto(m + 1, f)
    BY <2>2, <2>4, <2>5
  <2> HIDE DEF Upto
  <2>7. QED
    BY <2>6
<1>3. T = Nat
  <2> HIDE DEF T
  <2>1. T \in SUBSET Nat
    BY DEF T
  <2>2. QED
    BY <1>1, <1>2, <2>1, Induction
<1>4. PICK f : Upto(n, f)
  BY <1>3
<1>5. LevelsAre(f, hs)
  BY <1>4 DEF LevelsAre
<1>6. Levels(hs) = CHOOSE e : LevelsAre(e, hs)
  BY DEF Levels, LevelsAre
<1>7. QED
  BY <1>5, <1>6

Nodes(hs, k) == Levels(hs)[k].hashes
Under(hs, k) == Levels(hs)[k].indices
Size(hs, k) == Len(Nodes(hs, k))

(* Level k is whole: as many sets of leaves as hashes, at least one. *)
Whole(hs, k) ==
  /\ Size(hs, k) \in Nat \ {0}
  /\ IsSeq(Nodes(hs, k), Size(hs, k)) /\ IsSeq(Under(hs, k), Size(hs, k))

(* Level k is made of the one below it. *)
Above(hs, k) ==
  /\ Size(hs, k) = (Size(hs, k - 1) + 1) \div 2
  /\ \A i \in 1 .. Size(hs, k) :
       /\ Nodes(hs, k)[i] = Pair(Nodes(hs, k - 1)[2 * i - 1], Right(Nodes(hs, k - 1), i))
       /\ Under(hs, k)[i] = Merged(Under(hs, k - 1), i)

LEMMA LevelZero ==
  ASSUME NEW hs, NEW n \in Nat \ {0}, IsSeq(hs, n)
  PROVE  Len(hs) = n /\ Nodes(hs, 0) = hs /\ Size(hs, 0) = n /\ Whole(hs, 0)
         /\ \A i \in 1 .. n : Under(hs, 0)[i] = {i - 1}
<1>1. Len(hs) = n /\ DOMAIN hs = 1 .. n
  BY LenIs DEF IsSeq
<1>2. Levels(hs)[0] = Leaves(hs)
  BY <1>1, LevelsExist DEF LevelsAre
<1>3. Nodes(hs, 0) = hs /\ Under(hs, 0) = [i \in 1 .. n |-> {i - 1}]
  BY <1>1, <1>2 DEF Nodes, Under, Leaves
<1>4. IsSeq(Under(hs, 0), n)
  BY <1>3 DEF IsSeq
<1>5. QED
  BY <1>1, <1>3, <1>4 DEF Size, Whole

LEMMA LevelUp ==
  ASSUME NEW hs, Len(hs) \in Nat, NEW k \in 1 .. Len(hs), Whole(hs, k - 1)
  PROVE  Whole(hs, k) /\ Above(hs, k)
<1> DEFINE l == Levels(hs)[k - 1]
           s == Len(l.hashes)
           t == (s + 1) \div 2
<1>1. Levels(hs)[k] = NextLevel(l)
  <2>1. k \in 0 .. Len(hs) /\ k # 0
    OBVIOUS
  <2>2. QED
    BY <2>1, LevelsExist DEF LevelsAre
<1>2. s \in Nat \ {0}
  BY DEF Whole, Size, Nodes
<1>3. t \in Nat \ {0}
  <2> HIDE DEF s
  <2>1. QED
    BY <1>2
<1>4. /\ Nodes(hs, k) = [i \in 1 .. t |-> Pair(l.hashes[2 * i - 1], Right(l.hashes, i))]
      /\ Under(hs, k) = [i \in 1 .. t |-> Merged(l.indices, i)]
  BY <1>1 DEF Nodes, Under, NextLevel
<1>5. IsSeq(Nodes(hs, k), t) /\ IsSeq(Under(hs, k), t)
  <2> HIDE DEF t, l
  <2>1. QED
    BY <1>3, <1>4 DEF IsSeq
<1>6. Size(hs, k) = t
  BY <1>5, LenIs DEF Size
<1>7. Nodes(hs, k - 1) = l.hashes /\ Under(hs, k - 1) = l.indices /\ Size(hs, k - 1) = s
  BY DEF Nodes, Under, Size
<1>8. \A i \in 1 .. t : /\ Nodes(hs, k)[i] = Pair(l.hashes[2 * i - 1], Right(l.hashes, i))
                        /\ Under(hs, k)[i] = Merged(l.indices, i)
  <2> HIDE DEF t, l
  <2>1. QED
    BY <1>4
<1> HIDE DEF l
<1>9. Whole(hs, k)
  BY <1>3, <1>5, <1>6, Zenon DEF Whole
<1>10. Above(hs, k)
  BY <1>6, <1>7, <1>8 DEF Above
<1>11. QED
  BY <1>9, <1>10

(* The tree over n hashes. *)
Tree(hs, n) ==
  /\ Len(hs) = n /\ Nodes(hs, 0) = hs /\ Size(hs, 0) = n
  /\ \A i \in 1 .. n : Under(hs, 0)[i] = {i - 1}
  /\ \A k \in 0 .. n : Whole(hs, k)
  /\ \A k \in 1 .. n : Above(hs, k)

LEMMA TreeBuilt ==
  ASSUME NEW hs, NEW n \in Nat \ {0}, IsSeq(hs, n)
  PROVE  Tree(hs, n)
<1> DEFINE T == {k \in Nat : k <= n => Whole(hs, k)}
<1>1. Len(hs) = n /\ Nodes(hs, 0) = hs /\ Size(hs, 0) = n /\ Whole(hs, 0)
      /\ \A i \in 1 .. n : Under(hs, 0)[i] = {i - 1}
  BY LevelZero
<1>2. T = Nat
  <2>1. 0 \in T
    BY <1>1
  <2>2. ASSUME NEW k \in Nat, k \in T PROVE k + 1 \in T
    <3>1. SUFFICES ASSUME k + 1 <= n PROVE Whole(hs, k + 1)
      OBVIOUS
    <3>2. k + 1 \in 1 .. Len(hs) /\ (k + 1) - 1 = k /\ Whole(hs, k)
      BY <1>1, <2>2, <3>1
    <3>3. QED
      BY <1>1, <3>2, LevelUp
  <2>3. T \in SUBSET Nat
    OBVIOUS
  <2> HIDE DEF T
  <2>4. QED
    BY <2>1, <2>2, <2>3, Induction
<1>3. \A k \in 0 .. n : Whole(hs, k)
  BY <1>2
<1>4. ASSUME NEW k \in 1 .. n PROVE Above(hs, k)
  <2>1. k - 1 \in 0 .. n /\ k \in 1 .. Len(hs)
    BY <1>1
  <2>2. Whole(hs, k - 1)
    BY <1>3, <2>1
  <2>3. QED
    BY <1>1, <2>1, <2>2, LevelUp
<1>5. QED
  BY <1>1, <1>3, <1>4 DEF Tree

-----------------------------------------------------------------------------
(* Climbing the tree. *)

(* The loop of verifyMerkleProof, turn by turn. *)
ClimbIs(f, h, j, path) ==
  f = [k \in 0 .. Len(path) |->
         IF k = 0 THEN [current |-> h, idx |-> j] ELSE Combined(f[k - 1], path[k])]

LEMMA ClimbExists ==
  ASSUME NEW h, NEW j, NEW path, Len(path) \in Nat
  PROVE  ClimbIs(Climb(h, j, path), h, j, path)
<1> DEFINE n == Len(path)
           Upto(m, f) == /\ f = [k \in 0 .. m |-> f[k]]
                         /\ f[0] = [current |-> h, idx |-> j]
                         /\ \A k \in 1 .. m : f[k] = Combined(f[k - 1], path[k])
           T == {m \in Nat : \E f : Upto(m, f)}
<1>1. 0 \in T
  <2> DEFINE f0 == [k \in 0 .. 0 |-> [current |-> h, idx |-> j]]
  <2>1. Upto(0, f0)
    OBVIOUS
  <2>2. QED
    BY <2>1
<1>2. ASSUME NEW m \in Nat, m \in T PROVE m + 1 \in T
  <2>1. PICK g : Upto(m, g)
    BY <1>2
  <2> DEFINE f == [k \in 0 .. m + 1 |-> IF k = m + 1 THEN Combined(g[m], path[m + 1]) ELSE g[k]]
  <2>2. f = [k \in 0 .. m + 1 |-> f[k]]
    OBVIOUS
  <2>3. f[m + 1] = Combined(g[m], path[m + 1]) /\ \A k \in 0 .. m : f[k] = g[k]
    OBVIOUS
  <2> HIDE DEF f
  <2>4. f[0] = [current |-> h, idx |-> j]
    BY <2>1, <2>3
  <2>5. ASSUME NEW k \in 1 .. m + 1 PROVE f[k] = Combined(f[k - 1], path[k])
    <3>1. CASE k = m + 1
      BY <2>3, <3>1
    <3>2. CASE k # m + 1
      <4>1. k \in 1 .. m /\ k \in 0 .. m /\ k - 1 \in 0 .. m
        BY <3>2
      <4>2. QED
        BY <2>1, <2>3, <4>1
    <3>3. QED
      BY <3>1, <3>2
  <2>6. Upto(m + 1, f)
    BY <2>2, <2>4, <2>5
  <2> HIDE DEF Upto
  <2>7. QED
    BY <2>6
<1>3. T = Nat
  <2> HIDE DEF T
  <2>1. T \in SUBSET Nat
    BY DEF T
  <2>2. QED
    BY <1>1, <1>2, <2>1, Induction
<1>4. PICK f : Upto(n, f)
  BY <1>3
<1>5. ClimbIs(f, h, j, path)
  BY <1>4 DEF ClimbIs
<1>6. Climb(h, j, path) = CHOOSE e : ClimbIs(e, h, j, path)
  BY DEF Climb, ClimbIs
<1>7. QED
  BY <1>5, <1>6

(* What a climb along a path does: it starts at the leaf, and each turn     *)
(* pairs the hash with one of the path, on the side of the index.           *)
Climbs(C, h, j, path) ==
  /\ C[0].current = h /\ C[0].idx = j
  /\ \A k \in 1 .. Len(path) :
       /\ C[k].idx = C[k - 1].idx \div 2
       /\ C[k - 1].idx % 2 = 0 => C[k].current = Pair(C[k - 1].current, path[k])
       /\ C[k - 1].idx % 2 # 0 => C[k].current = Pair(path[k], C[k - 1].current)

LEMMA CombinedIs ==
  ASSUME NEW c, NEW s
  PROVE  /\ Combined(c, s).idx = c.idx \div 2
         /\ c.idx % 2 = 0 => Combined(c, s).current = Pair(c.current, s)
         /\ c.idx % 2 # 0 => Combined(c, s).current = Pair(s, c.current)
BY DEF Combined

LEMMA ClimbSteps ==
  ASSUME NEW h, NEW j, NEW path, Len(path) \in Nat
  PROVE  Climbs(Climb(h, j, path), h, j, path)
<1> DEFINE C == Climb(h, j, path)
<1>1. ClimbIs(C, h, j, path)
  BY ClimbExists
<1> HIDE DEF C
<1>2. C[0] = [current |-> h, idx |-> j]
  BY <1>1 DEF ClimbIs
<1>3. ASSUME NEW k \in 1 .. Len(path) PROVE C[k] = Combined(C[k - 1], path[k])
  <2>1. k \in 0 .. Len(path) /\ k # 0
    OBVIOUS
  <2>2. QED
    BY <1>1, <2>1 DEF ClimbIs
<1>4. ASSUME NEW k \in 1 .. Len(path)
      PROVE  /\ C[k].idx = C[k - 1].idx \div 2
             /\ C[k - 1].idx % 2 = 0 => C[k].current = Pair(C[k - 1].current, path[k])
             /\ C[k - 1].idx % 2 # 0 => C[k].current = Pair(path[k], C[k - 1].current)
  BY <1>3, CombinedIs
<1>5. C[0].current = h /\ C[0].idx = j
  BY <1>2
<1>6. Climbs(C, h, j, path)
  BY <1>4, <1>5, Zenon DEF Climbs
<1>7. QED
  BY <1>6 DEF C

(* The tree ends in a single node, after at most as many levels as leaves. *)
LEMMA DepthFacts ==
  ASSUME NEW hs, NEW n \in Nat \ {0}, Tree(hs, n)
  PROVE  /\ Depth(hs) \in 0 .. n /\ Size(hs, Depth(hs)) = 1
         /\ \A i \in 0 .. Depth(hs) - 1 : Size(hs, i) # 1
<1> DEFINE T == {k \in Nat : k < n => Size(hs, k) = 1 \/ Size(hs, k) <= n - k}
<1>1. \A k \in 0 .. n : Size(hs, k) \in Nat \ {0}
  BY DEF Tree, Whole
<1>2. T = Nat
  <2>1. 0 \in T
    BY DEF Tree
  <2>2. ASSUME NEW k \in Nat, k \in T PROVE k + 1 \in T
    <3>1. SUFFICES ASSUME k + 1 < n PROVE Size(hs, k + 1) = 1 \/ Size(hs, k + 1) <= n - (k + 1)
      OBVIOUS
    <3>2. k + 1 \in 1 .. n /\ (k + 1) - 1 = k /\ k \in 0 .. n
      BY <3>1
    <3>3. Size(hs, k + 1) = (Size(hs, k) + 1) \div 2
      BY <3>2 DEF Tree, Above
    <3>4. Size(hs, k) \in Nat \ {0} /\ (Size(hs, k) = 1 \/ Size(hs, k) <= n - k)
      BY <1>1, <2>2, <3>1, <3>2
    <3>5. QED
      BY <3>3, <3>4
  <2>3. T \in SUBSET Nat
    OBVIOUS
  <2> HIDE DEF T
  <2>4. QED
    BY <2>1, <2>2, <2>3, Induction
<1> DEFINE S == {k \in 0 .. n : Size(hs, k) = 1}
<1>3. n - 1 \in S
  <2>1. n - 1 \in T /\ n - 1 \in 0 .. n
    BY <1>2
  <2>2. QED
    BY <1>1, <2>1
<1>4. PICK d \in S : \A k \in S : d <= k
  <2>1. S \in SUBSET Nat /\ S # {}
    BY <1>3
  <2> HIDE DEF S
  <2>2. QED
    BY <2>1, FirstNumber
<1> DEFINE First(k) == /\ Len(Levels(hs)[k].hashes) = 1
                       /\ \A i \in 0 .. k - 1 : Len(Levels(hs)[i].hashes) # 1
<1>5. First(d) /\ d \in 0 .. n
  <2>1. ASSUME NEW i \in 0 .. d - 1 PROVE Size(hs, i) # 1
    <3>1. i \in 0 .. n /\ ~(d <= i)
      BY <1>4
    <3>2. QED
      BY <1>4, <3>1
  <2>2. QED
    BY <1>4, <2>1 DEF Size, Nodes
<1>6. Depth(hs) = CHOOSE k \in 0 .. n : First(k)
  BY DEF Depth, Tree
<1>7. Depth(hs) \in 0 .. n /\ First(Depth(hs))
  <2> HIDE DEF First
  <2>1. QED
    BY <1>5, <1>6
<1>8. QED
  BY <1>7 DEF Size, Nodes

(* A climb from a leaf stays within the levels it passes. *)
LEMMA ClimbWithin ==
  ASSUME NEW hs, NEW n \in Nat \ {0}, Tree(hs, n),
         NEW C, NEW h, NEW j \in 0 .. n - 1, NEW path, Len(path) \in Nat, Climbs(C, h, j, path)
  PROVE  \A k \in 0 .. n : k <= Len(path) => C[k].idx \in Nat /\ C[k].idx < Size(hs, k)
<1> DEFINE T == {k \in Nat : k <= n /\ k <= Len(path) => C[k].idx \in Nat /\ C[k].idx < Size(hs, k)}
<1>1. 0 \in T
  BY DEF Climbs, Tree
<1>2. ASSUME NEW k \in Nat, k \in T PROVE k + 1 \in T
  <2>1. SUFFICES ASSUME k + 1 <= n, k + 1 <= Len(path)
                 PROVE  C[k + 1].idx \in Nat /\ C[k + 1].idx < Size(hs, k + 1)
    OBVIOUS
  <2>2. k + 1 \in 1 .. n /\ k + 1 \in 1 .. Len(path) /\ (k + 1) - 1 = k /\ k \in 0 .. n
    BY <2>1
  <2>3. Size(hs, k + 1) = (Size(hs, k) + 1) \div 2
    BY <2>2 DEF Tree, Above
  <2>4. C[k + 1].idx = C[k].idx \div 2
    BY <2>2 DEF Climbs
  <2>5. C[k].idx \in Nat /\ C[k].idx < Size(hs, k)
    BY <1>2, <2>1
  <2>6. Size(hs, k) \in Nat
    BY <2>2 DEF Tree, Whole
  <2>7. QED
    BY <2>3, <2>4, <2>5, <2>6
<1>3. T \in SUBSET Nat
  OBVIOUS
<1>4. T = Nat
  <2> HIDE DEF T
  <2>1. QED
    BY <1>1, <1>2, <1>3, Induction
<1>5. QED
  BY <1>4

(* The children of a node. *)
LEMMA Children ==
  ASSUME NEW hs, NEW n \in Nat \ {0}, Tree(hs, n), NEW k \in 1 .. n, NEW i \in 1 .. Size(hs, k)
  PROVE  /\ Nodes(hs, k)[i] = Pair(Nodes(hs, k - 1)[2 * i - 1], Right(Nodes(hs, k - 1), i))
         /\ 2 * i - 1 \in 1 .. Size(hs, k - 1)
         /\ Right(Nodes(hs, k - 1), i) =
              Nodes(hs, k - 1)[IF 2 * i <= Size(hs, k - 1) THEN 2 * i ELSE 2 * i - 1]
<1>1. Above(hs, k)
  BY DEF Tree
<1>2. Size(hs, k - 1) \in Nat /\ Size(hs, k) = (Size(hs, k - 1) + 1) \div 2
  <2>1. k - 1 \in 0 .. n
    OBVIOUS
  <2>2. QED
    BY <1>1, <2>1 DEF Tree, Whole, Above
<1>3. 2 * i - 1 \in 1 .. Size(hs, k - 1)
  BY <1>2
<1>4. QED
  BY <1>1, <1>3 DEF Above, Right, Size

(* From the root down, a climb that ends there only met nodes of the tree. *)
Met(hs, k, x) == \E i \in 1 .. Size(hs, k) : x = Nodes(hs, k)[i]

LEMMA ClimbMeets ==
  ASSUME NEW hs, NEW n \in Nat \ {0}, Tree(hs, n), NEW d \in 0 .. n, Size(hs, d) = 1,
         NEW C, NEW h, NEW j, NEW path, Len(path) \in Nat, Climbs(C, h, j, path),
         C[Len(path)].current = Nodes(hs, d)[1]
  PROVE  \A m \in Nat : m <= d /\ m <= Len(path) => Met(hs, d - m, C[Len(path) - m].current)
<1> DEFINE N == Len(path)
           T == {m \in Nat : m <= d /\ m <= N => Met(hs, d - m, C[N - m].current)}
<1>1. 0 \in T
  <2>1. d - 0 = d /\ N - 0 = N /\ 1 \in 1 .. Size(hs, d)
    OBVIOUS
  <2>2. Met(hs, d, C[N].current)
    BY <2>1 DEF Met
  <2>3. QED
    BY <2>1, <2>2
<1>2. ASSUME NEW m \in Nat, m \in T PROVE m + 1 \in T
  <2>1. SUFFICES ASSUME m + 1 <= d, m + 1 <= N
                 PROVE  Met(hs, d - (m + 1), C[N - (m + 1)].current)
    OBVIOUS
  <2> DEFINE k == d - m
             l == N - m
  <2>2. k \in 1 .. n /\ l \in 1 .. N /\ d - (m + 1) = k - 1 /\ N - (m + 1) = l - 1
    BY <2>1
  <2>3. Met(hs, k, C[l].current)
    BY <1>2, <2>1
  <2> HIDE DEF k, l
  <2>4. PICK i \in 1 .. Size(hs, k) : C[l].current = Nodes(hs, k)[i]
    BY <2>3 DEF Met
  <2>5. PICK a, b : /\ C[l].current = Pair(a, b)
                    /\ a = C[l - 1].current \/ b = C[l - 1].current
    <3>1. CASE C[l - 1].idx % 2 = 0
      BY <2>2, <3>1, Zenon DEF Climbs
    <3>2. CASE C[l - 1].idx % 2 # 0
      BY <2>2, <3>2, Zenon DEF Climbs
    <3>3. QED
      BY <3>1, <3>2
  <2>6. /\ Nodes(hs, k)[i] = Pair(Nodes(hs, k - 1)[2 * i - 1], Right(Nodes(hs, k - 1), i))
        /\ 2 * i - 1 \in 1 .. Size(hs, k - 1)
        /\ Right(Nodes(hs, k - 1), i) =
             Nodes(hs, k - 1)[IF 2 * i <= Size(hs, k - 1) THEN 2 * i ELSE 2 * i - 1]
    BY <2>2, Children
  <2>7. a = Nodes(hs, k - 1)[2 * i - 1] /\ b = Right(Nodes(hs, k - 1), i)
    <3>1. Pair(a, b) = Pair(Nodes(hs, k - 1)[2 * i - 1], Right(Nodes(hs, k - 1), i))
      BY <2>4, <2>5, <2>6, Zenon
    <3>2. QED
      BY <3>1, PairsDiffer
  <2>8. (IF 2 * i <= Size(hs, k - 1) THEN 2 * i ELSE 2 * i - 1) \in 1 .. Size(hs, k - 1)
    BY <2>6
  <2>9. Met(hs, k - 1, C[l - 1].current)
    BY <2>5, <2>6, <2>7, <2>8, Zenon DEF Met
  <2>10. QED
    BY <2>2, <2>9
<1>3. T \in SUBSET Nat
  OBVIOUS
<1>4. T = Nat
  <2> HIDE DEF T
  <2>1. QED
    BY <1>1, <1>2, <1>3, Induction
<1>5. QED
  BY <1>4

(* Soundness of verifyMerkleProof: with a path as long as the tree is high  *)
(* it accepts at an index only the leaf there.  With a shorter path it also *)
(* accepts what some node above the leaves hashes, and with a longer one    *)
(* only below a leaf that itself hashes two hashes.                         *)
THEOREM ProofSound ==
  ASSUME NEW hs, NEW n \in Nat \ {0}, Tree(hs, n),
         NEW h, NEW j \in 0 .. n - 1, NEW path, Len(path) \in Nat,
         verifyMerkleProof(h, j, path, computeMerkleRoot(hs))
  PROVE  /\ Len(path) = Depth(hs) => h = hs[j + 1]
         /\ Len(path) < Depth(hs) => Met(hs, Depth(hs) - Len(path), h)
         /\ Len(path) > Depth(hs) => \E i \in 1 .. n : \E l, r : hs[i] = Pair(l, r)
<1> DEFINE C == Climb(h, j, path)
           N == Len(path)
           D == Depth(hs)
<1>1. D \in 0 .. n /\ Size(hs, D) = 1
  BY DepthFacts
<1>2. Climbs(C, h, j, path)
  BY ClimbSteps
<1>3. C[N].current = Nodes(hs, D)[1]
  BY DEF verifyMerkleProof, computeMerkleRoot, Nodes
<1> HIDE DEF C, D
<1>4. \A m \in Nat : m <= D /\ m <= N => Met(hs, D - m, C[N - m].current)
  BY <1>1, <1>2, <1>3, ClimbMeets
<1>5. C[0].current = h /\ C[0].idx = j
  BY <1>2 DEF Climbs
<1>6. N < D => Met(hs, D - N, h)
  <2>1. N - N = 0 /\ N <= N
    OBVIOUS
  <2>2. QED
    BY <1>1, <1>4, <1>5, <2>1
<1>7. N > D => \E i \in 1 .. n : \E l, r : hs[i] = Pair(l, r)
  <2>1. SUFFICES ASSUME D < N PROVE \E i \in 1 .. n : \E l, r : hs[i] = Pair(l, r)
    OBVIOUS
  <2>2. N - D \in 1 .. N /\ D - D = 0 /\ D <= N /\ D <= D /\ D \in Nat
    BY <1>1, <2>1
  <2>3. Met(hs, 0, C[N - D].current)
    BY <1>4, <2>2
  <2>4. PICK i \in 1 .. n : C[N - D].current = hs[i]
    BY <2>3 DEF Met, Tree
  <2> DEFINE k == N - D
  <2> HIDE DEF k
  <2>5. PICK l, r : C[k].current = Pair(l, r)
    <3>0. k \in 1 .. N
      BY <2>2 DEF k
    <3>1. \/ C[k].current = Pair(C[k - 1].current, path[k])
          \/ C[k].current = Pair(path[k], C[k - 1].current)
      BY <1>2, <3>0, Zenon DEF Climbs
    <3>2. QED
      BY <3>1, Zenon
  <2>6. QED
    BY <2>4, <2>5, Zenon DEF k
<1>8. SUFFICES ASSUME N = D PROVE h = hs[j + 1]
  BY <1>6, <1>7 DEF D
<1>9. \A k \in 0 .. n : k <= N => C[k].idx \in Nat /\ C[k].idx < Size(hs, k)
  BY <1>2, ClimbWithin
<1> DEFINE At(k) == C[k].current = Nodes(hs, k)[C[k].idx + 1]
           T == {m \in Nat : m <= D => At(D - m)}
<1>10. 0 \in T
  <2>1. D \in 0 .. n /\ D <= N /\ D - 0 = D
    BY <1>1, <1>8
  <2>2. C[D].idx + 1 = 1
    BY <1>1, <1>9, <2>1
  <2>3. At(D)
    BY <1>3, <1>8, <2>2
  <2>4. QED
    BY <2>1, <2>3
<1>11. ASSUME NEW m \in Nat, m \in T PROVE m + 1 \in T
  <2>1. SUFFICES ASSUME m + 1 <= D PROVE At(D - (m + 1))
    OBVIOUS
  <2> DEFINE k == D - m
             p == C[k - 1].idx
             i == C[k].idx + 1
  <2>2. k \in 1 .. n /\ k \in 1 .. N /\ k - 1 \in 0 .. n /\ k - 1 <= N /\ D - (m + 1) = k - 1
        /\ k \in 0 .. n /\ k <= N
    BY <1>1, <1>8, <2>1
  <2>3. At(k)
    BY <1>1, <1>11, <2>1
  <2> HIDE DEF k
  <2>4. p \in Nat /\ p < Size(hs, k - 1) /\ i = p \div 2 + 1 /\ i \in 1 .. Size(hs, k)
    <3>1. p \in Nat /\ p < Size(hs, k - 1) /\ C[k].idx \in Nat /\ C[k].idx < Size(hs, k)
      BY <1>9, <2>2
    <3>2. C[k].idx = p \div 2
      BY <1>2, <2>2 DEF Climbs
    <3>3. Size(hs, k) \in Nat
      BY <2>2 DEF Tree, Whole
    <3>4. QED
      BY <3>1, <3>2, <3>3
  <2>5. /\ C[k].current = Nodes(hs, k)[i]
        /\ Nodes(hs, k)[i] = Pair(Nodes(hs, k - 1)[2 * i - 1], Right(Nodes(hs, k - 1), i))
        /\ Right(Nodes(hs, k - 1), i) =
             Nodes(hs, k - 1)[IF 2 * i <= Size(hs, k - 1) THEN 2 * i ELSE 2 * i - 1]
    BY <2>2, <2>3, <2>4, Children
  <2>6. CASE p % 2 = 0
    <3>1. C[k].current = Pair(C[k - 1].current, path[k])
      BY <1>2, <2>2, <2>6, Zenon DEF Climbs
    <3>2. Pair(C[k - 1].current, path[k]) = Pair(Nodes(hs, k - 1)[2 * i - 1], Right(Nodes(hs, k - 1), i))
      BY <2>5, <3>1, Zenon
    <3>3. C[k - 1].current = Nodes(hs, k - 1)[2 * i - 1]
      BY <3>2, PairsDiffer
    <3> HIDE DEF i, p
    <3>4. 2 * i - 1 = p + 1
      BY <2>4, <2>6
    <3>5. QED
      BY <2>2, <3>3, <3>4 DEF p
  <2>7. CASE p % 2 # 0
    <3>1. C[k].current = Pair(path[k], C[k - 1].current)
      BY <1>2, <2>2, <2>7, Zenon DEF Climbs
    <3>2. Pair(path[k], C[k - 1].current) = Pair(Nodes(hs, k - 1)[2 * i - 1], Right(Nodes(hs, k - 1), i))
      BY <2>5, <3>1, Zenon
    <3>3. C[k - 1].current = Right(Nodes(hs, k - 1), i)
      BY <3>2, PairsDiffer
    <3>4. Size(hs, k - 1) \in Nat
      BY <2>2 DEF Tree, Whole
    <3> HIDE DEF i, p
    <3>5. 2 * i = p + 1 /\ 2 * i <= Size(hs, k - 1)
      BY <2>4, <2>7, <3>4
    <3>6. QED
      BY <2>2, <2>5, <3>3, <3>5 DEF p
  <2>8. QED
    BY <2>6, <2>7
<1>12. T \in SUBSET Nat
  OBVIOUS
<1>13. T = Nat
  <2> HIDE DEF T
  <2>1. QED
    BY <1>10, <1>11, <1>12, Induction
<1>14. At(0)
  <2>1. D \in Nat /\ D - D = 0
    BY <1>1
  <2>2. D \in T
    BY <1>13, <2>1
  <2>3. QED
    BY <2>1, <2>2
<1>15. QED
  BY <1>5, <1>14 DEF Tree

(* The proof path of leaf j. *)
PathOf(hs, j) == [k \in 1 .. Depth(hs) |-> Sibling(Levels(hs)[k - 1], j)]

(* Completeness: the path that buildMerkleTreeWithProofs gives a leaf is   *)
(* the one verifyMerkleProof follows to the root.                          *)
THEOREM ProofComplete ==
  ASSUME NEW hs, NEW n \in Nat \ {0}, Tree(hs, n), NEW j \in 0 .. n - 1
  PROVE  verifyMerkleProof(hs[j + 1], j, PathOf(hs, j), computeMerkleRoot(hs))
<1> DEFINE path == PathOf(hs, j)
           C == Climb(hs[j + 1], j, path)
           D == Depth(hs)
<1>1. D \in 0 .. n /\ Size(hs, D) = 1
  BY DepthFacts
<1>2. Len(path) = D /\ Len(path) \in Nat
  BY <1>1, LenIs DEF IsSeq, PathOf
<1>3. Climbs(C, hs[j + 1], j, path)
  BY <1>2, ClimbSteps
<1>4. \A k \in 1 .. D : path[k] = Sibling(Levels(hs)[k - 1], j)
  BY DEF PathOf
<1>5. verifyMerkleProof(hs[j + 1], j, path, computeMerkleRoot(hs)) <=> C[D].current = Nodes(hs, D)[1]
  BY <1>2 DEF verifyMerkleProof, computeMerkleRoot, Nodes
<1> HIDE DEF C, D, path
<1>6. \A k \in 0 .. n : k <= D => C[k].idx \in Nat /\ C[k].idx < Size(hs, k)
  BY <1>2, <1>3, ClimbWithin
<1> DEFINE At(k) == /\ C[k].current = Nodes(hs, k)[C[k].idx + 1]
                    /\ \A i \in 1 .. Size(hs, k) : j \in Under(hs, k)[i] <=> i = C[k].idx + 1
           T == {k \in Nat : k <= D => At(k)}
<1>7. 0 \in T
  <2>1. C[0].current = hs[j + 1] /\ C[0].idx = j
    BY <1>3 DEF Climbs
  <2>2. Nodes(hs, 0) = hs /\ Size(hs, 0) = n /\ \A i \in 1 .. n : Under(hs, 0)[i] = {i - 1}
    BY DEF Tree
  <2>3. QED
    BY <2>1, <2>2
<1>8. ASSUME NEW l \in Nat, l \in T PROVE l + 1 \in T
  <2>1. SUFFICES ASSUME l + 1 <= D PROVE At(l + 1)
    OBVIOUS
  <2> DEFINE k == l + 1
             p == C[l].idx
             i == C[k].idx + 1
             s == Size(hs, l)
  <2>2. k \in 1 .. n /\ k \in 1 .. D /\ k - 1 = l /\ l \in 0 .. n /\ l <= D /\ k \in 0 .. n /\ k <= D
    BY <1>1, <2>1
  <2>3. At(l)
    BY <1>8, <2>2
  <2> HIDE DEF k
  <2>4. s \in Nat \ {0} /\ Size(hs, k) = (s + 1) \div 2 /\ Size(hs, k) \in Nat
    BY <2>2 DEF Tree, Whole, Above
  <2>5. p \in Nat /\ p < s /\ i = p \div 2 + 1 /\ i \in 1 .. Size(hs, k)
    <3>1. p \in Nat /\ p < s /\ C[k].idx \in Nat /\ C[k].idx < Size(hs, k)
      BY <1>6, <2>2
    <3>2. C[k].idx = p \div 2
      BY <1>2, <1>3, <2>2 DEF Climbs
    <3>3. QED
      BY <2>4, <3>1, <3>2
  <2>6. /\ Nodes(hs, k)[i] = Pair(Nodes(hs, l)[2 * i - 1], Right(Nodes(hs, l), i))
        /\ Right(Nodes(hs, l), i) = Nodes(hs, l)[IF 2 * i <= s THEN 2 * i ELSE 2 * i - 1]
    BY <2>2, <2>5, Children
  <2>7. path[k] = Sibling(Levels(hs)[l], j)
    BY <1>4, <2>2
  <2>8. Sibling(Levels(hs)[l], j) = IF (p + 1) % 2 = 1 THEN Right(Nodes(hs, l), (p + 2) \div 2)
                                    ELSE Nodes(hs, l)[p]
    <3> DEFINE pos == CHOOSE q \in DOMAIN Under(hs, l) : j \in Under(hs, l)[q]
    <3>1. DOMAIN Under(hs, l) = 1 .. s
      BY <2>2 DEF Tree, Whole, IsSeq
    <3>2. p + 1 \in 1 .. s
      BY <2>4, <2>5
    <3>3. \A q \in 1 .. s : j \in Under(hs, l)[q] <=> q = p + 1
      BY <2>3
    <3> HIDE DEF p, s
    <3>4. pos = p + 1
      BY <3>1, <3>2, <3>3
    <3>5. Sibling(Levels(hs)[l], j) = IF pos % 2 = 1 THEN Right(Nodes(hs, l), (pos + 1) \div 2)
                                      ELSE Nodes(hs, l)[pos - 1]
      BY DEF Sibling, Nodes, Under
    <3> HIDE DEF pos
    <3>6. pos + 1 = p + 2 /\ pos - 1 = p
      BY <2>5, <3>4
    <3>7. QED
      BY <3>4, <3>5, <3>6, Zenon
  <2>9. C[k].current = Nodes(hs, k)[i]
    <3>1. CASE p % 2 = 0
      <4>1. C[k].current = Pair(C[l].current, path[k])
        BY <1>2, <1>3, <2>2, <3>1, Zenon DEF Climbs
      <4>2. C[l].current = Nodes(hs, l)[p + 1]
        BY <2>3
      <4> HIDE DEF p, i, s
      <4>3. (p + 1) % 2 = 1 /\ (p + 2) \div 2 = i /\ 2 * i - 1 = p + 1
        BY <2>5, <3>1
      <4>4. path[k] = Right(Nodes(hs, l), i)
        BY <2>7, <2>8, <4>3, Zenon
      <4>5. QED
        BY <2>6, <4>1, <4>2, <4>3, <4>4, Zenon
    <3>2. CASE p % 2 # 0
      <4>1. C[k].current = Pair(path[k], C[l].current)
        BY <1>2, <1>3, <2>2, <3>2, Zenon DEF Climbs
      <4>2. C[l].current = Nodes(hs, l)[p + 1]
        BY <2>3
      <4> HIDE DEF p, i, s
      <4>3. (p + 1) % 2 # 1 /\ 2 * i - 1 = p /\ 2 * i = p + 1 /\ 2 * i <= s
        BY <2>4, <2>5, <3>2
      <4>4. path[k] = Nodes(hs, l)[p]
        BY <2>7, <2>8, <4>3, Zenon
      <4>5. Right(Nodes(hs, l), i) = Nodes(hs, l)[p + 1]
        BY <2>6, <4>3, Zenon
      <4>6. QED
        BY <2>6, <4>1, <4>2, <4>3, <4>4, <4>5, Zenon
    <3>3. QED
      BY <3>1, <3>2
  <2>10. ASSUME NEW q \in 1 .. Size(hs, k) PROVE j \in Under(hs, k)[q] <=> q = i
    <3>1. Under(hs, k)[q] = Merged(Under(hs, l), q)
      BY <2>2 DEF Tree, Above
    <3>2. Len(Under(hs, l)) = s
      BY <2>2, LenIs DEF Tree, Whole
    <3>3. \A r \in 1 .. s : j \in Under(hs, l)[r] <=> r = p + 1
      BY <2>3
    <3> HIDE DEF p, i, s
    <3>4. 2 * q - 1 \in 1 .. s /\ (2 * q <= s => 2 * q \in 1 .. s)
      BY <2>4
    <3>5. j \in Merged(Under(hs, l), q) <=> 2 * q - 1 = p + 1 \/ (2 * q <= s /\ 2 * q = p + 1)
      BY <3>2, <3>3, <3>4 DEF Merged
    <3>6. (2 * q - 1 = p + 1 \/ (2 * q <= s /\ 2 * q = p + 1)) <=> q = i
      BY <2>4, <2>5
    <3>7. QED
      BY <3>1, <3>5, <3>6
  <2>11. QED
    BY <2>9, <2>10 DEF k
<1>9. T \in SUBSET Nat
  OBVIOUS
<1>10. T = Nat
  <2> HIDE DEF T
  <2>1. QED
    BY <1>7, <1>8, <1>9, Induction
<1>11. At(D) /\ C[D].idx + 1 = 1
  BY <1>1, <1>6, <1>10
<1>12. QED
  BY <1>5, <1>11 DEF path

(* Trees of as many leaves have the same form, level by level. *)
LEMMA SameForm ==
  ASSUME NEW hs, NEW gs, NEW n \in Nat \ {0}, Tree(hs, n), Tree(gs, n)
  PROVE  /\ \A k \in 0 .. n : Size(hs, k) = Size(gs, k)
         /\ Depth(hs) = Depth(gs)
<1> DEFINE T == {k \in Nat : k <= n => Size(hs, k) = Size(gs, k)}
<1>1. 0 \in T
  BY DEF Tree
<1>2. ASSUME NEW k \in Nat, k \in T PROVE k + 1 \in T
  <2>1. SUFFICES ASSUME k + 1 <= n PROVE Size(hs, k + 1) = Size(gs, k + 1)
    OBVIOUS
  <2>2. k + 1 \in 1 .. n /\ (k + 1) - 1 = k /\ k <= n
    BY <2>1
  <2>3. Size(hs, k + 1) = (Size(hs, k) + 1) \div 2 /\ Size(gs, k + 1) = (Size(gs, k) + 1) \div 2
    BY <2>2 DEF Tree, Above
  <2>4. QED
    BY <1>2, <2>2, <2>3
<1>3. T \in SUBSET Nat
  OBVIOUS
<1>4. T = Nat
  <2> HIDE DEF T
  <2>1. QED
    BY <1>1, <1>2, <1>3, Induction
<1>5. \A k \in 0 .. n : Size(hs, k) = Size(gs, k)
  BY <1>4
<1>6. /\ Depth(hs) \in 0 .. n /\ Size(hs, Depth(hs)) = 1
      /\ \A i \in 0 .. Depth(hs) - 1 : Size(hs, i) # 1
  BY DepthFacts
<1>7. /\ Depth(gs) \in 0 .. n /\ Size(gs, Depth(gs)) = 1
      /\ \A i \in 0 .. Depth(gs) - 1 : Size(gs, i) # 1
  BY DepthFacts
<1>8. ~(Depth(hs) < Depth(gs)) /\ ~(Depth(gs) < Depth(hs))
  BY <1>5, <1>6, <1>7
<1>9. QED
  BY <1>5, <1>6, <1>7, <1>8

(* computeMerkleRoot: no two sequences of n hashes have the same root. *)
LEMMA RootTells ==
  ASSUME NEW hs, NEW gs, NEW n \in Nat \ {0}, IsSeq(hs, n), IsSeq(gs, n),
         computeMerkleRoot(hs) = computeMerkleRoot(gs)
  PROVE  hs = gs
<1> DEFINE D == Depth(hs)
           Same(k) == \A i \in 1 .. Size(hs, k) : Nodes(hs, k)[i] = Nodes(gs, k)[i]
           T == {m \in Nat : m <= D => Same(D - m)}
<1>1. Tree(hs, n) /\ Tree(gs, n)
  BY TreeBuilt
<1>2. D \in 0 .. n /\ Size(hs, D) = 1 /\ D = Depth(gs) /\ \A k \in 0 .. n : Size(hs, k) = Size(gs, k)
  BY <1>1, DepthFacts, SameForm
<1>3. Nodes(hs, D)[1] = Nodes(gs, D)[1]
  BY <1>2 DEF computeMerkleRoot, Nodes
<1> HIDE DEF D
<1>4. 0 \in T
  <2>1. D - 0 = D
    BY <1>2
  <2>2. Same(D)
    BY <1>2, <1>3
  <2> HIDE DEF Same
  <2>3. QED
    BY <2>1, <2>2
<1>5. ASSUME NEW m \in Nat, m \in T PROVE m + 1 \in T
  <2>1. SUFFICES ASSUME m + 1 <= D PROVE Same(D - (m + 1))
    OBVIOUS
  <2> DEFINE k == D - m
  <2>2. k \in 1 .. n /\ D - (m + 1) = k - 1 /\ k - 1 \in 0 .. n /\ k \in 0 .. n
    BY <1>2, <2>1
  <2>3. Same(k)
    BY <1>2, <1>5, <2>1
  <2> HIDE DEF k
  <2>4. Size(hs, k) = Size(gs, k) /\ Size(hs, k - 1) = Size(gs, k - 1) /\ Size(hs, k - 1) \in Nat
        /\ Size(hs, k) = (Size(hs, k - 1) + 1) \div 2
    BY <1>1, <1>2, <2>2 DEF Tree, Whole, Above
  <2>5. ASSUME NEW q \in 1 .. Size(hs, k - 1) PROVE Nodes(hs, k - 1)[q] = Nodes(gs, k - 1)[q]
    <3> DEFINE i == (q + 1) \div 2
    <3>1. i \in 1 .. Size(hs, k) /\ (q = 2 * i - 1 \/ (q = 2 * i /\ 2 * i <= Size(hs, k - 1)))
      BY <2>4
    <3> HIDE DEF i
    <3>2. /\ Nodes(hs, k)[i] = Pair(Nodes(hs, k - 1)[2 * i - 1], Right(Nodes(hs, k - 1), i))
          /\ Right(Nodes(hs, k - 1), i) =
               Nodes(hs, k - 1)[IF 2 * i <= Size(hs, k - 1) THEN 2 * i ELSE 2 * i - 1]
      BY <1>1, <2>2, <3>1, Children
    <3>3. /\ Nodes(gs, k)[i] = Pair(Nodes(gs, k - 1)[2 * i - 1], Right(Nodes(gs, k - 1), i))
          /\ Right(Nodes(gs, k - 1), i) =
               Nodes(gs, k - 1)[IF 2 * i <= Size(gs, k - 1) THEN 2 * i ELSE 2 * i - 1]
      BY <1>1, <2>2, <2>4, <3>1, Children
    <3>4. Nodes(hs, k)[i] = Nodes(gs, k)[i]
      BY <2>3, <3>1
    <3>5. /\ Nodes(hs, k - 1)[2 * i - 1] = Nodes(gs, k - 1)[2 * i - 1]
          /\ Right(Nodes(hs, k - 1), i) = Right(Nodes(gs, k - 1), i)
      BY <3>2, <3>3, <3>4, PairsDiffer
    <3>6. CASE q = 2 * i - 1
      BY <3>5, <3>6
    <3>7. CASE q = 2 * i /\ 2 * i <= Size(hs, k - 1)
      BY <2>4, <3>2, <3>3, <3>5, <3>7
    <3>8. QED
      BY <3>1, <3>6, <3>7
  <2>6. QED
    BY <2>2, <2>5
<1>6. T \in SUBSET Nat
  OBVIOUS
<1>7. T = Nat
  <2> HIDE DEF T
  <2>1. QED
    BY <1>4, <1>5, <1>6, Induction
<1>8. Same(0)
  <2>1. D \in T /\ D - D = 0
    BY <1>2, <1>7
  <2> HIDE DEF Same
  <2>2. QED
    BY <1>2, <2>1
<1>9. \A i \in 1 .. n : hs[i] = gs[i]
  BY <1>1, <1>8 DEF Tree
<1>10. QED
  BY <1>9 DEF IsSeq

-----------------------------------------------------------------------------
(* The part set. *)

(* The hashes of the parts of a block. *)
HashesOf(data) == [i \in DOMAIN data |-> Hash(data[i])]

LEMMA SplitFacts ==
  ASSUME NEW b \in Originals
  PROVE  /\ Len(b) \in Nat \ {0} /\ DOMAIN b = 1 .. Len(b)
         /\ Tree(HashesOf(b), Len(b))
         /\ IsSeq(HashesOf(b), Len(b))
         /\ \A i \in 1 .. Len(b) : HashesOf(b)[i] = Hash(b[i])
         /\ SplitOf[b].root = computeMerkleRoot(HashesOf(b))
         /\ SplitOf[b].parts =
              [j \in 0 .. Len(b) - 1 |->
                 [index |-> j, bytes |-> b[j + 1],
                  proofPath |-> PathOf(HashesOf(b), j)]]
<1>1. PICK n \in 1 .. MaxParts : b \in [1 .. n -> Data]
  BY DEF Originals
<1>2. n \in Nat \ {0} /\ Len(b) = n /\ DOMAIN b = 1 .. n
  BY <1>1, PartsAssumption
<1>3. \A i \in 1 .. n : HashesOf(b)[i] = Hash(b[i])
  BY <1>2 DEF HashesOf
<1>4. IsSeq(HashesOf(b), n)
  BY <1>2 DEF HashesOf, IsSeq
<1>5. Tree(HashesOf(b), n) /\ Len(HashesOf(b)) = n
  BY <1>2, <1>4, TreeBuilt, LenIs
<1>6. SplitOf[b] = Split(b)
  BY DEF SplitOf
<1> DEFINE proofs == [j \in 0 .. n - 1 |-> PathOf(HashesOf(b), j)]
<1>7. buildMerkleTreeWithProofs(HashesOf(b)) = [root |-> computeMerkleRoot(HashesOf(b)), proofs |-> proofs]
  BY <1>5 DEF buildMerkleTreeWithProofs, PathOf
<1> HIDE DEF proofs
<1>8. /\ Split(b).root = computeMerkleRoot(HashesOf(b))
      /\ Split(b).parts = [j \in 0 .. n - 1 |-> [index |-> j, bytes |-> b[j + 1], proofPath |-> proofs[j]]]
  BY <1>2, <1>7 DEF Split, HashesOf
<1>9. \A j \in 0 .. n - 1 : proofs[j] = PathOf(HashesOf(b), j)
  BY DEF proofs
<1>10. QED
  BY <1>2, <1>3, <1>4, <1>5, <1>6, <1>8, <1>9

(* Every path that arrives is a sequence. *)
LEMMA PathsEnd ==
  ASSUME NEW part \in Parts
  PROVE  part.index \in Nat /\ Len(part.proofPath) \in Nat
<1>0. PICK b \in Originals : \E j \in DOMAIN SplitOf[b].parts :
        part \in {[index |-> i, bytes |-> Verified(b, j, k).bytes, proofPath |-> Verified(b, j, k).proofPath] :
                  i \in 0 .. MaxParts, k \in 0 .. Len(SplitOf[b].parts[j].proofPath)}
  BY DEF Parts
<1>01. PICK j \in DOMAIN SplitOf[b].parts :
        part \in {[index |-> i, bytes |-> Verified(b, j, k).bytes, proofPath |-> Verified(b, j, k).proofPath] :
                  i \in 0 .. MaxParts, k \in 0 .. Len(SplitOf[b].parts[j].proofPath)}
  BY <1>0
<1>1. PICK i \in 0 .. MaxParts, k \in 0 .. Len(SplitOf[b].parts[j].proofPath) :
        part = [index |-> i, bytes |-> Verified(b, j, k).bytes, proofPath |-> Verified(b, j, k).proofPath]
  BY <1>01
<1> DEFINE path == PathOf(HashesOf(b), j)
           D == Depth(HashesOf(b))
           S == {path[m] : m \in 1 .. D}
<1>2. SplitOf[b].parts[j].proofPath = path
  <2>1. j \in 0 .. Len(b) - 1
    BY SplitFacts
  <2>2. SplitOf[b].parts[j] = [index |-> j, bytes |-> b[j + 1], proofPath |-> path]
    BY <2>1, SplitFacts, Zenon
  <2>3. QED
    BY <2>2
<1>3. D \in Nat
  <2>1. D \in 0 .. Len(b) /\ Len(b) \in Nat
    BY SplitFacts, DepthFacts
  <2>2. QED
    BY <2>1
<1>4. IsSeq(path, D)
  BY <1>3 DEF IsSeq, PathOf
<1>5. Len(path) = D
  BY <1>4, LenIs
<1>6. path \in Seq(S)
  <2>1. path \in [1 .. D -> S]
    BY <1>4 DEF IsSeq
  <2> HIDE DEF path, S, D
  <2>2. QED
    BY <1>3, <2>1
<1>7. part.proofPath = SubSeq(path, k + 1, D)
  BY <1>1, <1>2, <1>5 DEF Verified
<1>8. k \in Nat
  BY <1>2, <1>3, <1>5
<1> HIDE DEF path, D, S
<1>9. SubSeq(path, k + 1, D) \in Seq(S)
  BY <1>3, <1>5, <1>6, <1>8
<1>10. QED
  BY <1>1, <1>7, <1>9, PartsAssumption

(* A set of indices as large as the block has every index. *)
LEMMA AllIndices ==
  ASSUME NEW n \in Nat \ {0}, NEW J \in SUBSET (0 .. n - 1), Cardinality(J) = n
  PROVE  J = 0 .. n - 1
<1>1. IsFiniteSet(0 .. n - 1) /\ Cardinality(0 .. n - 1) = n
  BY FS_Interval
<1>2. QED
  BY <1>1, FS_Subset

(* What is there by a proof of the block's length is what the block has;    *)
(* complete, the data is the block or missing.                              *)
Own(j) == Len(partSet.parts[j].proofPath) = OwnLength

PartsHeld ==
  /\ block \in Originals
  /\ DOMAIN partSet = {"total", "hash", "parts", "data"}
  /\ partSet.total = Len(block) /\ partSet.hash = SplitOf[block].root
  /\ DOMAIN partSet.parts \subseteq 0 .. Len(block) - 1
  /\ \A j \in DOMAIN partSet.parts : Own(j) => partSet.parts[j].bytes = block[j + 1]
  /\ IsComplete(partSet) =>
       /\ partSet.data \in {block, NoData}
       /\ (\A j \in DOMAIN partSet.parts : Own(j)) => partSet.data = block

LEMMA AddPartHolds ==
  ASSUME PartsHeld, NEW part \in Parts, ReceivePart(part)
  PROVE  PartsHeld'
<1> DEFINE n == Len(block)
           hs == HashesOf(block)
           J == DOMAIN partSet.parts \cup {part.index}
           parts == [j \in J |-> IF j = part.index THEN part ELSE partSet.parts[j]]
           Long(j) == Len(parts[j].proofPath) = Depth(hs)
<1>1. block \in Originals /\ block' = block
  BY DEF PartsHeld, ReceivePart
<1>2. /\ n \in Nat \ {0} /\ DOMAIN block = 1 .. n /\ Tree(hs, n) /\ IsSeq(hs, n)
      /\ \A i \in 1 .. n : hs[i] = Hash(block[i])
      /\ SplitOf[block].root = computeMerkleRoot(hs)
  BY <1>1, SplitFacts
<1>3. OwnLength = Depth(hs) /\ OwnLength' = Depth(hs)
  BY <1>1 DEF OwnLength, HashesOf
<1>4. /\ partSet.total = n /\ partSet.hash = computeMerkleRoot(hs)
      /\ DOMAIN partSet.parts \subseteq 0 .. n - 1
      /\ \A j \in DOMAIN partSet.parts :
           Len(partSet.parts[j].proofPath) = Depth(hs) => partSet.parts[j].bytes = block[j + 1]
  BY <1>2, <1>3 DEF PartsHeld, Own
<1>5. /\ part.index \in 0 .. n - 1
      /\ Len(part.proofPath) = Depth(hs) => part.bytes = block[part.index + 1]
  <2>1. part.index < n /\ verifyMerkleProof(Hash(part.bytes), part.index, part.proofPath, computeMerkleRoot(hs))
    BY <1>4 DEF ReceivePart, AcceptsPart
  <2>2. part.index \in 0 .. n - 1 /\ Len(part.proofPath) \in Nat
    BY <1>2, <2>1, PathsEnd
  <2> HIDE DEF n, hs
  <2>3. Len(part.proofPath) = Depth(hs) => Hash(part.bytes) = hs[part.index + 1]
    BY <1>2, <2>1, <2>2, ProofSound
  <2>4. hs[part.index + 1] = Hash(block[part.index + 1])
    BY <1>2, <2>2
  <2>5. QED
    BY <2>2, <2>3, <2>4, HashesDiffer
<1>6. J \subseteq 0 .. n - 1 /\ DOMAIN parts = J
  BY <1>4, <1>5
<1>7. \A j \in J : Long(j) => parts[j].bytes = block[j + 1]
  <2> HIDE DEF n, hs
  <2>1. ASSUME NEW j \in J, Len(parts[j].proofPath) = Depth(hs) PROVE parts[j].bytes = block[j + 1]
    <3>1. CASE j = part.index
      BY <1>5, <2>1, <3>1
    <3>2. CASE j # part.index
      BY <1>4, <2>1, <3>2
    <3>3. QED
      BY <3>1, <3>2
  <2>2. QED
    BY <2>1
<1> DEFINE data == IF Cardinality(J) = n THEN Assembled(parts, n, computeMerkleRoot(hs)) ELSE partSet.data
<1>8. /\ DOMAIN partSet' = {"total", "hash", "parts", "data"}
      /\ partSet'.parts = parts /\ partSet'.data = data /\ partSet'.total = n
      /\ partSet'.hash = computeMerkleRoot(hs)
  <2>1. partSet' = AddPart(partSet, part) /\ DOMAIN partSet = {"total", "hash", "parts", "data"}
    BY DEF ReceivePart, PartsHeld
  <2>2. DOMAIN parts = J
    OBVIOUS
  <2>3. AddPart(partSet, part) = [partSet EXCEPT !.parts = parts, !.data = data]
    BY <1>4, <2>2 DEF AddPart
  <2> HIDE DEF n, hs, parts, data
  <2>4. QED
    BY <1>4, <2>1, <2>3
<1>9. Cardinality(J) = n => data \in {block, NoData} /\ ((\A j \in J : Long(j)) => data = block)
  <2>1. SUFFICES ASSUME Cardinality(J) = n
                 PROVE  /\ Assembled(parts, n, computeMerkleRoot(hs)) \in {block, NoData}
                        /\ (\A j \in J : Long(j)) => Assembled(parts, n, computeMerkleRoot(hs)) = block
    OBVIOUS
  <2>2. J = 0 .. n - 1
    BY <1>2, <1>6, <2>1, AllIndices
  <2> DEFINE all == [i \in 1 .. n |-> parts[i - 1].bytes]
             gs == [i \in 1 .. n |-> Hash(all[i])]
  <2>3. block = [i \in 1 .. n |-> block[i]]
    BY <1>1, <1>2 DEF Originals
  <2>4. all = block => gs = hs
    BY <1>2 DEF HashesOf
  <2>5. (\A j \in J : Long(j)) => all = block
    <3> HIDE DEF parts, J
    <3>1. SUFFICES ASSUME \A j \in J : Long(j) PROVE all = block
      OBVIOUS
    <3>2. ASSUME NEW i \in 1 .. n PROVE parts[i - 1].bytes = block[i]
      <4>1. i - 1 \in J /\ (i - 1) + 1 = i
        BY <1>2, <2>2
      <4>2. QED
        BY <1>7, <3>1, <4>1
    <3>3. QED
      BY <2>3, <3>2
  <2>6. computeMerkleRoot(gs) = computeMerkleRoot(hs) => all = block
    <3>1. SUFFICES ASSUME computeMerkleRoot(gs) = computeMerkleRoot(hs) PROVE all = block
      OBVIOUS
    <3>2. IsSeq(gs, n)
      BY <1>2 DEF IsSeq
    <3> HIDE DEF all, hs, n
    <3>3. \A i \in 1 .. n : gs[i] = Hash(all[i])
      OBVIOUS
    <3> HIDE DEF gs
    <3>4. gs = hs
      BY <1>2, <3>1, <3>2, RootTells
    <3>5. \A i \in 1 .. n : all[i] = block[i]
      BY <1>2, <3>3, <3>4, HashesDiffer
    <3>6. all = [i \in 1 .. n |-> all[i]]
      BY DEF all
    <3>7. QED
      BY <2>3, <3>5, <3>6
  <2>7. Assembled(parts, n, computeMerkleRoot(hs)) =
          IF computeMerkleRoot(gs) = computeMerkleRoot(hs) THEN all ELSE NoData
    BY DEF Assembled
  <2> HIDE DEF all, gs, hs, n, parts, J, Long
  <2>8. QED
    BY <2>4, <2>5, <2>6, <2>7
<1>10. \A j \in J : Own(j)' <=> Long(j)
  BY <1>3, <1>8 DEF Own
<1> HIDE DEF n, hs, J, parts, data, Long
<1>11. IsComplete(partSet)' =>
         /\ partSet'.data \in {block', NoData}
         /\ (\A j \in DOMAIN partSet'.parts : Own(j)') => partSet'.data = block'
  BY <1>1, <1>6, <1>8, <1>9, <1>10 DEF IsComplete
<1>12. partSet'.total = Len(block') /\ partSet'.hash = SplitOf[block'].root
  BY <1>1, <1>2, <1>8 DEF n
<1>13. /\ DOMAIN partSet'.parts \subseteq 0 .. Len(block') - 1
       /\ \A j \in DOMAIN partSet'.parts : Own(j)' => partSet'.parts[j].bytes = block'[j + 1]
  BY <1>1, <1>6, <1>7, <1>8, <1>10 DEF n
<1>14. QED
  BY <1>1, <1>8, <1>11, <1>12, <1>13 DEF PartsHeld

(* A node that was given the header of a block holds the block's part at    *)
(* every index it has a proof of the block's length for, never gets other   *)
(* data out of a complete set than the block's, and accepts each missing    *)
(* part of it, for blocks of every size (AddPart, assembleData,             *)
(* buildMerkleTreeWithProofs, verifyMerkleProof).                           *)
THEOREM PartsTheorem == PartsSpec => []PartsAreRight
<1>1. PartsInit => PartsHeld
  <2>1. SUFFICES ASSUME PartsInit PROVE PartsHeld
    OBVIOUS
  <2>2. /\ block \in Originals
        /\ partSet = [total |-> Len(block), hash |-> SplitOf[block].root, parts |-> [j \in {} |-> NoData],
                      data |-> NoData]
    BY <2>1 DEF PartsInit, FromHeader
  <2>3. partSet.total = Len(block) /\ DOMAIN partSet.parts = {} /\ partSet.parts = [j \in {} |-> NoData]
        /\ partSet.data = NoData
    BY <2>2
  <2>4. Len(block) \in Nat \ {0}
    BY <2>2, SplitFacts
  <2>5. ~IsComplete(partSet)
    BY <2>3, <2>4, FS_EmptySet DEF IsComplete
  <2>6. QED
    BY <2>2, <2>3, <2>5 DEF PartsHeld
<1>2. PartsHeld /\ [PartsNext]_partVars => PartsHeld'
  <2>1. SUFFICES ASSUME PartsHeld, [PartsNext]_partVars PROVE PartsHeld'
    OBVIOUS
  <2>2. CASE PartsNext
    BY <2>1, <2>2, AddPartHolds DEF PartsNext
  <2>3. CASE UNCHANGED partVars
    BY <2>1, <2>3 DEF partVars, PartsHeld, IsComplete, Own, OwnLength
  <2>4. QED
    BY <2>1, <2>2, <2>3
<1>3. PartsHeld => PartsAreRight
  <2>1. SUFFICES ASSUME PartsHeld PROVE PartsAreRight
    OBVIOUS
  <2> DEFINE n == Len(block)
             hs == HashesOf(block)
  <2>2. /\ n \in Nat \ {0} /\ Tree(hs, n)
        /\ \A i \in 1 .. n : hs[i] = Hash(block[i])
        /\ SplitOf[block].root = computeMerkleRoot(hs)
    BY <2>1, SplitFacts DEF PartsHeld
  <2>3. ASSUME NEW j \in (0 .. n - 1) \ DOMAIN partSet.parts
        PROVE  AcceptsPart(partSet, SplitOf[block].parts[j])
    <3> DEFINE path == PathOf(hs, j)
    <3>1. SplitOf[block].parts[j] = [index |-> j, bytes |-> block[j + 1], proofPath |-> path]
      BY <2>1, SplitFacts DEF PartsHeld
    <3>2. partSet.total = n /\ partSet.hash = computeMerkleRoot(hs)
      BY <2>1, <2>2 DEF PartsHeld
    <3>3. hs[j + 1] = Hash(block[j + 1]) /\ j < n
      BY <2>2
    <3>4. verifyMerkleProof(hs[j + 1], j, path, computeMerkleRoot(hs))
      BY <2>2, ProofComplete
    <3> DEFINE part == SplitOf[block].parts[j]
    <3> HIDE DEF path, hs, n
    <3>5. part.index = j /\ part.bytes = block[j + 1] /\ part.proofPath = path
      BY <3>1
    <3> HIDE DEF part
    <3>6. verifyMerkleProof(Hash(part.bytes), part.index, part.proofPath, partSet.hash)
      BY <3>2, <3>3, <3>4, <3>5, Zenon
    <3>7. part.index < partSet.total /\ part.index \notin DOMAIN partSet.parts
      BY <3>2, <3>3, <3>5
    <3>8. AcceptsPart(partSet, part)
      BY <3>6, <3>7, Zenon DEF AcceptsPart
    <3>9. QED
      BY <3>8 DEF part
  <2>4. \A j \in DOMAIN partSet.parts : j < n /\ (Own(j) => partSet.parts[j].bytes = block[j + 1])
    BY <2>1, <2>2 DEF PartsHeld
  <2>5. IsComplete(partSet) =>
          /\ partSet.data \in {block, NoData}
          /\ (\A j \in DOMAIN partSet.parts : Own(j)) => partSet.data = block
    BY <2>1 DEF PartsHeld
  <2>6. QED
    BY <2>3, <2>4, <2>5 DEF PartsAreRight, Own
<1>4. QED
  BY <1>1, <1>2, <1>3, PTL DEF PartsSpec
=============================================================================
