----------------------------- MODULE PeerState -----------------------------
(* engine/peer_state.go: what a node knows of a peer's consensus state, as  *)
(* operators on the fields of PeerState.  A bitmap is the set of indices    *)
(* that are set.  A validator set is known by its size, all that bitmaps    *)
(* take from it.  Every operator is one method, under the lock of the peer. *)
EXTENDS Naturals

CONSTANT Peers  \* the peers that come and go

RoundStepNewHeight == 0
RoundStepCommit == 7

(* NewPeerState *)
NewPeerState(valSet) ==
  [height |-> 0, round |-> 0, step |-> RoundStepNewHeight, proposal |-> FALSE,
   prevotes |-> {}, precommits |-> {}, numVals |-> valSet,
   lastCommitRound |-> 0, catchingUp |-> FALSE, valSet |-> valSet]

(* VoteBitmap.Set: an index beyond the size of the bitmap is ignored. *)
Set(ps, bits, index) == IF index >= ps.numVals THEN bits ELSE bits \cup {index}

(* PeerState.SetHasProposal *)
SetHasProposal(ps, height, round) ==
  IF ps.height # height \/ ps.round # round THEN ps ELSE [ps EXCEPT !.proposal = TRUE]

(* PeerState.SetHasVote *)
SetHasVote(ps, vote) ==
  IF vote.height # ps.height \/ vote.round # ps.round THEN ps
  ELSE IF vote.type = "prevote"
         THEN [ps EXCEPT !.prevotes = Set(ps, @, vote.index)]
         ELSE [ps EXCEPT !.precommits = Set(ps, @, vote.index)]

(* Mutant: a new round of the same height keeps the votes of the old one. *)
ApplyNewRoundStepKeeping(ps, height, round, step) ==
  IF height < ps.height THEN ps
  ELSE IF height > ps.height
    THEN [NewPeerState(ps.valSet) EXCEPT !.height = height, !.round = round, !.step = step]
  ELSE IF round < ps.round THEN ps
  ELSE IF round > ps.round
    THEN [ps EXCEPT !.round = round, !.step = step, !.proposal = FALSE]
  ELSE IF step > ps.step THEN [ps EXCEPT !.step = step] ELSE ps

(* PeerState.ApplyNewRoundStep: only forward; votes and the proposal are    *)
(* forgotten with their round.                                              *)
ApplyNewRoundStep(ps, height, round, step) ==
  IF height < ps.height THEN ps
  ELSE IF height > ps.height
    THEN [NewPeerState(ps.valSet) EXCEPT !.height = height, !.round = round, !.step = step]
  ELSE IF round < ps.round THEN ps
  ELSE IF round > ps.round
    THEN [ps EXCEPT !.round = round, !.step = step, !.proposal = FALSE,
                    !.prevotes = {}, !.precommits = {}, !.numVals = ps.valSet]
  ELSE IF step > ps.step THEN [ps EXCEPT !.step = step] ELSE ps

(* Mutant: a commit of any height. *)
ApplyCommitAny(ps, height, round) ==
  [ps EXCEPT !.lastCommitRound = round, !.step = RoundStepCommit]

(* PeerState.ApplyCommit *)
ApplyCommit(ps, height, round) ==
  IF height # ps.height THEN ps
  ELSE [ps EXCEPT !.lastCommitRound = round, !.step = RoundStepCommit]

(* PeerState.SetCatchingUp *)
SetCatchingUp(ps, catching) == [ps EXCEPT !.catchingUp = catching]

(* PeerState.UpdateValidatorSet *)
UpdatePeerValidatorSet(ps, valSet) ==
  [ps EXCEPT !.valSet = valSet, !.numVals = valSet, !.prevotes = {}, !.precommits = {}]

(* PeerState.NeedsVote *)
NeedsVote(ps, vote) ==
  /\ vote.height = ps.height /\ vote.round = ps.round
  /\ vote.index \notin IF vote.type = "prevote" THEN ps.prevotes ELSE ps.precommits

(* PeerState.NeedsProposal *)
NeedsProposal(ps, height, round) ==
  ps.height = height /\ ps.round = round /\ ~ps.proposal

-----------------------------------------------------------------------------
(* PeerSet: a function from the peers that are connected to their states.  *)

(* PeerSet.AddPeer: a peer that is already there keeps its state. *)
AddPeer(peers, p, valSet) ==
  [q \in DOMAIN peers \cup {p} |-> IF q \in DOMAIN peers THEN peers[q] ELSE NewPeerState(valSet)]

(* PeerSet.RemovePeer *)
RemovePeer(peers, p) == [q \in DOMAIN peers \ {p} |-> peers[q]]

(* PeerSet.UpdateValidatorSet *)
UpdateValidatorSet(peers, valSet) ==
  [q \in DOMAIN peers |-> UpdatePeerValidatorSet(peers[q], valSet)]
=============================================================================
