--------------------------- MODULE ConsensusState ---------------------------
(***************************************************************************)
(* The consensus state machine of every validator (engine/state.go) on an  *)
(* asynchronous network that may delay, lose, duplicate and reorder.       *)
(*                                                                         *)
(* cs[n] is the ConsensusState of validator n.  Each handler runs to its   *)
(* end under cs.mu, so it is one action; the functions a handler calls are *)
(* operators from the record before the call to the record after it, and   *)
(* they are defined in the order callee first.  A Go panic is recorded in  *)
(* the record: the process is gone from then on.                           *)
(*                                                                         *)
(* Abstractions.  A block is named by the height and round it was created  *)
(* at; hashes are collision free, signatures cannot be forged, so a vote   *)
(* or proposal of a correct validator exists only if it was sent.  The     *)
(* application accepts every block, applies it and does not change the     *)
(* validator set.  The private validator is its last signed position: the  *)
(* engine stamps every message with the current time, so it never presents *)
(* the same sign bytes twice (module FilePV has the details).              *)
(***************************************************************************)
EXTENDS Integers, Sequences, FiniteSets, FiniteSetsExt

CONSTANTS
  Validators,   \* all validators
  Faulty,       \* validators that may send anything they can sign
  VotingPower,  \* VotingPower[v]: int64, within MaxTotalVotingPower
  Proposer,     \* Proposer[<<h, r>>]: GetProposerForRound(r) at height h
  CreateFails,  \* pairs <<h, r>> for which CreateProposalBlock returns an error
  MaxHeight,    \* bound: heights after this one are not run
  MaxRound,     \* bound: rounds after this one are not entered
  MaxCrashes,   \* bound: crashes, of all validators together
  Nil           \* the nil block hash, and the absent block

Heights == 1 .. MaxHeight
Rounds == 0 .. MaxRound
Correct == Validators \ Faulty

ASSUME ConsensusAssumption ==
  /\ IsFiniteSet(Validators) /\ Faulty \subseteq Validators
  /\ VotingPower \in [Validators -> Nat \ {0}]
  /\ Proposer \in [Heights \X Rounds -> Validators]
  /\ MaxHeight \in Nat \ {0} /\ MaxRound \in Nat /\ MaxCrashes \in Nat

NewHeight == 0
NewRound == 1
Propose == 2
Prevote == 3
PrevoteWait == 4
Precommit == 5
PrecommitWait == 6
Commit == 7

(* A correct proposer creates at most one block per height and round, a    *)
(* faulty one up to two.                                                   *)
BlocksOf(h, r) ==
  {<<h, r, i>> : i \in IF Proposer[<<h, r>>] \in Faulty THEN {0, 1}
                       ELSE IF <<h, r>> \in CreateFails THEN {} ELSE {0}}
Blocks == UNION {BlocksOf(h, r) : h \in Heights, r \in Rounds}

ASSUME NilAssumption == Nil \notin Blocks

Vote == [h : Heights, t : {"prevote", "precommit"}, r : Rounds,
         v : Validators, b : Blocks \cup {Nil}]

NoTimeout == [h |-> 0, r |-> 0, s |-> 0]
NoProposal == [h |-> 0, r |-> 0, b |-> Nil, polRound |-> -1, polVotes |-> {}]

VARIABLES
  cs,          \* cs[n]: the ConsensusState of correct validator n
  proposals,   \* every proposal a correct validator has broadcast
  votes,       \* every vote a correct validator has broadcast
  crashes      \* the number of crashes so far

vars == <<cs, proposals, votes, crashes>>

(* NewConsensusState, before Start. *)
InitState ==
  [height |-> 1, round |-> 0, step |-> NewHeight, proposal |-> NoProposal,
   lockedRound |-> -1, lockedBlock |-> Nil, validRound |-> -1, validBlock |-> Nil,
   votes |-> {}, signed |-> <<0, 0, 0>>, timer |-> NoTimeout, tocks |-> {},
   panic |-> "none", started |-> FALSE, decided |-> <<>>, outProposals |-> {}, outVotes |-> {}]

-----------------------------------------------------------------------------
(* Votes: HeightVoteSet and VoteSet, reduced to the set of votes held.     *)
(* Module VoteTracker has the running sums and the cached majority.        *)

PowerOf == [S \in SUBSET Validators |-> MapThenSumSet(LAMBDA v : VotingPower[v], S)]

(* ValidatorSet.TwoThirdsMajority *)
TwoThirdsMajority == (2 * PowerOf[Validators]) \div 3 + 1

VoteSet(c, t, r) == {v \in c.votes : v.t = t /\ v.r = r}

Sum(vs) == PowerOf[{v.v : v \in vs}]

HasTwoThirdsAny(c, t, r) == Sum(VoteSet(c, t, r)) >= TwoThirdsMajority

VotesFor(c, t, r, b) == {v \in VoteSet(c, t, r) : v.b = b}

(* maj23: the empty set, or the one hash with 2/3+ of the power. *)
Maj23(c, t, r) ==
  {b \in {v.b : v \in VoteSet(c, t, r)} :
     Sum(VotesFor(c, t, r, b)) >= TwoThirdsMajority}

(* addVoteInternal accepts the first vote of a validator, and only that. *)
CanAddVote(c, vote) ==
  /\ vote.h = c.height
  /\ ~ \E v \in c.votes : v.v = vote.v /\ v.t = vote.t /\ v.r = vote.r

-----------------------------------------------------------------------------
(* Helpers of the handlers. *)

Running(c) == c.started /\ c.panic = "none" /\ c.height <= MaxHeight

(* The process ends and its memory is lost.  What it has broadcast is out, *)
(* what it has applied stays applied.                                      *)
Panic(c, why) ==
  [InitState EXCEPT !.panic = why, !.started = TRUE, !.step = Commit,
                    !.height = c.height, !.signed = c.signed, !.decided = c.decided,
                    !.outProposals = c.outProposals, !.outVotes = c.outVotes]

(* TimeoutTicker: a new schedule stops the running timer, but that timer   *)
(* may have fired before, with its event still in tockCh.                  *)
ScheduleTimeout(c, s) ==
  [c EXCEPT !.tocks = c.tocks \cup ({c.timer} \ {NoTimeout}),
            !.timer = [h |-> c.height, r |-> c.round, s |-> s]]

(* FilePV.CheckHRS on the last signed height, round and step. *)
MaySign(c, s) ==
  LET l == c.signed
  IN  \/ l[1] < c.height
      \/ l[1] = c.height /\ l[2] < c.round
      \/ l[1] = c.height /\ l[2] = c.round /\ l[3] < s

(* Mutant: the hash of the block is not compared with the commit's. *)
finalizeCommitUnchecked(c, b) ==
  LET block == IF c.lockedBlock # Nil THEN c.lockedBlock ELSE c.proposal.b
  IN  IF block = Nil THEN Panic(c, "noBlock")
      ELSE ScheduleTimeout(
             [InitState EXCEPT !.started = TRUE, !.height = c.height + 1,
                               !.signed = c.signed, !.outVotes = c.outVotes,
                               !.outProposals = c.outProposals,
                               !.decided = Append(c.decided, block)],
             Commit)

(* finalizeCommitLocked: lockedBlock comes before proposalBlock. *)
finalizeCommit(c, b) ==
  LET block == IF c.lockedBlock # Nil THEN c.lockedBlock ELSE c.proposal.b
  IN  IF block = Nil THEN Panic(c, "noBlock")
      ELSE IF block # b THEN Panic(c, "hashMismatch")
      ELSE ScheduleTimeout(
             [c EXCEPT !.height = @ + 1, !.round = 0, !.step = NewHeight,
                       !.proposal = NoProposal,
                       !.lockedRound = -1, !.lockedBlock = Nil,
                       !.validRound = -1, !.validBlock = Nil,
                       !.votes = {}, !.decided = Append(@, block)],
             Commit)

(* enterCommitLocked: the latest round, not after cs.round, whose          *)
(* precommits have 2/3+ for a block.                                       *)
enterCommit(c) ==
  IF c.step >= Commit THEN c
  ELSE LET c1 == [c EXCEPT !.step = Commit]
           found == {r \in 0 .. c.round : Maj23(c, "precommit", r) \ {Nil} # {}}
       IN  IF found = {} THEN Panic(c1, "noCommit")
           ELSE finalizeCommit(c1, CHOOSE b \in Maj23(c, "precommit", Max(found)) : TRUE)

(* Mutant: no timer is started. *)
enterPrecommitWaitUntimed(c) ==
  IF c.step >= PrecommitWait THEN c ELSE [c EXCEPT !.step = PrecommitWait]

(* enterPrecommitWaitLocked *)
enterPrecommitWait(c) ==
  IF c.step >= PrecommitWait THEN c
  ELSE ScheduleTimeout([c EXCEPT !.step = PrecommitWait], PrecommitWait)

(* handlePrecommitLocked for a vote of the current round, which every vote *)
(* of one's own is.                                                        *)
precommitInRound(c) ==
  IF Maj23(c, "precommit", c.round) \ {Nil} # {} THEN enterCommit(c)
  ELSE IF HasTwoThirdsAny(c, "precommit", c.round) /\ c.step = Precommit
    THEN enterPrecommitWait(c)
  ELSE c

(* signAndSendVoteLocked up to AddVote: a refused signature ends it. *)
OwnVote(c, n, t, b) == [h |-> c.height, t |-> t, r |-> c.round, v |-> n, b |-> b]
StepOf(t) == IF t = "prevote" THEN 1 ELSE 2
AddOwnVote(c, n, t, b) ==
  LET vote == OwnVote(c, n, t, b)
      c1 == [c EXCEPT !.signed = <<c.height, c.round, StepOf(t)>>]
  IN  IF CanAddVote(c, vote) THEN [c1 EXCEPT !.votes = @ \cup {vote}]
      ELSE Panic(c1, "ownVote")

(* signAndSendVoteLocked after the own vote was handled: the broadcast. *)
Broadcast(c, vote) ==
  IF c.panic = "none" THEN [c EXCEPT !.outVotes = @ \cup {vote}] ELSE c

signPrecommit(c, n, b) ==
  IF ~MaySign(c, StepOf("precommit")) THEN c
  ELSE LET c1 == AddOwnVote(c, n, "precommit", b)
           c2 == IF c1.panic = "none" THEN precommitInRound(c1) ELSE c1
       IN  Broadcast(c2, OwnVote(c, n, "precommit", b))

Locked(c, r, b) ==
  [c EXCEPT !.lockedRound = r, !.lockedBlock = b, !.validRound = r, !.validBlock = b]
Unlocked(c) == [c EXCEPT !.lockedRound = -1, !.lockedBlock = Nil]

(* Mutant: locks on the proposal whatever block has the 2/3+. *)
enterPrecommitBlind(c, n, r) ==
  IF c.panic # "none" \/ c.round # r \/ c.step >= Precommit THEN c
  ELSE LET c1 == [c EXCEPT !.step = Precommit]
           b == IF Maj23(c, "prevote", r) \in {{}, {Nil}} THEN Nil ELSE c.proposal.b
       IN  signPrecommit(IF b # Nil THEN Locked(c1, r, b) ELSE c1, n, b)

(* Mutant: 2/3+ for nil clears the locked block but not its round. *)
enterPrecommitHalf(c, n, r) ==
  IF c.panic # "none" \/ c.round # r \/ c.step >= Precommit THEN c
  ELSE LET c1 == [c EXCEPT !.step = Precommit]
           maj == Maj23(c, "prevote", r)
           b == IF c.proposal.b \in maj THEN c.proposal.b ELSE Nil
       IN  signPrecommit(CASE maj = {Nil} -> [c1 EXCEPT !.lockedBlock = Nil]
                           [] maj # {Nil} /\ b # Nil -> Locked(c1, r, b)
                           [] OTHER -> c1,
                         n, b)

(* enterPrecommitLocked: 2/3+ for nil opens the lock, 2/3+ for the         *)
(* proposal closes it, and everything else is a precommit for nil.         *)
enterPrecommit(c, n, r) ==
  IF c.panic # "none" \/ c.round # r \/ c.step >= Precommit THEN c
  ELSE LET c1 == [c EXCEPT !.step = Precommit]
           maj == Maj23(c, "prevote", r)
           b == IF c.proposal.b \in maj THEN c.proposal.b ELSE Nil
       IN  signPrecommit(CASE maj = {Nil} -> Unlocked(c1)
                           [] maj # {Nil} /\ b # Nil -> Locked(c1, r, b)
                           [] OTHER -> c1,
                         n, b)

enterPrevoteWait(c) ==
  IF c.step >= PrevoteWait THEN c
  ELSE ScheduleTimeout([c EXCEPT !.step = PrevoteWait], PrevoteWait)

(* handlePrevoteLocked for a vote of the current round. *)
prevoteInRound(c, n) ==
  IF Maj23(c, "prevote", c.round) # {} THEN
    IF c.step \in {Prevote, PrevoteWait} THEN enterPrecommit(c, n, c.round) ELSE c
  ELSE IF HasTwoThirdsAny(c, "prevote", c.round) /\ c.step = Prevote
    THEN enterPrevoteWait(c)
  ELSE c

signPrevote(c, n, b) ==
  IF ~MaySign(c, StepOf("prevote")) THEN c
  ELSE LET c1 == AddOwnVote(c, n, "prevote", b)
           c2 == IF c1.panic = "none" THEN prevoteInRound(c1, n) ELSE c1
       IN  Broadcast(c2, OwnVote(c, n, "prevote", b))

(* validatePOL: every attached vote must be a prevote for this block. *)
validatePOL(p) ==
  /\ p.polVotes # {}
  /\ \A v \in p.polVotes :
       /\ v.t = "prevote" /\ v.h = p.h /\ v.r = p.polRound /\ v.b = p.b
       /\ \A w \in p.polVotes : w.v = v.v => w = v
  /\ Sum(p.polVotes) >= TwoThirdsMajority

canUnlock(c, p) ==
  /\ p.polRound >= 0
  /\ p.polRound > c.lockedRound
  /\ p.polRound < p.r
  /\ validatePOL(p)

(* Mutant: prevotes the proposal whatever the lock says. *)
enterPrevoteUnlocked(c, n, r) ==
  IF c.panic # "none" \/ c.round # r \/ c.step >= Prevote THEN c
  ELSE signPrevote([c EXCEPT !.step = Prevote], n, c.proposal.b)

(* enterPrevoteLocked: a lock on another block, or no proposal, is a       *)
(* prevote for nil, unless the proposal's POL opens the lock.              *)
enterPrevote(c, n, r) ==
  IF c.panic # "none" \/ c.round # r \/ c.step >= Prevote THEN c
  ELSE LET c1 == [c EXCEPT !.step = Prevote]
           p == c.proposal
           opens == c.lockedBlock \notin {Nil, p.b} /\ p.b # Nil /\ canUnlock(c, p)
           free == opens \/ c.lockedBlock \in {Nil, p.b}
       IN  signPrevote(IF opens THEN Unlocked(c1) ELSE c1, n, IF free THEN p.b ELSE Nil)

(* createAndSendProposalLocked *)
createAndSendProposal(c, n) ==
  LET block == CASE c.validBlock # Nil -> c.validBlock
                 [] c.validBlock = Nil /\ c.lockedBlock # Nil -> c.lockedBlock
                 [] OTHER -> IF <<c.height, c.round>> \in CreateFails THEN Nil
                             ELSE <<c.height, c.round, 0>>
      p == [h |-> c.height, r |-> c.round, b |-> block,
            polRound |-> c.validRound,
            polVotes |-> IF c.validRound >= 0
                           THEN VoteSet(c, "prevote", c.validRound) ELSE {}]
  IN  IF block = Nil \/ ~MaySign(c, 0) THEN c
      ELSE enterPrevote([c EXCEPT !.signed = <<c.height, c.round, 0>>,
                                  !.proposal = p, !.outProposals = {p}],
                        n, c.round)

(* enterNewRoundLocked: the current round may be entered again. *)
enterNewRound(c, n, r) ==
  IF c.panic # "none" \/ r < c.round THEN c
  ELSE LET c1 == [c EXCEPT !.round = r, !.proposal = NoProposal,
                           !.validRound = IF r = 0 THEN -1 ELSE @,
                           !.validBlock = IF r = 0 THEN Nil ELSE @,
                           !.step = Propose]
           c2 == ScheduleTimeout(c1, Propose)
       IN  IF Proposer[<<c.height, r>>] = n THEN createAndSendProposal(c2, n) ELSE c2

(* handlePrevoteLocked *)
handlePrevote(c, n, vote) ==
  IF vote.r > c.round /\ HasTwoThirdsAny(c, "prevote", vote.r) THEN
    LET c1 == enterNewRound(c, n, vote.r)
    IN  IF Maj23(c1, "prevote", vote.r) # {} THEN enterPrecommit(c1, n, vote.r)
        ELSE enterPrevote(c1, n, vote.r)
  ELSE IF vote.r = c.round THEN prevoteInRound(c, n)
  ELSE c

(* Mutant: a commit of a later round leaves cs.round where it is. *)
handlePrecommitStay(c, n, vote) ==
  IF Maj23(c, "precommit", vote.r) \ {Nil} # {} THEN enterCommit(c)
  ELSE IF vote.r > c.round /\ HasTwoThirdsAny(c, "precommit", vote.r) THEN
    enterPrecommit(enterPrevote(enterNewRound(c, n, vote.r), n, vote.r), n, vote.r)
  ELSE IF vote.r = c.round THEN precommitInRound(c)
  ELSE c

(* handlePrecommitLocked *)
handlePrecommit(c, n, vote) ==
  IF Maj23(c, "precommit", vote.r) \ {Nil} # {} THEN
    enterCommit([c EXCEPT !.round = IF vote.r > @ THEN vote.r ELSE @])
  ELSE IF vote.r > c.round /\ HasTwoThirdsAny(c, "precommit", vote.r) THEN
    enterPrecommit(enterPrevote(enterNewRound(c, n, vote.r), n, vote.r), n, vote.r)
  ELSE IF vote.r = c.round THEN precommitInRound(c)
  ELSE c

-----------------------------------------------------------------------------
(* Actions. *)

(* Round 0 may be entered again: a commit timeout is still to come. *)
MayRestart(c) ==
  /\ c.round = 0
  /\ \E ti \in c.tocks \cup {c.timer} : ti.h = c.height /\ ti.s = Commit

(* Some handler may still read the vote, or act on the timer event.  The   *)
(* rest is not delivered, or forgotten, to keep the state small.  Nothing  *)
(* is lost: no guard or result of a handler depends on it.  A faulty       *)
(* validator whose vote was forgotten may vote again, which only adds      *)
(* behaviours.                                                             *)
VoteMatters(c, n, v) ==
  IF v.t = "prevote"
    THEN \/ v.r > c.round
         \/ v.r = c.round /\ (c.step < Precommit \/ MayRestart(c))
         \/ v.r = c.validRound
              /\ \E r \in c.round + 1 .. MaxRound : Proposer[<<c.height, r>>] = n
    ELSE \/ v.r > c.round
         \/ v.r = c.round /\ (c.step < PrecommitWait \/ MayRestart(c))
         \/ v.b # Nil

TimeoutMatters(c, ti) ==
  /\ ti.h = c.height /\ ti.r >= c.round
  /\ ti.s = Commit \/ c.step <= ti.s \/ MayRestart(c)

(* The end of a handler: what it broadcast is on the network. *)
Finish(n, c) ==
  /\ cs' = [cs EXCEPT ![n] =
       [c EXCEPT !.outProposals = {}, !.outVotes = {},
                 !.tocks = {ti \in c.tocks : TimeoutMatters(c, ti)},
                 !.votes = {v \in c.votes : VoteMatters(c, n, v)}]]
  /\ proposals' = proposals \cup c.outProposals
  /\ votes' = votes \cup c.outVotes
  /\ UNCHANGED crashes

(* ConsensusState.Start *)
Start(n) ==
  /\ ~cs[n].started /\ cs[n].height <= MaxHeight
  /\ Finish(n, enterNewRound([cs[n] EXCEPT !.started = TRUE], n, 0))

(* handleProposal: other heights and rounds are dropped, and so is a       *)
(* second proposal or one whose POL does not validate.                     *)
AcceptsProposal(c, p) ==
  /\ Running(c)
  /\ p.h = c.height /\ p.r = c.round
  /\ c.proposal = NoProposal
  /\ p.polRound >= 0 => validatePOL(p)

ReceiveProposal(n, p) ==
  /\ AcceptsProposal(cs[n], p)
  /\ Finish(n, enterPrevote([cs[n] EXCEPT !.proposal = p], n, cs[n].round))

(* handleVote: a vote that is not added has no effect. *)
AcceptsVote(c, n, vote) == Running(c) /\ VoteMatters(c, n, vote) /\ CanAddVote(c, vote)

ReceiveVote(n, vote) ==
  LET c1 == [cs[n] EXCEPT !.votes = @ \cup {vote}]
  IN  /\ AcceptsVote(cs[n], n, vote)
      /\ Finish(n, IF vote.t = "prevote" THEN handlePrevote(c1, n, vote)
                                         ELSE handlePrecommit(c1, n, vote))

(* handleTimeout.  The bound MaxRound stops the last round's timer.        *)
AcceptsTimeout(c, ti) ==
  /\ Running(c)
  /\ ti.h = c.height /\ ti.r >= c.round
  /\ ti.s \in {c.step, Commit}
  /\ ti.s = PrecommitWait => c.round < MaxRound

Timeout(n, ti) ==
  LET c == [cs[n] EXCEPT !.timer = IF @ = ti THEN NoTimeout ELSE @,
                         !.tocks = @ \ {ti}]
  IN  /\ AcceptsTimeout(cs[n], ti)
      /\ CASE ti.s = Propose -> Finish(n, enterPrevote(c, n, c.round))
           [] ti.s = PrevoteWait -> Finish(n, enterPrecommit(c, n, c.round))
           [] ti.s = PrecommitWait -> Finish(n, enterNewRound(c, n, c.round + 1))
           [] ti.s = Commit -> Finish(n, enterNewRound(c, n, 0))

(* The timer that runs now, and one that fired before it was replaced. *)
TimerFires(n) == cs[n].timer # NoTimeout /\ Timeout(n, cs[n].timer)
LateTimeout(n) == \E ti \in cs[n].tocks : Timeout(n, ti)

(* Mutant: the private validator's file is lost in the crash. *)
CrashForgets(n) ==
  /\ cs[n].started /\ crashes < MaxCrashes
  /\ cs' = [cs EXCEPT ![n] = [InitState EXCEPT !.height = Len(cs[n].decided) + 1,
                                               !.decided = cs[n].decided]]
  /\ crashes' = crashes + 1
  /\ UNCHANGED <<proposals, votes>>

(* The process dies and is started again at the height after the last      *)
(* applied block: Engine.Start makes a new ConsensusState and does not     *)
(* replay the WAL.  The private validator's file survives.  Dying inside a *)
(* handler is dying after one that had seen fewer votes: what is lost is   *)
(* memory, and messages may be late or lost anyway.                        *)
Crash(n) ==
  /\ cs[n].started /\ crashes < MaxCrashes
  /\ cs' = [cs EXCEPT ![n] = [InitState EXCEPT !.height = Len(cs[n].decided) + 1,
                                               !.signed = cs[n].signed,
                                               !.decided = cs[n].decided]]
  /\ crashes' = crashes + 1
  /\ UNCHANGED <<proposals, votes>>

(* Everything a faulty validator can sign may arrive, at any time.  It     *)
(* knows the hashes of its own blocks and of those that were proposed.     *)
KnownBlocks ==
  {p.b : p \in proposals} \cup {b \in Blocks : Proposer[<<b[1], b[2]>>] \in Faulty}
FaultyVotes ==
  {v \in [h : Heights, t : {"prevote", "precommit"}, r : Rounds, v : Faulty,
          b : KnownBlocks \cup {Nil}] : v.b # Nil => v.b[1] = v.h /\ v.b[2] <= v.r}
FaultyProposals ==
  UNION {{[h |-> x[1], r |-> x[2], b |-> b, polRound |-> pr,
           polVotes |-> IF pr < 0 THEN {} ELSE
              {v \in votes \cup FaultyVotes :
                 v.h = x[1] /\ v.t = "prevote" /\ v.r = pr /\ v.b = b}] :
            b \in Blocks, pr \in -1 .. x[2] - 1} :
         x \in {y \in Heights \X Rounds : Proposer[y] \in Faulty}}

Init ==
  /\ cs = [n \in Correct |-> InitState]
  /\ proposals = {} /\ votes = {} /\ crashes = 0

Next ==
  \E n \in Correct :
    \/ Start(n)
    \/ \E p \in proposals \cup FaultyProposals : ReceiveProposal(n, p)
    \/ \E v \in votes \cup FaultyVotes : ReceiveVote(n, v)
    \/ TimerFires(n)
    \/ LateTimeout(n)
    \/ Crash(n)

Spec == Init /\ [][Next]_vars

(* What the goroutines guarantee on a network that loses nothing: Start is *)
(* called, the receive routine drains its channels, a running timer fires. *)
(* All of it is weak fairness; for the handlers the condition that enables *)
(* the action is written out, as TLC would evaluate the handler to find    *)
(* out whether it is enabled.                                              *)
FairSpec ==
  /\ Spec
  /\ \A n \in Correct :
       /\ WF_vars(Start(n))
       /\ \/ []<>(~ \E p \in proposals : AcceptsProposal(cs[n], p))
          \/ []<><<\E p \in proposals : ReceiveProposal(n, p)>>_vars
       /\ \/ []<>(~ \E v \in votes : AcceptsVote(cs[n], n, v))
          \/ []<><<\E v \in votes : ReceiveVote(n, v)>>_vars
       /\ \/ []<>(~ AcceptsTimeout(cs[n], cs[n].timer))
          \/ []<><<TimerFires(n)>>_vars

-----------------------------------------------------------------------------
(* Properties. *)

(* One type invariant; what a handler broadcasts leaves with it. *)
TypeOK ==
  \A n \in Correct : LET c == cs[n] IN
    /\ c.height \in 1 .. MaxHeight + 1 /\ c.round \in Rounds /\ c.step \in NewHeight .. Commit
    /\ c.lockedRound \in -1 .. c.round /\ c.lockedBlock \in Blocks \cup {Nil}
    /\ (c.lockedRound = -1) = (c.lockedBlock = Nil)
    /\ c.validRound \in -1 .. c.round /\ c.validBlock \in Blocks \cup {Nil}
    /\ (c.validRound = -1) = (c.validBlock = Nil)
    /\ c.votes \subseteq Vote /\ \A v \in c.votes : v.h = c.height
    /\ c.panic \in {"none", "noBlock", "hashMismatch", "noCommit", "ownVote"}
    /\ Len(c.decided) = c.height - 1 /\ c.outVotes = {} /\ c.outProposals = {}

(* The votes follow the locking rules of module Voting. *)

VotesOf(t) ==
  {[h |-> x.h, v |-> x.v, r |-> x.r, b |-> x.b] : x \in {y \in votes : y.t = t}}

Quorums == {Q \in SUBSET Validators : PowerOf[Q] >= TwoThirdsMajority}

V == INSTANCE Voting WITH prevotes <- VotesOf("prevote"), precommits <- VotesOf("precommit")

(* Votes of type t at height h and round r for b, counting what the faulty *)
(* validators could add, reach 2/3+.                                       *)
Certificate(h, t, r, b) ==
  LET voters == Faulty \cup {v.v : v \in {x \in votes :
                  x.h = h /\ x.t = t /\ x.r = r /\ x.b = b}}
  IN  PowerOf[voters] >= TwoThirdsMajority

(* "Never finalize conflicting blocks": no two correct validators apply    *)
(* different blocks at one height.                                         *)
Agreement ==
  \A m, n \in Correct : \A h \in Heights :
    Len(cs[m].decided) >= h /\ Len(cs[n].decided) >= h
      => cs[m].decided[h] = cs[n].decided[h]

(* What the locking rules do guarantee: if blocks are certified by         *)
(* precommits in two rounds and they differ, then a round strictly between *)
(* had 2/3+ prevotes for nil, the only thing that opens a lock without a   *)
(* newer polka (enterPrecommitLocked, enterPrevoteLocked).                 *)
ConflictNeedsNilPolka ==
  \A h \in Heights :
    LET committed == {x \in Rounds \X Blocks : Certificate(h, "precommit", x[1], x[2])}
    IN  \A x, y \in committed :
          x[1] <= y[1] /\ x[2] # y[2]
            => \E r \in x[1] + 1 .. y[1] - 1 : Certificate(h, "prevote", r, Nil)

(* A block is applied only with a certificate of 2/3+ precommits for that  *)
(* very block in one round (finalizeCommitLocked's hash check).            *)
DecidedIsCertified ==
  \A n \in Correct : \A h \in 1 .. Len(cs[n].decided) :
    \E r \in Rounds : Certificate(h, "precommit", r, cs[n].decided[h])

(* A correct validator never casts two votes of one type in one round. *)
OneVoteEach ==
  \A v, w \in votes : v.v = w.v /\ v.v \in Correct /\ v.h = w.h /\ v.t = w.t /\ v.r = w.r
                          => v = w

(* A lock, and every precommit for a block, stands on 2/3+ prevotes for    *)
(* that block in that very round.                                          *)
LockHasPolka ==
  /\ \A n \in Correct : cs[n].lockedBlock # Nil =>
       Certificate(cs[n].height, "prevote", cs[n].lockedRound, cs[n].lockedBlock)
  /\ \A v \in votes : v.v \in Correct /\ v.t = "precommit" /\ v.b # Nil =>
       Certificate(v.h, "prevote", v.r, v.b)

(* The panics "own vote was not added" and "no commit found" mark states   *)
(* that the state machine never reaches.                                   *)
NoImpossiblePanic == \A n \in Correct : cs[n].panic \notin {"ownVote", "noCommit"}

(* "Rounds advance automatically on timeout to ensure progress": with all  *)
(* validators correct and every message delivered, nobody stays in a round *)
(* for ever.  A height that panicked or was decided is left, too, and the  *)
(* bound MaxRound ends the claim.                                          *)
RoundsAdvance ==
  \A n \in Correct, h \in Heights, r \in 0 .. MaxRound - 1 :
    (cs[n].started /\ cs[n].height = h /\ cs[n].round = r)
      ~> \/ cs[n].height > h \/ cs[n].round > r
         \/ \E m \in Correct : cs[m].panic # "none"

(* Every handler casts only votes that the locking rules allow.  This is   *)
(* V!Spec, with the many steps that cast no vote looked at first.          *)
ImplementsVoting == V!Init /\ [][UNCHANGED V!vars \/ V!Next]_votes
=============================================================================
