# A formal model of leaderberry

TLA+ modules for the consensus engine in this repository, the TLC runs that
check them on small instances, and theorems that TLAPS proves for every
instance. Everything is translated from the Go code; `PROJECT.json` maps each
definition to its lines.

## The system

leaderberry is a Tendermint-style BFT consensus engine. A host application
supplies the network, the block executor and the block store; the engine decides
one block per height.

| Part | State | Operations | Talks to |
|---|---|---|---|
| Consensus state machine, `engine/state.go` | height, round, step, proposal, locked and valid block, votes | `handleProposal`, `handleVote`, `handleTimeout`, the `enter...Locked` transitions, `Start` | all others |
| Timeout ticker, `engine/timeout.go` | one timer, two channels | `ScheduleTimeout`, `run` | state machine |
| Vote tracking, `engine/vote_tracker.go` | votes by index and block, sums, cached 2/3+ block, generation | `AddVote`, `Reset`, `MakeCommit` | state machine, commit verification |
| Commit verification, `types/vote.go` | none | `VerifyCommit`, `VerifyCommitLight` | block sync, light clients |
| Validator set, `types/validator.go` | powers, priorities, proposer | `IncrementProposerPriority`, `GetProposerForRound`, `applyValidatorUpdates` | state machine |
| Private validator, `privval` | key, last sign state, two files, a lock | constructors, `SignVote`, `SignProposal`, `Reset`, `Close` | state machine |
| Evidence pool, `evidence/pool.go` | seen votes, pending and committed evidence | `CheckVote`, `AddEvidence`, `Update`, `MarkCommitted`, `PendingEvidence` | `handleVote`, application |
| Write-ahead log, `wal` | segments, buffer, height index | `Write`, `WriteSync`, `SearchForEndHeight`, `Checkpoint`, `Start`, `Stop` | state machine, replay |
| Replay, `engine/replay.go` | none of its own | `ReplayWAL`, `ReplayCatchup` | log, state machine |
| Block sync, `engine/blocksync.go` | state, heights, pending requests | `Start`, `Stop`, `syncLoop`, `ReceiveBlock` | peer state, store, commit verification |
| Peer state, `engine/peer_state.go` | what a peer has, catching-up flag | `ApplyNewRoundStep`, `SetHasVote`, `UpdateValidatorSet`, ... | gossip of the host, block sync |
| Block parts, `types/block_parts.go` | parts, bitmap | `NewPartSetFromData`, `AddPart` | nothing yet |

What makes this hard: messages that are late, lost, repeated or reordered;
timers that fire after they were replaced; validators that lie; processes that
die between two writes; two processes on one key; limits at which something is
forgotten. `hazards` in `PROJECT.json` lists these at the lines where they bite.

## The modules

| Module | Models |
|---|---|
| `Voting` | The abstract specification: which votes the locking rules let a correct validator cast |
| `ConsensusState` | The state machine of every validator with its timers, over a network, with faulty validators, crashes and restarts; implements `Voting` |
| `ValidatorSet` | Quorum size, proposer rotation, validator updates, as operators |
| `ValidatorUpdates` | A validator set from height to height |
| `VoteTracker` | Vote sets, height vote sets, commits and their verification, as operators |
| `EvidencePool` | The evidence pool, as operators |
| `VoteHandling` | A node that handles votes: `VoteTracker` and `EvidencePool` composed as `handleVote` composes them |
| `FilePV` | The private validator: processes, the lock, the two files, failures |
| `FileWAL` | The log with its writer and `ReplayWAL` |
| `PeerState` | What is known of peers, as operators |
| `PeerGossip` | Peers that go through rounds and the `PeerSet` that follows them |
| `BlockSync` | The block syncer with its loop and callbacks, between store, peers and network; uses `PeerState` |
| `BlockParts` | Merkle trees with proofs, and a part set that is filled |
| `VotingProofs`, `ConsensusProofs`, `VoteHandlingProofs`, `FilePVProofs`, `FileWALProofs` | Theorems about the modules they are named after |
| `NetworkProofs` | Theorems about `BlockSync`, `PeerGossip` and `BlockParts` |
| `ConsensusHandlers` | The invariant of `ConsensusState`, and that each handler keeps it, for `ConsensusProofs` |
| `SumProofs` | Sums over finite sets, and induction over numbers, for the other proofs |
| `MCVoting`, `MCConsensus`, `MCVotes`, `MCFilePV`, `MCNetwork` | Small instances for TLC |

### ConsensusState

`cs[n]` is the `ConsensusState` struct of validator `n`. Each handler runs to its
end under `cs.mu`, so each is one action: `Start`, `ReceiveProposal`
(`handleProposal`), `ReceiveVote` (`handleVote`), `TimerFires` and `LateTimeout`
(`handleTimeout`), and `Crash`. What a handler calls is an operator from record
to record, including the recursion through the validator's own vote:
`enterPrevote` signs, adds its own vote, and may go on to precommit and commit in
the same step. Go panics are values of the field `panic`.

Messages that were broadcast stay in `proposals` and `votes` and may be received
any time, again, or never, so a full channel (`AddVote` drops) is a message that
is never received. A faulty validator may send any vote at any time, for nil and for
the blocks that were proposed or that it may propose itself, its own proposals too. A
faulty proposer has two blocks of its own for a round, enough to show different ones to
different validators, and may propose any block of another round. `tocks` has the events
of timers that were replaced after they fired.

To keep the state small, votes and events that no handler can act on any more
are dropped (`VoteMatters`, `TimeoutMatters`); no guard depends on them.

Left out: `SkipTimeoutCommit`, executors that fail in `ApplyBlock`, the round
overflow at 2^31, and validator updates (module `ValidatorUpdates`). A block is
valid for every validator.

### Voting

Votes of correct validators only. A prevote for a block needs, for every earlier
precommit of the same validator for another block, a polka (2/3+ prevotes for one
value) in a round between that was not for the locked block. A precommit for a block needs a polka in its
round. Heights do not influence each other. `ConsensusState` implements it, with its
votes as the refinement mapping: a run checks `ImplementsVoting` on an instance, and
`ConsensusProofs` proves it for every instance without crashes and with less than a third
of the power faulty. `ImplementsVoting` is `V!Spec`, with the many steps
that cast no vote looked at first, which TLC decides faster.

### ValidatorSet and ValidatorUpdates

Priorities are integers with the clamping and centring of the code. The limits of
the code, 2^60 for the total power and 2^63 for an `int64`, keep their ratio: they
are `MaxTotalVotingPower` and `8 * MaxTotalVotingPower`.

### VoteTracker, EvidencePool and VoteHandling

`handleVote` shows a vote to the pool and then adds it to the vote sets, which
have different rules. A vote may claim a wrong index, be signed with another key than
its validator's, or be out of the time window. A validator set is its powers and its
public keys, and a vote has the key it is signed with (`VerifyVoteSignature`), so a
validator update may replace a key (`engine/state.go:193`) while the pool still has votes
that were signed with the old one. The node itself signs only where its key is that of a
validator. Votes for no block come as a nil pointer and as an empty
hash, which `blockHashKey` identifies and `votesEqual` does not. A vote set
that a caller kept across `Reset` is named by its generation. The application calls
`Update`, `PendingEvidence` and `MarkCommitted`; nothing in the engine does.

### FilePV

Every step that another process, a crash or a power failure may come between is
an action: key read, lock, state read, temporary file and rename, directory sync,
return of the signature. `file` is what a reader sees, `synced` what survives a
power failure. `isSame` compares the hashes of the sign bytes. State files without that
hash, which older versions wrote, and the weaker comparison that the code keeps for them
are left out. `Uses` lists ways of use, of which one is chosen at the start; the
predicate `Discipline` says what callers must respect for the guarantees to hold.

### FileWAL

A segment is a sequence of records; a crash leaves a prefix of what was being
written, and maybe a torn record, on which the decoder fails with or without an
error depending on where it was cut. Applying a block and logging the end of its
height are two actions, with crashes in between.

The code syncs files and never their directory. A process that dies loses nothing that
was synced, but a power failure (`PowerFailure`) may take any segment whose directory
entry is not known to be on disk: all that were created since the last power failure
(`onDisk` has the others). `lost` has the durable messages that went this way.

### PeerState and PeerGossip

A bitmap is the set of its indices, a validator set its size. Each method is one
operator, since it holds the lock of the peer. `PeerGossip` adds the peers
themselves (`real`): what they report is true when they send it and arrives late,
twice, in any order. `MarkPeerCatchingUp` takes the peer's lock twice and is two actions.

### BlockSync

The three calls of `syncLoop` are three actions, as each takes the lock for itself.
`ReceiveBlock` is called with the block a peer was asked for (`Answer`) and with any
other (`Gossip`): not asked for, again, with the commit of another height or
a commit for another block. Requests time out whenever a check is made. `callbacks`
and `caughtUps` are goroutines that were started and have not ended; `Stop` waits for
them. Peers report the height they have or the one they work on (`ahead`).

The host is a careful one: it calls `Start` and `Stop` in turn, hands over blocks only
in between, runs block callbacks in the order of heights and sets the validators of
the next height in them, and has applied its store before `Start`. The store's height
is the one below its first gap. *Known limits* says what depends on this.

### BlockParts

A hash tells what was hashed, so nothing collides. The code hashes the bytes of a part and
two hashes written one after the other alike, and so does the model: a part may consist of
two hashes. The levels of the tree, the proofs and the climb of a proof are translated, as
recursive functions; sizes in bytes are not. A node that knows only the header is given
parts of all blocks under all indices, and, as parts, what is hashed further up in their
trees with the rest of the path, since `verifyMerkleProof` asks for no length of the path.

## The runs

Run one with `tlc -workers 2 -config <cfg> <module>`. "States" are distinct states.

| Run | Module, cfg | Checks | States |
|---|---|---|---|
| `privval` | `MCFilePV`, `FilePV.cfg` | `NoDoubleSign`, `ReleasedAreCovered`, `MemoryMatchesFile`, `ReleasedInOrder`, `FileRegressesOnlyByReset` | 466 thousand |
| `validators` | `ValidatorUpdates`, `ValidatorUpdates.cfg` | `TypeOK`, `PrioritiesBounded`, `EveryoneProposes`, `EveryoneGetsARound` | 20 thousand |
| `voting_faulty` | `MCVoting`, `Voting_faulty.cfg` | `IInv`, `ConflictNeedsNilPolka` | 406 thousand |
| `consensus_faulty_voter` | `MCConsensus`, `Consensus_faulty_voter.cfg` | `TypeOK`, `ConflictNeedsNilPolka`, `ImplementsVoting` | 367 thousand |
| `consensus_faulty_proposer` | `Consensus_faulty_proposer.cfg` | `LockHasPolka`, `DecidedIsCertified` | 151 thousand |
| `consensus_restarts` | `Consensus_restarts.cfg` | `OneVoteEach`, `NoImpossiblePanic` | 128 thousand |
| `consensus_progress` | `Consensus_progress.cfg` | `RoundsAdvance` | 165 |
| `consensus_agreement_bug` | `Consensus_agreement_bug.cfg` | `Agreement`, violated | |
| `consensus_stall_bug` | `Consensus_stall_bug.cfg` | `RoundsAdvance`, violated | |
| `votes` | `MCVotes`, `Votes.cfg` | `TypeOK`, `TallyIsExact`, `CommitVerifies`, `CommitsNeedQuorum`, `NoVoteLost`, `ConflictsAreReported`, `CommittedOnce`, `ProtectedVotesStay` | 307 thousand |
| `wal` | `FileWAL`, `WAL.cfg` | `LogTypeOK`, `NothingLost`, `SearchIsRight`, `ReplayIsExact` | 1.4 million |
| `network` | `MCNetwork`, `Network.cfg` | block sync: `TypeOK`, `SyncedIsStored`, `StateMatchesHeights`, `NotifiedOnce`, `CatchesUp`, `StopEnds`; peers: `OffersAreRight`, `ViewIsBehind`; parts: `PartsAreRight` | 225 thousand |

Every property of a passing run has a mutant in `PROJECT.json`: a plausible slip
in the code it is about, with which TLC finds it violated.

### Bounds

*privval.* Two processes are enough for every race on one lock. Height and round
have one value each, so a state file has three positions, the steps of a round:
enough for earlier, same and later. Two contents make a double sign, two keys a
key that was replaced. Five ways of use are explored, not all combinations.

*validators.* Up to three validators, total power up to 8, two updates, which
include joins, power changes and removals in one call. Quotients, clamps and the
penalty of a newcomer all take effect within these numbers.

*consensus.* Powers 2, 1 and 1: a quorum is 3, so validator 1 is in every quorum
and 2 and 3 are not interchangeable in the rotation. One faulty validator has
less than a third. Proposers come from `ValidatorSet`, not from a table.
With rounds 0 and 1 a lock is taken, carried over and used. `ConflictNeedsNilPolka`
says more with three rounds, when a nil polka fits between; in
`consensus_faulty_voter` it says that rounds 0 and 1 never disagree.
`voting_faulty` has three rounds, and the theorem any number.
`consensus_restarts` has two heights, because the commit timeout that restarts a
round belongs to the second.

*votes.* Two validators whose powers change at each of three heights, one of which gets
a new key at the second, and one that leaves; one block, and the two spellings of nil, so conflicts occur. The
pool's limits are at most 2, so it is full, pruned and expired within the run.
`CommitsNeedQuorum` looks at all commits of up to three signatures. Only
precommits in round 0: rounds and types are keys of independent vote sets.

*wal.* Segments that rotate after every record or after three, an index that
forgets all but one height, two heights, four messages, two stops or crashes and any power
failures after them. The first crash is enough for a torn record to be opened and appended
to; the second lets a power failure take a segment that was created after the first.

*network.* The three components share no state, so one is chosen at the start and the
others stand still. Block sync: three heights, a change of validators at the third, at
most two pending requests, so the limit is reached while a block is missing, and one
`Stop` or departure of the peer. Peers: two heights, two rounds, and validator sets of
one and two, so an index may be out of range. Parts: up to five of two contents, which
has odd levels at the bottom and above it, and paths of every shorter length.

Deadlock is checked for `privval`, `validators`, `votes` and `wal`. The consensus
and voting runs end at their last round or height, so it is switched off there. It is
switched off for `network`, too, where a complete part set takes nothing more.

### Fairness

`FairSpec` assumes what the goroutines do on a network that loses nothing: `Start`
is called; the receive routine takes messages from its channels, so a proposal or
a vote that stays acceptable is accepted; the running timer fires. It is weak
fairness, with the enabling conditions of the receive routine and the timer written out. No fairness is assumed of
crashes, of events of replaced timers or of faulty validators, and both runs that
use it have none of the latter.

`RoundsAdvance` also accepts a panic of some validator as the end of a round.
With that, it says that nobody is stuck silently. It holds at the first height,
`consensus_progress`, and fails as soon as there is a second, `consensus_stall_bug`.
It is not a claim that a block is ever decided.

`Fairness` of `BlockSync`: the loop and the callbacks go on (weak fairness), and
what chance decides does not go wrong for ever (strong fairness): the request for the
next block is made and answered if that is possible again and again, a request that
stays pending is too old at some check, and the loop sees its cancelled context although
the ticker may be ready, too, as Go's `select` chooses at random. Nothing is assumed of
unsolicited blocks, of `Start` and `Stop` or of peers that come and go.

## The two violations

**Agreement.** `docs/reference/consensus-protocol.md:45` says that "two honest
validators will never commit conflicting blocks at the same height". Three correct
validators and lost messages are enough to violate it. Validator 2 commits B0 in
round 0. Validator 1 is locked on B0. In round 1 there is no proposal, so 1 and 3
prevote nil (`enterPrevoteLocked`; a locked validator does not prevote its lock),
2/3+ nil prevotes make 1 drop the lock (`engine/state.go:836`), and in round 2 both
commit another block. `CutSpec` narrows the network to reach round 2; its steps are steps of `Spec`.

What the locking rules do give is `ConflictNeedsNilPolka`: a conflict has 2/3+ nil
prevotes in a round between. This is proved, for `Voting` and for the engine, which
implements it, as long as correct validators do not crash. It does not extend to restarts,
which lose the lock.

**Stall.** `engine/doc.go:61` says "Rounds advance automatically on timeout to
ensure progress". After a commit, a proposal of the new height may arrive before the
commit timeout; the validator prevotes. The timeout then enters round 0 again
(`engine/state.go:1185`) and forgets the proposal. The private validator refuses a
second prevote, the step ends without its vote, and step Prevote has no timer.

## The proofs

`tlapm <module>` checks them.

**Locking rules** (`VotingProofs`), for any validators, rounds and blocks.
`LockingInvariant`: `Spec => []IInv`. `ConflictNeedsNilPolkaTheorem`:
`Spec => []ConflictNeedsNilPolka`. The property alone is not inductive, since it
says nothing of votes that are not yet certificates. `IInv` adds that a validator
votes once per round and type, that a precommit for a block has a polka, and that
every prevote for a block was allowed by the lock. The last one stays true
because polkas never vanish and no validator precommits in a round before one it
has voted in. From `IInv`, take the first round after r1 with a polka for anything
but b1 (`FirstRound`). If the polka were for a block, a validator common to it and to
the certificate of r1 (`CommonVoter`) would have been unlocked by a still earlier
one (`EarlierPolka`). So it is for nil.

Assumptions: two quorums share a correct validator (`QuorumAssumption`), rounds are
naturals and nil is no block (`VotingAssumption`).

**Consensus state machine** (`ConsensusHandlers`, `ConsensusProofs`), for any validators,
powers, proposers, faulty validators, heights, rounds and blocks. With any number of
crashes and restarts, and whatever power is faulty: `TypeCorrect`, `VotesOnce`
(`OneVoteEach`), `PanicsImpossible` (`NoImpossiblePanic`), `LocksHavePolkas`
(`LockHasPolka`) and `DecisionsCertified` (`DecidedIsCertified`). Without crashes, and
with less than a third of the power faulty: `Refinement` (`Spec => V!Spec`),
`VotesFollowLocks` (`ImplementsVoting`), `ConflictsNeedNilPolka`, which carries the
theorem of `VotingProofs` over, and `AgreementTheorem`: two correct validators apply
different blocks at a height only if some round of it had 2/3+ nil prevotes. Both
hypotheses are in the statements. Without the first the refinement is false: a restarted
validator has no lock and may prevote against its own precommit.

A handler is a chain of operators that call each other, so the invariant has to hold
between them, where a vote is signed and counted but not yet broadcast. `Good(c, n, g, P)`
is the invariant there: `g` is the state in which the handler began, `P` the votes signed
since, and a vote counts as sent as soon as it is signed. `ConsensusHandlers` states it and
has one lemma for each operator from the signing of a vote (`SignSound`) to the handlers.
`Good` says that every vote held was sent or is a faulty validator's; that nothing
was signed after the position the private validator keeps, and nothing twice; that a lock
has its polka, a decision its certificate, and a precommit for a block its polka; and,
without crashes, that a validator is locked on what it precommitted or was released by
a later polka for something else (`Kept`, `Released`). The last is what the refinement
needs. It is not inductive without the others, since a released lock has to stay released when the
round is entered again. `IInv` is `Good` for every validator between handlers.

`QuorumsMeet` derives `QuorumAssumption` of `Voting` from powers: with less than
a third of the power faulty, two groups that reach `TwoThirdsMajority` share a correct
validator. It rests on `SumUnion` and `SumMonotone` of `SumProofs`.

Assumptions: `ConsensusState` names what it needs of its constants (finitely many
validators with positive power, the proposers among them, nil is no block).

**Votes, commits and evidence** (`VoteHandlingProofs`), for any validator sets, heights,
rounds, types, block hashes and limits of the pool. `TypeCorrect`, `TalliesExact`
(`TallyIsExact`), `NoVotesLost` (`NoVoteLost`), `ConflictsReported`
(`ConflictsAreReported`), `EvidenceCommittedOnce` (`CommittedOnce`), `CommitsHaveQuorum`
(`CommitsNeedQuorum`), `CommitsVerify` (`CommitVerifies`), and `SeenVotesStay` (the action
property `ProtectedVotesStay`).
The inductive invariant has these parts:

- Each vote set is right for the validators of the height (`VoteSetOK`): sums and sums by
  block are those of the votes, and the cached majority is the one block with a quorum.
  That it is the only one needs that two quorums of one validator set meet
  (`QuorumsOfOneSetMeet`), or a second block could reach a quorum and not be cached.
- `CommittedKnown`: evidence of a block is still known or already too old. Without
  the second half, evidence could wait again once `pruneExpired` has forgotten it: the
  two age limits have to agree.
- `CountedSeen`: a counted vote has its vote key accounted for, or the pool still has the
  vote, or the pool's vote for that key made invalid evidence because its signature is not
  by the key of the height (`Excused`). The last case is the exception that
  `ConflictsAreReported` names. A vote of the present height is never pruned, because the pool's height is not
  above the node's.

`CommitIsSound` is about `VerifyCommit` alone: for any validator set and any sequence of
signatures, it accepts only what 2/3+ of the power signed. The loop over the signatures
is a recursive function; `LoopExists` and an induction over its turns give its meaning.
`QuorumVerifies` is the converse for signatures in order, one for each validator, and
`MadeCommitVerifies` says that `MakeCommit` gives such: with the sums right, the cached
majority has a quorum of votes, and their sorted indices (`Sorted`, which `SortedFacts`
shows to exist and to list each validator once) pass every test of the loop. So what one
node commits, every other accepts.

`QuorumIsLeastAboveTwoThirds` and `QuorumsOverlap`: the number that `TwoThirdsMajority`
computes is the least above two thirds, and two groups that reach it overlap in more than
a third. The code divides before it multiplies to avoid overflow; `QuorumOf` does the same.

Assumptions: `HandlingAssumption` (what `NewValidatorSet` checks: a non-empty set,
positive powers, a limited total, and a key for each validator), `PoolAssumption`, `HashAssumption`, `NoneAssumption`.

**Private validator** (`FilePVProofs`), for any number of processes, keys, heights,
rounds and contents. `NoDoubleSignTheorem`, `ReleasedAreCoveredTheorem`,
`MemoryMatchesFileTheorem`, `ReleasedInOrderTheorem` (from the same invariant: a
signature leaves at the position of the file, which covers all that left before), and
`TypeCorrect`: types, under `Discipline`. The
inductive invariant adds to the types that whoever is between `acquireLock` and the
end of `saveState` owns the lock (`LockInv`); that an owner's memory equals the file,
or is later than it while a save is under way (`OwnerInv`); and that every signature
handed out is covered by the file and, where the power may fail, by what is durable
of it (`CoverInv`). Without `OwnerInv`, a step of `saveState` could move the file back.

Assumptions: `HRAssumption` (heights are positive, rounds are naturals),
`UsesAssumption`, and `NoneAssumption` (the markers for "none" are no values).

`Discipline` is part of the statements, not an assumption about constants: no
`GenerateFilePV` or `Reset` on files in use, no use after `Close`, and no re-signing
where the power may fail. The next section says what happens otherwise.

**Write-ahead log** (`FileWALProofs`), for any segment sizes, size of the index, numbers of
heights, messages, stops, crashes and power failures. `LogTypeTheorem`, `NothingLostTheorem`,
`SearchTheorem` and `ReplayTheorem`: `LogSpec` implies `[]LogTypeOK`, `[]NothingLost`,
`[]SearchIsRight` and `[]ReplayIsExact`. All four follow from `LogInvariance`. Its invariant
`LogInv` speaks of the segments with the buffer behind the current one (`Whole`): the
messages there, leaving out what is cut, have increasing numbers, each height has at most
one end, and none has an end above the last height that ended (`LogOK`). While the process
runs that is the height before the current one; after a crash it may be the last applied,
since the end may have been written when the process died. Without this, a restart could
write a second end of a height, and a search would stop at the wrong one. The lemmas say what
an operation does to the log: it adds one message behind all others (`Adds`: `Write`), it
keeps some of the messages (`Within`: flush, rotation, crash, power failure), or it drops whole segments
without messages above the checkpoint (`DeletableHas`). What is to be kept is what is durable
and not `lost`. `SearchFacts` holds for any height
index. The order of `OfHeight`'s result is proved by induction over the messages read.
Assumption: `WALAssumption`, the bounds are naturals and segments have room for a record.

**Block sync** (`NetworkProofs`), for any number of heights, peers, requests, stops
and validator sets. `ProgressIsReal`: `Spec => []SyncedIsStored`. `StateIsRight`:
`Spec => []StateMatchesHeights`. `EachBlockOnce`: `Spec => NotifiedOnce`.
`LimitedRequests`: `Spec => []TypeOK`, with the limit of pending requests. The inductive
invariant joins the first two properties with `HeightsOK`: callbacks were started only
for heights that were passed. A restart makes the link between them needed: what was
passed is stored, so the height that `Start` finds is not lower (`StartKeeps`). For the
limit, a turn of `requestMissingBlocks` adds to what is pending no more than there is room
for, since it picks that many heights that are not pending yet.
Assumption: `MaxHeightAssumption`, the heights are naturals.

**Peers** (`NetworkProofs`), for any number of peers, heights, rounds and validators.
`OffersTheorem`: `GossipSpec => []OffersAreRight`. `BehindTheorem`:
`GossipSpec => []ViewIsBehind`. For each peer the invariant `Known` says that the view is
not ahead of the peer, that what it says of the peer's present round is true, and that its
bitmaps have the size of the validator set. The first is needed for the second: a late
report is harmless because it can only be taken into a view of a round that the peer has
left. Assumption: `GossipAssumption`, heights, rounds and validator sets are naturals.

**Block parts** (`NetworkProofs`), for any contents and number of parts. `ProofSound`:
with a path as long as the tree is deep, `verifyMerkleProof` accepts at an index only the
leaf that is there; with a shorter path only the content of a node above the leaves; with a
longer one only if some leaf is itself the hash of a pair.
`ProofComplete`: it accepts each leaf with the path that `buildMerkleTreeWithProofs` gives
it. `PartsTheorem`: `PartsSpec => []PartsAreRight`. The tree is a recursive function from
levels to nodes. `LevelsExist` shows that it exists, `TreeBuilt` which leaves are under a
node: those of the indices that have its position as quotient by the power of two. So
the bit of the index that `verifyMerkleProof` looks at tells on which side of its pair the
node is, which gives completeness (`Children`). For soundness, a climb that ends in the
root has its last step at the root, and going back down (`ClimbMeets`) it meets at each
level the node over the index, until the path or the tree ends. That a complete set never
has other data than the block's rests on `assembleData`, which computes the root again
from as many leaves as the header has. Assumption: `PartsAssumption`, the number of parts
is a natural.

Only model-checked:

- `RoundsAdvance`, `CatchesUp` and `StopEnds` are liveness, which is out of the prover's reach.
- `ValidatorUpdates`: `EveryoneProposes` and `EveryoneGetsARound` follow whole turns of the
  rotation, for which there is no invariant simpler than the rotation itself.
  `PrioritiesBounded` is not inductive: the bound after a step follows from the spread of
  the priorities before it, through a quotient by the number of validators and a sum that
  the code skips on overflow.

Induction over numbers is possible (`Induction` in `SumProofs`, on sets of numbers), and the
sums, loops and trees above are proved with it.

## Known limits

Behaviours that the models have, or that the code shows, and that no property rules out.

*Consensus.*

- The panic `noBlock` (`engine/state.go:917`) is reachable with correct validators
  when 2/3+ precommits arrive before the proposal.
- The panic `hashMismatch` (`engine/state.go:912`) is reachable when a validator is locked
  on an older block than the one that is committed.
- A proposal's proof of lock has all prevotes held for the round, for any block
  (`engine/state.go:507`); `docs/reference/consensus-protocol.md:395` says "2/3+
  prevotes for B". One prevote for something else makes every receiver refuse it.
- A restart forgets the lock: `Engine.Start` (`engine/engine.go:83`) makes a new state
  and replays nothing. The comment at `engine/state.go:849` says the node "will
  remember it was locked". `OneVoteEach` still holds, thanks to the private validator.

*Private validator.*

- The key is read before the lock is taken (`privval/file_pv.go:75`). If
  `GenerateFilePV` replaces key and state in between, the old key signs on a zero state.
- The idempotent branch (`privval/file_pv.go:535`) returns a signature on a state that a
  power failure may take back; `ARCHITECTURE.md:666` says it is on disk.
- If `saveState` fails after its rename, `Reset` (`privval/file_pv.go:730`) restores the
  memory although the file is already zero.
- `SignVote` and `SignProposal` work after `Close`, when another process may own the lock.

*Validators.*

- The validator that pays for a turn is not the one recorded as proposer
  (`types/validator.go:317`), so shares are not proportional to power
  (`ARCHITECTURE.md:1229` says they are), and after an update a validator may never
  propose. `EveryoneProposes` is therefore stated for the genesis powers.
- A newcomer may propose at once, despite the penalty (`engine/state.go:221`).

*Evidence and commits.*

- The key of evidence contains the time it was made (`evidence/pool.go:162`), so one
  offence may be pending and committed several times. `CommittedOnce` is about one
  piece of evidence.
- The pool may hold a vote that was signed with a key its validator has no longer: a vote
  of a height to come is verified with the key of the moment (`evidence/pool.go:142`). When
  the validator votes at that height with its new key, the conflict is found, the evidence
  is invalid (`evidence/pool.go:171`), and the conflict is not reported.
  `ConflictsAreReported` names this exception.
- The engine never calls `Update`, `PendingEvidence` or `MarkCommitted`; the host must.
- `VerifyCommitLight` refuses an unknown validator with an empty signature for the
  block, which `VerifyCommit` skips. It also accepts a commit whose signatures are empty.

*Log.*

- The reader given to replay ends with its segment (`wal/file_wal.go:500`): messages
  behind a rotation are not replayed. `ReplayIsExact` is about that segment.
- Records appended behind a torn one cannot be read (`wal/file_wal.go:247`).
- A `Checkpoint` that fails half-way leaves `MinIndex` at a removed file
  (`wal/file_wal.go:583`), and later checkpoints stop there.
- No directory is ever synced (`wal/file_wal.go:247`, `wal/file_wal.go:366`): after
  `WriteSync` has returned, a power failure may take the whole segment if it is new.
  `NothingLost` excepts exactly this. `PowerFailure` does not bring back segments that a
  checkpoint removed.
- After a block is applied and before its end is logged (`engine/state.go:962`), a crash
  leaves a log without that end; a replay of the next height then finds nothing.
- Nothing but tests calls `ReplayWAL` and `ReplayCatchup`. The latter restores a locked
  round that is 0 by default.

*Block sync and peers.*

- `Start` begins at the store's height (`engine/blocksync.go:158`). A block may be
  saved before the one below it. With a store whose height is that of its highest
  block, as the one of the tests, a restart then skips the gap.
- Blocks that were saved, but for which no callback was started before a crash, get
  none later. The host has to look at its store.
- `ReceiveBlock` does not look at `started`: a block handed over after `Stop` starts a
  callback that `Stop` did not wait for. `CHANGELOG.md:472` says "`Stop()` waits for all
  callbacks to complete". A callback that calls `Stop` waits for itself.
- Callbacks are goroutines of their own. A host that calls `UpdateValidatorSet` in them
  without ordering them may put an older set over a newer one.
- A peer's height is the one it works on, if the host reports consensus steps. The
  syncer then asks for a block that does not exist yet, and at the tip of the chain
  is Syncing rather than CaughtUp.
- A block that came out of order is asked for and saved a second time.
- `MarkPeerCatchingUp` reads the height and sets the flag under two locks of the peer, so
  the flag may be set on a peer that has moved on meanwhile.
- A peer that restarts without being removed and added again keeps its old position,
  since reports of an earlier round are ignored.

*Block parts.*

- A header with no parts is complete without data.
- `verifyMerkleProof` does not look at the length of the path (`types/block_parts.go:231`).
  The two hashes of an inner node, with the rest of the path, are accepted as a part. The
  block's own part of that index is then refused as already there, and the complete set
  has no data. It never has other data.
- `PartsSpec` has parts that verify for some block, under any index, with paths up to the
  length of that block's; `ProofSound` speaks of every path.

## Not modelled

- `PartSetBitmap` with its encoding in bytes: a set of indices and two conversions.
- `ReplayCatchup` and `WALWriter`, which nothing calls.
- `SkipTimeoutCommit`, executors that fail, `SetPeerMaj23`, which nothing reads,
  and full timer channels of 100 entries.
- State files of the private validator without a hash of the sign bytes.
- The migration of a legacy log, failing reads of healthy files, record sizes.
- Signatures, hashing, names, permissions and serialisation, generated code
  included: conversions without state, abstracted to names of values.

## Plan

The order so far was: private validator, validator set, locking rules, state machine,
votes and evidence, log, block sync, peers, block parts. Next:

1. `ReplayCatchup` with `FileWAL`, once the engine uses it.
2. Proofs: the priorities of `ValidatorUpdates`.
3. `ConsensusState` with `VoteTracker` in place of its set of votes, and `BlockSync`
   handing over to it.
