---------------------------- MODULE VoteHandling ----------------------------
(***************************************************************************)
(* How a node deals with votes (handleVote and signAndSendVoteLocked in    *)
(* engine/state.go): every vote from the network is shown to the evidence  *)
(* pool and then added to the vote sets of the height; own votes only go   *)
(* to the vote sets.  The application tells the pool of committed heights  *)
(* and evidence, and passes on evidence from other nodes.                  *)
(***************************************************************************)
EXTENDS EvidencePool

CONSTANTS
  ValSets,     \* ValSets[h]: the validators of height h and their powers
  PubKeys,     \* PubKeys[h]: their public keys; an update may replace one
  Self,        \* this node's validator
  SelfKey,     \* the key of its private validator
  VoteTypes, Rounds,
  MaxVoteHeight, \* bound: no votes for later heights
  MaxCommits,  \* bound: pieces of evidence in blocks
  MaxSigs      \* bound: signatures of a commit

Heights == DOMAIN ValSets

(* What NewValidatorSet makes sure of: validators with positive powers, a  *)
(* key each, and a limited total.                                          *)
ASSUME HandlingAssumption ==
  /\ Heights \subseteq Nat \ {0} /\ 1 \in Heights
  /\ MaxVoteHeight \in Nat /\ MaxSigs \in Nat
  /\ \A h \in Heights :
       /\ DOMAIN ValSets[h] # {} /\ IsFiniteSet(DOMAIN ValSets[h]) /\ DOMAIN ValSets[h] \subseteq Nat
       /\ ValSets[h] \in [DOMAIN ValSets[h] -> Nat \ {0}]
       /\ SumOf(ValSets[h]) <= MaxTotalVotingPower
  /\ DOMAIN PubKeys = Heights
  /\ \A h \in Heights :
       /\ DOMAIN PubKeys[h] = DOMAIN ValSets[h]
       /\ \A v \in DOMAIN ValSets[h] : PubKeys[h][v] # NoKey

(* Votes as they may arrive, with at most one thing wrong with each.  A    *)
(* signature is wrong if no key verifies it, or only a key that its        *)
(* validator has at other heights.  The hashes of such votes are bounded:  *)
(* those with a wrong signature can still conflict.                        *)
Vote == [validator : UNION {DOMAIN ValSets[h] : h \in Heights},
         index : UNION {DOMAIN ValSets[h] : h \in Heights},
         h : 1 .. MaxVoteHeight, r : Rounds, t : VoteTypes, hash : Hashes,
         key : UNION {{PubKeys[h][v] : v \in DOMAIN ValSets[h]} : h \in Heights} \cup {NoKey},
         timely : BOOLEAN]

Flaws(v) == {f \in {"index", "signature", "time"} :
               \/ f = "index" /\ v.index # v.validator
               \/ /\ f = "signature"
                  /\ ~(/\ v.h \in Heights /\ v.validator \in DOMAIN PubKeys[v.h]
                       /\ v.key = PubKeys[v.h][v.validator])
               \/ f = "time" /\ ~v.timely}

Flawless == {v \in Vote : Flaws(v) = {}}
Incoming ==
  Flawless \cup {v \in Vote : \/ Flaws(v) = {"signature"} /\ v.hash # NilHash
                              \/ Flaws(v) \in {{"index"}, {"time"}} /\ v.hash \in BlockHashes}

(* What the pool keeps of votes, and its evidence. *)
SeenVote == {CopyVote(v) : v \in {x \in Vote : x.key # NoKey}}
Evidence == [h : 1 .. MaxVoteHeight, time : Nat, a : SeenVote, b : SeenVote]

ASSUME NoneAssumption == None \notin Evidence

(* Commits as VerifyCommit may see them. *)
CommitSig == [index : DOMAIN ValSets[1] \cup {0}, hash : Hashes, data : {"none", "good", "bad"}]
CommitSigs == BoundedSeq(CommitSig, MaxSigs)

VARIABLES
  hvs,            \* cs.votes
  pool,           \* cs.evidencePool
  added,          \* votes of this height for which AddVote returned true
  accounted,      \* voteKeys with evidence in the pool, or with a vote that
                  \* the pool was not shown or had no room for
  unreported,     \* other voteKeys of this height with an ErrConflictingVote
  invalid,        \* the pool's votes of this height that CheckVote created
                  \* invalid evidence for
  everCommitted   \* all evidence that was ever in a block

(* The clock, which moves between and within heights. *)
Now == {2 * hvs.height, 2 * hvs.height + 1}

vars == <<hvs, pool, added, accounted, unreported, invalid, everCommitted>>

Init ==
  /\ hvs = NewHeightVoteSet(1, ValSets[1], PubKeys[1])
  /\ pool = NewPool
  /\ added = {} /\ accounted = {} /\ unreported = {} /\ invalid = {}
  /\ everCommitted = {}

(* What AddVote returned, and the keys newly accounted for, remembered. *)
Remember(vote, err, keys) ==
  /\ added' = IF err = "nil" THEN added \cup {<<vote.t, vote.r, vote.index, vote.hash>>} ELSE added
  /\ accounted' = accounted \cup keys
  /\ unreported' = IF err = "ErrConflictingVote" THEN unreported \cup ({voteKey(vote)} \ accounted')
                   ELSE unreported

Accused(p) == {voteKey(e.a) : e \in ToSet(p.pending)}

(* Only this node signs for Self; its votes come back in the gossip. *)
Possible(vote) ==
  vote.validator = Self /\ vote.key = SelfKey =>
    vote.h = hvs.height /\ <<vote.t, vote.r, Self, vote.hash>> \in added

(* handleVote up to the state transitions (module ConsensusState). *)
handleVote(vote) ==
  /\ Possible(vote)
  /\ \E c \in UNION {CheckVote(pool, vote, hvs.pubKeys, now) : now \in Now} :
       LET a == AddVote(hvs, vote, FALSE)
           p == IF c.ev = None THEN c.pool ELSE AddDuplicateVoteEvidence(c.pool, c.ev, hvs.pubKeys)
           noRoom == c.err = "ErrVotePoolFull" \/ (c.ev # None /\ c.ev \notin ToSet(p.pending))
       IN  /\ pool' = p
           /\ hvs' = a.hvs
           /\ Remember(vote, a.err, Accused(p) \cup (IF noRoom THEN {voteKey(vote)} ELSE {}))
           /\ invalid' = invalid \cup (IF c.err = "invalid" /\ vote.h = hvs.height
                                     THEN Seen(pool, vote) ELSE {})
           /\ UNCHANGED <<everCommitted>>

(* signAndSendVoteLocked, for a validator with the key of the private      *)
(* validator, which signs at most one vote for each type and round: an own *)
(* vote is added and not shown to the pool.                                *)
signAndSendVote(t, r, hash) ==
  LET vote == [validator |-> Self, index |-> Self, h |-> hvs.height, r |-> r, t |-> t,
               hash |-> hash, key |-> SelfKey, timely |-> TRUE]
      a == AddVote(hvs, vote, FALSE)
  IN  /\ Self \in DOMAIN hvs.pubKeys /\ hvs.pubKeys[Self] = SelfKey
      /\ a.err = "nil"
      /\ hvs' = a.hvs
      /\ Remember(vote, "nil", {voteKey(vote)})
      /\ UNCHANGED <<pool, invalid, everCommitted>>

(* A vote is added through a pointer that Prevotes or Precommits gave out  *)
(* at this or an earlier height.                                           *)
AddToKept(ref, vote) ==
  /\ Possible(vote)
  /\ ref.generation = hvs.generation => <<ref.t, ref.r>> \in DOMAIN hvs.sets
  /\ LET a == AddVoteTo(hvs, ref, vote)
     IN  /\ hvs' = a.hvs
         /\ Remember(vote, a.err, IF a.err \in {"nil", "ErrConflictingVote"}
                                      THEN {voteKey(vote)} ELSE {})
  /\ UNCHANGED <<pool, invalid, everCommitted>>

(* finalizeCommitLocked moves to the next height. *)
NextHeight ==
  /\ hvs.height + 1 \in Heights
  /\ hvs' = Reset(hvs, hvs.height + 1, ValSets[hvs.height + 1], PubKeys[hvs.height + 1])
  /\ added' = {} /\ unreported' = {} /\ invalid' = {}
  /\ accounted' = {k \in accounted : k[2] > hvs.height}
  /\ UNCHANGED <<pool, everCommitted>>

-----------------------------------------------------------------------------
(* The application. *)

(* Update when a block is applied: heights only grow. *)
UpdatePool ==
  /\ pool.currentHeight < hvs.height
  /\ pool' = Update(pool, pool.currentHeight + 1, 2 * hvs.height)
  /\ UNCHANGED <<hvs, added, accounted, unreported, invalid, everCommitted>>

(* A block with some of the pending evidence is committed. *)
CommitEvidence(n) ==
  LET evs == ToSet(PendingEvidence(pool, n)) IN
  /\ n <= Len(pool.pending) /\ Cardinality(everCommitted) + n <= MaxCommits
  /\ pool' = MarkCommitted(pool, evs)
  /\ everCommitted' = everCommitted \cup evs
  /\ UNCHANGED <<hvs, added, accounted, unreported, invalid>>

(* Evidence comes back from another node. *)
ReceiveEvidence(ev) ==
  /\ pool' = AddDuplicateVoteEvidence(pool, ev, hvs.pubKeys)
  /\ accounted' = accounted \cup Accused(pool')
  /\ UNCHANGED <<hvs, added, unreported, invalid, everCommitted>>

Next ==
  \/ \E vote \in Incoming : handleVote(vote)
  \/ \E t \in VoteTypes, r \in Rounds, hash \in BlockHashes \cup {NilHash} :
       signAndSendVote(t, r, hash)
  \/ \E ref \in [t : VoteTypes, r : Rounds, generation : 0 .. hvs.generation],
        vote \in Flawless : AddToKept(ref, vote)
  \/ NextHeight
  \/ UpdatePool
  \/ \E n \in 1 .. MaxPendingEvidence : CommitEvidence(n)
  \/ \E ev \in everCommitted : ReceiveEvidence(ev)

Spec == Init /\ [][Next]_vars

-----------------------------------------------------------------------------
(* Properties. *)

TypeOK ==
  /\ hvs.height \in Heights /\ DOMAIN hvs.sets \subseteq VoteTypes \X Rounds
  /\ \A s \in DOMAIN hvs.sets :
       DOMAIN hvs.sets[s].votes \subseteq DOMAIN hvs.valSet
  /\ pool.seenVotes \subseteq SeenVote
  /\ Cardinality(pool.seenVotes) <= MaxSeenVotes
  /\ Len(pool.pending) <= MaxPendingEvidence
  /\ \A v, w \in pool.seenVotes : voteKey(v) = voteKey(w) => v = w

(* The running sums of addVoteInternal agree with the votes, and maj23 is  *)
(* the one block, or nil, that 2/3+ of the power voted for.                *)
TallyIsExact ==
  \A s \in DOMAIN hvs.sets :
    LET vs == hvs.sets[s]
        voters(key) == {v \in DOMAIN vs.votes : blockHashKey(vs.votes[v]) = key}
        power(key) == Power(hvs.valSet, voters(key))
    IN  /\ vs.sum = Power(hvs.valSet, DOMAIN vs.votes)
        /\ \A key \in {blockHashKey(x) : x \in Hashes} :
             /\ BlockPower(vs, key) = power(key)
             /\ (vs.maj23 = key) = (power(key) >= Quorum(hvs.valSet))

(* A commit that MakeCommit builds from precommits passes VerifyCommit and *)
(* VerifyCommitLight with the validator set of its height.                 *)
CommitVerifies ==
  \A s \in DOMAIN hvs.sets :
    LET commit == MakeCommit(hvs.sets[s], s[1], hvs.height, s[2])
    IN  commit # None =>
          /\ VerifyCommit(hvs.valSet, commit.hash, hvs.height, commit) = "nil"
          /\ VerifyCommitLight(hvs.valSet, commit.hash, hvs.height, commit) = "nil"

(* VerifyCommit accepts a commit only if validators with 2/3+ of the power *)
(* of the set signed its block, however the signatures are repeated, left  *)
(* empty or forged.  For each validator set, over all short commits.       *)
CommitsNeedQuorum ==
  hvs.sets = <<>> /\ pool = NewPool =>
    \A sigs \in CommitSigs, hash \in BlockHashes :
      LET commit == [h |-> hvs.height, r |-> 0, hash |-> hash, sigs |-> sigs]
          signers == {s.index : s \in {x \in ToSet(sigs) : x.hash = hash /\ x.data = "good"}}
      IN  VerifyCommit(hvs.valSet, hash, hvs.height, commit) = "nil" =>
            Power(hvs.valSet, signers \cap DOMAIN hvs.valSet) >= Quorum(hvs.valSet)

(* A vote that AddVote accepted is counted at the height it was accepted   *)
(* at, also when it came through a vote set kept across Reset: the stale   *)
(* set refuses, "to prevent lost votes".                                   *)
NoVoteLost ==
  added = UNION {{<<s[1], s[2], v, hvs.sets[s].votes[v]>> : v \in DOMAIN hvs.sets[s].votes} :
                 s \in DOMAIN hvs.sets}

(* Whenever the vote sets refuse a vote because it conflicts with one they *)
(* hold, the pool has or had evidence against that validator for that      *)
(* height, round and type, unless one of the two votes bypassed the pool   *)
(* or found it full: pruning never takes a vote that is still needed.      *)
(* The one other exception is a validator whose key was replaced: the pool *)
(* took an early vote of the same height, round and type with the old key, *)
(* and CheckVote has said "created invalid evidence" for it.               *)
ConflictsAreReported ==
  \A k \in unreported : \E w \in invalid :
    voteKey(w) = k /\ w.key # PubKeys[w.h][w.validator]

(* Evidence that was in a block never waits for a block again, also after  *)
(* pruneExpired has dropped it from the committed ones.                    *)
CommittedOnce == everCommitted \cap ToSet(pool.pending) = {}

(* A vote leaves the pool only when it is too old for evidence, or below   *)
(* the protection window.                                                  *)
ProtectedVotesStay ==
  [][\A w \in pool.seenVotes \ pool'.seenVotes :
       \/ w.h < pool'.currentHeight - VoteProtectionWindow
       \/ TooOld(pool', w.h)]_vars
=============================================================================
