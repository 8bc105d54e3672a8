---------------------------- MODULE VoteTracker ----------------------------
(***************************************************************************)
(* Vote sets (engine/vote_tracker.go) and commit verification              *)
(* (types/vote.go), as operators on records.                               *)
(*                                                                         *)
(* A validator set is two functions on the validators' indices, their      *)
(* powers (valSet) and their public keys (pubKeys); the index of a         *)
(* validator is also its name.  A vote carries the name and the index its  *)
(* sender claims, the key that it is signed with (NoKey for a signature    *)
(* that no key verifies), and whether its timestamp is within              *)
(* MaxTimestampDrift of the clock.                                         *)
(* BlockHash is a pointer: NilHash is the nil pointer and EmptyHash one    *)
(* without data or of zeros (IsHashEmpty); both stand for "no block".      *)
(***************************************************************************)
EXTENDS ValidatorSet, Sequences, SequencesExt

CONSTANTS BlockHashes, NilHash, EmptyHash, None, NoKey

ASSUME HashAssumption ==
  /\ NilHash # EmptyHash /\ {NilHash, EmptyHash} \cap BlockHashes = {}
  /\ None \notin BlockHashes \cup {NilHash, EmptyHash}

Hashes == BlockHashes \cup {NilHash, EmptyHash}

(* blockHashKey: one key for both ways to vote for no block. *)
blockHashKey(hash) == IF hash = EmptyHash THEN NilHash ELSE hash

(* votesEqual, for votes of one validator in one vote set: the pointers'   *)
(* targets are compared, and nil differs from empty.                       *)
votesEqual(a, b) == a = b

Power(valSet, S) == MapThenSumSet(LAMBDA v : valSet[v], S)
Quorum(valSet) == QuorumOf(SumOf(valSet))

-----------------------------------------------------------------------------
(* VoteSet: the hashes voted for, by index, their powers by block, and the *)
(* first block with 2/3+.                                                  *)

NewVoteSet == [votes |-> <<>>, sum |-> 0, votesByBlock |-> <<>>, maj23 |-> None]

(* The power that voted for a block, or for none. *)
BlockPower(vs, key) == IF key \in DOMAIN vs.votesByBlock THEN vs.votesByBlock[key] ELSE 0

VerifyVoteSignature(vote, pubKey) == vote.key # NoKey /\ vote.key = pubKey

(* The error of addVoteInternal, in the order of its checks.             *)
voteError(vs, valSet, pubKeys, vote) ==
  IF vote.index \notin DOMAIN valSet \/ vote.index # vote.validator THEN "ErrUnknownValidator"
  ELSE IF ~VerifyVoteSignature(vote, pubKeys[vote.index]) THEN "ErrInvalidSignature"
  ELSE IF vote.index \in DOMAIN vs.votes
    THEN IF votesEqual(vs.votes[vote.index], vote.hash) THEN "duplicate" ELSE "ErrConflictingVote"
  ELSE IF \/ vs.sum > MaxInt64 - valSet[vote.index]
          \/ BlockPower(vs, blockHashKey(vote.hash)) > MaxInt64 - valSet[vote.index]
    THEN "overflow"
  ELSE "nil"

With(f, k, x) == [j \in DOMAIN f \cup {k} |-> IF j = k THEN x ELSE f[j]]

(* Mutant: the quorum itself is not enough. *)
storeVoteStrict(vs, valSet, vote) ==
  LET key == blockHashKey(vote.hash)
      totalPower == BlockPower(vs, key) + valSet[vote.index]
  IN  [votes |-> With(vs.votes, vote.index, vote.hash), sum |-> vs.sum + valSet[vote.index],
       votesByBlock |-> With(vs.votesByBlock, key, totalPower),
       maj23 |-> IF totalPower > Quorum(valSet) /\ vs.maj23 = None THEN key ELSE vs.maj23]

(* The modifications at the end of addVoteInternal. *)
storeVote(vs, valSet, vote) ==
  LET key == blockHashKey(vote.hash)
      totalPower == BlockPower(vs, key) + valSet[vote.index]
  IN  [votes |-> With(vs.votes, vote.index, vote.hash), sum |-> vs.sum + valSet[vote.index],
       votesByBlock |-> With(vs.votesByBlock, key, totalPower),
       maj23 |-> IF totalPower >= Quorum(valSet) /\ vs.maj23 = None THEN key ELSE vs.maj23]

-----------------------------------------------------------------------------
(* HeightVoteSet: a vote set per type and round, made when first needed.   *)
(* generation tells the sets of this height from those of earlier ones.    *)

NewHeightVoteSet(height, valSet, pubKeys) ==
  [height |-> height, valSet |-> valSet, pubKeys |-> pubKeys, sets |-> <<>>, generation |-> 0]

SetOf(hvs, t, r) == IF <<t, r>> \in DOMAIN hvs.sets THEN hvs.sets[<<t, r>>] ELSE NewVoteSet

(* HeightVoteSet.AddVote, and AddVoteForReplay, which takes any timestamp. *)
(* A refused vote may still have made its vote set.                        *)
AddVote(hvs, vote, replay) ==
  IF vote.h # hvs.height THEN [hvs |-> hvs, err |-> "ErrInvalidHeight"]
  ELSE LET vs == SetOf(hvs, vote.t, vote.r)
           err == IF ~replay /\ ~vote.timely THEN "ErrInvalidVote"
                  ELSE voteError(vs, hvs.valSet, hvs.pubKeys, vote)
           new == IF err = "nil" THEN storeVote(vs, hvs.valSet, vote) ELSE vs
       IN  [hvs |-> [hvs EXCEPT !.sets = With(@, <<vote.t, vote.r>>, new)], err |-> err]

(* Mutant: the generation of a vote set is not compared. *)
AddVoteToAny(hvs, ref, vote) ==
  IF ref.generation # hvs.generation THEN [hvs |-> hvs, err |-> "nil"]
  ELSE IF vote.r # ref.r \/ vote.t # ref.t THEN [hvs |-> hvs, err |-> "ErrInvalidVote"]
  ELSE AddVote(hvs, vote, FALSE)

(* VoteSet.AddVote on a vote set that a caller got from Prevotes or        *)
(* Precommits and kept.                                                    *)
AddVoteTo(hvs, ref, vote) ==
  IF ref.generation # hvs.generation THEN [hvs |-> hvs, err |-> "ErrStaleVoteSet"]
  ELSE IF vote.r # ref.r \/ vote.t # ref.t THEN [hvs |-> hvs, err |-> "ErrInvalidVote"]
  ELSE AddVote(hvs, vote, FALSE)

(* Reset: all vote sets of the old height are dropped and become stale. *)
Reset(hvs, height, valSet, pubKeys) ==
  [height |-> height, valSet |-> valSet, pubKeys |-> pubKeys, sets |-> <<>>,
   generation |-> hvs.generation + 1]

-----------------------------------------------------------------------------
(* Commits: sigs is a sequence of records; data is "none" for an empty     *)
(* signature, "good" or "bad" for one that does or does not verify.        *)

(* The numbers of a finite set, from the smallest up. *)
Sorted(S) ==
  CHOOSE f \in [1 .. Cardinality(S) -> S] : \A i, j \in 1 .. Cardinality(S) : i < j => f[i] < f[j]

(* Mutant: every vote of the set signs the block. *)
MakeCommitOfAll(vs, t, h, r) ==
  IF t # "precommit" \/ vs.maj23 \in {None, NilHash} THEN None
  ELSE LET order == Sorted(DOMAIN vs.votes)
       IN  [h |-> h, r |-> r, hash |-> vs.maj23,
            sigs |-> [k \in DOMAIN order |->
                        [index |-> order[k], hash |-> vs.maj23,
                         data |-> IF vs.votes[order[k]] = vs.maj23 THEN "good" ELSE "bad"]]]

(* MakeCommit: the votes for the block with 2/3+, by index. *)
MakeCommit(vs, t, h, r) ==
  IF t # "precommit" \/ vs.maj23 \in {None, NilHash} THEN None
  ELSE LET voters == {v \in DOMAIN vs.votes : vs.votes[v] = vs.maj23}
           order == Sorted(voters)
       IN  [h |-> h, r |-> r, hash |-> vs.maj23,
            sigs |-> [k \in DOMAIN order |->
                        [index |-> order[k], hash |-> vs.maj23, data |-> "good"]]]

(* One turn of VerifyCommit's loop; err stays once it is set. *)
VerifySig(valSet, hash, acc, sig) ==
  IF acc.err # "nil" THEN acc
  ELSE IF sig.index \in acc.seen THEN [acc EXCEPT !.err = "ErrDuplicateCommitSig"]
  ELSE LET a == [acc EXCEPT !.seen = @ \cup {sig.index}]
       IN  IF sig.data = "none" \/ sig.hash \in {NilHash, EmptyHash} \/ sig.hash # hash THEN a
           ELSE IF sig.index \notin DOMAIN valSet THEN [a EXCEPT !.err = "ErrUnknownCommitValidator"]
           ELSE IF sig.data = "bad" THEN [a EXCEPT !.err = "ErrInvalidCommitSignature"]
           ELSE [a EXCEPT !.power = @ + valSet[sig.index]]

(* Mutant: a validator may sign twice. *)
VerifySigsTwice(valSet, hash, sigs) ==
  LET acc[k \in 0 .. Len(sigs)] ==
        IF k = 0 THEN [seen |-> {}, power |-> 0, err |-> "nil"]
        ELSE [VerifySig(valSet, hash, acc[k - 1], sigs[k]) EXCEPT !.seen = {}]
  IN  acc[Len(sigs)]

(* VerifyCommit's loop: acc[k] is what it has found after k signatures. *)
VerifySigs(valSet, hash, sigs) ==
  LET acc[k \in 0 .. Len(sigs)] ==
        IF k = 0 THEN [seen |-> {}, power |-> 0, err |-> "nil"]
        ELSE VerifySig(valSet, hash, acc[k - 1], sigs[k])
  IN  acc[Len(sigs)]

VerifyCommit(valSet, hash, height, commit) ==
  LET acc == VerifySigs(valSet, hash, commit.sigs)
  IN  IF commit.h # height THEN "ErrCommitHeightMismatch"
      ELSE IF commit.hash # hash THEN "ErrCommitBlockHashMismatch"
      ELSE IF commit.sigs = <<>> THEN "ErrInvalidCommit"
      ELSE IF acc.err # "nil" THEN acc.err
      ELSE IF acc.power < Quorum(valSet) THEN "ErrInsufficientVotePower"
      ELSE "nil"

(* VerifyCommitLight trusts the signatures, present or not. *)
VerifyCommitLight(valSet, hash, height, commit) ==
  LET trusted == [commit EXCEPT !.sigs = [k \in DOMAIN @ |-> [@[k] EXCEPT !.data = "good"]]]
      err == VerifyCommit(valSet, hash, height, trusted)
  IN  IF err = "ErrInvalidCommit" THEN "ErrInsufficientVotePower" ELSE err
=============================================================================
