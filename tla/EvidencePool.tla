---------------------------- MODULE EvidencePool ----------------------------
(***************************************************************************)
(* The evidence pool (evidence/pool.go) as operators on a record: the      *)
(* votes seen, one for each validator, height, round and type, the         *)
(* evidence that waits for a block and the evidence that was in one.       *)
(*                                                                         *)
(* Votes and hashes are those of module VoteTracker.  evidenceKey has the  *)
(* type, height, time and a hash of the data, so it is the evidence        *)
(* itself.  Every piece of evidence has size 1.                            *)
(***************************************************************************)
EXTENDS VoteTracker

CONSTANTS
  MaxSeenVotes,          \* code: 100000
  PruneBatch,            \* code: MaxSeenVotes / 10
  VoteProtectionWindow,  \* code: 1000
  MaxPendingEvidence,    \* code: 10000
  MaxAge, MaxAgeBlocks   \* Config

ASSUME PoolAssumption ==
  /\ MaxSeenVotes \in Nat /\ PruneBatch \in 1 .. MaxSeenVotes
  /\ VoteProtectionWindow \in Nat /\ MaxPendingEvidence \in Nat
  /\ MaxAge \in Nat /\ MaxAgeBlocks \in Nat

(* currentTime starts at Go's zero time, before every evidence time. *)
NewPool == [pending |-> <<>>, committed |-> {}, seenVotes |-> {},
            currentHeight |-> 0, currentTime |-> 0]

voteKey(vote) == <<vote.validator, vote.h, vote.r, vote.t>>

(* What the pool reads of a vote; it ignores the index and the timestamp. *)
CopyVote(vote) == [validator |-> vote.validator, h |-> vote.h, r |-> vote.r, t |-> vote.t,
                   hash |-> vote.hash, key |-> vote.key]

(* Mutant: both ways to vote for no block are the same vote. *)
votesForSameBlockByKey(a, b) == blockHashKey(a) = blockHashKey(b)

(* votesForSameBlock, for the hashes of two votes of one voteKey. *)
votesForSameBlock(a, b) == a = b

Seen(p, vote) == {w \in p.seenVotes : voteKey(w) = voteKey(vote)}

(* Too old by blocks; the second form, with its guard, is pruneExpired's. *)
TooOld(p, h) == p.currentHeight - h > MaxAgeBlocks

isExpired(p, ev) == TooOld(p, ev.h) \/ p.currentTime - ev.time > MaxAge

-----------------------------------------------------------------------------
(* Mutant: the protection window is ignored. *)
pruneAnyVotes(p, n) ==
  {[p EXCEPT !.seenVotes = @ \ S] : S \in kSubset(Min({n, Cardinality(p.seenVotes)}), p.seenVotes)}

(* pruneOldestVotes: n votes below the protection window go, the lowest    *)
(* heights first; the order of Go's map decides among votes of a height.   *)
pruneOldestVotes(p, n) ==
  LET protected == Max({0, p.currentHeight - VoteProtectionWindow})
      old == {w \in p.seenVotes : w.h < protected}
      gone == {S \in kSubset(Min({n, Cardinality(old)}), old) :
                 \A x \in S, y \in old \ S : x.h <= y.h}
  IN  {[p EXCEPT !.seenVotes = @ \ S] : S \in gone}

(* Both votes are verified with the key that the validator has now,        *)
(* whatever height they are for.                                           *)
VerifyDuplicateVoteEvidence(ev, pubKeys) ==
  /\ voteKey(ev.a) = voteKey(ev.b)
  /\ ~votesForSameBlock(ev.a.hash, ev.b.hash)
  /\ ev.a.validator \in DOMAIN pubKeys
  /\ VerifyVoteSignature(ev.a, pubKeys[ev.a.validator])
  /\ VerifyVoteSignature(ev.b, pubKeys[ev.a.validator])

(* CheckVote: the possible results, each with the pool, the evidence found *)
(* (or None) and the error; "invalid" is "created invalid evidence".       *)
CheckVote(p, vote, pubKeys, now) ==
  IF vote.validator \notin DOMAIN pubKeys THEN {[pool |-> p, ev |-> None, err |-> "ErrInvalidValidator"]}
  ELSE IF ~VerifyVoteSignature(vote, pubKeys[vote.validator])
    THEN {[pool |-> p, ev |-> None, err |-> "signature"]}
  ELSE IF Seen(p, vote) # {} THEN
    {LET same == votesForSameBlock(w.hash, vote.hash)
         ev == [h |-> w.h, time |-> now, a |-> w, b |-> CopyVote(vote)]
         bad == ~same /\ ~VerifyDuplicateVoteEvidence(ev, pubKeys)
     IN  [pool |-> p, ev |-> IF same \/ bad THEN None ELSE ev,
          err |-> IF bad THEN "invalid" ELSE "nil"] : w \in Seen(p, vote)}
  ELSE {LET full == Cardinality(q.seenVotes) >= MaxSeenVotes
        IN  [pool |-> IF full THEN q ELSE [q EXCEPT !.seenVotes = @ \cup {CopyVote(vote)}],
             ev |-> None, err |-> IF full THEN "ErrVotePoolFull" ELSE "nil"] :
        q \in IF Cardinality(p.seenVotes) >= MaxSeenVotes
                THEN pruneOldestVotes(p, PruneBatch) ELSE {p}}

(* Mutant: one more than the limit. *)
AddEvidenceOverfull(p, ev) ==
  IF \/ Len(p.pending) > MaxPendingEvidence
     \/ ev \in p.committed \cup ToSet(p.pending)
     \/ isExpired(p, ev)
  THEN p ELSE [p EXCEPT !.pending = Append(@, ev)]

(* AddEvidence, which refuses without a change. *)
AddEvidence(p, ev) ==
  IF \/ Len(p.pending) >= MaxPendingEvidence
     \/ ev \in p.committed \cup ToSet(p.pending)
     \/ isExpired(p, ev)
  THEN p ELSE [p EXCEPT !.pending = Append(@, ev)]

AddDuplicateVoteEvidence(p, ev, pubKeys) ==
  IF VerifyDuplicateVoteEvidence(ev, pubKeys) THEN AddEvidence(p, ev) ELSE p

(* The elements of s that are in S, in their order. *)
Only(s, S) ==
  LET f[k \in 0 .. Len(s)] ==
        IF k = 0 THEN <<>> ELSE IF s[k] \in S THEN Append(f[k - 1], s[k]) ELSE f[k - 1]
  IN  f[Len(s)]

(* PendingEvidence: as many as fit into maxBytes, the oldest first. *)
PendingEvidence(p, maxBytes) == SubSeq(p.pending, 1, Min({maxBytes, Len(p.pending)}))

MarkCommitted(p, evs) ==
  [p EXCEPT !.committed = @ \cup evs,
            !.pending = Only(@, ToSet(@) \ evs)]

(* Mutant: committed evidence is forgotten a block too early. *)
UpdateEarly(p, height, time) ==
  LET q == [p EXCEPT !.currentHeight = height, !.currentTime = time]
  IN  [q EXCEPT !.pending = Only(@, {e \in ToSet(@) : ~isExpired(q, e)}),
                !.committed = {e \in @ : height - e.h < MaxAgeBlocks},
                !.seenVotes = {w \in @ : ~TooOld(q, w.h)}]

(* Update, with pruneExpired. *)
Update(p, height, time) ==
  LET q == [p EXCEPT !.currentHeight = height, !.currentTime = time]
  IN  [q EXCEPT !.pending = Only(@, {e \in ToSet(@) : ~isExpired(q, e)}),
                !.committed = {e \in @ : ~TooOld(q, e.h)},
                !.seenVotes = {w \in @ : ~TooOld(q, w.h)}]
=============================================================================
