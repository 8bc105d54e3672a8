------------------------- MODULE VoteHandlingProofs -------------------------
(***************************************************************************)
(* Votes, commits and evidence, for every validator set, number of rounds, *)
(* heights and limit of the evidence pool.                                 *)
(***************************************************************************)
EXTENDS VoteHandling, SumProofs

(* The overflow-free arithmetic of TwoThirdsMajority is the smallest power *)
(* that exceeds two thirds of the total.                                   *)
THEOREM QuorumIsLeastAboveTwoThirds ==
  ASSUME NEW total \in Nat \ {0}
  PROVE  /\ QuorumOf(total) \in 1 .. total
         /\ 3 * QuorumOf(total) > 2 * total
         /\ 3 * (QuorumOf(total) - 1) <= 2 * total
BY DEF QuorumOf

(* Two groups of validators that each reach the quorum overlap in more     *)
(* than a third of the power: a and b are the powers of the groups, both   *)
(* that of their overlap.  Agreement with less than a third faulty rests   *)
(* on this.                                                                *)
THEOREM QuorumsOverlap ==
  ASSUME NEW total \in Nat \ {0}, NEW a \in Nat, NEW b \in Nat, NEW both \in Nat,
         a >= QuorumOf(total), b >= QuorumOf(total), a + b - both <= total
  PROVE  3 * both > total
<1>1. QuorumOf(total) \in Nat /\ 3 * QuorumOf(total) > 2 * total
  BY QuorumIsLeastAboveTwoThirds
<1>2. QED
  BY <1>1

-----------------------------------------------------------------------------
(* The power of a group of validators of one set. *)

(* What NewValidatorSet lets through. *)
IsValSet(valSet) ==
  /\ DOMAIN valSet # {} /\ IsFiniteSet(DOMAIN valSet) /\ DOMAIN valSet \subseteq Nat
  /\ valSet \in [DOMAIN valSet -> Nat \ {0}]
  /\ SumOf(valSet) <= MaxTotalVotingPower

LEMMA ValSetsAre == ASSUME NEW h \in Heights PROVE IsValSet(ValSets[h])
BY HandlingAssumption DEF IsValSet

LEMMA PowerIsSum ==
  ASSUME NEW valSet, NEW S
  PROVE  Power(valSet, S) = SumOver(valSet, S)
BY DEF Power, SumOver

LEMMA TotalIsSum == ASSUME NEW valSet PROVE SumOf(valSet) = SumOver(valSet, DOMAIN valSet)
BY DEF SumOf, SumOver

LEMMA PowerFacts ==
  ASSUME NEW valSet, IsValSet(valSet), NEW S \in SUBSET DOMAIN valSet
  PROVE  IsFiniteSet(S) /\ \A v \in S : valSet[v] \in Nat
BY FS_Subset DEF IsValSet

LEMMA PowerType ==
  ASSUME NEW valSet, IsValSet(valSet), NEW S \in SUBSET DOMAIN valSet
  PROVE  Power(valSet, S) \in Nat
BY PowerFacts, PowerIsSum, SumType

LEMMA PowerGrows ==
  ASSUME NEW valSet, IsValSet(valSet), NEW S \in SUBSET DOMAIN valSet, NEW R \in SUBSET S
  PROVE  Power(valSet, R) <= Power(valSet, S)
<1>1. SumOver(valSet, R) <= SumOver(valSet, S)
  BY PowerFacts, SumMonotone
<1>2. QED
  BY <1>1, PowerIsSum

LEMMA PowerAdds ==
  ASSUME NEW valSet, IsValSet(valSet), NEW S \in SUBSET DOMAIN valSet,
         NEW v \in DOMAIN valSet, v \notin S
  PROVE  Power(valSet, S \cup {v}) = Power(valSet, S) + valSet[v]
<1>1. S \cup {v} \in SUBSET DOMAIN valSet
  OBVIOUS
<1>2. IsFiniteSet(S) /\ \A x \in S \cup {v} : valSet[x] \in Nat
  BY <1>1, PowerFacts
<1>3. SumOver(valSet, S \cup {v}) = SumOver(valSet, S) + valSet[v]
  BY <1>2, SumAdd
<1>4. QED
  BY <1>3, PowerIsSum

LEMMA PowerOfBoth ==
  ASSUME NEW valSet, IsValSet(valSet), NEW S \in SUBSET DOMAIN valSet,
         NEW R \in SUBSET DOMAIN valSet, S \cap R = {}
  PROVE  Power(valSet, S \cup R) = Power(valSet, S) + Power(valSet, R)
<1>1. S \cup R \in SUBSET DOMAIN valSet
  OBVIOUS
<1>2. IsFiniteSet(S) /\ IsFiniteSet(R) /\ \A x \in S \cup R : valSet[x] \in Nat
  BY <1>1, PowerFacts
<1>3. SumOver(valSet, S \cup R) = SumOver(valSet, S) + SumOver(valSet, R)
  BY <1>2, SumUnion
<1>4. QED
  BY <1>3, PowerIsSum

LEMMA PowerOfNone == ASSUME NEW valSet PROVE Power(valSet, {}) = 0
BY PowerIsSum, SumEmpty

(* The total is positive and within the limit. *)
LEMMA TotalPower ==
  ASSUME NEW valSet, IsValSet(valSet)
  PROVE  /\ SumOf(valSet) = Power(valSet, DOMAIN valSet)
         /\ SumOf(valSet) \in Nat \ {0} /\ SumOf(valSet) <= MaxTotalVotingPower
<1>1. SumOf(valSet) = Power(valSet, DOMAIN valSet)
  BY TotalIsSum, PowerIsSum
<1>2. Power(valSet, DOMAIN valSet) \in Nat
  BY PowerType
<1>3. PICK v \in DOMAIN valSet : valSet[v] \in Nat \ {0}
  BY DEF IsValSet
<1>4. {v} \in SUBSET DOMAIN valSet /\ {} \in SUBSET DOMAIN valSet /\ v \notin {} /\ {} \cup {v} = {v}
  BY <1>3
<1>5. Power(valSet, {v}) = Power(valSet, {}) + valSet[v]
  BY <1>4, PowerAdds
<1>6. Power(valSet, {v}) = 0 + valSet[v]
  BY <1>5, PowerOfNone
<1>7. Power(valSet, {v}) <= Power(valSet, DOMAIN valSet)
  BY <1>4, PowerGrows
<1>8. QED
  BY <1>1, <1>2, <1>3, <1>6, <1>7 DEF IsValSet

(* No two disjoint groups both reach the quorum. *)
LEMMA QuorumsOfOneSetMeet ==
  ASSUME NEW valSet, IsValSet(valSet), NEW S \in SUBSET DOMAIN valSet,
         NEW R \in SUBSET DOMAIN valSet, Power(valSet, S) >= Quorum(valSet),
         Power(valSet, R) >= Quorum(valSet)
  PROVE  S \cap R # {}
<1>1. SUFFICES ASSUME S \cap R = {} PROVE FALSE
  OBVIOUS
<1> DEFINE total == SumOf(valSet)
<1>2. total \in Nat \ {0} /\ total = Power(valSet, DOMAIN valSet)
  BY TotalPower
<1>3. S \cup R \in SUBSET DOMAIN valSet
  OBVIOUS
<1>4. /\ Power(valSet, S \cup R) = Power(valSet, S) + Power(valSet, R)
      /\ Power(valSet, S \cup R) <= Power(valSet, DOMAIN valSet)
  BY <1>1, <1>3, PowerOfBoth, PowerGrows
<1>5. Power(valSet, S) \in Nat /\ Power(valSet, R) \in Nat
  BY PowerType
<1>6. Quorum(valSet) = QuorumOf(total)
  BY DEF Quorum
<1> HIDE DEF total
<1>7. QuorumOf(total) \in Nat /\ 3 * QuorumOf(total) > 2 * total
  BY <1>2, QuorumIsLeastAboveTwoThirds
<1>8. QED
  BY <1>2, <1>4, <1>5, <1>6, <1>7

-----------------------------------------------------------------------------
(* One vote set. *)
Keys == {blockHashKey(x) : x \in Hashes}
VotersOf(vs, key) == {v \in DOMAIN vs.votes : blockHashKey(vs.votes[v]) = key}

VotesTyped(vs, valSet) ==
  /\ DOMAIN vs.votes \subseteq DOMAIN valSet
  /\ \A v \in DOMAIN vs.votes : vs.votes[v] \in Hashes

SumsRight(vs, valSet) ==
  /\ vs.sum = Power(valSet, DOMAIN vs.votes)
  /\ \A key \in Keys : BlockPower(vs, key) = Power(valSet, VotersOf(vs, key))

Maj23Right(vs, valSet) ==
  /\ vs.maj23 \in Keys \cup {None}
  /\ \A key \in Keys : vs.maj23 = key <=> Power(valSet, VotersOf(vs, key)) >= Quorum(valSet)

VoteSetOK(vs, valSet) ==
  VotesTyped(vs, valSet) /\ SumsRight(vs, valSet) /\ Maj23Right(vs, valSet)

LEMMA KeysAre == None \notin Keys /\ \A x \in Hashes : blockHashKey(x) \in Keys
BY HashAssumption DEF Keys, Hashes, blockHashKey

LEMMA VotersTyped ==
  ASSUME NEW vs, NEW valSet, VotesTyped(vs, valSet), NEW key
  PROVE  VotersOf(vs, key) \in SUBSET DOMAIN valSet
BY DEF VotesTyped, VotersOf

LEMMA QuorumType ==
  ASSUME NEW valSet, IsValSet(valSet)
  PROVE  Quorum(valSet) \in Nat \ {0}
<1>1. SumOf(valSet) \in Nat \ {0}
  BY TotalPower
<1>2. QED
  BY <1>1, QuorumIsLeastAboveTwoThirds DEF Quorum

(* An empty vote set has no majority. *)
LEMMA NewVoteSetOK ==
  ASSUME NEW valSet, IsValSet(valSet)
  PROVE  VoteSetOK(NewVoteSet, valSet)
<1> DEFINE vs == NewVoteSet
<1>1. /\ DOMAIN vs.votes = {} /\ DOMAIN vs.votesByBlock = {}
      /\ vs.sum = 0 /\ vs.maj23 = None
  BY DEF NewVoteSet
<1> HIDE DEF vs
<1>2. \A key : VotersOf(vs, key) = {}
  BY <1>1 DEF VotersOf
<1>3. VotesTyped(vs, valSet)
  BY <1>1 DEF VotesTyped
<1>4. SumsRight(vs, valSet)
  BY <1>1, <1>2, PowerOfNone DEF SumsRight, BlockPower
<1>5. Maj23Right(vs, valSet)
  <2>1. ~(0 >= Quorum(valSet))
    BY QuorumType
  <2>2. \A key : ~(Power(valSet, VotersOf(vs, key)) >= Quorum(valSet))
    BY <1>2, <2>1, PowerOfNone
  <2>3. QED
    BY <1>1, <2>2, KeysAre DEF Maj23Right
<1>6. QED
  BY <1>3, <1>4, <1>5 DEF VoteSetOK, vs

(* storeVote adds vote to those for its key, and changes nothing else. *)
LEMMA StoredVote ==
  ASSUME NEW vs, NEW valSet, NEW vote
  PROVE  LET new == storeVote(vs, valSet, vote)
             key == blockHashKey(vote.hash)
         IN  /\ DOMAIN new.votes = DOMAIN vs.votes \cup {vote.index}
             /\ new.votes[vote.index] = vote.hash
             /\ \A v \in DOMAIN vs.votes : v # vote.index => new.votes[v] = vs.votes[v]
             /\ new.sum = vs.sum + valSet[vote.index]
             /\ BlockPower(new, key) = BlockPower(vs, key) + valSet[vote.index]
             /\ \A k : k # key => BlockPower(new, k) = BlockPower(vs, k)
             /\ new.maj23 = IF BlockPower(new, key) >= Quorum(valSet) /\ vs.maj23 = None
                              THEN key ELSE vs.maj23
<1> DEFINE new == storeVote(vs, valSet, vote)
           key == blockHashKey(vote.hash)
           total == BlockPower(vs, key) + valSet[vote.index]
<1>1. /\ new.votes = With(vs.votes, vote.index, vote.hash)
      /\ new.sum = vs.sum + valSet[vote.index]
      /\ new.votesByBlock = With(vs.votesByBlock, key, total)
      /\ new.maj23 = IF total >= Quorum(valSet) /\ vs.maj23 = None THEN key ELSE vs.maj23
  BY DEF storeVote
<1> HIDE DEF new, key, total
<1>2. /\ DOMAIN new.votes = DOMAIN vs.votes \cup {vote.index}
      /\ new.votes[vote.index] = vote.hash
      /\ \A v \in DOMAIN vs.votes : v # vote.index => new.votes[v] = vs.votes[v]
  BY <1>1 DEF With
<1>3. BlockPower(new, key) = total
  BY <1>1 DEF With, BlockPower
<1>4. \A k : k # key => BlockPower(new, k) = BlockPower(vs, k)
  BY <1>1 DEF With, BlockPower
<1>5. QED
  BY <1>1, <1>2, <1>3, <1>4 DEF new, key, total

(* A vote of a validator that has none in the set keeps it right. *)
LEMMA StoreVoteOK ==
  ASSUME NEW vs, NEW valSet, NEW vote, IsValSet(valSet), VoteSetOK(vs, valSet),
         vote.index \in DOMAIN valSet, vote.index \notin DOMAIN vs.votes, vote.hash \in Hashes
  PROVE  VoteSetOK(storeVote(vs, valSet, vote), valSet)
<1> DEFINE new == storeVote(vs, valSet, vote)
           key == blockHashKey(vote.hash)
           i == vote.index
<1>1. /\ DOMAIN new.votes = DOMAIN vs.votes \cup {i}
      /\ new.votes[i] = vote.hash
      /\ \A v \in DOMAIN vs.votes : v # i => new.votes[v] = vs.votes[v]
  BY StoredVote
<1>2. /\ new.sum = vs.sum + valSet[i]
      /\ BlockPower(new, key) = BlockPower(vs, key) + valSet[i]
      /\ \A k : k # key => BlockPower(new, k) = BlockPower(vs, k)
  BY StoredVote
<1>3. new.maj23 = IF BlockPower(new, key) >= Quorum(valSet) /\ vs.maj23 = None
                    THEN key ELSE vs.maj23
  BY StoredVote
<1>4. key \in Keys
  BY KeysAre
<1>5. VotesTyped(vs, valSet) /\ SumsRight(vs, valSet) /\ Maj23Right(vs, valSet)
  BY DEF VoteSetOK
<1>6. i \in DOMAIN valSet /\ i \notin DOMAIN vs.votes /\ vote.hash \in Hashes
  OBVIOUS
<1>7. blockHashKey(vote.hash) = key
  OBVIOUS
<1> HIDE DEF new, key, i
<1>8. VotersOf(new, key) = VotersOf(vs, key) \cup {i} /\ i \notin VotersOf(vs, key)
  BY <1>1, <1>6, <1>7 DEF VotersOf
<1>9. ASSUME NEW k, k # key PROVE VotersOf(new, k) = VotersOf(vs, k)
  BY <1>1, <1>6, <1>7, <1>9 DEF VotersOf
<1>10. VotesTyped(new, valSet)
  BY <1>1, <1>5, <1>6 DEF VotesTyped
<1>11. SumsRight(new, valSet)
  <2>1. Power(valSet, DOMAIN vs.votes \cup {i}) = Power(valSet, DOMAIN vs.votes) + valSet[i]
    BY <1>5, <1>6, PowerAdds DEF VotesTyped
  <2>2. Power(valSet, VotersOf(vs, key) \cup {i}) = Power(valSet, VotersOf(vs, key)) + valSet[i]
    BY <1>5, <1>6, <1>8, VotersTyped, PowerAdds
  <2>3. QED
    BY <1>1, <1>2, <1>4, <1>5, <1>8, <1>9, <2>1, <2>2 DEF SumsRight
<1>12. Maj23Right(new, valSet)
  <2> DEFINE Reached(x, k) == Power(valSet, VotersOf(x, k)) >= Quorum(valSet)
  <2>1. \A k \in Keys : vs.maj23 = k <=> Reached(vs, k)
    BY <1>5 DEF Maj23Right
  <2>2. \A k \in Keys : k # key => (Reached(new, k) <=> Reached(vs, k))
    BY <1>9
  <2>3. BlockPower(new, key) >= Quorum(valSet) <=> Reached(new, key)
    BY <1>4, <1>11 DEF SumsRight
  <2>4. Reached(vs, key) => Reached(new, key)
    <3>1. VotersOf(new, key) \in SUBSET DOMAIN valSet /\ VotersOf(vs, key) \in SUBSET VotersOf(new, key)
      BY <1>8, <1>10, VotersTyped
    <3>2. VotersOf(vs, key) \in SUBSET DOMAIN valSet
      BY <3>1
    <3>3. /\ Power(valSet, VotersOf(vs, key)) \in Nat /\ Power(valSet, VotersOf(new, key)) \in Nat
          /\ Power(valSet, VotersOf(vs, key)) <= Power(valSet, VotersOf(new, key))
      BY <3>1, <3>2, PowerType, PowerGrows
    <3>4. QED
      BY <3>3, QuorumType
  <2>5. ASSUME NEW k \in Keys, NEW l \in Keys, Reached(new, k), Reached(new, l) PROVE k = l
    <3>1. VotersOf(new, k) \in SUBSET DOMAIN valSet /\ VotersOf(new, l) \in SUBSET DOMAIN valSet
      BY <1>10, VotersTyped
    <3>2. VotersOf(new, k) \cap VotersOf(new, l) # {}
      BY <2>5, <3>1, QuorumsOfOneSetMeet
    <3>3. QED
      BY <3>2 DEF VotersOf
  <2> HIDE DEF Reached
  <2>6. vs.maj23 \in Keys \cup {None} /\ None \notin Keys
    BY <1>5, KeysAre DEF Maj23Right
  <2>7. new.maj23 = IF Reached(new, key) /\ vs.maj23 = None THEN key ELSE vs.maj23
    BY <1>3, <2>3
  <2>8. new.maj23 \in Keys \cup {None} /\ \A k \in Keys : new.maj23 = k <=> Reached(new, k)
    BY <1>4, <2>1, <2>2, <2>4, <2>5, <2>6, <2>7
  <2>9. QED
    BY <2>8 DEF Maj23Right, Reached
<1>13. QED
  BY <1>10, <1>11, <1>12 DEF VoteSetOK, new

-----------------------------------------------------------------------------
(* Loops over the first n numbers: b is the value before the first turn,   *)
(* st[k] is turn k.                                                        *)
Runs(f, n, b, st) ==
  f = [k \in 0 .. n |-> IF k = 0 THEN b ELSE st[k][f[k - 1]]]

LEMMA LoopExists ==
  ASSUME NEW n \in Nat, NEW D, NEW b \in D, NEW st \in [1 .. n -> [D -> D]]
  PROVE  \E f \in [0 .. n -> D] : Runs(f, n, b, st)
<1> DEFINE Upto(m, f) == f[0] = b /\ \A k \in 1 .. m : f[k] = st[k][f[k - 1]]
           T == {m \in Nat : m <= n => \E f \in [0 .. m -> D] : Upto(m, f)}
<1>1. 0 \in T
  <2> DEFINE f0 == [k \in 0 .. 0 |-> b]
  <2>1. f0 \in [0 .. 0 -> D] /\ Upto(0, f0)
    OBVIOUS
  <2>2. QED
    BY <2>1
<1>2. ASSUME NEW m \in Nat, m \in T PROVE m + 1 \in T
  <2>1. SUFFICES ASSUME m + 1 <= n PROVE \E f \in [0 .. m + 1 -> D] : Upto(m + 1, f)
    OBVIOUS
  <2>2. PICK g \in [0 .. m -> D] : Upto(m, g)
    BY <1>2, <2>1
  <2> DEFINE f == [k \in 0 .. m + 1 |-> IF k = m + 1 THEN st[m + 1][g[m]] ELSE g[k]]
  <2>3. m + 1 \in 1 .. n /\ g[m] \in D
    BY <2>1, <2>2
  <2>4. st[m + 1][g[m]] \in D
    BY <2>3
  <2>5. f \in [0 .. m + 1 -> D]
    BY <2>2, <2>4
  <2>6. f[0] = b
    BY <2>2
  <2>7. ASSUME NEW k \in 1 .. m + 1 PROVE f[k] = st[k][f[k - 1]]
    <3>1. CASE k = m + 1
      BY <3>1
    <3>2. CASE k # m + 1
      BY <2>2, <3>2
    <3>3. QED
      BY <3>1, <3>2
  <2>8. QED
    BY <2>5, <2>6, <2>7
<1>3. T = Nat
  <2> HIDE DEF T
  <2>1. T \in SUBSET Nat
    BY DEF T
  <2>2. QED
    BY <1>1, <1>2, <2>1, Induction
<1>4. PICK f \in [0 .. n -> D] : Upto(n, f)
  BY <1>3
<1>5. f = [k \in 0 .. n |-> IF k = 0 THEN b ELSE st[k][f[k - 1]]]
  BY <1>4
<1>6. QED
  BY <1>4, <1>5 DEF Runs

-----------------------------------------------------------------------------
(* VerifyCommit. *)
Sigs(I, H) == [index : I, hash : H, data : {"none", "good", "bad"}]
CommitErrors ==
  {"nil", "ErrDuplicateCommitSig", "ErrUnknownCommitValidator", "ErrInvalidCommitSignature"}
Found(I) == [seen : SUBSET I, power : Nat, err : CommitErrors]
NothingFound == [seen |-> {}, power |-> 0, err |-> "nil"]

VerifiesUpTo(f, valSet, hash, sigs) ==
  f = [k \in 0 .. Len(sigs) |->
         IF k = 0 THEN [seen |-> {}, power |-> 0, err |-> "nil"]
         ELSE VerifySig(valSet, hash, f[k - 1], sigs[k])]

LEMMA VerifySigsIs ==
  ASSUME NEW valSet, NEW hash, NEW sigs
  PROVE  VerifySigs(valSet, hash, sigs) =
           (CHOOSE f : VerifiesUpTo(f, valSet, hash, sigs))[Len(sigs)]
BY DEF VerifySigs, VerifiesUpTo

LEMMA VerifySigType ==
  ASSUME NEW valSet, IsValSet(valSet), NEW hash, NEW I, NEW H, NEW acc \in Found(I),
         NEW sig \in Sigs(I, H)
  PROVE  VerifySig(valSet, hash, acc, sig) \in Found(I)
<1>1. sig.index \in DOMAIN valSet => valSet[sig.index] \in Nat
  BY DEF IsValSet
<1>2. acc.seen \cup {sig.index} \in SUBSET I
  BY DEF Found, Sigs
<1> DEFINE a == [acc EXCEPT !.seen = @ \cup {sig.index}]
<1>3. a \in Found(I) /\ a.power \in Nat
  BY <1>2 DEF Found
<1>4. /\ [acc EXCEPT !.err = "ErrDuplicateCommitSig"] \in Found(I)
      /\ [a EXCEPT !.err = "ErrUnknownCommitValidator"] \in Found(I)
      /\ [a EXCEPT !.err = "ErrInvalidCommitSignature"] \in Found(I)
  <2> HIDE DEF a
  <2>1. QED
    BY <1>3 DEF Found, CommitErrors
<1>5. sig.index \in DOMAIN valSet => [a EXCEPT !.power = @ + valSet[sig.index]] \in Found(I)
  <2> HIDE DEF a
  <2>1. QED
    BY <1>1, <1>3 DEF Found
<1>6. VerifySig(valSet, hash, acc, sig) \in
        {acc, [acc EXCEPT !.err = "ErrDuplicateCommitSig"], a,
         [a EXCEPT !.err = "ErrUnknownCommitValidator"],
         [a EXCEPT !.err = "ErrInvalidCommitSignature"]}
      \/ /\ sig.index \in DOMAIN valSet
         /\ VerifySig(valSet, hash, acc, sig) = [a EXCEPT !.power = @ + valSet[sig.index]]
  BY Zenon DEF VerifySig
<1> HIDE DEF a
<1>7. QED
  BY <1>3, <1>4, <1>5, <1>6

(* f[k] is what the loop has found after k turns. *)
Turns(f, valSet, hash, sigs, I) ==
  /\ f[0] = NothingFound
  /\ \A k \in 1 .. Len(sigs) : f[k] = VerifySig(valSet, hash, f[k - 1], sigs[k])
  /\ \A k \in 0 .. Len(sigs) : f[k] \in Found(I)
  /\ VerifySigs(valSet, hash, sigs) = f[Len(sigs)]

LEMMA VerifyLoop ==
  ASSUME NEW valSet, IsValSet(valSet), NEW hash, NEW I, NEW H, NEW sigs \in Seq(Sigs(I, H))
  PROVE  \E f : Turns(f, valSet, hash, sigs, I)
<1> DEFINE n == Len(sigs)
           st == [k \in 1 .. n |-> [a \in Found(I) |-> VerifySig(valSet, hash, a, sigs[k])]]
<1>1. n \in Nat /\ \A k \in 1 .. n : sigs[k] \in Sigs(I, H)
  OBVIOUS
<1>2. st \in [1 .. n -> [Found(I) -> Found(I)]]
  BY <1>1, VerifySigType
<1>3. NothingFound \in Found(I)
  BY DEF NothingFound, Found, CommitErrors
<1>4. PICK g \in [0 .. n -> Found(I)] : Runs(g, n, NothingFound, st)
  <2> HIDE DEF st
  <2>1. QED
    BY <1>1, <1>2, <1>3, LoopExists
<1>5. \A k \in 1 .. n : k - 1 \in 0 .. n /\ st[k][g[k - 1]] = VerifySig(valSet, hash, g[k - 1], sigs[k])
  <2>1. SUFFICES ASSUME NEW k \in 1 .. n
                 PROVE  k - 1 \in 0 .. n /\ st[k][g[k - 1]] = VerifySig(valSet, hash, g[k - 1], sigs[k])
    OBVIOUS
  <2>2. k - 1 \in 0 .. n
    BY <1>1
  <2>3. g[k - 1] \in Found(I)
    BY <1>4, <2>2
  <2>4. QED
    BY <2>2, <2>3
<1>6. g = [k \in 0 .. n |-> IF k = 0 THEN NothingFound
                            ELSE VerifySig(valSet, hash, g[k - 1], sigs[k])]
  <2> HIDE DEF st
  <2>1. g = [k \in 0 .. n |-> IF k = 0 THEN NothingFound ELSE st[k][g[k - 1]]]
    BY <1>4 DEF Runs
  <2>2. \A k \in 0 .. n : k # 0 => k \in 1 .. n
    BY <1>1
  <2>3. QED
    BY <1>5, <2>1, <2>2
<1>7. VerifiesUpTo(g, valSet, hash, sigs)
  BY <1>6 DEF VerifiesUpTo, NothingFound
<1> DEFINE f == CHOOSE e : VerifiesUpTo(e, valSet, hash, sigs)
<1>8. VerifiesUpTo(f, valSet, hash, sigs)
  BY <1>7
<1> HIDE DEF f
<1>9. /\ f[0] = NothingFound
      /\ \A k \in 1 .. n : f[k] = VerifySig(valSet, hash, f[k - 1], sigs[k])
      /\ DOMAIN f = 0 .. n /\ f = [k \in 0 .. n |-> f[k]]
  <2> DEFINE body(k) == IF k = 0 THEN NothingFound ELSE VerifySig(valSet, hash, f[k - 1], sigs[k])
  <2>1. f = [k \in 0 .. n |-> body(k)]
    BY <1>8 DEF VerifiesUpTo, NothingFound
  <2>2. body(0) = NothingFound /\ \A k \in 1 .. n : body(k) = VerifySig(valSet, hash, f[k - 1], sigs[k])
    BY <1>1
  <2>3. 0 \in 0 .. n /\ \A k \in 1 .. n : k \in 0 .. n
    BY <1>1
  <2> HIDE DEF body, n
  <2>4. QED
    BY <2>1, <2>2, <2>3
<1> DEFINE T == {k \in Nat : k <= n => f[k] \in Found(I)}
<1>10. T = Nat
  <2>1. 0 \in T
    BY <1>3, <1>9
  <2>2. ASSUME NEW k \in Nat, k \in T PROVE k + 1 \in T
    <3>1. SUFFICES ASSUME k + 1 <= n PROVE f[k + 1] \in Found(I)
      OBVIOUS
    <3>2. k + 1 \in 1 .. n /\ (k + 1) - 1 = k /\ f[k] \in Found(I)
      BY <1>1, <2>2, <3>1
    <3>3. f[k + 1] = VerifySig(valSet, hash, f[k], sigs[k + 1])
      BY <1>9, <3>2
    <3>4. QED
      BY <1>1, <3>2, <3>3, VerifySigType
  <2>3. T \in SUBSET Nat
    OBVIOUS
  <2> HIDE DEF T
  <2>4. QED
    BY <2>1, <2>2, <2>3, Induction
<1>11. \A k \in 0 .. n : f[k] \in Found(I)
  BY <1>1, <1>10
<1>12. VerifySigs(valSet, hash, sigs) = f[n]
  BY VerifySigsIs DEF f
<1>13. QED
  BY <1>9, <1>11, <1>12 DEF Turns

(* The validators whose signatures for hash are counted. *)
Signers(sigs, hash) ==
  {s.index : s \in {x \in ToSet(sigs) : x.hash = hash /\ x.data = "good"}}

(* VerifyCommit accepts a commit only if validators with 2/3+ of the power *)
(* of the set signed its block, for every validator set and every commit:  *)
(* repeated, empty, forged and foreign signatures do not help.             *)
THEOREM CommitIsSound ==
  ASSUME NEW valSet, IsValSet(valSet), NEW hash, NEW height, NEW commit, NEW I, NEW H,
         commit.sigs \in Seq(Sigs(I, H)), VerifyCommit(valSet, hash, height, commit) = "nil"
  PROVE  Power(valSet, Signers(commit.sigs, hash) \cap DOMAIN valSet) >= Quorum(valSet)
<1> DEFINE sigs == commit.sigs
           n == Len(sigs)
           S == Signers(sigs, hash) \cap DOMAIN valSet
<1>1. VerifySigs(valSet, hash, sigs).err = "nil"
      /\ ~(VerifySigs(valSet, hash, sigs).power < Quorum(valSet))
  BY DEF VerifyCommit
<1>2. PICK f : Turns(f, valSet, hash, sigs, I)
  <2>1. sigs \in Seq(Sigs(I, H))
    OBVIOUS
  <2> HIDE DEF sigs
  <2>2. QED
    BY <2>1, VerifyLoop
<1>3. n \in Nat /\ \A k \in 1 .. n : sigs[k] \in Sigs(I, H)
  OBVIOUS
<1>4. ASSUME NEW k \in 1 .. n, sigs[k].hash = hash, sigs[k].data = "good",
             sigs[k].index \in DOMAIN valSet
      PROVE  sigs[k].index \in S
  <2>1. sigs[k] \in ToSet(sigs)
    BY <1>3 DEF ToSet
  <2>2. QED
    BY <1>4, <2>1 DEF Signers
<1> HIDE DEF sigs, n, S
<1> DEFINE Counted(a) == a.err = "nil" => \E C \in SUBSET S : C \subseteq a.seen /\ a.power = Power(valSet, C)
           T == {k \in Nat : k <= n => Counted(f[k])}
<1>5. S \in SUBSET DOMAIN valSet
  BY DEF S
<1>6. 0 \in T
  <2>1. f[0].seen = {} /\ f[0].power = 0
    BY <1>2 DEF NothingFound, Turns
  <2>2. {} \in SUBSET S /\ {} \subseteq f[0].seen /\ f[0].power = Power(valSet, {})
    BY <2>1, PowerOfNone
  <2>3. QED
    BY <2>2
<1>7. ASSUME NEW k \in Nat, k \in T PROVE k + 1 \in T
  <2>1. SUFFICES ASSUME k + 1 <= n, f[k + 1].err = "nil"
                 PROVE  \E C \in SUBSET S : C \subseteq f[k + 1].seen /\ f[k + 1].power = Power(valSet, C)
    OBVIOUS
  <2> DEFINE sig == sigs[k + 1]
  <2>2. k + 1 \in 1 .. n /\ (k + 1) - 1 = k /\ k \in 0 .. n
    BY <1>3, <2>1
  <2>3. f[k + 1] = VerifySig(valSet, hash, f[k], sig) /\ f[k] \in Found(I) /\ sig \in Sigs(I, H)
    BY <1>2, <1>3, <2>2 DEF Turns, n
  <2>4. /\ f[k].err = "nil" /\ sig.index \notin f[k].seen
        /\ \A v : v \in f[k].seen \/ v = sig.index => v \in f[k + 1].seen
        /\ \/ f[k + 1].power = f[k].power
           \/ /\ f[k + 1].power = f[k].power + valSet[sig.index]
              /\ sig.index \in DOMAIN valSet /\ sig.hash = hash /\ sig.data = "good"
    <3> DEFINE new == f[k + 1]
               acc == f[k]
    <3>1. new = VerifySig(valSet, hash, acc, sig) /\ new.err = "nil"
          /\ acc \in Found(I) /\ sig \in Sigs(I, H)
      BY <2>1, <2>3
    <3> HIDE DEF sig, new, acc, T, Counted
    <3>2. /\ acc.err = "nil" /\ sig.index \notin acc.seen
          /\ \A v : v \in acc.seen \/ v = sig.index => v \in new.seen
          /\ \/ new.power = acc.power
             \/ /\ new.power = acc.power + valSet[sig.index]
                /\ sig.index \in DOMAIN valSet /\ sig.hash = hash /\ sig.data = "good"
      BY <3>1 DEF VerifySig, Found, Sigs
    <3>3. QED
      BY <3>2 DEF new, acc
  <2>5. PICK C \in SUBSET S : C \subseteq f[k].seen /\ f[k].power = Power(valSet, C)
    BY <1>3, <1>7, <2>1, <2>4
  <2>6. CASE f[k + 1].power = f[k].power
    BY <2>4, <2>5, <2>6
  <2>7. CASE /\ f[k + 1].power = f[k].power + valSet[sig.index]
             /\ sig.index \in DOMAIN valSet /\ sig.hash = hash /\ sig.data = "good"
    <3>1. sig.index \in S
      BY <1>4, <2>2, <2>7
    <3>2. C \in SUBSET DOMAIN valSet /\ sig.index \notin C
      BY <1>5, <2>4, <2>5
    <3> DEFINE E == C \cup {sig.index}
    <3>3. Power(valSet, E) = Power(valSet, C) + valSet[sig.index]
      BY <2>7, <3>2, PowerAdds
    <3>4. E \in SUBSET S /\ E \subseteq f[k + 1].seen
      BY <2>4, <2>5, <3>1
    <3>5. f[k + 1].power = Power(valSet, E)
      BY <2>5, <2>7, <3>3
    <3> HIDE DEF E
    <3>6. QED
      BY <3>4, <3>5
  <2>8. QED
    BY <2>4, <2>6, <2>7
<1>8. T = Nat
  <2>1. T \in SUBSET Nat
    OBVIOUS
  <2> HIDE DEF T
  <2>2. QED
    BY <1>6, <1>7, <2>1, Induction
<1>9. PICK C \in SUBSET S : f[n].power = Power(valSet, C)
  BY <1>1, <1>2, <1>3, <1>8 DEF Turns, n
<1>10. /\ Power(valSet, C) \in Nat /\ Power(valSet, S) \in Nat
       /\ Power(valSet, C) <= Power(valSet, S)
  BY <1>5, <1>9, PowerType, PowerGrows
<1>11. Power(valSet, S) >= Quorum(valSet)
  BY <1>1, <1>2, <1>9, <1>10, QuorumType DEF Turns, n
<1>12. QED
  BY <1>11 DEF S, sigs

-----------------------------------------------------------------------------
(* MakeCommit: what it sorts, and what VerifyCommit makes of it. *)
Increasing(f, S, n) == f \in [1 .. n -> S] /\ \A i, j \in 1 .. n : i < j => f[i] < f[j]

LEMMA SortingExists ==
  ASSUME NEW S \in SUBSET Nat, IsFiniteSet(S)
  PROVE  \E f : Increasing(f, S, Cardinality(S))
<1> DEFINE T == {n \in Nat : \A R \in SUBSET S : Cardinality(R) = n => \E f : Increasing(f, R, n)}
<1>1. 0 \in T
  <2>1. SUFFICES ASSUME NEW R \in SUBSET S PROVE \E f : Increasing(f, R, 0)
    OBVIOUS
  <2>2. Increasing([i \in 1 .. 0 |-> i], R, 0)
    BY DEF Increasing
  <2>3. QED
    BY <2>2
<1>2. ASSUME NEW n \in Nat, n \in T PROVE n + 1 \in T
  <2>1. SUFFICES ASSUME NEW R \in SUBSET S, Cardinality(R) = n + 1
                 PROVE  \E f : Increasing(f, R, n + 1)
    OBVIOUS
  <2>2. IsFiniteSet(R) /\ R # {}
    <3>1. IsFiniteSet(R)
      BY FS_Subset
    <3>2. Cardinality(R) # 0
      BY <2>1
    <3>3. QED
      BY <3>1, <3>2, FS_EmptySet, Zenon
  <2>3. PICK m \in R : \A k \in R : m <= k
    BY <2>2, FirstNumber
  <2>4. Cardinality(R \ {m}) = n /\ R \ {m} \in SUBSET S
    <3>1. Cardinality(R \ {m}) = Cardinality(R) - 1
      BY <2>2, FS_RemoveElement
    <3>2. (n + 1) - 1 = n
      OBVIOUS
    <3>3. QED
      BY <2>1, <3>1, <3>2
  <2>5. PICK g : Increasing(g, R \ {m}, n)
    BY <1>2, <2>4
  <2> DEFINE f == [i \in 1 .. n + 1 |-> IF i = 1 THEN m ELSE g[i - 1]]
  <2>6. /\ f \in [1 .. n + 1 -> R] /\ f[1] = m
        /\ \A i \in 2 .. n + 1 : f[i] = g[i - 1] /\ g[i - 1] \in R \ {m}
    BY <2>5 DEF Increasing
  <2> HIDE DEF f
  <2>7. ASSUME NEW i \in 1 .. n + 1, NEW j \in 1 .. n + 1, i < j PROVE f[i] < f[j]
    <3>1. j \in 2 .. n + 1
      BY <2>7
    <3>2. CASE i = 1
      <4>1. f[i] = m /\ f[j] \in R \ {m}
        BY <2>6, <3>1, <3>2
      <4>2. m <= f[j] /\ m # f[j] /\ m \in Nat /\ f[j] \in Nat
        BY <2>3, <4>1
      <4>3. QED
        BY <4>1, <4>2
    <3>3. CASE i # 1
      <4>1. i \in 2 .. n + 1 /\ i - 1 \in 1 .. n /\ j - 1 \in 1 .. n /\ i - 1 < j - 1
        BY <2>7, <3>3
      <4>2. QED
        BY <2>5, <2>6, <3>1, <4>1 DEF Increasing
    <3>4. QED
      BY <3>2, <3>3
  <2>8. QED
    BY <2>6, <2>7 DEF Increasing
<1>3. T \in SUBSET Nat
  OBVIOUS
<1>4. T = Nat
  <2> HIDE DEF T
  <2>1. QED
    BY <1>1, <1>2, <1>3, Induction
<1>5. Cardinality(S) \in T /\ S \in SUBSET S
  BY <1>4, FS_CardinalityType
<1>6. QED
  BY <1>5

(* Sorting drops nobody and repeats nobody. *)
LEMMA SortedFacts ==
  ASSUME NEW S \in SUBSET Nat, IsFiniteSet(S)
  PROVE  /\ Cardinality(S) \in Nat /\ Increasing(Sorted(S), S, Cardinality(S))
         /\ {Sorted(S)[i] : i \in 1 .. Cardinality(S)} = S
<1> DEFINE n == Cardinality(S)
           f == Sorted(S)
           First(k) == {f[i] : i \in 1 .. k}
           T == {k \in Nat : k <= n => IsFiniteSet(First(k)) /\ Cardinality(First(k)) = k}
<1>1. n \in Nat
  BY FS_CardinalityType
<1>2. Increasing(f, S, n)
  <2>1. PICK g : Increasing(g, S, n)
    BY SortingExists
  <2>2. f = CHOOSE e \in [1 .. n -> S] : \A i, j \in 1 .. n : i < j => e[i] < e[j]
    BY DEF Sorted
  <2> HIDE DEF f, n
  <2>3. QED
    BY <2>1, <2>2, Zenon DEF Increasing
<1> HIDE DEF f, n
<1>3. 0 \in T
  BY FS_EmptySet
<1>4. ASSUME NEW k \in Nat, k \in T PROVE k + 1 \in T
  <2>1. SUFFICES ASSUME k + 1 <= n PROVE IsFiniteSet(First(k + 1)) /\ Cardinality(First(k + 1)) = k + 1
    OBVIOUS
  <2>2. IsFiniteSet(First(k)) /\ Cardinality(First(k)) = k
    BY <1>1, <1>4, <2>1
  <2>3. First(k + 1) = First(k) \cup {f[k + 1]}
    OBVIOUS
  <2>4. f[k + 1] \notin First(k)
    <3>1. ASSUME NEW i \in 1 .. k PROVE f[i] # f[k + 1]
      <4>1. i \in 1 .. n /\ k + 1 \in 1 .. n /\ i < k + 1
        BY <1>1, <2>1
      <4>2. f[i] < f[k + 1] /\ f[i] \in Nat /\ f[k + 1] \in Nat
        BY <1>2, <4>1 DEF Increasing
      <4>3. QED
        BY <4>2
    <3>2. QED
      BY <3>1
  <2> HIDE DEF First
  <2>5. /\ IsFiniteSet(First(k) \cup {f[k + 1]})
        /\ Cardinality(First(k) \cup {f[k + 1]}) = Cardinality(First(k)) + 1
    BY <2>2, <2>4, FS_AddElement
  <2>6. QED
    BY <2>2, <2>3, <2>5
<1>5. T \in SUBSET Nat
  OBVIOUS
<1>6. T = Nat
  <2> HIDE DEF T
  <2>1. QED
    BY <1>3, <1>4, <1>5, Induction
<1>7. First(n) \in SUBSET S /\ Cardinality(First(n)) = n
  <2>1. First(n) \in SUBSET S
    BY <1>2 DEF Increasing
  <2> HIDE DEF T
  <2>2. n \in T
    BY <1>1, <1>6
  <2> HIDE DEF First
  <2>3. QED
    BY <1>1, <2>1, <2>2 DEF T
<1>8. First(n) = S
  <2> HIDE DEF First
  <2>1. QED
    BY <1>7, FS_Subset DEF n
<1>9. QED
  BY <1>1, <1>2, <1>8 DEF f, n

LEMMA FunctionIsSeq ==
  ASSUME NEW D, NEW n \in Nat, NEW s \in [1 .. n -> D]
  PROVE  s \in Seq(D) /\ Len(s) = n
OBVIOUS

(* Good signatures of S for hash, in order. *)
SignedBy(S, hash) ==
  [k \in 1 .. Cardinality(S) |-> [index |-> Sorted(S)[k], hash |-> hash, data |-> "good"]]

(* VerifyCommit accepts the signatures of 2/3+ of the power. *)
THEOREM QuorumVerifies ==
  ASSUME NEW valSet, IsValSet(valSet), NEW hash \in BlockHashes, NEW height, NEW commit,
         NEW S \in SUBSET DOMAIN valSet, Power(valSet, S) >= Quorum(valSet),
         commit.h = height, commit.hash = hash, commit.sigs = SignedBy(S, hash)
  PROVE  VerifyCommit(valSet, hash, height, commit) = "nil"
<1> DEFINE sigs == SignedBy(S, hash)
           n == Cardinality(S)
           I == DOMAIN valSet
           order == Sorted(S)
           First(k) == {order[i] : i \in 1 .. k}
<1>1. S \in SUBSET Nat /\ IsFiniteSet(S)
  BY PowerFacts DEF IsValSet
<1>2. /\ n \in Nat /\ order \in [1 .. n -> S] /\ First(n) = S
      /\ \A i, j \in 1 .. n : i < j => order[i] < order[j]
  BY <1>1, SortedFacts DEF Increasing
<1>3. \A k \in 1 .. n : sigs[k] = [index |-> order[k], hash |-> hash, data |-> "good"]
  BY DEF SignedBy
<1>4. sigs \in [1 .. n -> Sigs(I, {hash})]
  BY <1>2 DEF SignedBy, Sigs
<1> HIDE DEF sigs, n, order
<1>5. sigs \in Seq(Sigs(I, {hash})) /\ Len(sigs) = n
  <2>1. n \in Nat
    BY <1>2
  <2>2. QED
    BY <1>4, <2>1, FunctionIsSeq
<1>6. PICK f : Turns(f, valSet, hash, sigs, I)
  BY <1>5, VerifyLoop
<1>7. hash \notin {NilHash, EmptyHash}
  BY HashAssumption
<1> DEFINE Done(k) == f[k].err = "nil" /\ f[k].seen = First(k) /\ f[k].power = Power(valSet, First(k))
           T == {k \in Nat : k <= n => Done(k)}
<1>8. 0 \in T
  <2>1. f[0].err = "nil" /\ f[0].seen = {} /\ f[0].power = 0
    BY <1>6 DEF Turns, NothingFound
  <2>2. First(0) = {}
    OBVIOUS
  <2>3. QED
    BY <2>1, <2>2, PowerOfNone
<1>9. ASSUME NEW k \in Nat, k \in T PROVE k + 1 \in T
  <2>1. SUFFICES ASSUME k + 1 <= n PROVE Done(k + 1)
    OBVIOUS
  <2> DEFINE v == order[k + 1]
  <2>2. k + 1 \in 1 .. n /\ (k + 1) - 1 = k /\ k \in 0 .. n /\ k <= n
    BY <1>2, <2>1
  <2>3. v \in S /\ v \in I /\ First(k) \in SUBSET I /\ v \notin First(k)
    <3>1. ASSUME NEW i \in 1 .. k PROVE order[i] \in S /\ order[i] # v
      <4>1. i \in 1 .. n /\ i < k + 1
        BY <1>2, <2>1
      <4>2. order[i] < v /\ order[i] \in Nat /\ v \in Nat /\ order[i] \in S
        BY <1>1, <1>2, <2>2, <4>1
      <4>3. QED
        BY <4>2
    <3>2. v \in S
      BY <1>2, <2>2
    <3>3. QED
      BY <3>1, <3>2
  <2>4. First(k + 1) = First(k) \cup {v}
    OBVIOUS
  <2>5. Power(valSet, First(k) \cup {v}) = Power(valSet, First(k)) + valSet[v]
    BY <2>3, PowerAdds
  <2>6. Done(k) /\ f[k] \in Found(I)
    BY <1>5, <1>6, <1>9, <2>2 DEF Turns
  <2>7. f[k + 1] = VerifySig(valSet, hash, f[k], [index |-> v, hash |-> hash, data |-> "good"])
    BY <1>3, <1>5, <1>6, <2>2 DEF Turns
  <2> HIDE DEF First, v, I
  <2>8. f[k + 1] = [[f[k] EXCEPT !.seen = @ \cup {v}] EXCEPT !.power = @ + valSet[v]]
    <3> DEFINE acc == f[k]
               sig == [index |-> v, hash |-> hash, data |-> "good"]
    <3>1. acc.err = "nil" /\ sig.index \notin acc.seen /\ sig.index \in DOMAIN valSet
          /\ sig.hash = hash /\ sig.data = "good" /\ sig.index = v
      BY <2>3, <2>6 DEF I
    <3> HIDE DEF sig, acc
    <3>2. VerifySig(valSet, hash, acc, sig) = [[acc EXCEPT !.seen = @ \cup {v}] EXCEPT !.power = @ + valSet[v]]
      BY <1>7, <3>1 DEF VerifySig
    <3>3. QED
      BY <2>7, <3>2 DEF sig, acc
  <2>9. f[k + 1].err = f[k].err /\ f[k + 1].seen = f[k].seen \cup {v} /\ f[k + 1].power = f[k].power + valSet[v]
    BY <2>6, <2>8 DEF Found
  <2>10. QED
    BY <2>4, <2>5, <2>6, <2>9
<1>10. T \in SUBSET Nat
  OBVIOUS
<1>11. T = Nat
  <2> HIDE DEF T
  <2>1. QED
    BY <1>8, <1>9, <1>10, Induction
<1>12. Done(n)
  BY <1>2, <1>11
<1>13. VerifySigs(valSet, hash, sigs).err = "nil" /\ VerifySigs(valSet, hash, sigs).power = Power(valSet, S)
  BY <1>2, <1>5, <1>6, <1>12 DEF Turns
<1>14. sigs # <<>>
  <2>1. S # {}
    BY PowerOfNone, QuorumType
  <2>2. n # 0
    BY <1>1, <2>1, FS_EmptySet DEF n
  <2>3. QED
    BY <1>5, <2>2
<1>15. ~(Power(valSet, S) < Quorum(valSet))
  BY PowerType, QuorumType
<1>16. QED
  BY <1>13, <1>14, <1>15 DEF VerifyCommit, sigs

(* MakeCommit's commit, from a vote set whose counts are right. *)
LEMMA MadeCommit ==
  ASSUME NEW valSet, IsValSet(valSet), NEW vs, VoteSetOK(vs, valSet), NEW t, NEW h, NEW r,
         MakeCommit(vs, t, h, r) # None
  PROVE  /\ DOMAIN MakeCommit(vs, t, h, r) = {"h", "r", "hash", "sigs"}
         /\ MakeCommit(vs, t, h, r).h = h
         /\ MakeCommit(vs, t, h, r).hash \in BlockHashes
         /\ \E S \in SUBSET DOMAIN valSet :
              /\ Power(valSet, S) >= Quorum(valSet)
              /\ MakeCommit(vs, t, h, r).sigs = SignedBy(S, MakeCommit(vs, t, h, r).hash)
<1> DEFINE S == {v \in DOMAIN vs.votes : vs.votes[v] = vs.maj23}
           c == MakeCommit(vs, t, h, r)
<1>1. /\ vs.maj23 \notin {None, NilHash}
      /\ c = [h |-> h, r |-> r, hash |-> vs.maj23,
              sigs |-> [k \in DOMAIN Sorted(S) |->
                          [index |-> Sorted(S)[k], hash |-> vs.maj23, data |-> "good"]]]
  BY Zenon DEF MakeCommit
<1> HIDE DEF c
<1>2. VotesTyped(vs, valSet) /\ Maj23Right(vs, valSet)
  BY DEF VoteSetOK
<1>3. vs.maj23 \in Keys /\ vs.maj23 \in BlockHashes
  BY <1>1, <1>2, HashAssumption DEF Maj23Right, Keys, blockHashKey, Hashes
<1>4. S = VotersOf(vs, vs.maj23)
  BY <1>1, <1>2, <1>3, HashAssumption DEF VotersOf, VotesTyped, blockHashKey, Hashes
<1> HIDE DEF S
<1>5. S \in SUBSET DOMAIN valSet /\ Power(valSet, S) >= Quorum(valSet)
  BY <1>2, <1>3, <1>4, VotersTyped DEF Maj23Right
<1>6. DOMAIN Sorted(S) = 1 .. Cardinality(S)
  <2>1. S \in SUBSET Nat /\ IsFiniteSet(S)
    BY <1>5, PowerFacts DEF IsValSet
  <2>2. QED
    BY <2>1, SortedFacts DEF Increasing
<1>7. /\ DOMAIN c = {"h", "r", "hash", "sigs"}
      /\ c.h = h /\ c.hash = vs.maj23 /\ c.sigs = SignedBy(S, vs.maj23)
  BY <1>1, <1>6 DEF SignedBy
<1>8. QED
  BY <1>3, <1>5, <1>7 DEF c

(* What MakeCommit builds passes both verifications. *)
THEOREM MadeCommitVerifies ==
  ASSUME NEW valSet, IsValSet(valSet), NEW vs, VoteSetOK(vs, valSet), NEW t, NEW h, NEW r,
         NEW commit, commit = MakeCommit(vs, t, h, r), commit # None
  PROVE  /\ VerifyCommit(valSet, commit.hash, h, commit) = "nil"
         /\ VerifyCommitLight(valSet, commit.hash, h, commit) = "nil"
<1>1. /\ DOMAIN commit = {"h", "r", "hash", "sigs"}
      /\ commit.h = h /\ commit.hash \in BlockHashes
      /\ \E S \in SUBSET DOMAIN valSet :
           Power(valSet, S) >= Quorum(valSet) /\ commit.sigs = SignedBy(S, commit.hash)
  BY MadeCommit
<1>2. PICK S \in SUBSET DOMAIN valSet :
        Power(valSet, S) >= Quorum(valSet) /\ commit.sigs = SignedBy(S, commit.hash)
  BY <1>1
<1>3. VerifyCommit(valSet, commit.hash, h, commit) = "nil"
  BY <1>1, <1>2, QuorumVerifies
<1> DEFINE good == [k \in DOMAIN commit.sigs |-> [commit.sigs[k] EXCEPT !.data = "good"]]
           trusted == [commit EXCEPT !.sigs = good]
<1>4. trusted.h = h /\ trusted.hash = commit.hash /\ trusted.sigs = SignedBy(S, commit.hash)
  <2> DEFINE n == Cardinality(S)
  <2>1. DOMAIN commit.sigs = 1 .. n
    BY <1>2 DEF SignedBy
  <2>2. \A k \in 1 .. n : [commit.sigs[k] EXCEPT !.data = "good"] =
                         [index |-> Sorted(S)[k], hash |-> commit.hash, data |-> "good"]
    BY <1>2 DEF SignedBy
  <2>3. good = SignedBy(S, commit.hash)
    BY <2>1, <2>2 DEF SignedBy
  <2> HIDE DEF good
  <2>4. QED
    BY <1>1, <2>3
<1>5. VerifyCommit(valSet, commit.hash, h, trusted) = "nil"
  <2> HIDE DEF trusted
  <2>1. QED
    BY <1>1, <1>2, <1>4, QuorumVerifies
<1>6. QED
  BY <1>3, <1>5 DEF VerifyCommitLight

-----------------------------------------------------------------------------
(* Only(s, S) has elements of s that are in S, and not more than s. *)
OnlyUpTo(f, s, S) ==
  f = [k \in 0 .. Len(s) |->
         IF k = 0 THEN <<>> ELSE IF s[k] \in S THEN Append(f[k - 1], s[k]) ELSE f[k - 1]]

LEMMA OnlyIs ==
  ASSUME NEW s, NEW S
  PROVE  Only(s, S) = (CHOOSE f : OnlyUpTo(f, s, S))[Len(s)]
BY DEF Only, OnlyUpTo

LEMMA AppendType ==
  ASSUME NEW D, NEW s \in Seq(D), NEW x \in D
  PROVE  Append(s, x) \in Seq(D) /\ Len(Append(s, x)) = Len(s) + 1
OBVIOUS

LEMMA OnlyFacts ==
  ASSUME NEW D, NEW s \in Seq(D), NEW S
  PROVE  /\ Only(s, S) \in Seq(ToSet(s) \cap S)
         /\ Len(Only(s, S)) <= Len(s)
<1> DEFINE n == Len(s)
           E == ToSet(s) \cap S
           st == [k \in 1 .. n |-> [a \in Seq(E) |-> IF s[k] \in S THEN Append(a, s[k]) ELSE a]]
<1>1. n \in Nat /\ \A k \in 1 .. n : s[k] \in ToSet(s)
  BY DEF ToSet
<1>2. st \in [1 .. n -> [Seq(E) -> Seq(E)]]
  <2>1. SUFFICES ASSUME NEW k \in 1 .. n, NEW a \in Seq(E), s[k] \in S
                 PROVE  Append(a, s[k]) \in Seq(E)
    OBVIOUS
  <2>2. s[k] \in E
    BY <1>1, <2>1
  <2> HIDE DEF E
  <2>3. QED
    BY <2>2, AppendType
<1>3. <<>> \in Seq(E)
  OBVIOUS
<1>4. PICK g \in [0 .. n -> Seq(E)] : Runs(g, n, <<>>, st)
  <2> HIDE DEF st, E
  <2>1. QED
    BY <1>1, <1>2, <1>3, LoopExists
<1>5. ASSUME NEW k \in 1 .. n
      PROVE  st[k][g[k - 1]] = IF s[k] \in S THEN Append(g[k - 1], s[k]) ELSE g[k - 1]
  <2>1. k - 1 \in 0 .. n
    BY <1>1
  <2>2. g[k - 1] \in Seq(E)
    BY <1>4, <2>1
  <2> HIDE DEF E
  <2>3. QED
    BY <2>2
<1>6. OnlyUpTo(g, s, S)
  <2> HIDE DEF st
  <2>1. g = [k \in 0 .. n |-> IF k = 0 THEN <<>> ELSE st[k][g[k - 1]]]
    BY <1>4 DEF Runs
  <2>2. \A k \in 0 .. n : k # 0 => k \in 1 .. n
    BY <1>1
  <2>3. g = [k \in 0 .. n |-> IF k = 0 THEN <<>> ELSE
               IF s[k] \in S THEN Append(g[k - 1], s[k]) ELSE g[k - 1]]
    BY <1>5, <2>1, <2>2
  <2>4. QED
    BY <2>3 DEF OnlyUpTo
<1> DEFINE f == CHOOSE e : OnlyUpTo(e, s, S)
<1>7. OnlyUpTo(f, s, S)
  BY <1>6
<1> HIDE DEF f
<1>8. f[0] = <<>> /\ \A k \in 1 .. n : f[k] = IF s[k] \in S THEN Append(f[k - 1], s[k]) ELSE f[k - 1]
  <2> DEFINE body(k) == IF k = 0 THEN <<>> ELSE IF s[k] \in S THEN Append(f[k - 1], s[k]) ELSE f[k - 1]
  <2>1. f = [k \in 0 .. n |-> body(k)]
    BY <1>7 DEF OnlyUpTo
  <2>2. body(0) = <<>> /\ \A k \in 1 .. n :
          body(k) = IF s[k] \in S THEN Append(f[k - 1], s[k]) ELSE f[k - 1]
    BY <1>1
  <2>3. 0 \in 0 .. n /\ \A k \in 1 .. n : k \in 0 .. n
    BY <1>1
  <2> HIDE DEF body, n
  <2>4. QED
    BY <2>1, <2>2, <2>3
<1> DEFINE T == {k \in Nat : k <= n => f[k] \in Seq(E) /\ Len(f[k]) <= k}
<1>9. 0 \in T
  <2>1. f[0] \in Seq(E) /\ Len(f[0]) = 0
    BY <1>3, <1>8
  <2>2. QED
    BY <2>1
<1>10. ASSUME NEW k \in Nat, k \in T PROVE k + 1 \in T
  <2>1. SUFFICES ASSUME k + 1 <= n PROVE f[k + 1] \in Seq(E) /\ Len(f[k + 1]) <= k + 1
    OBVIOUS
  <2>2. k + 1 \in 1 .. n /\ (k + 1) - 1 = k /\ f[k] \in Seq(E) /\ Len(f[k]) <= k
    BY <1>1, <1>10, <2>1
  <2>3. f[k + 1] = IF s[k + 1] \in S THEN Append(f[k], s[k + 1]) ELSE f[k]
    BY <1>8, <2>2
  <2>4. CASE s[k + 1] \in S
    <3>1. s[k + 1] \in E
      BY <1>1, <2>2, <2>4
    <3>2. f[k + 1] = Append(f[k], s[k + 1])
      BY <2>3, <2>4
    <3> HIDE DEF E
    <3>3. f[k + 1] \in Seq(E) /\ Len(f[k + 1]) = Len(f[k]) + 1
      BY <2>2, <3>1, <3>2, AppendType
    <3>4. QED
      BY <2>2, <3>3
  <2>5. CASE s[k + 1] \notin S
    BY <2>2, <2>3, <2>5
  <2>6. QED
    BY <2>4, <2>5
<1>11. T = Nat
  <2>1. T \in SUBSET Nat
    OBVIOUS
  <2> HIDE DEF T
  <2>2. QED
    BY <1>9, <1>10, <2>1, Induction
<1>12. Only(s, S) = f[n]
  BY OnlyIs DEF f
<1>13. QED
  BY <1>1, <1>11, <1>12

LEMMA InToSet ==
  ASSUME NEW D, NEW s \in Seq(D)
  PROVE  ToSet(s) \subseteq D
BY DEF ToSet

LEMMA ToSetAppend ==
  ASSUME NEW D, NEW s \in Seq(D), NEW x \in D, NEW e
  PROVE  e \in ToSet(Append(s, x)) <=> e \in ToSet(s) \/ e = x
<1>1. Append(s, x) \in Seq(D) /\ Len(Append(s, x)) = Len(s) + 1 /\ Len(s) \in Nat
  OBVIOUS
<1>2. DOMAIN s = 1 .. Len(s) /\ DOMAIN Append(s, x) = 1 .. Len(s) + 1
  OBVIOUS
<1>3. Append(s, x)[Len(s) + 1] = x /\ \A i \in 1 .. Len(s) : Append(s, x)[i] = s[i]
  OBVIOUS
<1>4. \A i \in 1 .. Len(s) + 1 : i \in 1 .. Len(s) \/ i = Len(s) + 1
  BY <1>1
<1>5. \A i \in 1 .. Len(s) : i \in 1 .. Len(s) + 1
  BY <1>1
<1>6. Len(s) + 1 \in 1 .. Len(s) + 1
  BY <1>1
<1>7. QED
  BY <1>2, <1>3, <1>4, <1>5, <1>6, Zenon DEF ToSet

-----------------------------------------------------------------------------
(* The inductive invariant. *)

(* The vote sets of a height, each right for the validators of the height. *)
HvsOK(hv) ==
  /\ DOMAIN hv = {"height", "valSet", "pubKeys", "sets", "generation"}
  /\ hv.height \in Heights /\ hv.valSet = ValSets[hv.height] /\ hv.pubKeys = PubKeys[hv.height]
  /\ DOMAIN hv.sets \subseteq VoteTypes \X Rounds
  /\ \A s \in DOMAIN hv.sets : VoteSetOK(hv.sets[s], hv.valSet)

(* The votes that are counted. *)
Counted(hv) ==
  UNION {{<<s[1], s[2], v, hv.sets[s].votes[v]>> : v \in DOMAIN hv.sets[s].votes} : s \in DOMAIN hv.sets}

PoolTyped(p) ==
  p \in [pending : Seq(Evidence), committed : SUBSET Evidence, seenVotes : SUBSET SeenVote,
         currentHeight : Nat, currentTime : Nat]

OnePerKey(S) == \A v, w \in S : voteKey(v) = voteKey(w) => v = w

PoolOK(p) ==
  /\ PoolTyped(p)
  /\ IsFiniteSet(p.seenVotes) /\ Cardinality(p.seenVotes) <= MaxSeenVotes
  /\ Len(p.pending) <= MaxPendingEvidence
  /\ OnePerKey(p.seenVotes)

(* Evidence of a block stays known until AddEvidence takes it for expired. *)
CommittedKnown ==
  /\ everCommitted \in SUBSET Evidence
  /\ \A e \in everCommitted :
       e \notin ToSet(pool.pending) /\ (e \in pool.committed \/ TooOld(pool, e.h))

(* The key of a counted vote of height h, and: the pool has seen the vote. *)
KeyOf(h, e) == <<e[3], h, e[2], e[1]>>

IsSeen(p, h, e) == \E w \in p.seenVotes : voteKey(w) = KeyOf(h, e) /\ w.hash = e[4]

(* The pool's vote for key k is signed with a key that its validator does  *)
(* not have at its height, and has made invalid evidence.                  *)
Excused(S, k) == \E w \in S : voteKey(w) = k /\ w.key # PubKeys[w.h][w.validator]

(* A counted vote is one that the pool has seen, if its key is neither     *)
(* accounted for nor excused; the pool is never ahead of the height.       *)
CountedSeen ==
  /\ pool.currentHeight <= hvs.height
  /\ \A e \in added : \/ KeyOf(hvs.height, e) \in accounted
                       \/ Excused(invalid, KeyOf(hvs.height, e))
                       \/ IsSeen(pool, hvs.height, e)

UnreportedExcused == \A k \in unreported : Excused(invalid, k)

IInv ==
  /\ HvsOK(hvs) /\ PoolOK(pool)
  /\ added = Counted(hvs)
  /\ CommittedKnown /\ CountedSeen /\ UnreportedExcused

(* Votes with the fields that AddVote reads. *)
VoteTyped(vote) == vote.hash \in Hashes /\ vote.t \in VoteTypes /\ vote.r \in Rounds

(* hv's votes of one type and round, as Counted has them. *)
LEMMA CountedIs ==
  ASSUME NEW hv, DOMAIN hv.sets \subseteq VoteTypes \X Rounds, NEW t, NEW r, NEW v, NEW x
  PROVE  <<t, r, v, x>> \in Counted(hv) <=>
           /\ <<t, r>> \in DOMAIN hv.sets /\ v \in DOMAIN hv.sets[<<t, r>>].votes
           /\ x = hv.sets[<<t, r>>].votes[v]
<1>1. \A s \in DOMAIN hv.sets : s = <<s[1], s[2]>>
  OBVIOUS
<1>2. ASSUME <<t, r, v, x>> \in Counted(hv)
      PROVE  /\ <<t, r>> \in DOMAIN hv.sets /\ v \in DOMAIN hv.sets[<<t, r>>].votes
             /\ x = hv.sets[<<t, r>>].votes[v]
  <2>1. PICK s \in DOMAIN hv.sets : \E u \in DOMAIN hv.sets[s].votes :
          <<t, r, v, x>> = <<s[1], s[2], u, hv.sets[s].votes[u]>>
    BY <1>2 DEF Counted
  <2>2. t = s[1] /\ r = s[2] /\ v \in DOMAIN hv.sets[s].votes /\ x = hv.sets[s].votes[v]
    BY <2>1
  <2>3. s = <<t, r>>
    BY <1>1, <2>2
  <2>4. QED
    BY <2>2, <2>3
<1>3. ASSUME <<t, r>> \in DOMAIN hv.sets, v \in DOMAIN hv.sets[<<t, r>>].votes,
             x = hv.sets[<<t, r>>].votes[v]
      PROVE  <<t, r, v, x>> \in Counted(hv)
  <2> DEFINE s == <<t, r>>
  <2>1. s[1] = t /\ s[2] = r
    OBVIOUS
  <2>2. <<t, r, v, x>> = <<s[1], s[2], v, hv.sets[s].votes[v]>>
    BY <1>3, <2>1
  <2>3. s \in DOMAIN hv.sets /\ v \in DOMAIN hv.sets[s].votes
    BY <1>3
  <2> HIDE DEF s
  <2>4. QED
    BY <2>2, <2>3 DEF Counted
<1>4. QED
  BY <1>2, <1>3

LEMMA CountedTuples ==
  ASSUME NEW hv, NEW e \in Counted(hv)
  PROVE  e = <<e[1], e[2], e[3], e[4]>>
BY DEF Counted

LEMMA VoteErrors ==
  ASSUME NEW vs, NEW valSet, NEW pubKeys, NEW vote
  PROVE  /\ voteError(vs, valSet, pubKeys, vote) \in {"nil", "ErrConflictingVote"} =>
              vote.index \in DOMAIN valSet /\ vote.index = vote.validator
              /\ VerifyVoteSignature(vote, pubKeys[vote.index])
         /\ voteError(vs, valSet, pubKeys, vote) = "nil" => vote.index \notin DOMAIN vs.votes
         /\ voteError(vs, valSet, pubKeys, vote) = "ErrConflictingVote" =>
              vote.index \in DOMAIN vs.votes /\ vs.votes[vote.index] # vote.hash
BY DEF voteError, votesEqual

(* One vote set made or replaced. *)
LEMMA SetReplaced ==
  ASSUME NEW hv, HvsOK(hv), NEW t \in VoteTypes, NEW r \in Rounds, NEW vs,
         VoteSetOK(vs, hv.valSet)
  PROVE  LET new == [hv EXCEPT !.sets = With(@, <<t, r>>, vs)]
         IN  /\ HvsOK(new) /\ new.height = hv.height /\ new.valSet = hv.valSet
             /\ new.generation = hv.generation
             /\ DOMAIN new.sets = DOMAIN hv.sets \cup {<<t, r>>}
             /\ new.sets[<<t, r>>] = vs
             /\ \A s \in DOMAIN hv.sets : s # <<t, r>> => new.sets[s] = hv.sets[s]
<1> DEFINE k == <<t, r>>
           sets == With(hv.sets, k, vs)
           new == [hv EXCEPT !.sets = sets]
<1>1. k \in VoteTypes \X Rounds
  OBVIOUS
<1>2. /\ DOMAIN sets = DOMAIN hv.sets \cup {k} /\ sets[k] = vs
      /\ \A s \in DOMAIN hv.sets : s # k => sets[s] = hv.sets[s]
  <2> HIDE DEF k
  <2>1. QED
    BY DEF With
<1> HIDE DEF k, sets
<1>3. /\ new.height = hv.height /\ new.valSet = hv.valSet /\ new.generation = hv.generation
      /\ new.pubKeys = hv.pubKeys
      /\ new.sets = sets /\ DOMAIN new = DOMAIN hv
  BY DEF HvsOK
<1> HIDE DEF new
<1>4. HvsOK(new)
  BY <1>1, <1>2, <1>3 DEF HvsOK
<1>5. QED
  BY <1>2, <1>3, <1>4 DEF new, sets, k

(* What AddVote did when it returned a: it counts the vote or nothing. *)
AddVoteDid(hv, vote, a) ==
  /\ HvsOK(a.hvs) /\ a.hvs.height = hv.height
  /\ a.err \in {"nil", "ErrConflictingVote"} =>
       /\ vote.h = hv.height /\ vote.index = vote.validator /\ vote.index \in DOMAIN hv.valSet
       /\ VerifyVoteSignature(vote, hv.pubKeys[vote.index])
  /\ a.err = "ErrConflictingVote" =>
       \E x : x # vote.hash /\ <<vote.t, vote.r, vote.index, x>> \in Counted(hv)
  /\ Counted(a.hvs) = IF a.err = "nil" THEN Counted(hv) \cup {<<vote.t, vote.r, vote.index, vote.hash>>}
                      ELSE Counted(hv)

LEMMA AddVoteDoes ==
  ASSUME NEW hv, HvsOK(hv), NEW vote, VoteTyped(vote), NEW replay \in BOOLEAN
  PROVE  AddVoteDid(hv, vote, AddVote(hv, vote, replay))
<1> DEFINE a == AddVote(hv, vote, replay)
           k == <<vote.t, vote.r>>
           vs == SetOf(hv, vote.t, vote.r)
           valSet == hv.valSet
           pubKeys == hv.pubKeys
           err == IF ~replay /\ ~vote.timely THEN "ErrInvalidVote" ELSE voteError(vs, valSet, pubKeys, vote)
           set == IF err = "nil" THEN storeVote(vs, valSet, vote) ELSE vs
           new == [hv EXCEPT !.sets = With(@, k, set)]
<1>1. CASE vote.h # hv.height
  <2>1. a.hvs = hv /\ a.err = "ErrInvalidHeight"
    BY <1>1 DEF AddVote
  <2> HIDE DEF a
  <2>2. QED
    BY <2>1 DEF AddVoteDid, a
<1>2. CASE vote.h = hv.height
  <2>1. a.hvs = new /\ a.err = err
    BY <1>2 DEF AddVote
  <2>2. IsValSet(valSet)
    BY ValSetsAre DEF HvsOK
  <2>3. VoteSetOK(vs, valSet)
    BY <2>2, NewVoteSetOK DEF HvsOK, SetOf
  <2>4. vs = IF k \in DOMAIN hv.sets THEN hv.sets[k] ELSE NewVoteSet
    BY DEF SetOf
  <2>5. DOMAIN NewVoteSet.votes = {}
    BY DEF NewVoteSet
  <2>6. /\ err \in {"nil", "ErrConflictingVote"} =>
             vote.index \in DOMAIN valSet /\ vote.index = vote.validator
              /\ VerifyVoteSignature(vote, pubKeys[vote.index])
        /\ err = "nil" => vote.index \notin DOMAIN vs.votes
        /\ err = "ErrConflictingVote" =>
             vote.index \in DOMAIN vs.votes /\ vs.votes[vote.index] # vote.hash
    <3> HIDE DEF vs, valSet, pubKeys
    <3>1. QED
      BY VoteErrors
  <2>7. set = IF err = "nil" THEN storeVote(vs, valSet, vote) ELSE vs
    OBVIOUS
  <2>8. vote.t \in VoteTypes /\ vote.r \in Rounds /\ vote.hash \in Hashes
    BY DEF VoteTyped
  <2> HIDE DEF a, vs, valSet, err, set
  <2>9. VoteSetOK(set, valSet)
    BY <2>2, <2>3, <2>6, <2>7, <2>8, StoreVoteOK
  <2>10. err = "nil" => /\ DOMAIN set.votes = DOMAIN vs.votes \cup {vote.index}
                        /\ set.votes[vote.index] = vote.hash
                        /\ \A v \in DOMAIN vs.votes : v # vote.index => set.votes[v] = vs.votes[v]
    BY <2>7, StoredVote
  <2>11. /\ HvsOK(new) /\ new.height = hv.height
         /\ DOMAIN new.sets = DOMAIN hv.sets \cup {k} /\ new.sets[k] = set
         /\ \A s \in DOMAIN hv.sets : s # k => new.sets[s] = hv.sets[s]
    BY <2>8, <2>9, SetReplaced DEF valSet
  <2>12. DOMAIN hv.sets \subseteq VoteTypes \X Rounds /\ DOMAIN new.sets \subseteq VoteTypes \X Rounds
    BY <2>11 DEF HvsOK
  <2> DEFINE one == <<vote.t, vote.r, vote.index, vote.hash>>
             now == IF err = "nil" THEN Counted(hv) \cup {one} ELSE Counted(hv)
  <2> HIDE DEF new, k
  <2>13. ASSUME NEW t, NEW r, NEW v, NEW x
         PROVE  <<t, r, v, x>> \in Counted(new) <=> <<t, r, v, x>> \in now
    <3>1. <<t, r, v, x>> \in Counted(new) <=>
            /\ <<t, r>> \in DOMAIN new.sets /\ v \in DOMAIN new.sets[<<t, r>>].votes
            /\ x = new.sets[<<t, r>>].votes[v]
      BY <2>12, CountedIs
    <3>2. <<t, r, v, x>> \in Counted(hv) <=>
            /\ <<t, r>> \in DOMAIN hv.sets /\ v \in DOMAIN hv.sets[<<t, r>>].votes
            /\ x = hv.sets[<<t, r>>].votes[v]
      BY <2>12, CountedIs
    <3>3. <<t, r, v, x>> = one <=> <<t, r>> = k /\ v = vote.index /\ x = vote.hash
      BY DEF k
    <3>4. CASE <<t, r>> # k
      BY <2>11, <3>1, <3>2, <3>3, <3>4
    <3>5. CASE <<t, r>> = k
      <4>1. <<t, r, v, x>> \in Counted(new) <=> v \in DOMAIN set.votes /\ x = set.votes[v]
        BY <2>11, <3>1, <3>5
      <4>2. <<t, r, v, x>> \in Counted(hv) <=> v \in DOMAIN vs.votes /\ x = vs.votes[v]
        BY <2>4, <2>5, <3>2, <3>5
      <4> HIDE DEF one
      <4>3. QED
        BY <2>6, <2>7, <2>10, <3>3, <3>5, <4>1, <4>2
    <3>6. QED
      BY <3>4, <3>5
  <2>14. Counted(new) = now
    <3>1. ASSUME NEW e \in now PROVE e = <<e[1], e[2], e[3], e[4]>>
      <4>1. CASE e \in Counted(hv)
        BY <4>1, CountedTuples
      <4>2. CASE e = one
        BY <4>2
      <4>3. QED
        BY <3>1, <4>1, <4>2
    <3>2. ASSUME NEW e \in Counted(new) PROVE e \in now
      <4>1. e = <<e[1], e[2], e[3], e[4]>>
        BY <3>2, CountedTuples
      <4> HIDE DEF now
      <4>2. QED
        BY <2>13, <3>2, <4>1
    <3>3. ASSUME NEW e \in now PROVE e \in Counted(new)
      <4>1. e = <<e[1], e[2], e[3], e[4]>>
        BY <3>1, <3>3
      <4> HIDE DEF now
      <4>2. QED
        BY <2>13, <3>3, <4>1
    <3> HIDE DEF now
    <3>4. QED
      BY <3>2, <3>3
  <2>15. ASSUME err = "ErrConflictingVote"
         PROVE  \E x : x # vote.hash /\ <<vote.t, vote.r, vote.index, x>> \in Counted(hv)
    <3>1. vote.index \in DOMAIN vs.votes /\ vs.votes[vote.index] # vote.hash
      BY <2>6, <2>15
    <3>2. k \in DOMAIN hv.sets /\ vs = hv.sets[k]
      BY <2>4, <2>5, <3>1
    <3>3. <<vote.t, vote.r, vote.index, vs.votes[vote.index]>> \in Counted(hv)
      BY <2>12, <3>1, <3>2, CountedIs DEF k
    <3>4. QED
      BY <3>1, <3>3
  <2>16. Counted(a.hvs) = IF a.err = "nil" THEN Counted(hv) \cup {one} ELSE Counted(hv)
    BY <2>1, <2>14
  <2> HIDE DEF now
  <2>17. QED
    BY <1>2, <2>1, <2>6, <2>11, <2>15, <2>16 DEF AddVoteDid, a, one, valSet
<1>3. QED
  BY <1>1, <1>2

(* The same through a vote set that was kept. *)
LEMMA AddVoteToDoes ==
  ASSUME NEW hv, HvsOK(hv), NEW vote, VoteTyped(vote), NEW ref
  PROVE  AddVoteDid(hv, vote, AddVoteTo(hv, ref, vote))
<1> DEFINE a == AddVoteTo(hv, ref, vote)
<1>1. CASE a = AddVote(hv, vote, FALSE)
  BY <1>1, AddVoteDoes
<1>2. CASE a.hvs = hv /\ a.err \in {"ErrStaleVoteSet", "ErrInvalidVote"}
  <2> HIDE DEF a
  <2>1. QED
    BY <1>2 DEF AddVoteDid, a
<1>3. QED
  BY <1>1, <1>2 DEF AddVoteTo

-----------------------------------------------------------------------------
(* The evidence pool. *)

LEMMA SeenFields ==
  ASSUME NEW w \in SeenVote
  PROVE  /\ w.h \in 1 .. MaxVoteHeight /\ w.h \in Nat \ {0}
         /\ w.key # NoKey /\ w.hash \in Hashes
<1>1. PICK v \in Vote : v.key # NoKey /\ w = CopyVote(v)
  BY DEF SeenVote
<1>3. v.h \in 1 .. MaxVoteHeight /\ v.hash \in Hashes
  BY DEF Vote
<1>4. v.key # NoKey
  BY <1>1
<1>5. QED
  BY <1>1, <1>3, <1>4, HandlingAssumption DEF CopyVote

LEMMA CopyIsSeen ==
  ASSUME NEW vote \in Vote, vote.key # NoKey
  PROVE  /\ CopyVote(vote) \in SeenVote /\ voteKey(CopyVote(vote)) = voteKey(vote)
         /\ CopyVote(vote).hash = vote.hash /\ CopyVote(vote).key = vote.key
<1>1. CopyVote(vote) \in SeenVote
  BY DEF SeenVote
<1>2. QED
  BY <1>1 DEF CopyVote, voteKey

LEMMA MaxOfZero ==
  ASSUME NEW x \in Int
  PROVE  Max({0, x}) \in {0, x}
<1>1. \E m \in {0, x} : \A y \in {0, x} : m >= y
  <2>1. CASE x <= 0
    BY <2>1
  <2>2. CASE x > 0
    BY <2>2
  <2>3. QED
    BY <2>1, <2>2
<1>2. QED
  BY <1>1 DEF Max

(* A pool with other votes seen, and otherwise the same. *)
SameButSeen(p, q) ==
  /\ q.pending = p.pending /\ q.committed = p.committed
  /\ q.currentHeight = p.currentHeight /\ q.currentTime = p.currentTime

LEMMA PoolWithSeen ==
  ASSUME NEW p, PoolOK(p), NEW T \in SUBSET SeenVote,
         IsFiniteSet(T), Cardinality(T) <= MaxSeenVotes, OnePerKey(T)
  PROVE  LET q == [p EXCEPT !.seenVotes = T]
         IN  PoolOK(q) /\ SameButSeen(p, q) /\ q.seenVotes = T
<1> DEFINE q == [p EXCEPT !.seenVotes = T]
<1>1. /\ PoolTyped(q) /\ q.seenVotes = T
      /\ q.pending = p.pending /\ q.committed = p.committed
      /\ q.currentHeight = p.currentHeight /\ q.currentTime = p.currentTime
  BY DEF PoolOK, PoolTyped
<1> HIDE DEF q
<1>2. PoolOK(q) /\ SameButSeen(p, q)
  BY <1>1 DEF PoolOK, SameButSeen
<1>3. QED
  BY <1>1, <1>2 DEF q

(* pruneOldestVotes only takes votes below the protection window. *)
LEMMA PruneDoes ==
  ASSUME NEW p, PoolOK(p), NEW n, NEW q \in pruneOldestVotes(p, n)
  PROVE  /\ PoolOK(q) /\ SameButSeen(p, q) /\ q.seenVotes \subseteq p.seenVotes
         /\ \A w \in p.seenVotes \ q.seenVotes : w.h < p.currentHeight - VoteProtectionWindow
<1> DEFINE x == p.currentHeight - VoteProtectionWindow
           old == {w \in p.seenVotes : w.h < Max({0, x})}
<1>1. PICK S \in SUBSET old : q = [p EXCEPT !.seenVotes = p.seenVotes \ S]
  BY DEF pruneOldestVotes, kSubset
<1>2. p.seenVotes \in SUBSET SeenVote /\ p.currentHeight \in Nat
  BY DEF PoolOK, PoolTyped
<1>3. x \in Int
  BY <1>2, PoolAssumption
<1>4. ASSUME NEW w \in S PROVE w.h < x
  <2>1. w \in SeenVote /\ w.h < Max({0, x})
    BY <1>2, <1>4
  <2>2. w.h \in Nat \ {0}
    BY <2>1, SeenFields
  <2>3. Max({0, x}) \in {0, x}
    BY <1>3, MaxOfZero
  <2> HIDE DEF x
  <2>4. QED
    BY <1>3, <2>1, <2>2, <2>3
<1> DEFINE T == p.seenVotes \ S
<1>5. T \in SUBSET p.seenVotes /\ T \in SUBSET SeenVote
  BY <1>2
<1>6. IsFiniteSet(p.seenVotes) /\ Cardinality(p.seenVotes) <= MaxSeenVotes /\ OnePerKey(p.seenVotes)
  BY DEF PoolOK
<1>7. OnePerKey(T)
  BY <1>5, <1>6 DEF OnePerKey
<1>8. \A w \in p.seenVotes \ T : w \in S
  OBVIOUS
<1> HIDE DEF T, x
<1>9. IsFiniteSet(T) /\ Cardinality(T) <= Cardinality(p.seenVotes)
  BY <1>5, <1>6, FS_Subset
<1>10. Cardinality(T) \in Nat /\ Cardinality(p.seenVotes) \in Nat /\ MaxSeenVotes \in Nat
  BY <1>6, <1>9, FS_CardinalityType, PoolAssumption
<1>11. Cardinality(T) <= MaxSeenVotes
  BY <1>6, <1>9, <1>10
<1>12. q = [p EXCEPT !.seenVotes = T]
  BY <1>1 DEF T
<1>13. PoolOK(q) /\ SameButSeen(p, q) /\ q.seenVotes = T
  BY <1>5, <1>7, <1>9, <1>11, <1>12, PoolWithSeen
<1>14. QED
  BY <1>4, <1>5, <1>8, <1>13 DEF x

(* The pool after one more vote, for a key it has no vote of. *)
LEMMA VoteSeen ==
  ASSUME NEW p, PoolOK(p), Cardinality(p.seenVotes) < MaxSeenVotes,
         NEW w \in SeenVote, \A v \in p.seenVotes : voteKey(v) # voteKey(w)
  PROVE  LET q == [p EXCEPT !.seenVotes = @ \cup {w}]
         IN  PoolOK(q) /\ SameButSeen(p, q) /\ q.seenVotes = p.seenVotes \cup {w}
<1> DEFINE T == p.seenVotes \cup {w}
<1>1. p.seenVotes \in SUBSET SeenVote /\ IsFiniteSet(p.seenVotes) /\ OnePerKey(p.seenVotes)
  BY DEF PoolOK, PoolTyped
<1>2. T \in SUBSET SeenVote /\ OnePerKey(T)
  BY <1>1 DEF OnePerKey
<1>3. w \notin p.seenVotes
  OBVIOUS
<1>4. IsFiniteSet(T) /\ Cardinality(T) = Cardinality(p.seenVotes) + 1
  BY <1>1, <1>3, FS_AddElement
<1>5. Cardinality(p.seenVotes) \in Nat /\ MaxSeenVotes \in Nat
  BY <1>1, FS_CardinalityType, PoolAssumption
<1>6. Cardinality(T) <= MaxSeenVotes
  BY <1>4, <1>5
<1> HIDE DEF T
<1>7. LET q == [p EXCEPT !.seenVotes = T] IN PoolOK(q) /\ SameButSeen(p, q) /\ q.seenVotes = T
  BY <1>2, <1>4, <1>6, PoolWithSeen
<1>8. QED
  BY <1>7 DEF T

(* What CheckVote did when it returned c.  A vote of a validator is kept,  *)
(* or there was no room for it, or it makes evidence, valid or not; it     *)
(* always makes evidence when the pool has seen another vote for its key.  *)
KnownVote(vote, pubKeys) ==
  vote.validator \in DOMAIN pubKeys /\ VerifyVoteSignature(vote, pubKeys[vote.validator])

MadeEvidence(p, vote, pubKeys, c) ==
  \/ c.ev # None /\ voteKey(c.ev.a) = voteKey(vote)
  \/ c.err = "invalid" /\ \E w \in Seen(p, vote) : w.key # pubKeys[vote.validator]

CheckVoteDid(p, vote, pubKeys, c) ==
  /\ PoolOK(c.pool) /\ SameButSeen(p, c.pool)
  /\ \A w \in p.seenVotes \ c.pool.seenVotes : w.h < p.currentHeight - VoteProtectionWindow
  /\ c.ev \in Evidence \cup {None}
  /\ KnownVote(vote, pubKeys) =>
       \/ c.err = "ErrVotePoolFull"
       \/ MadeEvidence(p, vote, pubKeys, c)
       \/ \E w \in c.pool.seenVotes : voteKey(w) = voteKey(vote) /\ w.hash = vote.hash
  /\ KnownVote(vote, pubKeys) /\ (\E w \in Seen(p, vote) : w.hash # vote.hash) =>
       MadeEvidence(p, vote, pubKeys, c)

LEMMA CheckVoteDoes ==
  ASSUME NEW p, PoolOK(p), NEW vote \in Vote, NEW pubKeys, NEW now \in Nat,
         NEW c \in CheckVote(p, vote, pubKeys, now)
  PROVE  CheckVoteDid(p, vote, pubKeys, c)
<1>1. SameButSeen(p, p) /\ p.seenVotes \subseteq SeenVote
  BY DEF SameButSeen, PoolOK, PoolTyped
<1> DEFINE known == KnownVote(vote, pubKeys)
<1>a. known => vote.key # NoKey /\ vote.key = pubKeys[vote.validator] /\ vote.validator \in DOMAIN pubKeys
  BY DEF KnownVote, VerifyVoteSignature
<1>2. CASE ~known
  <2>1. c.pool = p /\ c.ev = None
    BY <1>2 DEF CheckVote, KnownVote
  <2>2. QED
    BY <1>1, <1>2, <2>1 DEF CheckVoteDid
<1>3. CASE known /\ Seen(p, vote) # {}
  <2> DEFINE same(w) == votesForSameBlock(w.hash, vote.hash)
             ev(w) == [h |-> w.h, time |-> now, a |-> w, b |-> CopyVote(vote)]
             bad(w) == ~same(w) /\ ~VerifyDuplicateVoteEvidence(ev(w), pubKeys)
  <2>1. PICK w \in Seen(p, vote) :
          c = [pool |-> p, ev |-> IF same(w) \/ bad(w) THEN None ELSE ev(w),
               err |-> IF bad(w) THEN "invalid" ELSE "nil"]
    BY <1>3 DEF CheckVote, KnownVote
  <2>2. w \in p.seenVotes /\ voteKey(w) = voteKey(vote) /\ w \in SeenVote
    BY <1>1 DEF Seen
  <2>3. w.h \in 1 .. MaxVoteHeight /\ w.key # NoKey
    BY <2>2, SeenFields
  <2>4. /\ CopyVote(vote) \in SeenVote /\ voteKey(CopyVote(vote)) = voteKey(vote)
        /\ CopyVote(vote).hash = vote.hash /\ CopyVote(vote).key = vote.key
    BY <1>3, <1>a, CopyIsSeen
  <2>5. same(w) <=> w.hash = vote.hash
    BY DEF votesForSameBlock
  <2>6. w.validator = vote.validator
    BY <2>2 DEF voteKey
  <2>7. /\ ev(w) \in Evidence /\ ev(w).a = w /\ ev(w).b = CopyVote(vote)
    BY <2>2, <2>3, <2>4 DEF Evidence
  <2>8. bad(w) => w.key # pubKeys[vote.validator]
    <3> HIDE DEF ev
    <3>1. QED
      BY <1>3, <1>a, <2>2, <2>3, <2>4, <2>5, <2>6, <2>7
         DEF VerifyDuplicateVoteEvidence, votesForSameBlock, VerifyVoteSignature
  <2>9. ev(w) # None
    BY <2>7, NoneAssumption
  <2> HIDE DEF ev, same, bad
  <2>10. /\ c.pool = p /\ c.ev = IF w.hash = vote.hash \/ bad(w) THEN None ELSE ev(w)
         /\ bad(w) => c.err = "invalid"
    BY <2>1, <2>5
  <2>11. c.ev \in Evidence \cup {None}
    BY <2>7, <2>10
  <2>12. w.hash # vote.hash => MadeEvidence(p, vote, pubKeys, c)
    <3>1. CASE bad(w)
      BY <2>1, <2>8, <2>10, <3>1 DEF MadeEvidence
    <3>2. CASE ~bad(w) /\ w.hash # vote.hash
      BY <2>2, <2>7, <2>9, <2>10, <3>2 DEF MadeEvidence
    <3>3. QED
      BY <3>1, <3>2
  <2>13. \A v \in Seen(p, vote) : v = w
    BY <2>2 DEF Seen, PoolOK, OnePerKey
  <2>14. QED
    BY <1>1, <2>2, <2>10, <2>11, <2>12, <2>13 DEF CheckVoteDid
<1>4. CASE known /\ Seen(p, vote) = {}
  <2> DEFINE full(q) == Cardinality(q.seenVotes) >= MaxSeenVotes
             copy == CopyVote(vote)
  <2>1. PICK q \in IF Cardinality(p.seenVotes) >= MaxSeenVotes
                     THEN pruneOldestVotes(p, PruneBatch) ELSE {p} :
          c = [pool |-> IF full(q) THEN q ELSE [q EXCEPT !.seenVotes = @ \cup {copy}],
               ev |-> None, err |-> IF full(q) THEN "ErrVotePoolFull" ELSE "nil"]
    BY <1>4 DEF CheckVote, KnownVote
  <2>2. /\ PoolOK(q) /\ SameButSeen(p, q) /\ q.seenVotes \subseteq p.seenVotes
        /\ \A w \in p.seenVotes \ q.seenVotes : w.h < p.currentHeight - VoteProtectionWindow
    <3>1. CASE q = p
      BY <1>1, <3>1
    <3>2. CASE q \in pruneOldestVotes(p, PruneBatch)
      BY <3>2, PruneDoes
    <3>3. QED
      BY <3>1, <3>2
  <2>3. copy \in SeenVote /\ voteKey(copy) = voteKey(vote) /\ copy.hash = vote.hash
    BY <1>4, <1>a, CopyIsSeen
  <2>4. \A v \in q.seenVotes : voteKey(v) # voteKey(vote)
    BY <1>4, <2>2 DEF Seen
  <2>5. Seen(p, vote) = {} /\ c.ev = None
    BY <1>4, <2>1
  <2>6. CASE full(q)
    <3>1. c.pool = q /\ c.err = "ErrVotePoolFull"
      BY <2>1, <2>6
    <3>2. QED
      BY <2>2, <2>5, <3>1 DEF CheckVoteDid
  <2>7. CASE ~full(q)
    <3> DEFINE n == [q EXCEPT !.seenVotes = @ \cup {copy}]
    <3>1. c.pool = n
      BY <2>1, <2>7
    <3>2. Cardinality(q.seenVotes) < MaxSeenVotes
      <4>1. Cardinality(q.seenVotes) \in Nat /\ MaxSeenVotes \in Nat
        BY <2>2, FS_CardinalityType, PoolAssumption DEF PoolOK
      <4>2. QED
        BY <2>7, <4>1
    <3> HIDE DEF copy
    <3>3. PoolOK(n) /\ SameButSeen(q, n) /\ n.seenVotes = q.seenVotes \cup {copy}
      BY <2>2, <2>3, <2>4, <3>2, VoteSeen
    <3> HIDE DEF n
    <3>4. SameButSeen(p, n)
      BY <2>2, <3>3 DEF SameButSeen
    <3>5. \E w \in n.seenVotes : voteKey(w) = voteKey(vote) /\ w.hash = vote.hash
      BY <2>3, <3>3
    <3>6. \A w \in p.seenVotes \ n.seenVotes : w.h < p.currentHeight - VoteProtectionWindow
      BY <2>2, <3>3
    <3>7. QED
      BY <2>5, <3>1, <3>3, <3>4, <3>5, <3>6 DEF CheckVoteDid
  <2>8. QED
    BY <2>6, <2>7
<1>5. QED
  BY <1>2, <1>3, <1>4

LEMMA SeqGrows ==
  ASSUME NEW A, NEW B, A \subseteq B, NEW s \in Seq(A)
  PROVE  s \in Seq(B)
OBVIOUS

(* Filtered pending evidence. *)
LEMMA OnlySome ==
  ASSUME NEW s \in Seq(Evidence), NEW S, Len(s) <= MaxPendingEvidence
  PROVE  /\ Only(s, S) \in Seq(Evidence) /\ Len(Only(s, S)) <= MaxPendingEvidence
         /\ \A e \in ToSet(Only(s, S)) : e \in ToSet(s) /\ e \in S
<1> DEFINE o == Only(s, S)
           E == ToSet(s) \cap S
<1>1. o \in Seq(E) /\ Len(o) <= Len(s)
  BY OnlyFacts
<1>2. E \subseteq Evidence
  BY InToSet
<1>3. \A e \in E : e \in ToSet(s) /\ e \in S
  OBVIOUS
<1> HIDE DEF o, E
<1>4. o \in Seq(Evidence)
  BY <1>1, <1>2, SeqGrows
<1>5. ToSet(o) \subseteq E
  BY <1>1, InToSet
<1>6. Len(o) \in Nat /\ Len(s) \in Nat /\ MaxPendingEvidence \in Nat
  BY <1>4, PoolAssumption
<1>7. Len(o) <= MaxPendingEvidence
  BY <1>1, <1>6
<1>8. QED
  BY <1>3, <1>4, <1>5, <1>7 DEF o

(* What AddEvidence did to p when it left q: ev waits only if it was not   *)
(* in a block and is not too old.                                          *)
AddEvidenceDid(p, ev, q) ==
  /\ PoolOK(q) /\ q.committed = p.committed /\ q.seenVotes = p.seenVotes
  /\ q.currentHeight = p.currentHeight
  /\ \A e \in ToSet(q.pending) :
       e \in ToSet(p.pending) \/ (e = ev /\ ev \notin p.committed /\ ~TooOld(p, ev.h))

LEMMA AddEvidenceDoes ==
  ASSUME NEW p, PoolOK(p), NEW ev \in Evidence, NEW pubKeys
  PROVE  AddEvidenceDid(p, ev, AddDuplicateVoteEvidence(p, ev, pubKeys))
<1> DEFINE q == AddDuplicateVoteEvidence(p, ev, pubKeys)
<1>1. CASE q = p
  BY <1>1 DEF AddEvidenceDid
<1>2. CASE q # p
  <2>1. /\ q = [p EXCEPT !.pending = Append(@, ev)]
        /\ ~(Len(p.pending) >= MaxPendingEvidence)
        /\ ev \notin p.committed /\ ~TooOld(p, ev.h)
    BY <1>2 DEF AddDuplicateVoteEvidence, AddEvidence, isExpired
  <2>2. PoolTyped(p) /\ p.pending \in Seq(Evidence)
    BY DEF PoolOK, PoolTyped
  <2>3. Append(p.pending, ev) \in Seq(Evidence) /\ Len(Append(p.pending, ev)) = Len(p.pending) + 1
    BY <2>2, AppendType
  <2>4. Len(p.pending) \in Nat /\ MaxPendingEvidence \in Nat
    BY <2>2, PoolAssumption
  <2>5. Len(Append(p.pending, ev)) <= MaxPendingEvidence
    BY <2>1, <2>3, <2>4
  <2> HIDE DEF q
  <2>6. /\ PoolTyped(q) /\ q.pending = Append(p.pending, ev) /\ q.committed = p.committed
        /\ q.seenVotes = p.seenVotes /\ q.currentHeight = p.currentHeight
    BY <2>1, <2>2, <2>3 DEF PoolTyped
  <2>7. PoolOK(q)
    BY <2>5, <2>6 DEF PoolOK
  <2>8. \A e \in ToSet(q.pending) : e \in ToSet(p.pending) \/ e = ev
    BY <2>2, <2>6, ToSetAppend
  <2>9. QED
    BY <2>1, <2>6, <2>7, <2>8 DEF AddEvidenceDid, q
<1>3. QED
  BY <1>1, <1>2

LEMMA MarkCommittedDoes ==
  ASSUME NEW p, PoolOK(p), NEW evs \in SUBSET Evidence
  PROVE  LET q == MarkCommitted(p, evs)
         IN  /\ PoolOK(q) /\ q.committed = p.committed \cup evs /\ q.seenVotes = p.seenVotes
             /\ q.currentHeight = p.currentHeight
             /\ \A e \in ToSet(q.pending) : e \in ToSet(p.pending) /\ e \notin evs
<1> DEFINE q == MarkCommitted(p, evs)
           o == Only(p.pending, ToSet(p.pending) \ evs)
           com == p.committed \cup evs
<1>1. PoolTyped(p) /\ p.pending \in Seq(Evidence) /\ Len(p.pending) <= MaxPendingEvidence
  BY DEF PoolOK, PoolTyped
<1>2. o \in Seq(Evidence) /\ Len(o) <= MaxPendingEvidence
  BY <1>1, OnlySome
<1>3. \A e \in ToSet(o) : e \in ToSet(p.pending) /\ e \notin evs
  <2>1. \A e \in ToSet(o) : e \in ToSet(p.pending) /\ e \in ToSet(p.pending) \ evs
    BY <1>1, OnlySome
  <2>2. QED
    BY <2>1
<1>4. q = [p EXCEPT !.committed = com, !.pending = o]
  BY DEF MarkCommitted
<1>5. com \in SUBSET Evidence
  BY <1>1 DEF PoolTyped
<1> HIDE DEF q, o, com
<1>6. /\ PoolTyped(q) /\ q.pending = o /\ q.committed = com
      /\ q.seenVotes = p.seenVotes /\ q.currentHeight = p.currentHeight
  BY <1>1, <1>2, <1>4, <1>5 DEF PoolTyped
<1>7. PoolOK(q)
  BY <1>2, <1>6 DEF PoolOK
<1>8. QED
  BY <1>3, <1>6, <1>7 DEF q, com

LEMMA UpdateDoes ==
  ASSUME NEW p, PoolOK(p), NEW height \in Nat, NEW time \in Nat
  PROVE  LET q == Update(p, height, time)
         IN  /\ PoolOK(q) /\ q.currentHeight = height
             /\ ToSet(q.pending) \subseteq ToSet(p.pending)
             /\ \A e \in p.committed : e \in q.committed \/ TooOld(q, e.h)
             /\ \A w \in p.seenVotes : w \in q.seenVotes \/ TooOld(q, w.h)
<1> DEFINE q == Update(p, height, time)
           m == [p EXCEPT !.currentHeight = height, !.currentTime = time]
           o == Only(p.pending, {e \in ToSet(p.pending) : ~isExpired(m, e)})
           com == {e \in p.committed : ~TooOld(m, e.h)}
           T == {w \in p.seenVotes : ~TooOld(m, w.h)}
<1>1. PoolTyped(p) /\ p.pending \in Seq(Evidence) /\ Len(p.pending) <= MaxPendingEvidence
  BY DEF PoolOK, PoolTyped
<1>2. o \in Seq(Evidence) /\ Len(o) <= MaxPendingEvidence
  BY <1>1, OnlySome
<1>3. ToSet(o) \subseteq ToSet(p.pending)
  BY <1>1, OnlySome
<1>4. /\ PoolTyped(m) /\ m.pending = p.pending /\ m.committed = p.committed
      /\ m.seenVotes = p.seenVotes /\ m.currentHeight = height
  BY <1>1 DEF PoolTyped
<1>5. q = [m EXCEPT !.pending = o, !.committed = com, !.seenVotes = T]
  BY <1>4 DEF Update
<1>6. com \in SUBSET Evidence /\ T \in SUBSET SeenVote /\ T \in SUBSET p.seenVotes
  BY <1>1 DEF PoolTyped
<1>7. OnePerKey(T) /\ IsFiniteSet(p.seenVotes) /\ Cardinality(p.seenVotes) <= MaxSeenVotes
  BY <1>6 DEF PoolOK, OnePerKey
<1>8. IsFiniteSet(T) /\ Cardinality(T) <= Cardinality(p.seenVotes)
  <2> HIDE DEF T
  <2>1. QED
    BY <1>6, <1>7, FS_Subset
<1>9. Cardinality(T) <= MaxSeenVotes
  <2> HIDE DEF T
  <2>1. Cardinality(T) \in Nat /\ Cardinality(p.seenVotes) \in Nat /\ MaxSeenVotes \in Nat
    BY <1>7, <1>8, FS_CardinalityType, PoolAssumption
  <2>2. QED
    BY <1>7, <1>8, <2>1
<1>10. \A e \in p.committed : e \in com \/ TooOld(m, e.h)
  OBVIOUS
<1>11. \A w \in p.seenVotes : w \in T \/ TooOld(m, w.h)
  OBVIOUS
<1> HIDE DEF q, m, o, com, T
<1>12. /\ PoolTyped(q) /\ q.pending = o /\ q.committed = com /\ q.seenVotes = T
       /\ q.currentHeight = height
  BY <1>2, <1>4, <1>5, <1>6 DEF PoolTyped
<1>13. PoolOK(q)
  BY <1>2, <1>7, <1>8, <1>9, <1>12 DEF PoolOK
<1>14. \A h : TooOld(m, h) <=> TooOld(q, h)
  BY <1>4, <1>12 DEF TooOld
<1>15. QED
  BY <1>3, <1>10, <1>11, <1>12, <1>13, <1>14 DEF q

-----------------------------------------------------------------------------
(* Each step keeps the invariant; votes leave the pool only when they may. *)

SeenStay ==
  \A w \in pool.seenVotes \ pool'.seenVotes :
    w.h < pool'.currentHeight - VoteProtectionWindow \/ TooOld(pool', w.h)

LEMMA IncomingTyped ==
  ASSUME NEW vote \in Incoming \cup Flawless
  PROVE  vote \in Vote /\ VoteTyped(vote)
<1>1. vote \in Vote
  BY DEF Incoming, Flawless
<1>2. QED
  BY <1>1 DEF Vote, VoteTyped

(* After a step, no report of key k is missing. *)
Settled(k) == k \in accounted' \/ Excused(invalid', k)

(* The vote sets and what is remembered of them. *)
LEMMA VotesRemembered ==
  ASSUME IInv, NEW vote, NEW a, AddVoteDid(hvs, vote, a), hvs' = a.hvs,
         NEW keys, Remember(vote, a.err, keys), invalid \subseteq invalid'
  PROVE  /\ HvsOK(hvs') /\ hvs'.height = hvs.height /\ added' = Counted(hvs')
         /\ accounted \subseteq accounted' /\ keys \subseteq accounted'
         /\ \A e \in added' : e \in added \/
              (a.err = "nil" /\ KeyOf(hvs.height, e) = voteKey(vote) /\ e[4] = vote.hash)
         /\ (a.err = "ErrConflictingVote" => Settled(voteKey(vote))) => UnreportedExcused'
<1>1. HvsOK(hvs') /\ hvs'.height = hvs.height
  BY DEF AddVoteDid
<1>2. /\ added' = IF a.err = "nil" THEN added \cup {<<vote.t, vote.r, vote.index, vote.hash>>} ELSE added
      /\ accounted' = accounted \cup keys
      /\ unreported' = IF a.err = "ErrConflictingVote" THEN unreported \cup ({voteKey(vote)} \ accounted')
                       ELSE unreported
  BY DEF Remember
<1>3. added' = Counted(hvs')
  BY <1>2 DEF AddVoteDid, IInv
<1>4. ASSUME NEW e \in added', e \notin added
      PROVE  a.err = "nil" /\ KeyOf(hvs.height, e) = voteKey(vote) /\ e[4] = vote.hash
  <2>1. a.err = "nil" /\ e = <<vote.t, vote.r, vote.index, vote.hash>>
    BY <1>2, <1>4
  <2>2. vote.h = hvs.height /\ vote.index = vote.validator
    BY <2>1 DEF AddVoteDid
  <2>3. QED
    BY <2>1, <2>2 DEF KeyOf, voteKey
<1>5. \A k \in unreported : Excused(invalid', k)
  BY DEF IInv, UnreportedExcused, Excused
<1>6. (a.err = "ErrConflictingVote" => Settled(voteKey(vote))) => UnreportedExcused'
  BY <1>2, <1>5 DEF Settled, UnreportedExcused, Excused
<1>7. QED
  BY <1>1, <1>2, <1>3, <1>4, <1>6

(* Adding evidence keeps what was committed from waiting again. *)
LEMMA CommittedKept ==
  ASSUME IInv, NEW p, SameButSeen(pool, p), NEW ev, AddEvidenceDid(p, ev, pool'),
         everCommitted' = everCommitted
  PROVE  CommittedKnown'
<1>1. CommittedKnown
  BY DEF IInv
<1>2. /\ pool'.committed = pool.committed /\ pool'.currentHeight = pool.currentHeight
      /\ \A e \in ToSet(pool'.pending) :
           e \in ToSet(pool.pending) \/ (e = ev /\ ev \notin pool.committed /\ ~TooOld(pool, ev.h))
  BY DEF AddEvidenceDid, SameButSeen, TooOld
<1>3. QED
  BY <1>1, <1>2 DEF CommittedKnown, TooOld

LEMMA HandleVoteStep ==
  ASSUME IInv, NEW vote \in Incoming, handleVote(vote)
  PROVE  IInv' /\ SeenStay
<1>1. HvsOK(hvs) /\ PoolOK(pool) /\ CommittedKnown /\ CountedSeen /\ added = Counted(hvs)
  BY DEF IInv
<1>2. hvs.height \in Nat /\ pool.currentHeight \in Nat /\ VoteProtectionWindow \in Nat
      /\ pool.currentHeight <= hvs.height
  BY <1>1, HandlingAssumption, PoolAssumption DEF HvsOK, PoolOK, PoolTyped, CountedSeen
<1> DEFINE a == AddVote(hvs, vote, FALSE)
           pOf(c) == IF c.ev = None THEN c.pool ELSE AddDuplicateVoteEvidence(c.pool, c.ev, hvs.pubKeys)
           noRoom(c) == c.err = "ErrVotePoolFull" \/ (c.ev # None /\ c.ev \notin ToSet(pOf(c).pending))
           keys(c) == Accused(pOf(c)) \cup (IF noRoom(c) THEN {voteKey(vote)} ELSE {})
           bad(c) == IF c.err = "invalid" /\ vote.h = hvs.height THEN Seen(pool, vote) ELSE {}
<1>3. PICK c \in UNION {CheckVote(pool, vote, hvs.pubKeys, now) : now \in Now} :
        pool' = pOf(c) /\ hvs' = a.hvs /\ Remember(vote, a.err, keys(c)) /\ everCommitted' = everCommitted
        /\ invalid' = invalid \cup bad(c)
  BY DEF handleVote
<1>4. PICK now \in Now : c \in CheckVote(pool, vote, hvs.pubKeys, now)
  BY <1>3
<1>5. now \in Nat
  BY <1>2, <1>4 DEF Now
<1>6. vote \in Vote /\ VoteTyped(vote)
  BY IncomingTyped
<1>7. CheckVoteDid(pool, vote, hvs.pubKeys, c)
  BY <1>1, <1>4, <1>5, <1>6, CheckVoteDoes
<1>8. AddVoteDid(hvs, vote, a)
  BY <1>1, <1>6, AddVoteDoes
<1>9. PoolOK(c.pool) /\ SameButSeen(pool, c.pool) /\ c.ev \in Evidence \cup {None}
  BY <1>7 DEF CheckVoteDid
<1>10. /\ pool' = pOf(c) /\ hvs' = a.hvs /\ Remember(vote, a.err, keys(c))
       /\ everCommitted' = everCommitted /\ invalid' = invalid \cup bad(c)
  BY <1>3
<1>11. \E ev : AddEvidenceDid(c.pool, ev, pool')
  <2>1. CASE c.ev = None
    <3>1. pool' = c.pool
      BY <1>10, <2>1
    <3>2. QED
      BY <1>9, <3>1 DEF AddEvidenceDid
  <2>2. CASE c.ev # None
    <3>1. pool' = AddDuplicateVoteEvidence(c.pool, c.ev, hvs.pubKeys) /\ c.ev \in Evidence
      BY <1>9, <1>10, <2>2
    <3>2. QED
      BY <1>9, <3>1, AddEvidenceDoes
  <2>3. QED
    BY <2>1, <2>2
<1>12. /\ PoolOK(pool') /\ pool'.seenVotes = c.pool.seenVotes
       /\ pool'.currentHeight = pool.currentHeight
  BY <1>9, <1>11 DEF AddEvidenceDid, SameButSeen
<1>13. CommittedKnown'
  BY <1>9, <1>10, <1>11, CommittedKept
<1> HIDE DEF a, keys, bad
<1>14. /\ HvsOK(hvs') /\ hvs'.height = hvs.height /\ added' = Counted(hvs')
       /\ accounted \subseteq accounted' /\ keys(c) \subseteq accounted'
       /\ \A e \in added' : e \in added \/
            (a.err = "nil" /\ KeyOf(hvs.height, e) = voteKey(vote) /\ e[4] = vote.hash)
       /\ (a.err = "ErrConflictingVote" => Settled(voteKey(vote))) => UnreportedExcused'
  BY <1>8, <1>10, VotesRemembered
<1>15. \A w \in pool.seenVotes \ pool'.seenVotes : w.h < pool.currentHeight - VoteProtectionWindow
  BY <1>7, <1>12 DEF CheckVoteDid
<1>16. ASSUME c.ev # None, voteKey(c.ev.a) = voteKey(vote)
       PROVE  voteKey(vote) \in accounted'
  <2>1. CASE c.ev \in ToSet(pool'.pending)
    BY <1>10, <1>14, <1>16, <2>1 DEF keys, Accused
  <2>2. CASE c.ev \notin ToSet(pool'.pending)
    <3>1. noRoom(c)
      BY <1>10, <1>16, <2>2
    <3>2. QED
      BY <1>14, <3>1 DEF keys
  <2>3. QED
    BY <2>1, <2>2
<1>17. c.err = "ErrVotePoolFull" => voteKey(vote) \in accounted'
  BY <1>14 DEF keys
<1>18. ASSUME NEW e \in added, ~Settled(KeyOf(hvs.height, e))
       PROVE  IsSeen(pool', hvs.height, e)
  <2>1. PICK w \in pool.seenVotes : voteKey(w) = KeyOf(hvs.height, e) /\ w.hash = e[4]
    BY <1>1, <1>10, <1>14, <1>18 DEF CountedSeen, IsSeen, Settled, Excused
  <2>2. w.h = hvs.height
    BY <2>1 DEF voteKey, KeyOf
  <2>3. ~(w.h < pool.currentHeight - VoteProtectionWindow)
    BY <1>2, <2>2
  <2>4. QED
    BY <1>15, <2>1, <2>3 DEF IsSeen
<1>19. ASSUME a.err \in {"nil", "ErrConflictingVote"}
       PROVE  /\ vote.h = hvs.height /\ vote.index = vote.validator
              /\ KnownVote(vote, hvs.pubKeys)
  <2>1. /\ vote.h = hvs.height /\ vote.index = vote.validator
        /\ vote.validator \in DOMAIN hvs.valSet
        /\ VerifyVoteSignature(vote, hvs.pubKeys[vote.validator])
    BY <1>8, <1>19 DEF AddVoteDid
  <2>2. DOMAIN hvs.pubKeys = DOMAIN hvs.valSet
    BY <1>1, HandlingAssumption DEF HvsOK
  <2>3. QED
    BY <2>1, <2>2 DEF KnownVote
<1>20. ASSUME a.err \in {"nil", "ErrConflictingVote"}, MadeEvidence(pool, vote, hvs.pubKeys, c)
       PROVE  Settled(voteKey(vote))
  <2>1. CASE c.ev # None /\ voteKey(c.ev.a) = voteKey(vote)
    BY <1>16, <2>1 DEF Settled
  <2>2. CASE c.err = "invalid" /\ \E w \in Seen(pool, vote) : w.key # hvs.pubKeys[vote.validator]
    <3>1. PICK w \in Seen(pool, vote) : w.key # hvs.pubKeys[vote.validator]
      BY <2>2
    <3>2. voteKey(w) = voteKey(vote) /\ w.h = hvs.height /\ w.validator = vote.validator
      BY <1>19, <1>20 DEF Seen, voteKey
    <3>3. hvs.pubKeys = PubKeys[hvs.height]
      BY <1>1 DEF HvsOK
    <3>4. w \in invalid'
      BY <1>10, <1>19, <1>20, <2>2 DEF bad
    <3>5. QED
      BY <3>1, <3>2, <3>3, <3>4 DEF Settled, Excused
  <2>3. QED
    BY <1>20, <2>1, <2>2 DEF MadeEvidence
<1>21. ASSUME NEW e \in added' PROVE Settled(KeyOf(hvs.height, e)) \/ IsSeen(pool', hvs.height, e)
  <2>1. CASE e \in added
    BY <1>18, <2>1
  <2>2. CASE e \notin added
    <3>1. a.err = "nil" /\ KeyOf(hvs.height, e) = voteKey(vote) /\ e[4] = vote.hash
      BY <1>14, <1>21, <2>2
    <3>2. \/ c.err = "ErrVotePoolFull"
          \/ MadeEvidence(pool, vote, hvs.pubKeys, c)
          \/ \E w \in c.pool.seenVotes : voteKey(w) = voteKey(vote) /\ w.hash = vote.hash
      BY <1>7, <1>19, <3>1 DEF CheckVoteDid
    <3>3. CASE c.err = "ErrVotePoolFull"
      BY <1>17, <3>1, <3>3 DEF Settled
    <3>4. CASE MadeEvidence(pool, vote, hvs.pubKeys, c)
      BY <1>20, <3>1, <3>4
    <3>5. CASE \E w \in c.pool.seenVotes : voteKey(w) = voteKey(vote) /\ w.hash = vote.hash
      BY <1>12, <3>1, <3>5 DEF IsSeen
    <3>6. QED
      BY <3>2, <3>3, <3>4, <3>5
  <2>3. QED
    BY <2>1, <2>2
<1>22. CountedSeen'
  BY <1>2, <1>12, <1>14, <1>21 DEF CountedSeen, IsSeen, Settled, Excused
<1>23. ASSUME a.err = "ErrConflictingVote" PROVE Settled(voteKey(vote))
  <2>1. PICK x : x # vote.hash /\ <<vote.t, vote.r, vote.index, x>> \in added
    BY <1>1, <1>8, <1>23 DEF AddVoteDid
  <2> DEFINE e == <<vote.t, vote.r, vote.index, x>>
  <2>2. e \in added /\ e[4] = x
    BY <2>1
  <2>3. KeyOf(hvs.height, e) = voteKey(vote)
    BY <1>19, <1>23 DEF KeyOf, voteKey
  <2> HIDE DEF e
  <2>4. CASE KeyOf(hvs.height, e) \in accounted \/ Excused(invalid, KeyOf(hvs.height, e))
    BY <1>10, <1>14, <2>3, <2>4 DEF Settled, Excused
  <2>5. CASE IsSeen(pool, hvs.height, e)
    <3>1. \E w \in Seen(pool, vote) : w.hash # vote.hash
      BY <2>1, <2>2, <2>3, <2>5 DEF IsSeen, Seen
    <3>2. MadeEvidence(pool, vote, hvs.pubKeys, c)
      BY <1>7, <1>19, <1>23, <3>1 DEF CheckVoteDid
    <3>3. QED
      BY <1>20, <1>23, <3>2
  <2>6. QED
    BY <1>1, <2>2, <2>4, <2>5 DEF CountedSeen
<1>24. UnreportedExcused'
  BY <1>14, <1>23
<1>25. IInv'
  BY <1>12, <1>13, <1>14, <1>22, <1>24 DEF IInv
<1>26. SeenStay
  BY <1>12, <1>15 DEF SeenStay
<1>27. QED
  BY <1>25, <1>26

(* A vote that bypasses the pool, and is accounted for when it counts. *)
LEMMA BypassStep ==
  ASSUME IInv, NEW vote, NEW a, AddVoteDid(hvs, vote, a), hvs' = a.hvs,
         NEW keys, Remember(vote, a.err, keys),
         a.err \in {"nil", "ErrConflictingVote"} => voteKey(vote) \in keys,
         pool' = pool, invalid' = invalid, everCommitted' = everCommitted
  PROVE  IInv'
<1>1. PoolOK(pool) /\ CommittedKnown /\ CountedSeen
  BY DEF IInv
<1>2. /\ HvsOK(hvs') /\ hvs'.height = hvs.height /\ added' = Counted(hvs')
      /\ accounted \subseteq accounted' /\ keys \subseteq accounted'
      /\ \A e \in added' : e \in added \/
           (a.err = "nil" /\ KeyOf(hvs.height, e) = voteKey(vote) /\ e[4] = vote.hash)
      /\ (a.err = "ErrConflictingVote" => Settled(voteKey(vote))) => UnreportedExcused'
  BY VotesRemembered
<1>3. CountedSeen'
  BY <1>1, <1>2 DEF CountedSeen, IsSeen, Excused
<1>4. CommittedKnown'
  BY <1>1 DEF CommittedKnown, TooOld
<1>5. UnreportedExcused'
  BY <1>2 DEF Settled
<1>6. QED
  BY <1>1, <1>2, <1>3, <1>4, <1>5 DEF IInv

LEMMA SignStep ==
  ASSUME IInv, NEW t \in VoteTypes, NEW r \in Rounds, NEW hash \in BlockHashes \cup {NilHash},
         signAndSendVote(t, r, hash)
  PROVE  IInv' /\ SeenStay
<1> DEFINE vote == [validator |-> Self, index |-> Self, h |-> hvs.height, r |-> r, t |-> t,
                    hash |-> hash, key |-> SelfKey, timely |-> TRUE]
           a == AddVote(hvs, vote, FALSE)
<1>1. /\ a.err = "nil" /\ hvs' = a.hvs /\ Remember(vote, "nil", {voteKey(vote)})
      /\ pool' = pool /\ invalid' = invalid /\ everCommitted' = everCommitted
  BY DEF signAndSendVote
<1>2. VoteTyped(vote)
  BY DEF VoteTyped, Hashes
<1> HIDE DEF vote
<1>3. AddVoteDid(hvs, vote, a)
  BY <1>2, AddVoteDoes DEF IInv
<1> HIDE DEF a
<1>4. IInv'
  BY <1>1, <1>3, BypassStep
<1>5. SeenStay
  BY <1>1 DEF SeenStay
<1>6. QED
  BY <1>4, <1>5

LEMMA KeptStep ==
  ASSUME IInv, NEW ref, NEW vote \in Flawless, AddToKept(ref, vote)
  PROVE  IInv' /\ SeenStay
<1> DEFINE a == AddVoteTo(hvs, ref, vote)
           keys == IF a.err \in {"nil", "ErrConflictingVote"} THEN {voteKey(vote)} ELSE {}
<1>1. /\ hvs' = a.hvs /\ Remember(vote, a.err, keys)
      /\ pool' = pool /\ invalid' = invalid /\ everCommitted' = everCommitted
  BY DEF AddToKept
<1>2. VoteTyped(vote)
  BY IncomingTyped
<1>3. AddVoteDid(hvs, vote, a)
  BY <1>2, AddVoteToDoes DEF IInv
<1>4. a.err \in {"nil", "ErrConflictingVote"} => voteKey(vote) \in keys
  OBVIOUS
<1> HIDE DEF a, keys
<1>5. IInv'
  BY <1>1, <1>3, <1>4, BypassStep
<1>6. SeenStay
  BY <1>1 DEF SeenStay
<1>7. QED
  BY <1>5, <1>6

LEMMA NoVotesYet ==
  ASSUME NEW hv, DOMAIN hv = {"height", "valSet", "pubKeys", "sets", "generation"},
         hv.height \in Heights, hv.valSet = ValSets[hv.height], hv.pubKeys = PubKeys[hv.height],
         hv.sets = <<>>
  PROVE  HvsOK(hv) /\ Counted(hv) = {}
<1>1. DOMAIN hv.sets = {}
  OBVIOUS
<1>2. QED
  BY <1>1 DEF HvsOK, Counted

LEMMA NextHeightStep ==
  ASSUME IInv, NextHeight
  PROVE  IInv' /\ SeenStay
<1>1. HvsOK(hvs) /\ PoolOK(pool) /\ CommittedKnown /\ CountedSeen /\ UnreportedExcused
  BY DEF IInv
<1> DEFINE h == hvs.height + 1
<1>2. h \in Heights /\ hvs' = Reset(hvs, h, ValSets[h], PubKeys[h]) /\ added' = {}
      /\ pool' = pool /\ unreported' = {} /\ everCommitted' = everCommitted
  BY DEF NextHeight
<1>3. /\ DOMAIN hvs' = {"height", "valSet", "pubKeys", "sets", "generation"}
      /\ hvs'.height = h /\ hvs'.valSet = ValSets[h] /\ hvs'.pubKeys = PubKeys[h] /\ hvs'.sets = <<>>
  BY <1>2 DEF Reset
<1>4. HvsOK(hvs') /\ Counted(hvs') = {}
  BY <1>2, <1>3, NoVotesYet
<1>5. hvs.height \in Nat /\ pool.currentHeight \in Nat
  BY <1>1, HandlingAssumption DEF HvsOK, PoolOK, PoolTyped
<1>6. CountedSeen'
  <2>1. pool.currentHeight <= hvs.height
    BY <1>1 DEF CountedSeen
  <2>2. pool'.currentHeight <= hvs'.height
    <3>1. pool' = pool /\ hvs'.height = hvs.height + 1
      BY <1>2, <1>3
    <3>2. QED
      BY <2>1, <3>1, <1>5
  <2>3. added' = {}
    BY <1>2
  <2>4. QED
    BY <2>2, <2>3, Zenon DEF CountedSeen
<1>7. CommittedKnown'
  BY <1>1, <1>2 DEF CommittedKnown, TooOld
<1>8. IInv'
  BY <1>1, <1>2, <1>4, <1>6, <1>7 DEF IInv, UnreportedExcused
<1>9. QED
  BY <1>2, <1>8 DEF SeenStay

LEMMA UpdatePoolStep ==
  ASSUME IInv, UpdatePool
  PROVE  IInv' /\ SeenStay
<1>1. HvsOK(hvs) /\ PoolOK(pool) /\ CommittedKnown /\ CountedSeen /\ UnreportedExcused
      /\ added = Counted(hvs)
  BY DEF IInv
<1> DEFINE h == pool.currentHeight + 1
           time == 2 * hvs.height
<1>2. /\ pool.currentHeight < hvs.height /\ pool' = Update(pool, h, time)
      /\ UNCHANGED <<hvs, added, accounted, unreported, invalid, everCommitted>>
  BY DEF UpdatePool
<1>3. hvs.height \in Nat /\ pool.currentHeight \in Nat
  BY <1>1, HandlingAssumption DEF HvsOK, PoolOK, PoolTyped
<1>4. h \in Nat /\ time \in Nat
  BY <1>3
<1> HIDE DEF time
<1>5. /\ PoolOK(pool') /\ pool'.currentHeight = h
      /\ ToSet(pool'.pending) \subseteq ToSet(pool.pending)
      /\ \A e \in pool.committed : e \in pool'.committed \/ TooOld(pool', e.h)
      /\ \A w \in pool.seenVotes : w \in pool'.seenVotes \/ TooOld(pool', w.h)
  <2> HIDE DEF h
  <2>1. QED
    BY <1>1, <1>2, <1>4, UpdateDoes
<1>6. MaxAgeBlocks \in Nat
  BY PoolAssumption
<1>7. CommittedKnown'
  <2>1. ASSUME NEW e \in everCommitted
        PROVE  e \notin ToSet(pool'.pending) /\ (e \in pool'.committed \/ TooOld(pool', e.h))
    <3>1. e \in Evidence /\ e \notin ToSet(pool.pending) /\ (e \in pool.committed \/ TooOld(pool, e.h))
      BY <1>1 DEF CommittedKnown
    <3>2. e.h \in Int
      BY <3>1, HandlingAssumption DEF Evidence
    <3>3. TooOld(pool, e.h) => TooOld(pool', e.h)
      BY <1>3, <1>5, <1>6, <3>2 DEF TooOld
    <3>4. QED
      BY <1>5, <3>1, <3>3
  <2>2. QED
    BY <1>1, <1>2, <2>1 DEF CommittedKnown
<1>8. CountedSeen'
  <2>1. pool'.currentHeight <= hvs.height
    BY <1>2, <1>3, <1>5
  <2>2. ASSUME NEW e \in added, KeyOf(hvs.height, e) \notin accounted,
               ~Excused(invalid, KeyOf(hvs.height, e))
        PROVE  IsSeen(pool', hvs.height, e)
    <3>1. PICK w \in pool.seenVotes : voteKey(w) = KeyOf(hvs.height, e) /\ w.hash = e[4]
      BY <1>1, <2>2 DEF CountedSeen, IsSeen
    <3>2. w.h = hvs.height
      BY <3>1 DEF voteKey, KeyOf
    <3>3. ~TooOld(pool', w.h)
      BY <1>3, <1>5, <1>6, <2>1, <3>2 DEF TooOld
    <3>4. QED
      BY <1>5, <3>1, <3>3 DEF IsSeen
  <2>3. QED
    BY <1>2, <2>1, <2>2 DEF CountedSeen, IsSeen, Excused
<1>9. IInv'
  BY <1>1, <1>2, <1>5, <1>7, <1>8 DEF IInv, UnreportedExcused, Excused
<1>10. QED
  BY <1>5, <1>9 DEF SeenStay

LEMMA CommitEvidenceStep ==
  ASSUME IInv, NEW n \in 1 .. MaxPendingEvidence, CommitEvidence(n)
  PROVE  IInv' /\ SeenStay
<1>1. HvsOK(hvs) /\ PoolOK(pool) /\ CommittedKnown /\ CountedSeen /\ UnreportedExcused
      /\ added = Counted(hvs)
  BY DEF IInv
<1> DEFINE evs == ToSet(PendingEvidence(pool, n))
<1>2. /\ n <= Len(pool.pending) /\ pool' = MarkCommitted(pool, evs)
      /\ everCommitted' = everCommitted \cup evs
      /\ UNCHANGED <<hvs, added, accounted, unreported, invalid>>
  BY DEF CommitEvidence
<1>3. pool.pending \in Seq(Evidence)
  BY <1>1 DEF PoolOK, PoolTyped
<1>4. evs \in SUBSET Evidence
  <2>1. Len(pool.pending) \in Nat /\ n \in Nat
    BY <1>3, PoolAssumption
  <2>2. Min({n, Len(pool.pending)}) = n
    BY <1>2, <2>1 DEF Min
  <2>3. SubSeq(pool.pending, 1, n) \in Seq(Evidence)
    BY <1>2, <1>3, <2>1
  <2>4. PendingEvidence(pool, n) \in Seq(Evidence)
    BY <2>2, <2>3 DEF PendingEvidence
  <2>5. QED
    BY <2>4, InToSet
<1> HIDE DEF evs
<1>5. /\ PoolOK(pool') /\ pool'.committed = pool.committed \cup evs
      /\ pool'.seenVotes = pool.seenVotes /\ pool'.currentHeight = pool.currentHeight
      /\ \A e \in ToSet(pool'.pending) : e \in ToSet(pool.pending) /\ e \notin evs
  BY <1>1, <1>2, <1>4, MarkCommittedDoes
<1>6. CommittedKnown'
  BY <1>1, <1>2, <1>4, <1>5 DEF CommittedKnown, TooOld
<1>7. CountedSeen'
  BY <1>1, <1>2, <1>5 DEF CountedSeen, IsSeen, Excused
<1>8. IInv'
  BY <1>1, <1>2, <1>5, <1>6, <1>7 DEF IInv, UnreportedExcused, Excused
<1>9. QED
  BY <1>5, <1>8 DEF SeenStay

LEMMA ReceiveEvidenceStep ==
  ASSUME IInv, NEW ev \in everCommitted, ReceiveEvidence(ev)
  PROVE  IInv' /\ SeenStay
<1>1. HvsOK(hvs) /\ PoolOK(pool) /\ CommittedKnown /\ CountedSeen /\ UnreportedExcused
      /\ added = Counted(hvs)
  BY DEF IInv
<1>2. /\ pool' = AddDuplicateVoteEvidence(pool, ev, hvs.pubKeys) /\ accounted \subseteq accounted'
      /\ UNCHANGED <<hvs, added, unreported, invalid, everCommitted>>
  BY DEF ReceiveEvidence
<1>3. ev \in Evidence
  BY <1>1 DEF CommittedKnown
<1>4. AddEvidenceDid(pool, ev, pool')
  BY <1>1, <1>2, <1>3, AddEvidenceDoes
<1>5. CommittedKnown'
  BY <1>2, <1>4, CommittedKept DEF SameButSeen
<1>6. PoolOK(pool') /\ pool'.seenVotes = pool.seenVotes /\ pool'.currentHeight = pool.currentHeight
  BY <1>4 DEF AddEvidenceDid
<1>7. CountedSeen'
  BY <1>1, <1>2, <1>6 DEF CountedSeen, IsSeen, Excused
<1>8. IInv'
  BY <1>1, <1>2, <1>5, <1>6, <1>7 DEF IInv, UnreportedExcused, Excused
<1>9. QED
  BY <1>6, <1>8 DEF SeenStay

-----------------------------------------------------------------------------
(* Results. *)

LEMMA InitHolds == Init => IInv
<1> SUFFICES ASSUME Init PROVE IInv
  OBVIOUS
<1>1. /\ DOMAIN hvs = {"height", "valSet", "pubKeys", "sets", "generation"}
      /\ hvs.height = 1 /\ hvs.valSet = ValSets[1] /\ hvs.pubKeys = PubKeys[1] /\ hvs.sets = <<>>
      /\ 1 \in Heights
  BY HandlingAssumption DEF Init, NewHeightVoteSet
<1>2. HvsOK(hvs) /\ Counted(hvs) = {}
  BY <1>1, NoVotesYet
<1>3. /\ pool = NewPool /\ added = {} /\ unreported = {} /\ everCommitted = {}
  BY DEF Init
<1>4. PoolTyped(pool) /\ pool.seenVotes = {} /\ Len(pool.pending) = 0 /\ pool.currentHeight = 0
  <2>1. pool = [pending |-> <<>>, committed |-> {}, seenVotes |-> {},
                currentHeight |-> 0, currentTime |-> 0]
    BY <1>3 DEF NewPool
  <2>2. <<>> \in Seq(Evidence) /\ Len(<<>>) = 0
    OBVIOUS
  <2> DEFINE E == Evidence
             V == SeenVote
  <2> HIDE DEF E, V
  <2>3. pool \in [pending : Seq(E), committed : SUBSET E, seenVotes : SUBSET V,
                  currentHeight : Nat, currentTime : Nat]
    BY <2>1
  <2>4. QED
    BY <2>1, <2>2, <2>3 DEF PoolTyped, E, V
<1>5. IsFiniteSet({}) /\ Cardinality({}) = 0
  BY FS_EmptySet
<1>6. PoolOK(pool)
  BY <1>4, <1>5, PoolAssumption DEF PoolOK, OnePerKey
<1>7. CommittedKnown /\ CountedSeen
  BY <1>1, <1>3, <1>4 DEF CommittedKnown, CountedSeen
<1>8. QED
  BY <1>2, <1>3, <1>6, <1>7 DEF IInv, UnreportedExcused

LEMMA StepHolds == IInv /\ [Next]_vars => IInv' /\ (SeenStay \/ UNCHANGED vars)
<1> SUFFICES ASSUME IInv, [Next]_vars PROVE IInv' /\ (SeenStay \/ UNCHANGED vars)
  OBVIOUS
<1>1. CASE UNCHANGED vars
  BY <1>1 DEF vars, IInv, CommittedKnown, CountedSeen, UnreportedExcused, Excused
<1>2. ASSUME NEW vote \in Incoming, handleVote(vote) PROVE IInv' /\ SeenStay
  BY <1>2, HandleVoteStep
<1>3. ASSUME NEW t \in VoteTypes, NEW r \in Rounds, NEW hash \in BlockHashes \cup {NilHash},
             signAndSendVote(t, r, hash)
      PROVE  IInv' /\ SeenStay
  BY <1>3, SignStep
<1>4. ASSUME NEW ref, NEW vote \in Flawless, AddToKept(ref, vote) PROVE IInv' /\ SeenStay
  BY <1>4, KeptStep
<1>5. CASE NextHeight
  BY <1>5, NextHeightStep
<1>6. CASE UpdatePool
  BY <1>6, UpdatePoolStep
<1>7. ASSUME NEW n \in 1 .. MaxPendingEvidence, CommitEvidence(n) PROVE IInv' /\ SeenStay
  BY <1>7, CommitEvidenceStep
<1>8. ASSUME NEW ev \in everCommitted, ReceiveEvidence(ev) PROVE IInv' /\ SeenStay
  BY <1>8, ReceiveEvidenceStep
<1>9. QED
  BY <1>1, <1>2, <1>3, <1>4, <1>5, <1>6, <1>7, <1>8 DEF Next

(* The inductive invariant holds: right tallies, a bounded pool, committed *)
(* evidence that is remembered or too old, and a pool that has seen every  *)
(* counted vote it was shown and had room for.                             *)
THEOREM Invariance == Spec => []IInv
<1>1. IInv /\ [Next]_vars => IInv'
  BY StepHolds
<1>2. QED
  BY <1>1, InitHolds, PTL DEF Spec

(* The vote sets hold votes of the height's validators, and the pool stays *)
(* within its limits, with one vote for each key.                          *)
THEOREM TypeCorrect == Spec => []TypeOK
<1>1. IInv => TypeOK
  BY DEF IInv, TypeOK, HvsOK, VoteSetOK, VotesTyped, PoolOK, PoolTyped, OnePerKey
<1>2. QED
  BY <1>1, Invariance, PTL

(* The running sums of addVoteInternal are exact, and maj23 is the block,  *)
(* or nil, with 2/3+ of the power, however votes interleave.               *)
THEOREM TalliesExact == Spec => []TallyIsExact
<1>1. ASSUME IInv PROVE TallyIsExact
  <2>1. SUFFICES ASSUME NEW s \in DOMAIN hvs.sets
                 PROVE  LET vs == hvs.sets[s]
                            voters(key) == {v \in DOMAIN vs.votes : blockHashKey(vs.votes[v]) = key}
                            power(key) == Power(hvs.valSet, voters(key))
                        IN  /\ vs.sum = Power(hvs.valSet, DOMAIN vs.votes)
                            /\ \A key \in {blockHashKey(x) : x \in Hashes} :
                                 /\ BlockPower(vs, key) = power(key)
                                 /\ (vs.maj23 = key) = (power(key) >= Quorum(hvs.valSet))
    BY DEF TallyIsExact
  <2> DEFINE vs == hvs.sets[s]
  <2>2. VoteSetOK(vs, hvs.valSet)
    BY <1>1 DEF IInv, HvsOK
  <2> HIDE DEF vs
  <2>3. vs.sum = Power(hvs.valSet, DOMAIN vs.votes)
    BY <2>2 DEF VoteSetOK, SumsRight
  <2>4. ASSUME NEW key \in {blockHashKey(x) : x \in Hashes}
        PROVE  /\ BlockPower(vs, key) = Power(hvs.valSet, VotersOf(vs, key))
               /\ (vs.maj23 = key) = (Power(hvs.valSet, VotersOf(vs, key)) >= Quorum(hvs.valSet))
    <3>1. key \in Keys
      BY KeysAre
    <3>2. vs.maj23 = key <=> Power(hvs.valSet, VotersOf(vs, key)) >= Quorum(hvs.valSet)
      BY <2>2, <3>1 DEF VoteSetOK, Maj23Right
    <3>3. QED
      BY <2>2, <3>1, <3>2 DEF VoteSetOK, SumsRight
  <2>5. QED
    BY <2>3, <2>4, Zenon DEF vs, VotersOf
<1>2. QED
  BY <1>1, Invariance, PTL

(* A vote that AddVote accepted is counted, also through kept vote sets. *)
THEOREM NoVotesLost == Spec => []NoVoteLost
<1>1. IInv => NoVoteLost
  BY DEF IInv, NoVoteLost, Counted
<1>2. QED
  BY <1>1, Invariance, PTL

(* Evidence of a block never waits for another one, whatever the order of  *)
(* Update, MarkCommitted, and evidence that comes back.                    *)
THEOREM EvidenceCommittedOnce == Spec => []CommittedOnce
<1>1. IInv => CommittedOnce
  BY DEF IInv, CommittedKnown, CommittedOnce
<1>2. QED
  BY <1>1, Invariance, PTL

(* Every conflict that the vote sets find is reported by the pool, unless  *)
(* one of the two votes bypassed it or found it full, or the pool holds a  *)
(* vote signed with a key that its validator does not have at its height,  *)
(* for which CheckVote created invalid evidence.                           *)
THEOREM ConflictsReported == Spec => []ConflictsAreReported
<1>1. IInv => ConflictsAreReported
  BY DEF IInv, ConflictsAreReported, UnreportedExcused, Excused
<1>2. QED
  BY <1>1, Invariance, PTL

(* VerifyCommit needs the signatures of 2/3+ of the power, in every state  *)
(* of CommitsNeedQuorum, over commits of any bounded length.               *)
THEOREM CommitsHaveQuorum == Spec => []CommitsNeedQuorum
<1>1. ASSUME IInv PROVE CommitsNeedQuorum
  <2> DEFINE valSet == hvs.valSet
             commitOf(sigs, hash) == [h |-> hvs.height, r |-> 0, hash |-> hash, sigs |-> sigs]
  <2>1. IsValSet(valSet)
    BY <1>1, ValSetsAre DEF IInv, HvsOK
  <2>2. ASSUME NEW sigs \in CommitSigs, NEW hash \in BlockHashes,
               VerifyCommit(valSet, hash, hvs.height, commitOf(sigs, hash)) = "nil"
        PROVE  Power(valSet, Signers(sigs, hash) \cap DOMAIN valSet) >= Quorum(valSet)
    <3> DEFINE I == DOMAIN ValSets[1] \cup {0}
               commit == commitOf(sigs, hash)
    <3>1. PICK m \in 0 .. MaxSigs : sigs \in [1 .. m -> CommitSig]
      BY DEF CommitSigs, BoundedSeq, SeqOf
    <3>2. m \in Nat
      BY HandlingAssumption
    <3>3. sigs \in Seq(CommitSig)
      BY <3>1, <3>2
    <3>4. CommitSig = Sigs(I, Hashes)
      BY DEF CommitSig, Sigs
    <3>5. commit.sigs = sigs
      OBVIOUS
    <3> HIDE DEF valSet, I, commit
    <3>6. Power(valSet, Signers(commit.sigs, hash) \cap DOMAIN valSet) >= Quorum(valSet)
      BY <2>1, <2>2, <3>3, <3>4, <3>5, CommitIsSound DEF commit
    <3>7. QED
      BY <3>5, <3>6
  <2>3. QED
    BY <2>2, Zenon DEF CommitsNeedQuorum, Signers
<1>2. QED
  BY <1>1, Invariance, PTL

(* MakeCommit's commits pass VerifyCommit and VerifyCommitLight, whatever   *)
(* the validators, the votes and their order.                              *)
THEOREM CommitsVerify == Spec => []CommitVerifies
<1>1. ASSUME IInv PROVE CommitVerifies
  <2> DEFINE Made(s) == MakeCommit(hvs.sets[s], s[1], hvs.height, s[2])
  <2>1. ASSUME NEW s \in DOMAIN hvs.sets, Made(s) # None
        PROVE  /\ VerifyCommit(hvs.valSet, Made(s).hash, hvs.height, Made(s)) = "nil"
               /\ VerifyCommitLight(hvs.valSet, Made(s).hash, hvs.height, Made(s)) = "nil"
    <3>1. IsValSet(hvs.valSet) /\ VoteSetOK(hvs.sets[s], hvs.valSet)
      BY <1>1, ValSetsAre DEF IInv, HvsOK
    <3>2. QED
      BY <2>1, <3>1, MadeCommitVerifies, Zenon
  <2>2. QED
    BY <2>1, Zenon DEF CommitVerifies
<1>2. QED
  BY <1>1, Invariance, PTL

(* A vote leaves the pool only when it is too old for evidence, or below   *)
(* the protection window.                                                  *)
THEOREM SeenVotesStay == Spec => ProtectedVotesStay
<1>1. IInv /\ [Next]_vars =>
        [\A w \in pool.seenVotes \ pool'.seenVotes :
           \/ w.h < pool'.currentHeight - VoteProtectionWindow
           \/ TooOld(pool', w.h)]_vars
  BY StepHolds DEF SeenStay
<1>2. QED
  BY <1>1, Invariance, PTL DEF Spec, ProtectedVotesStay
=============================================================================
