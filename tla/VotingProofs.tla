---------------------------- MODULE VotingProofs ----------------------------
(***************************************************************************)
(* The locking rules keep two different blocks from being certified unless *)
(* a nil polka came in between: for every set of validators, quorums,      *)
(* rounds and blocks.                                                      *)
(***************************************************************************)
EXTENDS Voting, WellFoundedInduction, TLAPS

(* Rounds are well ordered: a non-empty set of them has a first one. *)
Less == {p \in Nat \X Nat : p[1] < p[2]}

LEMMA LessIsLessThan == OpToRel(<, Nat) = Less
  BY Zenon DEF OpToRel, Less

LEMMA LessWellFounded == IsWellFoundedOn(Less, Nat)
  BY LessIsLessThan, NatLessThanWellFounded, Zenon

LEMMA FirstRound ==
  ASSUME NEW S \in SUBSET Nat, S # {}
  PROVE  \E m \in S : \A n \in S : m <= n
<1>1. PICK m \in S : \A n \in S : ~ (<<n, m>> \in Less)
  BY LessWellFounded, WFMin, Zenon
<1>2. ASSUME NEW n \in S PROVE m <= n
  <2>1. n \in Nat /\ m \in Nat
    OBVIOUS
  <2>2. ~ (<<n, m>> \in Less)
    BY <1>1
  <2>3. ~ (n < m)
    BY <2>1, <2>2 DEF Less
  <2>4. QED
    BY <2>1, <2>3
<1>3. QED
  BY <1>2

-----------------------------------------------------------------------------
(* Quorum intersection, on votes: two quorums that back b1 and b2 have a   *)
(* correct validator in common that cast both votes.                       *)
LEMMA CommonVoter ==
  ASSUME NEW V, NEW W, NEW Q1 \in Quorums, NEW Q2 \in Quorums,
         NEW h, NEW r1, NEW r2, NEW b1, NEW b2,
         Backs(V, Q1, h, r1, b1), Backs(W, Q2, h, r2, b2)
  PROVE  \E v \in Correct : /\ [h |-> h, v |-> v, r |-> r1, b |-> b1] \in V
                            /\ [h |-> h, v |-> v, r |-> r2, b |-> b2] \in W
<1>1. PICK v \in Q1 \cap Q2 \cap (Validators \ Faulty) : TRUE
  BY QuorumAssumption
<1>2. v \in Correct /\ v \in Q1 \ Faulty /\ v \in Q2 \ Faulty
  BY <1>1 DEF Correct
<1>3. QED
  BY <1>2 DEF Backs

(* A certificate for b1 and a later polka for another block: a validator   *)
(* that cast both votes was unlocked by a polka in between.                *)
LEMMA EarlierPolka ==
  ASSUME IInv, NEW h \in Heights, NEW r1 \in Rounds, NEW r2 \in Rounds, r1 < r2,
         NEW b1 \in Blocks, NEW b2 \in Blocks, b1 # b2,
         Certificate(h, r1, b1), Polka(h, r2, b2)
  PROVE  \E s \in Rounds : /\ r1 < s /\ s < r2
                           /\ \E c \in Blocks \cup {Nil} : c # b1 /\ Polka(h, s, c)
<1>1. PICK Q1 \in Quorums : Backs(precommits, Q1, h, r1, b1)
  BY DEF Certificate
<1>2. PICK Q2 \in Quorums : Backs(prevotes, Q2, h, r2, b2)
  BY DEF Polka
<1>3. PICK v \in Correct : /\ [h |-> h, v |-> v, r |-> r1, b |-> b1] \in precommits
                           /\ [h |-> h, v |-> v, r |-> r2, b |-> b2] \in prevotes
  BY <1>1, <1>2, CommonVoter
<1>4. b1 # Nil /\ b2 # Nil
  BY VotingAssumption
<1>5. Unlocked(v, h, r2, b2)
  BY <1>3, <1>4 DEF IInv, LocksRespected
<1>6. QED
  BY <1>3, <1>4, <1>5 DEF Unlocked

(* Two certificates of one round are for one block. *)
LEMMA OneCertificate ==
  ASSUME IInv, NEW h \in Heights, NEW r \in Rounds, NEW b1 \in Blocks, NEW b2 \in Blocks,
         Certificate(h, r, b1), Certificate(h, r, b2)
  PROVE  b1 = b2
<1>1. PICK Q1 \in Quorums : Backs(precommits, Q1, h, r, b1)
  BY DEF Certificate
<1>2. PICK Q2 \in Quorums : Backs(precommits, Q2, h, r, b2)
  BY DEF Certificate
<1>3. PICK v \in Correct : /\ [h |-> h, v |-> v, r |-> r, b |-> b1] \in precommits
                           /\ [h |-> h, v |-> v, r |-> r, b |-> b2] \in precommits
  BY <1>1, <1>2, CommonVoter
<1>4. [h |-> h, v |-> v, r |-> r, b |-> b1] = [h |-> h, v |-> v, r |-> r, b |-> b2]
  BY <1>3 DEF IInv, OneVoteEach
<1>5. QED
  BY <1>4

(* A certificate for a block stands on a polka for it. *)
LEMMA CertificateHasPolka ==
  ASSUME IInv, NEW h \in Heights, NEW r \in Rounds, NEW b \in Blocks, Certificate(h, r, b)
  PROVE  Polka(h, r, b)
<1>1. PICK Q \in Quorums : Backs(precommits, Q, h, r, b)
  BY DEF Certificate
<1>2. PICK v \in Correct : /\ [h |-> h, v |-> v, r |-> r, b |-> b] \in precommits
                           /\ [h |-> h, v |-> v, r |-> r, b |-> b] \in precommits
  BY <1>1, CommonVoter
<1>3. b # Nil
  BY VotingAssumption
<1>4. QED
  BY <1>2, <1>3 DEF IInv, PrecommitHasPolka

(* The invariant implies the property: of the rounds after r1 with a polka *)
(* for something other than b1, the first one can only be a nil polka.     *)
LEMMA ConflictFromInvariant == IInv => ConflictNeedsNilPolka
<1>1. SUFFICES ASSUME IInv, NEW h \in Heights, NEW r1 \in Rounds, NEW r2 \in Rounds,
                      NEW b1 \in Blocks, NEW b2 \in Blocks,
                      r1 <= r2, b1 # b2, Certificate(h, r1, b1), Certificate(h, r2, b2)
               PROVE  \E r \in Rounds : r1 < r /\ r < r2 /\ Polka(h, r, Nil)
  BY DEF ConflictNeedsNilPolka
<1>2. r1 < r2
  <2>1. r1 # r2
    BY <1>1, OneCertificate
  <2>2. r1 \in Nat /\ r2 \in Nat
    BY VotingAssumption
  <2>3. QED
    BY <1>1, <2>1, <2>2
<1>3. Polka(h, r2, b2)
  BY <1>1, CertificateHasPolka
<1> DEFINE S == {s \in Rounds : /\ r1 < s /\ s <= r2
                                /\ \E c \in Blocks \cup {Nil} : c # b1 /\ Polka(h, s, c)}
<1>4. S \in SUBSET Nat
  BY VotingAssumption
<1>5. r2 \in S
  <2>1. r2 \in Nat
    BY VotingAssumption
  <2>2. QED
    BY <1>1, <1>2, <1>3, <2>1
<1>6. PICK m \in S : \A n \in S : m <= n
  <2>1. S # {}
    BY <1>5
  <2> HIDE DEF S
  <2>2. QED
    BY <1>4, <2>1, FirstRound
<1>7. PICK c \in Blocks \cup {Nil} : c # b1 /\ Polka(h, m, c)
  BY <1>6
<1>8. m \in Rounds /\ r1 < m /\ m <= r2 /\ m \in Nat /\ r1 \in Nat /\ r2 \in Nat
  BY VotingAssumption
<1>9. c = Nil
  <2>1. SUFFICES ASSUME c \in Blocks PROVE FALSE
    OBVIOUS
  <2>2. PICK s \in Rounds : /\ r1 < s /\ s < m
                            /\ \E d \in Blocks \cup {Nil} : d # b1 /\ Polka(h, s, d)
    BY <1>1, <1>7, <1>8, <2>1, EarlierPolka
  <2>3. s \in Nat
    BY VotingAssumption
  <2>4. s \in S
    BY <1>8, <2>2, <2>3
  <2>5. m <= s
    BY <1>6, <2>4
  <2>6. QED
    BY <1>8, <2>2, <2>3, <2>5
<1>10. m # r2
  <2>1. SUFFICES ASSUME m = r2 PROVE FALSE
    OBVIOUS
  <2>2. PICK s \in Rounds : /\ r1 < s /\ s < r2
                            /\ \E d \in Blocks \cup {Nil} : d # b1 /\ Polka(h, s, d)
    BY <1>1, <1>2, <1>3, EarlierPolka
  <2>3. s \in Nat
    BY VotingAssumption
  <2>4. s \in S
    BY <1>8, <2>2, <2>3
  <2>5. m <= s
    BY <1>6, <2>4
  <2>6. QED
    BY <1>8, <2>1, <2>2, <2>3, <2>5
<1>11. m < r2
  BY <1>8, <1>10
<1>12. QED
  BY <1>7, <1>8, <1>9, <1>11

-----------------------------------------------------------------------------
(* Votes are only added, so polkas stay. *)
LEMMA PolkaStays ==
  ASSUME prevotes \subseteq prevotes', NEW h, NEW r, NEW b, Polka(h, r, b)
  PROVE  Polka(h, r, b)'
BY DEF Polka, Backs

(* What a step does to the votes of its validator. *)
LEMMA StepAdds ==
  ASSUME Next
  PROVE  \E v \in Correct, h \in Heights, r \in Rounds : \E b, c \in Blocks \cup {Nil} :
           \/ Prevote(v, h, r, b) /\ UNCHANGED precommits
           \/ UNCHANGED prevotes /\ Precommit(v, h, r, b)
           \/ Prevote(v, h, r, c) /\ Precommit(v, h, r, b)
BY DEF Next

LEMMA VotesGrow ==
  ASSUME Next
  PROVE  prevotes \subseteq prevotes' /\ precommits \subseteq precommits'
BY DEF Next, Prevote, Precommit

LEMMA InitIInv == Init => IInv
BY DEF Init, IInv, TypeOK, OneVoteEach, LocksRespected, PrecommitHasPolka

LEMMA TypeStep == IInv /\ Next => TypeOK'
BY DEF IInv, TypeOK, Next, Prevote, Precommit, Vote

(* Rounds of one validator's votes of one type increase. *)
LEMMA OneVoteStep == IInv /\ Next => OneVoteEach'
<1>1. SUFFICES ASSUME IInv, Next PROVE OneVoteEach'
  OBVIOUS
<1>2. \A r \in Rounds : r \in Nat
  BY VotingAssumption
<1>3. PICK v \in Correct, h \in Heights, r \in Rounds : \E b, c \in Blocks \cup {Nil} :
        \/ Prevote(v, h, r, b) /\ UNCHANGED precommits
        \/ UNCHANGED prevotes /\ Precommit(v, h, r, b)
        \/ Prevote(v, h, r, c) /\ Precommit(v, h, r, b)
  BY <1>1, StepAdds
<1>4. \A x, y \in prevotes' : x.v = y.v /\ x.h = y.h /\ x.r = y.r => x = y
  <2>1. CASE UNCHANGED prevotes
    BY <1>1, <2>1 DEF IInv, OneVoteEach
  <2>2. ASSUME NEW b \in Blocks \cup {Nil}, Prevote(v, h, r, b)
        PROVE  \A x, y \in prevotes' : x.v = y.v /\ x.h = y.h /\ x.r = y.r => x = y
    <3>1. \A x \in prevotes : x.v = v /\ x.h = h => x.r # r
      BY <1>2, <2>2 DEF Prevote, CanPrevote
    <3>2. QED
      BY <1>1, <2>2, <3>1 DEF Prevote, IInv, OneVoteEach
  <2>3. QED
    BY <1>3, <2>1, <2>2
<1>5. \A x, y \in precommits' : x.v = y.v /\ x.h = y.h /\ x.r = y.r => x = y
  <2>1. CASE UNCHANGED precommits
    BY <1>1, <2>1 DEF IInv, OneVoteEach
  <2>2. ASSUME NEW b \in Blocks \cup {Nil}, Precommit(v, h, r, b)
        PROVE  \A x, y \in precommits' : x.v = y.v /\ x.h = y.h /\ x.r = y.r => x = y
    <3>1. \A x \in precommits : x.v = v /\ x.h = h => x.r # r
      BY <1>2, <2>2 DEF Precommit
    <3>2. QED
      BY <1>1, <2>2, <3>1 DEF Precommit, IInv, OneVoteEach
  <2>3. QED
    BY <1>3, <2>1, <2>2
<1>6. QED
  BY <1>4, <1>5 DEF OneVoteEach

(* A lock that allowed a prevote still does after a step whose new         *)
(* precommits, if they are by that validator, are not of earlier rounds.   *)
LEMMA UnlockedStays ==
  ASSUME Next, NEW v, NEW h, NEW r, NEW b, Unlocked(v, h, r, b),
         \A x \in precommits' \ precommits : x.v = v /\ x.h = h => ~ (x.r < r)
  PROVE  Unlocked(v, h, r, b)'
<1>1. SUFFICES ASSUME NEW x \in precommits', x.v = v, x.h = h, x.r < r, x.b \notin {b, Nil}
               PROVE  \E s \in Rounds : /\ x.r < s /\ s < r
                        /\ \E c \in Blocks \cup {Nil} : c # x.b /\ Polka(h, s, c)'
  BY DEF Unlocked
<1>2. x \in precommits
  BY <1>1
<1>3. PICK s \in Rounds : /\ x.r < s /\ s < r
                          /\ \E c \in Blocks \cup {Nil} : c # x.b /\ Polka(h, s, c)
  BY <1>1, <1>2 DEF Unlocked
<1>4. PICK c \in Blocks \cup {Nil} : c # x.b /\ Polka(h, s, c)
  BY <1>3
<1>5. Polka(h, s, c)'
  BY <1>4, VotesGrow, PolkaStays
<1>6. QED
  BY <1>3, <1>4, <1>5

LEMMA LocksStep == IInv /\ Next => LocksRespected'
<1>1. SUFFICES ASSUME IInv, Next, NEW y \in prevotes', y.b # Nil
               PROVE  Unlocked(y.v, y.h, y.r, y.b)'
  BY DEF LocksRespected
<1>2. \A r \in Rounds : r \in Nat
  BY VotingAssumption
<1>3. PICK v \in Correct, h \in Heights, r \in Rounds : \E b, c \in Blocks \cup {Nil} :
        \/ Prevote(v, h, r, b) /\ UNCHANGED precommits
        \/ UNCHANGED prevotes /\ Precommit(v, h, r, b)
        \/ Prevote(v, h, r, c) /\ Precommit(v, h, r, b)
  BY <1>1, StepAdds
<1>4. \A x \in precommits' \ precommits : x.v = v /\ x.h = h /\ x.r = r
  BY <1>3 DEF Precommit
<1>5. CASE y \in prevotes
  <2>1. Unlocked(y.v, y.h, y.r, y.b)
    BY <1>1, <1>5 DEF IInv, LocksRespected
  <2>2. y.r \in Nat /\ r \in Nat
    BY <1>1, <1>2, <1>5 DEF IInv, TypeOK, Vote
  <2>3. ASSUME NEW x \in precommits' \ precommits, x.v = y.v, x.h = y.h PROVE ~ (x.r < y.r)
    <3>1. x.v = v /\ x.h = h /\ x.r = r
      BY <1>4
    <3>2. \E b \in Blocks \cup {Nil} : Precommit(v, h, r, b)
      BY <1>3, <2>3
    <3>3. y.r <= r
      BY <1>5, <2>3, <3>1, <3>2 DEF Precommit
    <3>4. QED
      BY <2>2, <3>1, <3>3
  <2>4. QED
    BY <1>1, <2>1, <2>3, UnlockedStays
<1>6. CASE y \notin prevotes
  <2>1. PICK b \in Blocks \cup {Nil} : Prevote(v, h, r, b)
    BY <1>1, <1>3, <1>6
  <2>2. y = [h |-> h, v |-> v, r |-> r, b |-> b]
    BY <1>1, <1>6, <2>1 DEF Prevote
  <2>3. Unlocked(y.v, y.h, y.r, y.b)
    BY <1>1, <2>1, <2>2 DEF Prevote, CanPrevote
  <2>4. r \in Nat
    BY <1>2
  <2>5. \A x \in precommits' \ precommits : x.v = y.v /\ x.h = y.h => ~ (x.r < y.r)
    BY <1>4, <2>2, <2>4
  <2>6. QED
    BY <1>1, <2>3, <2>5, UnlockedStays
<1>7. QED
  BY <1>5, <1>6

LEMMA PolkaStep == IInv /\ Next => PrecommitHasPolka'
<1>1. SUFFICES ASSUME IInv, Next, NEW x \in precommits', x.b # Nil
               PROVE  Polka(x.h, x.r, x.b)'
  BY DEF PrecommitHasPolka
<1>2. CASE x \in precommits
  <2>1. Polka(x.h, x.r, x.b)
    BY <1>1, <1>2 DEF IInv, PrecommitHasPolka
  <2>2. QED
    BY <1>1, <2>1, VotesGrow, PolkaStays
<1>3. CASE x \notin precommits
  <2>1. PICK v \in Correct, h \in Heights, r \in Rounds, b \in Blocks \cup {Nil} : Precommit(v, h, r, b)
    BY <1>1, <1>3 DEF Next
  <2>2. x = [h |-> h, v |-> v, r |-> r, b |-> b]
    BY <1>1, <1>3, <2>1 DEF Precommit
  <2>3. QED
    BY <1>1, <2>1, <2>2 DEF Precommit
<1>4. QED
  BY <1>2, <1>3

LEMMA NextIInv == IInv /\ [Next]_vars => IInv'
<1>1. CASE Next
  BY <1>1, TypeStep, OneVoteStep, LocksStep, PolkaStep DEF IInv
<1>2. CASE UNCHANGED vars
  BY <1>2 DEF vars, IInv, TypeOK, OneVoteEach, LocksRespected, PrecommitHasPolka,
              Unlocked, Polka, Backs
<1>3. QED
  BY <1>1, <1>2

(* IInv, which the runs check as an invariant, holds in every execution. *)
THEOREM LockingInvariant == Spec => []IInv
<1>1. Init => IInv
  BY InitIInv
<1>2. IInv /\ [Next]_vars => IInv'
  BY NextIInv
<1>3. QED
  BY <1>1, <1>2, PTL DEF Spec

(* Conflicting certificates need a nil polka in between, whatever the      *)
(* faulty validators add (enterPrevoteLocked, enterPrecommitLocked).       *)
THEOREM ConflictNeedsNilPolkaTheorem == Spec => []ConflictNeedsNilPolka
<1>1. IInv => ConflictNeedsNilPolka
  BY ConflictFromInvariant
<1>2. QED
  BY <1>1, LockingInvariant, PTL
=============================================================================
