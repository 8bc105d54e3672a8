------------------------------- MODULE Voting -------------------------------
(***************************************************************************)
(* What the locking rules of the consensus engine promise, without its     *)
(* rounds, timers, proposals and messages: which votes a correct validator *)
(* may cast, given the votes cast so far.  Heights do not influence each   *)
(* other.  ConsensusState implements it.                                   *)
(*                                                                         *)
(* Votes of faulty validators are not recorded: they may be added to any   *)
(* count.                                                                  *)
(***************************************************************************)
EXTENDS Integers

CONSTANTS Validators, Faulty, Quorums, Heights, Rounds, Blocks, Nil

(* Two quorums share a correct validator: more than two thirds of the      *)
(* power each, less than a third of it faulty.                             *)
ASSUME QuorumAssumption ==
  /\ Quorums \subseteq SUBSET Validators
  /\ \A Q1, Q2 \in Quorums : Q1 \cap Q2 \cap (Validators \ Faulty) # {}
ASSUME VotingAssumption == Rounds \subseteq Nat /\ Nil \notin Blocks

Correct == Validators \ Faulty
Vote == [h : Heights, v : Correct, r : Rounds, b : Blocks \cup {Nil}]

VARIABLES prevotes, precommits

vars == <<prevotes, precommits>>

Backs(votes, Q, h, r, b) ==
  \A v \in Q \ Faulty : [h |-> h, v |-> v, r |-> r, b |-> b] \in votes

(* 2/3+ prevotes, and 2/3+ precommits, for b at height h in round r. *)
Polka(h, r, b) == \E Q \in Quorums : Backs(prevotes, Q, h, r, b)
Certificate(h, r, b) == \E Q \in Quorums : Backs(precommits, Q, h, r, b)

(* Mutant: a polka from before the lock opens it as well. *)
UnlockedByOldPolka(v, h, r, b) ==
  \A x \in precommits :
    x.v = v /\ x.h = h /\ x.r < r /\ x.b \notin {b, Nil}
      => \E s \in Rounds : /\ s < r
                           /\ \E c \in Blocks \cup {Nil} : c # x.b /\ Polka(h, s, c)

(* The lock: having precommitted c in an earlier round, v prevotes another *)
(* block only after a polka, in between, for something other than c.       *)
Unlocked(v, h, r, b) ==
  \A x \in precommits :
    x.v = v /\ x.h = h /\ x.r < r /\ x.b \notin {b, Nil}
      => \E s \in Rounds : /\ x.r < s /\ s < r
                           /\ \E c \in Blocks \cup {Nil} : c # x.b /\ Polka(h, s, c)

(* Mutant: the lock is not consulted. *)
CanPrevoteAny(v, h, r, b) ==
  /\ \A x \in prevotes : x.v = v /\ x.h = h => x.r < r
  /\ \A x \in precommits : x.v = v /\ x.h = h => x.r < r

CanPrevote(v, h, r, b) ==
  /\ \A x \in prevotes : x.v = v /\ x.h = h => x.r < r
  /\ \A x \in precommits : x.v = v /\ x.h = h => x.r < r
  /\ b # Nil => Unlocked(v, h, r, b)

(* One handler may cast the prevote and the precommit of a round. *)
Prevote(v, h, r, b) ==
  /\ CanPrevote(v, h, r, b)
  /\ prevotes' = prevotes \cup {[h |-> h, v |-> v, r |-> r, b |-> b]}

Precommit(v, h, r, b) ==
  /\ \A x \in precommits : x.v = v /\ x.h = h => x.r < r
  /\ \A x \in prevotes : x.v = v /\ x.h = h => x.r <= r
  /\ precommits' = precommits \cup {[h |-> h, v |-> v, r |-> r, b |-> b]}
  /\ b # Nil => Polka(h, r, b)'

Init == prevotes = {} /\ precommits = {}

Next ==
  \E v \in Correct, h \in Heights, r \in Rounds, b \in Blocks \cup {Nil} :
    \/ Prevote(v, h, r, b) /\ UNCHANGED precommits
    \/ UNCHANGED prevotes /\ Precommit(v, h, r, b)
    \/ \E c \in Blocks \cup {Nil} : Prevote(v, h, r, c) /\ Precommit(v, h, r, b)

Spec == Init /\ [][Next]_vars

-----------------------------------------------------------------------------
(* Properties. *)

TypeOK == prevotes \subseteq Vote /\ precommits \subseteq Vote

(* Two rounds certify different blocks only if a round strictly between    *)
(* them had 2/3+ prevotes for nil, which is when enterPrecommitLocked      *)
(* drops the lock for good.                                                *)
ConflictNeedsNilPolka ==
  \A h \in Heights : \A r1, r2 \in Rounds : \A b1, b2 \in Blocks :
    r1 <= r2 /\ b1 # b2 /\ Certificate(h, r1, b1) /\ Certificate(h, r2, b2)
      => \E r \in Rounds : r1 < r /\ r < r2 /\ Polka(h, r, Nil)

-----------------------------------------------------------------------------
(* The inductive invariant. *)

OneVoteEach ==
  /\ \A x, y \in prevotes : x.v = y.v /\ x.h = y.h /\ x.r = y.r => x = y
  /\ \A x, y \in precommits : x.v = y.v /\ x.h = y.h /\ x.r = y.r => x = y

(* Every prevote for a block was, and stays, allowed by the lock. *)
LocksRespected ==
  \A y \in prevotes : y.b # Nil => Unlocked(y.v, y.h, y.r, y.b)

PrecommitHasPolka == \A x \in precommits : x.b # Nil => Polka(x.h, x.r, x.b)

IInv == TypeOK /\ OneVoteEach /\ LocksRespected /\ PrecommitHasPolka
=============================================================================
