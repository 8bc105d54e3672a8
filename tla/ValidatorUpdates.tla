-------------------------- MODULE ValidatorUpdates --------------------------
(***************************************************************************)
(* The validator set from height to height: finalizeCommitLocked rotates   *)
(* it, or applies the updates that the application returned for the block. *)
(***************************************************************************)
EXTENDS ValidatorSet

CONSTANTS
  AllNames,     \* the names that may ever validate
  Powers,       \* the voting powers an update may give, 0 to remove
  MaxUpdates    \* bound: the number of heights with updates

ASSUME UpdatesAssumption ==
  AllNames \subseteq Nat /\ Powers \subseteq Nat /\ MaxUpdates \in Nat

VARIABLES
  vs,        \* cs.validatorSet
  updates    \* the number of heights that changed the set

vars == <<vs, updates>>

PowerMaps(range) == UNION {[S -> range] : S \in SUBSET AllNames \ {{}}}

(* finalizeCommitLocked when ApplyBlock returned no updates. *)
Rotate ==
  /\ vs' = WithIncrementedPriority(vs, 1)
  /\ UNCHANGED updates

(* finalizeCommitLocked with updates; an invalid result is a panic, the    *)
(* chain stops and nothing changes.                                        *)
Update(ups) ==
  /\ updates < MaxUpdates
  /\ ValidPowers(UpdatedPower(vs, ups))
  /\ vs' = applyValidatorUpdates(vs, ups)
  /\ updates' = updates + 1

Init ==
  /\ vs \in {Genesis(power) : power \in {p \in PowerMaps(Powers \ {0}) : ValidPowers(p)}}
  /\ updates = 0

Next ==
  \/ Rotate
  \/ \E ups \in PowerMaps(Powers) : Update(ups)

Spec == Init /\ [][Next]_vars

-----------------------------------------------------------------------------
(* Properties. *)

(* The set stays one that NewValidatorSet would accept, with a proposer.   *)
TypeOK ==
  /\ updates \in 0 .. MaxUpdates
  /\ ValidPowers(vs.power) /\ vs.total = SumOf(vs.power)
  /\ DOMAIN vs.priority = Names(vs) /\ vs.proposer \in Names(vs)

(* "Priorities remain bounded" (centerPriorities): whatever the updates,   *)
(* they stay far from the int64 limits, so that the unchecked additions    *)
(* and subtractions of the rotation cannot wrap.                           *)
PrioritiesBounded ==
  \A v \in Names(vs) :
    vs.priority[v] \in -2 * MaxTotalVotingPower .. 2 * MaxTotalVotingPower

(* GetProposerForRound gives every validator a round within two turns of   *)
(* the whole power, as long as the powers are those of the genesis set: a  *)
(* height does not depend on one proposer being up.                        *)
EveryoneGetsARound ==
  updates = 0 => \A v \in Names(vs) :
    \E r \in 0 .. 2 * vs.total : GetProposerForRound(vs, r) = v

(* Rotation from height to height starves nobody, as long as the powers    *)
(* are those of the genesis set: every validator is the proposer of one of *)
(* the next 2 * total heights.  (After an update it may not be: the one    *)
(* that pays for a turn in IncrementProposerPriority is not the one that   *)
(* is recorded as proposer.)                                               *)
EveryoneProposes ==
  updates = 0 =>
    LET sets[k \in 0 .. 2 * vs.total] ==
          IF k = 0 THEN vs ELSE WithIncrementedPriority(sets[k - 1], 1)
    IN  \A v \in Names(vs) : \E k \in DOMAIN sets : sets[k].proposer = v
=============================================================================
