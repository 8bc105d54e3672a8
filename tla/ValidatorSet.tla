---------------------------- MODULE ValidatorSet ----------------------------
(***************************************************************************)
(* The weighted proposer rotation and the quorum size of a validator set   *)
(* (types/validator.go), and the update of the set at the end of a height  *)
(* (applyValidatorUpdates in engine/state.go), as operators.               *)
(*                                                                         *)
(* A set is a record of functions on the validators' names.  Names are     *)
(* numbers: only their order is used, to break ties and, as in the slice   *)
(* that applyValidatorUpdates sorts, to add up priorities.  A list of      *)
(* updates names a validator at most once.                                 *)
(*                                                                         *)
(* The code's limits are 2^60 for the total power and 2^63 for an int64;   *)
(* here they are MaxTotalVotingPower and 8 * MaxTotalVotingPower.          *)
(***************************************************************************)
EXTENDS Integers, FiniteSets, FiniteSetsExt

CONSTANT MaxTotalVotingPower

ASSUME PowerLimitAssumption == MaxTotalVotingPower \in Nat \ {0}

MaxInt64 == 8 * MaxTotalVotingPower - 1
MinInt64 == -8 * MaxTotalVotingPower

(* PriorityWindowSize / 2 *)
MaxPriority == MaxTotalVotingPower
MinPriority == -MaxTotalVotingPower

Names(vs) == DOMAIN vs.power

(* Go's integer division truncates toward zero. *)
Quo(a, b) == IF a >= 0 THEN a \div b ELSE -((-a) \div b)

SumOf(f) == MapThenSumSet(LAMBDA v : f[v], DOMAIN f)

-----------------------------------------------------------------------------
(* TwoThirdsMajority, in the overflow-free form of the code. *)
QuorumOf(total) ==
  IF total <= 0 THEN 0
  ELSE (total \div 3) + (total \div 3) + (IF total % 3 = 2 THEN 1 ELSE 0) + 1

TwoThirdsMajority(vs) == QuorumOf(vs.total)

-----------------------------------------------------------------------------
(* getProposer: the highest priority, the smaller name on a tie. *)
getProposer(priority) ==
  CHOOSE v \in DOMAIN priority :
    \A w \in DOMAIN priority :
      \/ priority[v] > priority[w]
      \/ priority[v] = priority[w] /\ v <= w

(* centerPriorities: nothing is subtracted when a partial sum, taken in    *)
(* the order of the names, does not fit an int64.                          *)
centerPriorities(priority) ==
  LET D == DOMAIN priority
      upTo(v) == MapThenSumSet(LAMBDA w : priority[w], {w \in D : w <= v})
      overflow == \E v \in D : upTo(v) > MaxInt64 \/ upTo(v) < MinInt64
      avg == IF overflow THEN 0 ELSE Quo(SumOf(priority), Cardinality(D))
  IN  [v \in D |-> priority[v] - avg]

(* One turn of the loop of IncrementProposerPriority: everyone gains its   *)
(* power, then the highest pays the total; both are clamped.               *)
Turn(vs, priority) ==
  LET gained == [v \in Names(vs) |->
                   IF priority[v] > MaxPriority - vs.power[v] THEN MaxPriority
                   ELSE priority[v] + vs.power[v]]
      top == getProposer(gained)
  IN  [gained EXCEPT ![top] =
         IF @ < MinPriority + vs.total THEN MinPriority ELSE @ - vs.total]

(* A mutant: the proposer is not chosen again. *)
StaleProposer(vs, times) ==
  LET turns[k \in 0 .. times] ==
        IF k = 0 THEN vs.priority ELSE Turn(vs, turns[k - 1])
  IN  [vs EXCEPT !.priority = centerPriorities(turns[times])]

(* WithIncrementedPriority (Copy, then IncrementProposerPriority): the new *)
(* proposer is the highest after everyone was centred.                     *)
WithIncrementedPriority(vs, times) ==
  LET turns[k \in 0 .. times] ==
        IF k = 0 THEN vs.priority ELSE Turn(vs, turns[k - 1])
      centred == centerPriorities(turns[times])
  IN  [vs EXCEPT !.priority = centred, !.proposer = getProposer(centred)]

(* A mutant: every round has the proposer of round 0. *)
ProposerOfAnyRound(vs, round) == vs.proposer

GetProposerForRound(vs, round) ==
  IF round <= 0 THEN vs.proposer ELSE WithIncrementedPriority(vs, round).proposer

(* NewValidatorSet rejects these. *)
ValidPowers(power) ==
  /\ DOMAIN power # {}
  /\ \A v \in DOMAIN power : power[v] > 0
  /\ SumOf(power) <= MaxTotalVotingPower

NewValidatorSet(power, priority) ==
  LET p == IF \A v \in DOMAIN power : priority[v] = 0
             THEN centerPriorities(power) ELSE priority
  IN  [power |-> power, total |-> SumOf(power), priority |-> p,
       proposer |-> getProposer(p)]

(* The set a chain starts with. *)
Genesis(power) == NewValidatorSet(power, [v \in DOMAIN power |-> 0])

-----------------------------------------------------------------------------
(* applyValidatorUpdates: updates is a function from the names concerned   *)
(* to their new power, 0 to remove.  A new validator starts at minus 9/8   *)
(* of the new total.                                                       *)
UpdatedPower(vs, updates) ==
  [v \in {w \in Names(vs) \cup DOMAIN updates :
            w \in DOMAIN updates => updates[w] # 0} |->
     IF v \in DOMAIN updates THEN updates[v] ELSE vs.power[v]]

(* Mutants: the penalty is not scaled down; the total power is the one     *)
(* before the updates.                                                     *)
HugePenalty(vs, updates) ==
  LET power == UpdatedPower(vs, updates)
      priority == [v \in DOMAIN power |->
                     IF v \in Names(vs) THEN vs.priority[v] ELSE -9 * SumOf(power)]
  IN  WithIncrementedPriority(NewValidatorSet(power, priority), 1)

StaleTotal(vs, updates) ==
  LET power == UpdatedPower(vs, updates)
      priority == [v \in DOMAIN power |-> IF v \in Names(vs) THEN vs.priority[v] ELSE 0]
  IN  WithIncrementedPriority(
        [NewValidatorSet(power, priority) EXCEPT !.total = vs.total], 1)

applyValidatorUpdates(vs, updates) ==
  LET power == UpdatedPower(vs, updates)
      penalty == -((9 * SumOf(power)) \div 8)
      priority == [v \in DOMAIN power |->
                     IF v \in Names(vs) THEN vs.priority[v] ELSE penalty]
  IN  WithIncrementedPriority(NewValidatorSet(power, priority), 1)
=============================================================================
