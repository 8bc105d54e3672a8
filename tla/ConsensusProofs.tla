-------------------------- MODULE ConsensusProofs --------------------------
(***************************************************************************)
(* The consensus state machine keeps its inductive invariant, and its      *)
(* votes implement module Voting.                                          *)
(***************************************************************************)
EXTENDS ConsensusHandlers, SumProofs

-----------------------------------------------------------------------------
(* Voting power: a sum over a group, so it grows with the group. *)
LEMMA PowerIsSum ==
  ASSUME NEW S \in SUBSET Validators
  PROVE  PowerOf[S] = SumOver(VotingPower, S)
BY DEF PowerOf, SumOver, MapThenSumSet, MapThenFoldSet

LEMMA PowerFacts ==
  ASSUME NEW S \in SUBSET Validators
  PROVE  IsFiniteSet(S) /\ \A v \in S : VotingPower[v] \in Nat
<1>1. IsFiniteSet(Validators) /\ VotingPower \in [Validators -> Nat \ {0}]
  BY ConsensusAssumption
<1>2. QED
  BY <1>1, FS_Subset

LEMMA PowerType ==
  ASSUME NEW S \in SUBSET Validators
  PROVE  PowerOf[S] \in Nat
BY PowerIsSum, PowerFacts, SumType, Zenon

LEMMA PowerGrows ==
  ASSUME NEW S \in SUBSET Validators, NEW R \in SUBSET S
  PROVE  PowerOf[R] <= PowerOf[S]
<1>1. R \in SUBSET Validators
  OBVIOUS
<1>2. PowerOf[R] = SumOver(VotingPower, R) /\ PowerOf[S] = SumOver(VotingPower, S)
  BY <1>1, PowerIsSum
<1>3. SumOver(VotingPower, R) <= SumOver(VotingPower, S)
  BY PowerFacts, SumMonotone
<1>4. QED
  BY <1>2, <1>3

LEMMA PowerAddsUp ==
  ASSUME NEW S \in SUBSET Validators, NEW R \in SUBSET Validators, S \cap R = {}
  PROVE  PowerOf[S \cup R] = PowerOf[S] + PowerOf[R]
<1>1. S \cup R \in SUBSET Validators
  OBVIOUS
<1>2. /\ PowerOf[S \cup R] = SumOver(VotingPower, S \cup R)
      /\ PowerOf[S] = SumOver(VotingPower, S) /\ PowerOf[R] = SumOver(VotingPower, R)
  BY <1>1, PowerIsSum
<1>3. IsFiniteSet(S) /\ IsFiniteSet(R) /\ \A v \in S \cup R : VotingPower[v] \in Nat
  BY <1>1, PowerFacts
<1>4. SumOver(VotingPower, S \cup R) = SumOver(VotingPower, S) + SumOver(VotingPower, R)
  BY <1>3, SumUnion
<1>5. QED
  BY <1>2, <1>4

LEMMA MaxIn ==
  ASSUME NEW m \in Nat, NEW S \in SUBSET (0 .. m), S # {}
  PROVE  Max(S) \in S
<1>1. \E x \in S : \A y \in S : y <= x
  BY LastNumber
<1>2. \E x \in S : \A y \in S : x >= y
  BY <1>1
<1>3. QED
  BY <1>2, Zenon DEF Max

LEMMA Sums == PowersGrow /\ MaximaExist
BY PowerType, PowerGrows, MaxIn DEF PowersGrow, MaximaExist

(* TwoThirdsMajority is right: with less than a third of the power faulty, *)
(* any two groups that reach it share a correct validator.                 *)
THEOREM QuorumsMeet ==
  ASSUME 3 * PowerOf[Faulty] < PowerOf[Validators],
         NEW Q1 \in Quorums, NEW Q2 \in Quorums
  PROVE  Q1 \cap Q2 \cap Correct # {}
<1> DEFINE B == Q1 \cap Q2
           D == Q2 \ Q1
<1>1. /\ Q1 \in SUBSET Validators /\ Q2 \in SUBSET Validators
      /\ PowerOf[Q1] >= TwoThirdsMajority /\ PowerOf[Q2] >= TwoThirdsMajority
  BY DEF Quorums
<1>2. B \in SUBSET Validators /\ D \in SUBSET Validators /\ Faulty \in SUBSET Validators
  BY <1>1, ConsensusAssumption
<1>3. PowerOf[Q2] = PowerOf[B] + PowerOf[D]
  <2>1. B \cup D = Q2 /\ B \cap D = {}
    OBVIOUS
  <2> HIDE DEF B, D
  <2>2. PowerOf[B \cup D] = PowerOf[B] + PowerOf[D]
    BY <1>2, <2>1, PowerAddsUp, Zenon
  <2>3. QED
    BY <2>1, <2>2
<1>4. PowerOf[Q1] + PowerOf[D] <= PowerOf[Validators]
  <2>1. Q1 \cap D = {} /\ Q1 \cup D \in SUBSET Validators
    BY <1>1
  <2> HIDE DEF D
  <2>2. PowerOf[Q1 \cup D] = PowerOf[Q1] + PowerOf[D]
    BY <1>1, <1>2, <2>1, PowerAddsUp
  <2>3. PowerOf[Q1 \cup D] <= PowerOf[Validators]
    BY <2>1, PowerGrows
  <2>4. QED
    BY <2>2, <2>3
<1> HIDE DEF D
<1>5. /\ PowerOf[Q1] \in Nat /\ PowerOf[Q2] \in Nat /\ PowerOf[D] \in Nat
      /\ PowerOf[Validators] \in Nat /\ PowerOf[Faulty] \in Nat
  BY <1>1, <1>2, PowerType
<1>6. PowerOf[B] \in Nat
  BY <1>2, PowerType
<1>7. PowerOf[B] > PowerOf[Faulty]
  <2>1. ASSUME NEW q1 \in Nat, NEW q2 \in Nat, NEW d \in Nat, NEW a \in Nat, NEW f \in Nat,
               NEW b \in Nat, q1 >= (2 * a) \div 3 + 1, q2 >= (2 * a) \div 3 + 1,
               q2 = b + d, q1 + d <= a, 3 * f < a
        PROVE  b > f
    <3>1. (2 * a) \div 3 \in Nat /\ 3 * ((2 * a) \div 3) + 3 > 2 * a
      OBVIOUS
    <3>2. 3 * q1 > 2 * a /\ 3 * q2 > 2 * a
      BY <2>1, <3>1
    <3>3. QED
      BY <2>1, <3>2
  <2> HIDE DEF B
  <2>2. QED
    BY <1>1, <1>3, <1>4, <1>5, <1>6, <2>1 DEF TwoThirdsMajority
<1>8. ~ (B \subseteq Faulty)
  <2> HIDE DEF B
  <2>1. ASSUME B \subseteq Faulty PROVE FALSE
    <3>1. PowerOf[B] <= PowerOf[Faulty]
      BY <1>2, <2>1, PowerGrows
    <3>2. QED
      BY <1>5, <1>6, <1>7, <3>1
  <2>2. QED
    BY <2>1
<1>9. QED
  BY <1>1, <1>8 DEF Correct

-----------------------------------------------------------------------------
(* The inductive invariant. *)
NetOK ==
  /\ votes \subseteq Vote /\ \A x \in votes : x.v \in Correct
  /\ \A x \in votes : x.t = "precommit" /\ x.b # Nil => Certificate(x.h, "prevote", x.r, x.b)
  /\ proposals \subseteq Proposal
  /\ \A p \in proposals : p.b # Nil /\ Real(p.polVotes, votes)
  /\ crashes \in 0 .. MaxCrashes

FrameOf(vs, h, r, s) == [votes |-> vs, h |-> h, r |-> r, signed |-> s]
Frame(n, h, r) == FrameOf(votes, h, r, cs[n].signed)

IInv ==
  /\ NetOK
  /\ DOMAIN cs = Correct
  /\ \A n \in Correct : /\ Good(cs[n], n, Frame(n, 0, 0), {})
                        /\ cs[n].outVotes = {} /\ cs[n].outProposals = {}

-----------------------------------------------------------------------------
(* What a handler starts from, and how it ends. *)

(* What is delivered to c: a vote, a proposal, a timeout. *)
Given(c, d) ==
  /\ Typed(d)
  /\ d.height = c.height /\ d.round = c.round
  /\ d.lockedRound = c.lockedRound /\ d.lockedBlock = c.lockedBlock
  /\ d.signed = c.signed /\ d.panic = c.panic
  /\ d.decided = c.decided /\ d.outProposals = c.outProposals /\ d.outVotes = c.outVotes

LEMMA GivenGood ==
  ASSUME NEW c, NEW d, NEW n, NEW g, NEW P, Good(c, n, g, P), Given(c, d),
         Real(d.votes, Sent(g, c, P)), Real(d.proposal.polVotes, Sent(g, c, P))
  PROVE  Good(d, n, g, P)
<1> DEFINE S == Sent(g, c, P)
<1>1. Sent(g, d, P) = S
  BY DEF Given, Sent
<1>2. Held(d, S) /\ Own(d, n, S) /\ LockOK(d, S) /\ DecidedOK(d, S) /\ Typed(d)
  BY DEF Good, Sound, Given, Held, Own, LockOK, DecidedOK
<1>3. NewOK(d, n, g, P)
  BY <1>1 DEF Good, Sound, Given, NewOK
<1>4. ASSUME Strict, d.panic = "none" PROVE Kept(d, n, S)
  <2>1. Kept(c, n, S)
    BY <1>4 DEF Good, Given
  <2>2. \A s \in Rounds : Past(c, s) => Past(d, s)
    BY DEF Given, Past
  <2> HIDE DEF S
  <2>3. QED
    BY <2>1, <2>2 DEF Kept, Given
<1>5. QED
  BY <1>1, <1>2, <1>3, <1>4 DEF Good, Sound

(* Between handlers nothing is on its way out, and the frame is free. *)
LEMMA Framed ==
  ASSUME NEW c, NEW n, NEW vs, NEW h, NEW r, NEW k, NEW q,
         Good(c, n, FrameOf(vs, h, r, c.signed), {}), c.outVotes = {}
  PROVE  Good(c, n, FrameOf(vs, k, q, c.signed), {})
<1> DEFINE g == FrameOf(vs, h, r, c.signed)
           f == FrameOf(vs, k, q, c.signed)
<1>1. Sent(g, c, {}) = vs /\ Sent(f, c, {}) = vs
  BY DEF Sent, FrameOf
<1>2. NewOK(c, n, f, {})
  BY DEF NewOK, FrameOf, UpToPos
<1> HIDE DEF f, g
<1>3. Good(c, n, g, {})
  BY DEF g
<1>4. Good(c, n, f, {})
  BY <1>1, <1>2, <1>3 DEF Good, Sound
<1>5. QED
  BY <1>4 DEF f

(* The record that Finish stores. *)
Filed(n, c) ==
  [c EXCEPT !.outProposals = {}, !.outVotes = {},
            !.tocks = {ti \in c.tocks : TimeoutMatters(c, ti)},
            !.votes = {v \in c.votes : VoteMatters(c, n, v)}]

LEMMA FiledGood ==
  ASSUME NEW c, NEW n, NEW g, Good(c, n, g, {})
  PROVE  LET e == Filed(n, c)
         IN  /\ Good(e, n, FrameOf(g.votes \cup c.outVotes, 0, 0, e.signed), {})
             /\ e.outVotes = {} /\ e.outProposals = {}
<1> DEFINE e == Filed(n, c)
           S == g.votes \cup c.outVotes
           f == FrameOf(S, 0, 0, e.signed)
<1>1. Typed(c)
  BY DEF Good, Sound
<1>2. Shape(c)
  BY <1>1 DEF Typed
<1>3. /\ e.height = c.height /\ e.round = c.round /\ e.proposal = c.proposal /\ e.step = c.step
      /\ e.lockedRound = c.lockedRound /\ e.lockedBlock = c.lockedBlock
      /\ e.validRound = c.validRound /\ e.validBlock = c.validBlock
      /\ e.votes = {v \in c.votes : VoteMatters(c, n, v)}
      /\ e.signed = c.signed /\ e.panic = c.panic
      /\ e.timer = c.timer /\ e.tocks = {ti \in c.tocks : TimeoutMatters(c, ti)}
      /\ e.decided = c.decided /\ e.outProposals = {} /\ e.outVotes = {}
      /\ Shape(e)
  BY <1>2, Zenon DEF Shape, Filed
<1> HIDE DEF e
<1>4. e.votes \subseteq c.votes /\ e.tocks \subseteq c.tocks
  BY <1>3
<1>5. Typed(e)
  BY <1>1, <1>3, <1>4 DEF Typed
<1>6. Sent(g, c, {}) = S /\ Sent(f, e, {}) = S
  BY <1>3 DEF Sent, FrameOf
<1>7. NewOK(e, n, f, {})
  BY <1>3 DEF NewOK, FrameOf, UpToPos
<1> HIDE DEF S, f
<1>8. /\ Held(c, S) /\ Own(c, n, S) /\ LockOK(c, S) /\ DecidedOK(c, S)
      /\ (c.panic = "none" /\ Strict => Kept(c, n, S))
  BY <1>6 DEF Good, Sound
<1>9. Held(e, S) /\ Own(e, n, S) /\ LockOK(e, S) /\ DecidedOK(e, S)
  BY <1>3, <1>4, <1>8 DEF Held, Real, Own, LockOK, DecidedOK
<1>10. ASSUME Strict, e.panic = "none" PROVE Kept(e, n, S)
  <2>1. \A s \in Rounds : Past(c, s) => Past(e, s)
    BY <1>3 DEF Past
  <2>2. QED
    BY <1>3, <1>8, <1>10, <2>1 DEF Kept
<1>11. Good(e, n, f, {})
  BY <1>5, <1>6, <1>7, <1>9, <1>10 DEF Good, Sound
<1>12. QED
  BY <1>3, <1>11 DEF e, f, S

(* Votes of another validator disturb nothing. *)
LEMMA OthersGood ==
  ASSUME NEW c, NEW n, NEW vs, NEW ws, vs \cup ws \subseteq Vote, \A x \in ws : x.v # n,
         Good(c, n, FrameOf(vs, 0, 0, c.signed), {}), c.outVotes = {}
  PROVE  Good(c, n, FrameOf(vs \cup ws, 0, 0, c.signed), {})
<1> DEFINE S == vs
           T == vs \cup ws
           g == FrameOf(vs, 0, 0, c.signed)
           f == FrameOf(T, 0, 0, c.signed)
<1>1. Sent(g, c, {}) = S /\ Sent(f, c, {}) = T
  BY DEF Sent, FrameOf
<1>2. NewOK(c, n, f, {})
  BY DEF NewOK, FrameOf, UpToPos
<1>3. T \in SUBSET Vote /\ S \in SUBSET T /\ (\A x \in T : x.v = n => x \in S)
  OBVIOUS
<1>4. Good(c, n, g, {})
  OBVIOUS
<1> HIDE DEF S, T, f, g
<1>5. /\ Held(c, S) /\ Own(c, n, S) /\ LockOK(c, S) /\ DecidedOK(c, S) /\ Typed(c)
      /\ (c.panic = "none" /\ Strict => Kept(c, n, S))
  BY <1>1, <1>4 DEF Good, Sound
<1>6. Held(c, T) /\ Own(c, n, T)
  BY <1>3, <1>5 DEF Held, Real, Own
<1>7. LockOK(c, T)
  BY <1>3, <1>5, CertGrows, Sums DEF LockOK
<1>8. DecidedOK(c, T)
  BY <1>3, <1>5, CertGrows, Sums DEF DecidedOK
<1>9. ASSUME Strict, c.panic = "none" PROVE Kept(c, n, T)
  <2>1. ASSUME NEW x \in T, IsPrecommit(x, n, c.height)
        PROVE  \/ c.lockedBlock = x.b /\ x.r <= c.lockedRound
               \/ \E s \in Rounds : Past(c, s) /\ Released(T, x, s)
    <3>1. x \in S
      BY <1>3, <2>1 DEF IsPrecommit
    <3>2. \A s : Released(S, x, s) => Released(T, x, s)
      BY <1>3, ReleasedGrows, Sums
    <3>3. QED
      BY <1>5, <1>9, <2>1, <3>1, <3>2 DEF Kept
  <2>2. QED
    BY <1>5, <1>9, <2>1 DEF Kept
<1>10. Good(c, n, f, {})
  BY <1>1, <1>2, <1>5, <1>6, <1>7, <1>8, <1>9 DEF Good, Sound
<1>11. QED
  BY <1>10 DEF f, T

LEMMA CertificateIs ==
  ASSUME NEW h, NEW t, NEW r, NEW b
  PROVE  Certificate(h, t, r, b) = CertIn(votes, h, t, r, b)
BY DEF Certificate, CertIn, Voters

LEMMA ContextHolds ==
  ASSUME IInv, NEW n \in Correct, NEW h, NEW r
  PROVE  /\ Context(Frame(n, h, r), n) /\ Good(cs[n], n, Frame(n, h, r), {})
         /\ Frame(n, h, r).h = h /\ Frame(n, h, r).r = r /\ Frame(n, h, r).votes = votes
         /\ Frame(n, h, r).signed = cs[n].signed /\ Sent(Frame(n, h, r), cs[n], {}) = votes
<1>1. /\ Frame(n, h, r).h = h /\ Frame(n, h, r).r = r /\ Frame(n, h, r).votes = votes
      /\ Frame(n, h, r).signed = cs[n].signed
  BY DEF Frame, FrameOf
<1>2. Good(cs[n], n, Frame(n, h, r), {})
  BY Framed DEF IInv, Frame
<1>3. \A x, y \in votes : x.v = y.v /\ Pos(x) = Pos(y) => x = y
  <2>1. SUFFICES ASSUME NEW x \in votes, NEW y \in votes, x.v = y.v, Pos(x) = Pos(y)
                 PROVE  x = y
    OBVIOUS
  <2>2. x.v \in Correct
    BY DEF IInv, NetOK
  <2>3. Good(cs[x.v], x.v, Frame(x.v, 0, 0), {})
    BY <2>2 DEF IInv
  <2>4. x \in Sent(Frame(x.v, 0, 0), cs[x.v], {}) /\ y \in Sent(Frame(x.v, 0, 0), cs[x.v], {})
    BY DEF Sent, Frame, FrameOf
  <2>5. Own(cs[x.v], x.v, Sent(Frame(x.v, 0, 0), cs[x.v], {}))
    BY <2>3 DEF Good, Sound
  <2>6. QED
    BY <2>1, <2>4, <2>5 DEF Own
<1>4. votes \subseteq Vote /\ cs[n].signed \in Positions
  BY <1>2, TypedFacts DEF IInv, NetOK, Good, Sound
<1>5. \A x \in votes : x.t = "precommit" /\ x.b # Nil => CertIn(votes, x.h, "prevote", x.r, x.b)
  BY CertificateIs DEF IInv, NetOK
<1>6. Sent(Frame(n, h, r), cs[n], {}) = votes
  BY <1>1 DEF Sent, IInv
<1>7. QED
  BY <1>1, <1>2, <1>3, <1>4, <1>5, <1>6, Sums DEF Context

-----------------------------------------------------------------------------
(* A handler of n, as the invariant sees it: it ends in a record c that is *)
(* good with respect to the state it began in.                             *)
Handles(n, c, h, r) == Good(c, n, Frame(n, h, r), {}) /\ Finish(n, c)

LEMMA HandlerVotes ==
  ASSUME IInv, NEW n \in Correct, NEW c, NEW h, NEW r, Handles(n, c, h, r)
  PROVE  /\ votes' = votes \cup c.outVotes /\ votes' \in SUBSET Vote
         /\ Sent(Frame(n, h, r), c, {}) = votes'
         /\ \A x \in c.outVotes : x.v = n /\ x.h = h /\ x.r = r
<1>1. votes' = votes \cup c.outVotes
  BY DEF Handles, Finish
<1>2. c.outVotes \subseteq Vote /\ votes \subseteq Vote
  BY DEF Handles, Good, Sound, Typed, IInv, NetOK
<1>3. \A x \in c.outVotes : x.v = n /\ x.h = h /\ x.r = r
  BY DEF Handles, Good, Sound, NewOK, Frame, FrameOf
<1>4. Sent(Frame(n, h, r), c, {}) = votes'
  BY <1>1 DEF Sent, Frame, FrameOf
<1>5. QED
  BY <1>1, <1>2, <1>3, <1>4

LEMMA HandlerStep ==
  ASSUME IInv, NEW n \in Correct, NEW c, NEW h, NEW r, Handles(n, c, h, r)
  PROVE  IInv'
<1> DEFINE g == Frame(n, h, r)
           e == Filed(n, c)
<1>1. /\ votes' = votes \cup c.outVotes /\ votes' \in SUBSET Vote
      /\ Sent(g, c, {}) = votes' /\ \A x \in c.outVotes : x.v = n /\ x.h = h /\ x.r = r
  BY HandlerVotes
<1>2. /\ Good(c, n, g, {}) /\ cs' = [cs EXCEPT ![n] = e]
      /\ proposals' = proposals \cup c.outProposals /\ crashes' = crashes
  BY DEF Handles, Finish, Filed
<1>3. g.votes = votes
  BY DEF Frame, FrameOf
<1>4. NetOK'
  <2>1. \A x \in votes' : x.v \in Correct
    BY <1>1 DEF IInv, NetOK
  <2>2. ASSUME NEW x \in votes', x.t = "precommit", x.b # Nil
        PROVE  CertIn(votes', x.h, "prevote", x.r, x.b)
    <3>1. CASE x \in votes
      <4>1. CertIn(votes, x.h, "prevote", x.r, x.b)
        BY <2>2, <3>1, CertificateIs DEF IInv, NetOK
      <4>2. QED
        BY <1>1, <4>1, CertGrows, Sums
    <3>2. CASE x \in c.outVotes
      BY <1>1, <1>2, <2>2, <3>2, Zenon DEF Good, Sound, NewOK
    <3>3. QED
      BY <1>1, <3>1, <3>2
  <2>3. ASSUME NEW x \in votes', x.t = "precommit", x.b # Nil
        PROVE  Certificate(x.h, "prevote", x.r, x.b)'
    BY <2>2, <2>3 DEF Certificate, CertIn, Voters
  <2>4. proposals' \subseteq Proposal
    BY <1>2 DEF IInv, NetOK, Good, Sound, Typed
  <2>5. \A p \in proposals' : p.b # Nil /\ Real(p.polVotes, votes')
    <3>1. \A p \in proposals : p.b # Nil /\ Real(p.polVotes, votes')
      BY <1>1 DEF IInv, NetOK, Real
    <3>2. \A p \in c.outProposals : p.b # Nil /\ Real(p.polVotes, votes')
      BY <1>1, <1>2, Zenon DEF Good, Sound, Held
    <3>3. QED
      BY <1>2, <3>1, <3>2
  <2>6. crashes' \in 0 .. MaxCrashes
    BY <1>2 DEF IInv, NetOK
  <2>7. QED
    BY <1>1, <2>1, <2>3, <2>4, <2>5, <2>6 DEF NetOK, Real
<1>5. DOMAIN cs' = Correct
  BY <1>2 DEF IInv
<1>6. ASSUME NEW m \in Correct
      PROVE  /\ Good(cs'[m], m, FrameOf(votes', 0, 0, cs'[m].signed), {})
             /\ cs'[m].outVotes = {} /\ cs'[m].outProposals = {}
  <2>1. CASE m = n
    <3>1. cs'[m] = e
      BY <1>2, <2>1 DEF IInv
    <3>2. Good(e, n, FrameOf(votes', 0, 0, e.signed), {}) /\ e.outVotes = {} /\ e.outProposals = {}
      BY <1>1, <1>2, <1>3, FiledGood, Zenon
    <3> HIDE DEF e
    <3>3. QED
      BY <2>1, <3>1, <3>2
  <2>2. CASE m # n
    <3>1. cs'[m] = cs[m]
      BY <1>2, <2>2 DEF IInv
    <3>2. Good(cs[m], m, FrameOf(votes, 0, 0, cs[m].signed), {})
          /\ cs[m].outVotes = {} /\ cs[m].outProposals = {}
      BY DEF IInv, Frame
    <3>3. votes \cup c.outVotes \subseteq Vote /\ \A x \in c.outVotes : x.v # m
      BY <1>1, <2>2
    <3>4. Good(cs[m], m, FrameOf(votes \cup c.outVotes, 0, 0, cs[m].signed), {})
      BY <3>2, <3>3, OthersGood, Zenon
    <3>5. QED
      BY <1>1, <3>1, <3>2, <3>4
  <2>3. QED
    BY <2>1, <2>2
<1>7. QED
  BY <1>4, <1>5, <1>6 DEF IInv, Frame

-----------------------------------------------------------------------------
(* The handlers. *)

(* A field that the invariant does not speak of may change. *)
LEMMA StartGiven ==
  ASSUME NEW c, Typed(c)
  PROVE  LET d == [c EXCEPT !.started = TRUE]
         IN  Given(c, d) /\ d.votes = c.votes /\ d.proposal = c.proposal
<1> DEFINE d == [c EXCEPT !.started = TRUE]
<1>1. /\ d.height = c.height /\ d.round = c.round /\ d.proposal = c.proposal /\ d.step = c.step
      /\ d.lockedRound = c.lockedRound /\ d.lockedBlock = c.lockedBlock
      /\ d.validRound = c.validRound /\ d.validBlock = c.validBlock
      /\ d.votes = c.votes /\ d.signed = c.signed /\ d.panic = c.panic
      /\ d.timer = c.timer /\ d.tocks = c.tocks
      /\ d.decided = c.decided /\ d.outProposals = c.outProposals /\ d.outVotes = c.outVotes
      /\ Shape(d)
  <2>1. Shape(c)
    BY DEF Typed
  <2>2. QED
    BY <2>1, Zenon DEF Shape
<1> HIDE DEF d
<1>2. Typed(d)
  BY <1>1 DEF Typed
<1>3. QED
  BY <1>1, <1>2 DEF Given, d

LEMMA TimerGiven ==
  ASSUME NEW c, Typed(c), NEW ti
  PROVE  LET d == [c EXCEPT !.timer = IF @ = ti THEN NoTimeout ELSE @, !.tocks = @ \ {ti}]
         IN  Given(c, d) /\ d.votes = c.votes /\ d.proposal = c.proposal
<1> DEFINE d == [c EXCEPT !.timer = IF @ = ti THEN NoTimeout ELSE @, !.tocks = @ \ {ti}]
<1>1. /\ d.height = c.height /\ d.round = c.round /\ d.proposal = c.proposal /\ d.step = c.step
      /\ d.lockedRound = c.lockedRound /\ d.lockedBlock = c.lockedBlock
      /\ d.validRound = c.validRound /\ d.validBlock = c.validBlock
      /\ d.votes = c.votes /\ d.signed = c.signed /\ d.panic = c.panic
      /\ d.timer = (IF c.timer = ti THEN NoTimeout ELSE c.timer) /\ d.tocks = c.tocks \ {ti}
      /\ d.decided = c.decided /\ d.outProposals = c.outProposals /\ d.outVotes = c.outVotes
      /\ Shape(d)
  <2>1. Shape(c)
    BY DEF Typed
  <2>2. QED
    BY <2>1, Zenon DEF Shape
<1> HIDE DEF d
<1>2. d.timer \in {c.timer, NoTimeout} /\ d.tocks \subseteq c.tocks
  BY <1>1
<1>3. Typed(d)
  BY <1>1, <1>2 DEF Typed
<1>4. QED
  BY <1>1, <1>3 DEF Given, d

LEMMA VoteGiven ==
  ASSUME NEW c, Typed(c), NEW x \in Vote, x.h = c.height, c.panic = "none"
  PROVE  LET d == [c EXCEPT !.votes = @ \cup {x}]
         IN  Given(c, d) /\ d.votes = c.votes \cup {x} /\ d.proposal = c.proposal
<1> DEFINE d == [c EXCEPT !.votes = @ \cup {x}]
<1>1. /\ d.height = c.height /\ d.round = c.round /\ d.proposal = c.proposal /\ d.step = c.step
      /\ d.lockedRound = c.lockedRound /\ d.lockedBlock = c.lockedBlock
      /\ d.validRound = c.validRound /\ d.validBlock = c.validBlock
      /\ d.votes = c.votes \cup {x} /\ d.signed = c.signed /\ d.panic = c.panic
      /\ d.timer = c.timer /\ d.tocks = c.tocks
      /\ d.decided = c.decided /\ d.outProposals = c.outProposals /\ d.outVotes = c.outVotes
      /\ Shape(d)
  <2>1. Shape(c)
    BY DEF Typed
  <2>2. QED
    BY <2>1 DEF Shape
<1> HIDE DEF d
<1>2. d.votes \subseteq Vote /\ (\A v \in d.votes : v.h = d.height) /\ d.panic = "none"
  BY <1>1 DEF Typed
<1>3. Typed(d)
  BY <1>1, <1>2 DEF Typed
<1>4. QED
  BY <1>1, <1>3 DEF Given, d

LEMMA ProposalGiven ==
  ASSUME NEW c, Typed(c), NEW p \in Proposal, p.h = c.height, p.r = c.round, c.panic = "none"
  PROVE  LET d == [c EXCEPT !.proposal = p]
         IN  Given(c, d) /\ d.votes = c.votes /\ d.proposal = p
<1> DEFINE d == [c EXCEPT !.proposal = p]
<1>1. /\ d.height = c.height /\ d.round = c.round /\ d.proposal = p /\ d.step = c.step
      /\ d.lockedRound = c.lockedRound /\ d.lockedBlock = c.lockedBlock
      /\ d.validRound = c.validRound /\ d.validBlock = c.validBlock
      /\ d.votes = c.votes /\ d.signed = c.signed /\ d.panic = c.panic
      /\ d.timer = c.timer /\ d.tocks = c.tocks
      /\ d.decided = c.decided /\ d.outProposals = c.outProposals /\ d.outVotes = c.outVotes
      /\ Shape(d)
  <2>1. Shape(c)
    BY DEF Typed
  <2>2. QED
    BY <2>1 DEF Shape
<1> HIDE DEF d
<1>2. d.proposal.h = d.height /\ d.proposal.r <= d.round /\ d.panic = "none"
      /\ d.proposal \in Proposal
  BY <1>1, TypedFacts
<1>3. Typed(d)
  BY <1>1, <1>2 DEF Typed
<1>4. QED
  BY <1>1, <1>3 DEF Given, d

LEMMA FaultyVoteIs ==
  ASSUME NetOK, NEW v \in votes \cup FaultyVotes
  PROVE  v \in Vote /\ (v.v \in Faulty \/ v \in votes)
<1>1. KnownBlocks \subseteq Values
  BY DEF KnownBlocks, NetOK, Proposal, Values
<1>2. FaultyVotes \subseteq Vote /\ \A x \in FaultyVotes : x.v \in Faulty
  BY <1>1, ConsensusAssumption DEF FaultyVotes, Vote, Values
<1>3. QED
  BY <1>2 DEF NetOK

LEMMA FaultyProposalIs ==
  ASSUME NetOK, NEW p \in proposals \cup FaultyProposals
  PROVE  p \in Proposal /\ Real(p.polVotes, votes)
<1>1. CASE p \in proposals
  BY <1>1 DEF NetOK
<1>2. CASE p \in FaultyProposals
  <2> DEFINE W(x, pr, b) == IF pr < 0 THEN {} ELSE
              {v \in votes \cup FaultyVotes :
                 v.h = x[1] /\ v.t = "prevote" /\ v.r = pr /\ v.b = b}
             F(x) == {[h |-> x[1], r |-> x[2], b |-> b, polRound |-> pr, polVotes |-> W(x, pr, b)] :
                        b \in Blocks, pr \in -1 .. x[2] - 1}
  <2>1. PICK x \in Heights \X Rounds : p \in F(x)
    BY <1>2 DEF FaultyProposals
  <2>2. \A pr, b : W(x, pr, b) \subseteq Vote /\ Real(W(x, pr, b), votes)
    BY FaultyVoteIs DEF Real
  <2> HIDE DEF W
  <2>3. PICK b \in Blocks, pr \in -1 .. x[2] - 1 :
          p = [h |-> x[1], r |-> x[2], b |-> b, polRound |-> pr, polVotes |-> W(x, pr, b)]
    BY <2>1
  <2>4. x[1] \in Nat /\ x[2] \in Nat /\ pr \in Int /\ b \in Values
    BY <2>1, Bounds DEF Heights, Rounds, Values
  <2>5. QED
    BY <2>2, <2>3, <2>4 DEF Proposal
<1>3. QED
  BY <1>1, <1>2

LEMMA StartHandles ==
  ASSUME IInv, NEW n \in Correct, Start(n)
  PROVE  \E c, h, r : Handles(n, c, h, r)
<1> DEFINE c0 == [cs[n] EXCEPT !.started = TRUE]
           g == Frame(n, cs[n].height, 0)
<1>1. Context(g, n) /\ Good(cs[n], n, g, {}) /\ g.h = cs[n].height /\ g.r = 0
  BY ContextHolds
<1> HIDE DEF g
<1>2. Typed(cs[n]) /\ cs[n].height <= MaxHeight /\ Held(cs[n], Sent(g, cs[n], {}))
  BY <1>1 DEF Start, Good, Sound
<1>3. Given(cs[n], c0) /\ c0.votes = cs[n].votes /\ c0.proposal = cs[n].proposal
  BY <1>2, StartGiven
<1>4. Finish(n, enterNewRound(c0, n, 0))
  BY DEF Start
<1> HIDE DEF c0
<1>5. Good(c0, n, g, {}) /\ c0.height = cs[n].height
  BY <1>1, <1>2, <1>3, GivenGood DEF Held, Given
<1>6. Good(enterNewRound(c0, n, 0), n, g, {})
  BY <1>1, <1>2, <1>5, enterNewRoundGood, Bounds
<1>7. Handles(n, enterNewRound(c0, n, 0), cs[n].height, 0)
  BY <1>4, <1>6 DEF Handles, g
<1>8. QED
  BY <1>7

LEMMA ProposalHandles ==
  ASSUME IInv, NEW n \in Correct, NEW p \in proposals \cup FaultyProposals, ReceiveProposal(n, p)
  PROVE  \E c, h, r : Handles(n, c, h, r)
<1> DEFINE c0 == [cs[n] EXCEPT !.proposal = p]
           g == Frame(n, cs[n].height, cs[n].round)
           d == enterPrevote(c0, n, cs[n].round)
<1>1. /\ Context(g, n) /\ Good(cs[n], n, g, {}) /\ g.h = cs[n].height /\ g.r = cs[n].round
      /\ Sent(g, cs[n], {}) = votes
  BY ContextHolds
<1> HIDE DEF g
<1>2. Typed(cs[n]) /\ Held(cs[n], votes)
  BY <1>1 DEF Good, Sound
<1>3. /\ p.h = cs[n].height /\ p.r = cs[n].round /\ cs[n].panic = "none"
      /\ cs[n].height <= MaxHeight /\ Finish(n, d)
  BY DEF ReceiveProposal, AcceptsProposal, Running
<1>4. p \in Proposal /\ Real(p.polVotes, votes)
  BY FaultyProposalIs DEF IInv
<1>5. Given(cs[n], c0) /\ c0.votes = cs[n].votes /\ c0.proposal = p
  BY <1>2, <1>3, <1>4, ProposalGiven
<1> HIDE DEF c0
<1>6. Good(c0, n, g, {}) /\ Here(c0, g)
  <2>1. Good(c0, n, g, {})
    BY <1>1, <1>2, <1>4, <1>5, GivenGood DEF Held
  <2>2. QED
    BY <1>1, <1>3, <1>5, <2>1 DEF Given, Here
<1>7. Good(d, n, g, {})
  BY <1>1, <1>6, enterPrevoteGood DEF Outcome
<1>8. Handles(n, d, cs[n].height, cs[n].round)
  BY <1>3, <1>7 DEF Handles, g
<1>9. QED
  BY <1>8

LEMMA VoteHandles ==
  ASSUME IInv, NEW n \in Correct, NEW x \in votes \cup FaultyVotes, ReceiveVote(n, x)
  PROVE  \E c, h, r : Handles(n, c, h, r)
<1> DEFINE c0 == [cs[n] EXCEPT !.votes = @ \cup {x}]
           q == RoundFor(cs[n], x)
           g == Frame(n, cs[n].height, q)
           d == IF x.t = "prevote" THEN handlePrevote(c0, n, x) ELSE handlePrecommit(c0, n, x)
<1>1. /\ Context(g, n) /\ Good(cs[n], n, g, {}) /\ g.h = cs[n].height /\ g.r = q
      /\ Sent(g, cs[n], {}) = votes
  BY ContextHolds
<1> HIDE DEF g
<1>2. Typed(cs[n]) /\ Held(cs[n], votes)
  BY <1>1 DEF Good, Sound
<1>3. /\ x.h = cs[n].height /\ cs[n].panic = "none" /\ cs[n].height <= MaxHeight
      /\ Finish(n, d)
  BY DEF ReceiveVote, AcceptsVote, CanAddVote, Running
<1>4. x \in Vote /\ (x.v \in Faulty \/ x \in votes)
  BY FaultyVoteIs DEF IInv
<1>5. Given(cs[n], c0) /\ c0.votes = cs[n].votes \cup {x} /\ c0.proposal = cs[n].proposal
  BY <1>2, <1>3, <1>4, VoteGiven
<1> HIDE DEF c0
<1>6. Good(c0, n, g, {})
  <2>1. Real(c0.votes, votes) /\ Real(c0.proposal.polVotes, votes)
    BY <1>2, <1>4, <1>5 DEF Held, Real
  <2>2. QED
    BY <1>1, <1>5, <2>1, GivenGood
<1>7. c0.panic = "none" /\ c0.height <= MaxHeight /\ g.h = c0.height /\ g.r = RoundFor(c0, x)
  BY <1>1, <1>3, <1>5 DEF Given, RoundFor
<1>8. Good(handlePrevote(c0, n, x), n, g, {}) /\ Good(handlePrecommit(c0, n, x), n, g, {})
  BY <1>1, <1>4, <1>6, <1>7, handlePrevoteGood, handlePrecommitGood
<1>9. Good(d, n, g, {})
  BY <1>8
<1>10. Handles(n, d, cs[n].height, q)
  BY <1>3, <1>9 DEF Handles, g
<1>11. QED
  BY <1>10

LEMMA TimeoutHandles ==
  ASSUME IInv, NEW n \in Correct, NEW ti \in Timeouts, Timeout(n, ti)
  PROVE  \E c, h, r : Handles(n, c, h, r)
<1> DEFINE c0 == [cs[n] EXCEPT !.timer = IF @ = ti THEN NoTimeout ELSE @, !.tocks = @ \ {ti}]
           Fr(r) == Frame(n, cs[n].height, r)
<1>1. \A r : /\ Context(Fr(r), n) /\ Good(cs[n], n, Fr(r), {}) /\ Fr(r).h = cs[n].height
             /\ Fr(r).r = r /\ Sent(Fr(r), cs[n], {}) = votes
  BY ContextHolds
<1> HIDE DEF Fr
<1>2. Typed(cs[n]) /\ Held(cs[n], votes)
  BY <1>1 DEF Good, Sound
<1>3. /\ cs[n].panic = "none" /\ cs[n].height <= MaxHeight
      /\ ti.s = PrecommitWait => cs[n].round < MaxRound
  BY DEF Timeout, AcceptsTimeout, Running
<1>4. ti.s \in {Propose, PrevoteWait, PrecommitWait, Commit}
  BY DEF Timeouts
<1>5. \/ ti.s = Propose /\ Finish(n, enterPrevote(c0, n, c0.round))
      \/ ti.s = PrevoteWait /\ Finish(n, enterPrecommit(c0, n, c0.round))
      \/ ti.s = PrecommitWait /\ Finish(n, enterNewRound(c0, n, c0.round + 1))
      \/ ti.s = Commit /\ Finish(n, enterNewRound(c0, n, 0))
  BY <1>4, Zenon DEF Timeout, Propose, PrevoteWait, PrecommitWait, Commit
<1>6. Given(cs[n], c0) /\ c0.votes = cs[n].votes /\ c0.proposal = cs[n].proposal
  BY <1>2, TimerGiven, Zenon
<1> HIDE DEF c0
<1>7. ASSUME NEW r PROVE Good(c0, n, Fr(r), {})
  BY <1>1, <1>2, <1>6, GivenGood DEF Held
<1>8. /\ c0.panic = "none" /\ c0.height <= MaxHeight /\ c0.height = cs[n].height
      /\ c0.round = cs[n].round /\ Here(c0, Fr(c0.round))
  BY <1>1, <1>3, <1>6 DEF Given, Here
<1>9. CASE ti.s = Propose /\ Finish(n, enterPrevote(c0, n, c0.round))
  <2>1. Good(enterPrevote(c0, n, c0.round), n, Fr(c0.round), {})
    BY <1>1, <1>7, <1>8, enterPrevoteGood DEF Outcome
  <2>2. Handles(n, enterPrevote(c0, n, c0.round), cs[n].height, c0.round)
    BY <1>9, <2>1 DEF Handles, Fr
  <2>3. QED
    BY <2>2
<1>10. CASE ti.s = PrevoteWait /\ Finish(n, enterPrecommit(c0, n, c0.round))
  <2>1. Good(enterPrecommit(c0, n, c0.round), n, Fr(c0.round), {})
    BY <1>1, <1>7, <1>8, enterPrecommitGood DEF Outcome
  <2>2. Handles(n, enterPrecommit(c0, n, c0.round), cs[n].height, c0.round)
    BY <1>10, <2>1 DEF Handles, Fr
  <2>3. QED
    BY <2>2
<1>11. ASSUME NEW r \in Rounds, Finish(n, enterNewRound(c0, n, r))
       PROVE  \E c, h, k : Handles(n, c, h, k)
  <2>1. Good(enterNewRound(c0, n, r), n, Fr(r), {})
    BY <1>1, <1>7, <1>8, enterNewRoundGood
  <2>2. Handles(n, enterNewRound(c0, n, r), cs[n].height, r)
    BY <1>11, <2>1 DEF Handles, Fr
  <2>3. QED
    BY <2>2
<1>12. CASE ti.s = PrecommitWait /\ Finish(n, enterNewRound(c0, n, c0.round + 1))
  <2>1. c0.round + 1 \in Rounds
    BY <1>2, <1>3, <1>8, <1>12, TypedFacts, Bounds DEF Rounds
  <2>2. QED
    BY <1>11, <1>12, <2>1
<1>13. CASE ti.s = Commit /\ Finish(n, enterNewRound(c0, n, 0))
  BY <1>11, <1>13, Bounds
<1>14. QED
  BY <1>5, <1>9, <1>10, <1>12, <1>13

(* A crash loses the memory and keeps the file: c starts again. *)
LEMMA RestartedGood ==
  ASSUME NEW c, NEW n, NEW vs, Good(c, n, FrameOf(vs, 0, 0, c.signed), {}), c.outVotes = {},
         ~Strict
  PROVE  LET e == [InitState EXCEPT !.height = Len(c.decided) + 1, !.signed = c.signed,
                                    !.decided = c.decided]
         IN  /\ Good(e, n, FrameOf(vs, 0, 0, e.signed), {})
             /\ e.outVotes = {} /\ e.outProposals = {}
<1> DEFINE e == [InitState EXCEPT !.height = Len(c.decided) + 1, !.signed = c.signed,
                                  !.decided = c.decided]
           f == FrameOf(vs, 0, 0, e.signed)
           g == FrameOf(vs, 0, 0, c.signed)
<1>1. Typed(c)
  BY DEF Good, Sound
<1>2. /\ e.height = Len(c.decided) + 1 /\ e.round = 0 /\ e.proposal = NoProposal
      /\ e.step = NewHeight
      /\ e.lockedRound = -1 /\ e.lockedBlock = Nil
      /\ e.validRound = -1 /\ e.validBlock = Nil
      /\ e.votes = {} /\ e.signed = c.signed /\ e.panic = "none"
      /\ e.timer = NoTimeout /\ e.tocks = {}
      /\ e.decided = c.decided /\ e.outProposals = {} /\ e.outVotes = {}
      /\ Shape(e)
  BY Zenon DEF Shape, InitState
<1> HIDE DEF e
<1>3. e.height = c.height
  <2>1. c.height \in Nat /\ Len(c.decided) = c.height - 1
    BY <1>1, TypedFacts DEF Typed
  <2>2. QED
    BY <1>2, <2>1
<1>4. Typed(e)
  <2>1. NewHeight \in NewHeight .. Commit /\ -1 \in -1 .. 0 /\ 0 \in Rounds
    BY Bounds DEF NewHeight, Commit
  <2>2. e.timer \in Timeouts \cup {NoTimeout} /\ e.tocks \subseteq Timeouts
    BY <1>2
  <2>3. e.proposal \in Proposal /\ e.proposal.b = Nil /\ e.lockedBlock \in Values
        /\ e.validBlock \in Values
    BY <1>2, NothingTyped
  <2>4. QED
    BY <1>1, <1>2, <1>3, <2>1, <2>2, <2>3 DEF Typed
<1>5. Sent(g, c, {}) = vs /\ Sent(f, e, {}) = vs
  BY <1>2 DEF Sent, FrameOf
<1>6. NewOK(e, n, f, {})
  BY <1>2 DEF NewOK, FrameOf, UpToPos
<1> HIDE DEF f, g
<1>7. Own(c, n, vs) /\ DecidedOK(c, vs)
  BY <1>5 DEF Good, Sound, g
<1>8. Held(e, vs) /\ Own(e, n, vs) /\ LockOK(e, vs) /\ DecidedOK(e, vs)
  BY <1>2, <1>7, NoProposalReal DEF Held, Own, LockOK, DecidedOK
<1>9. Good(e, n, f, {})
  BY <1>4, <1>5, <1>6, <1>8 DEF Good, Sound
<1>10. QED
  BY <1>2, <1>9 DEF e, f

LEMMA CrashStep ==
  ASSUME IInv, NEW n \in Correct, Crash(n)
  PROVE  IInv' /\ votes' = votes
<1> DEFINE e == [InitState EXCEPT !.height = Len(cs[n].decided) + 1, !.signed = cs[n].signed,
                                  !.decided = cs[n].decided]
<1>1. /\ cs' = [cs EXCEPT ![n] = e] /\ crashes' = crashes + 1 /\ crashes < MaxCrashes
      /\ proposals' = proposals /\ votes' = votes
  BY DEF Crash
<1>2. crashes \in Nat /\ crashes' \in 0 .. MaxCrashes /\ ~Strict
  BY <1>1, Bounds DEF IInv, NetOK, Strict
<1>3. NetOK'
  <2>1. \A h, t, r, b : Certificate(h, t, r, b)' = Certificate(h, t, r, b)
    BY <1>1 DEF Certificate
  <2>2. QED
    BY <1>1, <1>2, <2>1 DEF IInv, NetOK
<1>4. Good(cs[n], n, FrameOf(votes, 0, 0, cs[n].signed), {}) /\ cs[n].outVotes = {}
  BY DEF IInv, Frame
<1>5. Good(e, n, FrameOf(votes, 0, 0, e.signed), {}) /\ e.outVotes = {} /\ e.outProposals = {}
  BY <1>2, <1>4, RestartedGood, Zenon
<1> HIDE DEF e
<1>6. ASSUME NEW m \in Correct
      PROVE  /\ Good(cs'[m], m, FrameOf(votes', 0, 0, cs'[m].signed), {})
             /\ cs'[m].outVotes = {} /\ cs'[m].outProposals = {}
  <2>1. CASE m = n
    <3>1. cs'[m] = e
      BY <1>1, <2>1 DEF IInv
    <3>2. QED
      BY <1>1, <1>5, <2>1, <3>1
  <2>2. CASE m # n
    <3>1. cs'[m] = cs[m]
      BY <1>1, <2>2 DEF IInv
    <3>2. QED
      BY <1>1, <3>1 DEF IInv, Frame
  <2>3. QED
    BY <2>1, <2>2
<1>7. DOMAIN cs' = Correct
  BY <1>1 DEF IInv
<1>8. QED
  BY <1>1, <1>3, <1>6, <1>7 DEF IInv, Frame

(* Every step is a handler's, or a crash. *)
LEMMA StepIs ==
  ASSUME IInv, Next
  PROVE  \E n \in Correct : Crash(n) \/ \E c, h, r : Handles(n, c, h, r)
<1>1. PICK n \in Correct :
        \/ Start(n)
        \/ \E p \in proposals \cup FaultyProposals : ReceiveProposal(n, p)
        \/ \E v \in votes \cup FaultyVotes : ReceiveVote(n, v)
        \/ TimerFires(n)
        \/ LateTimeout(n)
        \/ Crash(n)
  BY DEF Next
<1>2. cs[n].timer \in Timeouts \cup {NoTimeout} /\ cs[n].tocks \subseteq Timeouts
  BY DEF IInv, Good, Sound, Typed
<1>3. CASE Start(n)
  BY <1>3, StartHandles
<1>4. CASE \E p \in proposals \cup FaultyProposals : ReceiveProposal(n, p)
  BY <1>4, ProposalHandles
<1>5. CASE \E v \in votes \cup FaultyVotes : ReceiveVote(n, v)
  BY <1>5, VoteHandles
<1>6. CASE TimerFires(n)
  BY <1>2, <1>6, TimeoutHandles DEF TimerFires
<1>7. CASE LateTimeout(n)
  BY <1>2, <1>7, TimeoutHandles DEF LateTimeout
<1>8. CASE Crash(n)
  BY <1>8
<1>9. QED
  BY <1>1, <1>3, <1>4, <1>5, <1>6, <1>7, <1>8

LEMMA InitGood == Init => IInv
<1> SUFFICES ASSUME Init PROVE IInv
  OBVIOUS
<1> DEFINE f == FrameOf({}, 0, 0, <<0, 0, 0>>)
<1>1. cs = [n \in Correct |-> InitState] /\ proposals = {} /\ votes = {} /\ crashes = 0
  BY DEF Init
<1>2. NetOK
  BY <1>1, Bounds DEF NetOK
<1>3. /\ InitState.height = 1 /\ InitState.round = 0 /\ InitState.proposal = NoProposal
      /\ InitState.step = NewHeight
      /\ InitState.lockedRound = -1 /\ InitState.lockedBlock = Nil
      /\ InitState.validRound = -1 /\ InitState.validBlock = Nil
      /\ InitState.votes = {} /\ InitState.signed = <<0, 0, 0>> /\ InitState.panic = "none"
      /\ InitState.timer = NoTimeout /\ InitState.tocks = {}
      /\ InitState.decided = <<>> /\ InitState.outProposals = {} /\ InitState.outVotes = {}
      /\ Shape(InitState)
  BY DEF Shape, InitState
<1>4. Typed(InitState)
  <2>1. NewHeight \in NewHeight .. Commit /\ -1 \in -1 .. 0 /\ 0 \in Rounds
    BY Bounds DEF NewHeight, Commit
  <2>2. InitState.timer \in Timeouts \cup {NoTimeout} /\ InitState.tocks \subseteq Timeouts
    BY <1>3
  <2>3. InitState.proposal \in Proposal /\ InitState.proposal.b = Nil
        /\ InitState.lockedBlock \in Values /\ InitState.validBlock \in Values
    BY <1>3, NothingTyped
  <2>4. InitState.height \in 1 .. MaxHeight + 1 /\ InitState.signed \in Nat \X Nat \X Nat
    BY <1>3, Bounds
  <2>5. InitState.decided \in Seq(Blocks) /\ Len(InitState.decided) = InitState.height - 1
    BY <1>3
  <2>6. QED
    BY <1>3, <2>1, <2>2, <2>3, <2>4, <2>5 DEF Typed
<1>5. Sent(f, InitState, {}) = {}
  BY <1>3 DEF Sent, FrameOf
<1>6. ASSUME NEW n \in Correct PROVE Good(InitState, n, f, {})
  <2>1. NewOK(InitState, n, f, {})
    BY <1>3 DEF NewOK, FrameOf, UpToPos
  <2>2. /\ Held(InitState, {}) /\ Own(InitState, n, {}) /\ LockOK(InitState, {})
        /\ DecidedOK(InitState, {})
    BY <1>3, NoProposalReal DEF Held, Own, LockOK, DecidedOK
  <2>3. UpToPos(InitState.signed, <<InitState.height, InitState.round, 2>>)
    BY <1>3 DEF UpToPos, Before
  <2>4. Kept(InitState, n, {})
    BY <2>3 DEF Kept
  <2>5. QED
    BY <1>4, <1>5, <2>1, <2>2, <2>4 DEF Good, Sound
<1>7. QED
  BY <1>1, <1>2, <1>3, <1>6 DEF IInv, Frame

LEMMA StepGood == IInv /\ [Next]_vars => IInv'
<1> SUFFICES ASSUME IInv, [Next]_vars PROVE IInv'
  OBVIOUS
<1>1. CASE Next
  BY <1>1, StepIs, HandlerStep, CrashStep
<1>2. CASE UNCHANGED vars
  <2>1. cs' = cs /\ votes' = votes /\ proposals' = proposals /\ crashes' = crashes
    BY <1>2 DEF vars
  <2>2. \A h, t, r, b : Certificate(h, t, r, b)' = Certificate(h, t, r, b)
    BY <2>1 DEF Certificate
  <2>3. \A n, h, r : Frame(n, h, r)' = Frame(n, h, r)
    BY <2>1 DEF Frame
  <2>4. QED
    BY <2>1, <2>2, <2>3 DEF IInv, NetOK
<1>3. QED
  BY <1>1, <1>2

(* The invariant holds in every behaviour, whatever the constants. *)
THEOREM Invariance == Spec => []IInv
BY InitGood, StepGood, PTL DEF Spec

-----------------------------------------------------------------------------
(* What the invariant says of the properties the runs check. *)
LEMMA IInvFacts ==
  ASSUME IInv, NEW n \in Correct
  PROVE  /\ Typed(cs[n]) /\ Own(cs[n], n, votes) /\ LockOK(cs[n], votes)
         /\ DecidedOK(cs[n], votes)
<1>1. Good(cs[n], n, Frame(n, 0, 0), {}) /\ Sent(Frame(n, 0, 0), cs[n], {}) = votes
  BY ContextHolds
<1>2. QED
  BY <1>1 DEF Good, Sound

(* Every field of every ConsensusState keeps its type, a lock and a valid  *)
(* block come with their round, and a handler leaves nothing to broadcast. *)
THEOREM TypeCorrect == Spec => []TypeOK
<1>1. IInv => TypeOK
  <2> SUFFICES ASSUME IInv, NEW n \in Correct
               PROVE  LET c == cs[n] IN
      /\ c.height \in 1 .. MaxHeight + 1 /\ c.round \in Rounds /\ c.step \in NewHeight .. Commit
      /\ c.lockedRound \in -1 .. c.round /\ c.lockedBlock \in Blocks \cup {Nil}
      /\ (c.lockedRound = -1) = (c.lockedBlock = Nil)
      /\ c.validRound \in -1 .. c.round /\ c.validBlock \in Blocks \cup {Nil}
      /\ (c.validRound = -1) = (c.validBlock = Nil)
      /\ c.votes \subseteq Vote /\ \A v \in c.votes : v.h = c.height
      /\ c.panic \in {"none", "noBlock", "hashMismatch", "noCommit", "ownVote"}
      /\ Len(c.decided) = c.height - 1 /\ c.outVotes = {} /\ c.outProposals = {}
    BY DEF TypeOK
  <2>1. Typed(cs[n]) /\ cs[n].outVotes = {} /\ cs[n].outProposals = {}
    BY IInvFacts DEF IInv
  <2>2. QED
    BY <2>1 DEF Typed, Values
<1>2. QED
  BY <1>1, Invariance, PTL

(* A correct validator never casts two votes of one type in one round, in  *)
(* spite of restarts: the private validator's position survives, and       *)
(* signAndSendVoteLocked signs only what comes after it.                   *)
THEOREM VotesOnce == Spec => []OneVoteEach
<1>1. IInv => OneVoteEach
  <2> SUFFICES ASSUME IInv, NEW v \in votes, NEW w \in votes, v.v = w.v, v.v \in Correct,
                      v.h = w.h, v.t = w.t, v.r = w.r
               PROVE  v = w
    BY DEF OneVoteEach
  <2>1. Own(cs[v.v], v.v, votes)
    BY IInvFacts
  <2>2. Pos(v) = Pos(w)
    BY DEF Pos
  <2>3. QED
    BY <2>1, <2>2 DEF Own
<1>2. QED
  BY <1>1, Invariance, PTL

(* The panics that mark impossible states do not happen: one's own vote is *)
(* always added, and a commit is found whenever enterCommitLocked runs.    *)
THEOREM PanicsImpossible == Spec => []NoImpossiblePanic
<1>1. IInv => NoImpossiblePanic
  BY IInvFacts DEF NoImpossiblePanic, Typed
<1>2. QED
  BY <1>1, Invariance, PTL

(* A lock and a precommit for a block stand on 2/3+ prevotes for it.       *)
THEOREM LocksHavePolkas == Spec => []LockHasPolka
<1>1. IInv => LockHasPolka
  <2> SUFFICES ASSUME IInv PROVE LockHasPolka
    OBVIOUS
  <2>1. \A n \in Correct : cs[n].lockedBlock # Nil =>
          Certificate(cs[n].height, "prevote", cs[n].lockedRound, cs[n].lockedBlock)
    BY IInvFacts, CertificateIs DEF LockOK
  <2>2. \A v \in votes : v.v \in Correct /\ v.t = "precommit" /\ v.b # Nil =>
          Certificate(v.h, "prevote", v.r, v.b)
    BY DEF IInv, NetOK
  <2>3. QED
    BY <2>1, <2>2 DEF LockHasPolka
<1>2. QED
  BY <1>1, Invariance, PTL

(* A block is applied only with 2/3+ precommits for it in one round. *)
THEOREM DecisionsCertified == Spec => []DecidedIsCertified
<1>1. IInv => DecidedIsCertified
  BY IInvFacts, CertificateIs DEF DecidedIsCertified, DecidedOK
<1>2. QED
  BY <1>1, Invariance, PTL

-----------------------------------------------------------------------------
(* The votes implement module Voting. *)

(* A vote as Voting records it. *)
Cast(x) == [h |-> x.h, v |-> x.v, r |-> x.r, b |-> x.b]
CastIn(S, t) == {Cast(x) : x \in {y \in S : y.t = t}}
BackedIn(S, t, h, r, b) ==
  \E Q \in Quorums : \A v \in Q \ Faulty : [h |-> h, v |-> v, r |-> r, b |-> b] \in CastIn(S, t)

LEMMA CastFields ==
  ASSUME NEW x
  PROVE  Cast(x).h = x.h /\ Cast(x).v = x.v /\ Cast(x).r = x.r /\ Cast(x).b = x.b
BY DEF Cast

Ballot(h, v, r, b) == [h |-> h, v |-> v, r |-> r, b |-> b]

LEMMA CastIs ==
  ASSUME NEW x, NEW h, NEW v, NEW r, NEW b
  PROVE  Cast(x) = Ballot(h, v, r, b) <=> x.h = h /\ x.v = v /\ x.r = r /\ x.b = b
BY DEF Cast, Ballot

(* The voters of a certificate are a quorum, and the other way round. *)
LEMMA BackedIs ==
  ASSUME NEW S \in SUBSET Vote, NEW t, NEW h, NEW r, NEW b
  PROVE  BackedIn(S, t, h, r, b) <=> CertIn(S, h, t, r, b)
<1> DEFINE W == Voters(S, h, t, r, b)
<1>1. W \in SUBSET Validators
  BY ConsensusAssumption DEF Voters, Vote
<1>2. \A v : [h |-> h, v |-> v, r |-> r, b |-> b] \in CastIn(S, t)
               <=> \E x \in S : x.t = t /\ x.h = h /\ x.v = v /\ x.r = r /\ x.b = b
  <2>1. \A e : e \in CastIn(S, t) <=> \E x \in S : x.t = t /\ Cast(x) = e
    BY DEF CastIn
  <2>2. ASSUME NEW v
        PROVE  [h |-> h, v |-> v, r |-> r, b |-> b] \in CastIn(S, t)
                 <=> \E x \in S : x.t = t /\ x.h = h /\ x.v = v /\ x.r = r /\ x.b = b
    <3> DEFINE e == [h |-> h, v |-> v, r |-> r, b |-> b]
    <3>1. e = Ballot(h, v, r, b)
      BY Zenon DEF Ballot
    <3> HIDE DEF e
    <3>2. \A x : Cast(x) = e <=> x.h = h /\ x.v = v /\ x.r = r /\ x.b = b
      BY <3>1, CastIs
    <3>3. e \in CastIn(S, t)
            <=> \E x \in S : x.t = t /\ x.h = h /\ x.v = v /\ x.r = r /\ x.b = b
      BY <2>1, <3>2, Zenon
    <3>4. QED
      BY <3>3 DEF e
  <2>3. QED
    BY <2>2
<1>3. \A v : v \in W <=> v \in Faulty
               \/ [h |-> h, v |-> v, r |-> r, b |-> b] \in CastIn(S, t)
  BY <1>2 DEF Voters
<1>4. ASSUME CertIn(S, h, t, r, b) PROVE BackedIn(S, t, h, r, b)
  <2>1. W \in Quorums
    BY <1>1, <1>4 DEF Quorums, CertIn
  <2>2. QED
    BY <1>3, <2>1 DEF BackedIn
<1>5. ASSUME BackedIn(S, t, h, r, b) PROVE CertIn(S, h, t, r, b)
  <2>1. PICK Q \in Quorums : \A v \in Q \ Faulty :
          [h |-> h, v |-> v, r |-> r, b |-> b] \in CastIn(S, t)
    BY <1>5 DEF BackedIn
  <2>2. Q \in SUBSET W /\ PowerOf[Q] >= TwoThirdsMajority
    BY <1>3, <2>1, Zenon DEF Quorums
  <2> HIDE DEF W
  <2>3. Q \in SUBSET Validators
    BY <1>1, <2>2
  <2>4. PowerOf[Q] \in Nat /\ PowerOf[W] \in Nat /\ PowerOf[Q] <= PowerOf[W]
    BY <1>1, <2>2, <2>3, PowerType, PowerGrows
  <2>5. QED
    BY <2>2, <2>4, MajorityType, Sums DEF CertIn, W
<1>6. QED
  BY <1>4, <1>5

LEMMA VotesOfIs ==
  /\ \A t : VotesOf(t) = CastIn(votes, t)
  /\ \A t : VotesOf(t)' = CastIn(votes', t)
BY DEF VotesOf, CastIn, Cast

LEMMA PolkaIs ==
  ASSUME votes \subseteq Vote, NEW h, NEW r, NEW b
  PROVE  /\ V!Polka(h, r, b) <=> CertIn(votes, h, "prevote", r, b)
         /\ V!Certificate(h, r, b) <=> CertIn(votes, h, "precommit", r, b)
<1>1. V!Polka(h, r, b) <=> BackedIn(votes, "prevote", h, r, b)
  BY VotesOfIs DEF V!Polka, V!Backs, BackedIn
<1>2. V!Certificate(h, r, b) <=> BackedIn(votes, "precommit", h, r, b)
  BY VotesOfIs DEF V!Certificate, V!Backs, BackedIn
<1>3. QED
  BY <1>1, <1>2, BackedIs

LEMMA PolkaIsNext ==
  ASSUME votes' \subseteq Vote, NEW h, NEW r, NEW b
  PROVE  V!Polka(h, r, b)' <=> CertIn(votes', h, "prevote", r, b)
<1>1. V!Polka(h, r, b)' <=> BackedIn(votes', "prevote", h, r, b)
  BY VotesOfIs DEF V!Polka, V!Backs, BackedIn
<1>2. QED
  BY <1>1, BackedIs

(* A vote of n that is new comes after all n has cast. *)
LEMMA NewComesLast ==
  ASSUME IInv, NEW n \in Correct, NEW h \in Heights, NEW r \in Rounds,
         NEW t \in {"prevote", "precommit"}, Before(cs[n].signed, <<h, r, StepOf(t)>>),
         NEW u \in {"prevote", "precommit"}, NEW x \in VotesOf(u), x.v = n, x.h = h
  PROVE  x.r \in Nat /\ (x.r < r \/ (x.r = r /\ StepOf(u) < StepOf(t)))
<1>1. PICK y \in votes : y.t = u /\ x = Cast(y)
  BY VotesOfIs DEF CastIn
<1>2. y.v = n /\ y.h = h /\ y.r = x.r /\ y \in Vote /\ y.r \in Nat
  BY <1>1, CastFields, Bounds DEF IInv, NetOK, Vote
<1>3. UpToPos(Pos(y), cs[n].signed) /\ cs[n].signed \in Positions /\ Pos(y) \in Positions
  BY <1>2, IInvFacts, TypedFacts, PosType DEF Own
<1>4. Pos(y) = <<h, y.r, StepOf(u)>> /\ h \in Nat /\ r \in Nat /\ StepOf(u) \in Nat
      /\ StepOf(t) \in Nat
  BY <1>1, <1>2, Bounds DEF Pos, StepOf, Heights
<1>5. <<h, r, StepOf(t)>> \in Positions
  BY <1>4 DEF Positions
<1>6. Before(Pos(y), <<h, r, StepOf(t)>>)
  BY <1>3, <1>5, BeforeFacts
<1>7. Before(<<h, y.r, StepOf(u)>>, <<h, r, StepOf(t)>>)
  BY <1>4, <1>6
<1>8. ASSUME NEW k \in Nat, NEW m \in Nat, NEW i, NEW j, Before(<<h, k, i>>, <<h, m, j>>)
      PROVE  k < m \/ (k = m /\ i < j)
  BY <1>4, <1>8 DEF Before
<1>9. y.r < r \/ (y.r = r /\ StepOf(u) < StepOf(t))
  BY <1>2, <1>4, <1>7, <1>8, Zenon
<1>10. QED
  BY <1>2, <1>9, Zenon

(* One handler's prevote, one handler's precommit. *)
LEMMA PrevoteAllowed ==
  ASSUME Strict, IInv, NEW n \in Correct, NEW c, NEW h, NEW r, Handles(n, c, h, r),
         NEW x \in c.outVotes, x.t = "prevote",
         VotesOf("prevote")' = VotesOf("prevote") \cup {Cast(x)}
  PROVE  V!Prevote(n, h, r, x.b)
<1>1. /\ x \in Vote /\ x.v = n /\ x.h = h /\ x.r = r /\ Before(cs[n].signed, Pos(x))
      /\ x.b # Nil => \A y \in votes : IsPrecommit(y, n, x.h) /\ y.r < x.r /\ y.b # x.b =>
               \E s \in Rounds : s < x.r /\ Released(votes, y, s)
  BY DEF Handles, Good, Sound, NewOK, Frame, FrameOf
<1>2. h \in Heights /\ r \in Rounds /\ x.b \in Values /\ Before(cs[n].signed, <<h, r, 1>>)
  BY <1>1 DEF Vote, Values, Pos, StepOf
<1>3. StepOf("prevote") = 1 /\ StepOf("precommit") = 2 /\ r \in Nat
  BY <1>2, Bounds DEF StepOf
<1>4. \A y \in VotesOf("prevote") : y.v = n /\ y.h = h => y.r < r
  <2>1. SUFFICES ASSUME NEW y \in VotesOf("prevote"), y.v = n, y.h = h PROVE y.r < r
    OBVIOUS
  <2>2. y.r \in Nat /\ (y.r < r \/ (y.r = r /\ StepOf("prevote") < StepOf("prevote")))
    BY <1>2, <1>3, <2>1, NewComesLast, Zenon
  <2>3. QED
    BY <1>3, <2>2
<1>5. \A y \in VotesOf("precommit") : y.v = n /\ y.h = h => y.r < r
  <2>1. SUFFICES ASSUME NEW y \in VotesOf("precommit"), y.v = n, y.h = h PROVE y.r < r
    OBVIOUS
  <2>2. y.r \in Nat /\ (y.r < r \/ (y.r = r /\ StepOf("precommit") < StepOf("prevote")))
    BY <1>2, <1>3, <2>1, NewComesLast, Zenon
  <2>3. QED
    BY <1>3, <2>2
<1>6. ASSUME x.b # Nil PROVE V!Unlocked(n, h, r, x.b)
  <2>1. SUFFICES ASSUME NEW z \in VotesOf("precommit"), z.v = n, z.h = h, z.r < r,
                        z.b \notin {x.b, Nil}
                 PROVE  \E s \in Rounds : /\ z.r < s /\ s < r
                                          /\ \E b \in Values : b # z.b /\ V!Polka(h, s, b)
    BY DEF V!Unlocked, Values
  <2>2. PICK y \in votes : y.t = "precommit" /\ z = Cast(y)
    BY <2>1, VotesOfIs DEF CastIn
  <2>3. y.v = n /\ y.h = h /\ y.r = z.r /\ y.b = z.b
    BY <2>1, <2>2, CastFields
  <2>4. PICK s \in Rounds : s < x.r /\ Released(votes, y, s)
    BY <1>1, <1>6, <2>1, <2>2, <2>3 DEF IsPrecommit
  <2>5. PICK b \in Values : b # y.b /\ CertIn(votes, y.h, "prevote", s, b)
    BY <2>4 DEF Released
  <2>6. V!Polka(h, s, b)
    BY <2>3, <2>5, PolkaIs DEF IInv, NetOK
  <2>7. z.r < s /\ s < r
    BY <1>1, <2>3, <2>4 DEF Released
  <2>8. QED
    BY <2>3, <2>5, <2>6, <2>7
<1>7. Cast(x) = [h |-> h, v |-> n, r |-> r, b |-> x.b]
  BY <1>1 DEF Cast
<1>8. QED
  BY <1>4, <1>5, <1>6, <1>7 DEF V!Prevote, V!CanPrevote

LEMMA PrecommitAllowed ==
  ASSUME IInv, NEW n \in Correct, NEW c, NEW h, NEW r, Handles(n, c, h, r),
         NEW x \in c.outVotes, x.t = "precommit",
         VotesOf("precommit")' = VotesOf("precommit") \cup {Cast(x)}
  PROVE  V!Precommit(n, h, r, x.b)
<1>1. /\ x \in Vote /\ x.v = n /\ x.h = h /\ x.r = r /\ Before(cs[n].signed, Pos(x))
      /\ x.b # Nil => CertIn(Sent(Frame(n, h, r), c, {}), x.h, "prevote", x.r, x.b)
  BY DEF Handles, Good, Sound, NewOK, Frame, FrameOf
<1>2. h \in Heights /\ r \in Rounds /\ Before(cs[n].signed, <<h, r, 2>>)
  BY <1>1 DEF Vote, Pos, StepOf
<1>3. StepOf("prevote") = 1 /\ StepOf("precommit") = 2 /\ r \in Nat
  BY <1>2, Bounds DEF StepOf
<1>4. \A y \in VotesOf("precommit") : y.v = n /\ y.h = h => y.r < r
  <2>1. SUFFICES ASSUME NEW y \in VotesOf("precommit"), y.v = n, y.h = h PROVE y.r < r
    OBVIOUS
  <2>2. y.r \in Nat /\ (y.r < r \/ (y.r = r /\ StepOf("precommit") < StepOf("precommit")))
    BY <1>2, <1>3, <2>1, NewComesLast, Zenon
  <2>3. QED
    BY <1>3, <2>2
<1>5. \A y \in VotesOf("prevote") : y.v = n /\ y.h = h => y.r <= r
  <2>1. SUFFICES ASSUME NEW y \in VotesOf("prevote"), y.v = n, y.h = h PROVE y.r <= r
    OBVIOUS
  <2>2. y.r \in Nat /\ (y.r < r \/ (y.r = r /\ StepOf("prevote") < StepOf("precommit")))
    BY <1>2, <1>3, <2>1, NewComesLast, Zenon
  <2>3. QED
    BY <1>3, <2>2
<1>6. x.b # Nil => V!Polka(h, r, x.b)'
  BY <1>1, HandlerVotes, PolkaIsNext
<1>7. Cast(x) = [h |-> h, v |-> n, r |-> r, b |-> x.b]
  BY <1>1 DEF Cast
<1>8. QED
  BY <1>4, <1>5, <1>6, <1>7 DEF V!Precommit

(* A handler signs at most one vote of each type. *)
LEMMA OneOfEach ==
  ASSUME IInv, NEW n \in Correct, NEW c, NEW h, NEW r, Handles(n, c, h, r),
         NEW t \in {"prevote", "precommit"}
  PROVE  \/ VotesOf(t)' = VotesOf(t) /\ \A x \in c.outVotes : x.t # t
         \/ \E x \in c.outVotes : x.t = t /\ VotesOf(t)' = VotesOf(t) \cup {Cast(x)}
<1>1. votes' = votes \cup c.outVotes
  BY HandlerVotes
<1>2. \A x \in c.outVotes : x.v = n /\ x.h = h /\ x.r = r
  BY HandlerVotes
<1>3. Own(c, n, votes')
  BY HandlerVotes DEF Handles, Good, Sound
<1>4. VotesOf(t) = CastIn(votes, t) /\ VotesOf(t)' = CastIn(votes', t)
  BY VotesOfIs
<1>5. CASE \A x \in c.outVotes : x.t # t
  <2>1. {y \in votes' : y.t = t} = {y \in votes : y.t = t}
    BY <1>1, <1>5
  <2>2. CastIn(votes', t) = CastIn(votes, t)
    BY <2>1, Zenon DEF CastIn
  <2>3. QED
    BY <1>4, <1>5, <2>2
<1>6. CASE \E x \in c.outVotes : x.t = t
  <2>1. PICK x \in c.outVotes : x.t = t
    BY <1>6
  <2>2. ASSUME NEW y \in c.outVotes, y.t = t PROVE y = x
    <3>1. Pos(x) = Pos(y)
      BY <1>2, <2>1, <2>2 DEF Pos
    <3>2. QED
      BY <1>1, <1>2, <1>3, <3>1 DEF Own
  <2>3. {y \in votes' : y.t = t} = {y \in votes : y.t = t} \cup {x}
    BY <1>1, <2>1, <2>2
  <2>4. CastIn(votes', t) = CastIn(votes, t) \cup {Cast(x)}
    BY <2>3 DEF CastIn
  <2>5. QED
    BY <1>4, <2>1, <2>4
<1>7. QED
  BY <1>5, <1>6

LEMMA HandlerImplements ==
  ASSUME Strict, IInv, NEW n \in Correct, NEW c, NEW h, NEW r, Handles(n, c, h, r)
  PROVE  V!Next \/ UNCHANGED V!vars
<1>1. \A x \in c.outVotes : x \in Vote /\ x.v = n /\ x.h = h /\ x.r = r
  BY DEF Handles, Good, Sound, NewOK, Frame, FrameOf
<1>2. \A x \in c.outVotes : h \in Heights /\ r \in Rounds /\ x.b \in Blocks \cup {Nil}
  BY <1>1 DEF Vote
<1>3. n \in V!Correct
  BY DEF V!Correct, Correct
<1>4. CASE \A x \in c.outVotes : x.t # "prevote"
  <2>1. VotesOf("prevote")' = VotesOf("prevote")
    BY <1>4, OneOfEach
  <2>2. CASE \A x \in c.outVotes : x.t # "precommit"
    <3>1. VotesOf("precommit")' = VotesOf("precommit")
      BY <2>2, OneOfEach
    <3>2. QED
      BY <2>1, <3>1 DEF V!vars
  <2>3. CASE \E x \in c.outVotes : x.t = "precommit"
    <3>1. PICK x \in c.outVotes : /\ x.t = "precommit"
                                  /\ VotesOf("precommit")' = VotesOf("precommit") \cup {Cast(x)}
      BY <2>3, OneOfEach
    <3>2. V!Precommit(n, h, r, x.b)
      BY <3>1, PrecommitAllowed
    <3>3. QED
      BY <1>2, <1>3, <2>1, <3>2 DEF V!Next
  <2>4. QED
    BY <2>2, <2>3
<1>5. CASE \E x \in c.outVotes : x.t = "prevote"
  <2>1. PICK x \in c.outVotes : /\ x.t = "prevote"
                                /\ VotesOf("prevote")' = VotesOf("prevote") \cup {Cast(x)}
    BY <1>5, OneOfEach
  <2>2. V!Prevote(n, h, r, x.b)
    BY <2>1, PrevoteAllowed
  <2>3. CASE \A y \in c.outVotes : y.t # "precommit"
    <3>1. VotesOf("precommit")' = VotesOf("precommit")
      BY <2>3, OneOfEach
    <3>2. QED
      BY <1>2, <1>3, <2>2, <3>1 DEF V!Next
  <2>4. CASE \E y \in c.outVotes : y.t = "precommit"
    <3>1. PICK y \in c.outVotes : /\ y.t = "precommit"
                                  /\ VotesOf("precommit")' = VotesOf("precommit") \cup {Cast(y)}
      BY <2>4, OneOfEach
    <3>2. V!Precommit(n, h, r, y.b)
      BY <3>1, PrecommitAllowed
    <3>3. QED
      BY <1>2, <1>3, <2>2, <3>2 DEF V!Next
  <2>5. QED
    BY <2>3, <2>4
<1>6. QED
  BY <1>4, <1>5

(* The hypotheses of the two theorems below: no restarts, and less than a  *)
(* third of the voting power faulty.                                       *)
LEMMA StrictHolds ==
  ASSUME MaxCrashes = 0, 3 * PowerOf[Faulty] < PowerOf[Validators]
  PROVE  Strict
BY QuorumsMeet DEF Strict

LEMMA StepImplements ==
  ASSUME Strict, IInv, [Next]_vars
  PROVE  [V!Next]_(V!vars)
<1>1. CASE Next
  <2>1. PICK n \in Correct : Crash(n) \/ \E c, h, r : Handles(n, c, h, r)
    BY <1>1, StepIs
  <2>2. CASE Crash(n)
    <3>1. votes' = votes
      BY <2>2 DEF Crash
    <3>2. QED
      BY <3>1 DEF V!vars, VotesOf
  <2>3. CASE \E c, h, r : Handles(n, c, h, r)
    BY <2>3, HandlerImplements
  <2>4. QED
    BY <2>1, <2>2, <2>3
<1>2. CASE UNCHANGED vars
  BY <1>2 DEF vars, V!vars, VotesOf
<1>3. QED
  BY <1>1, <1>2

LEMMA InitImplements == Init => V!Init
BY DEF Init, V!Init, VotesOf

(* Every handler casts only votes that the locking rules of Voting allow:  *)
(* a prevote for a block is free of the lock, a precommit for a block has  *)
(* its polka, and both come after everything the validator cast before.    *)
(* A restart would break it: the lock is in memory only.                   *)
THEOREM Refinement ==
  ASSUME MaxCrashes = 0, 3 * PowerOf[Faulty] < PowerOf[Validators]
  PROVE  Spec => V!Spec
<1>1. Strict
  BY StrictHolds
<1>2. IInv /\ [Next]_vars => [V!Next]_(V!vars)
  BY <1>1, StepImplements
<1>3. Spec => [][V!Next]_(V!vars)
  BY <1>2, Invariance, PTL DEF Spec
<1>4. QED
  BY <1>3, InitImplements, PTL DEF Spec, V!Spec

(* The same in the form that the runs check. *)
THEOREM VotesFollowLocks ==
  ASSUME MaxCrashes = 0, 3 * PowerOf[Faulty] < PowerOf[Validators]
  PROVE  Spec => ImplementsVoting
<1>1. [V!Next]_(V!vars) => [UNCHANGED V!vars \/ V!Next]_votes
  OBVIOUS
<1>2. V!Spec => [][UNCHANGED V!vars \/ V!Next]_votes
  BY <1>1, PTL DEF V!Spec
<1>3. QED
  BY <1>2, Refinement, InitImplements, PTL DEF Spec, ImplementsVoting

-----------------------------------------------------------------------------
(* What is proved of Voting holds of the votes of the state machine. *)
VP == INSTANCE VotingProofs WITH
  prevotes <- VotesOf("prevote"), precommits <- VotesOf("precommit")

LEMMA VotingAssumptions ==
  ASSUME Strict
  PROVE  VP!VotingAssumption /\ VP!QuorumAssumption
<1>1. VP!VotingAssumption
  BY Bounds, NilAssumption DEF VP!VotingAssumption
<1>2. VP!QuorumAssumption
  BY DEF Strict, VP!QuorumAssumption, Quorums, Correct
<1>3. QED
  BY <1>1, <1>2

LEMMA SameSteps == [V!Next]_(V!vars) => [VP!Next]_(VP!vars)
BY DEF V!Next, VP!Next, V!vars, VP!vars, V!Prevote, VP!Prevote, V!Precommit, VP!Precommit,
       V!CanPrevote, VP!CanPrevote, V!Unlocked, VP!Unlocked, V!Polka, VP!Polka,
       V!Backs, VP!Backs, V!Correct, VP!Correct

LEMMA VotingInvariant ==
  ASSUME Strict
  PROVE  Spec => []VP!IInv
<1>1. Init => VP!IInv
  BY DEF Init, VotesOf, VP!IInv, VP!TypeOK, VP!OneVoteEach, VP!LocksRespected,
         VP!PrecommitHasPolka
<1>2. IInv /\ VP!IInv /\ [Next]_vars => VP!IInv'
  <2>1. VP!VotingAssumption /\ VP!QuorumAssumption
    BY VotingAssumptions
  <2>2. VP!VotingAssumption /\ VP!QuorumAssumption =>
          (VP!IInv /\ [VP!Next]_(VP!vars) => VP!IInv')
    BY VP!NextIInv
  <2>3. QED
    BY <2>1, <2>2, StepImplements, SameSteps
<1>3. QED
  BY <1>1, <1>2, Invariance, PTL DEF Spec

LEMMA VPPolkaIs ==
  ASSUME votes \subseteq Vote, NEW h, NEW r, NEW b
  PROVE  /\ VP!Polka(h, r, b) <=> CertIn(votes, h, "prevote", r, b)
         /\ VP!Certificate(h, r, b) <=> CertIn(votes, h, "precommit", r, b)
<1>1. VP!Polka(h, r, b) <=> BackedIn(votes, "prevote", h, r, b)
  BY VotesOfIs DEF VP!Polka, VP!Backs, BackedIn
<1>2. VP!Certificate(h, r, b) <=> BackedIn(votes, "precommit", h, r, b)
  BY VotesOfIs DEF VP!Certificate, VP!Backs, BackedIn
<1>3. QED
  BY <1>1, <1>2, BackedIs

(* Without restarts, and with less than a third of the power faulty, two   *)
(* rounds of a height certify different blocks only if a round strictly    *)
(* between them had 2/3+ prevotes for nil.                                 *)
THEOREM ConflictsNeedNilPolka ==
  ASSUME MaxCrashes = 0, 3 * PowerOf[Faulty] < PowerOf[Validators]
  PROVE  Spec => []ConflictNeedsNilPolka
<1>1. Strict
  BY StrictHolds
<1>2. IInv /\ VP!IInv => ConflictNeedsNilPolka
  <2> SUFFICES ASSUME IInv, VP!IInv, NEW h \in Heights,
                      NEW x \in Rounds \X Blocks, Certificate(h, "precommit", x[1], x[2]),
                      NEW y \in Rounds \X Blocks, Certificate(h, "precommit", y[1], y[2]),
                      x[1] <= y[1], x[2] # y[2]
               PROVE  \E r \in x[1] + 1 .. y[1] - 1 : Certificate(h, "prevote", r, Nil)
    BY DEF ConflictNeedsNilPolka
  <2>1. VP!ConflictNeedsNilPolka
    <3>1. VP!VotingAssumption /\ VP!QuorumAssumption
      BY <1>1, VotingAssumptions
    <3>2. VP!VotingAssumption /\ VP!QuorumAssumption => (VP!IInv => VP!ConflictNeedsNilPolka)
      BY VP!ConflictFromInvariant
    <3>3. QED
      BY <3>1, <3>2
  <2>2. votes \subseteq Vote
    BY DEF IInv, NetOK
  <2>3. VP!Certificate(h, x[1], x[2]) /\ VP!Certificate(h, y[1], y[2])
    BY <2>2, CertificateIs, VPPolkaIs
  <2>4. PICK r \in Rounds : x[1] < r /\ r < y[1] /\ VP!Polka(h, r, Nil)
    BY <2>1, <2>3 DEF VP!ConflictNeedsNilPolka
  <2>5. Certificate(h, "prevote", r, Nil)
    BY <2>2, <2>4, CertificateIs, VPPolkaIs
  <2>6. r \in x[1] + 1 .. y[1] - 1
    BY <2>4, Bounds
  <2>7. QED
    BY <2>5, <2>6
<1>3. QED
  BY <1>1, <1>2, Invariance, VotingInvariant, PTL

(* Agreement, as far as the code has it: two correct validators that apply *)
(* different blocks at a height have seen, at that height, a round with    *)
(* 2/3+ prevotes for nil.                                                  *)
AgreementUnlessNilPolka ==
  \A m, n \in Correct : \A h \in Heights :
    Len(cs[m].decided) >= h /\ Len(cs[n].decided) >= h
      => \/ cs[m].decided[h] = cs[n].decided[h]
         \/ \E r \in Rounds : Certificate(h, "prevote", r, Nil)

(* No two correct validators apply different blocks at a height without a  *)
(* nil polka there, under the hypotheses of ConflictsNeedNilPolka: every   *)
(* applied block has its certificate, and conflicting certificates need    *)
(* the nil polka.                                                          *)
THEOREM AgreementTheorem ==
  ASSUME MaxCrashes = 0, 3 * PowerOf[Faulty] < PowerOf[Validators]
  PROVE  Spec => []AgreementUnlessNilPolka
<1>1. IInv /\ DecidedIsCertified /\ ConflictNeedsNilPolka => AgreementUnlessNilPolka
  <2> SUFFICES ASSUME IInv, DecidedIsCertified, ConflictNeedsNilPolka,
                      NEW m \in Correct, NEW n \in Correct, NEW h \in Heights,
                      Len(cs[m].decided) >= h, Len(cs[n].decided) >= h,
                      cs[m].decided[h] # cs[n].decided[h]
               PROVE  \E r \in Rounds : Certificate(h, "prevote", r, Nil)
    BY DEF AgreementUnlessNilPolka
  <2>1. ASSUME NEW k \in Correct, Len(cs[k].decided) >= h
        PROVE  /\ cs[k].decided[h] \in Blocks
               /\ \E r \in Rounds : Certificate(h, "precommit", r, cs[k].decided[h])
    <3>1. cs[k].decided \in Seq(Blocks)
      BY IInvFacts DEF Typed
    <3>2. h \in 1 .. Len(cs[k].decided)
      BY <2>1, <3>1, Bounds DEF Heights
    <3>3. QED
      BY <3>1, <3>2 DEF DecidedIsCertified
  <2>2. PICK r1 \in Rounds : Certificate(h, "precommit", r1, cs[m].decided[h])
    BY <2>1
  <2>3. PICK r2 \in Rounds : Certificate(h, "precommit", r2, cs[n].decided[h])
    BY <2>1
  <2>4. ASSUME NEW p \in Rounds, NEW q \in Rounds, NEW b \in Blocks, NEW d \in Blocks, b # d,
               p <= q, Certificate(h, "precommit", p, b), Certificate(h, "precommit", q, d)
        PROVE  \E r \in Rounds : Certificate(h, "prevote", r, Nil)
    <3> DEFINE x == <<p, b>>
               y == <<q, d>>
               K == {z \in Rounds \X Blocks : Certificate(h, "precommit", z[1], z[2])}
    <3>1. x \in K /\ y \in K /\ x[1] = p /\ y[1] = q /\ x[2] = b /\ y[2] = d
      BY <2>4
    <3>2. PICK r \in p + 1 .. q - 1 : Certificate(h, "prevote", r, Nil)
      <4>1. \A u, w \in K : u[1] <= w[1] /\ u[2] # w[2]
              => \E r \in u[1] + 1 .. w[1] - 1 : Certificate(h, "prevote", r, Nil)
        BY DEF ConflictNeedsNilPolka
      <4> HIDE DEF K, x, y
      <4>2. QED
        BY <2>4, <3>1, <4>1
    <3>3. r \in Rounds
      <4>1. p \in Nat /\ q \in Nat /\ q <= MaxRound /\ MaxRound \in Nat
        BY Bounds DEF Rounds
      <4>2. QED
        BY <4>1 DEF Rounds
    <3>4. QED
      BY <3>2, <3>3
  <2>5. r1 <= r2 \/ r2 <= r1
    BY Bounds
  <2>6. cs[m].decided[h] \in Blocks /\ cs[n].decided[h] \in Blocks
    BY <2>1
  <2>7. QED
    BY <2>2, <2>3, <2>4, <2>5, <2>6
<1>2. QED
  BY <1>1, Invariance, DecisionsCertified, ConflictsNeedNilPolka, PTL
=============================================================================
