------------------------- MODULE ConsensusHandlers -------------------------
(***************************************************************************)
(* What every handler of the consensus state machine keeps, for every set  *)
(* of validators, powers, bounds and faulty validators.  A handler is a    *)
(* chain of operators from a record to a record, so the invariant has a    *)
(* form, Good, that holds between any two links of the chain: it counts a  *)
(* vote as sent from the moment it is signed, although it leaves at the    *)
(* end of the handler.  First come the invariant and the links that sign   *)
(* nothing or that sign a vote, then locks, prevotes, proposals, rounds,   *)
(* and what a vote from a peer sets off.  ConsensusProofs lifts this to    *)
(* the steps.                                                              *)
(***************************************************************************)
EXTENDS ConsensusState, TLAPS

(* c has the fields of a ConsensusState. *)
Shape(c) ==
  c \in [height : {c.height}, round : {c.round}, step : {c.step}, proposal : {c.proposal},
         lockedRound : {c.lockedRound}, lockedBlock : {c.lockedBlock},
         validRound : {c.validRound}, validBlock : {c.validBlock},
         votes : {c.votes}, signed : {c.signed}, timer : {c.timer}, tocks : {c.tocks},
         panic : {c.panic}, started : {c.started}, decided : {c.decided},
         outProposals : {c.outProposals}, outVotes : {c.outVotes}]

Values == Blocks \cup {Nil}
Proposal == [h : Nat, r : Nat, b : Values, polRound : Int, polVotes : SUBSET Vote]
Timeouts == [h : Nat, r : Nat, s : {Propose, PrevoteWait, PrecommitWait, Commit}]

Typed(c) ==
  /\ Shape(c)
  /\ c.height \in 1 .. MaxHeight + 1 /\ c.round \in Rounds /\ c.step \in NewHeight .. Commit
  /\ c.lockedRound \in -1 .. c.round /\ c.lockedBlock \in Values
  /\ c.lockedRound = -1 <=> c.lockedBlock = Nil
  /\ c.validRound \in -1 .. c.round /\ c.validBlock \in Values
  /\ c.validRound = -1 <=> c.validBlock = Nil
  /\ c.votes \subseteq Vote /\ \A v \in c.votes : v.h = c.height
  /\ c.panic \in {"none", "noBlock", "hashMismatch"}
  /\ c.decided \in Seq(Blocks) /\ Len(c.decided) = c.height - 1
  /\ c.proposal \in Proposal
  /\ c.proposal.b # Nil => c.proposal.h = c.height /\ c.proposal.r <= c.round
  /\ c.signed \in Nat \X Nat \X Nat
  /\ c.timer \in Timeouts \cup {NoTimeout} /\ c.tocks \subseteq Timeouts
  /\ c.outVotes \subseteq Vote /\ c.outProposals \subseteq Proposal
  /\ c.panic # "none" => c.votes = {} /\ c.lockedBlock = Nil /\ c.proposal = NoProposal

(* The order of CheckHRS: height, round, step. *)
Before(a, b) ==
  \/ a[1] < b[1]
  \/ a[1] = b[1] /\ a[2] < b[2]
  \/ a[1] = b[1] /\ a[2] = b[2] /\ a[3] < b[3]
UpToPos(a, b) == a = b \/ Before(a, b)
Pos(x) == <<x.h, x.r, StepOf(x.t)>>

(* The votes of S, with what the faulty validators could add, certify b. *)
Voters(S, h, t, r, b) ==
  Faulty \cup {v.v : v \in {x \in S : x.h = h /\ x.t = t /\ x.r = r /\ x.b = b}}
CertIn(S, h, t, r, b) == PowerOf[Voters(S, h, t, r, b)] >= TwoThirdsMajority

(* What the theorems on locks assume: nobody restarts, and quorums meet in *)
(* a correct validator.                                                    *)
Strict == MaxCrashes = 0 /\ \A Q1, Q2 \in Quorums : Q1 \cap Q2 \cap Correct # {}

-----------------------------------------------------------------------------
(* The invariant within a handler of n.  g is the state when the handler   *)
(* began: the votes sent, the position signed last, and the height and     *)
(* round the handler votes in.  P holds the votes signed and not yet       *)
(* broadcast.                                                              *)
Sent(g, c, P) == g.votes \cup P \cup c.outVotes

(* Votes held, and votes in a POL, were sent or are of faulty validators. *)
Real(vs, S) == \A v \in vs : v.v \in Faulty \/ v \in S
Held(c, S) ==
  /\ Real(c.votes, S) /\ Real(c.proposal.polVotes, S)
  /\ \A p \in c.outProposals : p.b # Nil /\ Real(p.polVotes, S)

(* n signed nothing after c.signed, and no two votes at one position. *)
Own(c, n, S) ==
  /\ \A x \in S : x.v = n => UpToPos(Pos(x), c.signed)
  /\ \A x, y \in S : x.v = n /\ y.v = n /\ Pos(x) = Pos(y) => x = y

LockOK(c, S) ==
  c.lockedBlock # Nil => CertIn(S, c.height, "prevote", c.lockedRound, c.lockedBlock)

DecidedOK(c, S) ==
  \A h \in 1 .. Len(c.decided) : \E r \in Rounds : CertIn(S, h, "precommit", r, c.decided[h])

(* A polka at s for another value than x's, after x. *)
Released(S, x, s) ==
  /\ s \in Rounds /\ x.r < s
  /\ \E b \in Values : b # x.b /\ CertIn(S, x.h, "prevote", s, b)

IsPrecommit(x, n, h) == x.t = "precommit" /\ x.v = n /\ x.h = h /\ x.b # Nil

(* The votes this handler signed. *)
NewOK(c, n, g, P) ==
  /\ UpToPos(g.signed, c.signed)
  /\ \A x \in P \cup c.outVotes :
       /\ x \in Vote /\ x.v = n /\ x.h = g.h /\ x.r = g.r /\ Before(g.signed, Pos(x))
       /\ x.t = "precommit" /\ x.b # Nil => CertIn(Sent(g, c, P), x.h, "prevote", x.r, x.b)
       /\ Strict /\ x.t = "prevote" /\ x.b # Nil =>
            \A y \in g.votes : IsPrecommit(y, n, x.h) /\ y.r < x.r /\ y.b # x.b =>
               \E s \in Rounds : s < x.r /\ Released(g.votes, y, s)

(* A round that n will not prevote in again. *)
Past(c, s) == s < c.round \/ (s = c.round /\ c.signed = <<c.height, c.round, 2>>)

(* n is locked on what it precommitted, or was released by a later polka. *)
Kept(c, n, S) ==
  /\ UpToPos(c.signed, <<c.height, c.round, 2>>)
  /\ \A x \in S : IsPrecommit(x, n, c.height) =>
       \/ c.lockedBlock = x.b /\ x.r <= c.lockedRound
       \/ \E s \in Rounds : Past(c, s) /\ Released(S, x, s)

Sound(c, n, g, P) ==
  /\ Typed(c)
  /\ Held(c, Sent(g, c, P))
  /\ Own(c, n, Sent(g, c, P))
  /\ LockOK(c, Sent(g, c, P))
  /\ DecidedOK(c, Sent(g, c, P))
  /\ NewOK(c, n, g, P)

Good(c, n, g, P) ==
  /\ Sound(c, n, g, P)
  /\ c.panic = "none" /\ Strict => Kept(c, n, Sent(g, c, P))

-----------------------------------------------------------------------------
(* Two facts that need induction.  ConsensusProofs shows them, in Sums; the *)
(* lemmas of this module take them from their hypotheses.                   *)

(* Voting power grows with the group. *)
PowersGrow ==
  /\ \A S \in SUBSET Validators : PowerOf[S] \in Nat
  /\ \A S \in SUBSET Validators : \A R \in SUBSET S : PowerOf[R] <= PowerOf[S]

(* A bounded set of rounds has a last one. *)
MaximaExist == \A m \in Nat : \A S \in SUBSET (0 .. m) : S # {} => Max(S) \in S

LEMMA MajorityType ==
  ASSUME PowersGrow
  PROVE  TwoThirdsMajority \in Nat
<1>1. PowerOf[Validators] \in Nat
  BY DEF PowersGrow
<1>2. QED
  BY <1>1 DEF TwoThirdsMajority

-----------------------------------------------------------------------------
(* Certificates. *)
LEMMA CertGrows ==
  ASSUME PowersGrow, NEW T \in SUBSET Vote, NEW S \in SUBSET T, NEW h, NEW t, NEW r, NEW b,
         CertIn(S, h, t, r, b)
  PROVE  CertIn(T, h, t, r, b)
<1>1. Voters(T, h, t, r, b) \in SUBSET Validators
  BY ConsensusAssumption DEF Voters, Vote
<1>2. Voters(S, h, t, r, b) \in SUBSET Voters(T, h, t, r, b)
  BY DEF Voters
<1>3. Voters(S, h, t, r, b) \in SUBSET Validators
  BY <1>1, <1>2
<1>4. /\ PowerOf[Voters(S, h, t, r, b)] \in Nat /\ PowerOf[Voters(T, h, t, r, b)] \in Nat
      /\ PowerOf[Voters(S, h, t, r, b)] <= PowerOf[Voters(T, h, t, r, b)]
  BY <1>1, <1>2, <1>3 DEF PowersGrow
<1>5. QED
  BY <1>4, MajorityType DEF CertIn

(* Votes of one round count only there. *)
LEMMA CertLocal ==
  ASSUME NEW S, NEW T, NEW h, NEW t, NEW r, NEW b,
         \A x \in T : x.h = h /\ x.t = t /\ x.r = r /\ x.b = b => x \in S,
         S \subseteq T
  PROVE  CertIn(T, h, t, r, b) = CertIn(S, h, t, r, b)
<1>1. {x \in T : x.h = h /\ x.t = t /\ x.r = r /\ x.b = b}
        = {x \in S : x.h = h /\ x.t = t /\ x.r = r /\ x.b = b}
  OBVIOUS
<1>2. Voters(T, h, t, r, b) = Voters(S, h, t, r, b)
  BY <1>1, Zenon DEF Voters
<1>3. QED
  BY <1>2, Zenon DEF CertIn

(* Votes vs for one value with 2/3+ of the power, all of them sent or of   *)
(* faulty validators, make a certificate.                                  *)
LEMMA RealCert ==
  ASSUME PowersGrow, NEW S \in SUBSET Vote, NEW vs \in SUBSET Vote, Real(vs, S),
         NEW h, NEW t, NEW r, NEW b,
         \A v \in vs : v.h = h /\ v.t = t /\ v.r = r /\ v.b = b,
         Sum(vs) >= TwoThirdsMajority
  PROVE  CertIn(S, h, t, r, b)
<1> DEFINE A == {v.v : v \in vs}
<1>1. Voters(S, h, t, r, b) \in SUBSET Validators
  BY ConsensusAssumption DEF Voters, Vote
<1>2. A \in SUBSET Voters(S, h, t, r, b)
  BY DEF Real, Voters
<1>3. PowerOf[A] >= TwoThirdsMajority
  BY DEF Sum
<1> HIDE DEF A
<1>4. A \in SUBSET Validators
  BY <1>1, <1>2
<1>5. /\ PowerOf[A] \in Nat /\ PowerOf[Voters(S, h, t, r, b)] \in Nat
      /\ PowerOf[A] <= PowerOf[Voters(S, h, t, r, b)]
  BY <1>1, <1>2, <1>4 DEF PowersGrow
<1>6. QED
  BY <1>3, <1>5, MajorityType DEF CertIn

LEMMA MajCert ==
  ASSUME PowersGrow, NEW S \in SUBSET Vote, NEW c, Typed(c), Real(c.votes, S),
         NEW t, NEW r, NEW b \in Maj23(c, t, r)
  PROVE  CertIn(S, c.height, t, r, b)
<1> DEFINE vs == VotesFor(c, t, r, b)
<1>1. vs \in SUBSET Vote /\ Real(vs, S)
  BY DEF VotesFor, VoteSet, Typed, Real
<1>2. \A v \in vs : v.h = c.height /\ v.t = t /\ v.r = r /\ v.b = b
  BY DEF VotesFor, VoteSet, Typed
<1>3. Sum(vs) >= TwoThirdsMajority
  BY DEF Maj23
<1> HIDE DEF vs
<1>4. QED
  BY <1>1, <1>2, <1>3, RealCert

LEMMA MajValue ==
  ASSUME NEW c, Typed(c), NEW t, NEW r, NEW b \in Maj23(c, t, r)
  PROVE  b \in Values
BY DEF Maj23, VoteSet, Typed, Vote, Values

(* Two polkas of one round are for one value, when no correct validator    *)
(* cast two votes and quorums meet.                                        *)
LEMMA OnePolka ==
  ASSUME Strict, NEW S \in SUBSET Vote,
         \A x, y \in S : x.v = y.v /\ Pos(x) = Pos(y) => x = y,
         NEW h, NEW r, NEW b, NEW d,
         CertIn(S, h, "prevote", r, b), CertIn(S, h, "prevote", r, d)
  PROVE  b = d
<1> DEFINE Q(e) == Voters(S, h, "prevote", r, e)
<1>1. Q(b) \in Quorums /\ Q(d) \in Quorums
  BY ConsensusAssumption DEF Quorums, CertIn, Voters, Vote
<1>2. PICK v \in Q(b) \cap Q(d) \cap Correct : TRUE
  BY <1>1 DEF Strict
<1>3. PICK x \in S : x.v = v /\ x.h = h /\ x.t = "prevote" /\ x.r = r /\ x.b = b
  BY <1>2 DEF Voters, Correct
<1>4. PICK y \in S : y.v = v /\ y.h = h /\ y.t = "prevote" /\ y.r = r /\ y.b = d
  BY <1>2 DEF Voters, Correct
<1>5. Pos(x) = Pos(y)
  BY <1>3, <1>4 DEF Pos
<1>6. QED
  BY <1>3, <1>4, <1>5

-----------------------------------------------------------------------------
(* Constants. *)
LEMMA Bounds ==
  /\ MaxHeight \in Nat /\ MaxHeight > 0 /\ MaxRound \in Nat /\ MaxCrashes \in Nat
  /\ 0 \in Rounds /\ \A r \in Rounds : r \in Nat
<1>1. MaxHeight \in Nat /\ MaxHeight > 0 /\ MaxRound \in Nat /\ MaxCrashes \in Nat
  BY ConsensusAssumption
<1>2. QED
  BY <1>1 DEF Rounds

LEMMA NothingTyped ==
  /\ Nil \in Values /\ NoProposal \in Proposal
  /\ NoProposal.b = Nil /\ NoProposal.polVotes = {}
<1>1. Nil \in Values /\ -1 \in Int /\ 0 \in Nat /\ {} \in SUBSET Vote
  BY DEF Values
<1>2. NoProposal \in Proposal
  BY <1>1 DEF Proposal, NoProposal
<1>3. NoProposal.b = Nil /\ NoProposal.polVotes = {}
  BY Zenon DEF NoProposal
<1>4. QED
  BY <1>1, <1>2, <1>3

-----------------------------------------------------------------------------
(* Positions. *)
Positions == Nat \X Nat \X Nat

LEMMA PosType == ASSUME NEW x \in Vote PROVE Pos(x) \in Positions
BY ConsensusAssumption DEF Vote, Pos, StepOf, Positions, Heights, Rounds

LEMMA BeforeFacts ==
  ASSUME NEW a \in Positions, NEW b \in Positions, NEW d \in Positions
  PROVE  /\ ~Before(a, a)
         /\ UpToPos(a, b) /\ Before(b, d) => Before(a, d)
         /\ Before(a, b) /\ UpToPos(b, d) => Before(a, d)
         /\ UpToPos(a, b) /\ UpToPos(b, d) => UpToPos(a, d)
         /\ UpToPos(a, b) /\ UpToPos(b, a) => a = b
         /\ Before(a, b) \/ UpToPos(b, a)
BY DEF Positions, Before, UpToPos

LEMMA MaySignIs ==
  ASSUME NEW c, NEW s
  PROVE  MaySign(c, s) <=> Before(c.signed, <<c.height, c.round, s>>)
BY DEF MaySign, Before

LEMMA TypedFacts ==
  ASSUME NEW c, Typed(c)
  PROVE  /\ c.height \in Nat /\ c.round \in Nat /\ c.round \in Rounds /\ c.signed \in Positions
         /\ c.outVotes \subseteq Vote /\ c.votes \subseteq Vote
         /\ c.lockedRound \in Int /\ c.validRound \in Int
         /\ \A s \in Nat : <<c.height, c.round, s>> \in Positions
<1>1. /\ c.height \in Nat /\ c.round \in Nat /\ c.round \in Rounds
      /\ c.outVotes \subseteq Vote /\ c.votes \subseteq Vote
  <2>1. MaxHeight \in Nat /\ MaxRound \in Nat
    BY ConsensusAssumption
  <2>2. c.height \in 1 .. MaxHeight + 1 /\ c.round \in Rounds
    BY DEF Typed
  <2>3. c.outVotes \subseteq Vote /\ c.votes \subseteq Vote
    BY DEF Typed
  <2>4. QED
    BY <2>1, <2>2, <2>3 DEF Rounds
<1>2. c.signed \in Positions
  BY DEF Typed, Positions
<1>3. c.lockedRound \in Int /\ c.validRound \in Int
  <2>1. c.lockedRound \in -1 .. c.round /\ c.validRound \in -1 .. c.round
    BY DEF Typed
  <2>2. QED
    BY <1>1, <2>1
<1>4. QED
  BY <1>1, <1>2, <1>3 DEF Positions

-----------------------------------------------------------------------------
(* How an operator that signs nothing may change the record. *)

Quiet(c, d) ==
  /\ Typed(d)
  /\ d.height = c.height /\ d.round = c.round /\ d.proposal = c.proposal
  /\ d.lockedRound = c.lockedRound /\ d.lockedBlock = c.lockedBlock
  /\ d.validRound = c.validRound /\ d.validBlock = c.validBlock
  /\ d.votes = c.votes /\ d.signed = c.signed /\ d.panic = c.panic
  /\ d.decided = c.decided /\ d.outProposals = c.outProposals /\ d.outVotes = c.outVotes

Panicked(c, d) ==
  /\ Typed(d) /\ d.panic # "none"
  /\ d.signed = c.signed /\ d.decided = c.decided
  /\ d.outProposals = c.outProposals /\ d.outVotes = c.outVotes

Finalized(c, d) ==
  /\ Typed(d)
  /\ d.height = c.height + 1 /\ d.round = 0 /\ d.panic = c.panic
  /\ d.votes = {} /\ d.lockedBlock = Nil /\ d.proposal = NoProposal
  /\ d.signed = c.signed /\ d.outProposals = c.outProposals /\ d.outVotes = c.outVotes
  /\ \E r \in Rounds : \E b \in Maj23(c, "precommit", r) : d.decided = Append(c.decided, b)

LEMMA QuietGood ==
  ASSUME NEW c, NEW d, NEW n, NEW g, NEW P, Good(c, n, g, P), Quiet(c, d)
  PROVE  Good(d, n, g, P)
<1>1. Sent(g, d, P) = Sent(g, c, P)
  BY DEF Quiet, Sent
<1>2. Held(d, Sent(g, d, P)) /\ Own(d, n, Sent(g, d, P)) /\ LockOK(d, Sent(g, d, P))
      /\ DecidedOK(d, Sent(g, d, P))
  BY <1>1 DEF Good, Sound, Quiet, Held, Own, LockOK, DecidedOK
<1>3. NewOK(d, n, g, P)
  BY <1>1 DEF Good, Sound, Quiet, NewOK
<1>4. d.panic = "none" /\ Strict => Kept(d, n, Sent(g, d, P))
  BY <1>1 DEF Good, Sound, Quiet, Kept, Past
<1>5. QED
  BY <1>2, <1>3, <1>4 DEF Good, Sound, Quiet

LEMMA NoProposalReal == ASSUME NEW S PROVE Real(NoProposal.polVotes, S) /\ Real({}, S)
BY DEF NoProposal, Real

LEMMA PanickedGood ==
  ASSUME NEW c, NEW d, NEW n, NEW g, NEW P, Good(c, n, g, P), Panicked(c, d)
  PROVE  Good(d, n, g, P)
<1>1. Sent(g, d, P) = Sent(g, c, P)
  BY DEF Panicked, Sent
<1>2. d.votes = {} /\ d.lockedBlock = Nil /\ d.proposal = NoProposal
  BY DEF Panicked, Typed
<1>3. Held(d, Sent(g, d, P))
  BY <1>1, <1>2, NoProposalReal DEF Good, Sound, Panicked, Held
<1>4. Own(d, n, Sent(g, d, P)) /\ LockOK(d, Sent(g, d, P)) /\ DecidedOK(d, Sent(g, d, P))
  BY <1>1, <1>2 DEF Good, Sound, Panicked, Own, LockOK, DecidedOK
<1>5. NewOK(d, n, g, P)
  BY <1>1 DEF Good, Sound, Panicked, NewOK
<1>6. QED
  BY <1>3, <1>4, <1>5 DEF Good, Sound, Panicked

(* A finalized block has the votes held as its certificate, and no vote    *)
(* for the new height was signed.                                          *)
LEMMA FinalizedGood ==
  ASSUME PowersGrow, NEW c, NEW d, NEW n, NEW g, NEW P, Good(c, n, g, P),
         g.votes \subseteq Vote, P \subseteq Vote, Finalized(c, d)
  PROVE  Good(d, n, g, P)
<1> DEFINE S == Sent(g, c, P)
<1>1. Sent(g, d, P) = S
  BY DEF Finalized, Sent
<1>2. S \in SUBSET Vote
  BY DEF Good, Sound, Typed, Sent
<1>3. Held(d, S)
  BY NoProposalReal DEF Good, Sound, Finalized, Held
<1>4. Own(d, n, S) /\ LockOK(d, S)
  BY DEF Good, Sound, Finalized, Own, LockOK
<1>5. DecidedOK(d, S)
  <2> HIDE DEF S
  <2>0. PICK r \in Rounds : \E b \in Maj23(c, "precommit", r) : d.decided = Append(c.decided, b)
    BY DEF Finalized
  <2>1. PICK b \in Maj23(c, "precommit", r) : d.decided = Append(c.decided, b)
    BY <2>0
  <2>2. CertIn(S, c.height, "precommit", r, b)
    BY <1>2, MajCert, Zenon DEF Good, Sound, Held, S
  <2>3. /\ c.decided \in Seq(Blocks) /\ Len(c.decided) = c.height - 1 /\ c.height \in Nat
        /\ d.decided \in Seq(Blocks) /\ Len(d.decided) = c.height
    <3>1. Typed(c) /\ Typed(d) /\ d.height = c.height + 1
      BY DEF Good, Sound, Finalized
    <3>2. c.height \in Nat
      BY <3>1, TypedFacts
    <3>3. /\ c.decided \in Seq(Blocks) /\ Len(c.decided) = c.height - 1
          /\ d.decided \in Seq(Blocks) /\ Len(d.decided) = d.height - 1
      BY <3>1 DEF Typed
    <3>4. QED
      BY <3>1, <3>2, <3>3
  <2>4. ASSUME NEW h \in 1 .. Len(d.decided)
        PROVE  \E q \in Rounds : CertIn(S, h, "precommit", q, d.decided[h])
    <3>1. CASE h = c.height
      <4>1. d.decided[h] = b
        BY <2>1, <2>3, <3>1
      <4>2. QED
        BY <2>2, <3>1, <4>1
    <3>2. CASE h # c.height
      <4>1. h \in 1 .. Len(c.decided) /\ d.decided[h] = c.decided[h]
        BY <2>1, <2>3, <3>2
      <4>2. QED
        BY <4>1 DEF Good, Sound, DecidedOK, S
    <3>3. QED
      BY <3>1, <3>2
  <2>5. QED
    BY <2>4 DEF DecidedOK
<1>6. NewOK(d, n, g, P)
  BY <1>1 DEF Good, Sound, Finalized, NewOK
<1>7. ASSUME d.panic = "none", Strict PROVE Kept(d, n, S)
  <2>1. /\ Typed(c) /\ Typed(d) /\ d.height = c.height + 1 /\ d.signed = c.signed /\ d.round = 0
        /\ Own(c, n, S) /\ Kept(c, n, S)
    BY <1>7 DEF Good, Sound, Finalized
  <2>2. /\ c.height \in Nat /\ c.round \in Nat /\ c.signed \in Positions
        /\ <<c.height, c.round, 2>> \in Positions
    BY <2>1, TypedFacts
  <2>3. UpToPos(c.signed, <<c.height, c.round, 2>>)
    BY <2>1 DEF Kept
  <2>4. UpToPos(d.signed, <<d.height, d.round, 2>>)
    BY <2>1, <2>2, <2>3 DEF UpToPos, Before, Positions
  <2>5. ASSUME NEW x \in S, x.v = n, x.h = d.height PROVE FALSE
    <3>1. UpToPos(Pos(x), c.signed) /\ Pos(x) \in Positions
      BY <1>2, <2>1, <2>5, PosType DEF Own
    <3>2. UpToPos(Pos(x), <<c.height, c.round, 2>>)
      BY <2>2, <2>3, <3>1, BeforeFacts
    <3>3. x.h = c.height + 1 /\ Pos(x)[1] = x.h
      BY <2>1, <2>5 DEF Pos
    <3>4. QED
      BY <2>2, <3>1, <3>2, <3>3 DEF UpToPos, Before, Positions
  <2>6. QED
    BY <2>4, <2>5 DEF Kept, IsPrecommit
<1>8. QED
  BY <1>1, <1>3, <1>4, <1>5, <1>6, <1>7 DEF Good, Sound, Finalized

-----------------------------------------------------------------------------
(* The operators that sign nothing. *)

LEMMA TypedQuiet == ASSUME NEW c, Typed(c) PROVE Quiet(c, c)
BY DEF Quiet

LEMMA QuietTwice ==
  ASSUME NEW c, NEW d, NEW e, Quiet(c, d), Quiet(d, e)
  PROVE  Quiet(c, e)
BY DEF Quiet

LEMMA SetStep ==
  ASSUME NEW c, Typed(c), NEW s \in NewHeight .. Commit
  PROVE  Quiet(c, [c EXCEPT !.step = s])
<1> DEFINE d == [c EXCEPT !.step = s]
<1>1. /\ d.height = c.height /\ d.round = c.round /\ d.proposal = c.proposal /\ d.step = s
      /\ d.lockedRound = c.lockedRound /\ d.lockedBlock = c.lockedBlock
      /\ d.validRound = c.validRound /\ d.validBlock = c.validBlock
      /\ d.votes = c.votes /\ d.signed = c.signed /\ d.panic = c.panic
      /\ d.timer = c.timer /\ d.tocks = c.tocks
      /\ d.decided = c.decided /\ d.outProposals = c.outProposals /\ d.outVotes = c.outVotes
      /\ Shape(d)
  <2>1. Shape(c)
    BY DEF Typed
  <2>2. QED
    BY <2>1 DEF Shape
<1> HIDE DEF d
<1>2. Typed(d)
  BY <1>1 DEF Typed
<1>3. QED
  BY <1>1, <1>2 DEF Quiet, d

LEMMA ScheduleQuiet ==
  ASSUME NEW c, Typed(c), NEW s \in {Propose, PrevoteWait, PrecommitWait, Commit}
  PROVE  Quiet(c, ScheduleTimeout(c, s))
<1> DEFINE d == ScheduleTimeout(c, s)
<1>1. /\ d.height = c.height /\ d.round = c.round /\ d.proposal = c.proposal /\ d.step = c.step
      /\ d.lockedRound = c.lockedRound /\ d.lockedBlock = c.lockedBlock
      /\ d.validRound = c.validRound /\ d.validBlock = c.validBlock
      /\ d.votes = c.votes /\ d.signed = c.signed /\ d.panic = c.panic
      /\ d.timer = [h |-> c.height, r |-> c.round, s |-> s]
      /\ d.tocks = c.tocks \cup ({c.timer} \ {NoTimeout})
      /\ d.decided = c.decided /\ d.outProposals = c.outProposals /\ d.outVotes = c.outVotes
      /\ Shape(d)
  <2>1. Shape(c)
    BY DEF Typed
  <2>2. QED
    BY <2>1, Zenon DEF Shape, ScheduleTimeout
<1> HIDE DEF d
<1>2. d.timer \in Timeouts \cup {NoTimeout} /\ d.tocks \subseteq Timeouts
  <2>1. c.height \in Nat /\ c.round \in Nat
    BY TypedFacts
  <2>2. c.timer \in Timeouts \cup {NoTimeout} /\ c.tocks \subseteq Timeouts
    BY DEF Typed
  <2>3. d.timer \in Timeouts
    BY <1>1, <2>1 DEF Timeouts
  <2>4. QED
    BY <1>1, <2>2, <2>3
<1>3. Typed(d)
  BY <1>1, <1>2 DEF Typed
<1>4. QED
  BY <1>1, <1>3 DEF Quiet, d

LEMMA PanicIs ==
  ASSUME NEW c, Typed(c), NEW why \in {"noBlock", "hashMismatch"}
  PROVE  Panicked(c, Panic(c, why))
<1> DEFINE d == Panic(c, why)
<1>1. /\ d.height = c.height /\ d.round = 0 /\ d.proposal = NoProposal /\ d.step = Commit
      /\ d.lockedRound = -1 /\ d.lockedBlock = Nil
      /\ d.validRound = -1 /\ d.validBlock = Nil
      /\ d.votes = {} /\ d.signed = c.signed /\ d.panic = why
      /\ d.timer = NoTimeout /\ d.tocks = {}
      /\ d.decided = c.decided /\ d.outProposals = c.outProposals /\ d.outVotes = c.outVotes
      /\ Shape(d)
  BY Zenon DEF Shape, Panic, InitState
<1> HIDE DEF d
<1>2. Commit \in NewHeight .. Commit
  BY DEF Commit, NewHeight
<1>3. /\ c.height \in 1 .. MaxHeight + 1 /\ c.signed \in Nat \X Nat \X Nat
      /\ c.decided \in Seq(Blocks) /\ Len(c.decided) = c.height - 1
      /\ c.outVotes \subseteq Vote /\ c.outProposals \subseteq Proposal
  BY DEF Typed
<1>4. Typed(d)
  BY <1>1, <1>2, <1>3, Bounds, NothingTyped DEF Typed
<1>5. QED
  BY <1>1, <1>4 DEF Panicked, d

LEMMA finalizeCommitIs ==
  ASSUME NEW c, Typed(c), c.panic = "none", c.height <= MaxHeight,
         NEW r \in Rounds, NEW b \in Maj23(c, "precommit", r)
  PROVE  Panicked(c, finalizeCommit(c, b)) \/ Finalized(c, finalizeCommit(c, b))
<1> DEFINE block == IF c.lockedBlock # Nil THEN c.lockedBlock ELSE c.proposal.b
           d0 == [c EXCEPT !.height = @ + 1, !.round = 0, !.step = NewHeight,
                       !.proposal = NoProposal,
                       !.lockedRound = -1, !.lockedBlock = Nil,
                       !.validRound = -1, !.validBlock = Nil,
                       !.votes = {}, !.decided = Append(@, block)]
           d == ScheduleTimeout(d0, Commit)
<1>1. CASE block = Nil
  BY <1>1, PanicIs DEF finalizeCommit
<1>2. CASE block # Nil /\ block # b
  BY <1>2, PanicIs DEF finalizeCommit
<1>3. CASE block # Nil /\ block = b
  <2>1. finalizeCommit(c, b) = d
    BY <1>3 DEF finalizeCommit
  <2>2. block \in Blocks
    BY <1>3 DEF Typed, Proposal, Values
  <2> HIDE DEF block
  <2>3. /\ d0.height = c.height + 1 /\ d0.round = 0 /\ d0.proposal = NoProposal
        /\ d0.step = NewHeight /\ d0.lockedRound = -1 /\ d0.lockedBlock = Nil
        /\ d0.validRound = -1 /\ d0.validBlock = Nil
        /\ d0.votes = {} /\ d0.signed = c.signed /\ d0.panic = c.panic
        /\ d0.timer = c.timer /\ d0.tocks = c.tocks /\ d0.decided = Append(c.decided, block)
        /\ d0.outProposals = c.outProposals /\ d0.outVotes = c.outVotes
        /\ Shape(d0)
    <3>1. Shape(c)
      BY DEF Typed
    <3>2. QED
      BY <3>1, Zenon DEF Shape
  <2> HIDE DEF d0
  <2>5. NewHeight \in NewHeight .. Commit
    BY DEF Commit, NewHeight
  <2>6. /\ d0.decided \in Seq(Blocks) /\ Len(d0.decided) = d0.height - 1
        /\ d0.height \in 1 .. MaxHeight + 1
    <3>1. c.height \in 1 .. MaxHeight + 1 /\ MaxHeight \in Nat
      BY Bounds DEF Typed
    <3>2. c.decided \in Seq(Blocks) /\ Len(c.decided) = c.height - 1
      BY DEF Typed
    <3>3. QED
      BY <2>2, <2>3, <3>1, <3>2
  <2>7. Typed(d0)
    <3>1. /\ c.signed \in Nat \X Nat \X Nat /\ c.outVotes \subseteq Vote
          /\ c.outProposals \subseteq Proposal
          /\ c.timer \in Timeouts \cup {NoTimeout} /\ c.tocks \subseteq Timeouts
      BY DEF Typed
    <3>2. QED
      BY <2>3, <2>5, <2>6, <3>1, Bounds, NothingTyped DEF Typed
  <2>8. Quiet(d0, d)
    BY <2>7, ScheduleQuiet
  <2>9. Finalized(c, d)
    BY <1>3, <2>3, <2>8 DEF Quiet, Finalized
  <2>10. QED
    BY <2>1, <2>9
<1>4. QED
  BY <1>1, <1>2, <1>3

Ends(c, d) == Quiet(c, d) \/ Panicked(c, d) \/ Finalized(c, d)

LEMMA QuietEnds ==
  ASSUME NEW c, NEW d, NEW e, Quiet(c, d), Ends(d, e)
  PROVE  Ends(c, e)
<1>1. ASSUME Finalized(d, e) PROVE Finalized(c, e)
  <2>1. \A t, r : Maj23(d, t, r) = Maj23(c, t, r)
    BY DEF Quiet, Maj23, VotesFor, VoteSet
  <2>2. QED
    BY <1>1, <2>1 DEF Quiet, Finalized
<1>2. ASSUME Panicked(d, e) PROVE Panicked(c, e)
  BY <1>2 DEF Quiet, Panicked
<1>3. QED
  BY <1>1, <1>2, QuietTwice DEF Ends

LEMMA EndsGood ==
  ASSUME PowersGrow, NEW c, NEW d, NEW n, NEW g, NEW P, Good(c, n, g, P),
         g.votes \subseteq Vote, P \subseteq Vote, Ends(c, d)
  PROVE  Good(d, n, g, P)
BY QuietGood, PanickedGood, FinalizedGood DEF Ends

(* "No commit found" does not happen: the majority that led here is found. *)
LEMMA enterCommitIs ==
  ASSUME MaximaExist, NEW c, Typed(c), c.panic = "none", c.height <= MaxHeight,
         NEW r \in 0 .. c.round, Maj23(c, "precommit", r) \ {Nil} # {}
  PROVE  Ends(c, enterCommit(c))
<1> DEFINE c1 == [c EXCEPT !.step = Commit]
           found == {q \in 0 .. c.round : Maj23(c, "precommit", q) \ {Nil} # {}}
           b == CHOOSE e \in Maj23(c, "precommit", Max(found)) : TRUE
<1>1. CASE c.step >= Commit
  BY <1>1, TypedQuiet DEF enterCommit, Ends
<1>2. CASE ~(c.step >= Commit)
  <2>1. found \in SUBSET (0 .. c.round) /\ found # {}
    OBVIOUS
  <2>2. enterCommit(c) = finalizeCommit(c1, b)
    BY <1>2, <2>1 DEF enterCommit
  <2>3. c.round \in Nat /\ c.round \in Rounds
    BY TypedFacts
  <2>4. Max(found) \in found
    <3> HIDE DEF found
    <3>1. QED
      BY <2>1, <2>3, Zenon DEF MaximaExist
  <2>5. Maj23(c, "precommit", Max(found)) # {} /\ Max(found) \in 0 .. c.round
    BY <2>4
  <2>6. b \in Maj23(c, "precommit", Max(found)) /\ Max(found) \in Rounds
    <3> HIDE DEF found
    <3>1. QED
      BY <2>3, <2>5, Bounds DEF Rounds
  <2> HIDE DEF found, b
  <2>7. Quiet(c, c1)
    <3>1. Commit \in NewHeight .. Commit
      BY DEF Commit, NewHeight
    <3>2. QED
      BY <3>1, SetStep
  <2> HIDE DEF c1
  <2>8. Maj23(c1, "precommit", Max(found)) = Maj23(c, "precommit", Max(found))
    BY <2>7 DEF Quiet, Maj23, VotesFor, VoteSet
  <2>9. Ends(c1, finalizeCommit(c1, b))
    BY <2>6, <2>7, <2>8, finalizeCommitIs DEF Quiet, Ends
  <2>10. QED
    BY <2>2, <2>7, <2>9, QuietEnds
<1>3. QED
  BY <1>1, <1>2

LEMMA enterPrecommitWaitIs ==
  ASSUME NEW c, Typed(c)
  PROVE  Quiet(c, enterPrecommitWait(c))
<1> DEFINE c1 == [c EXCEPT !.step = PrecommitWait]
<1>1. PrecommitWait \in NewHeight .. Commit
  BY DEF PrecommitWait, NewHeight, Commit
<1>2. Quiet(c, c1)
  BY <1>1, SetStep
<1> HIDE DEF c1
<1>3. Quiet(c1, ScheduleTimeout(c1, PrecommitWait))
  BY <1>2, ScheduleQuiet DEF Quiet
<1>4. enterPrecommitWait(c) = c \/ enterPrecommitWait(c) = ScheduleTimeout(c1, PrecommitWait)
  BY DEF enterPrecommitWait, c1
<1>5. QED
  BY <1>2, <1>3, <1>4, QuietTwice, TypedQuiet

LEMMA precommitInRoundIs ==
  ASSUME MaximaExist, NEW c, Typed(c), c.panic = "none", c.height <= MaxHeight
  PROVE  Ends(c, precommitInRound(c))
<1>1. CASE Maj23(c, "precommit", c.round) \ {Nil} # {}
  <2>1. c.round \in 0 .. c.round
    BY TypedFacts
  <2>2. QED
    BY <1>1, <2>1, enterCommitIs DEF precommitInRound
<1>2. CASE ~(Maj23(c, "precommit", c.round) \ {Nil} # {})
  <2>1. precommitInRound(c) = c \/ precommitInRound(c) = enterPrecommitWait(c)
    BY <1>2 DEF precommitInRound
  <2>2. QED
    BY <2>1, enterPrecommitWaitIs, TypedQuiet DEF Ends
<1>3. QED
  BY <1>1, <1>2

LEMMA enterPrevoteWaitIs ==
  ASSUME NEW c, Typed(c)
  PROVE  Quiet(c, enterPrevoteWait(c))
<1> DEFINE c1 == [c EXCEPT !.step = PrevoteWait]
<1>1. PrevoteWait \in NewHeight .. Commit
  BY DEF PrevoteWait, NewHeight, Commit
<1>2. Quiet(c, c1)
  BY <1>1, SetStep
<1> HIDE DEF c1
<1>3. Quiet(c1, ScheduleTimeout(c1, PrevoteWait))
  BY <1>2, ScheduleQuiet DEF Quiet
<1>4. enterPrevoteWait(c) = c \/ enterPrevoteWait(c) = ScheduleTimeout(c1, PrevoteWait)
  BY DEF enterPrevoteWait, c1
<1>5. QED
  BY <1>2, <1>3, <1>4, QuietTwice, TypedQuiet

-----------------------------------------------------------------------------
(* Signing. *)

Context(g, n) ==
  /\ PowersGrow /\ MaximaExist
  /\ n \in Correct /\ g.votes \subseteq Vote /\ g.signed \in Positions
  /\ \A x, y \in g.votes : x.v = y.v /\ Pos(x) = Pos(y) => x = y
  /\ \A x \in g.votes : x.t = "precommit" /\ x.b # Nil =>
       CertIn(g.votes, x.h, "prevote", x.r, x.b)

LEMMA ContextFacts == ASSUME NEW g, NEW n, Context(g, n) PROVE PowersGrow /\ MaximaExist
BY DEF Context

LEMMA SentVotes ==
  ASSUME NEW c, NEW n, NEW g, NEW P, Context(g, n), Sound(c, n, g, P)
  PROVE  /\ Sent(g, c, P) \in SUBSET Vote /\ P \subseteq Vote /\ g.votes \subseteq Vote
         /\ \A x, y \in Sent(g, c, P) : x.v = y.v /\ Pos(x) = Pos(y) => x = y
<1>1. Sent(g, c, P) \in SUBSET Vote /\ P \subseteq Vote /\ g.votes \subseteq Vote
  BY DEF Context, Sound, NewOK, Sent
<1>2. ASSUME NEW x \in Sent(g, c, P), NEW y \in Sent(g, c, P), x.v = y.v, Pos(x) = Pos(y)
      PROVE  x = y
  <2>1. CASE x.v = n
    BY <1>2, <2>1, Zenon DEF Sound, Own
  <2>2. CASE x.v # n
    <3>1. x \in g.votes /\ y \in g.votes
      BY <1>2, <2>2 DEF Sound, NewOK, Sent
    <3>2. QED
      BY <1>2, <3>1 DEF Context
  <2>3. QED
    BY <2>1, <2>2
<1>3. QED
  BY <1>1, <1>2

(* x is the vote of n for b in c's height and round. *)
VoteHere(x, c, n, t, b) ==
  /\ x \in Vote /\ x.v = n /\ x.h = c.height /\ x.r = c.round /\ x.t = t /\ x.b = b
  /\ Pos(x) = <<c.height, c.round, StepOf(t)>>

LEMMA OwnVoteIs ==
  ASSUME NEW c, Typed(c), c.height <= MaxHeight, NEW n \in Correct,
         NEW t \in {"prevote", "precommit"}, NEW b \in Values
  PROVE  VoteHere(OwnVote(c, n, t, b), c, n, t, b)
<1>1. c.height \in Heights
  <2>1. c.height \in 1 .. MaxHeight + 1 /\ MaxHeight \in Nat
    BY Bounds DEF Typed
  <2>2. QED
    BY <2>1 DEF Heights
<1>2. c.round \in Rounds /\ n \in Validators
  BY TypedFacts DEF Correct
<1>3. QED
  BY <1>1, <1>2 DEF OwnVote, Vote, Pos, Values, VoteHere

(* "Our own vote was not added" does not happen: a vote held at the same   *)
(* height, round and type would have been signed before.                   *)
LEMMA OwnVoteFits ==
  ASSUME NEW c, NEW n, NEW g, NEW P, Context(g, n), Sound(c, n, g, P),
         NEW t \in {"prevote", "precommit"}, NEW b, MaySign(c, StepOf(t))
  PROVE  CanAddVote(c, OwnVote(c, n, t, b))
<1> DEFINE x == OwnVote(c, n, t, b)
<1>1. x.h = c.height /\ x.r = c.round /\ x.t = t /\ x.v = n
  BY DEF OwnVote
<1> HIDE DEF x
<1>2. SUFFICES ASSUME NEW v \in c.votes, v.v = x.v, v.t = x.t, v.r = x.r
               PROVE  FALSE
  BY <1>1 DEF CanAddVote, x
<1>3. Typed(c)
  BY DEF Sound
<1>4. v \in Vote /\ v.h = c.height
  BY <1>3 DEF Typed
<1>5. v \in Sent(g, c, P)
  BY <1>1, <1>2 DEF Sound, Held, Real, Context, Correct
<1>6. UpToPos(Pos(v), c.signed)
  BY <1>1, <1>2, <1>5 DEF Sound, Own
<1>7. Pos(v) = <<c.height, c.round, StepOf(t)>>
  BY <1>1, <1>2, <1>4 DEF Pos
<1>8. Pos(v) \in Positions /\ c.signed \in Positions
  BY <1>3, <1>4, PosType, TypedFacts
<1>9. Before(c.signed, Pos(v))
  BY <1>7, MaySignIs
<1>10. QED
  BY <1>6, <1>8, <1>9, BeforeFacts

(* The record after AddOwnVote. *)
Signed(c, d, x) ==
  /\ Typed(d)
  /\ d.height = c.height /\ d.round = c.round /\ d.proposal = c.proposal
  /\ d.lockedRound = c.lockedRound /\ d.lockedBlock = c.lockedBlock
  /\ d.panic = c.panic /\ d.decided = c.decided
  /\ d.outProposals = c.outProposals /\ d.outVotes = c.outVotes
  /\ d.signed = Pos(x) /\ d.votes = c.votes \cup {x}

LEMMA AddOwnVoteIs ==
  ASSUME NEW c, NEW n, NEW g, NEW P, Context(g, n), Sound(c, n, g, P),
         c.panic = "none", c.height <= MaxHeight,
         NEW t \in {"prevote", "precommit"}, NEW b \in Values, MaySign(c, StepOf(t))
  PROVE  Signed(c, AddOwnVote(c, n, t, b), OwnVote(c, n, t, b))
<1> DEFINE x == OwnVote(c, n, t, b)
           d == AddOwnVote(c, n, t, b)
<1>1. Typed(c) /\ n \in Correct
  BY DEF Sound, Context
<1>2. x \in Vote /\ x.h = c.height /\ Pos(x) = <<c.height, c.round, StepOf(t)>>
  BY <1>1, OwnVoteIs DEF VoteHere
<1>3. CanAddVote(c, x)
  BY OwnVoteFits
<1> HIDE DEF x
<1>4. d = [[c EXCEPT !.signed = Pos(x)] EXCEPT !.votes = @ \cup {x}]
  BY <1>2, <1>3 DEF AddOwnVote, x
<1> HIDE DEF d
<1>5. /\ d.height = c.height /\ d.round = c.round /\ d.proposal = c.proposal /\ d.step = c.step
      /\ d.lockedRound = c.lockedRound /\ d.lockedBlock = c.lockedBlock
      /\ d.validRound = c.validRound /\ d.validBlock = c.validBlock
      /\ d.votes = c.votes \cup {x} /\ d.signed = Pos(x) /\ d.panic = c.panic
      /\ d.timer = c.timer /\ d.tocks = c.tocks
      /\ d.decided = c.decided /\ d.outProposals = c.outProposals /\ d.outVotes = c.outVotes
      /\ Shape(d)
  <2>1. Shape(c)
    BY <1>1 DEF Typed
  <2>2. QED
    BY <1>4, <2>1, Zenon DEF Shape
<1>6. Pos(x) \in Nat \X Nat \X Nat
  BY <1>2, PosType DEF Positions
<1>7. d.votes \subseteq Vote /\ \A v \in d.votes : v.h = d.height
  BY <1>1, <1>2, <1>5 DEF Typed
<1>8. Typed(d)
  BY <1>1, <1>5, <1>6, <1>7 DEF Typed
<1>9. QED
  BY <1>5, <1>8 DEF Signed, d, x

(* What a vote of n must satisfy when it is signed. *)
VoteOK(x, n, g, S) ==
  /\ x \in Vote /\ x.v = n /\ x.h = g.h /\ x.r = g.r
  /\ x.t = "precommit" /\ x.b # Nil => CertIn(S, x.h, "prevote", x.r, x.b)
  /\ Strict /\ x.t = "prevote" /\ x.b # Nil =>
       \A y \in g.votes : IsPrecommit(y, n, x.h) /\ y.r < x.r /\ y.b # x.b =>
          \E s \in Rounds : s < x.r /\ Released(g.votes, y, s)

LEMMA SignSent ==
  ASSUME NEW c, NEW d, NEW g, NEW P, NEW x, Signed(c, d, x)
  PROVE  Sent(g, d, P \cup {x}) = Sent(g, c, P) \cup {x}
BY DEF Sent, Signed

LEMMA SignSound ==
  ASSUME NEW c, NEW d, NEW n, NEW g, NEW P, NEW x, Context(g, n), Sound(c, n, g, P),
         VoteOK(x, n, g, Sent(g, c, P)), Before(c.signed, Pos(x)), Signed(c, d, x)
  PROVE  Sound(d, n, g, P \cup {x})
<1> DEFINE S == Sent(g, c, P)
           T == S \cup {x}
<1>1. Sent(g, d, P \cup {x}) = T
  BY DEF Sent, Signed
<1>2. S \in SUBSET Vote /\ x \in Vote
  BY SentVotes DEF VoteOK
<1>3. T \in SUBSET Vote /\ S \in SUBSET T
  BY <1>2
<1>4. Typed(c) /\ Typed(d) /\ Held(c, S) /\ Own(c, n, S) /\ LockOK(c, S) /\ DecidedOK(c, S)
      /\ NewOK(c, n, g, P)
  BY DEF Sound, Signed
<1> HIDE DEF S
<1>5. Held(d, T)
  BY <1>4 DEF Signed, Held, Real
<1>6. /\ c.signed \in Positions /\ d.signed = Pos(x) /\ Pos(x) \in Positions
      /\ g.signed \in Positions
  BY <1>2, <1>4, TypedFacts, PosType DEF Signed, Context
<1>7. \A y \in S : y.v = n => UpToPos(Pos(y), c.signed) /\ Pos(y) \in Positions
  BY <1>2, <1>4, PosType DEF Own
<1>8. \A y \in S : y.v = n => Before(Pos(y), Pos(x))
  BY <1>6, <1>7, BeforeFacts
<1>9. Own(d, n, T)
  <2>1. \A y \in T : y.v = n => UpToPos(Pos(y), d.signed)
    BY <1>6, <1>8 DEF UpToPos
  <2>2. ~Before(Pos(x), Pos(x))
    BY <1>6, BeforeFacts
  <2>3. ASSUME NEW y \in T, NEW z \in T, y.v = n, z.v = n, Pos(y) = Pos(z) PROVE y = z
    <3>1. CASE y \in S /\ z \in S
      BY <1>4, <2>3, <3>1 DEF Own
    <3>2. CASE y = x /\ z \in S
      BY <1>8, <2>2, <2>3, <3>2
    <3>3. CASE y \in S /\ z = x
      BY <1>8, <2>2, <2>3, <3>3
    <3>4. QED
      BY <3>1, <3>2, <3>3
  <2>4. QED
    BY <2>1, <2>3 DEF Own
<1>10. LockOK(d, T)
  <2>1. /\ d.lockedBlock = c.lockedBlock /\ d.lockedRound = c.lockedRound
        /\ d.height = c.height
    BY DEF Signed
  <2>2. QED
    BY <1>3, <1>4, <2>1, CertGrows, ContextFacts DEF LockOK
<1>11. DecidedOK(d, T)
  <2>1. d.decided = c.decided
    BY DEF Signed
  <2>2. QED
    BY <1>3, <1>4, <2>1, CertGrows, ContextFacts DEF DecidedOK
<1>12. NewOK(d, n, g, P \cup {x})
  <2>1. Before(g.signed, Pos(x)) /\ UpToPos(g.signed, d.signed)
    <3>1. UpToPos(g.signed, c.signed)
      BY <1>4, Zenon DEF NewOK
    <3>2. Before(g.signed, Pos(x))
      BY <1>6, <3>1, BeforeFacts
    <3>3. QED
      BY <1>6, <3>2, Zenon DEF UpToPos
  <2>2. d.outVotes = c.outVotes
    BY DEF Signed
  <2>3. ASSUME NEW y \in P \cup c.outVotes
        PROVE  y.t = "precommit" /\ y.b # Nil => CertIn(T, y.h, "prevote", y.r, y.b)
    BY <1>3, <1>4, CertGrows, ContextFacts DEF NewOK, S
  <2>4. x.t = "precommit" /\ x.b # Nil => CertIn(T, x.h, "prevote", x.r, x.b)
    BY <1>3, CertGrows, ContextFacts DEF VoteOK, S
  <2>5. ASSUME NEW y \in P \cup c.outVotes
        PROVE /\ y \in Vote /\ y.v = n /\ y.h = g.h /\ y.r = g.r /\ Before(g.signed, Pos(y))
              /\ Strict /\ y.t = "prevote" /\ y.b # Nil =>
                   \A z \in g.votes : IsPrecommit(z, n, y.h) /\ z.r < y.r /\ z.b # y.b =>
                      \E s \in Rounds : s < y.r /\ Released(g.votes, z, s)
    BY <1>4 DEF NewOK
  <2>6. ASSUME NEW y \in (P \cup {x}) \cup d.outVotes
        PROVE /\ y \in Vote /\ y.v = n /\ y.h = g.h /\ y.r = g.r /\ Before(g.signed, Pos(y))
              /\ y.t = "precommit" /\ y.b # Nil => CertIn(T, y.h, "prevote", y.r, y.b)
              /\ Strict /\ y.t = "prevote" /\ y.b # Nil =>
                   \A z \in g.votes : IsPrecommit(z, n, y.h) /\ z.r < y.r /\ z.b # y.b =>
                      \E s \in Rounds : s < y.r /\ Released(g.votes, z, s)
    <3>1. CASE y = x
      BY <2>1, <2>4, <3>1 DEF VoteOK
    <3>2. CASE y # x
      <4>1. y \in P \cup c.outVotes
        BY <2>2, <2>6, <3>2
      <4>2. QED
        BY <2>3, <2>5, <4>1
    <3>3. QED
      BY <3>1, <3>2
  <2>7. QED
    BY <1>1, <2>1, <2>6, Zenon DEF NewOK
<1>13. QED
  BY <1>1, <1>4, <1>5, <1>9, <1>10, <1>11, <1>12 DEF Sound, S

LEMMA ReleasedGrows ==
  ASSUME PowersGrow, NEW T \in SUBSET Vote, NEW S \in SUBSET T, NEW x, NEW s, Released(S, x, s)
  PROVE  Released(T, x, s)
BY CertGrows DEF Released

(* A prevote leaves what is locked and released as it was. *)
LEMMA PrevoteKept ==
  ASSUME PowersGrow, NEW c, NEW d, NEW n, NEW x, NEW S, S \cup {x} \in SUBSET Vote, Typed(c), Kept(c, n, S),
         x.t = "prevote", Pos(x) = <<c.height, c.round, 1>>,
         Before(c.signed, Pos(x)), Signed(c, d, x)
  PROVE  Kept(d, n, S \cup {x})
<1>1. /\ d.height = c.height /\ d.round = c.round /\ d.signed = Pos(x)
      /\ d.lockedBlock = c.lockedBlock /\ d.lockedRound = c.lockedRound
  BY DEF Signed
<1>2. /\ c.height \in Nat /\ c.round \in Nat /\ c.signed \in Positions
      /\ \A s \in Nat : <<c.height, c.round, s>> \in Positions
  BY TypedFacts
<1>3. UpToPos(d.signed, <<d.height, d.round, 2>>)
  BY <1>1, <1>2 DEF UpToPos, Before
<1>4. c.signed # <<c.height, c.round, 2>>
  BY <1>2 DEF Before
<1>5. \A s \in Rounds : Past(c, s) => Past(d, s)
  BY <1>1, <1>4 DEF Past
<1>6. ASSUME NEW y \in S \cup {x}, IsPrecommit(y, n, d.height)
      PROVE  \/ d.lockedBlock = y.b /\ y.r <= d.lockedRound
             \/ \E s \in Rounds : Past(d, s) /\ Released(S \cup {x}, y, s)
  <2>1. y \in S /\ IsPrecommit(y, n, c.height)
    BY <1>1, <1>6 DEF IsPrecommit
  <2>2. CASE c.lockedBlock = y.b /\ y.r <= c.lockedRound
    BY <1>1, <2>2
  <2>3. CASE \E s \in Rounds : Past(c, s) /\ Released(S, y, s)
    <3>1. PICK s \in Rounds : Past(c, s) /\ Released(S, y, s)
      BY <2>3
    <3>2. Released(S \cup {x}, y, s)
      BY <3>1, ReleasedGrows
    <3>3. QED
      BY <1>5, <3>1, <3>2
  <2>4. QED
    BY <2>1, <2>2, <2>3 DEF Kept
<1>7. QED
  BY <1>3, <1>6, Zenon DEF Kept

(* How a signed vote leaves: with the handler, unless it panics first. *)
LEMMA BroadcastGood ==
  ASSUME NEW e, NEW n, NEW g, NEW P, NEW x, Good(e, n, g, P \cup {x}), e.panic = "none"
  PROVE  /\ Good(Broadcast(e, x), n, g, P)
         /\ Broadcast(e, x).panic = "none" /\ Broadcast(e, x).height = e.height
         /\ Broadcast(e, x).round = e.round
<1> DEFINE d == Broadcast(e, x)
<1>1. Typed(e) /\ x \in Vote
  BY DEF Good, Sound, NewOK
<1>2. /\ d.height = e.height /\ d.round = e.round /\ d.proposal = e.proposal /\ d.step = e.step
      /\ d.lockedRound = e.lockedRound /\ d.lockedBlock = e.lockedBlock
      /\ d.validRound = e.validRound /\ d.validBlock = e.validBlock
      /\ d.votes = e.votes /\ d.signed = e.signed /\ d.panic = e.panic
      /\ d.timer = e.timer /\ d.tocks = e.tocks
      /\ d.decided = e.decided /\ d.outProposals = e.outProposals
      /\ d.outVotes = e.outVotes \cup {x}
      /\ Shape(d)
  <2>1. Shape(e)
    BY <1>1 DEF Typed
  <2>2. QED
    BY <2>1 DEF Shape, Broadcast
<1> HIDE DEF d
<1>3. Typed(d)
  BY <1>1, <1>2 DEF Typed
<1>4. Sent(g, d, P) = Sent(g, e, P \cup {x}) /\ P \cup d.outVotes = (P \cup {x}) \cup e.outVotes
  BY <1>2 DEF Sent
<1>5. Held(d, Sent(g, d, P)) /\ Own(d, n, Sent(g, d, P)) /\ LockOK(d, Sent(g, d, P))
      /\ DecidedOK(d, Sent(g, d, P))
  BY <1>2, <1>4, Zenon DEF Good, Sound, Held, Own, LockOK, DecidedOK
<1>6. NewOK(d, n, g, P)
  BY <1>2, <1>4 DEF Good, Sound, NewOK
<1>7. Strict => Kept(d, n, Sent(g, d, P))
  BY <1>2, <1>4, Zenon DEF Good, Kept, Past
<1>8. QED
  BY <1>2, <1>3, <1>5, <1>6, <1>7 DEF Good, Sound, d

LEMMA PanicDrops ==
  ASSUME NEW c, NEW e, NEW n, NEW g, NEW P, NEW x,
         Sound(c, n, g, P), Good(e, n, g, P \cup {x}), e.panic # "none", e.decided = c.decided,
         e.outVotes = c.outVotes, e.outProposals = c.outProposals
  PROVE  Good(e, n, g, P)
<1>1. Sent(g, e, P) = Sent(g, c, P) /\ Sent(g, e, P) \subseteq Sent(g, e, P \cup {x})
  BY DEF Sent
<1>2. Typed(e) /\ e.votes = {} /\ e.lockedBlock = Nil /\ e.proposal = NoProposal
  BY Zenon DEF Good, Sound, Typed
<1>3. Held(e, Sent(g, e, P))
  BY <1>1, <1>2, NoProposalReal DEF Sound, Held
<1>4. Own(e, n, Sent(g, e, P))
  BY <1>1 DEF Good, Sound, Own
<1>5. LockOK(e, Sent(g, e, P)) /\ DecidedOK(e, Sent(g, e, P))
  BY <1>1, <1>2 DEF Sound, LockOK, DecidedOK
<1>6. UpToPos(g.signed, e.signed)
  BY DEF Good, Sound, NewOK
<1>7. NewOK(e, n, g, P)
  BY <1>1, <1>6 DEF Sound, NewOK
<1>8. QED
  BY <1>2, <1>3, <1>4, <1>5, <1>7 DEF Good, Sound

(* The effect of a part of a handler that may sign. *)
Outcome(c, d, n, g, P) ==
  /\ Good(d, n, g, P)
  /\ d.panic # "none" => /\ d.decided = c.decided /\ d.outVotes = c.outVotes
                         /\ d.outProposals = c.outProposals
  /\ d.panic = "none" => \/ d.height = c.height /\ d.round = c.round
                         \/ d.height = c.height + 1 /\ d.round = 0

(* In the height and round of the handler. *)
Here(c, g) ==
  c.panic = "none" /\ c.height <= MaxHeight /\ c.height = g.h /\ c.round = g.r

LEMMA EndsOutcome ==
  ASSUME NEW c, NEW d, NEW n, NEW g, NEW P, Context(g, n), Good(c, n, g, P), c.panic = "none",
         Ends(c, d)
  PROVE  Outcome(c, d, n, g, P)
<1>1. Good(d, n, g, P)
  BY EndsGood, SentVotes, ContextFacts DEF Good
<1>2. CASE Quiet(c, d)
  BY <1>1, <1>2 DEF Quiet, Outcome
<1>3. CASE Panicked(c, d)
  BY <1>1, <1>3 DEF Panicked, Outcome
<1>4. CASE Finalized(c, d)
  BY <1>1, <1>4 DEF Finalized, Outcome
<1>5. QED
  BY <1>2, <1>3, <1>4 DEF Ends

(* Signed, handled with the result e, and broadcast. *)
LEMMA SignedOutcome ==
  ASSUME NEW c, NEW d, NEW e, NEW n, NEW g, NEW P, NEW x, Sound(c, n, g, P),
         Signed(c, d, x), Outcome(d, e, n, g, P \cup {x})
  PROVE  Outcome(c, Broadcast(e, x), n, g, P)
<1>1. CASE e.panic = "none"
  <2>1. /\ Good(Broadcast(e, x), n, g, P)
        /\ Broadcast(e, x).panic = "none" /\ Broadcast(e, x).height = e.height
        /\ Broadcast(e, x).round = e.round
    BY <1>1, BroadcastGood DEF Outcome
  <2>2. QED
    BY <1>1, <2>1 DEF Outcome, Signed
<1>2. CASE e.panic # "none"
  <2>1. Broadcast(e, x) = e
    BY <1>2 DEF Broadcast
  <2>2. /\ e.decided = c.decided /\ e.outVotes = c.outVotes
        /\ e.outProposals = c.outProposals
    BY <1>2 DEF Outcome, Signed
  <2>3. Good(e, n, g, P)
    BY <1>2, <2>2, PanicDrops DEF Outcome
  <2>4. QED
    BY <1>2, <2>1, <2>2, <2>3 DEF Outcome
<1>3. QED
  BY <1>1, <1>2


-----------------------------------------------------------------------------
(* Precommits and the lock. *)

LEMMA signPrecommitGood ==
  ASSUME NEW c, NEW n, NEW g, NEW P, NEW b \in Values,
         Context(g, n), Sound(c, n, g, P), Here(c, g),
         b # Nil => CertIn(Sent(g, c, P), c.height, "prevote", c.round, b),
         Strict /\ ~MaySign(c, 2) => Kept(c, n, Sent(g, c, P)),
         Strict /\ MaySign(c, 2) =>
           Kept(AddOwnVote(c, n, "precommit", b), n,
                Sent(g, c, P) \cup {OwnVote(c, n, "precommit", b)})
  PROVE  Outcome(c, signPrecommit(c, n, b), n, g, P)
<1> DEFINE x == OwnVote(c, n, "precommit", b)
           d == AddOwnVote(c, n, "precommit", b)
<1>1. StepOf("precommit") = 2
  BY DEF StepOf
<1>2. CASE ~MaySign(c, 2)
  <2>1. signPrecommit(c, n, b) = c
    BY <1>1, <1>2 DEF signPrecommit
  <2>2. QED
    BY <1>2, <2>1 DEF Outcome, Good, Here
<1>3. CASE MaySign(c, 2)
  <2>1. Typed(c) /\ n \in Correct /\ c.panic = "none" /\ c.height <= MaxHeight
    BY DEF Sound, Context, Here
  <2>2. /\ x \in Vote /\ x.v = n /\ x.h = c.height /\ x.r = c.round /\ x.t = "precommit"
        /\ x.b = b /\ Pos(x) = <<c.height, c.round, 2>>
    <3>1. VoteHere(x, c, n, "precommit", b)
      BY <2>1, OwnVoteIs
    <3> HIDE DEF x
    <3>2. QED
      BY <1>1, <3>1 DEF VoteHere
  <2>3. Signed(c, d, x)
    BY <1>1, <1>3, <2>1, AddOwnVoteIs
  <2>4. VoteOK(x, n, g, Sent(g, c, P))
    <3> HIDE DEF x, d
    <3>1. QED
      BY <2>2 DEF VoteOK, Here
  <2>5. signPrecommit(c, n, b) = Broadcast(precommitInRound(d), x)
    <3>1. d.panic = "none"
      BY <2>1, <2>3 DEF Signed
    <3>2. QED
      BY <1>1, <1>3, <3>1 DEF signPrecommit
  <2>6. Strict => Kept(d, n, Sent(g, c, P) \cup {x})
    BY <1>3, <2>3
  <2> HIDE DEF x, d
  <2>7. Before(c.signed, Pos(x))
    BY <1>3, <2>2, MaySignIs
  <2>8. Good(d, n, g, P \cup {x})
    <3>1. Sound(d, n, g, P \cup {x})
      BY <2>3, <2>4, <2>7, SignSound
    <3>2. Sent(g, d, P \cup {x}) = Sent(g, c, P) \cup {x}
      BY <2>3, SignSent
    <3>3. QED
      BY <2>6, <3>1, <3>2 DEF Good
  <2>9. Ends(d, precommitInRound(d))
    BY <2>1, <2>3, precommitInRoundIs, ContextFacts DEF Signed
  <2>10. Outcome(d, precommitInRound(d), n, g, P \cup {x})
    BY <2>1, <2>3, <2>8, <2>9, EndsOutcome DEF Signed
  <2>11. QED
    BY <2>3, <2>5, <2>10, SignedOutcome
<1>4. QED
  BY <1>2, <1>3

(* Every precommit for a block that was sent stands on a polka. *)
LEMMA SentPolka ==
  ASSUME NEW c, NEW n, NEW g, NEW P, Context(g, n), Sound(c, n, g, P),
         NEW y \in Sent(g, c, P), y.t = "precommit", y.b # Nil
  PROVE  CertIn(Sent(g, c, P), y.h, "prevote", y.r, y.b)
<1>1. CASE y \in g.votes
  <2>1. CertIn(g.votes, y.h, "prevote", y.r, y.b)
    BY <1>1 DEF Context
  <2>2. Sent(g, c, P) \in SUBSET Vote /\ g.votes \in SUBSET Sent(g, c, P)
    BY SentVotes DEF Sent
  <2>3. QED
    BY <2>1, <2>2, CertGrows, ContextFacts
<1>2. CASE y \in P \cup c.outVotes
  BY <1>2 DEF Sound, NewOK
<1>3. QED
  BY <1>1, <1>2 DEF Sent

(* A polka of the current round for w releases n from every precommit for  *)
(* anything else: those are of earlier rounds.                             *)
LEMMA PolkaReleases ==
  ASSUME Strict, NEW c, NEW n, NEW g, NEW P, Context(g, n), Sound(c, n, g, P),
         Kept(c, n, Sent(g, c, P)),
         NEW w \in Values, CertIn(Sent(g, c, P), c.height, "prevote", c.round, w),
         NEW y \in Sent(g, c, P), IsPrecommit(y, n, c.height)
  PROVE  y.r <= c.round /\ (y.b = w \/ Released(Sent(g, c, P), y, c.round))
<1> DEFINE S == Sent(g, c, P)
<1>1. S \in SUBSET Vote /\ \A x, z \in S : x.v = z.v /\ Pos(x) = Pos(z) => x = z
  BY SentVotes
<1>2. CertIn(S, y.h, "prevote", y.r, y.b)
  BY SentPolka DEF IsPrecommit
<1> HIDE DEF S
<1>3. Typed(c) /\ y \in Vote
  BY <1>1 DEF Sound, S
<1>4. /\ c.height \in Nat /\ c.round \in Rounds /\ c.round \in Nat /\ c.signed \in Positions
      /\ <<c.height, c.round, 2>> \in Positions /\ y.r \in Nat
  BY <1>3, TypedFacts, Bounds DEF Vote
<1>5. y.r <= c.round
  <2>1. UpToPos(Pos(y), c.signed) /\ Pos(y) \in Positions
    BY <1>3, PosType DEF Sound, Own, IsPrecommit
  <2>2. UpToPos(Pos(y), <<c.height, c.round, 2>>)
    BY <1>4, <2>1, BeforeFacts DEF Kept
  <2>3. Pos(y) = <<c.height, y.r, 2>>
    BY DEF Pos, IsPrecommit, StepOf
  <2>4. QED
    BY <1>4, <2>2, <2>3 DEF UpToPos, Before
<1>6. ASSUME y.b # w PROVE Released(S, y, c.round)
  <2>1. y.r # c.round
    <3>1. ASSUME y.r = c.round PROVE FALSE
      <4>1. CertIn(S, c.height, "prevote", c.round, y.b)
        BY <1>2, <3>1 DEF IsPrecommit
      <4>2. CertIn(S, c.height, "prevote", c.round, w)
        BY DEF S
      <4>3. y.b = w
        BY <1>1, <4>1, <4>2, OnePolka
      <4>4. QED
        BY <1>6, <4>3
    <3>2. QED
      BY <3>1
  <2>2. y.r < c.round
    BY <1>4, <1>5, <2>1
  <2>3. CertIn(S, y.h, "prevote", c.round, w)
    BY DEF S, IsPrecommit
  <2>4. QED
    BY <1>4, <1>6, <2>2, <2>3 DEF Released
<1>7. QED
  BY <1>5, <1>6 DEF S

(* The lock after it moved to w, with the round's precommits X signed. *)
LEMMA MovedKept ==
  ASSUME Strict, NEW c, NEW n, NEW g, NEW P, Context(g, n), Sound(c, n, g, P),
         Kept(c, n, Sent(g, c, P)),
         NEW w \in Values, CertIn(Sent(g, c, P), c.height, "prevote", c.round, w),
         NEW X, Sent(g, c, P) \cup X \in SUBSET Vote, \A x \in X : x.r = c.round /\ x.b = w,
         NEW f, f.height = c.height, f.round = c.round,
         f.signed = <<c.height, c.round, 2>>, f.lockedBlock = w, w # Nil => f.lockedRound = c.round
  PROVE  Kept(f, n, Sent(g, c, P) \cup X)
<1> DEFINE S == Sent(g, c, P)
           T == S \cup X
<1>1. Typed(c)
  BY DEF Sound
<1>2. c.round \in Rounds /\ c.round \in Nat
  BY <1>1, TypedFacts
<1>3. Past(f, c.round)
  BY DEF Past
<1>4. ASSUME NEW y \in T, IsPrecommit(y, n, f.height)
      PROVE  \/ f.lockedBlock = y.b /\ y.r <= f.lockedRound
             \/ \E s \in Rounds : Past(f, s) /\ Released(T, y, s)
  <2>1. CASE y \in X
    BY <1>2, <1>4, <2>1 DEF IsPrecommit
  <2>2. CASE y \in S
    <3>1. y.r <= c.round /\ (y.b = w \/ Released(S, y, c.round))
      BY <1>4, <2>2, PolkaReleases
    <3>2. CASE y.b = w
      BY <1>4, <3>1, <3>2 DEF IsPrecommit
    <3>3. CASE Released(S, y, c.round)
      <4>1. Released(T, y, c.round)
        <5> HIDE DEF S
        <5>1. T \in SUBSET Vote /\ S \in SUBSET T
          BY DEF S
        <5>2. QED
          BY <3>3, <5>1, ReleasedGrows, ContextFacts
      <4>2. QED
        BY <1>2, <1>3, <4>1
    <3>4. QED
      BY <3>1, <3>2, <3>3, Zenon
  <2>3. QED
    BY <1>4, <2>1, <2>2, Zenon
<1>5. QED
  BY <1>4 DEF Kept, UpToPos

(* Only the lock, and the valid block with it, changed. *)
Relocked(c, e) ==
  /\ Typed(e)
  /\ e.height = c.height /\ e.round = c.round /\ e.proposal = c.proposal
  /\ e.votes = c.votes /\ e.signed = c.signed /\ e.panic = c.panic
  /\ e.decided = c.decided /\ e.outProposals = c.outProposals /\ e.outVotes = c.outVotes

LEMMA UnlockedIs ==
  ASSUME NEW c, Typed(c)
  PROVE  Relocked(c, Unlocked(c)) /\ Unlocked(c).lockedBlock = Nil
<1> DEFINE d == Unlocked(c)
<1>1. /\ d.height = c.height /\ d.round = c.round /\ d.proposal = c.proposal /\ d.step = c.step
      /\ d.lockedRound = -1 /\ d.lockedBlock = Nil
      /\ d.validRound = c.validRound /\ d.validBlock = c.validBlock
      /\ d.votes = c.votes /\ d.signed = c.signed /\ d.panic = c.panic
      /\ d.timer = c.timer /\ d.tocks = c.tocks
      /\ d.decided = c.decided /\ d.outProposals = c.outProposals /\ d.outVotes = c.outVotes
      /\ Shape(d)
  <2>1. Shape(c)
    BY DEF Typed
  <2>2. QED
    BY <2>1, Zenon DEF Shape, Unlocked
<1> HIDE DEF d
<1>2. c.round \in Nat
  BY TypedFacts
<1>3. Typed(d)
  BY <1>1, <1>2, NothingTyped DEF Typed
<1>4. QED
  BY <1>1, <1>3 DEF Relocked, d

LEMMA LockedIs ==
  ASSUME NEW c, Typed(c), c.panic = "none", NEW b \in Values, b # Nil
  PROVE  /\ Relocked(c, Locked(c, c.round, b))
         /\ Locked(c, c.round, b).lockedBlock = b /\ Locked(c, c.round, b).lockedRound = c.round
<1> DEFINE d == Locked(c, c.round, b)
<1>1. /\ d.height = c.height /\ d.round = c.round /\ d.proposal = c.proposal /\ d.step = c.step
      /\ d.lockedRound = c.round /\ d.lockedBlock = b
      /\ d.validRound = c.round /\ d.validBlock = b
      /\ d.votes = c.votes /\ d.signed = c.signed /\ d.panic = c.panic
      /\ d.timer = c.timer /\ d.tocks = c.tocks
      /\ d.decided = c.decided /\ d.outProposals = c.outProposals /\ d.outVotes = c.outVotes
      /\ Shape(d)
  <2>1. Shape(c)
    BY DEF Typed
  <2>2. QED
    BY <2>1, Zenon DEF Shape, Locked
<1> HIDE DEF d
<1>2. c.round \in Nat
  BY TypedFacts
<1>3. Typed(d)
  BY <1>1, <1>2 DEF Typed
<1>4. QED
  BY <1>1, <1>3 DEF Relocked, d

LEMMA RelockedSound ==
  ASSUME NEW c, NEW e, NEW n, NEW g, NEW P, Sound(c, n, g, P), Relocked(c, e),
         LockOK(e, Sent(g, c, P))
  PROVE  Sound(e, n, g, P) /\ Sent(g, e, P) = Sent(g, c, P)
<1>1. Sent(g, e, P) = Sent(g, c, P)
  BY DEF Relocked, Sent
<1>2. Held(e, Sent(g, e, P)) /\ Own(e, n, Sent(g, e, P)) /\ DecidedOK(e, Sent(g, e, P))
  BY <1>1 DEF Sound, Relocked, Held, Own, DecidedOK
<1>3. NewOK(e, n, g, P)
  BY <1>1 DEF Sound, Relocked, NewOK
<1>4. QED
  BY <1>1, <1>2, <1>3 DEF Sound, Relocked

(* The record e that has moved its lock to w, on a polka, and precommits. *)
LEMMA MovedOutcome ==
  ASSUME NEW c, NEW e, NEW n, NEW g, NEW P, Context(g, n), Good(c, n, g, P), Here(c, g),
         Relocked(c, e), NEW w \in Values,
         CertIn(Sent(g, c, P), c.height, "prevote", c.round, w),
         e.lockedBlock = w, w # Nil => e.lockedRound = c.round
  PROVE  Outcome(c, signPrecommit(e, n, w), n, g, P)
<1> DEFINE S == Sent(g, c, P)
           x == OwnVote(e, n, "precommit", w)
           d == AddOwnVote(e, n, "precommit", w)
<1>1. /\ e.height = c.height /\ e.round = c.round /\ e.signed = c.signed /\ Typed(e) /\ Typed(c)
      /\ Here(e, g) /\ n \in Correct
  BY DEF Relocked, Here, Good, Sound, Context
<1>2. LockOK(e, S)
  BY <1>1 DEF LockOK
<1>3. Sound(e, n, g, P) /\ Sent(g, e, P) = S
  BY <1>2, RelockedSound DEF Good
<1>4. /\ x \in Vote /\ x.r = c.round /\ x.b = w /\ Pos(x) = <<c.height, c.round, 2>>
  <2>1. StepOf("precommit") = 2
    BY DEF StepOf
  <2>2. e.height <= MaxHeight
    BY <1>1 DEF Here
  <2>3. VoteHere(x, e, n, "precommit", w)
    BY <1>1, <2>2, OwnVoteIs
  <2> HIDE DEF x
  <2>4. QED
    BY <1>1, <2>1, <2>3 DEF VoteHere
<1>5. S \in SUBSET Vote
  BY SentVotes DEF Good
<1>6. Strict => Kept(c, n, S)
  BY DEF Good, Here
<1>7. ASSUME Strict, ~MaySign(e, 2) PROVE Kept(e, n, S)
  <2>1. ~Before(c.signed, <<c.height, c.round, 2>>)
    BY <1>1, <1>7, MaySignIs
  <2>2. e.signed = <<c.height, c.round, 2>>
    BY <1>1, <1>6, <1>7, <2>1 DEF Kept, UpToPos
  <2>3. S \cup {} = S
    OBVIOUS
  <2> HIDE DEF S
  <2>4. Kept(e, n, S \cup {})
    BY <1>1, <1>5, <1>6, <1>7, <2>2, MovedKept, Zenon DEF Good, S
  <2>5. QED
    BY <2>3, <2>4
<1>8. ASSUME Strict, MaySign(e, 2) PROVE Kept(d, n, S \cup {x})
  <2>1. StepOf("precommit") = 2
    BY DEF StepOf
  <2>2. Signed(e, d, x)
    BY <1>1, <1>3, <1>8, <2>1, AddOwnVoteIs DEF Here
  <2> HIDE DEF d, x
  <2>3. /\ d.height = c.height /\ d.round = c.round /\ d.lockedBlock = w
        /\ d.signed = <<c.height, c.round, 2>>
        /\ w # Nil => d.lockedRound = c.round
    BY <1>1, <1>4, <2>2 DEF Signed
  <2>4. S \cup {x} \in SUBSET Vote /\ \A y \in {x} : y.r = c.round /\ y.b = w
    BY <1>4, <1>5
  <2>5. QED
    BY <1>6, <1>8, <2>3, <2>4, MovedKept, Zenon DEF Good
<1>9. w # Nil => CertIn(Sent(g, e, P), e.height, "prevote", e.round, w)
  BY <1>1, <1>3
<1> HIDE DEF S, x, d
<1>10. Outcome(e, signPrecommit(e, n, w), n, g, P)
  BY <1>1, <1>3, <1>7, <1>8, <1>9, signPrecommitGood DEF d, x
<1>11. QED
  BY <1>10 DEF Outcome, Relocked

(* A precommit for nil that leaves the lock. *)
LEMMA NilOutcome ==
  ASSUME NEW c, NEW n, NEW g, NEW P, Context(g, n), Good(c, n, g, P), Here(c, g)
  PROVE  Outcome(c, signPrecommit(c, n, Nil), n, g, P)
<1> DEFINE S == Sent(g, c, P)
           x == OwnVote(c, n, "precommit", Nil)
           d == AddOwnVote(c, n, "precommit", Nil)
<1>1. Typed(c) /\ n \in Correct /\ Sound(c, n, g, P) /\ (Strict => Kept(c, n, S))
  BY DEF Here, Good, Sound, Context
<1>2. x \in Vote /\ x.b = Nil /\ Pos(x) = <<c.height, c.round, 2>>
  <2>1. StepOf("precommit") = 2
    BY DEF StepOf
  <2>2. c.height <= MaxHeight /\ Nil \in Values
    BY NothingTyped DEF Here
  <2>3. VoteHere(x, c, n, "precommit", Nil)
    BY <1>1, <2>2, OwnVoteIs
  <2> HIDE DEF x
  <2>4. QED
    BY <1>1, <2>1, <2>3 DEF VoteHere
<1>3. S \in SUBSET Vote
  BY SentVotes DEF Good
<1>4. ASSUME Strict, MaySign(c, 2) PROVE Kept(d, n, S \cup {x})
  <2>1. StepOf("precommit") = 2
    BY DEF StepOf
  <2>2. Signed(c, d, x)
    BY <1>1, <1>4, <2>1, AddOwnVoteIs, NothingTyped DEF Here
  <2> HIDE DEF d, x, S
  <2>3. /\ d.height = c.height /\ d.round = c.round /\ d.signed = <<c.height, c.round, 2>>
        /\ d.lockedBlock = c.lockedBlock /\ d.lockedRound = c.lockedRound
    BY <1>2, <2>2 DEF Signed
  <2>4. \A s \in Rounds : Past(c, s) => Past(d, s)
    BY <2>3 DEF Past
  <2>5. ASSUME NEW y \in S \cup {x}, IsPrecommit(y, n, d.height)
        PROVE  \/ d.lockedBlock = y.b /\ y.r <= d.lockedRound
               \/ \E s \in Rounds : Past(d, s) /\ Released(S \cup {x}, y, s)
    <3>1. y \in S /\ IsPrecommit(y, n, c.height)
      BY <1>2, <2>3, <2>5 DEF IsPrecommit
    <3>2. CASE c.lockedBlock = y.b /\ y.r <= c.lockedRound
      BY <2>3, <3>2
    <3>3. CASE \E s \in Rounds : Past(c, s) /\ Released(S, y, s)
      <4>1. PICK s \in Rounds : Past(c, s) /\ Released(S, y, s)
        BY <3>3
      <4>2. S \cup {x} \in SUBSET Vote /\ S \in SUBSET (S \cup {x})
        BY <1>2, <1>3
      <4>3. Released(S \cup {x}, y, s)
        BY <4>1, <4>2, ReleasedGrows, ContextFacts
      <4>4. QED
        BY <2>4, <4>1, <4>3
    <3>4. QED
      BY <1>1, <1>4, <3>1, <3>2, <3>3 DEF Kept
  <2>6. QED
    BY <2>3, <2>5 DEF Kept, UpToPos
<1> HIDE DEF S, x, d
<1>5. QED
  BY <1>1, <1>4, signPrecommitGood, NothingTyped DEF S, x, d

LEMMA enterPrecommitGood ==
  ASSUME NEW c, NEW n, NEW g, NEW P, NEW r, Context(g, n), Good(c, n, g, P),
         c.panic = "none" /\ c.round = r => Here(c, g)
  PROVE  Outcome(c, enterPrecommit(c, n, r), n, g, P)
<1> DEFINE c1 == [c EXCEPT !.step = Precommit]
           maj == Maj23(c, "prevote", r)
           b == IF c.proposal.b \in maj THEN c.proposal.b ELSE Nil
<1>1. CASE c.panic # "none" \/ c.round # r \/ c.step >= Precommit
  BY <1>1 DEF enterPrecommit, Outcome
<1>2. CASE ~(c.panic # "none" \/ c.round # r \/ c.step >= Precommit)
  <2>1. Here(c, g) /\ Sound(c, n, g, P) /\ Typed(c) /\ c.round = r
    BY <1>2 DEF Good, Sound
  <2>2. Quiet(c, c1)
    <3>1. Precommit \in NewHeight .. Commit
      BY DEF Precommit, NewHeight, Commit
    <3>2. QED
      BY <2>1, <3>1, SetStep
  <2>3. enterPrecommit(c, n, r) =
          signPrecommit(CASE maj = {Nil} -> Unlocked(c1)
                          [] maj # {Nil} /\ b # Nil -> Locked(c1, r, b)
                          [] OTHER -> c1, n, b)
    BY <1>2 DEF enterPrecommit
  <2> HIDE DEF c1
  <2>4. Good(c1, n, g, P) /\ Here(c1, g) /\ Typed(c1)
    BY <2>1, <2>2, QuietGood DEF Quiet, Here
  <2>5. Sent(g, c1, P) = Sent(g, c, P) /\ c1.height = c.height /\ c1.round = r
    BY <2>1, <2>2 DEF Quiet, Sent
  <2>6. \A e \in maj : e \in Values /\ CertIn(Sent(g, c1, P), c1.height, "prevote", c1.round, e)
    <3>1. Sent(g, c, P) \in SUBSET Vote /\ Real(c.votes, Sent(g, c, P))
      BY <2>1, SentVotes DEF Sound, Held
    <3>2. ASSUME NEW e \in maj PROVE e \in Values /\ CertIn(Sent(g, c, P), c.height, "prevote", r, e)
      BY <2>1, <3>1, MajCert, MajValue, ContextFacts
    <3> HIDE DEF maj
    <3>3. QED
      BY <2>5, <3>2
  <2>7. \A d : Outcome(c1, d, n, g, P) => Outcome(c, d, n, g, P)
    BY <2>2 DEF Outcome, Quiet
  <2>8. CASE maj = {Nil}
    <3>1. b = Nil /\ Nil \in maj
      BY <2>8
    <3>2. enterPrecommit(c, n, r) = signPrecommit(Unlocked(c1), n, Nil)
      BY <2>3, <2>8, <3>1
    <3>3. Relocked(c1, Unlocked(c1)) /\ Unlocked(c1).lockedBlock = Nil
      BY <2>4, UnlockedIs
    <3>4. Outcome(c1, signPrecommit(Unlocked(c1), n, Nil), n, g, P)
      <4> HIDE DEF maj
      <4>1. QED
        BY <2>4, <2>6, <3>1, <3>3, MovedOutcome
    <3>5. QED
      BY <2>7, <3>2, <3>4
  <2>9. CASE maj # {Nil} /\ b # Nil
    <3>1. b \in maj
      BY <2>9
    <3>2. enterPrecommit(c, n, r) = signPrecommit(Locked(c1, r, b), n, b)
      BY <2>3, <2>9
    <3> HIDE DEF maj, b
    <3>3. /\ Relocked(c1, Locked(c1, r, b)) /\ Locked(c1, r, b).lockedBlock = b
          /\ Locked(c1, r, b).lockedRound = c1.round
      BY <2>4, <2>5, <2>6, <2>9, <3>1, LockedIs DEF Here
    <3>4. Outcome(c1, signPrecommit(Locked(c1, r, b), n, b), n, g, P)
      BY <2>4, <2>6, <3>1, <3>3, MovedOutcome
    <3>5. QED
      BY <2>7, <3>2, <3>4
  <2>10. CASE maj # {Nil} /\ b = Nil
    <3>1. enterPrecommit(c, n, r) = signPrecommit(c1, n, Nil)
      BY <2>3, <2>10
    <3>2. Outcome(c1, signPrecommit(c1, n, Nil), n, g, P)
      BY <2>4, NilOutcome
    <3>3. QED
      BY <2>7, <3>1, <3>2
  <2>11. QED
    BY <2>8, <2>9, <2>10
<1>3. QED
  BY <1>1, <1>2

-----------------------------------------------------------------------------
(* Prevotes. *)

LEMMA prevoteInRoundGood ==
  ASSUME NEW c, NEW n, NEW g, NEW P, Context(g, n), Good(c, n, g, P), Here(c, g)
  PROVE  Outcome(c, prevoteInRound(c, n), n, g, P)
<1>1. \/ prevoteInRound(c, n) = enterPrecommit(c, n, c.round)
      \/ prevoteInRound(c, n) = enterPrevoteWait(c)
      \/ prevoteInRound(c, n) = c
  BY DEF prevoteInRound
<1>2. Outcome(c, enterPrecommit(c, n, c.round), n, g, P)
  BY enterPrecommitGood
<1>3. Typed(c) /\ c.panic = "none"
  BY DEF Good, Sound, Here
<1>4. Ends(c, enterPrevoteWait(c)) /\ Ends(c, c)
  BY <1>3, enterPrevoteWaitIs, TypedQuiet DEF Ends
<1>5. Outcome(c, enterPrevoteWait(c), n, g, P) /\ Outcome(c, c, n, g, P)
  BY <1>3, <1>4, EndsOutcome
<1>6. QED
  BY <1>1, <1>2, <1>5

(* What n may prevote: b is nil, or n is released from every precommit of  *)
(* an earlier round for another block.                                     *)
MayPrevote(b, n, g) ==
  Strict /\ b # Nil =>
    \A y \in g.votes : IsPrecommit(y, n, g.h) /\ y.r < g.r /\ y.b # b =>
       \E s \in Rounds : s < g.r /\ Released(g.votes, y, s)

LEMMA signPrevoteGood ==
  ASSUME NEW c, NEW n, NEW g, NEW P, NEW b \in Values,
         Context(g, n), Good(c, n, g, P), Here(c, g), MaySign(c, 1) => MayPrevote(b, n, g)
  PROVE  Outcome(c, signPrevote(c, n, b), n, g, P)
<1> DEFINE x == OwnVote(c, n, "prevote", b)
           d == AddOwnVote(c, n, "prevote", b)
<1>1. StepOf("prevote") = 1
  BY DEF StepOf
<1>2. CASE ~MaySign(c, 1)
  <2>1. signPrevote(c, n, b) = c
    BY <1>1, <1>2 DEF signPrevote
  <2>2. QED
    BY <1>2, <2>1 DEF Outcome, Good, Here
<1>3. CASE MaySign(c, 1)
  <2>1. /\ Typed(c) /\ n \in Correct /\ c.panic = "none" /\ c.height <= MaxHeight
        /\ Sound(c, n, g, P) /\ (Strict => Kept(c, n, Sent(g, c, P)))
    BY DEF Good, Sound, Context, Here
  <2>2. /\ x \in Vote /\ x.v = n /\ x.h = c.height /\ x.r = c.round /\ x.t = "prevote"
        /\ x.b = b /\ Pos(x) = <<c.height, c.round, 1>>
    <3>1. VoteHere(x, c, n, "prevote", b)
      BY <2>1, OwnVoteIs
    <3> HIDE DEF x
    <3>2. QED
      BY <1>1, <3>1 DEF VoteHere
  <2>3. Signed(c, d, x)
    BY <1>1, <1>3, <2>1, AddOwnVoteIs
  <2>4. signPrevote(c, n, b) = Broadcast(prevoteInRound(d, n), x)
    <3>1. d.panic = "none"
      BY <2>1, <2>3 DEF Signed
    <3>2. QED
      BY <1>1, <1>3, <3>1 DEF signPrevote
  <2> HIDE DEF x, d
  <2>5. VoteOK(x, n, g, Sent(g, c, P))
    BY <1>3, <2>2 DEF VoteOK, Here, MayPrevote
  <2>6. Before(c.signed, Pos(x))
    BY <1>3, <2>2, MaySignIs
  <2>7. Sound(d, n, g, P \cup {x})
    BY <2>1, <2>3, <2>5, <2>6, SignSound
  <2>8. Sent(g, d, P \cup {x}) = Sent(g, c, P) \cup {x}
    BY <2>3, SignSent
  <2>9. Strict => Kept(d, n, Sent(g, c, P) \cup {x})
    <3>1. Sent(g, c, P) \cup {x} \in SUBSET Vote
      BY <2>1, <2>2, SentVotes
    <3>2. QED
      BY <2>1, <2>2, <2>3, <2>6, <3>1, PrevoteKept, ContextFacts
  <2>10. Good(d, n, g, P \cup {x})
    BY <2>7, <2>8, <2>9 DEF Good
  <2>11. Here(d, g)
    BY <2>3 DEF Here, Signed
  <2>12. Outcome(d, prevoteInRound(d, n), n, g, P \cup {x})
    BY <2>10, <2>11, prevoteInRoundGood
  <2>13. QED
    BY <2>1, <2>3, <2>4, <2>12, SignedOutcome
<1>4. QED
  BY <1>2, <1>3

(* A validated POL is a polka. *)
LEMMA POLCert ==
  ASSUME PowersGrow, NEW S \in SUBSET Vote, NEW p \in Proposal, Real(p.polVotes, S), validatePOL(p)
  PROVE  CertIn(S, p.h, "prevote", p.polRound, p.b)
<1>1. p.polVotes \in SUBSET Vote
  BY DEF Proposal
<1>2. /\ \A v \in p.polVotes : v.h = p.h /\ v.t = "prevote" /\ v.r = p.polRound /\ v.b = p.b
      /\ Sum(p.polVotes) >= TwoThirdsMajority
  BY DEF validatePOL
<1>3. QED
  BY <1>1, <1>2, RealCert

(* The proposal's POL opens the lock. *)
LEMMA OpenedGood ==
  ASSUME NEW c, NEW n, NEW g, NEW P, Context(g, n), Good(c, n, g, P), Here(c, g),
         c.lockedBlock \notin {Nil, c.proposal.b}, c.proposal.b # Nil, canUnlock(c, c.proposal)
  PROVE  Good(Unlocked(c), n, g, P)
<1> DEFINE S == Sent(g, c, P)
           p == c.proposal
           e == Unlocked(c)
<1>1. Typed(c) /\ Sound(c, n, g, P) /\ c.panic = "none" /\ (Strict => Kept(c, n, S))
  BY DEF Good, Sound, Here
<1>2. Relocked(c, e) /\ e.lockedBlock = Nil
  BY <1>1, UnlockedIs
<1> HIDE DEF e
<1>3. Sound(e, n, g, P) /\ Sent(g, e, P) = S
  <2>1. LockOK(e, S)
    BY <1>2 DEF LockOK
  <2>2. QED
    BY <1>1, <1>2, <2>1, RelockedSound
<1>4. S \in SUBSET Vote
  BY <1>1, SentVotes
<1>5. p \in Proposal /\ p.h = c.height /\ p.r <= c.round
  BY <1>1 DEF Typed
<1>6. CertIn(S, c.height, "prevote", p.polRound, p.b)
  <2>1. Real(p.polVotes, S) /\ validatePOL(p)
    BY <1>1 DEF Sound, Held, canUnlock
  <2> HIDE DEF S
  <2>2. QED
    BY <1>4, <1>5, <2>1, POLCert, ContextFacts
<1>7. /\ p.polRound \in Rounds /\ p.polRound < c.round /\ c.lockedRound < p.polRound
      /\ p.polRound \in Nat /\ c.lockedRound \in Int
  <2>1. c.round \in Rounds /\ c.round \in Nat /\ MaxRound \in Nat
    BY <1>1, TypedFacts, Bounds
  <2>2. c.lockedRound \in Int
    BY <1>1, <2>1 DEF Typed
  <2>3. p.polRound \in Int /\ p.r \in Nat
    BY <1>5 DEF Proposal
  <2>4. p.polRound >= 0 /\ p.polRound > c.lockedRound /\ p.polRound < p.r
    BY DEF canUnlock
  <2>5. QED
    BY <1>5, <2>1, <2>2, <2>3, <2>4 DEF Rounds
<1>8. ASSUME Strict PROVE Kept(e, n, S)
  <2>1. e.height = c.height /\ e.round = c.round /\ e.signed = c.signed
    BY <1>2 DEF Relocked
  <2>2. \A s \in Rounds : Past(c, s) => Past(e, s)
    BY <2>1 DEF Past
  <2>3. Past(e, p.polRound)
    BY <1>7, <2>1 DEF Past
  <2>4. ASSUME NEW y \in S, IsPrecommit(y, n, e.height)
        PROVE  \E s \in Rounds : Past(e, s) /\ Released(S, y, s)
    <3>1. CASE c.lockedBlock = y.b /\ y.r <= c.lockedRound
      <4>1. y.r \in Nat
        BY <1>4, <2>4, Bounds DEF Vote
      <4>2. y.r < p.polRound
        BY <1>7, <3>1, <4>1
      <4>3. p.b # y.b /\ p.b \in Values
        BY <1>5, <3>1 DEF Proposal
      <4>4. CertIn(S, y.h, "prevote", p.polRound, p.b)
        BY <1>6, <2>1, <2>4 DEF IsPrecommit
      <4>5. Released(S, y, p.polRound)
        BY <1>7, <4>2, <4>3, <4>4 DEF Released
      <4>6. QED
        BY <1>7, <2>3, <4>5
    <3>2. CASE \E s \in Rounds : Past(c, s) /\ Released(S, y, s)
      BY <2>2, <3>2
    <3>3. QED
      BY <1>1, <1>8, <2>1, <2>4, <3>1, <3>2 DEF Kept
  <2>5. UpToPos(e.signed, <<e.height, e.round, 2>>)
    BY <1>1, <1>8, <2>1 DEF Kept
  <2>6. QED
    BY <2>4, <2>5 DEF Kept
<1>9. QED
  BY <1>3, <1>8 DEF Good, e

(* A polka of an earlier round does not depend on this handler's votes. *)
LEMMA ReleasedBefore ==
  ASSUME NEW c, NEW n, NEW g, NEW P, Context(g, n), Sound(c, n, g, P),
         NEW y, NEW s, s # g.r, Released(Sent(g, c, P), y, s)
  PROVE  Released(g.votes, y, s)
<1>1. PICK b \in Values : b # y.b /\ CertIn(Sent(g, c, P), y.h, "prevote", s, b)
  BY DEF Released
<1>2. g.votes \subseteq Sent(g, c, P)
  BY DEF Sent
<1>3. \A x \in Sent(g, c, P) : x.r = s => x \in g.votes
  BY DEF Sound, NewOK, Sent
<1>4. CertIn(g.votes, y.h, "prevote", s, b)
  BY <1>1, <1>2, <1>3, CertLocal
<1>5. QED
  BY <1>1, <1>4 DEF Released

(* No lock on another block: the rules allow the prevote. *)
LEMMA FreeToPrevote ==
  ASSUME NEW c, NEW n, NEW g, NEW P, NEW b, Context(g, n), Good(c, n, g, P), Here(c, g),
         c.lockedBlock \in {Nil, b}, MaySign(c, 1)
  PROVE  MayPrevote(b, n, g)
<1>1. SUFFICES ASSUME Strict, b # Nil, NEW y \in g.votes, IsPrecommit(y, n, g.h),
                      y.r < g.r, y.b # b
               PROVE  \E s \in Rounds : s < g.r /\ Released(g.votes, y, s)
  BY DEF MayPrevote
<1>2. /\ Sound(c, n, g, P) /\ Kept(c, n, Sent(g, c, P)) /\ y \in Sent(g, c, P)
      /\ c.height = g.h /\ c.round = g.r /\ Typed(c)
  BY <1>1 DEF Good, Here, Sound, Sent
<1>3. PICK s \in Rounds : Past(c, s) /\ Released(Sent(g, c, P), y, s)
  BY <1>1, <1>2 DEF Kept, IsPrecommit
<1>4. c.signed # <<c.height, c.round, 2>>
  <2>1. c.height \in Nat /\ c.round \in Nat
    BY <1>2, TypedFacts
  <2>2. QED
    BY <2>1 DEF MaySign
<1>5. s < g.r
  BY <1>2, <1>3, <1>4 DEF Past
<1>6. s # g.r
  BY <1>2, <1>5, TypedFacts, Bounds
<1>7. QED
  BY <1>2, <1>3, <1>5, <1>6, ReleasedBefore

LEMMA enterPrevoteGood ==
  ASSUME NEW c, NEW n, NEW g, NEW P, NEW r, Context(g, n), Good(c, n, g, P),
         c.panic = "none" /\ c.round = r => Here(c, g)
  PROVE  Outcome(c, enterPrevote(c, n, r), n, g, P)
<1> DEFINE c1 == [c EXCEPT !.step = Prevote]
           p == c.proposal
           opens == c.lockedBlock \notin {Nil, p.b} /\ p.b # Nil /\ canUnlock(c, p)
           free == opens \/ c.lockedBlock \in {Nil, p.b}
           e == IF opens THEN Unlocked(c1) ELSE c1
           b == IF free THEN p.b ELSE Nil
<1>1. CASE c.panic # "none" \/ c.round # r \/ c.step >= Prevote
  BY <1>1 DEF enterPrevote, Outcome
<1>2. CASE ~(c.panic # "none" \/ c.round # r \/ c.step >= Prevote)
  <2>1. Here(c, g) /\ Typed(c)
    BY <1>2 DEF Good, Sound
  <2>2. Quiet(c, c1)
    <3>1. Prevote \in NewHeight .. Commit
      BY DEF Prevote, NewHeight, Commit
    <3>2. QED
      BY <2>1, <3>1, SetStep
  <2>3. enterPrevote(c, n, r) = signPrevote(e, n, b)
    BY <1>2 DEF enterPrevote
  <2> HIDE DEF c1
  <2>4. Good(c1, n, g, P) /\ Here(c1, g) /\ Typed(c1)
    BY <2>1, <2>2, QuietGood DEF Quiet, Here
  <2>5. c1.proposal = p /\ c1.lockedBlock = c.lockedBlock /\ c1.lockedRound = c.lockedRound
    BY <2>2 DEF Quiet
  <2>6. b \in Values
    BY <2>1, NothingTyped DEF Typed, Proposal
  <2>7. Good(e, n, g, P) /\ Here(e, g) /\ (free => e.lockedBlock \in {Nil, p.b})
        /\ (\A d : Outcome(e, d, n, g, P) => Outcome(c, d, n, g, P))
    <3>1. CASE opens
      <4>1. canUnlock(c1, c1.proposal)
        BY <2>5, <3>1 DEF canUnlock
      <4>2. Good(Unlocked(c1), n, g, P)
        BY <2>4, <2>5, <3>1, <4>1, OpenedGood
      <4>3. Relocked(c1, Unlocked(c1)) /\ Unlocked(c1).lockedBlock = Nil
        BY <2>4, UnlockedIs
      <4>4. Here(Unlocked(c1), g)
        BY <2>4, <4>3 DEF Here, Relocked
      <4>5. \A d : Outcome(Unlocked(c1), d, n, g, P) => Outcome(c, d, n, g, P)
        BY <2>2, <4>3 DEF Outcome, Quiet, Relocked
      <4>6. QED
        BY <3>1, <4>2, <4>3, <4>4, <4>5
    <3>2. CASE ~opens
      <4>1. \A d : Outcome(c1, d, n, g, P) => Outcome(c, d, n, g, P)
        BY <2>2 DEF Outcome, Quiet
      <4>2. QED
        BY <2>4, <2>5, <3>2, <4>1
    <3>3. QED
      BY <3>1, <3>2
  <2>8. MaySign(e, 1) => MayPrevote(b, n, g)
    <3>1. CASE free
      <4>1. b = p.b /\ e.lockedBlock \in {Nil, b}
        BY <2>7, <3>1
      <4> HIDE DEF e, b
      <4>2. QED
        BY <2>7, <4>1, FreeToPrevote
    <3>2. CASE ~free
      BY <3>2 DEF MayPrevote
    <3>3. QED
      BY <3>1, <3>2
  <2> HIDE DEF e, b
  <2>9. Outcome(e, signPrevote(e, n, b), n, g, P)
    BY <2>6, <2>7, <2>8, signPrevoteGood
  <2>10. QED
    BY <2>3, <2>7, <2>9
<1>3. QED
  BY <1>1, <1>2

-----------------------------------------------------------------------------
(* Proposals and rounds. *)
LEMMA BlockMade ==
  ASSUME NEW h \in Heights, NEW r \in Rounds, Proposer[<<h, r>>] \notin Faulty,
         <<h, r>> \notin CreateFails
  PROVE  <<h, r, 0>> \in Blocks
<1>1. <<h, r, 0>> \in BlocksOf(h, r)
  BY DEF BlocksOf
<1>2. BlocksOf(h, r) \in {BlocksOf(k, q) : k \in Heights, q \in Rounds}
  OBVIOUS
<1>3. QED
  BY <1>1, <1>2 DEF Blocks

(* n signs and stores its own proposal p. *)
LEMMA ProposedGood ==
  ASSUME NEW c, NEW n, NEW g, NEW P, Context(g, n), Good(c, n, g, P), Here(c, g), MaySign(c, 0),
         NEW p \in Proposal, p.b # Nil, p.h = c.height, p.r = c.round,
         Real(p.polVotes, Sent(g, c, P))
  PROVE  LET e == [c EXCEPT !.signed = <<c.height, c.round, 0>>,
                            !.proposal = p, !.outProposals = {p}]
         IN  Good(e, n, g, P) /\ Here(e, g)
<1> DEFINE e == [c EXCEPT !.signed = <<c.height, c.round, 0>>,
                          !.proposal = p, !.outProposals = {p}]
           S == Sent(g, c, P)
<1>1. Typed(c) /\ Sound(c, n, g, P) /\ c.panic = "none" /\ (Strict => Kept(c, n, S))
  BY DEF Good, Sound, Here
<1>2. Shape(c)
  BY <1>1 DEF Typed
<1>3. /\ e.height = c.height /\ e.round = c.round /\ e.proposal = p /\ e.step = c.step
      /\ e.lockedRound = c.lockedRound /\ e.lockedBlock = c.lockedBlock
      /\ e.validRound = c.validRound /\ e.validBlock = c.validBlock
      /\ e.votes = c.votes /\ e.signed = <<c.height, c.round, 0>> /\ e.panic = c.panic
      /\ e.timer = c.timer /\ e.tocks = c.tocks
      /\ e.started = c.started /\ e.decided = c.decided
      /\ e.outProposals = {p} /\ e.outVotes = c.outVotes
      /\ Shape(e)
  BY <1>2, Zenon DEF Shape
<1> HIDE DEF e
<1>4. /\ c.height \in Nat /\ c.round \in Nat /\ c.signed \in Positions /\ e.signed \in Positions
      /\ <<c.height, c.round, 2>> \in Positions
  <2>1. /\ c.height \in Nat /\ c.round \in Nat /\ c.signed \in Positions
        /\ \A s \in Nat : <<c.height, c.round, s>> \in Positions
    BY <1>1, TypedFacts
  <2>2. 0 \in Nat /\ 2 \in Nat
    OBVIOUS
  <2>3. QED
    BY <1>3, <2>1, <2>2, Zenon
<1>5. Typed(e)
  <2>1. e.signed \in Nat \X Nat \X Nat
    BY <1>4 DEF Positions
  <2>2. e.proposal.r <= e.round
    BY <1>3, <1>4
  <2>3. e.proposal.h = e.height /\ e.proposal \in Proposal /\ e.outProposals \subseteq Proposal
        /\ e.panic = "none"
    BY <1>1, <1>3
  <2>4. QED
    BY <1>1, <1>3, <2>1, <2>2, <2>3 DEF Typed
<1>6. Sent(g, e, P) = S
  BY <1>3 DEF Sent
<1>7. Before(c.signed, e.signed) /\ Before(e.signed, <<c.height, c.round, 2>>)
  <2>1. Before(c.signed, e.signed)
    BY <1>3, MaySignIs
  <2>2. Before(<<c.height, c.round, 0>>, <<c.height, c.round, 2>>)
    BY SMTT(60) DEF Before
  <2>3. QED
    BY <1>3, <2>1, <2>2
<1>8. Held(e, S)
  BY <1>1, <1>3 DEF Sound, Held
<1>9. Own(e, n, S)
  <2>1. ASSUME NEW x \in S, x.v = n PROVE UpToPos(Pos(x), e.signed)
    <3>1. Pos(x) \in Positions
      BY <1>1, SentVotes, PosType
    <3>2. UpToPos(Pos(x), c.signed)
      BY <1>1, <2>1 DEF Sound, Own
    <3>3. QED
      BY <1>4, <1>7, <3>1, <3>2, BeforeFacts DEF UpToPos
  <2>2. QED
    BY <1>1, <2>1 DEF Sound, Own
<1>10. LockOK(e, S) /\ DecidedOK(e, S)
  BY <1>1, <1>3 DEF Sound, LockOK, DecidedOK
<1>11. NewOK(e, n, g, P)
  <2>1. g.signed \in Positions /\ UpToPos(g.signed, c.signed)
    BY <1>1 DEF Sound, NewOK, Context
  <2>2. UpToPos(g.signed, e.signed)
    BY <1>4, <1>7, <2>1, BeforeFacts DEF UpToPos
  <2>3. QED
    BY <1>1, <1>3, <1>6, <2>2 DEF Sound, NewOK
<1>12. ASSUME Strict PROVE Kept(e, n, S)
  <2>1. c.signed # <<c.height, c.round, 2>>
    <3> DEFINE q == <<c.height, c.round, 2>>
    <3>1. q \in Positions /\ Before(c.signed, e.signed) /\ Before(e.signed, q)
      BY <1>4, <1>7
    <3> HIDE DEF q
    <3>2. Before(c.signed, q) /\ ~Before(q, q)
      BY <1>4, <3>1, BeforeFacts DEF UpToPos
    <3>3. QED
      BY <3>2 DEF q
  <2>2. \A s \in Rounds : Past(c, s) => Past(e, s)
    BY <1>3, <2>1 DEF Past
  <2>3. UpToPos(e.signed, <<e.height, e.round, 2>>)
    BY <1>3, <1>7 DEF UpToPos
  <2>4. Kept(c, n, S)
    BY <1>1, <1>12
  <2> HIDE DEF S
  <2>5. QED
    BY <1>3, <2>2, <2>3, <2>4 DEF Kept
<1>13. Good(e, n, g, P)
  BY <1>5, <1>6, <1>8, <1>9, <1>10, <1>11, <1>12 DEF Good, Sound
<1>14. Here(e, g)
  BY <1>3 DEF Here
<1>15. QED
  BY <1>13, <1>14 DEF e

(* Where a handler that enters round r of c's height may end. *)
Arrives(c, d, r) ==
  d.panic = "none" => \/ d.height = c.height /\ d.round = r
                      \/ d.height = c.height + 1 /\ d.round = 0

LEMMA createAndSendProposalGood ==
  ASSUME NEW c, NEW n, NEW g, NEW P, Context(g, n), Good(c, n, g, P), Here(c, g),
         Proposer[<<c.height, c.round>>] = n
  PROVE  LET d == createAndSendProposal(c, n)
         IN  Good(d, n, g, P) /\ Arrives(c, d, c.round)
<1> DEFINE block == CASE c.validBlock # Nil -> c.validBlock
                      [] c.validBlock = Nil /\ c.lockedBlock # Nil -> c.lockedBlock
                      [] OTHER -> IF <<c.height, c.round>> \in CreateFails THEN Nil
                                  ELSE <<c.height, c.round, 0>>
           pv == IF c.validRound >= 0 THEN VoteSet(c, "prevote", c.validRound) ELSE {}
           p == [h |-> c.height, r |-> c.round, b |-> block, polRound |-> c.validRound,
                 polVotes |-> pv]
           e == [c EXCEPT !.signed = <<c.height, c.round, 0>>,
                          !.proposal = p, !.outProposals = {p}]
<1>1. CASE block = Nil \/ ~MaySign(c, 0)
  <2>1. createAndSendProposal(c, n) = c
    BY <1>1 DEF createAndSendProposal
  <2>2. QED
    BY <2>1 DEF Arrives
<1>2. CASE ~(block = Nil \/ ~MaySign(c, 0))
  <2>1. createAndSendProposal(c, n) = enterPrevote(e, n, c.round)
    BY <1>2 DEF createAndSendProposal
  <2>2. Typed(c) /\ Sound(c, n, g, P) /\ c.height <= MaxHeight
    BY DEF Good, Sound, Here
  <2>3. c.height \in Heights /\ c.round \in Rounds /\ c.height \in Nat /\ c.round \in Nat
    <3>1. c.height \in 1 .. MaxHeight + 1
      BY <2>2 DEF Typed
    <3>2. QED
      BY <2>2, <3>1, TypedFacts, Bounds DEF Heights
  <2>4. block \in Values
    <3>1. c.validBlock \in Values /\ c.lockedBlock \in Values /\ Nil \in Values
      BY <2>2, NothingTyped DEF Typed
    <3>2. <<c.height, c.round>> \notin CreateFails => <<c.height, c.round, 0>> \in Values
      <4>1. Proposer[<<c.height, c.round>>] \notin Faulty
        BY DEF Context, Correct
      <4>2. QED
        BY <2>3, <4>1, BlockMade DEF Values
    <3>3. QED
      BY <3>1, <3>2
  <2>5. pv \in SUBSET Vote /\ Real(pv, Sent(g, c, P))
    BY <2>2 DEF VoteSet, Typed, Sound, Held, Real
  <2>6. c.validRound \in Int
    BY <2>2, TypedFacts
  <2> HIDE DEF block, pv
  <2>7. p \in Proposal /\ p.b # Nil /\ p.h = c.height /\ p.r = c.round /\ p.polVotes = pv
    BY <1>2, <2>3, <2>4, <2>5, <2>6 DEF Proposal
  <2> HIDE DEF p
  <2>8. Good(e, n, g, P) /\ Here(e, g)
    <3>1. Real(p.polVotes, Sent(g, c, P)) /\ MaySign(c, 0)
      BY <1>2, <2>5, <2>7
    <3>2. QED
      BY <2>7, <3>1, ProposedGood, Zenon
  <2> HIDE DEF e
  <2>9. Outcome(e, enterPrevote(e, n, c.round), n, g, P)
    BY <2>8, enterPrevoteGood
  <2>10. QED
    BY <2>1, <2>8, <2>9 DEF Outcome, Arrives, Here
<1>3. QED
  BY <1>1, <1>2

(* c moves on to a later round, or enters its round again. *)
Advanced(c, d) ==
  /\ Typed(d) /\ d.round >= c.round /\ d.height = c.height
  /\ d.proposal \in {c.proposal, NoProposal}
  /\ d.lockedRound = c.lockedRound /\ d.lockedBlock = c.lockedBlock
  /\ d.votes = c.votes /\ d.signed = c.signed /\ d.panic = c.panic
  /\ d.decided = c.decided /\ d.outProposals = c.outProposals /\ d.outVotes = c.outVotes

LEMMA AdvancedGood ==
  ASSUME NEW c, NEW d, NEW n, NEW g, NEW P, Good(c, n, g, P), Advanced(c, d)
  PROVE  Good(d, n, g, P)
<1> DEFINE S == Sent(g, c, P)
<1>1. Sent(g, d, P) = S
  BY DEF Advanced, Sent
<1>2. Held(d, S)
  BY NoProposalReal DEF Good, Sound, Advanced, Held
<1>3. Own(d, n, S) /\ LockOK(d, S) /\ DecidedOK(d, S)
  BY DEF Good, Sound, Advanced, Own, LockOK, DecidedOK
<1>4. NewOK(d, n, g, P)
  BY <1>1 DEF Good, Sound, Advanced, NewOK
<1>5. Typed(c) /\ Typed(d)
  BY DEF Good, Sound, Advanced
<1>6. ASSUME Strict, d.panic = "none" PROVE Kept(d, n, S)
  <2>1. Kept(c, n, S)
    BY <1>6 DEF Good, Advanced
  <2>2. /\ c.round \in Nat /\ d.round \in Nat /\ c.height \in Nat /\ d.height = c.height
        /\ d.round >= c.round /\ d.signed = c.signed /\ c.signed \in Positions
    BY <1>5, TypedFacts DEF Advanced
  <2>3. \A s \in Rounds : Past(c, s) => Past(d, s)
    BY <2>2, Bounds DEF Past
  <2>4. UpToPos(d.signed, <<d.height, d.round, 2>>)
    <3>1. UpToPos(c.signed, <<c.height, c.round, 2>>)
      BY <2>1 DEF Kept
    <3>2. UpToPos(<<c.height, c.round, 2>>, <<d.height, d.round, 2>>)
      BY <2>2 DEF UpToPos, Before
    <3>3. QED
      BY <1>5, <2>2, <3>1, <3>2, BeforeFacts, TypedFacts
  <2>5. d.lockedBlock = c.lockedBlock /\ d.lockedRound = c.lockedRound
    BY DEF Advanced
  <2> HIDE DEF S
  <2>6. QED
    BY <2>1, <2>2, <2>3, <2>4, <2>5 DEF Kept
<1>7. QED
  BY <1>1, <1>2, <1>3, <1>4, <1>5, <1>6 DEF Good, Sound

LEMMA enterNewRoundGood ==
  ASSUME NEW c, NEW n, NEW g, NEW P, NEW r \in Rounds, Context(g, n), Good(c, n, g, P),
         c.height <= MaxHeight, g.h = c.height, g.r = r
  PROVE  LET d == enterNewRound(c, n, r)
         IN  Good(d, n, g, P) /\ (r >= c.round => Arrives(c, d, r))
<1> DEFINE c1 == [c EXCEPT !.round = r, !.proposal = NoProposal,
                           !.validRound = IF r = 0 THEN -1 ELSE @,
                           !.validBlock = IF r = 0 THEN Nil ELSE @,
                           !.step = Propose]
           c2 == ScheduleTimeout(c1, Propose)
<1>1. Typed(c) /\ r \in Nat /\ c.round \in Nat /\ MaxRound \in Nat
  BY TypedFacts, Bounds DEF Good, Sound
<1>2. CASE c.panic # "none" \/ r < c.round
  <2>1. enterNewRound(c, n, r) = c
    BY <1>2 DEF enterNewRound
  <2>2. r >= c.round => c.panic # "none"
    BY <1>1, <1>2
  <2>3. QED
    BY <2>1, <2>2 DEF Arrives
<1>3. CASE ~(c.panic # "none" \/ r < c.round)
  <2>1. enterNewRound(c, n, r) =
          IF Proposer[<<c.height, r>>] = n THEN createAndSendProposal(c2, n) ELSE c2
    BY <1>3 DEF enterNewRound
  <2>2. Shape(c)
    BY <1>1 DEF Typed
  <2>3. /\ c1.height = c.height /\ c1.round = r /\ c1.proposal = NoProposal /\ c1.step = Propose
        /\ c1.lockedRound = c.lockedRound /\ c1.lockedBlock = c.lockedBlock
        /\ c1.validRound = (IF r = 0 THEN -1 ELSE c.validRound)
        /\ c1.validBlock = (IF r = 0 THEN Nil ELSE c.validBlock)
        /\ c1.votes = c.votes /\ c1.signed = c.signed /\ c1.panic = c.panic
        /\ c1.timer = c.timer /\ c1.tocks = c.tocks
        /\ c1.started = c.started /\ c1.decided = c.decided
        /\ c1.outProposals = c.outProposals /\ c1.outVotes = c.outVotes
        /\ Shape(c1)
    BY <2>2, Zenon DEF Shape
  <2> HIDE DEF c1
  <2>4. Typed(c1)
    <3>1. Propose \in NewHeight .. Commit
      BY DEF Propose, NewHeight, Commit
    <3>2. /\ c.lockedRound \in -1 .. c.round /\ c.validRound \in -1 .. c.round
          /\ c.validBlock \in Values /\ (c.validRound = -1 <=> c.validBlock = Nil)
      BY <1>1 DEF Typed
    <3>3. c1.lockedRound \in -1 .. r /\ c1.validRound \in -1 .. r
      BY <1>1, <1>3, <2>3, <3>2
    <3>4. c1.validBlock \in Values /\ (c1.validRound = -1 <=> c1.validBlock = Nil)
      BY <2>3, <3>2, NothingTyped
    <3>5. c1.proposal \in Proposal /\ c1.proposal.b = Nil
      BY <2>3, NothingTyped
    <3>6. QED
      BY <1>1, <1>3, <2>3, <3>1, <3>3, <3>4, <3>5 DEF Typed
  <2>5. Advanced(c, c1)
    BY <1>1, <1>3, <2>3, <2>4 DEF Advanced
  <2>6. Quiet(c1, c2)
    BY <2>4, ScheduleQuiet
  <2>7. Good(c2, n, g, P)
    BY <2>5, <2>6, AdvancedGood, QuietGood
  <2>8. Here(c2, g) /\ c2.height = c.height /\ c2.round = r
    BY <1>3, <2>3, <2>6 DEF Here, Quiet
  <2> HIDE DEF c2
  <2>9. CASE Proposer[<<c.height, r>>] = n
    <3>1. Good(createAndSendProposal(c2, n), n, g, P)
          /\ Arrives(c2, createAndSendProposal(c2, n), c2.round)
      BY <2>7, <2>8, <2>9, createAndSendProposalGood
    <3>2. QED
      BY <2>1, <2>8, <2>9, <3>1 DEF Arrives
  <2>10. CASE Proposer[<<c.height, r>>] # n
    BY <2>1, <2>7, <2>8, <2>10 DEF Arrives
  <2>11. QED
    BY <2>9, <2>10
<1>4. QED
  BY <1>2, <1>3

-----------------------------------------------------------------------------
(* The handlers of votes. *)

(* The round a handler votes in: votes of a later round lift it there. *)
RoundFor(c, vote) == IF vote.r > c.round THEN vote.r ELSE c.round

LEMMA EnteredHere ==
  ASSUME NEW c, NEW d, NEW g, NEW r \in Nat, c.height <= MaxHeight, g.h = c.height, g.r = r,
         r # 0, Arrives(c, d, r), d.panic = "none", d.round = r
  PROVE  Here(d, g)
BY DEF Arrives, Here

LEMMA handlePrevoteGood ==
  ASSUME NEW c, NEW n, NEW g, NEW P, NEW vote \in Vote, Context(g, n), Good(c, n, g, P),
         c.panic = "none", c.height <= MaxHeight, g.h = c.height, g.r = RoundFor(c, vote)
  PROVE  Good(handlePrevote(c, n, vote), n, g, P)
<1> DEFINE c1 == enterNewRound(c, n, vote.r)
<1>1. Typed(c) /\ c.round \in Nat /\ vote.r \in Rounds /\ vote.r \in Nat
  BY TypedFacts, Bounds DEF Good, Sound, Vote
<1>2. CASE vote.r > c.round /\ HasTwoThirdsAny(c, "prevote", vote.r)
  <2>1. Good(c1, n, g, P) /\ Arrives(c, c1, vote.r)
    BY <1>1, <1>2, enterNewRoundGood DEF RoundFor
  <2>2. handlePrevote(c, n, vote) = IF Maj23(c1, "prevote", vote.r) # {}
          THEN enterPrecommit(c1, n, vote.r) ELSE enterPrevote(c1, n, vote.r)
    BY <1>2 DEF handlePrevote
  <2> HIDE DEF c1
  <2>3. c1.panic = "none" /\ c1.round = vote.r => Here(c1, g)
    BY <1>1, <1>2, <2>1, EnteredHere DEF RoundFor
  <2>4. Good(enterPrecommit(c1, n, vote.r), n, g, P) /\ Good(enterPrevote(c1, n, vote.r), n, g, P)
    BY <2>1, <2>3, enterPrecommitGood, enterPrevoteGood DEF Outcome
  <2>5. QED
    BY <2>2, <2>4
<1>3. CASE ~(vote.r > c.round /\ HasTwoThirdsAny(c, "prevote", vote.r)) /\ vote.r = c.round
  <2>1. handlePrevote(c, n, vote) = prevoteInRound(c, n)
    BY <1>3 DEF handlePrevote
  <2>2. Here(c, g)
    BY <1>1, <1>3 DEF Here, RoundFor
  <2>3. QED
    BY <2>1, <2>2, prevoteInRoundGood DEF Outcome
<1>4. CASE ~(vote.r > c.round /\ HasTwoThirdsAny(c, "prevote", vote.r)) /\ vote.r # c.round
  BY <1>4 DEF handlePrevote
<1>5. QED
  BY <1>2, <1>3, <1>4

LEMMA SetRound ==
  ASSUME NEW c, Typed(c), NEW r \in Rounds, r >= c.round
  PROVE  Advanced(c, [c EXCEPT !.round = r]) /\ [c EXCEPT !.round = r].round = r
<1> DEFINE d == [c EXCEPT !.round = r]
<1>1. /\ d.height = c.height /\ d.round = r /\ d.proposal = c.proposal /\ d.step = c.step
      /\ d.lockedRound = c.lockedRound /\ d.lockedBlock = c.lockedBlock
      /\ d.validRound = c.validRound /\ d.validBlock = c.validBlock
      /\ d.votes = c.votes /\ d.signed = c.signed /\ d.panic = c.panic
      /\ d.timer = c.timer /\ d.tocks = c.tocks
      /\ d.decided = c.decided /\ d.outProposals = c.outProposals /\ d.outVotes = c.outVotes
      /\ Shape(d)
  <2>1. Shape(c)
    BY DEF Typed
  <2>2. QED
    BY <2>1 DEF Shape
<1> HIDE DEF d
<1>2. c.round \in Nat /\ r \in Nat
  BY TypedFacts, Bounds
<1>3. c.lockedRound \in -1 .. c.round /\ c.validRound \in -1 .. c.round
      /\ (c.proposal.b # Nil => c.proposal.r <= c.round) /\ c.proposal.r \in Nat
  BY DEF Typed, Proposal
<1>4. d.lockedRound \in -1 .. r /\ d.validRound \in -1 .. r
      /\ (d.proposal.b # Nil => d.proposal.r <= r)
  BY <1>1, <1>2, <1>3
<1>5. Typed(d)
  BY <1>1, <1>4 DEF Typed
<1>6. QED
  BY <1>1, <1>5 DEF Advanced, d

LEMMA handlePrecommitGood ==
  ASSUME NEW c, NEW n, NEW g, NEW P, NEW vote \in Vote, Context(g, n), Good(c, n, g, P),
         c.panic = "none", c.height <= MaxHeight, g.h = c.height, g.r = RoundFor(c, vote)
  PROVE  Good(handlePrecommit(c, n, vote), n, g, P)
<1> DEFINE wins == Maj23(c, "precommit", vote.r) \ {Nil} # {}
           any == vote.r > c.round /\ HasTwoThirdsAny(c, "precommit", vote.r)
<1>1. Typed(c) /\ c.round \in Nat /\ c.round \in Rounds /\ vote.r \in Rounds /\ vote.r \in Nat
  BY TypedFacts, Bounds DEF Good, Sound, Vote
<1>2. CASE wins
  <2> DEFINE q == IF vote.r > c.round THEN vote.r ELSE c.round
             d == [c EXCEPT !.round = q]
  <2>1. q \in Rounds /\ q >= c.round /\ vote.r \in 0 .. q
    BY <1>1
  <2>2. handlePrecommit(c, n, vote) = enterCommit(d)
    BY <1>2 DEF handlePrecommit
  <2> HIDE DEF q
  <2>3. Advanced(c, d) /\ d.round = q
    BY <1>1, <2>1, SetRound
  <2> HIDE DEF d
  <2>4. Good(d, n, g, P)
    BY <2>3, AdvancedGood
  <2>5. Maj23(d, "precommit", vote.r) = Maj23(c, "precommit", vote.r)
    BY <2>3 DEF Advanced, Maj23, VotesFor, VoteSet
  <2>6. Typed(d) /\ d.panic = "none" /\ d.height <= MaxHeight
    BY <2>3 DEF Advanced
  <2>7. Ends(d, enterCommit(d))
    BY <1>2, <2>1, <2>3, <2>5, <2>6, enterCommitIs, ContextFacts
  <2>8. QED
    BY <2>2, <2>4, <2>6, <2>7, EndsOutcome DEF Outcome
<1>3. CASE ~wins /\ any
  <2> DEFINE c1 == enterNewRound(c, n, vote.r)
             c2 == enterPrevote(c1, n, vote.r)
  <2>1. Good(c1, n, g, P) /\ Arrives(c, c1, vote.r)
    BY <1>1, <1>3, enterNewRoundGood DEF RoundFor
  <2>2. handlePrecommit(c, n, vote) = enterPrecommit(c2, n, vote.r)
    BY <1>3 DEF handlePrecommit
  <2>3. g.r = vote.r /\ vote.r # 0
    BY <1>1, <1>3 DEF RoundFor
  <2>4. c1.panic # "none" => c2 = c1
    BY DEF enterPrevote
  <2> HIDE DEF c1
  <2>5. c1.panic = "none" /\ c1.round = vote.r => Here(c1, g)
    BY <1>1, <2>1, <2>3, EnteredHere
  <2>6. Outcome(c1, c2, n, g, P)
    BY <2>1, <2>5, enterPrevoteGood
  <2> HIDE DEF c2
  <2>7. ASSUME c2.panic = "none", c2.round = vote.r PROVE Here(c2, g)
    <3>1. c1.panic = "none" /\ c2.height = c1.height /\ c2.round = c1.round
      BY <2>3, <2>4, <2>6, <2>7 DEF Outcome
    <3>2. QED
      BY <2>5, <2>7, <3>1 DEF Here
  <2>8. Good(c2, n, g, P)
    BY <2>6 DEF Outcome
  <2>9. QED
    BY <2>2, <2>7, <2>8, enterPrecommitGood DEF Outcome
<1>4. CASE ~wins /\ ~any /\ vote.r = c.round
  <2>1. handlePrecommit(c, n, vote) = precommitInRound(c)
    BY <1>4 DEF handlePrecommit
  <2>2. QED
    BY <1>1, <2>1, precommitInRoundIs, EndsOutcome, ContextFacts DEF Outcome
<1>5. CASE ~wins /\ ~any /\ vote.r # c.round
  BY <1>5 DEF handlePrecommit
<1>6. QED
  BY <1>2, <1>3, <1>4, <1>5
=============================================================================
