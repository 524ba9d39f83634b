--------------------------- MODULE ConsensusProofs ---------------------------
(***************************************************************************)
(* Proofs about Consensus for every number of members, distribution of     *)
(* votes and length of the lease.  VotesAreHeld is inductive together with *)
(* TypeOK; that majorities intersect is assumed of the configuration.      *)
(***************************************************************************)
EXTENDS Consensus, TLAPS

\* The seconds each prover has for a leaf that names none.
USE SMTT(30), ZenonT(30)

IInv == TypeOK /\ VotesAreHeld

\* The part of VotesAreHeld about one vote.
Held(v, c) == yea[v].who = c /\ yea[v].age <= LeaseBound(c, v)

-----------------------------------------------------------------------------
\* A vote that is held cannot be given to anyone else.
LEMMA HeldIsNotGivenAway ==
    ASSUME IInv, ~ forgot, NEW c \in Member, NEW d \in Member, NEW v \in Member,
           election[c].age < LeaseTime, v \in election[c].votes,
           MaySayYea(v, d)
    PROVE  d = c
<1>1. yea[v].who = c /\ yea[v].age <= LeaseBound(c, v)
  BY DEF IInv, VotesAreHeld
<1>2. LeaseBound(c, v) <= LeaseTime
  BY ConsensusAssumption DEF IInv, TypeOK, LeaseBound, Lapsed
<1>3. ~ (yea[v].age > LeaseTime)
  BY <1>1, <1>2, ConsensusAssumption DEF IInv, TypeOK, LeaseBound, Lapsed
<1>. QED
  BY <1>1, <1>3 DEF MaySayYea

\* The two clocks tick in turn: after v's, c's comes before v's; the clock of
\* a third member changes nothing between them.
LEMMA ClocksAlternate ==
    ASSUME nextTick \in Member, NEW c \in Member, NEW v \in Member, c # v,
           nextTick' = IF nextTick = N - 1 THEN 0 ELSE nextTick + 1
    PROVE  /\ nextTick = v => ~ TicksBefore(c, v) /\ TicksBefore(c, v)'
           /\ nextTick = c => TicksBefore(c, v)
           /\ nextTick # v /\ nextTick # c => TicksBefore(c, v)' = TicksBefore(c, v)
<1>1. N \in Nat \ {0} /\ c \in Nat /\ v \in Nat /\ nextTick \in Nat
      /\ c < N /\ v < N /\ nextTick < N
  BY ConsensusAssumption DEF Member
<1>2. nextTick = v => ~ TicksBefore(c, v) /\ TicksBefore(c, v)'
  BY <1>1 DEF TicksBefore
<1>3. nextTick = c => TicksBefore(c, v)
  BY <1>1 DEF TicksBefore
<1>4. nextTick # v /\ nextTick # c => (TicksBefore(c, v)' <=> TicksBefore(c, v))
  BY <1>1 DEF TicksBefore
<1>. QED
  BY <1>2, <1>3, <1>4 DEF TicksBefore

LEMMA TypeInvariant == IInv /\ [Next]_consensusVars => TypeOK'
<1>. SUFFICES ASSUME IInv, [Next]_consensusVars PROVE TypeOK'
  OBVIOUS
<1>. USE ConsensusAssumption DEF IInv, TypeOK, Lapsed, NoElection
<1>1. CASE Tick
  <2>1. nextTick' \in Member
    BY <1>1 DEF Tick, Member
  <2>2. \A a \in 0..Lapsed : Older(a) \in 0..Lapsed
    BY DEF Older
  <2>. QED
    BY <1>1, <2>1, <2>2 DEF Tick
<1>2. ASSUME NEW c \in Hot, NEW T \in SUBSET Member, Begin(c, T) PROVE TypeOK'
  BY <1>2 DEF Begin, SayYea
<1>3. ASSUME NEW c \in Hot, NEW v \in Member, Yea(v, c) PROVE TypeOK'
  BY <1>3 DEF Yea, SayYea, Answered
<1>4. ASSUME NEW c \in Hot, NEW v \in Member, LateYea(v, c) PROVE TypeOK'
  BY <1>4 DEF LateYea, SayYea
<1>5. ASSUME NEW c \in Hot, NEW v \in Member, Nay(v, c) PROVE TypeOK'
  BY <1>5 DEF Nay, Answered
<1>11. ASSUME NEW c \in Hot, NEW v \in Member, Veto(v, c) PROVE TypeOK'
  BY <1>11 DEF Veto, Answered
<1>6. ASSUME NEW c \in Hot, Win(c) PROVE TypeOK'
  <2>. DEFINE E == [stage : {"none", "asking", "won"}, age : 0..Lapsed,
                    pending : SUBSET Member, votes : SUBSET Member]
              e == [election[c] EXCEPT !.stage = "won"]
  <2>1. e \in E
    <3>1. election[c] \in E
      OBVIOUS
    <3>2. \A r \in E : [r EXCEPT !.stage = "won"] \in E
      BY ZenonT(30)
    <3>. QED
      BY <3>1, <3>2, ZenonT(30)
  <2>2. election' = [election EXCEPT ![c] = e]
    BY <1>6 DEF Win
  <2>. HIDE DEF e
  <2>3. election' \in [Member -> E]
    BY <2>1, <2>2
  <2>. QED
    BY <1>6, <2>3 DEF Win
<1>7. ASSUME NEW c \in Hot, Fail(c) PROVE TypeOK'
  BY <1>7 DEF Fail, YeaAfterFailure
<1>8. ASSUME NEW c \in Hot, StepDown(c) PROVE TypeOK'
  BY <1>8 DEF StepDown
<1>9. ASSUME NEW m \in Member, Restart(m) PROVE TypeOK'
  BY <1>9 DEF Restart
<1>10. CASE UNCHANGED consensusVars
  BY <1>10 DEF consensusVars
<1>. QED
  BY <1>1, <1>2, <1>3, <1>4, <1>5, <1>6, <1>7, <1>8, <1>9, <1>10, <1>11 DEF Next

-----------------------------------------------------------------------------
(* Steps that leave the clocks alone.  What they may do to the votes of an  *)
(* election d: give it none, or only ones just said; and to a vote that is  *)
(* held: nothing, or renew it.                                             *)

LEMMA VoteStep ==
    ASSUME IInv, TypeOK', UNCHANGED nextTick, forgot' = forgot,
           NEW d \in Member,
           election'[d].votes # {} => election'[d].age = election[d].age,
           \A v \in election'[d].votes :
               \/ yea'[v].who = d /\ yea'[v].age = 0
               \/ v \in election[d].votes /\ yea'[v] = yea[v],
           ~ forgot', election'[d].age < LeaseTime
    PROVE  \A v \in election'[d].votes :
               yea'[v].who = d /\ yea'[v].age <= LeaseBound(d, v)'
<1>. TAKE v \in election'[d].votes
<1>0. election'[d].age = election[d].age /\ election[d].age \in Nat /\ v \in Member
  BY DEF IInv, TypeOK, Lapsed
<1>1. LeaseBound(d, v)' = LeaseBound(d, v) /\ LeaseBound(d, v) \in Nat
  BY <1>0 DEF LeaseBound, TicksBefore
<1>2. CASE yea'[v].who = d /\ yea'[v].age = 0
  BY <1>1, <1>2
<1>3. CASE v \in election[d].votes /\ yea'[v] = yea[v]
  BY <1>0, <1>1, <1>3 DEF IInv, VotesAreHeld
<1>. QED
  BY <1>2, <1>3

LEMMA YeaStep ==
    ASSUME IInv, TypeOK', ~ forgot, NEW v \in Member, NEW c \in Member,
           MaySayYea(v, c), SayYea(v, c),
           NEW d \in Member, d # c, election'[d] = election[d],
           election[d].age < LeaseTime
    PROVE  \A w \in election'[d].votes : w \in election[d].votes /\ yea'[w] = yea[w]
<1>. TAKE w \in election'[d].votes
<1>1. w # v
  BY HeldIsNotGivenAway
<1>2. w \in Member
  BY DEF IInv, TypeOK
<1>. QED
  BY <1>1, <1>2 DEF SayYea, IInv, TypeOK

\* The three parts of VotesAreHeld, for one election.
Shape(d) ==
    /\ election[d].stage = "none" => election[d].votes = {}
    /\ election[d].stage = "won" => Majority(election[d].votes)

HeldBy(d) ==
    ~ forgot /\ election[d].age < LeaseTime =>
        \A v \in election[d].votes : Held(v, d)

LEMMA Parts == VotesAreHeld <=> \A d \in Member : Shape(d) /\ HeldBy(d)
  BY DEF VotesAreHeld, Shape, HeldBy, Held

LEMMA PartsNext == VotesAreHeld' <=> \A d \in Member : Shape(d)' /\ HeldBy(d)'
  BY DEF VotesAreHeld, Shape, HeldBy, Held

\* The clock of one member reads the next second.
LEMMA TickHolds ==
    ASSUME IInv, TypeOK', Tick, NEW d \in Member
    PROVE  Shape(d)' /\ HeldBy(d)'
<1>1. /\ election'[d].stage = election[d].stage
      /\ election'[d].votes = election[d].votes
      /\ forgot' = forgot
  BY DEF Tick, IInv, TypeOK
<1>2. Shape(d)'
  BY <1>1, Parts DEF Shape, IInv
<1>3. ASSUME ~ forgot', election'[d].age < LeaseTime, NEW v \in election'[d].votes
      PROVE  Held(v, d)'
  <2>0. v \in Member /\ v \in election[d].votes /\ election[d].stage # "none"
    BY <1>1, <1>3, Parts DEF IInv, TypeOK, Shape
  <2>1. /\ election'[d].age = IF d = nextTick THEN Older(election[d].age)
                               ELSE election[d].age
        /\ yea'[v].age = IF v = nextTick THEN Older(yea[v].age) ELSE yea[v].age
        /\ yea'[v].who = yea[v].who
    BY <2>0 DEF Tick, IInv, TypeOK
  <2>2. /\ LeaseTime \in Nat /\ election[d].age \in Nat /\ yea[v].age \in Nat
        /\ election[d].age <= Lapsed
    BY <2>0, ConsensusAssumption DEF IInv, TypeOK, Lapsed
  <2>3. election[d].age < LeaseTime
    BY <1>3, <2>1, <2>2 DEF Older
  <2>4. Held(v, d)
    BY <1>1, <1>3, <2>0, <2>3, Parts DEF IInv, HeldBy
  <2>5. CASE v = d
    <3>1. ~ TicksBefore(d, v) /\ ~ TicksBefore(d, v)'
      BY <2>5, ConsensusAssumption DEF TicksBefore, IInv, TypeOK, Member
    <3>. QED
      BY <2>1, <2>2, <2>3, <2>4, <2>5, <3>1 DEF Held, LeaseBound, Older
  <2>6. CASE v # d
    <3>1. /\ nextTick = v => ~ TicksBefore(d, v) /\ TicksBefore(d, v)'
          /\ nextTick = d => TicksBefore(d, v)
          /\ nextTick # v /\ nextTick # d => TicksBefore(d, v)' = TicksBefore(d, v)
      BY <2>0, <2>6, ClocksAlternate DEF IInv, TypeOK, Tick
    <3>2. CASE nextTick = v
      BY <2>1, <2>2, <2>3, <2>4, <2>6, <3>1, <3>2 DEF Held, LeaseBound, Older
    <3>3. CASE nextTick = d
      BY <2>1, <2>2, <2>3, <2>4, <2>6, <3>1, <3>3 DEF Held, LeaseBound, Older
    <3>4. CASE nextTick # v /\ nextTick # d
      BY <2>1, <2>4, <3>1, <3>4 DEF Held, LeaseBound
    <3>. QED
      BY <3>2, <3>3, <3>4
  <2>. QED
    BY <2>5, <2>6
<1>4. HeldBy(d)'
  BY <1>3 DEF HeldBy
<1>. QED
  BY <1>2, <1>4

\* A vote is said: by the candidate for itself, in answer, or too late.
LEMMA SayHolds ==
    ASSUME IInv, TypeOK', NEW c \in Member, NEW v \in Member,
           MaySayYea(v, c), SayYea(v, c), UNCHANGED <<nextTick, forgot>>,
           \A d \in Member \ {c} : election'[d] = election[d],
           Shape(c)',
           election'[c].votes \subseteq {v} \cup election[c].votes,
           election'[c].age = election[c].age \/ election'[c].votes \subseteq {v},
           NEW d \in Member
    PROVE  Shape(d)' /\ HeldBy(d)'
<1>1. Shape(d)'
  BY Parts DEF IInv, Shape
<1>2. ASSUME ~ forgot', election'[d].age < LeaseTime
      PROVE  \A w \in election'[d].votes : Held(w, d)'
  <2>1. CASE d # c
    <3>1. \A w \in election'[d].votes : w \in election[d].votes /\ yea'[w] = yea[w]
      BY <1>2, <2>1, YeaStep
    <3>. QED
      BY <1>2, <2>1, <3>1, VoteStep DEF Held
  <2>2. CASE d = c
    <3>1. \A w \in election'[c].votes :
              \/ yea'[w].who = c /\ yea'[w].age = 0
              \/ w \in election[c].votes /\ yea'[w] = yea[w]
      BY DEF SayYea, IInv, TypeOK
    <3>2. CASE election'[c].age = election[c].age
      BY <1>2, <2>2, <3>1, <3>2, VoteStep DEF Held
    <3>3. CASE election'[c].votes \subseteq {v}
      <4>. SUFFICES ASSUME NEW w \in election'[c].votes PROVE Held(w, c)'
        BY <2>2
      <4>1. w = v /\ yea'[w] = [who |-> c, age |-> 0]
        BY <3>3 DEF SayYea, IInv, TypeOK
      <4>2. LeaseBound(c, w)' \in Nat
        BY DEF LeaseBound, TypeOK, Lapsed
      <4>. QED
        BY <4>1, <4>2 DEF Held
    <3>. QED
      BY <3>2, <3>3
  <2>. QED
    BY <2>1, <2>2
<1>. QED
  BY <1>1, <1>2 DEF HeldBy

\* No vote is said, and votes are only dropped.
LEMMA DropHolds ==
    ASSUME IInv, TypeOK', UNCHANGED <<nextTick, forgot>>,
           NEW d \in Member, Shape(d)',
           election'[d].votes # {} => election'[d].age = election[d].age,
           \A v \in election'[d].votes :
               v \in election[d].votes
               /\ (~ forgot /\ election[d].age < LeaseTime => yea'[v] = yea[v])
    PROVE  Shape(d)' /\ HeldBy(d)'
<1>1. ASSUME ~ forgot', election'[d].age < LeaseTime
      PROVE  \A w \in election'[d].votes : Held(w, d)'
  BY <1>1, VoteStep DEF Held
<1>. QED
  BY <1>1 DEF HeldBy

LEMMA HeldInvariant == IInv /\ TypeOK' /\ [Next]_consensusVars => VotesAreHeld'
<1>. SUFFICES ASSUME IInv, TypeOK', [Next]_consensusVars, NEW d \in Member
             PROVE  Shape(d)' /\ HeldBy(d)'
  BY PartsNext
<1>0. Shape(d) /\ HeldBy(d) /\ Hot \subseteq Member
  BY Parts, ConsensusAssumption DEF IInv
<1>1. CASE Tick
  BY <1>1, TickHolds
<1>2. ASSUME NEW c \in Hot, NEW T \in SUBSET Member, Begin(c, T)
      PROVE  Shape(d)' /\ HeldBy(d)'
  <2>1. /\ election'[c] = [stage |-> "asking", age |-> 0, pending |-> T, votes |-> {c}]
        /\ \A e \in Member \ {c} : election'[e] = election[e]
    BY <1>0, <1>2 DEF Begin, IInv, TypeOK
  <2>2. Shape(c)'
    BY <2>1 DEF Shape
  <2>. QED
    BY <1>0, <1>2, <2>1, <2>2, SayHolds DEF Begin
<1>3. ASSUME NEW c \in Hot, NEW v \in Member, Yea(v, c)
      PROVE  Shape(d)' /\ HeldBy(d)'
  <2>1. /\ election'[c].stage = "asking" /\ election'[c].age = election[c].age
        /\ election'[c].votes = election[c].votes \cup {v}
        /\ \A e \in Member \ {c} : election'[e] = election[e]
    BY <1>0, <1>3 DEF Yea, Answered, IInv, TypeOK
  <2>2. Shape(c)'
    BY <2>1 DEF Shape
  <2>. QED
    BY ZenonT(30), <1>0, <1>3, <2>1, <2>2, SayHolds DEF Yea
<1>4. ASSUME NEW c \in Hot, NEW v \in Member, LateYea(v, c)
      PROVE  Shape(d)' /\ HeldBy(d)'
  <2>1. Shape(c)'
    BY <1>0, <1>4, Parts DEF Shape, LateYea, IInv
  <2>. QED
    BY <1>0, <1>4, <2>1, SayHolds DEF LateYea
<1>5. ASSUME NEW c \in Hot, NEW v \in Member, Nay(v, c) \/ Veto(v, c)
      PROVE  Shape(d)' /\ HeldBy(d)'
  <2>1. /\ yea' = yea /\ UNCHANGED <<nextTick, forgot>>
        /\ election'[d].votes \subseteq election[d].votes
        /\ election'[d].age = election[d].age
    BY <1>0, <1>5 DEF Nay, Veto, Answered, IInv, TypeOK
  <2>2. Shape(d)'
    BY <1>0, <1>5 DEF Nay, Veto, Answered, IInv, TypeOK, Shape
  <2>. QED
    BY <2>1, <2>2, DropHolds
<1>6. ASSUME NEW c \in Hot, Win(c) PROVE Shape(d)' /\ HeldBy(d)'
  <2>1. /\ yea' = yea /\ UNCHANGED <<nextTick, forgot>>
        /\ election'[d].votes = election[d].votes
        /\ election'[d].age = election[d].age
        /\ election'[d].stage = IF d = c THEN "won" ELSE election[d].stage
    BY <1>0, <1>6 DEF Win, IInv, TypeOK
  <2>2. Shape(d)'
    BY <1>0, <1>6, <2>1 DEF Win, Succeeds, Shape
  <2>. QED
    BY <2>1, <2>2, DropHolds
<1>7. ASSUME NEW c \in Hot, Fail(c) PROVE Shape(d)' /\ HeldBy(d)'
  <2>1. election'[d] = IF d = c THEN NoElection ELSE election[d]
    BY <1>0, <1>7 DEF Fail, IInv, TypeOK
  <2>2. Shape(d)'
    BY <1>0, <2>1 DEF Shape, NoElection
  <2>3. ASSUME NEW v \in election'[d].votes, ~ forgot, election[d].age < LeaseTime
        PROVE  yea'[v] = yea[v]
    <3>1. d # c /\ v \in election[d].votes /\ v \in Member
      BY <2>1, <2>3 DEF NoElection, IInv, TypeOK
    <3>2. yea[v].who = d
      BY <1>0, <2>3, <3>1 DEF HeldBy, Held
    <3>. QED
      BY <1>7, <3>1, <3>2 DEF Fail, YeaAfterFailure, IInv, TypeOK
  <2>. QED
    BY <1>7, <2>1, <2>2, <2>3, DropHolds DEF Fail, NoElection
<1>8. ASSUME NEW c \in Hot, StepDown(c) PROVE Shape(d)' /\ HeldBy(d)'
  <2>1. /\ yea' = yea /\ UNCHANGED <<nextTick, forgot>>
        /\ election'[d] = IF d = c THEN NoElection ELSE election[d]
    BY <1>0, <1>8 DEF StepDown, IInv, TypeOK
  <2>2. Shape(d)'
    BY <1>0, <2>1 DEF Shape, NoElection
  <2>. QED
    BY <2>1, <2>2, DropHolds DEF NoElection
<1>9. ASSUME NEW m \in Member, Restart(m) PROVE Shape(d)' /\ HeldBy(d)'
  <2>1. election'[d] = IF d = m THEN NoElection ELSE election[d]
    BY <1>9 DEF Restart, IInv, TypeOK
  <2>2. Shape(d)'
    BY <1>0, <2>1 DEF Shape, NoElection
  <2>3. CASE forgot'
    BY <2>2, <2>3 DEF HeldBy
  <2>4. CASE ~ forgot'
    <3>1. forgot' = forgot /\ ~ (yea[m].age <= LeaseTime)
      BY ZenonT(30), <1>9, <2>4 DEF Restart, IInv, TypeOK
    <3>2. ASSUME NEW v \in election'[d].votes, ~ forgot, election[d].age < LeaseTime
          PROVE  yea'[v] = yea[v]
      <4>1. v \in election[d].votes /\ v \in Member
        BY <2>1, <3>2 DEF NoElection, IInv, TypeOK
      <4>2. yea[v].age <= LeaseBound(d, v)
        BY <1>0, <3>2, <4>1 DEF HeldBy, Held
      <4>3. yea[v].age <= LeaseTime
        BY <3>2, <4>1, <4>2, ConsensusAssumption DEF LeaseBound, IInv, TypeOK, Lapsed
      <4>. QED
        BY <1>9, <3>1, <4>1, <4>3 DEF Restart, IInv, TypeOK
    <3>. QED
      BY <1>9, <2>1, <2>2, <3>1, <3>2, DropHolds DEF Restart, NoElection
  <2>. QED
    BY <2>3, <2>4
<1>10. CASE UNCHANGED consensusVars
  <2>1. Shape(d)'
    BY <1>0, <1>10 DEF Shape, consensusVars
  <2>. QED
    BY <1>10, <2>1, DropHolds DEF consensusVars
<1>. QED
  BY <1>1, <1>2, <1>3, <1>4, <1>5, <1>6, <1>7, <1>8, <1>9, <1>10 DEF Next

-----------------------------------------------------------------------------
\* Consensus::yea keeps its promise: votes counted by an election younger
\* than the lease are still held for it.
THEOREM HeldVotes == Spec => [](TypeOK /\ VotesAreHeld)
<1>1. Init => IInv
  <2>. SUFFICES ASSUME Init PROVE IInv
    OBVIOUS
  <2>1. TypeOK
    <3>1. 0 \in Member /\ Lapsed \in 0..Lapsed /\ 0 \in 0..Lapsed
      BY ConsensusAssumption DEF Member, Lapsed
    <3>2. yea \in [Member -> [who : Member \cup {NoOne}, age : 0..Lapsed]]
      BY <3>1 DEF Init
    <3>3. election \in [Member -> [stage : {"none", "asking", "won"},
                                   age : 0..Lapsed, pending : SUBSET Member,
                                   votes : SUBSET Member]]
      BY <3>1 DEF Init, NoElection
    <3>. QED
      BY ZenonT(30), <3>1, <3>2, <3>3 DEF Init, TypeOK
  <2>2. VotesAreHeld
    BY DEF Init, VotesAreHeld, NoElection
  <2>. QED
    BY <2>1, <2>2 DEF IInv
<1>2. IInv /\ [Next]_consensusVars => IInv'
  BY TypeInvariant, HeldInvariant DEF IInv
<1>. QED
  BY <1>1, <1>2, PTL DEF Spec, IInv

LEMMA HeldMeansNoTwins == IInv => NoTwinElections
<1>. SUFFICES ASSUME IInv, NEW c \in Member, NEW d \in Member, c # d, ~ forgot,
                    election[c].stage = "won", election[d].stage = "won",
                    ~ (election[c].age >= LeaseTime), ~ (election[d].age >= LeaseTime)
             PROVE  FALSE
  BY DEF NoTwinElections
<1>1. election[c].age < LeaseTime /\ election[d].age < LeaseTime
  BY ConsensusAssumption DEF IInv, TypeOK, Lapsed
<1>2. Majority(election[c].votes) /\ Majority(election[d].votes)
  BY Parts DEF IInv, Shape
<1>3. PICK v \in election[c].votes \cap election[d].votes : TRUE
  BY <1>2, MajoritiesIntersect DEF IInv, TypeOK
<1>4. yea[v].who = c /\ yea[v].who = d
  BY <1>1, <1>3, Parts DEF IInv, HeldBy, Held
<1>. QED
  BY <1>4

\* Two members are never elected within one lease (repl/consensus.cpp, yea
\* and _electSelf), for every set of members and votes.
THEOREM NoTwins == Spec => []NoTwinElections
  BY HeldVotes, HeldMeansNoTwins, PTL DEF IInv

\* An election is decided on votes still held, except in its last second.
THEOREM DecisionsAreCurrent == Spec => DecidedOnHeldVotes
<1>. DEFINE Step == \A c \in Member :
              election[c].stage = "asking" /\ election'[c].stage = "won" =>
                  \/ forgot \/ election[c].age = LeaseTime
                  \/ \A v \in election[c].votes : yea[v].who = c
<1>1. IInv /\ [Next]_consensusVars => [Step]_consensusVars
  <2>. SUFFICES ASSUME IInv, Next, NEW c \in Member,
                      election[c].stage = "asking", election'[c].stage = "won",
                      ~ forgot, election[c].age # LeaseTime
               PROVE  \A v \in election[c].votes : yea[v].who = c
    OBVIOUS
  <2>0. LeaseTime \in Nat /\ election[c].age \in Nat /\ Hot \subseteq Member
    BY ConsensusAssumption DEF IInv, TypeOK, Lapsed
  <2>1. Win(c)
    <3>1. ~ Tick
      BY DEF Tick, IInv, TypeOK
    <3>2. \A d \in Hot, T \in SUBSET Member : ~ Begin(d, T)
      BY <2>0 DEF Begin, IInv, TypeOK
    <3>3. \A d \in Hot, v \in Member :
              ~ Yea(v, d) /\ ~ LateYea(v, d) /\ ~ Nay(v, d) /\ ~ Veto(v, d)
      BY <2>0 DEF Yea, LateYea, Nay, Veto, Answered, IInv, TypeOK
    <3>4. \A d \in Hot : ~ Fail(d) /\ ~ StepDown(d)
      BY <2>0 DEF Fail, StepDown, NoElection, IInv, TypeOK
    <3>5. \A m \in Member : ~ Restart(m)
      BY DEF Restart, NoElection, IInv, TypeOK
    <3>6. PICK d \in Hot : Win(d)
      BY <3>1, <3>2, <3>3, <3>4, <3>5 DEF Next
    <3>7. d = c
      BY <2>0, <3>6 DEF Win, IInv, TypeOK
    <3>. QED
      BY <3>6, <3>7
  <2>2. election[c].age < LeaseTime
    BY <2>0, <2>1 DEF Win, Succeeds
  <2>. QED
    BY <2>2, Parts DEF IInv, HeldBy, Held
<1>. QED
  BY <1>1, HeldVotes, PTL DEF Spec, IInv, DecidedOnHeldVotes

=============================================================================
