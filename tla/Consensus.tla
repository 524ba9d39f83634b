------------------------------ MODULE Consensus ------------------------------
(***************************************************************************)
(* The votes of a replica set: class Consensus of repl/rs.h and            *)
(* repl/consensus.cpp, all members together.                               *)
(*                                                                         *)
(* A candidate votes for itself, asks the members it thinks may be up, and *)
(* wins with more than half of all votes.  There are no terms: what keeps  *)
(* a member from voting for two candidates is a lease of LeaseTime seconds *)
(* on its last yea, kept in memory and measured by its own clock.  The     *)
(* candidate in turn drops an election that took longer than that.         *)
(*                                                                         *)
(* Here a member may refuse or veto for any reason; Elections adds the     *)
(* reasons.  Clocks run at the same rate and read whole seconds, each with *)
(* its own phase: they tick in turn, always in the same order.             *)
(***************************************************************************)
EXTENDS Naturals, FiniteSets, FiniteSetsExt

CONSTANTS
    N,          \* number of members
    Votes,      \* MemberCfg::votes
    Hot,        \* MemberCfg::potentiallyHot: no arbiter, priority above 0
    LeaseTime   \* 30 in the code

Member == 0..(N - 1)

\* LastYea::who before the first vote.
NoOne == N

Tally(S) == MapThenSumSet(LAMBDA m : Votes[m], S)

totalVotes == Tally(Member)

\* A tally that elects.
Majority(S) == Tally(S) * 2 > totalVotes

ASSUME ConsensusAssumption ==
    /\ N \in Nat \ {0}
    /\ LeaseTime \in Nat \ {0}
    /\ Votes \in [Member -> Nat]
    /\ Hot \subseteq Member

ASSUME MajoritiesIntersect ==
    \A S, T \in SUBSET Member : Majority(S) /\ Majority(T) => S \cap T # {}

\* Ages are kept up to the first second after the lease.
Lapsed == LeaseTime + 1

VARIABLES
    yea,        \* LastYea of each member: for whom, and how long ago
    election,   \* the election each member holds, or what it won
    nextTick,   \* whose clock reads the next second first
    forgot      \* some member restarted during the lease on its vote

consensusVars == <<yea, election, nextTick, forgot>>

NoElection == [stage |-> "none", age |-> 0, pending |-> {}, votes |-> {}]

\* One type invariant: the ages stay within the lease's range.
TypeOK ==
    /\ yea \in [Member -> [who : Member \cup {NoOne}, age : 0..Lapsed]]
    /\ election \in [Member -> [stage : {"none", "asking", "won"},
                                age : 0..Lapsed, pending : SUBSET Member,
                                votes : SUBSET Member]]
    /\ nextTick \in Member
    /\ forgot \in BOOLEAN

Init ==
    /\ yea = [m \in Member |-> [who |-> NoOne, age |-> Lapsed]]
    /\ election = [m \in Member |-> NoElection]
    /\ nextTick = 0
    /\ forgot = FALSE

-----------------------------------------------------------------------------
(* Votes.                                                                  *)

MaySayYeaEarly(v, c) == yea[v].age >= LeaseTime \/ yea[v].who = c

\* Consensus::yea does not throw.
MaySayYea(v, c) == yea[v].age > LeaseTime \/ yea[v].who = c

\* What it records.
SayYea(v, c) == yea' = [yea EXCEPT ![v] = [who |-> c, age |-> 0]]

\* Consensus::electionFailed: the candidate's own vote is free again.
YeaAfterFailure(c) ==
    IF yea[c].who = c THEN [yea EXCEPT ![c].age = Lapsed] ELSE yea

\* _electSelf up to multiCommand: vote for oneself, ask the targets T.
Begin(c, T) ==
    /\ election[c].stage = "none"
    /\ c \notin T
    /\ MaySayYea(c, c)
    /\ SayYea(c, c)
    /\ election' = [election EXCEPT ![c] =
           [stage |-> "asking", age |-> 0, pending |-> T, votes |-> {c}]]
    /\ UNCHANGED <<nextTick, forgot>>

Asked(v, c) == election[c].stage = "asking" /\ v \in election[c].pending

\* The candidate goes on with fewer answers to wait for.
Answered(c, pending, votes) ==
    [election EXCEPT ![c] = [stage |-> "asking", age |-> election[c].age,
                             pending |-> pending, votes |-> votes]]

\* The member says yea and the candidate gets to know.
Yea(v, c) ==
    /\ Asked(v, c)
    /\ MaySayYea(v, c)
    /\ SayYea(v, c)
    /\ election' = Answered(c, election[c].pending \ {v}, election[c].votes \cup {v})
    /\ UNCHANGED <<nextTick, forgot>>

\* The member says yea to a request whose answer nobody reads any more: the
\* candidate timed out, failed or restarted.
LateYea(v, c) ==
    /\ v # c
    /\ MaySayYea(v, c)
    /\ SayYea(v, c)
    /\ UNCHANGED <<election, nextTick, forgot>>

\* A vote of 0, or no answer.
Nay(v, c) ==
    /\ Asked(v, c)
    /\ election' = Answered(c, election[c].pending \ {v}, election[c].votes)
    /\ UNCHANGED <<yea, nextTick, forgot>>

\* A vote of -10000, which no number of votes makes good: what the others
\* still answer only counts for them (LateYea).
Veto(v, c) ==
    /\ Asked(v, c)
    /\ election' = Answered(c, {}, {})
    /\ UNCHANGED <<yea, nextTick, forgot>>

SucceedsLate(c) == Majority(election[c].votes)

\* The tally suffices, and not too much time has passed.
Succeeds(c) ==
    /\ Majority(election[c].votes)
    /\ election[c].age <= LeaseTime

\* multiCommand returned: the candidate goes on to assumePrimary ...
Win(c) ==
    /\ election[c].stage = "asking"
    /\ election[c].pending = {}
    /\ Succeeds(c)
    /\ election' = [election EXCEPT ![c].stage = "won"]
    /\ UNCHANGED <<yea, nextTick, forgot>>

\* ... or gives up.  assumePrimary may fail as well.
Fail(c) ==
    /\ \/ election[c].stage = "asking" /\ election[c].pending = {} /\ ~ Succeeds(c)
       \/ election[c].stage = "won"
    /\ yea' = YeaAfterFailure(c)
    /\ election' = [election EXCEPT ![c] = NoElection]
    /\ UNCHANGED <<nextTick, forgot>>

\* ReplSetImpl::relinquish of the primary that won.
StepDown(c) ==
    /\ election[c].stage = "won"
    /\ election' = [election EXCEPT ![c] = NoElection]
    /\ UNCHANGED <<yea, nextTick, forgot>>

-----------------------------------------------------------------------------
(* Time and restarts.                                                      *)

Older(age) == IF age > LeaseTime THEN age ELSE age + 1

\* time(0) advances on the member whose turn it is.
Tick ==
    /\ yea' = [yea EXCEPT ![nextTick].age = Older(@)]
    /\ election' = [election EXCEPT ![nextTick].age =
                        IF election[nextTick].stage = "none" THEN 0 ELSE Older(@)]
    /\ nextTick' = IF nextTick = N - 1 THEN 0 ELSE nextTick + 1
    /\ UNCHANGED forgot

\* LastYea() of a new process remembers nothing.
Restart(m) ==
    /\ yea' = [yea EXCEPT ![m] = [who |-> NoOne, age |-> Lapsed]]
    /\ election' = [election EXCEPT ![m] = NoElection]
    /\ forgot' = (forgot \/ yea[m].age <= LeaseTime)
    /\ UNCHANGED nextTick

Next ==
    \/ Tick
    \/ \E c \in Hot :
          \/ \E T \in SUBSET Member : Begin(c, T)
          \/ \E v \in Member : Yea(v, c) \/ LateYea(v, c) \/ Nay(v, c) \/ Veto(v, c)
          \/ Win(c)
          \/ Fail(c)
          \/ StepDown(c)
    \/ \E m \in Member : Restart(m)

Spec == Init /\ [][Next]_consensusVars

-----------------------------------------------------------------------------
(* What the leases promise.                                                *)

\* c comes before v in the order in which their clocks will tick next.
TicksBefore(c, v) ==
    \/ nextTick <= c /\ c < v
    \/ c < v /\ v < nextTick
    \/ v < nextTick /\ nextTick <= c

\* How many seconds the lease on a vote has run at most, as its voter counts,
\* when c's election has run for election[c].age as c counts: the voter's
\* clock may be about to be caught up with.
LeaseBound(c, v) == election[c].age + (IF TicksBefore(c, v) THEN 1 ELSE 0)

\* Inductive: while an election is younger than the lease and nobody forgets,
\* the votes it counted are still promised to it.
VotesAreHeld ==
    \A c \in Member :
        /\ election[c].stage = "none" => election[c].votes = {}
        /\ election[c].stage = "won" => Majority(election[c].votes)
        /\ ~ forgot /\ election[c].age < LeaseTime =>
              \A v \in election[c].votes :
                  yea[v].who = c /\ yea[v].age <= LeaseBound(c, v)

\* Two members cannot both be elected within one lease, whatever is lost,
\* late or vetoed, unless a voter restarts: of two that won, one began its
\* election at least LeaseTime ago (Consensus::yea and the time check of
\* _electSelf).
NoTwinElections ==
    \A c, d \in Member :
        /\ c # d /\ ~ forgot
        /\ election[c].stage = "won" /\ election[d].stage = "won"
        => election[c].age >= LeaseTime \/ election[d].age >= LeaseTime

\* An election is decided on votes that its voters still hold: none has voted
\* for anyone else by then.  Only an election decided in the very last second
\* it is allowed may count a vote that has lapsed, because the two clocks read
\* the second at different moments.
DecidedOnHeldVotes ==
    [][\A c \in Member :
          election[c].stage = "asking" /\ election'[c].stage = "won" =>
              \/ forgot \/ election[c].age = LeaseTime
              \/ \A v \in election[c].votes : yea[v].who = c]_consensusVars

=============================================================================
