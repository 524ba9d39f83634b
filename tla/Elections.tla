------------------------------ MODULE Elections ------------------------------
(***************************************************************************)
(* How the members of a replica set choose a primary: repl/manager.cpp,    *)
(* repl/heartbeat.cpp, and the part of repl/consensus.cpp and repl/rs.cpp  *)
(* that decides on votes, vetoes, stepping up and stepping down.           *)
(*                                                                         *)
(* Each member polls the others and keeps what it last heard (hb).  Its    *)
(* manager thread acts on that view: it notes a primary, steps down, asks  *)
(* a primary of lower priority to step down, or holds an election.  While  *)
(* it holds one it does not update its view.  Votes are those of           *)
(* Consensus; time is not counted here: a lease, or the patience of a      *)
(* candidate, may end at any moment.                                       *)
(*                                                                         *)
(* One configuration; no authentication failures; a member that is down is *)
(* one whose links are cut, and restarts in one step.  A poll is answered  *)
(* and noted in one step: what is noted may be old when it is used.        *)
(***************************************************************************)
EXTENDS GTID, FiniteSets, FiniteSetsExt

CONSTANTS
    N, Votes, Hot, \* as in Consensus
    Priority,      \* MemberCfg::priority
    TenSeconds,    \* 10000 ms
    TimeWrap,      \* 2^32: what an unsigned int of milliseconds wraps at
    FirstTime,     \* optime of the entry everyone starts with
    MaxEvents      \* bound on writes, operators' commands and faults

VARIABLES yea, election, nextTick, forgot    \* of Consensus

C == INSTANCE Consensus WITH LeaseTime <- 1

Member == C!Member
None == N

VARIABLES
    state,        \* box: what the member is
    primary,      \* box: whom it takes for primary
    data,         \* last entry: its GTID and time
    incPrimary,   \* the next entry gets a new primarySeqNo
    replicating,  \* the replication threads run
    hb,           \* HeartbeatInfo of each other member
    electable,    \* _electableSet
    busy,         \* busyWithElectSelf
    steppedDown,  \* may not elect itself for now
    sleptLast,
    cut,          \* pairs of members that cannot talk
    events        \* how many of MaxEvents have happened

consensusVars == <<yea, election, nextTick, forgot>>
viewVars == <<hb, electable>>
boxVars == <<state, primary>>
dataVars == <<data, incPrimary, replicating>>
electVars == <<steppedDown, sleptLast>>
netVars == <<cut, events>>
vars == <<consensusVars, boxVars, dataVars, viewVars, busy, electVars, netVars>>

NeverHeard == [health |-> "unknown", state |-> "UNKNOWN",
               data |-> [gtid |-> InitialGTID, ts |-> 0]]

NoNews == [gtid |-> [primarySeqNo |-> 1, GTSeqNo |-> 0], ts |-> FirstTime]

\* Everyone is a secondary and has polled everyone; no manager has run yet.
Init ==
    /\ C!Init
    /\ state = [m \in Member |-> "SECONDARY"]
    /\ primary = [m \in Member |-> None]
    /\ data = [m \in Member |-> NoNews]
    /\ incPrimary = [m \in Member |-> FALSE]
    /\ replicating = [m \in Member |-> TRUE]
    /\ hb = [m \in Member |-> [o \in Member |->
                 IF o = m THEN NeverHeard
                 ELSE [health |-> "up", state |-> "SECONDARY", data |-> NoNews]]]
    /\ electable = [m \in Member |-> {}]
    /\ busy = [m \in Member |-> FALSE]
    /\ steppedDown = [m \in Member |-> FALSE]
    /\ sleptLast = [m \in Member |-> FALSE]
    /\ cut = {}
    /\ events = 0

AnEvent == events < MaxEvents /\ events' = events + 1

Connected(i, j) == {i, j} \notin cut
Others(i) == Member \ {i}

-----------------------------------------------------------------------------
(* A member's view.                                                        *)

Up(i, j) == hb[i][j].health = "up"
UpOthers(i) == {j \in Others(i) : Up(i, j)}

\* HeartbeatInfo::maybeUp, over getTargets.
Targets(i) == {j \in Others(i) : hb[i][j].health # "down"}

\* lastOtherOpTime, and what is left of it in an unsigned int.
lastOtherOpTime(i) == Max({hb[i][j].data.ts : j \in UpOthers(i)} \cup {0})
OtherOp(i) == lastOtherOpTime(i) % TimeWrap

\* lastOtherGTID() is above g.
AnotherIsAhead(i, g) == \E j \in UpOthers(i) : Lt(g, hb[i][j].data.gtid)

aMajoritySeemsToBeUp(i) == C!Majority({i} \cup UpOthers(i))

iAmPotentiallyHot(i) ==
    i \in Hot /\ ~ steppedDown[i] /\ state[i] = "SECONDARY"

\* getMostElectable()'s priority is above j's.
SomeoneAbove(electableSet, j) == \E e \in electableSet : Priority[e] > Priority[j]

MostElectable(electableSet) ==
    CHOOSE e \in electableSet :
        \A f \in electableSet \ {e} :
            IF f < e THEN Priority[f] < Priority[e] ELSE Priority[f] <= Priority[e]

\* ReplSetHealthPollTask::up: what the poll of j does to i's electable set.
ElectableAfterPoll(i, j) ==
    IF j \in electable[j] /\ data[j].ts + TenSeconds >= data[i].ts
    THEN IF OtherOp(i) > 0 /\ data[j].ts + TenSeconds >= OtherOp(i)
         THEN electable[i] \cup {j} ELSE electable[i]
    ELSE electable[i] \ {j}

\* doWork: i polls j.  The manager's thread notes the answer, unless it is
\* holding an election; the electable set is updated at once.
Poll(i, j) ==
    /\ i # j
    /\ LET heard == IF Connected(i, j)
                    THEN [health |-> "up", state |-> state[j], data |-> data[j]]
                    ELSE [hb[i][j] EXCEPT !.health = "down", !.state = "DOWN"]
       IN  hb' = IF busy[i] THEN hb ELSE [hb EXCEPT ![i][j] = heard]
    /\ electable' = [electable EXCEPT ![i] = IF Connected(i, j)
                                             THEN ElectableAfterPoll(i, j) ELSE @ \ {j}]
    /\ UNCHANGED <<consensusVars, boxVars, dataVars, busy, electVars, netVars>>

-----------------------------------------------------------------------------
(* The manager.                                                            *)

\* checkElectableSet: am I in the set?
ElectableAfterCheck(i) ==
    IF /\ aMajoritySeemsToBeUp(i) /\ iAmPotentiallyHot(i)
       /\ OtherOp(i) = 0 \/ data[i].ts + TenSeconds >= OtherOp(i)
    THEN electable[i] \cup {i} ELSE electable[i] \ {i}

PrimaryShouldGoNever(i) == FALSE

\* checkElectableSet: should the primary make room for a better one?
PrimaryShouldGo(i) ==
    /\ primary[i] # None
    /\ SomeoneAbove(ElectableAfterCheck(i), primary[i])
    /\ OtherOp(i) # 0
    /\ hb[i][MostElectable(ElectableAfterCheck(i))].data.ts + TenSeconds >= OtherOp(i)

\* CmdReplSetStepDown without force, at the primary j.
AcceptsStepDown(j) ==
    /\ state[j] = "PRIMARY"
    /\ ~ AnotherIsAhead(j, data[j].gtid)
    /\ data[j].ts <= lastOtherOpTime(j) + TenSeconds

RelinquishedNot(f, m, value) == f

\* relinquish, as a change of everyone's boxes.
Relinquished(f, m, value) == IF m = None THEN f ELSE [f EXCEPT ![m] = value]

\* findOtherPrimary.
OtherPrimaries(i) == {j \in UpOthers(i) : hb[i][j].state = "PRIMARY"}

\* The primary i stays with, after checkElectableSet and once a primary that
\* is down or no longer primary is forgotten.
KnownPrimary(i) ==
    CASE primary[i] = i -> IF PrimaryShouldGo(i) THEN None ELSE i
      [] primary[i] \in OtherPrimaries(i) -> primary[i]
      [] OTHER -> None

\* Does i, primary and seeing no other, have to leave?
ShouldRelinquish(i) == ~ aMajoritySeemsToBeUp(i) \/ AnotherIsAhead(i, data[i].gtid)

\* msgCheckNewState: what i then takes for the primary.
PrimaryAfterCheck(i) ==
    CASE Cardinality(OtherPrimaries(i)) > 1 -> KnownPrimary(i)
      [] Cardinality(OtherPrimaries(i)) = 1 -> CHOOSE j \in OtherPrimaries(i) : TRUE
      [] KnownPrimary(i) = i /\ ShouldRelinquish(i) -> None
      [] OTHER -> KnownPrimary(i)

\* msgCheckNewState: does i go on to hold an election?
TriesToBeElected(i) ==
    /\ PrimaryAfterCheck(i) = None /\ OtherPrimaries(i) = {} /\ state[i] # "PRIMARY"
    /\ iAmPotentiallyHot(i) /\ aMajoritySeemsToBeUp(i)
    /\ i \in ElectableAfterCheck(i)

\* m, if it is primary, becomes secondary and its election is over.
Leaves(m) ==
    IF m # None /\ election[m].stage = "won" THEN C!StepDown(m) ELSE UNCHANGED consensusVars

\* Manager::msgCheckNewState.  The command to another primary may get lost.
CheckNewState(i) ==
    /\ ~ busy[i]
    /\ \E asked \in {None} \cup
              {j \in Others(i) : /\ primary[i] = j /\ PrimaryShouldGo(i)
                                 /\ Connected(i, j) /\ AcceptsStepDown(j)} :
          LET leaver == IF asked # None THEN asked
                        ELSE IF state[i] = "PRIMARY" /\ PrimaryAfterCheck(i) # i THEN i
                        ELSE None
              known == [primary EXCEPT ![i] = PrimaryAfterCheck(i)]
          IN  /\ Leaves(leaver)
              /\ state' = Relinquished(state, leaver, "SECONDARY")
              /\ replicating' = Relinquished(replicating, leaver, TRUE)
              /\ primary' = IF asked # None THEN [known EXCEPT ![asked] = None] ELSE known
              /\ steppedDown' = Relinquished(steppedDown, asked, TRUE)
    /\ electable' = [electable EXCEPT ![i] = ElectableAfterCheck(i)]
    /\ busy' = [busy EXCEPT ![i] = TriesToBeElected(i)]
    /\ UNCHANGED <<data, incPrimary, hb, sleptLast, netVars>>

-----------------------------------------------------------------------------
(* An election.                                                            *)

\* CmdReplSetFresh: v knows of something newer than i's last entry.
Fresher(v, i) == Lt(data[i].gtid, data[v].gtid) \/ AnotherIsAhead(v, data[i].gtid)

\* CmdReplSetFresh::shouldVeto.
ShouldVeto(v, i) ==
    \/ state[v] = "PRIMARY" /\ Le(hb[v][i].data.gtid, data[v].gtid)
    \/ /\ primary[v] \notin {None, i}
       /\ Le(hb[v][i].data.gtid, hb[v][primary[v]].data.gtid)
    \/ SomeoneAbove(electable[v], i)
    \/ i \notin electable[v]

\* weAreFreshest, over the targets that answer.
Answering(i) == {v \in Targets(i) : Connected(i, v)}
WeAreFreshest(i) == \A v \in Answering(i) : ~ Fresher(v, i) /\ ~ ShouldVeto(v, i)
Ties(i) == \E v \in Answering(i) : data[v].gtid = data[i].gtid

\* _electSelf goes on after weAreFreshest.
MayStandNow(i) == ~ steppedDown[i] /\ WeAreFreshest(i)

MustSleep(i) == Ties(i) /\ i # 0 /\ ~ sleptLast[i]

\* _electSelf gives up, or sleeps and comes again later.  Up for less than
\* five minutes, it gives up if not everyone asked answers.
DoNotStand(i) ==
    /\ busy[i] /\ election[i].stage = "none"
    /\ \/ /\ ~ MayStandNow(i) \/ Answering(i) # Targets(i)
          /\ UNCHANGED sleptLast
       \/ MayStandNow(i) /\ MustSleep(i) /\ sleptLast' = [sleptLast EXCEPT ![i] = TRUE]
       \/ /\ MayStandNow(i) /\ ~ MustSleep(i) /\ ~ C!MaySayYea(i, i)
          /\ sleptLast' = [sleptLast EXCEPT ![i] = FALSE]
    /\ busy' = [busy EXCEPT ![i] = FALSE]
    /\ UNCHANGED <<consensusVars, boxVars, dataVars, viewVars, steppedDown, netVars>>

\* _electSelf votes for itself and asks for votes.
Stand(i) ==
    /\ busy[i] /\ MayStandNow(i) /\ ~ MustSleep(i)
    /\ C!Begin(i, Targets(i))
    /\ sleptLast' = [sleptLast EXCEPT ![i] = FALSE]
    /\ UNCHANGED <<boxVars, dataVars, viewVars, busy, steppedDown, netVars>>

VetoesElection(v, i) == primary[v] # None \/ SomeoneAbove(electable[v], i)

\* electCmdReceived at v.  With the link cut the candidate gets no answer,
\* and the member may have voted all the same.
electCmdReceived(v, i) ==
    /\ C!Asked(v, i)
    /\ \/ ~ Connected(v, i) /\ C!Nay(v, i)
       \/ ~ Connected(v, i) /\ ~ VetoesElection(v, i) /\ C!LateYea(v, i)
       \/ Connected(v, i) /\ VetoesElection(v, i) /\ C!Veto(v, i)
       \/ Connected(v, i) /\ ~ VetoesElection(v, i) /\ C!Yea(v, i)
       \/ /\ Connected(v, i) /\ ~ VetoesElection(v, i) /\ ~ C!MaySayYea(v, i)
          /\ C!Nay(v, i)
    /\ UNCHANGED <<boxVars, dataVars, viewVars, busy, electVars, netVars>>

\* All answers are in: give up, or go on to assumePrimary, which first stops
\* replication.
DecideElection(i) ==
    /\ election[i].stage = "asking"
    /\ \/ /\ C!Win(i)
          /\ replicating' = [replicating EXCEPT ![i] = FALSE]
          /\ UNCHANGED busy
       \/ /\ C!Fail(i)
          /\ busy' = [busy EXCEPT ![i] = FALSE]
          /\ UNCHANGED replicating
    /\ UNCHANGED <<boxVars, data, incPrimary, viewVars, electVars, netVars>>

\* assumePrimary, once replication has stopped: it fails if the member was
\* frozen while it waited for that.
assumePrimary(i) ==
    /\ busy[i] /\ election[i].stage = "won"
    /\ IF iAmPotentiallyHot(i)
       THEN /\ state' = [state EXCEPT ![i] = "PRIMARY"]
            /\ primary' = [primary EXCEPT ![i] = i]
            /\ incPrimary' = [incPrimary EXCEPT ![i] = TRUE]
            /\ UNCHANGED consensusVars
       ELSE C!Fail(i) /\ UNCHANGED <<boxVars, incPrimary>>
    /\ busy' = [busy EXCEPT ![i] = FALSE]
    /\ UNCHANGED <<data, replicating, viewVars, electVars, netVars>>

-----------------------------------------------------------------------------
(* Operators' commands, data, time and faults.                             *)

\* CmdReplSetStepDown at j.
ReplSetStepDown(j) ==
    /\ AnEvent
    /\ AcceptsStepDown(j)
    /\ C!StepDown(j)
    /\ state' = [state EXCEPT ![j] = "SECONDARY"]
    /\ primary' = [primary EXCEPT ![j] = None]
    /\ steppedDown' = [steppedDown EXCEPT ![j] = TRUE]
    /\ replicating' = [replicating EXCEPT ![j] = TRUE]
    /\ UNCHANGED <<data, incPrimary, viewVars, busy, sleptLast, cut>>

\* ReplSetImpl::_freeze at i, for a while.
Freeze(i) ==
    /\ AnEvent
    /\ state[i] # "PRIMARY"
    /\ steppedDown' = [steppedDown EXCEPT ![i] = TRUE]
    /\ UNCHANGED <<consensusVars, boxVars, dataVars, viewVars, busy, sleptLast,
                   cut>>

\* A client writes: the entry is more than ten seconds younger than the last.
Write(i) ==
    /\ state[i] = "PRIMARY" /\ AnEvent
    /\ data' = [data EXCEPT ![i] =
           [gtid |-> IF incPrimary[i] THEN IncPrimary(@.gtid) ELSE Inc(@.gtid),
            ts |-> @.ts + TenSeconds + 1]]
    /\ incPrimary' = [incPrimary EXCEPT ![i] = FALSE]
    /\ UNCHANGED <<consensusVars, boxVars, replicating, viewVars, busy, electVars, cut>>

\* Replication: i copies from j what it does not have.
Replicate(i, j) ==
    /\ replicating[i] /\ Connected(i, j)
    /\ Lt(data[i].gtid, data[j].gtid)
    /\ data' = [data EXCEPT ![i] = data[j]]
    /\ UNCHANGED <<consensusVars, boxVars, incPrimary, replicating, viewVars, busy,
                   electVars, netVars>>

\* Consensus!Tick, for what it leads to: the lease on a vote ends,
Lapse(v) ==
    /\ yea[v].age # C!Lapsed
    /\ yea' = [yea EXCEPT ![v] = [who |-> C!NoOne, age |-> C!Lapsed]]
    /\ UNCHANGED <<election, nextTick, forgot, boxVars, dataVars, viewVars, busy, electVars,
                   netVars>>

\* an election takes too long (a fault: it is not always slow),
Expire(i) ==
    /\ AnEvent
    /\ election[i].stage = "asking" /\ election[i].age # C!Lapsed
    /\ election' = [election EXCEPT ![i].age = C!Lapsed]
    /\ UNCHANGED <<yea, nextTick, forgot, boxVars, dataVars, viewVars, busy, electVars, cut>>

\* a member that stepped down or was frozen may be elected again.
Thaw(i) ==
    /\ steppedDown[i]
    /\ steppedDown' = [steppedDown EXCEPT ![i] = FALSE]
    /\ UNCHANGED <<consensusVars, boxVars, dataVars, viewVars, busy, sleptLast, netVars>>

Cut(l) ==
    /\ l \notin cut /\ AnEvent
    /\ cut' = cut \cup {l}
    /\ UNCHANGED <<consensusVars, boxVars, dataVars, viewVars, busy, electVars>>

Heal(l) ==
    /\ l \in cut
    /\ cut' = cut \ {l}
    /\ UNCHANGED <<consensusVars, boxVars, dataVars, viewVars, busy, electVars, events>>

\* The process ends and starts again with what is on disk.
Restart(i) ==
    /\ AnEvent
    /\ C!Restart(i)
    /\ state' = [state EXCEPT ![i] = "SECONDARY"]
    /\ primary' = [primary EXCEPT ![i] = None]
    /\ incPrimary' = [incPrimary EXCEPT ![i] = FALSE]
    /\ replicating' = [replicating EXCEPT ![i] = TRUE]
    /\ hb' = [hb EXCEPT ![i] = [o \in Member |-> NeverHeard]]
    /\ electable' = [electable EXCEPT ![i] = {}]
    /\ busy' = [busy EXCEPT ![i] = FALSE]
    /\ steppedDown' = [steppedDown EXCEPT ![i] = FALSE]
    /\ sleptLast' = [sleptLast EXCEPT ![i] = FALSE]
    /\ UNCHANGED <<data, cut>>

Links == {{i, j} : i \in Member, j \in Member} \ {{i} : i \in Member}

ElectSelf(i) == DoNotStand(i) \/ Stand(i) \/ DecideElection(i) \/ assumePrimary(i)

Next ==
    \/ \E i \in Member :
          \/ CheckNewState(i) \/ ElectSelf(i) \/ Lapse(i) \/ Expire(i) \/ Thaw(i)
          \/ ReplSetStepDown(i) \/ Freeze(i) \/ Write(i) \/ Restart(i)
          \/ \E j \in Member : Poll(i, j) \/ electCmdReceived(i, j) \/ Replicate(i, j)
    \/ \E l \in Links : Cut(l) \/ Heal(l)

Spec == Init /\ [][Next]_vars

Fairness ==
    /\ \A i \in Member :
          /\ WF_vars(CheckNewState(i)) /\ WF_vars(ElectSelf(i))
          /\ WF_vars(Lapse(i)) /\ WF_vars(Thaw(i))
          /\ \A j \in Member : /\ WF_vars(Poll(i, j)) /\ WF_vars(electCmdReceived(i, j))
                                /\ WF_vars(Replicate(i, j))
    /\ \A l \in Links : WF_vars(Heal(l))

FairSpec == Spec /\ Fairness

-----------------------------------------------------------------------------
(* Properties.                                                             *)

Primaries == {m \in Member : state[m] = "PRIMARY"}

\* StateBox keeps "member pointer and state variables always aligned": a
\* member is primary exactly when it takes itself for the primary; it has then
\* won an election, has stopped replicating and holds no other election.
BoxIsAligned ==
    \A m \in Member :
        /\ state[m] = "PRIMARY" <=> primary[m] = m
        /\ state[m] = "PRIMARY" =>
              election[m].stage = "won" /\ ~ busy[m] /\ ~ replicating[m]

\* When links stay up and nothing else happens, a member of highest priority
\* becomes the primary and nobody else is.  Two primaries do not stay: who
\* hears of another, or of a member ahead of it, steps down
\* (noteARemoteIsPrimary, msgCheckNewState); and a primary makes room for a
\* better one that has caught up (checkElectableSet).
BestPrimaryAtLast ==
    <>[](\E m \in Hot : Primaries = {m} /\ \A h \in Hot : Priority[m] >= Priority[h])

=============================================================================
