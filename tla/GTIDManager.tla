----------------------------- MODULE GTIDManager -----------------------------
(***************************************************************************)
(* The GTIDManager of one member (src/mongo/db/gtid.h, gtid.cpp).          *)
(*                                                                         *)
(* The manager hands out identifiers while the member is primary and       *)
(* records which identifiers were added and applied while it is secondary. *)
(* From that it derives two positions in the oplog that others rely on:    *)
(*                                                                         *)
(*   minLiveGTID       readers of the oplog stop below it, so no identifier *)
(*                     below it may still be committed later;              *)
(*   minUnappliedGTID  after a crash, entries are applied again from here, *)
(*                     so no entry below it may still be unapplied.        *)
(*                                                                         *)
(* Every method runs under GTIDManager::_lock and is one action.  The      *)
(* action is the method's effect; what the callers guarantee when they     *)
(* call it is a conjunct of the environment actions at the end, and what   *)
(* the methods assert of their callers is stated by MethodAssertsHold.     *)
(***************************************************************************)
EXTENDS GTID, FiniteSets

CONSTANTS
    Timestamps,       \* values curTimeMillis64() may return
    SelfID,           \* the member's _id, mixed into the hash
    HashMod,          \* 2^64 in the code: hashes are kept modulo this
    MaxPrimarySeqNo,  \* bound on primarySeqNo
    MaxGTSeqNo        \* bound on GTSeqNo

ASSUME ConstantsAssumption ==
    /\ Timestamps \subseteq Nat
    /\ SelfID \in Nat
    /\ HashMod \in Nat \ {0}
    /\ MaxPrimarySeqNo \in Nat
    /\ MaxGTSeqNo \in Nat

VARIABLES
    incPrimary,       \* the next identifier starts a new primarySeqNo
    lastLiveGTID,     \* last identifier handed out or added to the oplog
    lastUnappliedGTID,\* last identifier whose application was started
    minLiveGTID,
    minUnappliedGTID,
    liveGTIDs,        \* handed out, transaction not finished (primary)
    unappliedGTIDs,   \* being applied (secondary)
    lastTimestamp,    \* ts and h of the entry lastLiveGTID names
    lastHash

mgrVars == <<incPrimary, lastLiveGTID, lastUnappliedGTID, minLiveGTID,
             minUnappliedGTID, liveGTIDs, unappliedGTIDs, lastTimestamp, lastHash>>

\* The identifiers that stay within the bounds.
BoundedGTIDs == [primarySeqNo : 0..MaxPrimarySeqNo, GTSeqNo : 0..MaxGTSeqNo]

\* The identifiers an oplog entry may have: the entry replSetInitiate writes
\* is (1, 0).
OplogGTIDs == {g \in BoundedGTIDs : ~ IsInitial(g)}

Hashes == 0..(HashMod - 1)

-----------------------------------------------------------------------------
(* The methods.  An operator whose name extends a method's with a fault    *)
(* (GetGTIDForPrimaryForgetsUnapplied) is that method with a plausible bug:  *)
(* no action uses it, it is there to show which property the bug breaks.    *)

\* The constructor.  _minUnappliedGTID and _lastUnappliedGTID are left at the
\* value GTID::GTID() gives them.
Construct(last, ts, h) ==
    /\ lastLiveGTID' = last
    /\ minLiveGTID' = Inc(last)
    /\ incPrimary' = FALSE
    /\ lastUnappliedGTID' = InitialGTID
    /\ minUnappliedGTID' = InitialGTID
    /\ liveGTIDs' = {}
    /\ unappliedGTIDs' = {}
    /\ lastTimestamp' = ts
    /\ lastHash' = h

\* The identifier getGTIDForPrimary hands out next, and its hash.
NextGTID == IF incPrimary THEN IncPrimary(lastLiveGTID) ELSE Inc(lastLiveGTID)

NextHash(ts) == ((lastHash * 131 + ts) * 17 + SelfID) % HashMod

GetGTIDForPrimaryForgetsUnapplied(ts) ==
    /\ incPrimary' = FALSE
    /\ lastLiveGTID' = NextGTID
    /\ minLiveGTID' = IF liveGTIDs = {} THEN NextGTID ELSE minLiveGTID
    /\ liveGTIDs' = liveGTIDs \union {NextGTID}
    /\ lastTimestamp' = ts
    /\ lastHash' = NextHash(ts)
    /\ UNCHANGED <<lastUnappliedGTID, minUnappliedGTID, unappliedGTIDs>>

GetGTIDForPrimary(ts) ==
    /\ incPrimary' = FALSE
    /\ lastLiveGTID' = NextGTID
    /\ minLiveGTID' = IF liveGTIDs = {} THEN NextGTID ELSE minLiveGTID
    /\ lastUnappliedGTID' = NextGTID
    /\ liveGTIDs' = liveGTIDs \union {NextGTID}
    /\ lastTimestamp' = ts
    /\ lastHash' = NextHash(ts)
    /\ UNCHANGED <<minUnappliedGTID, unappliedGTIDs>>

\* The new minimum once the old one is gone: the least identifier still open,
\* or the one after the last when none is.
MinOrNext(S, last) == IF S = {} THEN Inc(last) ELSE MinGTID(S)

NoteLiveGTIDDone(gtid) ==
    LET rest == liveGTIDs \ {gtid}
        min  == MinOrNext(rest, lastLiveGTID)
    IN  /\ liveGTIDs' = rest
        /\ IF minLiveGTID = gtid
             THEN minLiveGTID' = min /\ minUnappliedGTID' = min
             ELSE UNCHANGED <<minLiveGTID, minUnappliedGTID>>
        /\ UNCHANGED <<incPrimary, lastLiveGTID, lastUnappliedGTID, unappliedGTIDs,
                       lastTimestamp, lastHash>>

NoteGTIDAdded(gtid, ts, h) ==
    /\ lastLiveGTID' = gtid
    /\ minLiveGTID' = Inc(gtid)
    /\ lastTimestamp' = ts
    /\ lastHash' = h
    /\ UNCHANGED <<incPrimary, lastUnappliedGTID, minUnappliedGTID, liveGTIDs,
                   unappliedGTIDs>>

NoteApplyingGTID(gtid) ==
    /\ minUnappliedGTID' = IF unappliedGTIDs = {} THEN gtid ELSE minUnappliedGTID
    /\ unappliedGTIDs' = unappliedGTIDs \union {gtid}
    /\ lastUnappliedGTID' = gtid
    /\ UNCHANGED <<incPrimary, lastLiveGTID, minLiveGTID, liveGTIDs, lastTimestamp,
                   lastHash>>

NoteGTIDAppliedWithoutInc(gtid) ==
    LET rest == unappliedGTIDs \ {gtid}
    IN  /\ unappliedGTIDs' = rest
        /\ minUnappliedGTID' =
             IF minUnappliedGTID # gtid THEN minUnappliedGTID
             ELSE IF rest = {} THEN lastUnappliedGTID
             ELSE MinGTID(rest)
        /\ UNCHANGED <<incPrimary, lastLiveGTID, lastUnappliedGTID, minLiveGTID,
                       liveGTIDs, lastTimestamp, lastHash>>

NoteGTIDApplied(gtid) ==
    LET rest == unappliedGTIDs \ {gtid}
    IN  /\ unappliedGTIDs' = rest
        /\ minUnappliedGTID' =
             IF minUnappliedGTID = gtid THEN MinOrNext(rest, lastUnappliedGTID)
                                        ELSE minUnappliedGTID
        /\ UNCHANGED <<incPrimary, lastLiveGTID, lastUnappliedGTID, minLiveGTID,
                       liveGTIDs, lastTimestamp, lastHash>>

ResetManagerWithoutInc ==
    /\ incPrimary' = TRUE
    /\ minLiveGTID' = lastLiveGTID
    /\ lastUnappliedGTID' = lastLiveGTID
    /\ minUnappliedGTID' = lastLiveGTID
    /\ UNCHANGED <<lastLiveGTID, liveGTIDs, unappliedGTIDs, lastTimestamp, lastHash>>

ResetManager ==
    /\ incPrimary' = TRUE
    /\ minLiveGTID' = Inc(lastLiveGTID)
    /\ lastUnappliedGTID' = lastLiveGTID
    /\ minUnappliedGTID' = Inc(lastLiveGTID)
    /\ UNCHANGED <<lastLiveGTID, liveGTIDs, unappliedGTIDs, lastTimestamp, lastHash>>

ResetAfterInitialSync(last, ts, h) ==
    /\ lastLiveGTID' = last
    /\ minLiveGTID' = Inc(last)
    /\ lastUnappliedGTID' = last
    /\ minUnappliedGTID' = Inc(last)
    /\ lastTimestamp' = ts
    /\ lastHash' = h
    /\ UNCHANGED <<incPrimary, liveGTIDs, unappliedGTIDs>>

CatchUnappliedToLive ==
    /\ lastUnappliedGTID' = lastLiveGTID
    /\ minUnappliedGTID' = minLiveGTID
    /\ UNCHANGED <<incPrimary, lastLiveGTID, minLiveGTID, liveGTIDs, unappliedGTIDs,
                   lastTimestamp, lastHash>>

\* What verifyReadyToBecomePrimary verifies; the process ends when it is false.
ReadyToBecomePrimary ==
    /\ lastLiveGTID = lastUnappliedGTID
    /\ minLiveGTID = minUnappliedGTID
    /\ Lt(lastLiveGTID, minLiveGTID)

\* rollbackNeeded: the remote entry is not the last one this member has.
RollbackNeeded(last, ts, h) ==
    ~ (last = lastLiveGTID /\ ts = lastTimestamp /\ h = lastHash)

-----------------------------------------------------------------------------
(* The callers, reduced to the order in which they call the methods.  role  *)
(* is what the member is doing; toApply holds the identifiers that were     *)
(* added to the oplog and whose application has not been started, the       *)
(* deque of BackgroundSync.  Any number of identifiers may be between       *)
(* noteApplyingGTID and noteGTIDApplied, as the interface allows.           *)

VARIABLES role, toApply

vars == <<mgrVars, role, toApply>>

Roles == {"startup", "secondary", "primary"}

Init ==
    /\ lastLiveGTID = InitialGTID
    /\ minLiveGTID = Inc(InitialGTID)
    /\ incPrimary = FALSE
    /\ lastUnappliedGTID = InitialGTID
    /\ minUnappliedGTID = InitialGTID
    /\ liveGTIDs = {}
    /\ unappliedGTIDs = {}
    /\ lastTimestamp = 0
    /\ lastHash = 0
    /\ role = "startup"
    /\ toApply = {}

\* The process is started again, and ReplSetImpl::loadGTIDManager builds a
\* manager from the last entry of the oplog.
Restart ==
    /\ \/ \E last \in OplogGTIDs, ts \in Timestamps, h \in Hashes : Construct(last, ts, h)
       \/ Construct(InitialGTID, 0, 0)
    /\ role' = "startup"
    /\ toApply' = {}

\* ReplSetImpl::_go: the only member of its set becomes primary at once, on the
\* oplog replSetInitiate began.
StartAlone ==
    /\ role = "startup"
    /\ ~ IsInitial(lastLiveGTID)
    /\ CatchUnappliedToLive
    /\ role' = "primary"
    /\ UNCHANGED toApply

\* ReplSetImpl::_go: after the initial sync the manager is set to the last
\* entry of the oplog and the member goes live as a secondary.
GoLive ==
    /\ role = "startup"
    /\ \E last \in OplogGTIDs, ts \in Timestamps, h \in Hashes :
          ResetAfterInitialSync(last, ts, h)
    /\ role' = "secondary"
    /\ UNCHANGED toApply

\* ReplSetImpl::assumePrimary, after stopReplication has drained the deque.
AssumePrimary ==
    /\ role = "secondary"
    /\ toApply = {} /\ unappliedGTIDs = {}
    /\ ReadyToBecomePrimary
    /\ ResetManager
    /\ role' = "primary"
    /\ UNCHANGED toApply

\* ReplSetImpl::relinquish, with the global lock held and no commit running.
Relinquish ==
    /\ role = "primary"
    /\ liveGTIDs = {}
    /\ role' = "secondary"
    /\ UNCHANGED <<mgrVars, toApply>>

\* TxnContext::commitRoot begins and ends.
BeginCommit ==
    /\ role = "primary"
    /\ NextGTID \in BoundedGTIDs
    /\ \E ts \in Timestamps : GetGTIDForPrimary(ts)
    /\ UNCHANGED <<role, toApply>>

EndCommit ==
    /\ role = "primary"
    /\ \E gtid \in liveGTIDs : NoteLiveGTIDDone(gtid)
    /\ UNCHANGED <<role, toApply>>

\* BackgroundSync::produce reads the remote oplog upwards from lastLiveGTID.
Produce ==
    /\ role = "secondary"
    /\ \E gtid \in OplogGTIDs, ts \in Timestamps, h \in Hashes :
          /\ Lt(lastLiveGTID, gtid)
          /\ NoteGTIDAdded(gtid, ts, h)
          /\ toApply' = toApply \union {gtid}
    /\ UNCHANGED role

\* BackgroundSync::applyOpsFromOplog takes the entries in the deque's order.
StartApply ==
    /\ role = "secondary"
    /\ toApply # {}
    /\ NoteApplyingGTID(MinGTID(toApply))
    /\ toApply' = toApply \ {MinGTID(toApply)}
    /\ UNCHANGED role

EndApply ==
    /\ role = "secondary"
    /\ \E gtid \in unappliedGTIDs : NoteGTIDApplied(gtid)
    /\ UNCHANGED <<role, toApply>>

\* BackgroundSync::runRollback moves the manager back to the common point
\* once the deque is empty.
Rollback ==
    /\ role = "secondary"
    /\ toApply = {} /\ unappliedGTIDs = {}
    /\ \E last \in OplogGTIDs, ts \in Timestamps, h \in Hashes :
          /\ Le(last, lastLiveGTID)
          /\ ResetAfterInitialSync(last, ts, h)
    /\ UNCHANGED <<role, toApply>>

Next ==
    \/ Restart \/ StartAlone \/ GoLive \/ AssumePrimary \/ Relinquish
    \/ BeginCommit \/ EndCommit \/ Produce \/ StartApply \/ EndApply \/ Rollback

Spec == Init /\ [][Next]_vars

-----------------------------------------------------------------------------
(* The inductive invariant, one part per role. *)

\* min is the least member of S, or follows last when S is empty.
IsMinOf(min, S, last) ==
    IF S = {} THEN min = Inc(last)
              ELSE min \in S /\ \A gtid \in S : Le(min, gtid)

StartupInv ==
    /\ liveGTIDs = {} /\ unappliedGTIDs = {} /\ toApply = {}
    /\ minLiveGTID = Inc(lastLiveGTID)
    /\ lastUnappliedGTID = InitialGTID /\ minUnappliedGTID = InitialGTID

SecondaryInv ==
    /\ liveGTIDs = {}
    /\ minLiveGTID = Inc(lastLiveGTID)
    /\ IsMinOf(minUnappliedGTID, unappliedGTIDs, lastUnappliedGTID)
    /\ \A gtid \in unappliedGTIDs : Le(gtid, lastUnappliedGTID)
    /\ \A gtid \in toApply : Lt(lastUnappliedGTID, gtid) /\ Le(gtid, lastLiveGTID)
    /\ IF toApply = {} THEN lastUnappliedGTID = lastLiveGTID
                       ELSE lastLiveGTID \in toApply

\* The first commit after an election is still running: it began a new
\* primarySeqNo, and getGTIDForPrimary moved minLiveGTID up to it and left
\* minUnappliedGTID at the identifier that would have come next in the old one.
FirstCommitOpen ==
    /\ minLiveGTID \in liveGTIDs
    /\ minLiveGTID.GTSeqNo = 0
    /\ minLiveGTID.primarySeqNo = minUnappliedGTID.primarySeqNo + 1

PrimaryInv ==
    /\ unappliedGTIDs = {} /\ toApply = {}
    /\ lastUnappliedGTID = lastLiveGTID
    /\ IsMinOf(minLiveGTID, liveGTIDs, lastLiveGTID)
    /\ minUnappliedGTID = minLiveGTID \/ FirstCommitOpen
    /\ \A gtid \in liveGTIDs : Le(gtid, lastLiveGTID)

\* The state behind the four invariants below.  In every role minLiveGTID is
\* exactly the least live identifier, or the successor of the last one when
\* none is live.  minUnappliedGTID is not set at startup; on a secondary it is
\* exactly the least identifier being applied, or the successor of the last
\* one whose application was started; on a primary it equals minLiveGTID,
\* except while the first commit after an election is running.
ManagerInv ==
    /\ role = "startup" => StartupInv
    /\ role = "secondary" => SecondaryInv
    /\ role = "primary" => PrimaryInv

-----------------------------------------------------------------------------
(* Properties. *)

\* Every field holds a value of its type.
TypeOK ==
    /\ incPrimary \in BOOLEAN
    /\ lastLiveGTID \in GTIDs
    /\ lastUnappliedGTID \in GTIDs
    /\ minLiveGTID \in GTIDs
    /\ minUnappliedGTID \in GTIDs
    /\ liveGTIDs \subseteq GTIDs
    /\ unappliedGTIDs \subseteq GTIDs
    /\ lastTimestamp \in Nat
    /\ lastHash \in Hashes
    /\ role \in Roles
    /\ toApply \subseteq GTIDs

\* minLiveGTID is a lower bound of what may still be committed: every live
\* identifier, and every identifier getGTIDForPrimary can still hand out, is
\* at or above it.  This is what lets oplog readers stop at it
\* (getOplogMinUnsafeKey) and never miss an entry.
MinLiveCoversLive ==
    /\ \A gtid \in liveGTIDs : Le(minLiveGTID, gtid)
    /\ role = "primary" => Le(minLiveGTID, NextGTID)

\* minUnappliedGTID is a lower bound of what is in the oplog and unapplied,
\* whether its application has been started or not.
MinUnappliedCoversUnapplied ==
    role # "startup" => \A gtid \in toApply \union unappliedGTIDs : Le(minUnappliedGTID, gtid)

\* When nothing is left to apply and nothing is live, verifySettled and
\* verifyReadyToBecomePrimary pass: neither start, stop, step-up, step-down
\* nor rollback can end the process on them.
SettledIsReady ==
    (role # "startup" /\ toApply = {} /\ unappliedGTIDs = {} /\ liveGTIDs = {})
        => ReadyToBecomePrimary

\* What the methods assert of their callers holds whenever a caller may call,
\* one conjunct per assertion: gtid.cpp lines 122 (getGTIDForPrimary) and the
\* resets' empty sets on a primary; 180 (noteGTIDAdded) and the resets' 262,
\* 329-330, 350-351 elsewhere; 151 (noteLiveGTIDDone, of any live identifier);
\* 197 and 198 (noteApplyingGTID, of any queued one); 220 (noteGTIDApplied, of
\* any that is being applied).
MethodAssertsHold ==
    /\ role = "primary" => /\ lastLiveGTID = lastUnappliedGTID
                           /\ unappliedGTIDs = {} /\ toApply = {}
    /\ role # "primary" => liveGTIDs = {} /\ Lt(lastLiveGTID, minLiveGTID)
    /\ role = "startup" => unappliedGTIDs = {}
    /\ \A gtid \in liveGTIDs : Le(minLiveGTID, gtid)
    /\ \A gtid \in toApply : Le(minUnappliedGTID, gtid) /\ Lt(lastUnappliedGTID, gtid)
    /\ \A gtid \in unappliedGTIDs : Le(minUnappliedGTID, gtid)

\* The position readers stop at never moves backwards, except when a rollback
\* or a restart replaces it: a reader that saw every entry below it does not
\* have to look there again.
MinLiveNeverMovesBack ==
    [][Le(minLiveGTID, minLiveGTID') \/ Rollback \/ Restart \/ GoLive]_vars

\* An identifier is handed out once: what getGTIDForPrimary returns is above
\* everything handed out or added before, unless a rollback or restart
\* discarded it.
GTIDsNeverReused ==
    [][lastLiveGTID' # lastLiveGTID =>
         Lt(lastLiveGTID, lastLiveGTID') \/ Rollback \/ Restart \/ GoLive]_vars

=============================================================================
