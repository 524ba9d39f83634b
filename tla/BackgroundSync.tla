--------------------------- MODULE BackgroundSync ---------------------------
(***************************************************************************)
(* Replication on one member: the producer and the applier thread of       *)
(* BackgroundSync (src/mongo/db/repl/bgsync.cpp), the operations that start *)
(* and stop them when the member changes state (rs.cpp, rs_sync.cpp), and   *)
(* shutdown.                                                               *)
(*                                                                         *)
(* The threads share the fields of BackgroundSync under one mutex and four *)
(* condition variables.  A section that holds the mutex is one action; a   *)
(* wait ends the action and puts the thread in waiting, notify_all takes    *)
(* every thread out of it.  The fields read without the mutex              *)
(* (_opSyncShouldExit) are read in actions of their own.                    *)
(*                                                                         *)
(* The operations that change the member's state are serialised by          *)
(* stateChangeMutex, so one thread, ctl, stands for all of them; ctl.holds  *)
(* are the locks it keeps while it waits for the producer to start.         *)
(*                                                                         *)
(* The manager of identifiers is GTIDManager: this module calls its methods *)
(* and is shown to call them the way GTIDManager's own Next assumes.        *)
(*                                                                         *)
(* As in GTIDManager, an operator whose name extends another's with a fault *)
(* is that operator with a plausible bug, and no action uses it.            *)
(***************************************************************************)
EXTENDS GTID, FiniteSets, Sequences, SequencesExt, TLC

CONSTANTS
    Timestamps, SelfID, HashMod, MaxPrimarySeqNo, MaxGTSeqNo,  \* as in GTIDManager
    FirstGTID,        \* last entry of the oplog when the initial sync ends
    HighWater,        \* 20000: the producer waits above it
    LowWater,         \* 10000: the applier wakes the producer at it
    MaxTries,         \* 100 in the applier's retry loop; even, as 100 is
    MaxFailures,      \* bound: failed attempts to apply, in the whole run
    MaxOps,           \* bound: state-changing operations, in the whole run
    MaxMaintenance,   \* bound on _maintenanceMode
    Shutdowns,        \* BOOLEAN: shutdown may be called
    Reconfigs         \* BOOLEAN: a new configuration may arrive

VARIABLES
    incPrimary, lastLiveGTID, lastUnappliedGTID, minLiveGTID, minUnappliedGTID,
    liveGTIDs, unappliedGTIDs, lastTimestamp, lastHash,
    boot,             \* how far ReplSetImpl::_go has come
    state,            \* StateBox::sp.state
    oplog,            \* the local oplog: GTID -> applied or not, its "a" field;
                      \* "givenUp" is not applied, and the retry loop has given up
    bg,               \* the flags of BackgroundSync
    deque,            \* in the oplog, to be applied
    waiting,          \* thread -> the condition variable it waits on
    producer, applier, ctl, shutdown,  \* the threads
    maintenanceMode, blockSync,
    opsLeft, failuresLeft,             \* what the bounds leave
    verifyFailed      \* verifies of bgsync.cpp and rs.cpp that failed, and CommitsCut

mgrVars == <<incPrimary, lastLiveGTID, lastUnappliedGTID, minLiveGTID,
             minUnappliedGTID, liveGTIDs, unappliedGTIDs, lastTimestamp, lastHash>>

modeVars == <<maintenanceMode, blockSync>>

boundVars == <<opsLeft, failuresLeft>>

vars == <<mgrVars, boot, state, oplog, bg, deque, waiting, producer, applier, ctl, shutdown,
          modeVars, boundVars, verifyFailed>>

\* What GTIDManager calls role and toApply, in terms of this module.
ManagerRole == IF boot \in {"sync", "clone"} THEN "startup"
               ELSE IF state = "PRIMARY" THEN "primary" ELSE "secondary"

ManagerToApply == {gtid \in ToSet(deque) : Lt(lastUnappliedGTID, gtid)}

Mgr == INSTANCE GTIDManager WITH role <- ManagerRole, toApply <- ManagerToApply

Threads == {"producer", "applier", "ctl"}
-----------------------------------------------------------------------------
(* Condition variables. *)

\* cond.notify_all() seen by the waiting threads in w.
Notify(w, cond) == [t \in Threads |-> IF w[t] = cond THEN "none" ELSE w[t]]

Wait(w, t, cond) == [w EXCEPT ![t] = cond]

Awake(t) == waiting[t] = "none"

\* Boost allows a wait to return without a notification.
SpuriousWakeup ==
    \E t \in Threads :
        /\ ~ Awake(t)
        /\ waiting' = [waiting EXCEPT ![t] = "none"]
        /\ UNCHANGED <<mgrVars, boot, state, oplog, bg, deque, producer, applier, ctl,
                       shutdown, modeVars, boundVars, verifyFailed>>

-----------------------------------------------------------------------------
(* BackgroundSync::verifySettled, called with the mutex held.  Settled is    *)
(* what it verifies once there is an applier.                               *)

Settled ==
    bg.applierInProgress =>
        /\ deque = <<>>
        /\ lastUnappliedGTID = lastLiveGTID
        /\ minUnappliedGTID = minLiveGTID

\* verify(cond) at a line: remember the line when cond does not hold.
Verify(cond, line) ==
    verifyFailed' = IF cond THEN verifyFailed ELSE verifyFailed \union {line}

\* Two things noted with the failed verifies: a new configuration has taken a
\* primary out of its state, by shunning it or by a failed verify, beside a
\* commit that runs (nothing haveNewConfig holds keeps commits out); or has
\* shunned the member before it went live, which it does once it replicates.
CommitsCut == "commits cut by a new configuration"

ShunnedEarly == "shunned before going live"

Disturbed == verifyFailed \cap {CommitsCut, ShunnedEarly} # {}

-----------------------------------------------------------------------------
(* stopOpSyncThread and startOpSyncThread, on behalf of operation op.  The  *)
(* two loops of stopOpSyncThread are the pcs "stopRunning" and "stopQueue"; *)
(* after it ctl is at "stopped" and goes on with the operation.             *)

StopDrainSkipsQueue(op) ==
    /\ ctl' = [ctl EXCEPT !.pc = "stopped", !.op = op]
    /\ UNCHANGED <<state, verifyFailed, waiting>>

\* The loop over _deque and the sanity checks after it.  A failed verify
\* throws out of the operation: haveNewConfig catches it and goes fatal.  On a
\* primary the checks fail beside the first commit after its election.
StopDrain(op) ==
    IF deque # <<>>
      THEN /\ ctl' = [ctl EXCEPT !.pc = "stopQueue", !.op = op]
           /\ waiting' = Wait(waiting, "ctl", "_queueDone")
           /\ UNCHANGED <<state, verifyFailed>>
      ELSE /\ Verify(Settled, IF state = "PRIMARY" /\ Mgr!FirstCommitOpen
                               THEN CommitsCut ELSE "verifySettled in stopOpSyncThread")
           /\ ctl' = [ctl EXCEPT !.pc = IF Settled THEN "stopped" ELSE "idle", !.op = op]
           /\ state' = IF ~ Settled /\ op = "config" THEN "FATAL" ELSE state
           /\ UNCHANGED waiting

StopWaitIgnoresRunning(op) == StopDrain(op)

StopWait(op) ==
    IF bg.opSyncRunning
      THEN /\ ctl' = [ctl EXCEPT !.pc = "stopRunning", !.op = op]
           /\ waiting' = Wait(waiting, "ctl", "_opSyncRunningCondVar")
           /\ UNCHANGED <<state, verifyFailed>>
      ELSE StopDrain(op)

StopOpSyncThread(op) ==
    /\ bg' = [bg EXCEPT !.opSyncShouldRun = FALSE]
    /\ StopWait(op)

StopRunningWoken ==
    /\ ctl.pc = "stopRunning" /\ Awake("ctl")
    /\ StopWait(ctl.op)
    /\ UNCHANGED <<mgrVars, boot, oplog, bg, deque, producer, applier, shutdown, modeVars,
                   boundVars>>

StopQueueWoken ==
    /\ ctl.pc = "stopQueue" /\ Awake("ctl")
    /\ StopDrain(ctl.op)
    /\ UNCHANGED <<mgrVars, boot, oplog, bg, deque, producer, applier, shutdown, modeVars,
                   boundVars>>

Idle(op) == [pc |-> "idle", op |-> op, holds |-> {}]

StartOpSyncThreadSilent(op, st, locks) ==
    /\ state' = st
    /\ bg' = [bg EXCEPT !.opSyncShouldRun = TRUE]
    /\ ctl' = [pc |-> "startWait", op |-> op, holds |-> locks]
    /\ waiting' = Wait(waiting, "ctl", "_opSyncRunningCondVar")
    /\ UNCHANGED verifyFailed

\* Called once the member's state is st, with locks held until it returns.  A
\* failed verify throws out of the operation; haveNewConfig and startReplSets
\* catch it and go fatal.
StartOpSyncThread(op, st, locks) ==
    \/ /\ bg.opSyncShouldExit
       /\ ctl' = Idle(op)
       /\ state' = st
       /\ UNCHANGED <<bg, waiting, verifyFailed>>
    \/ /\ ~ bg.opSyncShouldExit
       /\ Verify(Settled, "verifySettled in startOpSyncThread")
       /\ IF Settled
            THEN /\ state' = st
                 /\ bg' = [bg EXCEPT !.opSyncShouldRun = TRUE]
                 /\ LET w == Notify(waiting, "_opSyncCanRunCondVar")
                    IN  IF bg.opSyncRunning
                          THEN /\ ctl' = Idle(op)
                               /\ waiting' = w
                          ELSE /\ ctl' = [pc |-> "startWait", op |-> op, holds |-> locks]
                               /\ waiting' = Wait(w, "ctl", "_opSyncRunningCondVar")
            ELSE /\ state' = IF op \in {"config", "goLive"} THEN "FATAL" ELSE st
                 /\ ctl' = Idle(op)
                 /\ UNCHANGED <<bg, waiting>>

StartWoken ==
    /\ ctl.pc = "startWait" /\ Awake("ctl")
    /\ IF bg.opSyncRunning
         THEN /\ Verify(bg.opSyncShouldRun, "verify(_opSyncShouldRun) in startOpSyncThread")
              /\ ctl' = [ctl EXCEPT !.pc = "idle", !.holds = {}]
              /\ UNCHANGED waiting
         ELSE /\ waiting' = Wait(waiting, "ctl", "_opSyncRunningCondVar")
              /\ UNCHANGED <<ctl, verifyFailed>>
    /\ UNCHANGED <<mgrVars, boot, state, oplog, bg, deque, producer, applier, shutdown,
                   modeVars, boundVars>>

-----------------------------------------------------------------------------
(* The operations on the member's state.  Those that stop replication are   *)
(* two actions, before and after stopOpSyncThread.                          *)

BeginOp ==
    /\ ctl.pc = "idle"
    /\ opsLeft > 0
    /\ opsLeft' = opsLeft - 1

Locks == {"rslock", "global"}

\* ReplSetImpl::tryToGoLiveAsASecondary, with mode and block in force.
TryToGoLiveAsASecondary(op, st, mode, block) ==
    IF st \in {"PRIMARY", "SECONDARY", "FATAL"} \/ mode > 0 \/ block
      THEN /\ state' = st
           /\ ctl' = [ctl EXCEPT !.op = op]
           /\ UNCHANGED <<bg, waiting, verifyFailed>>
      ELSE StartOpSyncThread(op, "SECONDARY", Locks)

\* ReplSetImpl::_go: an attempt at the initial sync takes the replica set lock
\* to choose a source, and may fail; once one has ended, the threads are
\* started and the member goes live.
InitialSyncBegin ==
    /\ boot = "sync"
    /\ "rslock" \notin ctl.holds
    /\ boot' = "clone"
    /\ UNCHANGED <<mgrVars, state, oplog, bg, deque, waiting, producer, applier, ctl,
                   shutdown, modeVars, boundVars, verifyFailed>>

InitialSyncFails ==
    /\ boot = "clone"
    /\ boot' = "sync"
    /\ UNCHANGED <<mgrVars, state, oplog, bg, deque, waiting, producer, applier, ctl,
                   shutdown, modeVars, boundVars, verifyFailed>>

InitialSyncDone ==
    /\ boot = "clone"
    /\ "global" \notin ctl.holds
    /\ \E ts \in Timestamps : Mgr!ResetAfterInitialSync(FirstGTID, ts, 0)
    /\ oplog' = (FirstGTID :> "applied")
    /\ boot' = "threads"
    /\ UNCHANGED <<state, bg, deque, waiting, producer, applier, ctl, shutdown, modeVars,
                   boundVars, verifyFailed>>

StartThreads ==
    /\ boot = "threads"
    /\ boot' = "goLive"
    /\ producer' = [producer EXCEPT !.pc = "start"]
    /\ applier' = [applier EXCEPT !.pc = "start"]
    /\ UNCHANGED <<mgrVars, state, oplog, bg, deque, waiting, ctl, shutdown, modeVars,
                   boundVars, verifyFailed>>

GoLive ==
    /\ boot = "goLive" /\ ctl.pc = "idle"
    /\ boot' = "done"
    /\ TryToGoLiveAsASecondary("goLive", "RECOVERING", maintenanceMode, blockSync)
    /\ UNCHANGED <<mgrVars, oplog, deque, producer, applier, shutdown, modeVars, boundVars>>

\* ReplSetImpl::assumePrimary, called when an election is won.  The member was
\* a secondary when it decided to stand; since then its state may have changed.
AssumePrimaryBegin ==
    /\ BeginOp
    /\ boot = "done" /\ state # "PRIMARY"
    /\ StopOpSyncThread("assumePrimary")
    /\ UNCHANGED <<mgrVars, boot, oplog, deque, producer, applier, shutdown, modeVars,
                   failuresLeft>>

\* verify(iAmPotentiallyHot()): the member was hot when it stood, and may have
\* been frozen since.
NotHot == "verify(iAmPotentiallyHot()) in assumePrimary"

AssumePrimaryEnd ==
    /\ ctl.pc = "stopped" /\ ctl.op = "assumePrimary"
    /\ ctl' = [ctl EXCEPT !.pc = "idle"]
    /\ \/ /\ state # "SECONDARY"
          /\ UNCHANGED <<mgrVars, state, verifyFailed>>
       \/ /\ state = "SECONDARY"
          /\ Verify(FALSE, NotHot)
          /\ UNCHANGED <<mgrVars, state>>
       \/ /\ state = "SECONDARY"
          /\ Verify(Mgr!ReadyToBecomePrimary, "verifyReadyToBecomePrimary")
          /\ IF Mgr!ReadyToBecomePrimary THEN Mgr!ResetManager /\ state' = "PRIMARY"
                                         ELSE UNCHANGED <<mgrVars, state>>
    /\ UNCHANGED <<boot, oplog, bg, deque, waiting, producer, applier, shutdown, modeVars,
                   boundVars>>

\* ReplSetImpl::relinquish.  The exclusive operationLock and the global lock
\* wait for the commits that run.
Relinquish ==
    /\ BeginOp
    /\ state = "PRIMARY" /\ liveGTIDs = {}
    /\ StartOpSyncThread("relinquish", "SECONDARY", Locks)
    /\ UNCHANGED <<mgrVars, boot, oplog, deque, producer, applier, shutdown, modeVars,
                   failuresLeft>>

\* ReplSetImpl::setMaintenanceMode(true).
MaintenanceOnBegin ==
    /\ BeginOp
    /\ state # "PRIMARY" /\ maintenanceMode < MaxMaintenance
    /\ StopOpSyncThread("maintenance")
    /\ UNCHANGED <<mgrVars, boot, oplog, deque, producer, applier, shutdown, modeVars,
                   failuresLeft>>

MaintenanceOnEnd ==
    /\ ctl.pc = "stopped" /\ ctl.op = "maintenance"
    /\ ctl' = [ctl EXCEPT !.pc = "idle"]
    /\ IF state \in {"SECONDARY", "RECOVERING"}
         THEN /\ maintenanceMode' = maintenanceMode + 1
              /\ state' = "RECOVERING"
         ELSE UNCHANGED <<maintenanceMode, state>>
    /\ UNCHANGED <<mgrVars, boot, oplog, bg, deque, waiting, producer, applier, shutdown,
                   blockSync, boundVars, verifyFailed>>

\* ReplSetImpl::setMaintenanceMode(false).
MaintenanceOff ==
    /\ BeginOp
    /\ state # "PRIMARY" /\ maintenanceMode > 0
    /\ maintenanceMode' = maintenanceMode - 1
    /\ IF maintenanceMode' = 0
         THEN TryToGoLiveAsASecondary("maintenance", state, 0, blockSync)
         ELSE UNCHANGED <<state, bg, waiting, ctl, verifyFailed>>
    /\ UNCHANGED <<mgrVars, boot, oplog, deque, producer, applier, shutdown, blockSync,
                   failuresLeft>>

\* ReplSetImpl::blockSync(true), when no member can be reached for lack of
\* authorization.
BlockSyncBegin ==
    /\ BeginOp
    /\ state \in {"SECONDARY", "RECOVERING"} /\ ~ blockSync
    /\ StopOpSyncThread("block")
    /\ UNCHANGED <<mgrVars, boot, oplog, deque, producer, applier, shutdown, modeVars,
                   failuresLeft>>

BlockSyncEnd ==
    /\ ctl.pc = "stopped" /\ ctl.op = "block"
    /\ ctl' = [ctl EXCEPT !.pc = "idle"]
    /\ state' = IF state = "FATAL" THEN state ELSE "RECOVERING"
    /\ blockSync' = TRUE
    /\ UNCHANGED <<mgrVars, boot, oplog, bg, deque, waiting, producer, applier, shutdown,
                   maintenanceMode, boundVars, verifyFailed>>

\* ReplSetImpl::blockSync(false).
UnblockSync ==
    /\ BeginOp
    /\ state \in {"SECONDARY", "RECOVERING"} /\ blockSync
    /\ blockSync' = FALSE
    /\ TryToGoLiveAsASecondary("block", state, maintenanceMode, FALSE)
    /\ UNCHANGED <<mgrVars, boot, oplog, deque, producer, applier, shutdown,
                   maintenanceMode, failuresLeft>>

\* ReplSet::haveNewConfig.  It is also called on a primary, by replSetReconfig.
NewConfigBegin ==
    /\ Reconfigs
    /\ BeginOp
    /\ StopOpSyncThread("config")
    /\ UNCHANGED <<mgrVars, boot, oplog, deque, producer, applier, shutdown, modeVars,
                   failuresLeft>>

NewConfigEndForgetsStart ==
    /\ ctl.pc = "stopped" /\ ctl.op = "config"
    /\ ctl' = Idle("config")
    /\ UNCHANGED <<mgrVars, boot, state, oplog, bg, deque, waiting, producer, applier,
                   shutdown, modeVars, boundVars, verifyFailed>>

\* The configuration has this member: its state stays what it is (a primary
\* relinquishes, and setSelfPrimary makes it primary again) and a secondary
\* starts replication again.
NewConfigEnd ==
    /\ ctl.pc = "stopped" /\ ctl.op = "config"
    /\ IF state = "SECONDARY"
         THEN StartOpSyncThread("config", state, {"rslock"})
         ELSE /\ ctl' = [ctl EXCEPT !.pc = "idle"]
              /\ UNCHANGED <<state, bg, waiting, verifyFailed>>
    /\ UNCHANGED <<mgrVars, boot, oplog, deque, producer, applier, shutdown, modeVars,
                   boundVars>>

\* The configuration does not have this member: it is shunned until loadConfig
\* finds one that has.
NewConfigShuns ==
    /\ ctl.pc = "stopped" /\ ctl.op = "config"
    /\ state # "FATAL"
    /\ state' = "SHUNNED"
    /\ ctl' = [ctl EXCEPT !.pc = "reload", !.holds = {"rslock"}]
    /\ IF boot = "done" THEN Verify(state # "PRIMARY" \/ liveGTIDs = {}, CommitsCut)
                        ELSE Verify(FALSE, ShunnedEarly)
    /\ UNCHANGED <<mgrVars, boot, oplog, bg, deque, waiting, producer, applier, shutdown,
                   modeVars, boundVars>>

ReloadConfig ==
    /\ ctl.pc = "reload"
    /\ IF maintenanceMode > 0 \/ blockSync
         THEN /\ state' = "RECOVERING"
              /\ ctl' = [ctl EXCEPT !.pc = "idle", !.holds = {}]
              /\ UNCHANGED <<bg, waiting, verifyFailed>>
         ELSE StartOpSyncThread("config", "SECONDARY", {"rslock"})
    /\ UNCHANGED <<mgrVars, boot, oplog, deque, producer, applier, shutdown, modeVars,
                   boundVars>>

-----------------------------------------------------------------------------
(* Client transactions on a primary (TxnContext::commitRoot): an identifier  *)
(* is taken, and the entry is in the oplog, applied, when it is done; or the *)
(* commit failed and no entry is.                                           *)

CommitBegin ==
    /\ state = "PRIMARY"
    /\ "global" \notin ctl.holds
    /\ Mgr!NextGTID \in Mgr!BoundedGTIDs
    /\ \E ts \in Timestamps : Mgr!GetGTIDForPrimary(ts)
    /\ UNCHANGED <<boot, state, oplog, bg, deque, waiting, producer, applier, ctl, shutdown,
                   modeVars, boundVars, verifyFailed>>

CommitEnd ==
    /\ \E gtid \in liveGTIDs :
          /\ Mgr!NoteLiveGTIDDone(gtid)
          /\ oplog' \in {oplog, oplog @@ (gtid :> "applied")}
    /\ UNCHANGED <<boot, state, bg, deque, waiting, producer, applier, ctl, shutdown,
                   modeVars, boundVars, verifyFailed>>

-----------------------------------------------------------------------------
(* The producer thread.  producer.sleep is timeToSleep > 0. *)

producerOnly == <<mgrVars, boot, state, oplog, deque, applier, ctl, shutdown, modeVars,
                  boundVars, verifyFailed>>

ProducerStart ==
    /\ producer.pc = "start"
    /\ bg' = [bg EXCEPT !.opSyncInProgress = TRUE]
    /\ producer' = [producer EXCEPT !.pc = "top"]
    /\ UNCHANGED <<producerOnly, waiting>>

\* The head of the loop in producerThread, up to the section that waits for
\* permission: with a pause due, others are told that nothing runs.
ProducerTop ==
    /\ producer.pc = "top"
    /\ \/ /\ bg.opSyncShouldExit
          /\ producer' = [producer EXCEPT !.pc = "exit"]
          /\ UNCHANGED <<bg, waiting>>
       \/ /\ ~ bg.opSyncShouldExit /\ producer.sleep
          /\ bg' = [bg EXCEPT !.opSyncRunning = FALSE]
          /\ waiting' = Notify(waiting, "_opSyncRunningCondVar")
          /\ producer' = [producer EXCEPT !.pc = "slept", !.sleep = FALSE]
       \/ /\ ~ bg.opSyncShouldExit /\ ~ producer.sleep
          /\ producer' = [producer EXCEPT !.pc = "slept"]
          /\ UNCHANGED <<bg, waiting>>
    /\ UNCHANGED producerOnly

ProducerSlept ==
    /\ producer.pc = "slept"
    /\ producer' = [producer EXCEPT !.pc = IF bg.opSyncShouldExit THEN "exit" ELSE "gate"]
    /\ UNCHANGED <<producerOnly, bg, waiting>>

ProducerGateSilent ==
    /\ producer.pc = "gate" /\ Awake("producer")
    /\ IF ~ bg.opSyncShouldRun /\ ~ bg.opSyncShouldExit
         THEN /\ bg' = [bg EXCEPT !.opSyncRunning = FALSE]
              /\ waiting' = Wait(waiting, "producer", "_opSyncCanRunCondVar")
              /\ UNCHANGED producer
         ELSE /\ bg' = [bg EXCEPT !.opSyncRunning = TRUE]
              /\ waiting' = Notify(waiting, "_opSyncRunningCondVar")
              /\ producer' = [producer EXCEPT !.pc = "check"]
    /\ UNCHANGED producerOnly

\* Wait for _opSyncShouldRun, then note that the thread runs.  Waking up is the
\* same section again: _opSyncRunning is already false.
ProducerGate ==
    /\ producer.pc = "gate" /\ Awake("producer")
    /\ LET w == Notify(waiting, "_opSyncRunningCondVar")
       IN  IF ~ bg.opSyncShouldRun /\ ~ bg.opSyncShouldExit
             THEN /\ bg' = [bg EXCEPT !.opSyncRunning = FALSE]
                  /\ waiting' = Wait(w, "producer", "_opSyncCanRunCondVar")
                  /\ UNCHANGED producer
             ELSE /\ bg' = [bg EXCEPT !.opSyncRunning = TRUE]
                  /\ waiting' = w
                  /\ producer' = [producer EXCEPT !.pc = "check"]
    /\ UNCHANGED producerOnly

\* produce() returned or threw: back to the head of the loop.
Return(sleep) == producer' = [producer EXCEPT !.pc = "top", !.sleep = sleep]

ProducerCheck ==
    /\ producer.pc = "check"
    /\ IF bg.opSyncShouldExit THEN producer' = [producer EXCEPT !.pc = "exit"]
       ELSE IF state = "FATAL" THEN Return(TRUE)
       ELSE producer' = [producer EXCEPT !.pc = "target"]
    /\ UNCHANGED <<producerOnly, bg, waiting>>

\* produce() up to isRollbackRequired: the replica set lock is taken to choose a
\* target; there may be none, the connection may break, the remote may have
\* nothing to return, its first entry may be ours or show that we must roll
\* back.
FindTarget ==
    /\ producer.pc = "target"
    /\ "rslock" \notin ctl.holds
    /\ \/ \E sleep \in BOOLEAN : Return(sleep)
       \/ \E pc \in {"loop", "rollback"} : producer' = [producer EXCEPT !.pc = pc]
    /\ UNCHANGED <<producerOnly, bg, waiting>>

\* The inner loop of produce(): stop when told to.
ProduceLoop ==
    /\ producer.pc = "loop"
    /\ IF bg.opSyncShouldExit \/ ~ bg.opSyncShouldRun
         THEN Return(FALSE)
         ELSE producer' = [producer EXCEPT !.pc = "more"]
    /\ UNCHANGED <<producerOnly, bg, waiting>>

\* The target may have to change, the cursor may be lost or have nothing for
\* now, or there is an entry to write.
FetchMore ==
    /\ producer.pc = "more"
    /\ Verify(state # "PRIMARY", "verify(!isPrimary) in produce")
    /\ \/ \E sleep \in BOOLEAN : Return(sleep)
       \/ \E pc \in {"loop", "write"} : producer' = [producer EXCEPT !.pc = pc]
    /\ UNCHANGED <<mgrVars, boot, state, oplog, bg, deque, waiting, applier, ctl, shutdown,
                   modeVars, boundVars>>

\* slaveDelay: the pause before an entry is written ends early when the thread
\* is told to stop; the entry is dropped and fetched again later.
SlaveDelayCut ==
    /\ producer.pc = "write"
    /\ ~ bg.opSyncShouldRun
    /\ producer' = [producer EXCEPT !.pc = "loop"]
    /\ UNCHANGED <<producerOnly, bg, waiting>>

\* The entry is committed to the local oplog, unapplied.  Taking the database
\* lock waits for a holder of the global lock.  The transaction may also fail.
WriteEntry ==
    /\ producer.pc = "write"
    /\ "global" \notin ctl.holds
    /\ \/ /\ Return(TRUE)
          /\ UNCHANGED oplog
       \/ \E gtid \in {Inc(lastLiveGTID), IncPrimary(lastLiveGTID)} \cap Mgr!BoundedGTIDs,
             big \in BOOLEAN :
             /\ oplog' = oplog @@ (gtid :> "unapplied")
             /\ producer' = [producer EXCEPT !.pc = "note", !.gtid = gtid, !.big = big]
    /\ UNCHANGED <<mgrVars, boot, state, bg, deque, waiting, applier, ctl, shutdown,
                   modeVars, boundVars, verifyFailed>>

\* Where the producer goes once it may pass the flow control: a big transaction
\* is applied before anything else is fetched.
PassBig(w, q) ==
    IF producer.big /\ q # <<>>
      THEN /\ waiting' = Wait(w, "producer", "_queueDone")
           /\ producer' = [producer EXCEPT !.pc = "big"]
      ELSE /\ waiting' = w
           /\ producer' = [producer EXCEPT !.pc = "loop", !.gtid = InitialGTID, !.big = FALSE]

NoteEntrySilent ==
    /\ producer.pc = "note"
    /\ \E ts \in Timestamps : Mgr!NoteGTIDAdded(producer.gtid, ts, 0)
    /\ deque' = Append(deque, producer.gtid)
    /\ PassBig(waiting, deque')
    /\ UNCHANGED <<boot, state, oplog, bg, applier, ctl, shutdown, modeVars, boundVars,
                   verifyFailed>>

NoteEntry ==
    /\ producer.pc = "note"
    /\ \E ts \in Timestamps : Mgr!NoteGTIDAdded(producer.gtid, ts, 0)
    /\ deque' = Append(deque, producer.gtid)
    /\ LET w == IF deque = <<>> THEN Notify(waiting, "_queueCond") ELSE waiting
       IN  IF Len(deque') > HighWater
             THEN /\ waiting' = Wait(w, "producer", "_queueCond")
                  /\ producer' = [producer EXCEPT !.pc = "flow"]
             ELSE PassBig(w, deque')
    /\ UNCHANGED <<boot, state, oplog, bg, applier, ctl, shutdown, modeVars, boundVars,
                   verifyFailed>>

FlowWoken ==
    /\ producer.pc \in {"flow", "big"} /\ Awake("producer")
    /\ PassBig(waiting, deque)
    /\ UNCHANGED <<producerOnly, bg>>

\* runRollback: look for the newest entry the remote has too.  None within the
\* half hour, or an exception, is fatal.
RollbackSearch ==
    /\ producer.pc = "rollback"
    /\ \/ \E gtid \in DOMAIN oplog :
             /\ producer' = [producer EXCEPT !.pc = "drain", !.gtid = gtid]
             /\ UNCHANGED state
       \/ /\ Return(TRUE)
          /\ state' = "FATAL"
    /\ UNCHANGED <<mgrVars, boot, oplog, bg, deque, waiting, applier, ctl, shutdown,
                   modeVars, boundVars, verifyFailed>>

RollbackDrainDoesNotWait ==
    /\ producer.pc = "drain"
    /\ producer' = [producer EXCEPT !.pc = "toRollback"]
    /\ UNCHANGED <<producerOnly, bg, waiting>>

\* Wait until the applier has nothing left.
RollbackDrain ==
    /\ producer.pc = "drain" /\ Awake("producer")
    /\ IF deque # <<>>
         THEN /\ waiting' = Wait(waiting, "producer", "_queueDone")
              /\ UNCHANGED <<producer, verifyFailed>>
         ELSE /\ Verify(Settled, "verifySettled in runRollback")
              /\ IF Settled THEN producer' = [producer EXCEPT !.pc = "toRollback"]
                            ELSE Return(TRUE)
              /\ UNCHANGED waiting
    /\ UNCHANGED <<mgrVars, boot, state, oplog, bg, deque, applier, ctl, shutdown, modeVars,
                   boundVars>>

GoToRollbackState ==
    /\ producer.pc = "toRollback"
    /\ "global" \notin ctl.holds
    /\ state' = "ROLLBACK"
    /\ producer' = [producer EXCEPT !.pc = "reset"]
    /\ UNCHANGED <<mgrVars, boot, oplog, bg, deque, waiting, applier, ctl, shutdown,
                   modeVars, boundVars, verifyFailed>>

RollbackReset ==
    /\ producer.pc = "reset"
    /\ \E ts \in Timestamps : Mgr!ResetAfterInitialSync(producer.gtid, ts, 0)
    /\ producer' = [producer EXCEPT !.pc = "purge"]
    /\ UNCHANGED <<boot, state, oplog, bg, deque, waiting, applier, ctl, shutdown, modeVars,
                   boundVars, verifyFailed>>

\* One turn of the loop that takes the last entry off the oplog, or the end of
\* the rollback.  An exception on the way is fatal.
RollbackPurge ==
    /\ producer.pc = "purge"
    /\ LET above == {gtid \in DOMAIN oplog : Lt(producer.gtid, gtid)}
           back == [producer EXCEPT !.pc = "top", !.sleep = TRUE, !.gtid = InitialGTID]
       IN  \/ /\ above # {}
              /\ \E last \in above :
                    /\ \A gtid \in above : Le(gtid, last)
                    /\ oplog' = Restrict(oplog, DOMAIN oplog \ {last})
              /\ UNCHANGED <<producer, state>>
           \/ /\ above = {}
              /\ state' = "SECONDARY"
              /\ producer' = back
              /\ UNCHANGED oplog
           \/ /\ above # {}
              /\ state' = "FATAL"
              /\ producer' = back
              /\ UNCHANGED oplog
    /\ UNCHANGED <<mgrVars, boot, bg, deque, waiting, applier, ctl, shutdown, modeVars,
                   boundVars, verifyFailed>>

ProducerExit ==
    /\ producer.pc = "exit"
    /\ bg' = [bg EXCEPT !.opSyncRunning = FALSE, !.opSyncInProgress = FALSE]
    /\ producer' = [producer EXCEPT !.pc = "done"]
    /\ UNCHANGED <<producerOnly, waiting>>

-----------------------------------------------------------------------------
(* The applier thread.  applier.numTries is the counter of the retry loop,   *)
(* which the for statement and its body both increment.                     *)

applierOnly == <<boot, state, bg, producer, ctl, shutdown, modeVars, verifyFailed>>

ApplierStart ==
    /\ applier.pc = "start"
    /\ bg' = [bg EXCEPT !.applierInProgress = TRUE]
    /\ applier' = [applier EXCEPT !.pc = "get"]
    /\ UNCHANGED <<mgrVars, boot, state, oplog, deque, waiting, producer, ctl, shutdown,
                   modeVars, boundVars, verifyFailed>>

ApplierGet ==
    /\ applier.pc = "get" /\ Awake("applier")
    /\ \/ /\ deque = <<>> /\ ~ bg.applierShouldExit
          /\ waiting' = Wait(Notify(waiting, "_queueDone"), "applier", "_queueCond")
          /\ UNCHANGED applier
       \/ /\ deque = <<>> /\ bg.applierShouldExit
          /\ applier' = [applier EXCEPT !.pc = "exit"]
          /\ UNCHANGED waiting
       \/ /\ deque # <<>>
          /\ applier' = [pc |-> "note", numTries |-> 0]
          /\ UNCHANGED waiting
    /\ UNCHANGED <<applierOnly, mgrVars, oplog, deque, boundVars>>

NoteApplying ==
    /\ applier.pc = "note"
    /\ Mgr!NoteApplyingGTID(Head(deque))
    /\ applier' = [applier EXCEPT !.pc = "apply"]
    /\ UNCHANGED <<applierOnly, oplog, deque, waiting, boundVars>>

ApplySucceeds ==
    /\ applier.pc = "apply"
    /\ "global" \notin ctl.holds
    /\ oplog' = [oplog EXCEPT ![Head(deque)] = "applied"]
    /\ applier' = [applier EXCEPT !.pc = "applied"]
    /\ UNCHANGED <<applierOnly, mgrVars, deque, waiting, boundVars>>

ApplyFailsGivesUp ==
    /\ applier.pc = "apply"
    /\ failuresLeft > 0
    /\ failuresLeft' = failuresLeft - 1
    /\ applier' = [applier EXCEPT !.pc = "applied"]
    /\ UNCHANGED <<applierOnly, mgrVars, oplog, deque, waiting, opsLeft>>

\* An exception: abort() when the counter is MaxTries, else the next turn of the
\* loop while the counter allows one.  The counter is odd here and MaxTries even:
\* the loop never aborts, and in the end gives the entry up.
ApplyFails ==
    /\ applier.pc = "apply"
    /\ failuresLeft > 0
    /\ failuresLeft' = failuresLeft - 1
    /\ LET tried == applier.numTries + 1
           again == tried + 1 <= MaxTries
       IN  /\ applier' =
                 IF tried = MaxTries THEN [applier EXCEPT !.pc = "aborted"]
                 ELSE [pc |-> IF again THEN "apply" ELSE "applied", numTries |-> tried + 1]
           /\ oplog' = IF again THEN oplog ELSE [oplog EXCEPT ![Head(deque)] = "givenUp"]
    /\ UNCHANGED <<applierOnly, mgrVars, deque, waiting, opsLeft>>

NoteApplied ==
    /\ applier.pc = "applied"
    /\ Mgr!NoteGTIDApplied(Head(deque))
    /\ applier' = [pc |-> "pop", numTries |-> 0]
    /\ UNCHANGED <<applierOnly, oplog, deque, waiting, boundVars>>

ApplierPopSilent ==
    /\ applier.pc = "pop"
    /\ deque' = Tail(deque)
    /\ applier' = [applier EXCEPT !.pc = "get"]
    /\ UNCHANGED <<applierOnly, mgrVars, oplog, waiting, boundVars>>

ApplierPop ==
    /\ applier.pc = "pop"
    /\ deque' = Tail(deque)
    /\ waiting' = IF Len(deque') = LowWater THEN Notify(waiting, "_queueCond") ELSE waiting
    /\ applier' = [applier EXCEPT !.pc = "get"]
    /\ UNCHANGED <<applierOnly, mgrVars, oplog, boundVars>>

ApplierExit ==
    /\ applier.pc = "exit"
    /\ bg' = [bg EXCEPT !.applierInProgress = FALSE]
    /\ applier' = [applier EXCEPT !.pc = "done"]
    /\ UNCHANGED <<mgrVars, boot, state, oplog, deque, waiting, producer, ctl, shutdown,
                   modeVars, boundVars, verifyFailed>>

-----------------------------------------------------------------------------
(* BackgroundSync::shutdown. *)

shutdownOnly == <<mgrVars, boot, state, oplog, deque, producer, applier, ctl, modeVars,
                  boundVars, verifyFailed>>

ShutdownBegin ==
    /\ Shutdowns
    /\ shutdown = "none"
    /\ bg' = [bg EXCEPT !.opSyncShouldExit = TRUE, !.opSyncShouldRun = FALSE]
    /\ waiting' = Notify(waiting, "_opSyncCanRunCondVar")
    /\ shutdown' = "producer"
    /\ UNCHANGED shutdownOnly

ShutdownApplier ==
    /\ shutdown = "producer" /\ ~ bg.opSyncInProgress
    /\ bg' = [bg EXCEPT !.applierShouldExit = TRUE]
    /\ waiting' = Notify(waiting, "_queueCond")
    /\ shutdown' = "applier"
    /\ UNCHANGED shutdownOnly

ShutdownDone ==
    /\ shutdown = "applier" /\ ~ bg.applierInProgress
    /\ shutdown' = "done"
    /\ UNCHANGED <<shutdownOnly, bg, waiting>>

-----------------------------------------------------------------------------

Init ==
    /\ boot = "sync"
    /\ state = "STARTUP2"
    /\ oplog = [gtid \in {} |-> "applied"]
    /\ bg = [opSyncShouldRun |-> FALSE, opSyncRunning |-> FALSE, opSyncShouldExit |-> FALSE,
             opSyncInProgress |-> FALSE, applierShouldExit |-> FALSE,
             applierInProgress |-> FALSE]
    /\ deque = <<>>
    /\ waiting = [t \in Threads |-> "none"]
    /\ producer = [pc |-> "boot", sleep |-> FALSE, gtid |-> InitialGTID, big |-> FALSE]
    /\ applier = [pc |-> "boot", numTries |-> 0]
    /\ ctl = [pc |-> "idle", op |-> "none", holds |-> {}]
    /\ shutdown = "none"
    /\ maintenanceMode = 0
    /\ blockSync = FALSE
    /\ opsLeft = MaxOps
    /\ failuresLeft = MaxFailures
    /\ verifyFailed = {}
    /\ Mgr!Init

Producer ==
    \/ ProducerStart \/ ProducerTop \/ ProducerSlept \/ ProducerGate \/ ProducerCheck
    \/ FindTarget \/ ProduceLoop \/ FetchMore \/ SlaveDelayCut \/ WriteEntry \/ NoteEntry
    \/ FlowWoken \/ RollbackSearch \/ RollbackDrain \/ GoToRollbackState \/ RollbackReset
    \/ RollbackPurge \/ ProducerExit

Applier ==
    \/ ApplierStart \/ ApplierGet \/ NoteApplying \/ ApplySucceeds \/ ApplyFails
    \/ NoteApplied \/ ApplierPop \/ ApplierExit

CtlBegin ==
    \/ AssumePrimaryBegin \/ Relinquish \/ MaintenanceOnBegin \/ MaintenanceOff
    \/ BlockSyncBegin \/ UnblockSync \/ NewConfigBegin

CtlGoesOn ==
    \/ StopRunningWoken \/ StopQueueWoken \/ StartWoken \/ AssumePrimaryEnd
    \/ MaintenanceOnEnd \/ BlockSyncEnd \/ NewConfigEnd \/ NewConfigShuns \/ ReloadConfig

Boot ==
    \/ InitialSyncBegin \/ InitialSyncFails \/ InitialSyncDone \/ StartThreads \/ GoLive

Shutdown == ShutdownBegin \/ ShutdownApplier \/ ShutdownDone

Next ==
    \/ Boot \/ CtlBegin \/ CtlGoesOn \/ Producer \/ Applier \/ Shutdown
    \/ CommitBegin \/ CommitEnd \/ SpuriousWakeup

Spec == Init /\ [][Next]_vars

\* Every thread that can go on does, except that nobody has to begin an
\* operation, a commit or a shutdown.  A woken caller of startOpSyncThread gets
\* the mutex at some time when the producer runs, not only between two of its
\* runs: between them the producer sleeps or talks to another member.
FairSpec ==
    /\ Spec
    /\ WF_vars(Boot)
    /\ WF_vars(CtlGoesOn) /\ SF_vars(StartWoken /\ bg.opSyncRunning)
    /\ WF_vars(Producer)
    /\ WF_vars(Applier) /\ SF_vars(ApplySucceeds)
    /\ WF_vars(ShutdownApplier \/ ShutdownDone)
    /\ WF_vars(CommitEnd)

-----------------------------------------------------------------------------
(* Properties. *)

ProducerWorks ==
    producer.pc \in {"target", "loop", "more", "write", "note", "flow", "big", "rollback",
                     "drain", "toRollback", "reset", "purge"}

\* A primary does not replicate: the producer is out of produce(), so it cannot
\* write an entry a client's identifier collides with, nothing is queued, and
\* everything in the oplog is applied but what the retry loop has given up.
PrimaryIsSettled ==
    state = "PRIMARY" =>
        /\ ~ ProducerWorks
        /\ deque = <<>>
        /\ \A gtid \in DOMAIN oplog : oplog[gtid] # "unapplied"

\* Between two operations, a secondary replicates and a member in maintenance
\* or with its sync blocked does not: no order of operations leaves a secondary
\* that silently stopped, or a recovering member that still applies.  Only the
\* failed verify(iAmPotentiallyHot()) of assumePrimary does (rs.cpp:123).
StateMatchesReplication ==
    (boot = "done" /\ ctl.pc = "idle" /\ ~ bg.opSyncShouldExit /\ NotHot \notin verifyFailed) =>
        /\ state = "SECONDARY" => bg.opSyncShouldRun
        /\ state \in {"RECOVERING", "PRIMARY"} => ~ bg.opSyncShouldRun
        /\ state \notin {"FATAL", "SHUNNED"} =>
              (state = "RECOVERING" <=> maintenanceMode > 0 \/ blockSync)

\* An entry that is in the oplog and not applied is in the deque, or about to be
\* put there: the applier loses none, except the entries it has tried to apply
\* as often as the retry loop of bgsync.cpp:163 does, which the loop gives up
\* and takes for applied.
NothingUnappliedIsForgotten ==
    \A gtid \in DOMAIN oplog :
        \/ oplog[gtid] \in {"applied", "givenUp"}
        \/ gtid \in ToSet(deque)
        \/ producer.pc = "note" /\ producer.gtid = gtid

\* A rollback purges only what the applier is done with.
RollbackFindsNothingQueued ==
    producer.pc \in {"toRollback", "reset", "purge"} => deque = <<>> /\ unappliedGTIDs = {}

\* The threads call the methods of GTIDManager only when its own specification
\* allows it, so what is proved of GTIDManager holds of them; until a new
\* configuration takes a primary out of its state beside a commit, or shuns a
\* member that has not gone live.
RefinesManager == Mgr!Init /\ [][Mgr!Next \/ Disturbed']_(Mgr!vars)

\* Before a shutdown begins no verify of bgsync.cpp or assumePrimary fails,
\* except verify(iAmPotentiallyHot()) (rs.cpp:123) on a member frozen while it
\* stood for election; until a new configuration takes a primary out of its
\* state beside a commit, or shuns a member that has not gone live.  The checks
\* of a stop on a primary fail only beside the first commit of its term.
NoVerifyFails == (shutdown = "none" /\ ~ Disturbed) => verifyFailed \subseteq {NotHot}

\* stopOpSyncThread returns.
StopReturns == (ctl.pc \in {"stopRunning", "stopQueue"}) ~> (ctl.pc \notin {"stopRunning", "stopQueue"})

\* startOpSyncThread returns, once the initial sync is over.  During it a member
\* that was shunned and is back in the configuration waits, with the replica set
\* lock, for a producer that starts only after the initial sync; and an attempt
\* at the initial sync begins by taking that lock.
StartReturns ==
    (ctl.pc = "startWait" /\ boot \notin {"sync", "clone"}) ~> (ctl.pc # "startWait")

\* Every entry the producer wrote is applied, or rolled back, or given up after
\* as many failures as the retry loop allows.
EveryEntryIsApplied ==
    \A gtid \in Mgr!OplogGTIDs :
        (gtid \in DOMAIN oplog) ~> (gtid \in DOMAIN oplog => oplog[gtid] # "unapplied")

\* A producer held back by the flow control or by a big transaction goes on.
ProducerIsReleased == (producer.pc \in {"flow", "big"}) ~> (producer.pc \notin {"flow", "big"})

=============================================================================
