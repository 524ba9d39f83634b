---------------------------- MODULE OplogMember ----------------------------
(***************************************************************************)
(* What a member keeps on disk and how it starts from it: initial sync     *)
(* (repl/rs_initialsync.cpp), startup (ReplSetImpl::_go), replInfo and the *)
(* thread that writes it (repl/rs.cpp), and the storage transactions of    *)
(* replication and rollback (repl/bgsync.cpp, oplog.cpp).                  *)
(*                                                                         *)
(* The member follows a primary whose transactions commit out of order:    *)
(* its oplog may have gaps, which are below its minLive.  The member may   *)
(* crash between any two transactions.  Another primary may take over with *)
(* a part of the old one's oplog, and may give out the same GTIDs again,   *)
(* though none of a commit that failed (see the README).                   *)
(*                                                                         *)
(* GTIDs are numbers, 0 the initial one; an entry of the oplog is a GTID   *)
(* and the primary it came from, for which the code compares time and      *)
(* hash.  The storage engine recovers a prefix of the commits before a     *)
(* crash, which is the state of an earlier crash.                          *)
(***************************************************************************)
EXTENDS Naturals, FiniteSets, FiniteSetsExt

CONSTANTS
    MaxGTID, MaxCrashes, MaxTakeovers,   \* bounds
    MaxFailedAttempts, \* maxFailedAttempts
    CrashAfterClone    \* may the member crash with gaps still to be filled?

ASSUME MemberAssumption ==
    /\ {MaxGTID, MaxFailedAttempts} \subseteq Nat \ {0} /\ {MaxCrashes, MaxTakeovers} \subseteq Nat
    /\ CrashAfterClone \in BOOLEAN

VARIABLES
    src,       \* the primary: its oplog, live GTIDs, last GTID, replInfo
    epoch,     \* which primary it is
    disk,      \* the member's oplog with applied bits, and its replInfo
    data,      \* the entries whose operations are in its collections
    phase,     \* how far it is in _go, or in a rollback
    conn,      \* the primary it is connected to, 0 for none
    mem,       \* its GTIDManager
    applying,  \* the GTID being applied, or 0
    todo,      \* unappliedTransactions of initial sync
    info,      \* updateReplInfoThread: what it read, what it wrote last
    failedAttempts,
    crashes

vars == <<src, epoch, disk, data, phase, conn, mem, applying, todo, info, failedAttempts, crashes>>
memberVars == <<disk, data, phase, conn, mem, applying, todo, info, failedAttempts, crashes>>

\* The highest GTID of a set of entries, 0 if there is none.
LastGTID(entries) == Max({e.gtid : e \in entries} \cup {0})

Entry(e) == [gtid |-> e.gtid, from |-> e.from]
WithBit(e, applied) == [gtid |-> e.gtid, from |-> e.from, a |-> applied]
Entries(oplog) == {Entry(e) : e \in oplog}
LastEntry(oplog) == CHOOSE e \in oplog : e.gtid = LastGTID(oplog)

-----------------------------------------------------------------------------
(* The primary.                                                            *)

minLive == IF src.live = {} THEN src.last + 1 ELSE Min(src.live)

\* What a tailing cursor on its oplog returns.
Visible == {e \in src.log : e.gtid < minLive}

GetGTID ==
    /\ src.last < MaxGTID - 1
    /\ src' = [src EXCEPT !.last = @ + 1, !.live = @ \cup {src.last + 1}]
    /\ UNCHANGED <<memberVars, epoch>>

Commit(g) ==
    /\ g \in src.live /\ g \notin {e.gtid : e \in src.log}
    /\ src' = [src EXCEPT !.log = @ \cup {[gtid |-> g, from |-> epoch]}]
    /\ UNCHANGED <<memberVars, epoch>>

\* noteLiveGTIDDone, also of a transaction that failed to commit.
GTIDDone(g) ==
    /\ g \in src.live
    /\ src' = [src EXCEPT !.live = @ \ {g}]
    /\ UNCHANGED <<memberVars, epoch>>

\* keepOplogAliveThread commits a comment when nothing else has been committed for
\* a while.  The last GTID is left for this thread of the last primary, which can
\* therefore always go on.
keepOplogAlive ==
    /\ src.last < MaxGTID
    /\ src.last = MaxGTID - 1 => epoch > MaxTakeovers
    /\ src' = [src EXCEPT !.last = @ + 1,
                          !.log = @ \cup {[gtid |-> src.last + 1, from |-> epoch]}]
    /\ UNCHANGED <<memberVars, epoch>>

\* The primary's replInfo catches up: minLive, and minUnapplied is the same.
SourceReplInfo ==
    /\ src.info # minLive
    /\ src' = [src EXCEPT !.info = minLive]
    /\ UNCHANGED <<memberVars, epoch>>

\* Every GTID above g is in the oplog or live: no commit failed there.
NoneFailedAbove(g) ==
    \A f \in (g + 1)..src.last : f \in src.live \/ f \in {e.gtid : e \in src.log}

\* Another primary, which had replicated up to g.  Its GTIDs are above all of
\* the old one's (a higher primarySeqNo), unless both became primary at once.
TakeOver(g) ==
    /\ epoch <= MaxTakeovers
    /\ g \in {e.gtid : e \in Visible}
    /\ epoch' = epoch + 1
    /\ \E i \in 1..(g + 1), l \in {src.last} \cup (IF NoneFailedAbove(g) THEN {g} ELSE {}) :
          src' = [log |-> {e \in Visible : e.gtid <= g}, live |-> {}, last |-> l, info |-> i]
    /\ UNCHANGED memberVars

-----------------------------------------------------------------------------
(* Startup and initial sync.                                               *)

NoMemory == [lastLive |-> 0, lastUnapplied |-> 0, minUnapplied |-> 0]
NoInfo == [read |-> NoMemory, wrote |-> NoMemory, busy |-> FALSE]

\* resetAfterInitialSync.
ResetTo(g) == [lastLive |-> g, lastUnapplied |-> g, minUnapplied |-> g + 1]

\* loadGTIDManager: with an oplog there is no full sync.
Start ==
    /\ phase = "down"
    /\ mem' = [NoMemory EXCEPT !.lastLive = LastGTID(disk.log)]
    /\ phase' = IF LastGTID(disk.log) = 0 THEN "fullSync" ELSE "applyMissing"
    /\ UNCHANGED <<src, epoch, disk, data, conn, applying, todo, info, failedAttempts, crashes>>

\* _syncDoInitialSync finds someone with an oplog, and drops all databases.
DropDatabases ==
    /\ phase = "fullSync" /\ src.log # {}
    /\ data' = {} /\ conn' = epoch /\ phase' = "dropped"
    /\ UNCHANGED <<src, epoch, disk, mem, applying, todo, info, failedAttempts, crashes>>

deleteOplogFiles ==
    /\ phase = "dropped"
    /\ disk' = [log |-> {}, minLive |-> 0, minUnapplied |-> 0]
    /\ phase' = "clone"
    /\ UNCHANGED <<src, epoch, data, conn, mem, applying, todo, info, failedAttempts, crashes>>

\* The clone is a snapshot of the data, replInfo and the oplog.
Clone ==
    /\ phase = "clone" /\ conn = epoch
    /\ disk' = [log |-> {WithBit(e, TRUE) : e \in src.log},
                minLive |-> src.info, minUnapplied |-> src.info]
    /\ data' = src.log
    /\ phase' = "fillGaps"
    /\ UNCHANGED <<src, epoch, conn, mem, applying, todo, info, failedAttempts, crashes>>

GapsFromLast ==
    {e \in Visible : e.gtid > LastGTID(disk.log)}

\* _fillGaps: entries of the primary from minLive up to the last one cloned.
Gaps ==
    {e \in Visible : /\ e.gtid >= disk.minLive /\ e.gtid <= LastGTID(disk.log)
                     /\ e.gtid \notin {f.gtid : f \in disk.log}}

\* One transaction; it waits for the last entry cloned to become visible.
fillGaps ==
    /\ phase = "fillGaps" /\ conn = epoch
    /\ LastGTID(disk.log) < minLive
    /\ disk' = [disk EXCEPT !.log = @ \cup {WithBit(e, FALSE) : e \in Gaps}]
    /\ phase' = "applyMissing"
    /\ UNCHANGED <<src, epoch, data, conn, mem, applying, todo, info, failedAttempts, crashes>>

\* The connection is lost while data is copied: syncDoInitialSync tries again,
\* with the GTIDManager as it is.
CloneFails ==
    /\ phase = "clone" /\ conn # epoch
    /\ phase' = "fullSync"
    /\ UNCHANGED <<src, epoch, disk, data, conn, mem, applying, todo, info, failedAttempts, crashes>>

\* The connection is lost while gaps are filled, or the last entry does not become
\* visible before the first batch ends (tailingQuery verifies that there is no
\* cursor yet): the exception counts, and after the last attempt fassert ends the
\* process.
fillGapsThrows ==
    /\ phase = "fillGaps"
    /\ conn # epoch \/ LastGTID(disk.log) >= minLive
    /\ failedAttempts' = failedAttempts + 1
    /\ phase' = IF failedAttempts + 1 < MaxFailedAttempts THEN "fullSync" ELSE "stopped"
    /\ UNCHANGED <<src, epoch, disk, data, conn, mem, applying, todo, info, crashes>>

FindMissingFromLive ==
    /\ phase = "applyMissing"
    /\ todo' = {e \in disk.log : ~ e.a /\ e.gtid >= disk.minLive}
    /\ phase' = "applying"
    /\ UNCHANGED <<src, epoch, disk, data, conn, mem, applying, info, failedAttempts, crashes>>

\* _applyMissingOpsDuringInitialSync collects what is not applied ...
FindMissing ==
    /\ phase = "applyMissing"
    /\ todo' = {e \in disk.log : ~ e.a /\ e.gtid >= disk.minUnapplied}
    /\ phase' = "applying"
    /\ UNCHANGED <<src, epoch, disk, data, conn, mem, applying, info, failedAttempts, crashes>>

\* applyTransactionFromOplog: one storage transaction.
ApplyEntry(e) ==
    /\ data' = data \cup {Entry(e)}
    /\ disk' = [disk EXCEPT !.log = (@ \ {e}) \cup {WithBit(e, TRUE)}]

\* ... and applies it.
ApplyMissing ==
    /\ phase = "applying" /\ todo # {}
    /\ LET e == CHOOSE f \in todo : \A g \in todo : f.gtid <= g.gtid
       IN  ApplyEntry(e) /\ todo' = todo \ {e}
    /\ UNCHANGED <<src, epoch, phase, conn, mem, applying, info, failedAttempts, crashes>>

\* The rest of _go: the GTIDManager is reset and the threads start.
GoLive ==
    /\ phase = "applying" /\ todo = {}
    /\ mem' = ResetTo(LastGTID(disk.log))
    /\ conn' = 0
    /\ phase' = "live"
    /\ UNCHANGED <<src, epoch, disk, data, applying, todo, info, failedAttempts, crashes>>

\* The clone is committed, and its gaps are not filled, or it is about to be
\* thrown away, or the process has given up.
SyncIsHalfDone == disk.log # {} /\ phase \in {"fillGaps", "fullSync", "dropped", "stopped"}

Crash ==
    /\ phase # "down" /\ crashes < MaxCrashes
    /\ SyncIsHalfDone => CrashAfterClone
    /\ phase' = "down" /\ conn' = 0 /\ mem' = NoMemory /\ applying' = 0
    /\ todo' = {} /\ info' = NoInfo /\ failedAttempts' = 0 /\ crashes' = crashes + 1
    /\ UNCHANGED <<src, epoch, disk, data>>

-----------------------------------------------------------------------------
(* Replication.                                                            *)

\* The producer has written an entry that the GTIDManager does not know yet.
Written == LastGTID(disk.log) > mem.lastLive

\* The first entry the source returns from our last one on.
FirstFromLast ==
    CHOOSE e \in Visible :
        /\ e.gtid >= mem.lastLive
        /\ \A f \in Visible : f.gtid >= mem.lastLive => e.gtid <= f.gtid

SourceHasOurs == \E e \in Visible : e.gtid >= mem.lastLive

RollbackNeeded == FirstFromLast # Entry(LastEntry(disk.log))

\* produce: connected, and isRollbackRequired says no.
Connect ==
    /\ phase = "live" /\ conn # epoch /\ ~ Written
    /\ SourceHasOurs /\ ~ RollbackNeeded
    /\ conn' = epoch
    /\ UNCHANGED <<src, epoch, disk, data, phase, mem, applying, todo, info, failedAttempts, crashes>>

\* The next entry, written to the oplog in a transaction of its own.
WriteEntry ==
    /\ phase = "live" /\ conn = epoch /\ ~ Written
    /\ \E e \in Visible :
          /\ e.gtid > mem.lastLive
          /\ \A f \in Visible : f.gtid > mem.lastLive => e.gtid <= f.gtid
          /\ disk' = [disk EXCEPT !.log = @ \cup {WithBit(e, FALSE)}]
    /\ UNCHANGED <<src, epoch, data, phase, conn, mem, applying, todo, info, failedAttempts, crashes>>

noteGTIDAdded ==
    /\ phase = "live" /\ Written
    /\ mem' = [mem EXCEPT !.lastLive = LastGTID(disk.log)]
    /\ UNCHANGED <<src, epoch, disk, data, phase, conn, applying, todo, info, failedAttempts, crashes>>

\* The entries in the applier's queue.
Queue == {e \in disk.log : e.gtid > mem.lastUnapplied /\ e.gtid <= mem.lastLive}

noteApplyingGTID ==
    /\ phase = "live" /\ applying = 0 /\ Queue # {}
    /\ LET g == Min({e.gtid : e \in Queue})
       IN  /\ applying' = g
           /\ mem' = [mem EXCEPT !.lastUnapplied = g, !.minUnapplied = g]
    /\ UNCHANGED <<src, epoch, disk, data, phase, conn, todo, info, failedAttempts, crashes>>

ApplyQueued ==
    /\ phase = "live" /\ applying # 0
    /\ \E e \in disk.log : e.gtid = applying /\ ~ e.a /\ ApplyEntry(e)
    /\ UNCHANGED <<src, epoch, phase, conn, mem, applying, todo, info, failedAttempts, crashes>>

noteGTIDApplied ==
    /\ phase = "live" /\ applying # 0
    /\ WithBit(CHOOSE e \in disk.log : e.gtid = applying, TRUE) \in disk.log
    /\ mem' = [mem EXCEPT !.minUnapplied = mem.lastUnapplied + 1]
    /\ applying' = 0
    /\ UNCHANGED <<src, epoch, disk, data, phase, conn, todo, info, failedAttempts, crashes>>

-----------------------------------------------------------------------------
(* Rollback.                                                               *)

\* What both have: the remote oplog is read without regard to minLive.
Common == {e \in Entries(disk.log) \cap src.log : e.gtid <= mem.lastLive}

\* runRollback finds the point, waits for the applier, resets the manager.
RollbackReset ==
    /\ phase = "live" /\ conn # epoch /\ ~ Written
    /\ SourceHasOurs /\ RollbackNeeded
    /\ applying = 0 /\ Queue = {}
    /\ IF Common = {}
       THEN phase' = "fatal" /\ UNCHANGED mem
       ELSE phase' = "reset" /\ mem' = ResetTo(LastGTID(Common))
    /\ UNCHANGED <<src, epoch, disk, data, conn, applying, todo, info, failedAttempts, crashes>>

forceUpdateNothing ==
    /\ phase = "reset" /\ ~ info.busy
    /\ phase' = "purge"
    /\ UNCHANGED <<src, epoch, disk, data, conn, mem, applying, todo, info, failedAttempts, crashes>>

forceUpdateReplInfo ==
    /\ phase = "reset" /\ ~ info.busy
    /\ disk' = [disk EXCEPT !.minLive = mem.lastLive + 1, !.minUnapplied = mem.minUnapplied]
    /\ phase' = "purge"
    /\ UNCHANGED <<src, epoch, data, conn, mem, applying, todo, info, failedAttempts, crashes>>

\* rollbackTransactionFromOplog of the last entry: one transaction.
Purge ==
    /\ phase = "purge" /\ LastGTID(disk.log) > mem.lastLive
    /\ LET e == LastEntry(disk.log)
       IN  /\ disk' = [disk EXCEPT !.log = @ \ {e}]
           /\ data' = IF e.a THEN data \ {Entry(e)} ELSE data
    /\ UNCHANGED <<src, epoch, phase, conn, mem, applying, todo, info, failedAttempts, crashes>>

RollbackEndsBelow ==
    /\ phase = "purge" /\ LastGTID(disk.log) < mem.lastLive
    /\ phase' = "live"
    /\ UNCHANGED <<src, epoch, disk, data, conn, mem, applying, todo, info, failedAttempts, crashes>>

RollbackEnds ==
    /\ phase = "purge" /\ LastGTID(disk.log) <= mem.lastLive
    /\ phase' = "live"
    /\ UNCHANGED <<src, epoch, disk, data, conn, mem, applying, todo, info, failedAttempts, crashes>>

-----------------------------------------------------------------------------
(* updateReplInfoThread holds _replInfoMutex from the one to the other.    *)

ReadMins ==
    /\ phase \in {"live", "reset", "purge"} /\ ~ info.busy
    /\ mem.lastLive # info.wrote.lastLive \/ mem.minUnapplied # info.wrote.minUnapplied
    /\ info' = [info EXCEPT !.read = mem, !.busy = TRUE]
    /\ UNCHANGED <<src, epoch, disk, data, phase, conn, mem, applying, todo, failedAttempts, crashes>>

logToReplInfo ==
    /\ info.busy
    /\ disk' = [disk EXCEPT !.minLive = info.read.lastLive + 1,
                            !.minUnapplied = info.read.minUnapplied]
    /\ info' = [NoInfo EXCEPT !.wrote = info.read]
    /\ UNCHANGED <<src, epoch, data, phase, conn, mem, applying, todo, failedAttempts, crashes>>

-----------------------------------------------------------------------------

Init ==
    /\ src = [log |-> {[gtid |-> 1, from |-> 1]}, live |-> {}, last |-> 1, info |-> 1]
    /\ epoch = 1
    /\ disk = [log |-> {}, minLive |-> 0, minUnapplied |-> 0]
    /\ data = {} /\ phase = "down" /\ conn = 0 /\ mem = NoMemory
    /\ applying = 0 /\ todo = {} /\ info = NoInfo /\ failedAttempts = 0 /\ crashes = 0

StartUp == \/ Start \/ DropDatabases \/ deleteOplogFiles \/ Clone \/ fillGaps
           \/ CloneFails \/ fillGapsThrows \/ FindMissing \/ ApplyMissing \/ GoLive
Producer == Connect \/ WriteEntry \/ noteGTIDAdded
Applier == noteApplyingGTID \/ ApplyQueued \/ noteGTIDApplied
Rollback == RollbackReset \/ forceUpdateReplInfo \/ Purge \/ RollbackEnds
InfoThread == ReadMins \/ logToReplInfo

Next ==
    \/ GetGTID \/ keepOplogAlive \/ SourceReplInfo
    \/ \E g \in 1..MaxGTID : Commit(g) \/ GTIDDone(g) \/ TakeOver(g)
    \/ StartUp \/ Producer \/ Applier \/ Rollback \/ InfoThread
    \/ Crash

Spec == Init /\ [][Next]_vars

Fairness ==
    /\ \A g \in 1..MaxGTID : WF_vars(GTIDDone(g))
    /\ WF_vars(keepOplogAlive)
    /\ WF_vars(StartUp) /\ WF_vars(Producer) /\ WF_vars(Applier) /\ WF_vars(Rollback)
    /\ WF_vars(InfoThread)

FairSpec == Spec /\ Fairness

-----------------------------------------------------------------------------
(* Properties.                                                             *)

\* A member that is live and whose last entry is one of its source's has all
\* entries of the source up to that one and no other: _go's "if an oplog
\* exists, it will catch up whatever data it needs" and the comparison of
\* GTID, time and hash in isRollbackRequired rely on it.
LogsMatch ==
    phase = "live" /\ Entry(LastEntry(disk.log)) \in Visible =>
        Entries(disk.log) = {e \in Visible : e.gtid <= LastGTID(disk.log)}

\* While a member is live no unapplied entry of its oplog is forgotten: it is
\* in the applier's hands or in its queue.  A restart finds unapplied entries
\* from the minUnapplied on disk on, which trails the manager and goes back in
\* a rollback.
NothingUnappliedIsLost ==
    phase = "live" =>
        \A e \in disk.log : e.a \/ e.gtid = applying \/ e.gtid > mem.lastUnapplied

\* replInfo on disk never claims more than a restart at this moment could
\* rely on.
ReplInfoIsSafe ==
    phase \notin {"fullSync", "dropped", "clone"} =>
        \A e \in disk.log : e.a \/ e.gtid >= disk.minUnapplied

\* In the end the member has what the primary has, and has applied it, also when
\* it was ahead of a new primary, which goes on to write (keepOplogAliveThread);
\* unless a rollback found nothing in common, or filling the gaps of a clone failed
\* maxFailedAttempts times and the process has ended.
CatchesUp ==
    <>[](\/ phase \in {"fatal", "stopped"}
         \/ Visible = Entries(disk.log) /\ data = Visible)

=============================================================================
