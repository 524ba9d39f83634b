---------------------------- MODULE ChunkMigration ----------------------------
(***************************************************************************)
(* Moving a chunk between two shards while routers write to it:            *)
(* s/d_migrate.cpp (the donor's moveChunk command and MigrateFromStatus,   *)
(* the recipient's MigrateStatus and its thread), the version checks of    *)
(* s/d_state.cpp with the chunk managers of s/d_chunk_manager.cpp, and the *)
(* router's side of them in s/version_manager.cpp.                         *)
(*                                                                         *)
(* Of every collection one chunk moves; a shard may have another one that  *)
(* stays (FirstPin).  A shard is a replica set that loses nothing it has   *)
(* flushed.  A writer is a single statement: it holds the shared lock of   *)
(* ShardedOperationScope and the database lock until its commit.           *)
(* An operator whose name extends another's with a fault is that operator  *)
(* with a plausible bug, and nothing uses it.                              *)
(***************************************************************************)
EXTENDS Integers, FiniteSets, FiniteSetsExt

CONSTANTS
    Shard, Coll, Key, Mongos,
    FirstOwner,     \* who has the collection's moving chunk at first
    FirstPin,       \* version of the chunk that stays on a shard, 0: none
    MaxMoves,       \* moveChunk commands
    MaxWrites,      \* writes of all routers
    MaxFaults,      \* lost messages, crashes, lost locks, aborts, other moves
    LostLockAt,     \* steps of moveChunk at which its lock may be taken over
    AbortAt         \* states of a recipient in which it may be told to abort

Move == 1..MaxMoves

\* A document as the i-th write left it; a delete is a write like the others.
Absent == -1

ASSUME MigrationAssumption ==
    /\ Cardinality(Shard) > 1
    /\ FirstOwner \in [Coll -> Shard]
    /\ FirstPin \in [Shard -> Nat \ {1, 2}]

VARIABLES
    config,     \* the chunks collection of the config server
    lock,       \* the distributed lock of a collection: the move that has it
    manager,    \* ShardingState::_chunks
    from,       \* MigrateFromStatus of a shard
    migratelog, \* its rows, committed
    to,         \* MigrateStatus of a shard
    move,       \* the moveChunk commands
    commit,     \* the _recvChunkCommit request of a move
    router,     \* a mongos, with the operation it has under way
    data,       \* the documents of the moving chunks on a shard
    disk,       \* what a crash leaves of them
    truth,      \* what the writers were told is there
    writes, faults

shardVars == <<manager, from, migratelog, to>>
dataVars == <<data, disk, truth>>
vars == <<config, lock, shardVars, move, commit, router, dataVars, writes, faults>>

-----------------------------------------------------------------------------
(* Versions and chunk managers.  A version is major * 2 + minor: a major   *)
(* version has at most one minor one here.                                 *)

Major(v) == v \div 2
IncMajor(v) == 2 * (Major(v) + 1)

\* Lastmods of all chunks, of those on one shard.
CollVersion(g) == Max({g.moving} \cup {g.pin[s] : s \in Shard})
ShardVersion(g, s) == Max({g.pin[s]} \cup (IF g.owner = s THEN {g.moving} ELSE {}))

NoManager == [has |-> FALSE, version |-> 0, coll |-> -1]

\* ShardChunkManager::make: the chunks changed since the old manager, or all.
\* A diff without chunks makes an empty manager.
Load(s, c) ==
    LET g == config[c]
        old == IF manager[s][c].coll > 0 THEN manager[s][c] ELSE NoManager
        New(owner, v) == v >= old.coll \/ (owner = s /\ v > old.version)
        mine == (IF g.owner = s /\ New(s, g.moving) THEN {g.moving} ELSE {})
                \cup (IF New(s, g.pin[s]) THEN {g.pin[s]} ELSE {})
        all == (IF New(g.owner, g.moving) THEN {g.moving} ELSE {})
               \cup {g.pin[t] : t \in {u \in Shard : g.pin[u] > 0 /\ New(u, g.pin[u])}}
    IN  IF all = {}
        THEN [has |-> FALSE, version |-> 0, coll |-> 0]
        ELSE [has |-> IF New(g.owner, g.moving) THEN g.owner = s ELSE old.has,
              version |-> Max({old.version} \cup mine),
              coll |-> Max({old.coll} \cup all)]

NewestAlways(s, c, p) == [manager EXCEPT ![s][c] = p]

\* The end of trySetVersion: the freshest manager is kept.
Newest(s, c, p) ==
    IF manager[s][c] = NoManager \/ p.version >= manager[s][c].version
    THEN [manager EXCEPT ![s][c] = p] ELSE manager

\* ShardChunkManager::cloneMinus; a shard left without chunks has version 0.
Minus(s, m, v) ==
    IF FirstPin[s] = 0
    THEN [has |-> FALSE, version |-> 0, coll |-> m.coll]
    ELSE [has |-> FALSE, version |-> v, coll |-> Max({v, m.coll})]

\* ShardChunkManager::clonePlus
Plus(m, v) == [has |-> TRUE, version |-> v, coll |-> Max({v, m.coll})]

-----------------------------------------------------------------------------
(* The states of the parts.                                                *)

NotMigrating == [active |-> FALSE, ns |-> CHOOSE c \in Coll : TRUE, snapshot |-> FALSE,
                 critical |-> FALSE, nextId |-> 0, clearFailed |-> FALSE]

NotReceiving == [active |-> FALSE, state |-> "READY", pc |-> "none",
                 ns |-> CHOOSE c \in Coll : TRUE, donor |-> CHOOSE s \in Shard : TRUE,
                 last |-> -1, afterCommit |-> FALSE]

NotMoved == [pc |-> "idle", c |-> CHOOSE c \in Coll : TRUE,
             s |-> CHOOSE s \in Shard : TRUE, t |-> CHOOSE s \in Shard : TRUE,
             maxVersion |-> 0, startingVersion |-> 0, p |-> NoManager]

NoOp == [stage |-> "none", s |-> CHOOSE s \in Shard : TRUE, c |-> CHOOSE c \in Coll : TRUE,
         p |-> NoManager, key |-> CHOOSE k \in Key : TRUE, val |-> Absent,
         logged |-> FALSE, id |-> 0]

\* A writer holds ShardedOperationScope: nobody gets SetVersionScope.
Writing(w) == router[w].op.stage \in {"writing", "numbered"}
NoWriterOn(s) == \A w \in Mongos : ~ (Writing(w) /\ router[w].op.s = s)

Faulty == faults < MaxFaults /\ faults' = faults + 1
Harmless == UNCHANGED faults

Init ==
    LET first == [c \in Coll |->
                     [owner |-> FirstOwner[c], moving |-> 2, pin |-> FirstPin]]
    IN  /\ config = first
        /\ lock = [c \in Coll |-> 0]
        /\ manager = [s \in Shard |-> [c \in Coll |-> NoManager]]
        /\ from = [s \in Shard |-> NotMigrating]
        /\ migratelog = [s \in Shard |-> {}]
        /\ to = [s \in Shard |-> NotReceiving]
        /\ move = [i \in Move |-> NotMoved]
        /\ commit = [i \in Move |-> "none"]
        /\ router = [w \in Mongos |->
                        [cache |-> first, op |-> NoOp,
                         version |-> [s \in Shard |-> [c \in Coll |-> 0]]]]
        /\ truth = [c \in Coll |-> [k \in Key |-> 0]]
        /\ data = [s \in Shard |-> [c \in Coll |->
                      IF s = FirstOwner[c] THEN truth[c] ELSE [k \in Key |-> Absent]]]
        /\ disk = data
        /\ writes = 0
        /\ faults = 0

-----------------------------------------------------------------------------
(* moveChunk on the donor.                                                 *)

At(i, pc) == move[i].pc = pc
Goto(i, pc) == move' = [move EXCEPT ![i].pc = pc]

\* Steps 1 and 2: the lock, and the chunk as the config server has it.
MoveStart(i, c, s, t) ==
    /\ At(i, "idle") /\ \A j \in 1..(i - 1) : ~ At(j, "idle")
    /\ s # t
    /\ ~ from[s].active
    /\ lock[c] = 0
    /\ config[c].owner = s
    /\ CollVersion(config[c]) >= manager[s][c].version
    /\ lock' = [lock EXCEPT ![c] = i]
    /\ move' = [move EXCEPT ![i] = [NotMoved EXCEPT
                    !.pc = "load", !.c = c, !.s = s, !.t = t,
                    !.maxVersion = CollVersion(config[c])]]
    /\ UNCHANGED <<config, shardVars, commit, router, dataVars, writes, faults>>

\* trySetVersion( maxVersion ): at that version already, or load ...
MoveLoad(i) ==
    LET m == move[i] IN
    /\ At(i, "load")
    /\ move' = [move EXCEPT ![i] =
           IF manager[m.s][m.c].version = m.maxVersion
           THEN [m EXCEPT !.pc = "begin", !.startingVersion = m.maxVersion]
           ELSE [m EXCEPT !.pc = "install", !.p = Load(m.s, m.c)]]
    /\ UNCHANGED <<config, lock, shardVars, commit, router, dataVars, writes, faults>>

\* ... and install; a shard without a version has nothing to move.
MoveInstall(i) ==
    LET m == move[i] IN
    /\ At(i, "install")
    /\ NoWriterOn(m.s)
    /\ manager' = Newest(m.s, m.c, m.p)
    /\ move' = [move EXCEPT ![i] = [m EXCEPT
           !.pc = IF Major(m.p.version) = 0 THEN "unlock" ELSE "begin",
           !.startingVersion = m.p.version, !.p = NoManager]]
    /\ UNCHANGED <<config, lock, from, migratelog, to, commit, router, dataVars,
                   writes, faults>>

\* Step 3: MigrateFromStatus::start, unless another move is active.
MoveBegin(i) ==
    LET m == move[i] IN
    /\ At(i, "begin")
    /\ IF from[m.s].active
       THEN Goto(i, "unlock") /\ UNCHANGED <<from, migratelog>>
       ELSE /\ Goto(i, "engage")
            /\ from' = [from EXCEPT ![m.s].active = TRUE, ![m.s].ns = m.c,
                                    ![m.s].snapshot = FALSE, ![m.s].nextId = 0,
                                    ![m.s].clearFailed = FALSE]
            /\ migratelog' = [migratelog EXCEPT ![m.s] = {}]
    /\ UNCHANGED <<config, lock, manager, to, commit, router, dataVars, writes, faults>>

\* clearMigrateLog throws, in start() or done(), which have set all but the
\* flags: before it committed the new migratelog or after.
ClearFails(s, c) ==
    \E id \in {from[s].nextId, 0}, rows \in {migratelog[s], {}} :
        /\ rows # migratelog[s] => id = 0
        /\ from' = [from EXCEPT ![s].ns = c, ![s].snapshot = FALSE, ![s].nextId = id,
                                ![s].clearFailed = TRUE]
        /\ migratelog' = [migratelog EXCEPT ![s] = rows]

MoveBeginFails(i) ==
    LET m == move[i] IN
    /\ At(i, "begin") /\ ~ from[m.s].active
    /\ ClearFails(m.s, m.c)
    /\ Goto(i, "unlock")
    /\ Faulty
    /\ UNCHANGED <<config, lock, manager, to, commit, router, dataVars, writes>>

\* MigrateStatus::prepare
Prepared(i) ==
    [to EXCEPT ![move[i].t] = [NotReceiving EXCEPT
        !.active = TRUE, !.pc = "delete", !.ns = move[i].c, !.donor = move[i].s]]

\* _recvChunkStart, whose answer may get lost.
MoveEngage(i) ==
    /\ At(i, "engage")
    /\ IF to[move[i].t].active
       THEN Goto(i, "return") /\ Harmless /\ UNCHANGED to
       ELSE /\ to' = Prepared(i)
            /\ \/ Goto(i, "poll") /\ Harmless
               \/ Goto(i, "return") /\ Faulty
    /\ UNCHANGED <<config, lock, manager, from, migratelog, commit, router, dataVars, writes>>

\* Step 4: _recvChunkStatus.
MovePoll(i) ==
    /\ At(i, "poll")
    /\ \/ to[move[i].t].state = "STEADY" /\ Goto(i, "check")
       \/ to[move[i].t].state = "FAIL" /\ Goto(i, "return")
    /\ UNCHANGED <<config, lock, shardVars, commit, router, dataVars, writes, faults>>

\* After a day of polls the loop ends, and moveChunk goes on.
MovePollsExhausted(i) ==
    /\ At(i, "poll")
    /\ to[move[i].t].state \notin {"STEADY", "FAIL"}
    /\ Goto(i, "check")
    /\ UNCHANGED <<config, lock, shardVars, commit, router, dataVars, writes, faults>>

\* No answer to _recvChunkStart or _recvChunkStatus.
MoveNoContact(i) ==
    /\ move[i].pc \in {"engage", "poll"}
    /\ Goto(i, "return")
    /\ Faulty
    /\ UNCHANGED <<config, lock, shardVars, commit, router, dataVars, writes>>

\* Step 5: is the lock still held?  Then enter the critical section.
MoveCheckLock(i) ==
    /\ At(i, "check")
    /\ IF lock[move[i].c] = i
       THEN Goto(i, "donate") /\ from' = [from EXCEPT ![move[i].s].critical = TRUE]
       ELSE Goto(i, "return") /\ UNCHANGED from
    /\ UNCHANGED <<config, lock, manager, migratelog, to, commit, router, dataVars,
                   writes, faults>>

\* 5.a, and the request of 5.b.  Its assertions throw.
MoveDonate(i) ==
    LET m == move[i]
        version == IncMajor(m.maxVersion)
        mine == manager[m.s][m.c] IN
    /\ At(i, "donate")
    /\ NoWriterOn(m.s)
    /\ IF mine.has /\ version > mine.version
       THEN /\ manager' = [manager EXCEPT ![m.s][m.c] = Minus(m.s, mine, version)]
            /\ commit' = [commit EXCEPT ![i] = "sent"]
            /\ Goto(i, "await")
       ELSE Goto(i, "unwind") /\ UNCHANGED <<manager, commit>>
    /\ UNCHANGED <<config, lock, from, migratelog, to, router, dataVars, writes, faults>>

\* The answer of the recipient, or none within 330 seconds.
MoveAnswer(i) ==
    /\ At(i, "await")
    /\ \/ commit[i] = "ok" /\ Goto(i, "config") /\ Harmless
       \/ commit[i] = "bad" /\ Goto(i, "undo") /\ Harmless
       \/ Goto(i, "undo") /\ Faulty
    /\ UNCHANGED <<config, lock, shardVars, commit, router, dataVars, writes>>

\* undoDonateChunk, which throws when the chunk is there.
MoveUndo(i) ==
    LET m == move[i]
        mine == manager[m.s][m.c] IN
    /\ At(i, "undo")
    /\ NoWriterOn(m.s)
    /\ IF mine.has
       THEN Goto(i, "unwind") /\ UNCHANGED manager
       ELSE /\ Goto(i, "return")
            /\ manager' = [manager EXCEPT ![m.s][m.c] = Plus(mine, m.startingVersion)]
    /\ UNCHANGED <<config, lock, from, migratelog, to, commit, router, dataVars,
                   writes, faults>>

\* A chunk that stays is among those of a manager of s, once it is loaded.
HasAnother(s, m) == FirstPin[s] > 0 /\ m.coll > 0

\* The transaction of 5.c: the chunk moved, and another of the donor's bumped
\* if its manager has one now.
Committed(i) ==
    LET m == move[i]
        version == IncMajor(m.maxVersion)
    IN  [config EXCEPT ![m.c] =
            [owner |-> m.t, moving |-> version,
             pin |-> IF HasAnother(m.s, manager[m.s][m.c])
                     THEN [@.pin EXCEPT ![m.s] = version + 1] ELSE @.pin]]

Unchanged(i) == CollVersion(config[move[i].c]) = move[i].maxVersion

MoveCommit(i) ==
    /\ At(i, "config")
    /\ Unchanged(i)
    /\ config' = Committed(i)
    /\ Goto(i, "leave")
    /\ UNCHANGED <<lock, shardVars, commit, router, dataVars, writes, faults>>

\* PrepareConfigsFailedCode: nothing was sent.
MoveBackOut(i) ==
    /\ At(i, "config")
    /\ Goto(i, "undo")
    /\ Faulty
    /\ UNCHANGED <<config, lock, shardVars, commit, router, dataVars, writes>>

MoveLeave(i) ==
    /\ At(i, "leave")
    /\ from' = [from EXCEPT ![move[i].s].critical = FALSE]
    /\ Goto(i, "done")
    /\ UNCHANGED <<config, lock, manager, migratelog, to, commit, router, dataVars,
                   writes, faults>>

DoneKeepsCritical(s) ==
    /\ NoWriterOn(s)
    /\ from' = [from EXCEPT ![s].active = FALSE, ![s].snapshot = FALSE, ![s].nextId = 0,
                            ![s].clearFailed = FALSE]
    /\ migratelog' = [migratelog EXCEPT ![s] = {}]

\* MigrateFromStatus::done ...
Done(s) ==
    /\ NoWriterOn(s)
    /\ from' = [from EXCEPT ![s].active = FALSE, ![s].snapshot = FALSE,
                            ![s].critical = FALSE, ![s].nextId = 0,
                            ![s].clearFailed = FALSE]
    /\ migratelog' = [migratelog EXCEPT ![s] = {}]

\* ... which clears the migratelog before its flags.
DoneFails(s) == NoWriterOn(s) /\ ClearFails(s, from[s].ns)

MoveDone(i) ==
    /\ At(i, "done")
    /\ Done(move[i].s)
    /\ Goto(i, "cleanup")
    /\ UNCHANGED <<config, lock, manager, to, commit, router, dataVars, writes, faults>>

MoveDoneFails(i) ==
    /\ At(i, "done")
    /\ DoneFails(move[i].s)
    /\ Goto(i, "unwind")
    /\ Faulty
    /\ UNCHANGED <<config, lock, manager, to, commit, router, dataVars, writes>>

EmptyRange(s, c) == [data EXCEPT ![s][c] = [k \in Key |-> Absent]]

\* cleanupOldData
MoveCleanup(i) ==
    /\ At(i, "cleanup")
    /\ data' = EmptyRange(move[i].s, move[i].c)
    /\ Goto(i, "return")
    /\ UNCHANGED <<config, lock, shardVars, commit, router, disk, truth, writes, faults>>

Unlock(i) == lock' = IF lock[move[i].c] = i THEN [lock EXCEPT ![move[i].c] = 0] ELSE lock

\* The destructors of MigrateStatusHolder and of the lock, after a return or
\* an exception.
MoveReturn(i) ==
    /\ \/ move[i].pc \in {"return", "unwind"} /\ Done(move[i].s)
       \/ At(i, "unlock") /\ UNCHANGED <<from, migratelog>>
    /\ Unlock(i)
    /\ Goto(i, "over")
    /\ UNCHANGED <<config, manager, to, commit, router, dataVars, writes, faults>>

\* After a return the exception of done() leaves the destructor.
MoveReturnFails(i) ==
    /\ At(i, "return")
    /\ DoneFails(move[i].s)
    /\ Unlock(i)
    /\ Goto(i, "over")
    /\ Faulty
    /\ UNCHANGED <<config, manager, to, commit, router, dataVars, writes>>

-----------------------------------------------------------------------------
(* The recipient.                                                          *)

\* MigrateStatus::startCommit
RecvCommit(i) ==
    LET t == move[i].t
        steady == to[t].state = "STEADY" IN
    /\ commit[i] = "sent"
    /\ commit' = [commit EXCEPT ![i] = IF steady THEN "waiting" ELSE "bad"]
    /\ to' = IF steady THEN [to EXCEPT ![t].state = "COMMIT_START"] ELSE to
    /\ UNCHANGED <<config, lock, manager, from, migratelog, move, router, dataVars,
                   writes, faults>>

RecvCommitSees(i) ==
    LET state == to[move[i].t].state IN
    /\ commit[i] = "waiting"
    /\ state \in {"DONE", "FAIL"}
    /\ commit' = [commit EXCEPT ![i] = IF state = "DONE" THEN "ok" ELSE "bad"]
    /\ UNCHANGED <<config, lock, shardVars, move, router, dataVars, writes, faults>>

\* After 300 seconds.
RecvCommitTimesOut(i) ==
    /\ commit[i] = "waiting"
    /\ commit' = [commit EXCEPT ![i] = "bad"]
    /\ to' = [to EXCEPT ![move[i].t].state = "FAIL"]
    /\ UNCHANGED <<config, lock, manager, from, migratelog, move, router, dataVars,
                   writes, faults>>

Receiving(t, pc) == to[t].active /\ to[t].pc = pc

\* The thread ends in this state.
Ended(t, state) == [to EXCEPT ![t].active = FALSE, ![t].state = state, ![t].pc = "none"]

\* _go, steps 0 to 2.
RecvDelete(t) ==
    /\ Receiving(t, "delete")
    /\ IF to[t].state = "READY"
       THEN /\ data' = EmptyRange(t, to[t].ns)
            /\ to' = [to EXCEPT ![t].state = "CLONE", ![t].pc = "clone"]
       ELSE to' = Ended(t, "FAIL") /\ UNCHANGED data
    /\ UNCHANGED <<config, lock, manager, from, migratelog, move, commit, router,
                   disk, truth, writes, faults>>

\* Step 3: _migrateStartCloneTransaction on the donor, under its database's
\* write lock, and the copy of that snapshot.
RecvClone(t) ==
    LET d == to[t].donor
        c == to[t].ns IN
    /\ Receiving(t, "clone")
    /\ NoWriterOn(d)
    /\ IF from[d].snapshot
       THEN to' = Ended(t, "FAIL") /\ UNCHANGED <<from, data>>
       ELSE /\ from' = [from EXCEPT ![d].snapshot = TRUE]
            /\ data' = [data EXCEPT ![t][c] = data[d][c]]
            /\ to' = [to EXCEPT ![t].state = "CATCHUP", ![t].pc = "catchup"]
    /\ UNCHANGED <<config, lock, manager, migratelog, move, commit, router, disk, truth,
                   writes, faults>>

\* transferMods: the rows from the last one applied, which has to be there.
Rows(t) == {r \in migratelog[to[t].donor] : r.id >= to[t].last}
NoGap(t) == to[t].last >= 0 => \E r \in Rows(t) : r.id = to[t].last

Applied(t) ==
    [data EXCEPT ![t] = [c \in Coll |-> [k \in Key |->
        LET new == {r \in Rows(t) : r.id > to[t].last /\ r.c = c /\ r.key = k}
        IN  IF new = {} THEN data[t][c][k]
            ELSE (CHOOSE r \in new : \A q \in new : q.id <= r.id).val]]]

LastApplied(t) == Max({to[t].last} \cup {r.id : r \in Rows(t)})

\* A transfer, after which the thread goes on.
Transfer(t, pc) ==
    /\ IF NoGap(t)
       THEN /\ data' = Applied(t)
            /\ to' = [to EXCEPT ![t].last = LastApplied(t), ![t].pc = pc]
       ELSE to' = Ended(t, "FAIL") /\ UNCHANGED data
    /\ UNCHANGED <<config, lock, manager, from, migratelog, move, commit, router,
                   disk, truth, writes, faults>>

\* Step 4.
RecvCatchup(t) == Receiving(t, "catchup") /\ Transfer(t, "caught")

\* The wait for the secondaries.  An abort after its end is overwritten.
RecvCaughtUp(t) ==
    /\ Receiving(t, "caught")
    /\ \/ to' = [to EXCEPT ![t].state = "STEADY", ![t].pc = "top"]
       \/ to[t].state = "ABORT" /\ to' = Ended(t, "ABORT")
    /\ UNCHANGED <<config, lock, manager, from, migratelog, move, commit, router, dataVars,
                   writes, faults>>

\* Step 5: the head of the loop ...
RecvTop(t) ==
    /\ Receiving(t, "top")
    /\ to' = IF to[t].state \in {"STEADY", "COMMIT_START"}
             THEN [to EXCEPT ![t].pc = "transfer",
                             ![t].afterCommit = @ \/ to[t].state = "COMMIT_START"]
             ELSE Ended(t, IF to[t].state = "FAIL" THEN "FAIL" ELSE "DONE")
    /\ UNCHANGED <<config, lock, manager, from, migratelog, move, commit, router, dataVars,
                   writes, faults>>

RecvTransfer(t) == Receiving(t, "transfer") /\ Transfer(t, "check")

FinishedEarly(t) == to[t].state = "COMMIT_START"

\* One transfer began after the commit message.
Finished(t) == to[t].state = "COMMIT_START" /\ to[t].afterCommit

\* ... and its end: log_flush before it is left with everything, once the
\* secondaries have it.
RecvCheck(t) ==
    /\ Receiving(t, "check")
    /\ \E replicated \in BOOLEAN :
          LET last == Finished(t) /\ replicated IN
          /\ to' = IF to[t].state = "ABORT" THEN Ended(t, "ABORT")
                   ELSE [to EXCEPT ![t].pc = IF last THEN "finish" ELSE "top"]
          /\ disk' = IF last THEN [disk EXCEPT ![t] = data[t]] ELSE disk
    /\ UNCHANGED <<config, lock, manager, from, migratelog, move, commit, router,
                   data, truth, writes, faults>>

RecvFinish(t) ==
    /\ Receiving(t, "finish")
    /\ to' = Ended(t, IF to[t].state = "FAIL" THEN "FAIL" ELSE "DONE")
    /\ UNCHANGED <<config, lock, manager, from, migratelog, move, commit, router, dataVars,
                   writes, faults>>

\* An exception in the thread.
RecvFail(t) ==
    /\ to[t].active
    /\ to' = Ended(t, "FAIL")
    /\ Faulty
    /\ UNCHANGED <<config, lock, manager, from, migratelog, move, commit, router, dataVars,
                   writes>>

\* _recvChunkAbort
RecvAbort(t) ==
    /\ to[t].state \in AbortAt
    /\ to' = [to EXCEPT ![t].state = "ABORT"]
    /\ Faulty
    /\ UNCHANGED <<config, lock, manager, from, migratelog, move, commit, router, dataVars,
                   writes>>

-----------------------------------------------------------------------------
(* The routers.                                                            *)

Idle(w) == router[w].op.stage = "none"

\* The chunk manager of a mongos is loaded anew.
Reload(w, c) ==
    /\ Idle(w)
    /\ router[w].cache[c] # config[c]
    /\ router' = [router EXCEPT ![w].cache[c] = config[c]]
    /\ UNCHANGED <<config, lock, shardVars, move, commit, dataVars, writes, faults>>

Target(w, c) == router[w].cache[c].owner
Wanted(w, c) == ShardVersion(router[w].cache[c], Target(w, c))
Known(w, c) == router[w].version[Target(w, c)][c]

\* setShardVersion, step 3: both agree.
SetShardVersion(w, c) ==
    LET s == Target(w, c) IN
    /\ Idle(w)
    /\ manager[s][c].version > 0
    /\ Major(Wanted(w, c)) = Major(manager[s][c].version)
    /\ Major(Known(w, c)) # Major(Wanted(w, c))
    /\ router' = [router EXCEPT ![w].version[s][c] = Wanted(w, c)]
    /\ UNCHANGED <<config, lock, shardVars, move, commit, dataVars, writes, faults>>

\* Step 4, with the versions read before its lock: a connection whose shard
\* was reset is reset, and what is older than either version is refused.  A
\* shard at version 0 refuses the first request, after it waited for the end
\* of a critical section, and takes the authoritative one that follows.
SlowShardVersion(w, c) ==
    LET s == Target(w, c)
        globalVersion == manager[s][c].version IN
    /\ Idle(w)
    /\ globalVersion > 0 => Major(Wanted(w, c)) # Major(globalVersion)
    /\ router' = [router EXCEPT
           ![w].version[s][c] = IF globalVersion = 0 THEN 0 ELSE @,
           ![w].op = IF Wanted(w, c) < Known(w, c) \/ Wanted(w, c) < globalVersion THEN NoOp
                     ELSE [NoOp EXCEPT !.stage = "asked", !.s = s, !.c = c]]
    /\ UNCHANGED <<config, lock, shardVars, move, commit, dataVars, writes, faults>>

\* trySetVersion: the shard is at that version by now, or looks at the config
\* server.
LoadVersion(w) ==
    LET op == router[w].op IN
    /\ op.stage = "asked"
    /\ router' = [router EXCEPT ![w] =
           IF manager[op.s][op.c].version = Wanted(w, op.c)
           THEN [@ EXCEPT !.op = NoOp, !.version[op.s][op.c] = Wanted(w, op.c)]
           ELSE [@ EXCEPT !.op.stage = "loaded", !.op.p = Load(op.s, op.c)]]
    /\ UNCHANGED <<config, lock, shardVars, move, commit, dataVars, writes, faults>>

InstallVersion(w) ==
    LET op == router[w].op IN
    /\ op.stage = "loaded"
    /\ NoWriterOn(op.s)
    /\ manager' = Newest(op.s, op.c, op.p)
    /\ router' = [router EXCEPT ![w].op = NoOp,
                      ![w].version[op.s][op.c] =
                          IF op.p.version = Wanted(w, op.c) THEN op.p.version ELSE @]
    /\ UNCHANGED <<config, lock, from, migratelog, to, move, commit, dataVars, writes, faults>>

\* A write arrives at the version its shard is at (shardVersionOk).  Whether
\* the migratelog gets it is decided here (shouldLogOp).
BeginWrite(w, c, k) ==
    LET s == Target(w, c) IN
    /\ Idle(w)
    /\ writes < MaxWrites
    /\ Major(Known(w, c)) = Major(Wanted(w, c))
    /\ Major(Known(w, c)) = Major(manager[s][c].version)
    /\ ~ \E x \in Mongos : /\ Writing(x) /\ router[x].op.s = s
                           /\ router[x].op.c = c /\ router[x].op.key = k
    /\ writes' = writes + 1
    /\ router' = [router EXCEPT ![w].op = [NoOp EXCEPT
                      !.stage = "writing", !.s = s, !.c = c, !.key = k, !.val = writes',
                      !.logged = from[s].active /\ from[s].ns = c /\ from[s].snapshot]]
    /\ UNCHANGED <<config, lock, shardVars, move, commit, dataVars, faults>>

\* startObjForMigrateLog
TakeLogId(w) ==
    LET op == router[w].op IN
    /\ op.stage = "writing" /\ op.logged
    /\ router' = [router EXCEPT ![w].op.stage = "numbered", ![w].op.id = from[op.s].nextId]
    /\ from' = [from EXCEPT ![op.s].nextId = @ + 1]
    /\ UNCHANGED <<config, lock, manager, migratelog, to, move, commit, dataVars, writes,
                   faults>>

\* commitRoot, flushed.
CommitWrite(w) ==
    LET op == router[w].op
        after == [data EXCEPT ![op.s][op.c][op.key] = op.val] IN
    /\ op.stage = (IF op.logged THEN "numbered" ELSE "writing")
    /\ data' = after
    /\ disk' = [disk EXCEPT ![op.s] = after[op.s]]
    /\ truth' = [truth EXCEPT ![op.c][op.key] = op.val]
    /\ migratelog' = IF op.logged
                     THEN [migratelog EXCEPT ![op.s] = @ \cup
                              {[id |-> op.id, c |-> op.c, key |-> op.key, val |-> op.val]}]
                     ELSE migratelog
    /\ router' = [router EXCEPT ![w].op = NoOp]
    /\ UNCHANGED <<config, lock, manager, from, to, move, commit, writes, faults>>

-----------------------------------------------------------------------------
(* Crashes and the distributed lock.                                       *)

\* A shard dies and starts again with what it has on disk, or all it had.
Die(s) ==
    /\ manager' = [manager EXCEPT ![s] = [c \in Coll |-> NoManager]]
    /\ from' = [from EXCEPT ![s] = NotMigrating]
    /\ to' = [to EXCEPT ![s] = NotReceiving]
    /\ move' = [i \in Move |-> IF move[i].s = s /\ ~ At(i, "idle")
                               THEN [move[i] EXCEPT !.pc = "over"] ELSE move[i]]
    /\ commit' = [i \in Move |-> IF move[i].t = s /\ commit[i] \in {"sent", "waiting"}
                                 THEN "bad" ELSE commit[i]]
    /\ router' = [w \in Mongos |->
                     [router[w] EXCEPT !.version[s] = [c \in Coll |-> 0],
                                       !.op = IF @.s = s THEN NoOp ELSE @]]
    /\ \E left \in {data[s], disk[s]} :
          data' = [data EXCEPT ![s] = left] /\ disk' = [disk EXCEPT ![s] = left]
    /\ UNCHANGED <<lock, migratelog, truth, writes>>

Crash(s) == Die(s) /\ Faulty /\ UNCHANGED config

\* 5.c: the precondition fails, or nobody knows what became of the commit.
MoveTerminate(i) ==
    /\ At(i, "config")
    /\ \/ ~ Unchanged(i) /\ Harmless /\ UNCHANGED config
       \/ Unchanged(i) /\ Faulty /\ config' \in {config, Committed(i)}
    /\ Die(move[i].s)

\* done() throws in the destructor while an exception is on its way.
MoveAborts(i) ==
    /\ At(i, "unwind")
    /\ Die(move[i].s)
    /\ UNCHANGED <<config, faults>>

\* The lock of a dead process is taken over.
TakeOver(c) ==
    /\ lock[c] # 0
    /\ At(lock[c], "over")
    /\ lock' = [lock EXCEPT ![c] = 0]
    /\ UNCHANGED <<config, shardVars, move, commit, router, dataVars, writes, faults>>

\* Another process moves a chunk not modelled, which changes the version of
\* the one that stays on s: under the lock, or after it took over the lock of
\* a live process that did not ping in time.
OtherMove(c, s) ==
    /\ lock[c] # 0 => move[lock[c]].pc \in LostLockAt
    /\ FirstPin[s] > 0
    /\ config' = [config EXCEPT ![c].pin[s] = IncMajor(CollVersion(config[c]))]
    /\ lock' = [lock EXCEPT ![c] = 0]
    /\ Faulty
    /\ UNCHANGED <<shardVars, move, commit, router, dataVars, writes>>

-----------------------------------------------------------------------------

MoveStep(i) ==
    \/ MoveLoad(i) \/ MoveInstall(i) \/ MoveBegin(i) \/ MoveEngage(i) \/ MovePoll(i)
    \/ MovePollsExhausted(i) \/ MoveCheckLock(i) \/ MoveDonate(i) \/ MoveAnswer(i)
    \/ MoveUndo(i) \/ MoveCommit(i) \/ MoveTerminate(i) \/ MoveLeave(i) \/ MoveDone(i)
    \/ MoveCleanup(i) \/ MoveReturn(i)
    \/ RecvCommit(i) \/ RecvCommitSees(i) \/ RecvCommitTimesOut(i)

RecvStep(t) ==
    \/ RecvDelete(t) \/ RecvClone(t) \/ RecvCatchup(t) \/ RecvCaughtUp(t)
    \/ RecvTop(t) \/ RecvTransfer(t) \/ RecvCheck(t) \/ RecvFinish(t)

WriteStep(w) == TakeLogId(w) \/ CommitWrite(w)

Next ==
    \/ \E i \in Move :
          \/ \E c \in Coll, s, t \in Shard : MoveStart(i, c, s, t)
          \/ MoveStep(i) \/ MoveNoContact(i) \/ MoveBackOut(i)
          \/ MoveBeginFails(i) \/ MoveDoneFails(i) \/ MoveReturnFails(i) \/ MoveAborts(i)
    \/ \E t \in Shard : RecvStep(t) \/ RecvFail(t) \/ RecvAbort(t) \/ Crash(t)
    \/ \E w \in Mongos, c \in Coll :
          \/ Reload(w, c) \/ SetShardVersion(w, c) \/ SlowShardVersion(w, c)
          \/ \E k \in Key : BeginWrite(w, c, k)
    \/ \E w \in Mongos : WriteStep(w) \/ LoadVersion(w) \/ InstallVersion(w)
    \/ \E c \in Coll : TakeOver(c) \/ \E s \in Shard : OtherMove(c, s)

Spec == Init /\ [][Next]_vars

\* Commands, their handlers and writes go on until all have ended; so does the
\* thread of each recipient, which may go round for ever.
FairSpec ==
    /\ Spec
    /\ WF_vars(\E i \in Move : MoveStep(i))
    /\ WF_vars(\E w \in Mongos : WriteStep(w))
    /\ \A t \in Shard : WF_vars(RecvStep(t))

-----------------------------------------------------------------------------
(* Properties.                                                             *)

\* Whoever the config server says has the chunk has every write that was
\* acknowledged and nothing else, whichever answer, process, lock or clear is
\* lost on the way (the last transfer of _go after _recvChunkCommit, and
\* undoDonateChunk).  It needs migratelog ids that are committed in order, one
\* collection per donor and a lock that is kept until the cleanup.
OwnerHasEverything == \A c \in Coll : data[config[c].owner][c] = truth[c]

\* A shard that believes it has the chunk is the one the config server names
\* (donateChunk before the commit, the freshest manager in trySetVersion), as
\* long as every shard keeps a chunk, so that its version never is 0 again.
ClaimsAreTrue ==
    \A s \in Shard, c \in Coll : manager[s][c].has => config[c].owner = s

\* Again and again every donor is out of its critical section, but for one whose
\* migratelog could not be cleared: done(), called last by
\* ~MigrateStatusHolder, throws before it takes the flag back.
CriticalSectionEnds ==
    []<>(\A s \in Shard : from[s].critical => from[s].clearFailed)

=============================================================================
