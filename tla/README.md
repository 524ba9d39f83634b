# TokuMX replication and transactions: a TLA+ development

Paths below are relative to `src/mongo/db/` unless they say otherwise.

## The system

TokuMX is a MongoDB server on a transactional storage engine. Its replication is
its own. A primary commits each client transaction together with an *oplog*
entry, named by a global transaction identifier (GTID). Secondaries copy entries
in GTID order in one thread and apply them in another.

| part | state | operations | what makes it hard |
| --- | --- | --- | --- |
| `GTIDManager` (`gtid.*`) | last and least open GTIDs, live and unapplied | hand out, finish, add, apply, reset | commits finish out of order; four callers |
| tailable cursors (`indexcursor.cpp`, `cursor.cpp`) | position, end key, row buffer | open, advance, set tailable | bulk fetches beyond the bound, partitions |
| `BackgroundSync` (`repl/bgsync.*`) | queue, flags, condition variables | produce, apply, roll back, start, stop, shut down | two threads and every state change of the member |
| member state (`repl/rs.*`, `repl/rs_sync.cpp`) | role, maintenance, blocked, replInfo | step up and down, maintenance, block, reconfigure, restart | stops replication with locks held |
| initial sync (`repl/rs_initialsync.cpp`) | cloned data, gaps, replInfo | clone, fill gaps, apply, restart | crash between the steps |
| elections (`repl/consensus.cpp`, `manager.cpp`, `heartbeat.cpp`) | votes with a lease, views of others | vote, elect, step down, veto | stale heartbeats, clocks, two primaries |
| oplog partitions (`oplog.cpp`, `collection.cpp`) | pivots, `maxRefGTID` | add, trim by time or GTID | entries refer to rows of another collection |
| `TxnOplog` (`txn_context.*`, `oplog.cpp`) | operations per nested transaction, `oplog.refs` | append, spill, commit child or root | numbering across parents and children |
| `SpillableVector` (`spillable_vector.*`) | log of a chunk migration | append, spill, transfer, iterate | children write into their parents |
| capped collections (`collection.*`) | next key, least uncommitted keys, count, size | insert, trim, update, commit, abort | tailable cursors beside open transactions |
| write concern (`repl_block.cpp`) | positions of secondaries | wait for w members | rollback of acknowledged writes |
| chunk migration (`../s/d_migrate.cpp`, `d_state.cpp`, `d_chunk_manager.cpp`, `version_manager.cpp`) | chunk managers, the migration's log, states of donor and recipient | move, transfer, commit, back out, check versions | two shards, the config server and routers; lost answers, lost locks, crashes, a log that cannot be cleared |
| the rest of sharding (`../s/`) | chunks, statistics, locks | balance, split, route | several servers |

How they meet: a root commit (`TxnContext::commitRoot`) asks the `GTIDManager`
for a GTID, has `TxnOplog` write the entry, commits, and then notes the GTID
done and the capped collections' keys complete. A tailable cursor reads the
oplog up to the manager's least live GTID; that is what other members replicate
from. `BackgroundSync` reports to the same manager what it has added and
applied; a state change, such as a won election, stops it, checks that manager
and queue agree, and starts it again. What is left on disk of all this is what a
member starts from. While a chunk moves, the same root commit writes the
operations in its range to the log of the migration, which the recipient reads.

## Modules

| module | models |
| --- | --- |
| `GTID` | the identifier, its order and successors |
| `GTIDManager` | one action per method; callers appear as the order in which they call: commits, producer, applier, step up, step down, rollback, restart |
| `OplogTail` | extends `GTIDManager` with the entries, committed or not, and one tailable cursor: its bound, its buffer, its position, the closed partitions and the last one |
| `BackgroundSync` | every critical section of producer, applier, start, stop and shutdown, and the operations of the replica set that call them; condition variables keep their waiters, wakeups may be spurious. Instantiates `GTIDManager` and is shown to call it as that module assumes |
| `OplogMember` | one member and its source: full sync, gaps, restart, replInfo and its thread, replication and rollback as storage transactions, with a crash between any two and another primary taking over |
| `Consensus` | the votes of all members: leases in seconds on clocks of different phase, lost and late answers, vetoes, restarts |
| `Elections` | polls, the manager's view and what it does on it, freshness, votes and vetoes, stepping up and down, commands of an operator, cut links, restarts. Instantiates `Consensus` for the votes |
| `OplogTrim` | partitions of the oplog and of `oplog.refs`, spills, commits and copies that meet them, trimming by time and by GTID |
| `NestedTxn` | abstract: what a stack of nested transactions promises about the log of committed operations |
| `TxnOplog` | operations in memory, spilling to `oplog.refs`, entries, and their copy, application and rollback on another member. Refines `NestedTxn` |
| `SpillableVector` | the log of a migration, compared with the log `NestedTxn` gives |
| `TxnContext` | composes the two: one stack of transactions, whose every begin, commit and abort reaches both logs |
| `CappedCollection` | keys, trimming, statistics, nested transactions of several clients, tailable cursors on the primary and on a secondary |
| `ChunkMigration` | moves of a chunk from the lock to the cleanup, the recipient's thread and its commands, chunk managers and the versions routers write with, writes and their log, with lost answers, timeouts, lost locks, aborts, crashes and competing changes |
| `NaturalSets`, `GTIDManagerProofs`, `OplogTailProofs`, `ConsensusProofs`, `OplogTrimProofs`, `OplogMemberProofs`, `CappedCollectionProofs`, `ChunkMigrationProofs` | the proofs |
| `MC...` | constants and symmetry for TLC |

An operator whose name extends another's with a fault (`StopDrainSkipsQueue`)
is that operator with a plausible bug. Nothing uses it; it is there to show that
a property can fail.

Data is abstract: an operation is a number with a size, a document its key and
its size, an entry its GTID. The storage engine is a library outside the
repository: its commits and aborts are atomic, a transaction sees committed
rows and its own, a tailable cursor sees uncommitted ones too, deletes and
updates hold row locks, and after a crash it recovers a prefix of the commits.

## Runs

| run | shows |
| --- | --- |
| `oplog_tail` | `minLiveGTID` is exactly the least live identifier, or the next one, in every role; `minUnappliedGTID` is exactly the least unapplied one on a secondary, and equals `minLiveGTID` on a primary except while the first commit after an election is open; no assertion of a method fails, only rollback or restart moves back; and a tailable cursor that stops at the least live GTID skips no entry and returns none that is uncommitted, while entries are written out of order behind its buffer |
| `bgsync` | with two state changes or new configurations, or a shutdown, at any time, client commits, rollback and an apply that fails until the retry loop gives up: a primary is settled, nothing unapplied is forgotten but what was given up, a rollback finds nothing queued, no verify fails before the shutdown, `GTIDManager` is refined (the last two until a new configuration disturbs a primary's commits or a member that is not live yet) |
| `bgsync_live` | with new configurations and shunning, without shutdown: whoever should replicate does, every stop returns and so does every start after the initial sync, every entry is applied, rolled back or given up, the producer is always released. Clients do not write there |
| `oplog_member` | a member that crashes twice, fails in its attempts at the initial sync and meets a new primary, which it may be ahead of, has no gaps in its oplog, forgets no unapplied entry, never trusts a replInfo that is too far on, and catches up unless it has ended as fatal or after its last attempt |
| `consensus` | no two elections are won within one lease, and each is decided on votes still promised to it, until a voter restarts |
| `elections` | two members end with the one of higher priority as the only primary, whatever order polls, managers and elections run in; the state, the primary box and replication agree |
| `oplog_trim` | no entry loses its rows to trimming, and none is trimmed before its time |
| `txn_context` | every entry is exactly a committed root's operations in order, a member that applies and rolls back follows, and a reader of the migration's log gets exactly the committed operations of its range if no child spilled and no operation filled an object, and each of them once if children that spilled committed |
| `capped` | two clients with nested transactions, updates, commits that throw and a trimming that meets locked documents half-way: readers miss nothing, least keys are noted and removed, the count and size a secondary keeps without reading what it applies are those of its rows, the primary's count, size and trimming point stay right |
| `migration` | one chunk moves and perhaps moves back while a router writes, and any one thing goes wrong at any step: whoever the config server names has every acknowledged write, no shard believes it has a chunk that is another's, and every critical section ends unless the donor could not clear its migratelog |
| `initial_sync_crash` | violation: a crash between the clone and the filling of its gaps leaves an oplog that is taken for complete |
| `oplog_trim_copies` | violation: a secondary that copies a transaction older than its last partition of `oplog.refs` loses its rows to the next trimming |

Bounds. All counters are bounded in guards by constants named `Max...`.

- `oplog_tail`: two primary terms, three positions in each and four entries let
  three commits be open at once, finish in any order, and be passed by a buffer
  that holds two rows.
- `bgsync`: queue marks of 1 make flow control happen with two entries;
  `MaxTries = 2` stands for the retry loop's 100, and `MaxFailures = 2` lets it
  give up. Two operations of the replica set; with three (12.1 million states,
  too many to keep) the properties hold as well. A behaviour that a new
  configuration has disturbed (`Disturbed`) is not followed into a shutdown
  (`NotBoth`). `bgsync_live` has one failure: with two the entry would be given
  up, which the liveness of the other entries does not depend on.
- `oplog_member`: three GTIDs are the least with a gap below an entry and one
  above it; a take-over gives the same GTIDs out again. A fourth is left for the
  no-op of the last primary. Two attempts stand for the ten of
  `rs_initialsync.cpp:66`.
- `consensus`: three members, two of them candidates, so that every majority
  meets every other in a voter; a lease of two seconds is cut at every phase of
  the clocks.
- `elections`: two members, one event (a write, a command, a cut link or a
  restart) on top of a start without a primary.
- `oplog_trim`: three transactions of two rows and three partitions, so that one
  transaction spans two partitions with one on each side.
- `txn_context`: operations of size 1 and 3 against limits of 1 and 4 (less a
  header of 1) spill both by accumulation and by one operation, one that fills
  an object included, and not always in both logs at once; three levels are the
  least at which a grandchild's spill passes through a parent that has not
  spilled, and four operations let parent and child have some on both sides of
  it.
- `capped`: a cap of one document with three keys makes trimming meet open
  transactions of both clients.
- `migration`: two moves are the least with which the recipient of one is the
  donor of the next and a stale mover can meet a newer move; two writes are one
  before and one after the critical section, or both inside the last transfer.
  `MaxFaults = 1`: any one fault, at any step; only the second failure of a
  clear, while the exception of the first is on its way, is not counted. A chunk
  stays on each shard.

`TxnContext`, `CappedCollection`, `OplogTrim`, `OplogMember` and `ChunkMigration`
stop when their bounds are used up, and a shut-down member stops, so deadlock is
not checked there; in `oplog_tail`, `bgsync_live`, `consensus` and `elections`
it is.

Fairness.

- `BackgroundSync`: weak fairness of the two threads, of boot and of an
  operation, a commit or a shutdown under way: they are threads that are never
  suspended for ever. Nobody has to begin an operation, a commit or a shutdown.
  Strong fairness of two steps: a woken caller of `startOpSyncThread` gets the
  mutex in some run of the producer (which releases it whenever it sleeps,
  fetches or writes), and an application that is tried again and again succeeds,
  which is what the retry loop assumes.
- `OplogMember`: weak fairness of the member's threads, of the end of a
  commit on the source, and of the no-op a primary's `keepOplogAliveThread`
  writes (`repl/rs.cpp:1055`): with it a member that was ahead of a new primary
  sees that its last entry is not there. Crashes and take-overs are bounded by
  constants.
- `Elections`: weak fairness of each member's polls, manager and replication, of
  the end of a lease and of the time an operator froze a member for; a cut link
  heals.
- `ChunkMigration`: weak fairness of the moves, of the writes and of each
  recipient's thread: each is a thread of a running server, and every call it
  makes returns or times out. Because a recipient may poll for ever,
  `CriticalSectionEnds` says that again and again no donor is in its critical
  section but one whose clear failed.

Assumptions a run makes, because the code relies on them or because a
disagreement below follows without them:

- `OplogTail`: a transaction that has its GTID does not fail; entries written
  after a rollback are above everything undone; no partition is added, and the
  last one not entered, with an entry below under way (`Races = FALSE`).
- `OplogMember`: a primary that takes over has not given out GTIDs of commits
  that failed on the old one (`NoneFailedAbove`): such a GTID counts as done in
  a replInfo others clone. The member does not crash between the clone and the
  filling of its gaps (`CrashAfterClone = FALSE`).
- `OplogTrim`: a transaction ends before the partition of `oplog.refs` it began
  in is trimmed (`LiveRowsStay`), because the storage engine decides whether a
  dictionary with uncommitted rows can be dropped.
- `CappedCollection`: `NothingOlderIsLeft` leaves out the documents trimming
  passed while their insert was uncommitted (`passed`); `LeastKeysAreNoted`
  leaves out keys a transfer dropped (`dropped`).
- `ChunkMigration`: one key and one router, so that no two writes are under way
  at once; one collection; a chunk stays on each shard. The lock is lost only
  while the move decides (`LostLockAt`), and a recipient is told to abort only
  before the commit (`AbortAt`). An exception that leaves a destructor goes on to
  the caller, as in the C++ of the build files, which name no standard.
- `BackgroundSync`: `NoVerifyFails` speaks of the time before a shutdown, and
  with `RefinesManager` of the time before a new configuration takes a primary
  out of its state beside a commit (`CommitsCut`) or shuns a member that has not
  gone live (`ShunnedEarly`). It leaves out `verify( iAmPotentiallyHot() )`
  (`NotHot`), which fails on a member frozen while it stood for election.
  `StartReturns` speaks of starts after the initial sync.
- `SpillableVector`: `MigrateLogIsExact` says what a reader gets by what has
  happened to the root (`harm`): nothing, a child that spilled and committed
  (`reordered`), or a child that spilled and aborted or an operation that filled
  an object (`broken`).

## Proofs

`GTIDManagerProofs` proves, for all values of the constants that satisfy
`ConstantsAssumption` (naturals, a positive hash modulus), that `Spec` implies
`TypeOK` and `ManagerInv` (`Invariance`), four safety invariants
(`ReadersMissNothing`, `NothingUnappliedBelow`, `SettledMemberIsReady`,
`NoAssertFails`) and the two action properties (`MinLiveMonotonic`,
`GTIDsUnique`).

The lower bounds are not inductive: removing the least open GTID computes the
new minimum from the rest or from the last one handed out, so the invariant has
to say that the minimum *equals* that, and that nothing open is above the last.
That is `ManagerInv`, by role: at startup it is about `minLiveGTID` alone, since
`minUnappliedGTID` is not set yet; on a secondary about both; on a primary the
two are equal, except in the first commit after an election, which is described
exactly (`FirstCommitOpen`). `NoAssertFails` covers the comparisons of a GTID
that is finished, started or applied with these minima, which the methods assert
(`gtid.cpp:151`, `197`, `220`). Each action has a lemma; each lemma splits on
the conjuncts it can disturb. The module begins with the order, the successors,
and the existence of a least element of a non-empty set of GTIDs, which
`MinGTID`'s CHOOSE needs.

`OplogTailProofs` proves, for all constants with `Races = FALSE`, that a tailable
cursor on the oplog skips no entry (`CursorIsComplete`) and returns no
uncommitted one (`CursorIsClean`). `TailAssumption` adds that a bound is above 0.
With `Races = TRUE` both are false, see below.

- `TailImplementsManager`: every step of `OplogTail` is one of `GTIDManager` or
  leaves its variables alone, so the invariant above holds here too.
- The entries (`EntriesInv`): one that is not committed is live, or was copied
  and not noted yet and is then the only one above `lastLiveGTID`; none is in a
  closed partition. From this and `ManagerInv`, whatever is written is at or
  above `minLiveGTID` and above the closed partitions (`Grows`).
- The cursor (`CursorOK`), by what it does next: on a row, with all that follows
  up to its last fetched row in the buffer (`OnRow`); at the end of what there
  was (`Exhausted`); beyond its bound (`Beyond`), and on the way back
  (`GoingBack`). Each says what has been returned so far. The properties alone
  are not inductive: a step of the cursor is right only if its buffer has no
  hole, and a write only if it is not behind the position.

`Next` moves the cursor by what `findKey`, `_advance` and `checkEnd` return; the
lemmas about those come first, then the invariant and the writes, the cursor
while others write, and the cursor's own steps.

`ConsensusProofs` proves for any number of members, any distribution of votes
and any lease that the votes of an election are held (`HeldVotes`), that two
members are not elected within one lease (`NoTwins`) and that an election is
decided on votes that are held (`DecisionsAreCurrent`). `ConsensusAssumption`
gives the types of the constants, and `MajoritiesIntersect` that two sets with
more than half of the votes have a member in common.

That a vote is held is inductive only with the exact relation of two clocks: the
voter's count of the lease may be one ahead of the candidate's count of the
election while its clock is ahead (`LeaseBound`, `TicksBefore`). A tick of either
clock keeps this, because clocks tick in turn; a yea to somebody else needs a
lapsed lease, which contradicts it. Two elections won within a lease would
share a voter, who would have promised its vote to both.

`OplogTrimProofs`, for any number of transactions, rows and partitions:

- `EntriesAreDated` and `TrimmingTakesOnlyOld`: trimming by time, which looks at
  pivots and creation times only, removes no entry younger than that time. The
  invariant (`DateInv`) adds that GTIDs are given out densely, so that a pivot is
  never above the last one, and that a transaction which has its GTID but is
  still to write its entry is as old as its place in the partitions says.
- `RowsAreKept`, with `OldCopies = FALSE`: no entry loses a row of `oplog.refs`.
  The invariant (`RowsInv`) adds that the rows of transactions under way are
  there, and that a closed partition that may have rows of an entry has recorded
  a `maxRefGTID` at or above it (`Covered`), which is what lets trimming decide
  without looking at an entry.

`OplogMemberProofs`, for any number of entries, crashes and take-overs:

- `ReplInfoClaimsNoMore` and `UnappliedAreKept`, from `ReplInfoInv`: what the
  thread of replInfo has read, has written and what is on disk are ordered, and
  below each there is nothing unapplied, in each phase of the member.
- `OplogsMatch`, with `CrashAfterClone = FALSE`, from `MatchInv`: both oplogs have
  a common prefix and differ only above it (`Agree`), every entry remembers which
  primary wrote it, and a member in contact has an entry of that very primary as
  its last one.

`CappedCollectionProofs`, for any number of clients and any depth of nesting, from
`NotedInv` (each level of each client with what it has inserted, its least key and
the set of all least keys): `PrimaryCursorIsComplete` and `LeastKeysStayNoted`.

`ChunkMigrationProofs` proves `ClaimsStayTrue`: no shard believes it has a chunk
the config server gives to another. It is for any numbers of shards, moves,
writes, routers and faults, with one collection, a chunk that stays on every
shard, and a lock that is lost only while a move decides (`OneCollection`).
`ClaimsAreTrue` is far from inductive. The invariant (`ClaimsInv`) says of every
move that its `maxVersion` is not above the collection's; that before its commit
the donor is the owner; and that it has the lock, the donor's active flag or,
once the lock is lost, a `maxVersion` that is out of date if anybody else has
committed (`MoveOK`), so that the config server refuses it. A donor whose clear
failed stays active and takes part in no other move. A chunk
manager that was loaded and is still to be installed either names the true owner
or is older than the one it meets (`Pending`); this is why the donor's version
must already be higher while it waits for the recipient.

`NaturalSets` has the least and greatest elements of sets of naturals and what
`Max` and `Min` return.

TLC checked each inductive invariant on the instance of its run before it was
proved.

Only model-checked, and why:

- liveness (`CatchesUp`, `BestPrimaryAtLast`, `CriticalSectionEnds` and those of
  `bgsync_live`): out of the prover's reach;
- `TxnContext` and the refinement of `NestedTxn`, `StatsAreExact` and
  `SecondaryStatsAreExact`: they compare with folds over sequences and sets, and
  need induction over data;
- `SecondaryReaderMissesNothing` and `NothingOlderIsLeft`, `BoxIsAligned`, and the
  invariants and the refinement of `BackgroundSync`: not attempted. For the last
  two the invariant is a statement for each of some fifty control states.
- `OwnerHasEverything`: as it stands it needs that writes exclude each other,
  which is a bound of the run and not what the code guarantees; see below.

## Disagreements met

Besides the two violation runs, these were seen on the same modules with other
constants, or with a property that is not kept:

- `BackgroundSync`: the retry loop (`bgsync.cpp:163`) counts each failure twice
  and so passes its `abort()`; an entry that fails too often is taken for
  applied. `NothingUnappliedIsForgotten` names these entries (`"givenUp"`).
- A new configuration that takes a primary out of its state beside a commit fails
  the verifies of `stopOpSyncThread`, though only beside the first commit of its
  term, when the manager's minima differ (`NoVerifyFails`, `RefinesManager`
  without `CommitsCut`).
- A member that is shunned before it has gone live and then is in the
  configuration again: `haveNewConfig` (`repl/rs.cpp:983`) waits in
  `startOpSyncThread`, with the replica set lock, for a producer that starts only
  after the initial sync (596), which needs that lock (`rs_initialsync.cpp:144`,
  390). The start never returns (`StartReturns` without its condition). And going
  live puts the member's state over `SHUNNED` or `FATAL`.
- `startOpSyncThread`'s final verify fails when shutdown comes while it waits
  (`NoVerifyFails` without its condition); a stop that waits while the producer
  exits for shutdown is never woken (`StopReturns` with `Shutdowns = TRUE`).
- `Elections`: `_freeze` does not look for a running election. A member frozen
  while it waits for votes wins, stops replication, and fails
  `verify( iAmPotentiallyHot() )` (`repl/rs.cpp:123`); nothing starts
  replication again.
- `OplogTail`, `Races = TRUE`: `setTailable` bounds a cursor only on the last
  partition (`cursor.cpp:418`). An entry under way when a partition is added may
  belong to a closed one, where a cursor opened then returns it uncommitted, or
  passes its place before it is written (`CursorReturnsCommitted`,
  `CursorMissesNothing`). `ops/query.cpp:721-722` wants cursors marked tailable
  "so that the implementation knows that uncommitted data cannot be returned".
  In the same way the first row of the last partition is fetched before the
  cursor on it is tailable.
- `CappedCollection`, `NothingOlderIsLeft` without `passed`: a document whose
  insert is open while trimming passes it stays until the collection is
  emptied. `LeastKeysAreNoted` without `dropped`: when a child with an insert
  commits into a parent with one, the child's key is never removed, and
  tailable cursors stop there for good.
- `SecondaryReaderMissesNothing` needs `CommitsInKeyOrder`: without it a
  tailable cursor on a secondary misses documents. `StatsAreExact` and
  `NothingOlderIsLeft` need `~drifted`: the size is not restored when an update
  aborts, and an exception swallowed by `commitRoot` commits the statistics of a
  transaction that aborted.
- `SpillableVector`: a child that spills moves its parent's operations to an
  object the parent never writes when the child aborts; a parent's later
  operations are numbered before its spilled child's; a root without operations
  of its own uses a builder that does not exist. With an operation that fills an
  object, a sequence number is skipped and the reader's verify
  (`spillable_vector.cpp:144`) fails. `MigrateLogIsExact` names the three cases.
- `OplogMember`: after the tenth failed attempt at the initial sync the process
  ends (`fassert` 16233, `rs_initialsync.cpp:82`) and leaves a half-done clone,
  which the next start takes for complete as after a crash (`initial_sync_crash`).
  A member that is ahead of a new primary, which `bgsync.cpp:689-692` calls not
  possible, stays there until that primary writes something.
- `ChunkMigration`: `done()` clears the migratelog, which may throw
  (`../s/d_migrate.cpp:302`, 322), before it takes back `_active` and
  `_inCriticalSection` (271-273). From `~MigrateStatusHolder` after a failed move
  the donor stays in its critical section, and routers wait for it, until it is
  restarted (`CriticalSectionEnds` without `clearFailed`); while another exception
  is on its way the process ends.
- `ChunkMigration`, two keys and two routers: ids of the migration's log are taken
  before the commit (`../s/d_migrate.cpp:365`). A row that commits after one with
  a higher id is behind the recipient's position and is skipped, which only a
  debug assertion notices (1477): the write is lost (`OwnerHasEverything`).
- Two collections on one donor: `done()` runs a second time in
  `~MigrateStatusHolder` (633) and ends the migration that began meanwhile
  (`OwnerHasEverything`). Status requests and commits do not say which migration
  they mean.
- No chunk stays on the donor: its version becomes 0, and a manager loaded before
  is installed again (`ClaimsAreTrue`).
- After a failed commit the donor's manager keeps the raised collection version;
  the next load finds no difference and makes an empty manager.
- A recipient whose donor gives up before anything was transferred stays `STEADY`.
- `_recvChunkAbort`, which nobody sends, ends the thread as `DONE` without the
  last transfer if it comes during the commit.
- `LostLockAt` with `"cleanup"`: a mover that lost the lock deletes the documents
  of a chunk that has moved back (`OwnerHasEverything`).
- `gtid.h:85-88` and `gtid.cpp:166` say the minima are equal on a primary; they
  differ during the first commit after an election (`FirstCommitOpen`).
- A row of `oplog.refs` exceeds the limit `txn_context.h:128-130` gives by the
  operation that made it spill.

## Not modelled

- Write concern (`repl_block.cpp`, `lasterror.cpp`) and several members with
  rollback of acknowledged writes: the pieces (elections, rollback, the cursor
  that reports a secondary's position) are modelled apart from one another.
- Sharding beyond the migration of a chunk: the balancer, splits, epochs, the
  catalog. The distributed lock is what its interface says, one holder and
  take-over from one that does not ping. The locks of `d_concurrency.cpp` are
  taken over from MongoDB.
- Of capped collections, `empty()` and opening an existing one. Of partitions,
  those cloned or converted from an older format. Of the member, fastsync and
  the choice of a source, which are nondeterministic.
- Documents, queries, indexes and updates are functions of the data, and the
  concurrency they rely on is the storage engine's, whose source is not in the
  repository. Parsing, BSON, tools, shell, scripting, the client library and
  third-party code, by far the most lines of the repository, are data and I/O.
