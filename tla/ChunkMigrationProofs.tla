------------------------- MODULE ChunkMigrationProofs -------------------------
(***************************************************************************)
(* A shard that believes it has a chunk is the one the config server       *)
(* names: the moves of one collection exclude each other by the            *)
(* distributed lock or by the donor's active flag, a chunk manager that is *)
(* still to be installed is no newer than the config server, and while a   *)
(* donated chunk may still be committed the donor's manager is newer.      *)
(***************************************************************************)
EXTENDS ChunkMigration, NaturalSets

\* The seconds each prover has for a leaf that names none.
USE SMTT(30), ZenonT(30)

-----------------------------------------------------------------------------
(* The inductive invariant.                                                *)

\* Where a move is: with its lock, talking to the recipient, on its way to the
\* commit, in its destructors, and from MigrateFromStatus::start to the end.
Starting == {"load", "install", "begin"}
Asking == {"engage", "poll"}
Deciding == {"check", "donate", "await", "config"}
Leaving == {"leave", "done"}
Marked == Asking \cup Deciding \cup Leaving \cup {"undo"}
Closing == {"return", "unwind"}
Engaged == Marked \cup Closing \cup {"cleanup"}
Before == Starting \cup Asking \cup Deciding \cup {"undo"}

\* The chunks g of a collection.
ChunksOK(g) ==
    /\ DOMAIN g = {"owner", "moving", "pin"}
    /\ g.owner \in Shard
    /\ g.moving \in Nat
    /\ DOMAIN g.pin = Shard
    /\ \A s \in Shard : g.pin[s] \in Nat
    /\ \E s \in Shard : \A t \in Shard : g.pin[t] <= g.pin[s]

ManagerOK(m) ==
    /\ m \in [has : BOOLEAN, version : Nat, coll : Int]
    /\ m.coll > 0 => m.version <= m.coll

\* A manager p that s read of the chunks g and has not installed yet over n.
Pending(s, p, g, n) ==
    /\ ManagerOK(p)
    /\ p.version <= CollVersion(g)
    /\ p.has => g.owner = s \/ p.version < n.version

\* A move m that has begun: with the chunks g it is about, whose lock k has, and
\* the active flag a and the manager n of its donor.
MoveOK(i, m, g, k, a, n) ==
    /\ m.maxVersion \in Nat /\ m.startingVersion \in Nat
    /\ m.maxVersion <= CollVersion(g)
    /\ m.pc \in Before => g.owner = m.s
    /\ m.pc \in Starting \cup Asking \cup Leaving \cup {"cleanup"} => k = i
    /\ m.pc \in Marked => a
    /\ m.pc \in Closing => a \/ k = i
    /\ m.pc \in Deciding /\ CollVersion(g) = m.maxVersion => k = i
    /\ m.pc \in {"await", "config"} /\ CollVersion(g) = m.maxVersion
          => ~ n.has /\ m.maxVersion < n.version
    /\ m.pc = "install" => Pending(m.s, m.p, g, n)

MoveFields == {"pc", "c", "s", "t", "maxVersion", "startingVersion", "p"}
FromFields == {"active", "ns", "snapshot", "critical", "nextId", "clearFailed"}
OpFields == {"stage", "s", "c", "p", "key", "val", "logged", "id"}

\* What a move reads is there.
Good(i, m) ==
    /\ m.s \in Shard /\ m.t \in Shard /\ m.c \in Coll
    /\ MoveOK(i, m, config[m.c], lock[m.c], from[m.s].active, manager[m.s][m.c])

ConfigInv ==
    /\ DOMAIN config = Coll
    /\ \A c \in Coll : ChunksOK(config[c])

LockInv ==
    /\ DOMAIN lock = Coll
    /\ \A c \in Coll : lock[c] \in Move \cup {0}

ManagerInv ==
    /\ DOMAIN manager = Shard
    /\ \A s \in Shard : DOMAIN manager[s] = Coll
    /\ \A s \in Shard, c \in Coll : ManagerOK(manager[s][c])

FromInv ==
    /\ DOMAIN from = Shard
    /\ \A s \in Shard : DOMAIN from[s] = FromFields /\ from[s].active \in BOOLEAN

MovesInv ==
    /\ DOMAIN move = Move
    /\ \A i \in Move : DOMAIN move[i] = MoveFields
    /\ \A i \in Move : move[i].pc # "idle" => Good(i, move[i])

ExclusiveInv == \A i, j \in Move :
    i # j /\ move[i].pc \in Engaged /\ move[j].pc \in Engaged => move[i].s # move[j].s

\* A shard is about to answer a setShardVersion.
Answering == {"asked", "loaded"}

\* A router with what it has of the collections, and what a shard does for it.
RouterOK(r) ==
    /\ DOMAIN r = {"cache", "op", "version"}
    /\ DOMAIN r.op = OpFields
    /\ DOMAIN r.cache = Coll
    /\ \A c \in Coll : r.cache[c].owner \in Shard
    /\ r.op.stage \in Answering => r.op.s \in Shard /\ r.op.c \in Coll

RoutersInv ==
    /\ DOMAIN router = Mongos
    /\ \A w \in Mongos : RouterOK(router[w])
    /\ \A w \in Mongos : router[w].op.stage = "loaded"
          => LET op == router[w].op
             IN  Pending(op.s, op.p, config[op.c], manager[op.s][op.c])

StateInv == ConfigInv /\ LockInv /\ ManagerInv /\ FromInv

ClaimsInv == StateInv /\ MovesInv /\ ExclusiveInv /\ RoutersInv /\ ClaimsAreTrue

\* What the constants have to be: one collection, every shard keeps a chunk, one
\* of these has the greatest version, and a lock is lost before the commit.
OneCollection ==
    /\ \A c, d \in Coll : c = d
    /\ \A s \in Shard : FirstPin[s] > 0
    /\ \E s \in Shard : \A t \in Shard : FirstPin[t] <= FirstPin[s]
    /\ LostLockAt \subseteq Deciding

-----------------------------------------------------------------------------
(* Versions.                                                               *)

\* Max of a set that has a greatest element is that element.
LEMMA MaxOf ==
    ASSUME NEW S \in SUBSET Int, NEW m \in S, \A x \in S : x <= m
    PROVE  Max(S) = m
<1>1. \E x \in S : \A y \in S : x >= y
  BY ZenonT(30)
<1>2. Max(S) \in S /\ \A y \in S : Max(S) >= y
  BY ZenonT(30), <1>1 DEF Max
<1>3. Max(S) \in Int /\ m \in Int /\ Max(S) >= m /\ Max(S) <= m
  BY ZenonT(30), <1>2
<1>. QED
  BY <1>3

\* The collection's version is the greatest of its chunks.
LEMMA CollVersionIsGreatest ==
    ASSUME NEW g, ChunksOK(g)
    PROVE  /\ CollVersion(g) \in Nat
           /\ g.moving <= CollVersion(g)
           /\ \A s \in Shard : g.pin[s] <= CollVersion(g)
           /\ \/ CollVersion(g) = g.moving
              \/ \E s \in Shard : CollVersion(g) = g.pin[s]
<1>. DEFINE S == {g.moving} \cup {g.pin[s] : s \in Shard}
<1>1. PICK u \in Shard : \A t \in Shard : g.pin[t] <= g.pin[u]
  BY ZenonT(30) DEF ChunksOK
<1>2. S \in SUBSET Int /\ g.pin[u] \in S /\ g.moving \in S
  BY DEF ChunksOK
<1>3. CollVersion(g) = Max(S)
  BY ZenonT(30) DEF CollVersion
<1>4. CASE g.moving <= g.pin[u]
  <2>1. \A x \in S : x <= g.pin[u]
    BY ZenonT(30), <1>1, <1>4
  <2>2. Max(S) = g.pin[u]
    BY ZenonT(30), <1>2, <2>1, MaxOf
  <2>. QED
    BY ZenonT(30), <1>1, <1>3, <1>4, <2>2 DEF ChunksOK
<1>5. CASE ~ (g.moving <= g.pin[u])
  <2>0. \A s \in Shard : g.pin[s] <= g.moving
    BY <1>1, <1>5 DEF ChunksOK
  <2>1. \A x \in S : x <= g.moving
    BY <2>0 DEF ChunksOK
  <2>2. Max(S) = g.moving
    BY ZenonT(30), <1>2, <2>1, MaxOf
  <2>. QED
    BY <1>3, <2>0, <2>2 DEF ChunksOK
<1>. QED
  BY ZenonT(30), <1>4, <1>5

\* The next major version is newer.
LEMMA IncMajorGrows ==
    ASSUME NEW v \in Nat
    PROVE  IncMajor(v) \in Nat /\ v < IncMajor(v)
  BY DEF IncMajor, Major

\* A chunk that stays gets the collection's next version.
Bumped(g, s, v) == [g EXCEPT !.pin[s] = v]

LEMMA BumpedOK ==
    ASSUME NEW g, ChunksOK(g), NEW s \in Shard, NEW v \in Nat, CollVersion(g) < v
    PROVE  /\ ChunksOK(Bumped(g, s, v))
           /\ CollVersion(g) < CollVersion(Bumped(g, s, v))
           /\ Bumped(g, s, v).owner = g.owner
<1>. DEFINE h == Bumped(g, s, v)
<1>1. /\ DOMAIN h = {"owner", "moving", "pin"} /\ h.owner = g.owner /\ h.moving = g.moving
      /\ DOMAIN h.pin = Shard /\ h.pin[s] = v
      /\ \A t \in Shard : t # s => h.pin[t] = g.pin[t]
  BY ZenonT(30) DEF ChunksOK, Bumped
<1>2. \A t \in Shard : g.pin[t] \in Nat /\ g.pin[t] <= CollVersion(g)
  BY ZenonT(30), CollVersionIsGreatest DEF ChunksOK
<1>3. CollVersion(g) \in Nat
  BY ZenonT(30), CollVersionIsGreatest
<1>. HIDE DEF h
<1>4. \A t \in Shard : h.pin[t] \in Nat /\ h.pin[t] <= h.pin[s]
  BY <1>1, <1>2, <1>3
<1>5. ChunksOK(h)
  BY ZenonT(30), <1>1, <1>4 DEF ChunksOK
<1>6. h.pin[s] <= CollVersion(h) /\ CollVersion(h) \in Nat
  BY ZenonT(30), <1>5, CollVersionIsGreatest
<1>7. CollVersion(g) < CollVersion(h)
  BY <1>1, <1>3, <1>6
<1>. QED
  BY ZenonT(30), <1>1, <1>5, <1>7 DEF h

\* What the commit of a move to t writes, of the chunks that stay too.
Pins(g, s, v) == {g.pin, [g.pin EXCEPT ![s] = v + 1]}
Moved(t, v, p) == [owner |-> t, moving |-> v, pin |-> p]

LEMMA MovedOK ==
    ASSUME NEW g, ChunksOK(g), NEW s \in Shard, NEW t \in Shard, NEW v \in Nat,
           CollVersion(g) < v,
           NEW p \in Pins(g, s, v)
    PROVE  /\ ChunksOK(Moved(t, v, p))
           /\ CollVersion(g) < CollVersion(Moved(t, v, p))
           /\ Moved(t, v, p).owner = t
<1>. DEFINE h == Moved(t, v, p)
<1>1. DOMAIN h = {"owner", "moving", "pin"} /\ h.owner = t /\ h.moving = v /\ h.pin = p
  BY ZenonT(30) DEF Moved
<1>2. \A u \in Shard : g.pin[u] \in Nat /\ g.pin[u] <= CollVersion(g)
  BY ZenonT(30), CollVersionIsGreatest DEF ChunksOK
<1>3. CollVersion(g) \in Nat
  BY ZenonT(30), CollVersionIsGreatest
<1>. HIDE DEF h
<1>5. ChunksOK(h)
  <2>1. CASE p = g.pin
    BY ZenonT(30), <1>1, <2>1 DEF ChunksOK
  <2>2. CASE p = [g.pin EXCEPT ![s] = v + 1]
    <3>1. /\ DOMAIN h.pin = Shard /\ h.pin[s] = v + 1
          /\ \A u \in Shard : u # s => h.pin[u] = g.pin[u]
      BY ZenonT(30), <1>1, <2>2 DEF ChunksOK
    <3>2. \A u \in Shard : h.pin[u] \in Nat /\ h.pin[u] <= h.pin[s]
      BY <1>2, <1>3, <3>1
    <3>. QED
      BY ZenonT(30), <1>1, <3>1, <3>2 DEF ChunksOK
  <2>. QED
    BY ZenonT(30), <2>1, <2>2 DEF Pins
<1>6. h.moving <= CollVersion(h) /\ CollVersion(h) \in Nat
  BY ZenonT(30), <1>5, CollVersionIsGreatest
<1>7. CollVersion(g) < CollVersion(h)
  BY <1>1, <1>3, <1>6
<1>. QED
  BY ZenonT(30), <1>1, <1>5, <1>7 DEF h

\* A bounded set of integers that is not empty has a greatest element.
LEMMA MaxOfBounded ==
    ASSUME NEW n \in Nat, NEW S \in SUBSET ((-1)..n), S # {}
    PROVE  Max(S) \in S /\ \A x \in S : x <= Max(S)
<1>. DEFINE T == {x + 1 : x \in S}
<1>1. T \in SUBSET (0..(n + 1)) /\ T # {} /\ n + 1 \in Nat
  <2>1. \A x \in S : x + 1 \in 0..(n + 1)
    OBVIOUS
  <2>2. PICK x \in S : TRUE
    BY ZenonT(30)
  <2>3. x + 1 \in T
    BY ZenonT(30)
  <2>4. T \in SUBSET (0..(n + 1))
    BY ZenonT(30), <2>1
  <2>. QED
    BY <2>3, <2>4
<1>2. PICK y \in T : \A z \in T : z <= y
  BY ZenonT(30), <1>1, NatMax
<1>3. PICK m \in S : y = m + 1
  BY ZenonT(30), <1>2
<1>4. ASSUME NEW x \in S PROVE x <= m
  <2>1. x + 1 \in T
    BY ZenonT(30)
  <2>2. x + 1 <= m + 1 /\ x \in Int /\ m \in Int
    BY <1>2, <1>3, <2>1
  <2>. QED
    BY <2>2
<1>5. S \in SUBSET Int
  OBVIOUS
<1>6. Max(S) = m
  BY ZenonT(30), <1>4, <1>5, MaxOf
<1>. QED
  BY ZenonT(30), <1>4, <1>6
-----------------------------------------------------------------------------
(* Chunk managers.                                                         *)

\* What a shard loads is no newer than the config server, and has the chunk only
\* if the shard does.
LEMMA LoadOK ==
    ASSUME ConfigInv, ManagerInv, ClaimsAreTrue, NEW s \in Shard, NEW c \in Coll
    PROVE  Pending(s, Load(s, c), config[c], manager[s][c])
<1>. DEFINE
       g == config[c]
       old == IF manager[s][c].coll > 0 THEN manager[s][c] ELSE NoManager
       New(owner, v) == v >= old.coll \/ (owner = s /\ v > old.version)
       mine == (IF g.owner = s /\ New(s, g.moving) THEN {g.moving} ELSE {})
               \cup (IF New(s, g.pin[s]) THEN {g.pin[s]} ELSE {})
       all == (IF New(g.owner, g.moving) THEN {g.moving} ELSE {})
              \cup {g.pin[t] : t \in {u \in Shard : g.pin[u] > 0 /\ New(u, g.pin[u])}}
       V == CollVersion(g)
<1>1. /\ g.owner \in Shard /\ g.moving \in Nat /\ \A t \in Shard : g.pin[t] \in Nat
      /\ V \in Nat /\ g.moving <= V /\ \A t \in Shard : g.pin[t] <= V
  BY ZenonT(30), CollVersionIsGreatest DEF ConfigInv, ChunksOK
<1>5. ManagerOK(manager[s][c]) /\ (manager[s][c].has => g.owner = s)
  BY ZenonT(30) DEF ManagerInv, ClaimsAreTrue
<1>6. NoManager.has = FALSE /\ NoManager.version = 0 /\ NoManager.coll = -1
  BY ZenonT(30) DEF NoManager
<1>7. \/ old = manager[s][c] /\ manager[s][c].coll > 0
      \/ old = NoManager
  BY ZenonT(30)
<1>2. /\ old.version \in Nat /\ old.coll \in Int /\ old.coll >= -1
      /\ old.coll > 0 => old.version <= old.coll
      /\ old.coll <= 0 => old.version = 0
  <2>. HIDE DEF old
  <2>1. CASE old = NoManager
    BY <1>6, <2>1
  <2>2. CASE old = manager[s][c] /\ manager[s][c].coll > 0
    BY <1>5, <2>2 DEF ManagerOK
  <2>. QED
    BY ZenonT(30), <1>7, <2>1, <2>2
<1>8. old.has \in BOOLEAN /\ (old.has => g.owner = s)
  <2>. HIDE DEF old
  <2>1. manager[s][c].has \in BOOLEAN
    BY ZenonT(30), <1>5 DEF ManagerOK
  <2>. QED
    BY ZenonT(30), <1>5, <1>6, <1>7, <2>1
<1>3. CASE all = {}
  <2>1. Load(s, c) = [has |-> FALSE, version |-> 0, coll |-> 0]
    BY ZenonT(30), <1>3 DEF Load
  <2>. QED
    BY <1>1, <2>1 DEF Pending, ManagerOK
<1>4. CASE all # {}
  <2>. DEFINE l == [has |-> IF New(g.owner, g.moving) THEN g.owner = s ELSE old.has,
                    version |-> Max({old.version} \cup mine),
                    coll |-> Max({old.coll} \cup all)]
  <2>1. Load(s, c) = l
    BY ZenonT(30), <1>4 DEF Load
  <2>2. all \in SUBSET (0..V)
    BY <1>1
  <2>3. \A x \in all : x >= old.coll \/ x > old.version
    BY ZenonT(30)
  <2>4. /\ g.owner = s /\ New(s, g.moving) => g.moving \in all
        /\ g.pin[s] > 0 /\ New(s, g.pin[s]) => g.pin[s] \in all
    BY ZenonT(30)
  <2>5. mine \in SUBSET (0..V)
    BY <1>1
  <2>6. \A x \in mine : x = 0 \/ x \in all
    <3>1. \A x \in mine : \/ x = g.moving /\ g.owner = s /\ New(s, g.moving)
                          \/ x = g.pin[s] /\ New(s, g.pin[s])
      BY ZenonT(30)
    <3>2. g.pin[s] = 0 \/ g.pin[s] > 0
      BY <1>1
    <3>. QED
      BY ZenonT(30), <2>4, <3>1, <3>2
  <2>7. l.has \in BOOLEAN /\ (l.has => g.owner = s)
    BY ZenonT(30), <1>8
  <2>. HIDE DEF old, New, mine, all, g, V
  <2>8. PICK x \in all : TRUE
    BY ZenonT(30), <1>4
  <2>9. old.version <= V
    BY <1>1, <1>2, <2>2, <2>3, <2>8
  <2>10. Max({old.version} \cup mine) \in {old.version} \cup mine
    <3>0. old.version \in (-1)..V /\ 0..V \subseteq (-1)..V
      BY <1>1, <1>2, <2>9
    <3>1. {old.version} \cup mine \in SUBSET ((-1)..V) /\ {old.version} \cup mine # {}
      BY ZenonT(30), <2>5, <3>0
    <3>. QED
      BY ZenonT(30), <1>1, <3>1, MaxOfBounded
  <2>11. /\ Max({old.coll} \cup all) \in {old.coll} \cup all
         /\ \A y \in {old.coll} \cup all : y <= Max({old.coll} \cup all)
    <3>1. V + old.coll + 1 \in Nat
      BY <1>1, <1>2
    <3>0. old.coll \in (-1)..(V + old.coll + 1) /\ 0..V \subseteq (-1)..(V + old.coll + 1)
      BY <1>1, <1>2
    <3>2. {old.coll} \cup all \in SUBSET ((-1)..(V + old.coll + 1)) /\ {old.coll} \cup all # {}
      BY ZenonT(30), <2>2, <3>0
    <3>. QED
      BY ZenonT(30), <3>1, <3>2, MaxOfBounded
  <2>. DEFINE lv == Max({old.version} \cup mine)
              lc == Max({old.coll} \cup all)
  <2>16. l.version = lv /\ l.coll = lc /\ DOMAIN l = {"has", "version", "coll"}
    BY ZenonT(30)
  <2>17. l = [has |-> l.has, version |-> lv, coll |-> lc]
    BY ZenonT(30)
  <2>. HIDE DEF lv, lc, l
  <2>12. lv \in Nat /\ lv <= V
    <3>2. old.version \in Nat /\ old.version <= V
      BY ZenonT(30), <1>2, <2>9
    <3>3. \A y \in mine : y \in 0..V
      BY ZenonT(30), <2>5
    <3>4. \A y \in 0..V : y \in Nat /\ y <= V
      BY <1>1
    <3>1. \A y \in {old.version} \cup mine : y \in Nat /\ y <= V
      BY ZenonT(30), <3>2, <3>3, <3>4
    <3>. QED
      BY ZenonT(30), <2>10, <3>1 DEF lv
  <2>13. lc \in Int /\ lc >= 0 /\ lc >= old.coll
    <3>5. \A y \in 0..V : y \in Int
      BY <1>1
    <3>3. \A y \in all : y \in Int
      BY ZenonT(30), <2>2, <3>5
    <3>4. old.coll \in Int
      BY ZenonT(30), <1>2
    <3>1. \A y \in {old.coll} \cup all : y \in Int
      BY <3>3, <3>4, ZenonT(30)
    <3>2. x \in Int /\ x >= 0 /\ x <= lc /\ old.coll <= lc /\ lc \in Int
      BY <1>1, <2>2, <2>8, <2>11, <3>1 DEF lc
    <3>. QED
      BY <1>2, <3>2
  <2>14. lv <= lc
    <3>1. CASE lv = old.version
      BY <1>2, <2>13, <3>1
    <3>2. CASE lv \in mine
      BY ZenonT(30), <2>2, <2>6, <2>11, <2>13, <3>2 DEF lc
    <3>. QED
      BY ZenonT(30), <2>10, <3>1, <3>2 DEF lv
  <2>15. ManagerOK(l)
    BY ZenonT(30), <2>7, <2>12, <2>13, <2>14, <2>16, <2>17 DEF ManagerOK
  <2>. QED
    BY ZenonT(30), <2>1, <2>7, <2>12, <2>15, <2>16 DEF Pending, g, V, l
<1>. QED
  BY ZenonT(30), <1>3, <1>4

LEMMA MaxOfTwo ==
    ASSUME NEW v \in Int, NEW x \in Int
    PROVE  Max({v, x}) \in Int /\ v <= Max({v, x})
<1>. DEFINE S == {v, x}
<1>1. S \in SUBSET Int /\ v \in S /\ x \in S
  BY ZenonT(30)
<1>2. CASE v <= x
  <2>1. \A y \in S : y <= x
    BY <1>2
  <2>. HIDE DEF S
  <2>2. Max(S) = x
    BY ZenonT(30), <1>1, <2>1, MaxOf
  <2>. QED
    BY ZenonT(30), <1>2, <2>2 DEF S
<1>3. CASE x <= v
  <2>1. \A y \in S : y <= v
    BY <1>3
  <2>. HIDE DEF S
  <2>2. Max(S) = v
    BY ZenonT(30), <1>1, <2>1, MaxOf
  <2>. QED
    BY <1>3, <2>2 DEF S
<1>. QED
  BY <1>2, <1>3

\* A donor without the chunk: its manager is newer than it was.
LEMMA MinusOK ==
    ASSUME NEW s \in Shard, FirstPin[s] > 0, NEW n, ManagerOK(n), NEW v \in Nat
    PROVE  /\ ManagerOK(Minus(s, n, v))
           /\ ~ Minus(s, n, v).has
           /\ Minus(s, n, v).version = v
<1>. DEFINE S == {v, n.coll}
<1>1. n.coll \in Int
  BY ZenonT(30) DEF ManagerOK
<1>2. Max(S) \in Int /\ v <= Max(S)
  BY <1>1, MaxOfTwo
<1>3. Minus(s, n, v) = [has |-> FALSE, version |-> v, coll |-> Max(S)]
  BY DEF Minus
<1>. HIDE DEF S
<1>. QED
  BY <1>2, <1>3 DEF ManagerOK

\* The same for the chunk that comes back.
LEMMA PlusOK ==
    ASSUME NEW n, ManagerOK(n), NEW v \in Nat
    PROVE  ManagerOK(Plus(n, v)) /\ Plus(n, v).version = v
<1>. DEFINE S == {v, n.coll}
<1>1. n.coll \in Int
  BY ZenonT(30) DEF ManagerOK
<1>2. Max(S) \in Int /\ v <= Max(S)
  BY <1>1, MaxOfTwo
<1>3. Plus(n, v) = [has |-> TRUE, version |-> v, coll |-> Max(S)]
  BY ZenonT(30) DEF Plus
<1>. HIDE DEF S
<1>. QED
  BY <1>2, <1>3 DEF ManagerOK
-----------------------------------------------------------------------------
(* What a step leaves as it was, as far as the invariant goes.             *)

\* The flag of each donor.
SameFlags == FromInv' /\ \A s \in Shard : from'[s].active = from[s].active

\* What may be installed still may.
PendingsKept == \A u \in Shard, d \in Coll : \A x :
    Pending(u, x, config[d], manager[u][d]) => Pending(u, x, config'[d], manager'[u][d])

\* All moves but i, which gets the record r.
Becomes(i, r) == move' = [move EXCEPT ![i] = r]

\* The move m fits the state after the step; the moves that have begun do.
After(i, m) ==
    /\ m.s \in Shard /\ m.t \in Shard /\ m.c \in Coll
    /\ MoveOK(i, m, config'[m.c], lock'[m.c], from'[m.s].active, manager'[m.s][m.c])

AllFit == \A j \in Move : \A m : Good(j, m) => After(j, m)
OthersFit(i) == \A j \in Move : j # i /\ move[j].pc # "idle" => After(j, move[j])

\* No other move is engaged at the donor of r.
Apart(i, r) == \A j \in Move :
    j # i /\ r.pc \in Engaged /\ move[j].pc \in Engaged => r.s # move[j].s

-----------------------------------------------------------------------------
(* Steps of a move that change nothing but its own record.                 *)

\* A move gets a record that fits the state.
LEMMA RecordStep ==
    ASSUME ClaimsInv, NEW i \in Move, NEW r, DOMAIN r = MoveFields,
           Becomes(i, r),
           config' = config, lock' = lock, manager' = manager, router' = router, SameFlags,
           Good(i, r),
           r.pc \in Engaged => move[i].pc \in Engaged /\ r.s = move[i].s
    PROVE  ClaimsInv'
<1>1. StateInv' /\ ClaimsAreTrue' /\ RoutersInv'
  BY ZenonT(30) DEF ClaimsInv, StateInv, ConfigInv, LockInv, ManagerInv, ClaimsAreTrue, RoutersInv, SameFlags
<1>2. /\ DOMAIN move' = Move /\ move'[i] = r
      /\ \A j \in Move : j # i => move'[j] = move[j]
  BY ZenonT(30) DEF ClaimsInv, MovesInv, Becomes
<1>3. MovesInv'
  <2>1. \A j \in Move : DOMAIN move'[j] = MoveFields
    BY ZenonT(30), <1>2 DEF ClaimsInv, MovesInv
  <2>2. ASSUME NEW j \in Move, move'[j].pc # "idle" PROVE Good(j, move[j])'
    <3>1. CASE j = i
      BY ZenonT(30), <1>2, <3>1 DEF Good, SameFlags
    <3>2. CASE j # i
      <4>1. Good(j, move[j]) /\ move'[j] = move[j]
        BY ZenonT(30), <1>2, <2>2, <3>2 DEF ClaimsInv, MovesInv
      <4>. QED
        BY ZenonT(30), <4>1 DEF Good, SameFlags
    <3>. QED
      BY ZenonT(30), <3>1, <3>2
  <2>. QED
    BY ZenonT(30), <1>2, <2>1, <2>2 DEF MovesInv
<1>4. ExclusiveInv'
  BY <1>2 DEF ClaimsInv, ExclusiveInv
<1>. QED
  BY ZenonT(30), <1>1, <1>3, <1>4 DEF ClaimsInv

\* From p a move may go to q, without anything that it has not at p.
Allowed(p, q) ==
    /\ p # "idle" /\ q # "install"
    /\ q \in Before => p \in Before
    /\ q \in Starting \cup Asking \cup Leaving \cup {"cleanup"}
          => p \in Starting \cup Asking \cup Leaving \cup {"cleanup"}
    /\ q \in Marked => p \in Marked
    /\ q \in Closing => p \in Marked \cup {"cleanup"}
    /\ q \in Deciding => p \in Asking \cup Deciding
    /\ q \in {"await", "config"} => p \in {"await", "config"}
    /\ q \in Engaged => p \in Engaged

LEMMA AllowedOK ==
    ASSUME NEW i, NEW m, NEW r, NEW g, NEW k, NEW a, NEW n, MoveOK(i, m, g, k, a, n),
           Allowed(m.pc, r.pc), r.s = m.s,
           r.maxVersion = m.maxVersion, r.startingVersion = m.startingVersion
    PROVE  MoveOK(i, r, g, k, a, n)
<1>1. r.pc \in Closing => a \/ k = i
  BY ZenonT(30) DEF MoveOK, Allowed
<1>2. r.pc \in Deciding /\ CollVersion(g) = r.maxVersion => k = i
  BY ZenonT(30) DEF MoveOK, Allowed
<1>3. /\ r.maxVersion \in Nat /\ r.startingVersion \in Nat
      /\ r.maxVersion <= CollVersion(g)
      /\ r.pc \in Before => g.owner = r.s
      /\ r.pc \in Starting \cup Asking \cup Leaving \cup {"cleanup"} => k = i
      /\ r.pc \in Marked => a
  BY ZenonT(30) DEF MoveOK, Allowed
<1>4. r.pc \in {"await", "config"} /\ CollVersion(g) = r.maxVersion
          => ~ n.has /\ r.maxVersion < n.version
  BY ZenonT(30) DEF MoveOK, Allowed
<1>. QED
  BY ZenonT(30), <1>1, <1>2, <1>3, <1>4 DEF MoveOK, Allowed

LEMMA PcStep ==
    ASSUME ClaimsInv, NEW i \in Move, NEW q, Goto(i, q), Allowed(move[i].pc, q),
           config' = config, lock' = lock, manager' = manager, router' = router, SameFlags
    PROVE  ClaimsInv'
<1>. DEFINE m == move[i]
            r == [move[i] EXCEPT !.pc = q]
<1>1. DOMAIN m = MoveFields /\ Good(i, m)
  BY ZenonT(30) DEF ClaimsInv, MovesInv, Allowed
<1>2. /\ DOMAIN r = MoveFields /\ r.pc = q /\ r.s = m.s /\ r.t = m.t /\ r.c = m.c
      /\ r.maxVersion = m.maxVersion /\ r.startingVersion = m.startingVersion
  BY ZenonT(30), <1>1 DEF MoveFields
<1>3. Becomes(i, r)
  BY ZenonT(30) DEF Goto, Becomes
<1>. HIDE DEF r
<1>4. MoveOK(i, r, config[m.c], lock[m.c], from[m.s].active, manager[m.s][m.c])
  BY ZenonT(30), <1>1, <1>2, AllowedOK DEF Good
<1>5. Good(i, r)
  BY ZenonT(30), <1>1, <1>2, <1>4 DEF Good
<1>6. r.pc \in Engaged => move[i].pc \in Engaged /\ r.s = move[i].s
  BY ZenonT(30), <1>2 DEF Allowed
<1>. QED
  BY ZenonT(30), <1>2, <1>3, <1>5, <1>6, RecordStep

\* A clear that throws leaves the flags.
LEMMA ClearFailsSame ==
    ASSUME FromInv, NEW s \in Shard, NEW c, ClearFails(s, c)
    PROVE  SameFlags /\ \A u \in Shard : u # s => from'[u] = from[u]
<1>1. PICK id : from' = [from EXCEPT ![s].ns = c, ![s].snapshot = FALSE, ![s].nextId = id,
                                     ![s].clearFailed = TRUE]
  BY ZenonT(30) DEF ClearFails
<1>. QED
  BY ZenonT(30), <1>1 DEF FromInv, FromFields, SameFlags

\* The steps of a move that only lead on, or back to the caller.
LEMMA GoingOn ==
    ASSUME ClaimsInv, NEW i \in Move,
           \/ MoveBegin(i) /\ from[move[i].s].active
           \/ MoveEngage(i) \/ MovePoll(i) \/ MovePollsExhausted(i) \/ MoveNoContact(i)
           \/ MoveCheckLock(i) \/ MoveAnswer(i) \/ MoveBackOut(i) \/ MoveLeave(i)
           \/ MoveCleanup(i) \/ MoveBeginFails(i) \/ MoveDoneFails(i)
    PROVE  ClaimsInv'
<1>. DEFINE Still == config' = config /\ lock' = lock /\ manager' = manager /\ router' = router
<1>. USE DEF Allowed, Before, Starting, Asking, Deciding, Leaving, Closing, Marked, Engaged
<1>0. FromInv
  BY ZenonT(30) DEF ClaimsInv, StateInv
<1>1. CASE MoveBegin(i) /\ from[move[i].s].active
  <2>1. Goto(i, "unlock") /\ Still /\ from' = from /\ move[i].pc = "begin"
    BY ZenonT(30), <1>1 DEF MoveBegin, At
  <2>2. Allowed(move[i].pc, "unlock")
    BY ZenonT(30), <2>1
  <2>3. SameFlags
    BY ZenonT(30), <1>0, <2>1 DEF FromInv, SameFlags
  <2>. HIDE DEF Allowed
  <2>. QED
    BY ZenonT(30), <2>1, <2>2, <2>3, PcStep
<1>2. CASE MoveEngage(i)
  <2>1. (Goto(i, "return") \/ Goto(i, "poll")) /\ Still /\ from' = from /\ move[i].pc = "engage"
    BY ZenonT(30), <1>2 DEF MoveEngage, At
  <2>2. Allowed(move[i].pc, "return") /\ Allowed(move[i].pc, "poll")
    BY ZenonT(30), <2>1
  <2>3. SameFlags
    BY ZenonT(30), <1>0, <2>1 DEF FromInv, SameFlags
  <2>. HIDE DEF Allowed
  <2>. QED
    BY ZenonT(30), <2>1, <2>2, <2>3, PcStep
<1>3. CASE MovePoll(i) \/ MovePollsExhausted(i)
  <2>1. (Goto(i, "return") \/ Goto(i, "check")) /\ Still /\ from' = from /\ move[i].pc = "poll"
    BY ZenonT(30), <1>3 DEF MovePoll, MovePollsExhausted, At, shardVars
  <2>2. Allowed(move[i].pc, "return") /\ Allowed(move[i].pc, "check")
    BY ZenonT(30), <2>1
  <2>3. SameFlags
    BY ZenonT(30), <1>0, <2>1 DEF FromInv, SameFlags
  <2>. HIDE DEF Allowed
  <2>. QED
    BY ZenonT(30), <2>1, <2>2, <2>3, PcStep
<1>4. CASE MoveNoContact(i)
  <2>1. Goto(i, "return") /\ Still /\ from' = from /\ move[i].pc \in {"engage", "poll"}
    BY ZenonT(30), <1>4 DEF MoveNoContact, shardVars
  <2>2. Allowed(move[i].pc, "return")
    BY ZenonT(30), <2>1
  <2>3. SameFlags
    BY ZenonT(30), <1>0, <2>1 DEF FromInv, SameFlags
  <2>. HIDE DEF Allowed
  <2>. QED
    BY ZenonT(30), <2>1, <2>2, <2>3, PcStep
<1>5. CASE MoveCheckLock(i)
  <2>1. /\ Goto(i, "return") \/ Goto(i, "donate")
        /\ Still /\ move[i].pc = "check"
        /\ from' = from \/ from' = [from EXCEPT ![move[i].s].critical = TRUE]
    BY ZenonT(30), <1>5 DEF MoveCheckLock, At
  <2>2. Allowed(move[i].pc, "return") /\ Allowed(move[i].pc, "donate")
    BY ZenonT(30), <2>1
  <2>3. SameFlags
    BY <1>0, <2>1 DEF FromInv, FromFields, SameFlags
  <2>. HIDE DEF Allowed
  <2>. QED
    BY ZenonT(30), <2>1, <2>2, <2>3, PcStep
<1>6. CASE MoveAnswer(i)
  <2>1. (Goto(i, "config") \/ Goto(i, "undo")) /\ Still /\ from' = from /\ move[i].pc = "await"
    BY ZenonT(30), <1>6 DEF MoveAnswer, At, shardVars
  <2>2. Allowed(move[i].pc, "config") /\ Allowed(move[i].pc, "undo")
    BY ZenonT(30), <2>1
  <2>3. SameFlags
    BY ZenonT(30), <1>0, <2>1 DEF FromInv, SameFlags
  <2>. HIDE DEF Allowed
  <2>. QED
    BY ZenonT(30), <2>1, <2>2, <2>3, PcStep
<1>7. CASE MoveBackOut(i)
  <2>1. Goto(i, "undo") /\ Still /\ from' = from /\ move[i].pc = "config"
    BY ZenonT(30), <1>7 DEF MoveBackOut, At, shardVars
  <2>2. Allowed(move[i].pc, "undo")
    BY ZenonT(30), <2>1
  <2>3. SameFlags
    BY ZenonT(30), <1>0, <2>1 DEF FromInv, SameFlags
  <2>. HIDE DEF Allowed
  <2>. QED
    BY ZenonT(30), <2>1, <2>2, <2>3, PcStep
<1>8. CASE MoveLeave(i)
  <2>1. /\ Goto(i, "done") /\ Still /\ move[i].pc = "leave"
        /\ from' = [from EXCEPT ![move[i].s].critical = FALSE]
    BY ZenonT(30), <1>8 DEF MoveLeave, At
  <2>2. Allowed(move[i].pc, "done")
    BY ZenonT(30), <2>1
  <2>3. SameFlags
    BY ZenonT(30), <1>0, <2>1 DEF FromInv, FromFields, SameFlags
  <2>. HIDE DEF Allowed
  <2>. QED
    BY ZenonT(30), <2>1, <2>2, <2>3, PcStep
<1>9. CASE MoveCleanup(i)
  <2>1. Goto(i, "return") /\ Still /\ from' = from /\ move[i].pc = "cleanup"
    BY ZenonT(30), <1>9 DEF MoveCleanup, At, shardVars
  <2>2. Allowed(move[i].pc, "return")
    BY ZenonT(30), <2>1
  <2>3. SameFlags
    BY ZenonT(30), <1>0, <2>1 DEF FromInv, SameFlags
  <2>. HIDE DEF Allowed
  <2>. QED
    BY ZenonT(30), <2>1, <2>2, <2>3, PcStep
<1>10. CASE MoveBeginFails(i)
  <2>1. Goto(i, "unlock") /\ Still /\ ClearFails(move[i].s, move[i].c) /\ move[i].pc = "begin"
    BY ZenonT(30), <1>10 DEF MoveBeginFails, At
  <2>2. Allowed(move[i].pc, "unlock") /\ move[i].s \in Shard
    BY ZenonT(30), <2>1 DEF ClaimsInv, MovesInv, Good
  <2>3. SameFlags
    BY ZenonT(30), <1>0, <2>1, <2>2, ClearFailsSame
  <2>. HIDE DEF Allowed
  <2>. QED
    BY ZenonT(30), <2>1, <2>2, <2>3, PcStep
<1>11. CASE MoveDoneFails(i)
  <2>1. Goto(i, "unwind") /\ Still /\ DoneFails(move[i].s) /\ move[i].pc = "done"
    BY ZenonT(30), <1>11 DEF MoveDoneFails, At
  <2>2. Allowed(move[i].pc, "unwind") /\ move[i].s \in Shard
    BY ZenonT(30), <2>1 DEF ClaimsInv, MovesInv, Good
  <2>3. SameFlags
    BY ZenonT(30), <1>0, <2>1, <2>2, ClearFailsSame DEF DoneFails
  <2>. HIDE DEF Allowed
  <2>. QED
    BY ZenonT(30), <2>1, <2>2, <2>3, PcStep
<1>. QED
  BY ZenonT(30), <1>1, <1>2, <1>3, <1>4, <1>5, <1>6, <1>7, <1>8, <1>9, <1>10, <1>11

\* trySetVersion before its load.
LEMMA LoadStep ==
    ASSUME ClaimsInv, NEW i \in Move, MoveLoad(i)
    PROVE  ClaimsInv'
<1>. DEFINE m == move[i]
            r == IF manager[m.s][m.c].version = m.maxVersion
                 THEN [m EXCEPT !.pc = "begin", !.startingVersion = m.maxVersion]
                 ELSE [m EXCEPT !.pc = "install", !.p = Load(m.s, m.c)]
<1>1. /\ m.pc = "load" /\ Becomes(i, r)
      /\ config' = config /\ lock' = lock /\ manager' = manager /\ from' = from /\ router' = router
  BY ZenonT(30) DEF MoveLoad, At, shardVars, Becomes
<1>2. /\ DOMAIN m = MoveFields /\ m.s \in Shard /\ m.t \in Shard /\ m.c \in Coll
      /\ MoveOK(i, m, config[m.c], lock[m.c], from[m.s].active, manager[m.s][m.c])
  BY ZenonT(30), <1>1 DEF ClaimsInv, MovesInv, Good
<1>3. /\ DOMAIN r = MoveFields /\ r.s = m.s /\ r.t = m.t /\ r.c = m.c
      /\ r.maxVersion = m.maxVersion /\ r.startingVersion \in {m.startingVersion, m.maxVersion}
      /\ r.pc \in {"begin", "install"}
      /\ r.pc = "install" => r.p = Load(m.s, m.c)
  BY ZenonT(30), <1>2 DEF MoveFields
<1>4. SameFlags
  BY ZenonT(30), <1>1 DEF ClaimsInv, StateInv, FromInv, SameFlags
<1>5. Pending(m.s, Load(m.s, m.c), config[m.c], manager[m.s][m.c])
  BY ZenonT(30), <1>2, LoadOK DEF ClaimsInv, StateInv
<1>. HIDE DEF r
<1>6. MoveOK(i, r, config[m.c], lock[m.c], from[m.s].active, manager[m.s][m.c])
  BY ZenonT(30), <1>1, <1>2, <1>3, <1>5
     DEF MoveOK, Before, Starting, Asking, Deciding, Leaving, Closing, Marked
<1>7. Good(i, r) /\ r.pc \notin Engaged
  BY ZenonT(30), <1>2, <1>3, <1>6 DEF Good, Engaged, Closing, Marked, Asking, Deciding, Leaving
<1>. QED
  BY ZenonT(30), <1>1, <1>3, <1>4, <1>7, RecordStep

-----------------------------------------------------------------------------
(* Steps that change the manager of a shard.                               *)

\* A manager that waits still waits for one that is newer, or at the owner.
LEMMA PendingKept ==
    ASSUME NEW s, NEW p, NEW g, NEW n, NEW q, ManagerOK(n), ManagerOK(q), Pending(s, p, g, n),
           g.owner = s \/ n.version <= q.version
    PROVE  Pending(s, p, g, q)
  BY DEF Pending, ManagerOK

\* The manager of s for c becomes n.
LEMMA ManagerStep ==
    ASSUME ClaimsInv, NEW s \in Shard, NEW c \in Coll, NEW n, ManagerOK(n),
           manager' = [manager EXCEPT ![s][c] = n],
           n.has => config[c].owner = s,
           config[c].owner = s \/ manager[s][c].version <= n.version,
           config' = config
    PROVE  /\ ManagerInv' /\ ClaimsAreTrue'
           /\ \A u \in Shard, d \in Coll : <<u, d>> # <<s, c>> => manager'[u][d] = manager[u][d]
           /\ PendingsKept
<1>1. DOMAIN manager = Shard /\ \A u \in Shard : DOMAIN manager[u] = Coll
  BY ZenonT(30) DEF ClaimsInv, StateInv, ManagerInv
<1>2. /\ DOMAIN manager' = Shard /\ \A u \in Shard : DOMAIN manager'[u] = Coll
      /\ manager'[s][c] = n
      /\ \A u \in Shard, d \in Coll : u # s \/ d # c => manager'[u][d] = manager[u][d]
  BY ZenonT(30), <1>1
<1>3. \A u \in Shard, d \in Coll : ManagerOK(manager[u][d])
  BY ZenonT(30) DEF ClaimsInv, StateInv, ManagerInv
<1>4. ManagerInv'
  BY <1>2, <1>3 DEF ManagerInv
<1>5. ClaimsAreTrue'
  BY <1>2 DEF ClaimsInv, ClaimsAreTrue
<1>6. ASSUME NEW u \in Shard, NEW d \in Coll, NEW p, Pending(u, p, config[d], manager[u][d])
      PROVE  Pending(u, p, config'[d], manager'[u][d])
  <2>1. CASE u = s /\ d = c
    BY <1>2, <1>3, <1>6, <2>1, PendingKept
  <2>2. CASE ~ (u = s /\ d = c)
    BY ZenonT(30), <1>2, <1>6, <2>2
  <2>. QED
    BY ZenonT(30), <2>1, <2>2
<1>. QED
  BY <1>2, <1>4, <1>5, <1>6 DEF PendingsKept

\* What is left to show of a step of one move.
LEMMA OneMove ==
    ASSUME ClaimsInv, NEW i \in Move, NEW r, DOMAIN r = MoveFields,
           Becomes(i, r),
           StateInv', ClaimsAreTrue', RoutersInv', After(i, r),
           OthersFit(i),
           Apart(i, r)
    PROVE  ClaimsInv'
<1>1. /\ DOMAIN move' = Move /\ move'[i] = r
      /\ \A j \in Move : j # i => move'[j] = move[j]
  BY ZenonT(30) DEF ClaimsInv, MovesInv, Becomes
<1>2. MovesInv'
  <2>1. \A j \in Move : DOMAIN move'[j] = MoveFields
    BY ZenonT(30), <1>1 DEF ClaimsInv, MovesInv
  <2>2. ASSUME NEW j \in Move, move'[j].pc # "idle" PROVE Good(j, move[j])'
    <3>1. CASE j = i
      BY ZenonT(30), <1>1, <3>1 DEF Good, After
    <3>2. CASE j # i
      <4>1. After(j, move[j]) /\ move'[j] = move[j]
        BY ZenonT(30), <1>1, <2>2, <3>2 DEF OthersFit
      <4>. QED
        BY ZenonT(30), <4>1 DEF Good, After
    <3>. QED
      BY ZenonT(30), <3>1, <3>2
  <2>. QED
    BY ZenonT(30), <1>1, <2>1, <2>2 DEF MovesInv
<1>3. ExclusiveInv'
  BY <1>1 DEF ClaimsInv, ExclusiveInv, Apart
<1>. QED
  BY ZenonT(30), <1>2, <1>3 DEF ClaimsInv

\* A move keeps its place when its donor's manager changes from n to q.
LEMMA MoveKept ==
    ASSUME NEW i, NEW m, NEW g, NEW k, NEW a, NEW n, NEW q, ManagerOK(n), ManagerOK(q),
           MoveOK(i, m, g, k, a, n),
           m.pc \in {"await", "config"} /\ CollVersion(g) = m.maxVersion => q = n,
           g.owner = m.s \/ n.version <= q.version
    PROVE  MoveOK(i, m, g, k, a, q)
<1>1. m.pc = "install" => Pending(m.s, m.p, g, q)
  BY ZenonT(30), PendingKept DEF MoveOK
<1>. QED
  BY ZenonT(30), <1>1 DEF MoveOK

\* The end of trySetVersion takes nothing from anybody.
LEMMA NewestOK ==
    ASSUME ClaimsInv, NEW s \in Shard, NEW c \in Coll, NEW p,
           Pending(s, p, config[c], manager[s][c]), manager' = Newest(s, c, p),
           config' = config, lock' = lock, from' = from
    PROVE  /\ StateInv' /\ ClaimsAreTrue'
           /\ PendingsKept
           /\ AllFit
<1>1. StateInv /\ ClaimsAreTrue /\ ManagerOK(manager[s][c]) /\ ManagerOK(p)
  BY ZenonT(30) DEF ClaimsInv, StateInv, ManagerInv, Pending
<1>2. (ConfigInv /\ LockInv /\ FromInv)'
  BY ZenonT(30), <1>1 DEF StateInv, ConfigInv, LockInv, FromInv
<1>3. CASE manager' = manager
  <2>1. ManagerInv' /\ ClaimsAreTrue'
    BY ZenonT(30), <1>1, <1>3 DEF StateInv, ManagerInv, ClaimsAreTrue
  <2>2. AllFit
    BY ZenonT(30), <1>3 DEF Good, After, AllFit
  <2>. QED
    BY ZenonT(30), <1>2, <1>3, <2>1, <2>2 DEF StateInv, PendingsKept
<1>4. CASE /\ manager[s][c] = NoManager \/ p.version >= manager[s][c].version
           /\ manager' = [manager EXCEPT ![s][c] = p]
  <2>1. p.version \in Nat /\ manager[s][c].version \in Nat
    BY ZenonT(30), <1>1 DEF ManagerOK
  <2>2. manager[s][c].version <= p.version
    BY <1>4, <2>1 DEF NoManager
  <2>3. p.has => config[c].owner = s
    BY <2>1, <2>2 DEF Pending
  <2>4. /\ ManagerInv' /\ ClaimsAreTrue'
        /\ \A u \in Shard, d \in Coll : <<u, d>> # <<s, c>> => manager'[u][d] = manager[u][d]
        /\ PendingsKept
    BY ZenonT(30), <1>1, <1>4, <2>2, <2>3, ManagerStep
  <2>5. manager'[s][c] = p
    BY ZenonT(30), <1>1, <1>4 DEF StateInv, ManagerInv
  <2>6. ASSUME NEW j \in Move, NEW m, Good(j, m) PROVE After(j, m)
    <3>1. CASE m.s = s /\ m.c = c
      <4>1. MoveOK(j, m, config[c], lock[c], from[s].active, manager[s][c])
        BY ZenonT(30), <2>6, <3>1 DEF Good
      <4>2. p.version <= CollVersion(config[c])
        BY ZenonT(30) DEF Pending
      <4>3. CollVersion(config[c]) \in Nat
        BY ZenonT(30), <1>1, CollVersionIsGreatest DEF StateInv, ConfigInv
      <4>4. ~ (m.pc \in {"await", "config"} /\ CollVersion(config[c]) = m.maxVersion)
        <5>1. m.pc \in {"await", "config"} /\ CollVersion(config[c]) = m.maxVersion
                => m.maxVersion < manager[s][c].version
          BY ZenonT(30), <4>1 DEF MoveOK
        <5>. QED
          BY <2>1, <2>2, <4>2, <4>3, <5>1
      <4>5. MoveOK(j, m, config[c], lock[c], from[s].active, p)
        BY ZenonT(30), <1>1, <2>2, <4>1, <4>4, MoveKept
      <4>. QED
        BY ZenonT(30), <2>5, <2>6, <3>1, <4>5 DEF Good, After
    <3>2. CASE ~ (m.s = s /\ m.c = c)
      BY ZenonT(30), <2>4, <2>6, <3>2 DEF Good, After
    <3>. QED
      BY ZenonT(30), <3>1, <3>2
  <2>. QED
    BY ZenonT(30), <1>2, <2>4, <2>6 DEF StateInv, AllFit
<1>. QED
  BY ZenonT(30), <1>3, <1>4 DEF Newest

LEMMA RoutersKept ==
    ASSUME ClaimsInv, router' = router,
           PendingsKept
    PROVE  RoutersInv'
<1>1. DOMAIN router' = Mongos /\ \A w \in Mongos : RouterOK(router'[w])
  BY ZenonT(30) DEF ClaimsInv, RoutersInv
<1>2. ASSUME NEW w \in Mongos, router'[w].op.stage = "loaded"
      PROVE  LET op == router'[w].op IN Pending(op.s, op.p, config'[op.c], manager'[op.s][op.c])
  <2>. DEFINE op == router[w].op
  <2>1. /\ op.s \in Shard /\ op.c \in Coll
        /\ Pending(op.s, op.p, config[op.c], manager[op.s][op.c])
    BY ZenonT(30), <1>2 DEF ClaimsInv, RoutersInv, RouterOK, Answering
  <2>. QED
    BY ZenonT(30), <2>1 DEF PendingsKept
<1>. QED
  BY ZenonT(30), <1>1, <1>2 DEF RoutersInv

\* trySetVersion installs what moveChunk loaded.
LEMMA InstallStep ==
    ASSUME ClaimsInv, NEW i \in Move, MoveInstall(i)
    PROVE  ClaimsInv'
<1>. DEFINE m == move[i]
            r == [m EXCEPT !.pc = IF Major(m.p.version) = 0 THEN "unlock" ELSE "begin",
                           !.startingVersion = m.p.version, !.p = NoManager]
<1>1. /\ m.pc = "install" /\ Becomes(i, r)
      /\ manager' = Newest(m.s, m.c, m.p)
      /\ config' = config /\ lock' = lock /\ from' = from /\ router' = router
  BY ZenonT(30) DEF MoveInstall, At, Becomes
<1>2. DOMAIN m = MoveFields /\ Good(i, m)
  BY ZenonT(30), <1>1 DEF ClaimsInv, MovesInv
<1>3. /\ m.s \in Shard /\ m.t \in Shard /\ m.c \in Coll
      /\ MoveOK(i, m, config[m.c], lock[m.c], from[m.s].active, manager[m.s][m.c])
  BY ZenonT(30), <1>2 DEF Good
<1>4. Pending(m.s, m.p, config[m.c], manager[m.s][m.c])
  BY ZenonT(30), <1>1, <1>3 DEF MoveOK
<1>5. m.p.version \in Nat
  BY ZenonT(30), <1>4 DEF Pending, ManagerOK
<1>6. /\ DOMAIN r = MoveFields /\ r.s = m.s /\ r.t = m.t /\ r.c = m.c
      /\ r.maxVersion = m.maxVersion /\ r.startingVersion = m.p.version
      /\ r.pc \in {"begin", "unlock"}
  BY ZenonT(30), <1>2 DEF MoveFields
<1>. HIDE DEF r
<1>7. Good(i, r)
  <2>1. MoveOK(i, r, config[m.c], lock[m.c], from[m.s].active, manager[m.s][m.c])
    BY ZenonT(30), <1>1, <1>3, <1>5, <1>6
       DEF MoveOK, Before, Starting, Asking, Deciding, Leaving, Closing, Marked
  <2>. QED
    BY ZenonT(30), <1>3, <1>6, <2>1 DEF Good
<1>8. /\ StateInv' /\ ClaimsAreTrue'
      /\ PendingsKept
      /\ AllFit
  BY ZenonT(30), <1>1, <1>3, <1>4, NewestOK
<1>9. RoutersInv'
  BY ZenonT(30), <1>1, <1>8, RoutersKept
<1>10. OthersFit(i)
  BY ZenonT(30), <1>8 DEF ClaimsInv, MovesInv, AllFit, OthersFit
<1>11. After(i, r) /\ r.pc \notin Engaged
  BY ZenonT(30), <1>6, <1>7, <1>8 DEF AllFit, Engaged, Closing, Marked, Asking, Deciding, Leaving
<1>12. Apart(i, r)
  BY ZenonT(30), <1>11 DEF Apart
<1>. QED
  BY ZenonT(30), <1>1, <1>6, <1>8, <1>9, <1>10, <1>11, <1>12, OneMove

\* Nothing but the routers and shards changed.
LEMMA NoMove ==
    ASSUME ClaimsInv, move' = move, StateInv', ClaimsAreTrue', RoutersInv',
           \A j \in Move : move[j].pc # "idle" => After(j, move[j])
    PROVE  ClaimsInv'
<1>1. MovesInv'
  <2>1. ASSUME NEW j \in Move, move'[j].pc # "idle" PROVE Good(j, move[j])'
    <3>1. After(j, move[j]) /\ move'[j] = move[j]
      BY ZenonT(30), <2>1
    <3>. QED
      BY ZenonT(30), <3>1 DEF Good, After
  <2>. QED
    BY ZenonT(30), <2>1 DEF ClaimsInv, MovesInv
<1>2. ExclusiveInv'
  BY ZenonT(30) DEF ClaimsInv, ExclusiveInv
<1>. QED
  BY ZenonT(30), <1>1, <1>2 DEF ClaimsInv

\* ... and what setShardVersion loaded.
LEMMA VersionStep ==
    ASSUME ClaimsInv, NEW w \in Mongos, InstallVersion(w)
    PROVE  ClaimsInv'
<1>. DEFINE op == router[w].op
            v == IF op.p.version = Wanted(w, op.c) THEN op.p.version
                 ELSE router[w].version[op.s][op.c]
            next == [router[w] EXCEPT !.op = NoOp, !.version[op.s][op.c] = v]
<1>1. /\ op.stage = "loaded" /\ manager' = Newest(op.s, op.c, op.p)
      /\ config' = config /\ lock' = lock /\ from' = from /\ move' = move
  BY ZenonT(30) DEF InstallVersion
<1>2. router' = [router EXCEPT ![w] = next]
  BY ZenonT(30) DEF InstallVersion
<1>3. /\ DOMAIN router = Mongos /\ RouterOK(router[w]) /\ op.s \in Shard /\ op.c \in Coll
      /\ Pending(op.s, op.p, config[op.c], manager[op.s][op.c])
  BY ZenonT(30), <1>1 DEF ClaimsInv, RoutersInv, RouterOK, Answering
<1>4. /\ StateInv' /\ ClaimsAreTrue'
      /\ PendingsKept
      /\ AllFit
  BY ZenonT(30), <1>1, <1>3, NewestOK
<1>5. /\ DOMAIN next = {"cache", "op", "version"} /\ next.cache = router[w].cache
      /\ next.op = NoOp
  BY ZenonT(30), <1>3 DEF RouterOK
<1>6. DOMAIN NoOp = OpFields /\ NoOp.stage = "none"
  BY ZenonT(30) DEF NoOp, OpFields
<1>. HIDE DEF next
<1>7. RouterOK(next)
  BY ZenonT(30), <1>3, <1>5, <1>6 DEF RouterOK, Answering
<1>8. RoutersInv'
  <2>1. /\ DOMAIN router' = Mongos /\ router'[w] = next
        /\ \A x \in Mongos : x # w => router'[x] = router[x]
    BY ZenonT(30), <1>2, <1>3
  <2>2. \A x \in Mongos : RouterOK(router'[x])
    BY ZenonT(30), <1>7, <2>1 DEF ClaimsInv, RoutersInv
  <2>3. ASSUME NEW x \in Mongos, router'[x].op.stage = "loaded"
        PROVE  LET o == router'[x].op IN Pending(o.s, o.p, config'[o.c], manager'[o.s][o.c])
    <3>. DEFINE o == router[x].op
    <3>1. x # w /\ router'[x] = router[x]
      BY ZenonT(30), <1>5, <1>6, <2>1, <2>3
    <3>2. /\ o.s \in Shard /\ o.c \in Coll
          /\ Pending(o.s, o.p, config[o.c], manager[o.s][o.c])
      BY ZenonT(30), <2>3, <3>1 DEF ClaimsInv, RoutersInv, RouterOK, Answering
    <3>. QED
      BY ZenonT(30), <1>4, <3>1, <3>2 DEF PendingsKept
  <2>. QED
    BY ZenonT(30), <2>1, <2>2, <2>3 DEF RoutersInv
<1>9. \A j \in Move : move[j].pc # "idle" => After(j, move[j])
  BY ZenonT(30), <1>4 DEF ClaimsInv, MovesInv, AllFit
<1>. QED
  BY ZenonT(30), <1>1, <1>4, <1>8, <1>9, NoMove

\* A move that is engaged gives its donor another manager: no other move is on
\* its way to the commit there.
LEMMA DonorStep ==
    ASSUME ClaimsInv, NEW i \in Move, NEW n, ManagerOK(n), NEW r, DOMAIN r = MoveFields,
           move[i].pc \in Engaged, move[i].pc # "idle",
           manager' = [manager EXCEPT ![move[i].s][move[i].c] = n],
           n.has => config[move[i].c].owner = move[i].s,
           \/ config[move[i].c].owner = move[i].s
           \/ manager[move[i].s][move[i].c].version <= n.version,
           config' = config, lock' = lock, from' = from, router' = router,
           Becomes(i, r), r.s = move[i].s, r.t = move[i].t, r.c = move[i].c,
           MoveOK(i, r, config[r.c], lock[r.c], from[r.s].active, n)
    PROVE  ClaimsInv'
<1>. DEFINE s == move[i].s
            c == move[i].c
<1>1. s \in Shard /\ c \in Coll /\ move[i].t \in Shard
  BY ZenonT(30) DEF ClaimsInv, MovesInv, Good
<1>2. /\ ManagerInv' /\ ClaimsAreTrue'
      /\ \A u \in Shard, d \in Coll : <<u, d>> # <<s, c>> => manager'[u][d] = manager[u][d]
      /\ PendingsKept
  BY ZenonT(30), <1>1, ManagerStep
<1>3. manager'[s][c] = n /\ ManagerOK(manager[s][c])
  BY ZenonT(30), <1>1 DEF ClaimsInv, StateInv, ManagerInv
<1>4. StateInv'
  BY ZenonT(30), <1>2 DEF ClaimsInv, StateInv, ConfigInv, LockInv, FromInv
<1>5. RoutersInv'
  BY ZenonT(30), <1>2, RoutersKept
<1>6. After(i, r)
  BY ZenonT(30), <1>1, <1>3 DEF After
<1>7. ASSUME NEW j \in Move, j # i, move[j].pc # "idle" PROVE After(j, move[j])
  <2>. DEFINE m == move[j]
  <2>1. /\ m.s \in Shard /\ m.t \in Shard /\ m.c \in Coll
        /\ MoveOK(j, m, config[m.c], lock[m.c], from[m.s].active, manager[m.s][m.c])
    BY ZenonT(30), <1>7 DEF ClaimsInv, MovesInv, Good
  <2>2. CASE m.s = s /\ m.c = c
    <3>1. m.pc \notin Engaged
      BY ZenonT(30), <1>7, <2>2 DEF ClaimsInv, ExclusiveInv
    <3>2. ~ (m.pc \in {"await", "config"})
      BY ZenonT(30), <3>1 DEF Engaged, Marked, Deciding
    <3>3. MoveOK(j, m, config[c], lock[c], from[s].active, n)
      BY ZenonT(30), <1>3, <2>1, <2>2, <3>2, MoveKept
    <3>. QED
      BY ZenonT(30), <1>3, <2>1, <2>2, <3>3 DEF After
  <2>3. CASE ~ (m.s = s /\ m.c = c)
    BY ZenonT(30), <1>2, <2>1, <2>3 DEF After
  <2>. QED
    BY ZenonT(30), <2>2, <2>3
<1>8. Apart(i, r)
  BY ZenonT(30) DEF ClaimsInv, ExclusiveInv, Apart
<1>9. OthersFit(i)
  BY ZenonT(30), <1>7 DEF OthersFit
<1>10. ClaimsAreTrue'
  BY ZenonT(30), <1>2
<1>. QED
  BY ZenonT(30), <1>4, <1>5, <1>6, <1>8, <1>9, <1>10, OneMove

\* donateChunk
LEMMA DonateStep ==
    ASSUME OneCollection, ClaimsInv, NEW i \in Move, MoveDonate(i)
    PROVE  ClaimsInv'
<1>. DEFINE m == move[i]
            version == IncMajor(m.maxVersion)
            mine == manager[m.s][m.c]
            n == Minus(m.s, mine, version)
            r == [move[i] EXCEPT !.pc = "await"]
<1>1. /\ m.pc = "donate" /\ config' = config /\ lock' = lock /\ from' = from /\ router' = router
  BY ZenonT(30) DEF MoveDonate, At
<1>2. DOMAIN m = MoveFields /\ Good(i, m)
  BY ZenonT(30), <1>1 DEF ClaimsInv, MovesInv
<1>3. /\ m.s \in Shard /\ m.t \in Shard /\ m.c \in Coll
      /\ MoveOK(i, m, config[m.c], lock[m.c], from[m.s].active, mine)
  BY ZenonT(30), <1>2 DEF Good
<1>4. CASE mine.has /\ version > mine.version
  <2>1. manager' = [manager EXCEPT ![m.s][m.c] = n] /\ Becomes(i, r)
    BY ZenonT(30), <1>4 DEF MoveDonate, Goto, Becomes
  <2>2. m.maxVersion \in Nat /\ version \in Nat /\ m.maxVersion < version
    BY ZenonT(30), <1>3, IncMajorGrows DEF MoveOK
  <2>3. ManagerOK(mine) /\ FirstPin[m.s] > 0
    BY ZenonT(30), <1>3 DEF ClaimsInv, StateInv, ManagerInv, OneCollection
  <2>. HIDE DEF version, mine
  <2>4. ManagerOK(n) /\ ~ n.has /\ n.version = version
    <3>1. m.s \in Shard
      BY ZenonT(30), <1>3
    <3>. HIDE DEF m
    <3>. QED
      BY ZenonT(30), <2>2, <2>3, <3>1, MinusOK
  <2>5. mine.version \in Nat
    BY ZenonT(30), <2>3 DEF ManagerOK
  <2>. HIDE DEF n
  <2>6. mine.version <= n.version
    BY <1>4, <2>2, <2>4, <2>5
  <2>7. /\ DOMAIN r = MoveFields /\ r.s = m.s /\ r.t = m.t /\ r.c = m.c /\ r.pc = "await"
        /\ r.maxVersion = m.maxVersion /\ r.startingVersion = m.startingVersion
    BY ZenonT(30), <1>2 DEF MoveFields
  <2>. HIDE DEF r
  <2>8. MoveOK(i, r, config[r.c], lock[r.c], from[r.s].active, n)
    BY ZenonT(30), <1>1, <1>3, <2>2, <2>4, <2>7
       DEF MoveOK, Before, Starting, Asking, Deciding, Leaving, Closing, Marked
  <2>9. m.pc \in Engaged /\ m.pc # "idle"
    BY ZenonT(30), <1>1 DEF Engaged, Marked, Deciding
  <2>. QED
    BY ZenonT(30), <1>1, <2>1, <2>4, <2>6, <2>7, <2>8, <2>9, DonorStep DEF mine
<1>5. CASE ~ (mine.has /\ version > mine.version)
  <2>1. manager' = manager /\ Goto(i, "unwind")
    BY ZenonT(30), <1>5 DEF MoveDonate
  <2>2. Allowed(m.pc, "unwind")
    BY ZenonT(30), <1>1 DEF Allowed, Before, Starting, Asking, Deciding, Leaving, Closing, Marked, Engaged
  <2>3. SameFlags
    BY ZenonT(30), <1>1 DEF ClaimsInv, StateInv, FromInv, SameFlags
  <2>. QED
    BY ZenonT(30), <1>1, <2>1, <2>2, <2>3, PcStep
<1>. QED
  BY ZenonT(30), <1>4, <1>5

\* undoDonateChunk
LEMMA UndoStep ==
    ASSUME ClaimsInv, NEW i \in Move, MoveUndo(i)
    PROVE  ClaimsInv'
<1>. DEFINE m == move[i]
            mine == manager[m.s][m.c]
            n == Plus(mine, m.startingVersion)
            r == [move[i] EXCEPT !.pc = "return"]
<1>1. /\ m.pc = "undo" /\ config' = config /\ lock' = lock /\ from' = from /\ router' = router
  BY ZenonT(30) DEF MoveUndo, At
<1>2. DOMAIN m = MoveFields /\ Good(i, m)
  BY ZenonT(30), <1>1 DEF ClaimsInv, MovesInv
<1>3. /\ m.s \in Shard /\ m.t \in Shard /\ m.c \in Coll
      /\ MoveOK(i, m, config[m.c], lock[m.c], from[m.s].active, mine)
  BY ZenonT(30), <1>2 DEF Good
<1>4. CASE mine.has
  <2>1. manager' = manager /\ Goto(i, "unwind")
    BY ZenonT(30), <1>4 DEF MoveUndo
  <2>2. Allowed(m.pc, "unwind")
    BY ZenonT(30), <1>1 DEF Allowed, Before, Starting, Asking, Deciding, Leaving, Closing, Marked, Engaged
  <2>3. SameFlags
    BY ZenonT(30), <1>1 DEF ClaimsInv, StateInv, FromInv, SameFlags
  <2>. QED
    BY ZenonT(30), <1>1, <2>1, <2>2, <2>3, PcStep
<1>5. CASE ~ mine.has
  <2>1. manager' = [manager EXCEPT ![m.s][m.c] = n] /\ Becomes(i, r)
    BY ZenonT(30), <1>5 DEF MoveUndo, Goto, Becomes
  <2>2. m.startingVersion \in Nat /\ m.maxVersion \in Nat
    BY ZenonT(30), <1>3 DEF MoveOK
  <2>3. ManagerOK(mine)
    BY ZenonT(30), <1>3 DEF ClaimsInv, StateInv, ManagerInv
  <2>4. ManagerOK(n)
    BY ZenonT(30), <2>2, <2>3, PlusOK
  <2>5. config[m.c].owner = m.s
    BY ZenonT(30), <1>1, <1>3 DEF MoveOK, Before
  <2>. HIDE DEF n
  <2>7. /\ DOMAIN r = MoveFields /\ r.s = m.s /\ r.t = m.t /\ r.c = m.c /\ r.pc = "return"
        /\ r.maxVersion = m.maxVersion /\ r.startingVersion = m.startingVersion
    BY ZenonT(30), <1>2 DEF MoveFields
  <2>. HIDE DEF r
  <2>8. MoveOK(i, r, config[r.c], lock[r.c], from[r.s].active, n)
    BY ZenonT(30), <1>1, <1>3, <2>2, <2>7
       DEF MoveOK, Before, Starting, Asking, Deciding, Leaving, Closing, Marked
  <2>9. m.pc \in Engaged /\ m.pc # "idle"
    BY ZenonT(30), <1>1 DEF Engaged, Marked, Deciding
  <2>. QED
    BY ZenonT(30), <1>1, <2>1, <2>4, <2>5, <2>7, <2>8, <2>9, DonorStep
<1>. QED
  BY ZenonT(30), <1>4, <1>5
-----------------------------------------------------------------------------
(* Steps that change the chunks.                                           *)

\* The chunks go from g to h, which is newer.
LEMMA PendingGrown ==
    ASSUME NEW s, NEW p, NEW g, NEW h, NEW n, ChunksOK(g), ChunksOK(h), Pending(s, p, g, n),
           CollVersion(g) < CollVersion(h),
           p.has => h.owner = s \/ p.version < n.version
    PROVE  Pending(s, p, h, n)
<1>1. CollVersion(g) \in Nat /\ CollVersion(h) \in Nat
  BY ZenonT(30), CollVersionIsGreatest
<1>2. p.version \in Nat /\ p.version <= CollVersion(g)
  BY ZenonT(30) DEF Pending, ManagerOK
<1>3. p.version <= CollVersion(h)
  BY <1>1, <1>2
<1>. QED
  BY ZenonT(30), <1>3 DEF Pending

\* A move whose lock k goes to l can no longer commit, and keeps the rest.
LEMMA MoveGrown ==
    ASSUME NEW i, NEW m, NEW g, NEW h, NEW k, NEW l, NEW a, NEW n,
           ChunksOK(g), ChunksOK(h), MoveOK(i, m, g, k, a, n),
           CollVersion(g) < CollVersion(h),
           h.owner = g.owner \/ m.pc \notin Before,
           k = i /\ m.pc \notin Deciding => l = i
    PROVE  MoveOK(i, m, h, l, a, n)
<1>1. CollVersion(g) \in Nat /\ CollVersion(h) \in Nat
  BY ZenonT(30), CollVersionIsGreatest
<1>2. m.maxVersion \in Nat /\ m.maxVersion <= CollVersion(g)
  BY ZenonT(30) DEF MoveOK
<1>3. m.maxVersion < CollVersion(h)
  BY <1>1, <1>2
<1>4. m.pc = "install" => Pending(m.s, m.p, h, n)
  <2>. SUFFICES ASSUME m.pc = "install" PROVE Pending(m.s, m.p, h, n)
    BY ZenonT(30)
  <2>1. m.pc \in Before /\ Pending(m.s, m.p, g, n)
    BY ZenonT(30) DEF MoveOK, Before, Starting
  <2>2. m.p.has => h.owner = m.s \/ m.p.version < n.version
    BY ZenonT(30), <2>1 DEF Pending
  <2>. QED
    BY ZenonT(30), <2>1, <2>2, PendingGrown
<1>5. /\ m.pc \in Before => h.owner = m.s
      /\ m.pc \in Marked => a
  BY ZenonT(30) DEF MoveOK
<1>6. /\ m.pc \in Starting \cup Asking \cup Leaving \cup {"cleanup"} => l = i
      /\ m.pc \in Closing => a \/ l = i
  BY ZenonT(30) DEF MoveOK, Starting, Asking, Leaving, Closing, Deciding
<1>7. m.maxVersion <= CollVersion(h) /\ CollVersion(h) # m.maxVersion
  BY <1>1, <1>2, <1>3
<1>8. m.startingVersion \in Nat
  BY ZenonT(30) DEF MoveOK
<1>. QED
  BY ZenonT(30), <1>2, <1>4, <1>5, <1>6, <1>7, <1>8 DEF MoveOK

\* Another process changes the version of a chunk that stays.
LEMMA OtherMoveStep ==
    ASSUME OneCollection, ClaimsInv, NEW c \in Coll, NEW s \in Shard, OtherMove(c, s)
    PROVE  ClaimsInv'
<1>. DEFINE g == config[c]
            v == IncMajor(CollVersion(g))
            h == Bumped(g, s, v)
<1>1. /\ config' = [config EXCEPT ![c] = h] /\ lock' = [lock EXCEPT ![c] = 0]
      /\ manager' = manager /\ from' = from /\ router' = router /\ move' = move
      /\ lock[c] # 0 => move[lock[c]].pc \in LostLockAt
  BY ZenonT(30) DEF OtherMove, Bumped, shardVars
<1>2. ConfigInv /\ LockInv /\ ManagerInv /\ FromInv /\ ChunksOK(g) /\ CollVersion(g) \in Nat
  BY ZenonT(30), CollVersionIsGreatest DEF ClaimsInv, StateInv, ConfigInv
<1>3. v \in Nat /\ CollVersion(g) < v
  BY ZenonT(30), <1>2, IncMajorGrows
<1>. HIDE DEF v
<1>4. ChunksOK(h) /\ CollVersion(g) < CollVersion(h) /\ h.owner = g.owner
  BY ZenonT(30), <1>2, <1>3, BumpedOK
<1>. HIDE DEF h
<1>5. \A d \in Coll : d = c /\ config'[d] = h /\ lock'[d] = 0
  BY ZenonT(30), <1>1, <1>2 DEF ConfigInv, LockInv, OneCollection
<1>6. StateInv'
  BY ZenonT(30), <1>1, <1>2, <1>4, <1>5 DEF StateInv, ConfigInv, LockInv, ManagerInv, FromInv
<1>7. ClaimsAreTrue'
  BY ZenonT(30), <1>1, <1>4, <1>5 DEF ClaimsInv, ClaimsAreTrue
<1>8. ASSUME NEW u \in Shard, NEW d \in Coll, NEW p, Pending(u, p, config[d], manager[u][d])
      PROVE  Pending(u, p, config'[d], manager'[u][d])
  <2>1. Pending(u, p, g, manager[u][d]) /\ config'[d] = h /\ manager'[u][d] = manager[u][d]
    BY ZenonT(30), <1>1, <1>5, <1>8
  <2>2. p.has => h.owner = u \/ p.version < manager[u][d].version
    BY ZenonT(30), <1>4, <2>1 DEF Pending
  <2>. QED
    BY ZenonT(30), <1>2, <1>4, <2>1, <2>2, PendingGrown
<1>9. RoutersInv'
  <2>1. PendingsKept
    BY ZenonT(30), <1>8 DEF PendingsKept
  <2>. QED
    BY ZenonT(30), <1>1, <2>1, RoutersKept
<1>10. ASSUME NEW j \in Move, move[j].pc # "idle" PROVE After(j, move[j])
  <2>. DEFINE m == move[j]
  <2>1. /\ m.s \in Shard /\ m.t \in Shard /\ m.c \in Coll /\ m.c = c
        /\ MoveOK(j, m, g, lock[c], from[m.s].active, manager[m.s][c])
    BY ZenonT(30), <1>5, <1>10 DEF ClaimsInv, MovesInv, Good
  <2>2. lock[c] = j => m.pc \in Deciding
    BY <1>1 DEF OneCollection, Move
  <2>3. MoveOK(j, m, h, 0, from[m.s].active, manager[m.s][c])
    BY ZenonT(30), <1>2, <1>4, <2>1, <2>2, MoveGrown
  <2>. QED
    BY ZenonT(30), <1>1, <1>5, <2>1, <2>3 DEF After
<1>. QED
  BY ZenonT(30), <1>1, <1>6, <1>7, <1>9, <1>10, NoMove

\* The commit finds nobody who believes to have the chunk, or is about to, and
\* no other move that thinks it is still where it was.
LEMMA Committing ==
    ASSUME OneCollection, ClaimsInv, NEW i \in Move, move[i].pc = "config", Unchanged(i),
           config' = Committed(i)
    PROVE  /\ ConfigInv'
           /\ \A u \in Shard, d \in Coll : ~ manager[u][d].has
           /\ \A u \in Shard, d \in Coll : \A p : Pending(u, p, config[d], manager[u][d])
                 => Pending(u, p, config'[d], manager[u][d])
           /\ \A j \in Move : j # i /\ move[j].pc # "idle" => LET m == move[j] IN
                 MoveOK(j, m, config'[m.c], lock[m.c], from[m.s].active, manager[m.s][m.c])
           /\ \A d \in Coll : move[i].maxVersion <= CollVersion(config'[d])
           /\ lock[move[i].c] = i
<1>. DEFINE m == move[i]
            g == config[m.c]
            v == IncMajor(m.maxVersion)
            n == manager[m.s][m.c]
            p == IF HasAnother(m.s, n) THEN [g.pin EXCEPT ![m.s] = v + 1] ELSE g.pin
            h == Moved(m.t, v, p)
<1>1. /\ m.s \in Shard /\ m.t \in Shard /\ m.c \in Coll
      /\ MoveOK(i, m, g, lock[m.c], from[m.s].active, n)
  BY ZenonT(30) DEF ClaimsInv, MovesInv, Good
<1>2. /\ m.maxVersion \in Nat /\ g.owner = m.s /\ lock[m.c] = i
      /\ CollVersion(g) = m.maxVersion
      /\ ~ n.has /\ m.maxVersion < n.version
  BY ZenonT(30), <1>1 DEF MoveOK, Before, Deciding, Unchanged
<1>3. ConfigInv /\ ChunksOK(g) /\ \A d \in Coll : d = m.c
  BY ZenonT(30), <1>1 DEF ClaimsInv, StateInv, ConfigInv, OneCollection
<1>4. config' = [config EXCEPT ![m.c] = h]
  BY ZenonT(30), <1>1, <1>3 DEF Committed, Moved, ConfigInv
<1>13. p \in Pins(g, m.s, v)
  BY ZenonT(30) DEF Pins
<1>5. v \in Nat /\ CollVersion(g) < v
  BY ZenonT(30), <1>2, IncMajorGrows
<1>. HIDE DEF v, p
<1>6. ChunksOK(h) /\ CollVersion(g) < CollVersion(h) /\ h.owner = m.t
  BY ZenonT(30), <1>1, <1>3, <1>5, <1>13, MovedOK
<1>. HIDE DEF h
<1>7. DOMAIN config' = Coll /\ \A d \in Coll : config'[d] = h /\ d = m.c
  BY ZenonT(30), <1>1, <1>3, <1>4 DEF ConfigInv
<1>8. ConfigInv'
  BY ZenonT(30), <1>6, <1>7 DEF ConfigInv
<1>9. \A u \in Shard, d \in Coll : ~ manager[u][d].has
  BY ZenonT(30), <1>2, <1>3 DEF ClaimsInv, ClaimsAreTrue
<1>10. ASSUME NEW u \in Shard, NEW d \in Coll, NEW x, Pending(u, x, config[d], manager[u][d])
       PROVE  Pending(u, x, config'[d], manager[u][d])
  <2>1. Pending(u, x, g, manager[u][d]) /\ config'[d] = h /\ d = m.c
    BY ZenonT(30), <1>7, <1>10
  <2>2. x.version \in Nat /\ x.version <= m.maxVersion
    BY ZenonT(30), <1>2, <2>1 DEF Pending, ManagerOK
  <2>3. x.has => x.version < manager[u][d].version
    <3>1. CASE u = m.s
      <4>1. n.version \in Nat /\ manager[u][d] = n
        BY ZenonT(30), <1>1, <2>1, <3>1 DEF ClaimsInv, StateInv, ManagerInv, ManagerOK
      <4>2. m.maxVersion \in Nat /\ m.maxVersion < n.version
        BY ZenonT(30), <1>2
      <4>3. x.version < n.version
        <5>. HIDE DEF m, n
        <5>. QED
          BY <2>2, <4>1, <4>2
      <4>. QED
        BY ZenonT(30), <4>1, <4>3
    <3>2. CASE u # m.s
      BY ZenonT(30), <1>2, <2>1, <3>2 DEF Pending
    <3>. QED
      BY ZenonT(30), <3>1, <3>2
  <2>. QED
    BY ZenonT(30), <1>3, <1>6, <2>1, <2>3, PendingGrown
<1>11. ASSUME NEW j \in Move, j # i, move[j].pc # "idle"
       PROVE  MoveOK(j, move[j], config'[move[j].c], lock[move[j].c], from[move[j].s].active,
                     manager[move[j].s][move[j].c])
  <2>. DEFINE o == move[j]
  <2>1. /\ o.c = m.c /\ config'[o.c] = h
        /\ MoveOK(j, o, g, lock[m.c], from[o.s].active, manager[o.s][m.c])
    <3>1. o.c \in Coll /\ Good(j, o)
      BY ZenonT(30), <1>11 DEF ClaimsInv, MovesInv, Good
    <3>2. o.c = m.c
      BY ZenonT(30), <1>7, <3>1
    <3>. QED
      BY ZenonT(30), <1>7, <3>1, <3>2 DEF Good
  <2>2. o.pc \in Before => o.s = m.s
    BY ZenonT(30), <1>2, <2>1 DEF MoveOK
  <2>3. o.pc \notin Starting
    BY ZenonT(30), <1>2, <1>11, <2>1 DEF MoveOK
  <2>4. o.pc \in Engaged => o.s # m.s
    BY ZenonT(30), <1>11 DEF ClaimsInv, ExclusiveInv, Engaged, Marked, Deciding
  <2>5. o.pc \notin Before
    BY ZenonT(30), <2>2, <2>3, <2>4 DEF Before, Engaged, Marked
  <2>6. MoveOK(j, o, h, lock[m.c], from[o.s].active, manager[o.s][m.c])
    <3>1. ChunksOK(g) /\ ChunksOK(h) /\ CollVersion(g) < CollVersion(h)
      BY ZenonT(30), <1>3, <1>6
    <3>2. MoveOK(j, o, g, lock[m.c], from[o.s].active, manager[o.s][m.c])
      BY ZenonT(30), <2>1
    <3>. HIDE DEF g, m
    <3>. QED
      BY ZenonT(30), <2>5, <3>1, <3>2, MoveGrown
  <2>. QED
    BY ZenonT(30), <2>1, <2>6
<1>12. CollVersion(h) \in Nat /\ m.maxVersion <= CollVersion(h)
  <2>1. CollVersion(h) \in Nat
    BY ZenonT(30), <1>6, CollVersionIsGreatest
  <2>2. m.maxVersion \in Nat /\ m.maxVersion < CollVersion(h)
    BY ZenonT(30), <1>2, <1>6
  <2>. HIDE DEF m
  <2>. QED
    BY <2>1, <2>2
<1>. QED
  BY ZenonT(30), <1>2, <1>7, <1>8, <1>9, <1>10, <1>11, <1>12

LEMMA CommitStep ==
    ASSUME OneCollection, ClaimsInv, NEW i \in Move, MoveCommit(i)
    PROVE  ClaimsInv'
<1>. DEFINE m == move[i]
            r == [move[i] EXCEPT !.pc = "leave"]
<1>1. /\ m.pc = "config" /\ Unchanged(i) /\ config' = Committed(i)
      /\ Becomes(i, r)
      /\ lock' = lock /\ manager' = manager /\ from' = from /\ router' = router
  BY ZenonT(30) DEF MoveCommit, At, Goto, shardVars, Becomes
<1>2. /\ DOMAIN m = MoveFields /\ m.s \in Shard /\ m.t \in Shard /\ m.c \in Coll
      /\ MoveOK(i, m, config[m.c], lock[m.c], from[m.s].active, manager[m.s][m.c])
  BY ZenonT(30), <1>1 DEF ClaimsInv, MovesInv, Good
<1>3. /\ ConfigInv'
      /\ \A u \in Shard, d \in Coll : ~ manager[u][d].has
      /\ \A u \in Shard, d \in Coll : \A p : Pending(u, p, config[d], manager[u][d])
            => Pending(u, p, config'[d], manager[u][d])
      /\ \A j \in Move : j # i /\ move[j].pc # "idle" => LET o == move[j] IN
            MoveOK(j, o, config'[o.c], lock[o.c], from[o.s].active, manager[o.s][o.c])
      /\ \A d \in Coll : m.maxVersion <= CollVersion(config'[d])
      /\ lock[m.c] = i
  BY ZenonT(30), <1>1, Committing
<1>4. StateInv' /\ ClaimsAreTrue'
  BY ZenonT(30), <1>1, <1>3 DEF ClaimsInv, StateInv, LockInv, ManagerInv, FromInv, ClaimsAreTrue
<1>5. RoutersInv'
  <2>1. PendingsKept
    BY ZenonT(30), <1>1, <1>3 DEF PendingsKept
  <2>. QED
    BY ZenonT(30), <1>1, <2>1, RoutersKept
<1>6. /\ DOMAIN r = MoveFields /\ r.s = m.s /\ r.t = m.t /\ r.c = m.c /\ r.pc = "leave"
      /\ r.maxVersion = m.maxVersion /\ r.startingVersion = m.startingVersion
  BY ZenonT(30), <1>2 DEF MoveFields
<1>. HIDE DEF r
<1>7. After(i, r)
  <2>1. MoveOK(i, r, config'[m.c], lock[m.c], from[m.s].active, manager[m.s][m.c])
    BY ZenonT(30), <1>1, <1>2, <1>3, <1>6
       DEF MoveOK, Before, Starting, Asking, Deciding, Leaving, Closing, Marked
  <2>. QED
    BY ZenonT(30), <1>1, <1>2, <1>6, <2>1 DEF After
<1>8. ASSUME NEW j \in Move, j # i, move[j].pc # "idle" PROVE After(j, move[j])
  <2>1. move[j].s \in Shard /\ move[j].t \in Shard /\ move[j].c \in Coll
    BY ZenonT(30), <1>8 DEF ClaimsInv, MovesInv, Good
  <2>. QED
    BY ZenonT(30), <1>1, <1>3, <1>8, <2>1 DEF After
<1>9. Apart(i, r)
  BY ZenonT(30), <1>1, <1>6 DEF ClaimsInv, ExclusiveInv, Apart, Engaged, Marked, Deciding
<1>10. OthersFit(i)
  BY ZenonT(30), <1>8 DEF OthersFit
<1>11. Becomes(i, r) /\ DOMAIN r = MoveFields
  BY ZenonT(30), <1>1, <1>6
<1>. QED
  BY ZenonT(30), <1>4, <1>5, <1>7, <1>9, <1>10, <1>11, OneMove
-----------------------------------------------------------------------------
(* Steps that change the lock or the donor's status.                       *)

\* Managers, chunks and routers stay.
LEMMA QuietState ==
    ASSUME ClaimsInv, config' = config, manager' = manager, router' = router
    PROVE  (ConfigInv /\ ManagerInv /\ RoutersInv /\ ClaimsAreTrue)'
  BY ZenonT(30) DEF ClaimsInv, StateInv, ConfigInv, ManagerInv, RoutersInv, ClaimsAreTrue

\* A move begins with the lock.
LEMMA StartStep ==
    ASSUME ClaimsInv, NEW i \in Move, NEW c \in Coll, NEW s \in Shard, NEW t \in Shard,
           MoveStart(i, c, s, t)
    PROVE  ClaimsInv'
<1>. DEFINE g == config[c]
            r == [NotMoved EXCEPT !.pc = "load", !.c = c, !.s = s, !.t = t,
                                  !.maxVersion = CollVersion(config[c])]
<1>1. /\ g.owner = s /\ lock[c] = 0 /\ lock' = [lock EXCEPT ![c] = i]
      /\ config' = config /\ manager' = manager /\ from' = from /\ router' = router
  BY ZenonT(30) DEF MoveStart, shardVars
<1>2. Becomes(i, r)
  BY ZenonT(30) DEF MoveStart, Becomes
<1>3. /\ DOMAIN r = MoveFields /\ r.pc = "load" /\ r.c = c /\ r.s = s /\ r.t = t
      /\ r.maxVersion = CollVersion(g) /\ r.startingVersion = 0
  BY ZenonT(30) DEF NotMoved, MoveFields
<1>. HIDE DEF r
<1>4. (ConfigInv /\ ManagerInv /\ RoutersInv /\ ClaimsAreTrue)'
  BY ZenonT(30), <1>1, QuietState
<1>5. /\ DOMAIN lock' = Coll /\ lock'[c] = i
      /\ \A d \in Coll : d # c => lock'[d] = lock[d]
  BY ZenonT(30), <1>1 DEF ClaimsInv, StateInv, LockInv
<1>6. StateInv'
  BY ZenonT(30), <1>1, <1>4, <1>5 DEF ClaimsInv, StateInv, LockInv, FromInv
<1>7. CollVersion(g) \in Nat
  BY ZenonT(30), CollVersionIsGreatest DEF ClaimsInv, StateInv, ConfigInv
<1>8. After(i, r)
  <2>2. r.maxVersion \in Nat /\ r.startingVersion \in Nat /\ r.maxVersion <= CollVersion(g)
    BY <1>3, <1>7
  <2>1. MoveOK(i, r, g, i, from[s].active, manager[s][c])
    BY ZenonT(30), <1>1, <1>3, <2>2
       DEF MoveOK, Before, Starting, Asking, Deciding, Leaving, Closing, Marked
  <2>. QED
    BY ZenonT(30), <1>1, <1>3, <1>5, <2>1 DEF After
<1>9. ASSUME NEW j \in Move, j # i, move[j].pc # "idle" PROVE After(j, move[j])
  <2>. DEFINE o == move[j]
  <2>1. /\ o.s \in Shard /\ o.t \in Shard /\ o.c \in Coll
        /\ MoveOK(j, o, config[o.c], lock[o.c], from[o.s].active, manager[o.s][o.c])
    BY ZenonT(30), <1>9 DEF ClaimsInv, MovesInv, Good
  <2>2. CASE o.c = c
    <3>1. lock[o.c] # j
      BY <1>1, <2>2 DEF Move
    <3>2. MoveOK(j, o, config[o.c], i, from[o.s].active, manager[o.s][o.c])
      BY ZenonT(30), <2>1, <3>1 DEF MoveOK
    <3>. QED
      BY ZenonT(30), <1>1, <1>5, <2>1, <2>2, <3>2 DEF After
  <2>3. CASE o.c # c
    BY ZenonT(30), <1>1, <1>5, <2>1, <2>3 DEF After
  <2>. QED
    BY ZenonT(30), <2>2, <2>3
<1>10. Apart(i, r)
  BY ZenonT(30), <1>3 DEF Apart, Engaged, Closing, Marked, Asking, Deciding, Leaving
<1>11. OthersFit(i)
  BY ZenonT(30), <1>9 DEF OthersFit
<1>12. ClaimsAreTrue' /\ RoutersInv' /\ DOMAIN r = MoveFields
  BY ZenonT(30), <1>3, <1>4
<1>. QED
  BY ZenonT(30), <1>2, <1>6, <1>8, <1>10, <1>11, <1>12, OneMove

\* A lock without holder is nobody's.
LEMMA LockGone ==
    ASSUME NEW j, NEW o, NEW g, NEW k, NEW l, NEW a, NEW n, MoveOK(j, o, g, k, a, n),
           k = j => l = j \/ o.pc \in {"over", "unlock"}
    PROVE  MoveOK(j, o, g, l, a, n)
<1>1. CASE k = j => l = j
  BY ZenonT(30), <1>1 DEF MoveOK
<1>2. CASE o.pc \in {"over", "unlock"}
  BY ZenonT(30), <1>2 DEF MoveOK, Before, Starting, Asking, Deciding, Leaving, Closing, Marked
<1>. QED
  BY ZenonT(30), <1>1, <1>2

\* The lock of a dead process is taken over.
LEMMA TakeOverStep ==
    ASSUME ClaimsInv, NEW c \in Coll, TakeOver(c)
    PROVE  ClaimsInv'
<1>1. /\ lock[c] # 0 /\ move[lock[c]].pc = "over" /\ lock' = [lock EXCEPT ![c] = 0]
      /\ config' = config /\ manager' = manager /\ from' = from /\ router' = router
      /\ move' = move
  BY ZenonT(30) DEF TakeOver, At, shardVars
<1>4. (ConfigInv /\ ManagerInv /\ RoutersInv /\ ClaimsAreTrue)'
  BY ZenonT(30), <1>1, QuietState
<1>5. /\ DOMAIN lock' = Coll /\ lock'[c] = 0
      /\ \A d \in Coll : d # c => lock'[d] = lock[d]
  BY ZenonT(30), <1>1 DEF ClaimsInv, StateInv, LockInv
<1>6. StateInv'
  BY ZenonT(30), <1>1, <1>4, <1>5 DEF ClaimsInv, StateInv, LockInv, FromInv
<1>9. ASSUME NEW j \in Move, move[j].pc # "idle" PROVE After(j, move[j])
  <2>. DEFINE o == move[j]
  <2>1. /\ o.s \in Shard /\ o.t \in Shard /\ o.c \in Coll
        /\ MoveOK(j, o, config[o.c], lock[o.c], from[o.s].active, manager[o.s][o.c])
    BY ZenonT(30), <1>9 DEF ClaimsInv, MovesInv, Good
  <2>2. lock[o.c] = j => lock'[o.c] = j \/ o.pc \in {"over", "unlock"}
    BY ZenonT(30), <1>1, <1>5, <2>1
  <2>3. MoveOK(j, o, config[o.c], lock'[o.c], from[o.s].active, manager[o.s][o.c])
    BY ZenonT(30), <2>1, <2>2, LockGone
  <2>. QED
    BY ZenonT(30), <1>1, <2>1, <2>3 DEF After
<1>. QED
  BY ZenonT(30), <1>1, <1>4, <1>6, <1>9, NoMove

\* A flag that is set, or one that the move does not need.
LEMMA FlagChanged ==
    ASSUME NEW i, NEW m, NEW g, NEW k, NEW a, NEW b, NEW n, MoveOK(i, m, g, k, a, n),
           (a => b) \/ m.pc \notin Engaged
    PROVE  MoveOK(i, m, g, k, b, n)
<1>1. CASE a => b
  BY ZenonT(30), <1>1 DEF MoveOK
<1>2. CASE m.pc \notin Engaged
  <2>1. m.pc \notin Marked /\ m.pc \notin Closing
    BY ZenonT(30), <1>2 DEF Engaged
  <2>. QED
    BY ZenonT(30), <2>1 DEF MoveOK
<1>. QED
  BY ZenonT(30), <1>1, <1>2

\* MigrateFromStatus::start
LEMMA BeginStep ==
    ASSUME OneCollection, ClaimsInv, NEW i \in Move, MoveBegin(i), ~ from[move[i].s].active
    PROVE  ClaimsInv'
<1>. DEFINE m == move[i]
            r == [move[i] EXCEPT !.pc = "engage"]
<1>1. /\ m.pc = "begin" /\ Becomes(i, r)
      /\ config' = config /\ lock' = lock /\ manager' = manager /\ router' = router
      /\ from' = [from EXCEPT ![m.s].active = TRUE, ![m.s].ns = m.c,
                              ![m.s].snapshot = FALSE, ![m.s].nextId = 0,
                              ![m.s].clearFailed = FALSE]
  BY ZenonT(30) DEF MoveBegin, At, Goto, Becomes
<1>2. /\ DOMAIN m = MoveFields /\ m.s \in Shard /\ m.t \in Shard /\ m.c \in Coll
      /\ MoveOK(i, m, config[m.c], lock[m.c], from[m.s].active, manager[m.s][m.c])
  BY ZenonT(30), <1>1 DEF ClaimsInv, MovesInv, Good
<1>3. /\ DOMAIN r = MoveFields /\ r.s = m.s /\ r.t = m.t /\ r.c = m.c /\ r.pc = "engage"
      /\ r.maxVersion = m.maxVersion /\ r.startingVersion = m.startingVersion
  BY ZenonT(30), <1>2 DEF MoveFields
<1>. HIDE DEF r
<1>4. (ConfigInv /\ ManagerInv /\ RoutersInv /\ ClaimsAreTrue)'
  BY ZenonT(30), <1>1, QuietState
<1>5. /\ DOMAIN from' = Shard /\ from'[m.s].active = TRUE /\ DOMAIN from'[m.s] = FromFields
      /\ \A u \in Shard : u # m.s => from'[u] = from[u]
  BY ZenonT(30), <1>1, <1>2 DEF ClaimsInv, StateInv, FromInv, FromFields
<1>6. StateInv'
  BY ZenonT(30), <1>1, <1>4, <1>5 DEF ClaimsInv, StateInv, LockInv, FromInv
<1>7. After(i, r)
  <2>1. MoveOK(i, r, config[m.c], lock[m.c], TRUE, manager[m.s][m.c])
    BY ZenonT(30), <1>1, <1>2, <1>3
       DEF MoveOK, Before, Starting, Asking, Deciding, Leaving, Closing, Marked
  <2>. QED
    BY ZenonT(30), <1>1, <1>2, <1>3, <1>5, <2>1 DEF After
<1>8. ASSUME NEW j \in Move, j # i, move[j].pc # "idle" PROVE After(j, move[j])
  <2>. DEFINE o == move[j]
  <2>1. /\ o.s \in Shard /\ o.t \in Shard /\ o.c \in Coll
        /\ MoveOK(j, o, config[o.c], lock[o.c], from[o.s].active, manager[o.s][o.c])
    BY ZenonT(30), <1>8 DEF ClaimsInv, MovesInv, Good
  <2>2. (from[o.s].active => from'[o.s].active) \/ o.pc \notin Engaged
    BY ZenonT(30), <1>5, <2>1
  <2>3. MoveOK(j, o, config[o.c], lock[o.c], from'[o.s].active, manager[o.s][o.c])
    BY ZenonT(30), <2>1, <2>2, FlagChanged
  <2>. QED
    BY ZenonT(30), <1>1, <2>1, <2>3 DEF After
<1>9. ASSUME NEW j \in Move, j # i, move[j].pc \in Engaged PROVE m.s # move[j].s
  <2>. DEFINE o == move[j]
  <2>0. o.pc # "idle"
    BY ZenonT(30), <1>9 DEF Engaged, Closing, Marked, Asking, Deciding, Leaving
  <2>1. o.c \in Coll /\ MoveOK(j, o, config[o.c], lock[o.c], from[o.s].active, manager[o.s][o.c])
    BY ZenonT(30), <2>0 DEF ClaimsInv, MovesInv, Good
  <2>2. SUFFICES ASSUME m.s = o.s PROVE FALSE
    BY ZenonT(30)
  <2>3. ~ from[o.s].active
    BY ZenonT(30), <2>2
  <2>4. o.pc \in Closing \cup {"cleanup"}
    BY ZenonT(30), <1>9, <2>1, <2>3 DEF MoveOK, Engaged
  <2>5. lock[o.c] = j
    BY ZenonT(30), <2>1, <2>3, <2>4 DEF MoveOK
  <2>6. lock[m.c] = i
    BY ZenonT(30), <1>1, <1>2 DEF MoveOK, Starting
  <2>7. o.c = m.c
    BY ZenonT(30), <1>2, <2>1 DEF OneCollection
  <2>. QED
    BY ZenonT(30), <1>9, <2>5, <2>6, <2>7
<1>10. Apart(i, r)
  BY ZenonT(30), <1>3, <1>9 DEF Apart
<1>11. OthersFit(i)
  BY ZenonT(30), <1>8 DEF OthersFit
<1>12. ClaimsAreTrue' /\ RoutersInv' /\ DOMAIN r = MoveFields /\ Becomes(i, r)
  BY ZenonT(30), <1>1, <1>3, <1>4
<1>. QED
  BY ZenonT(30), <1>6, <1>7, <1>10, <1>11, <1>12, OneMove

\* MigrateFromStatus::done by a move that is engaged, which may give up its lock.
LEMMA EndStep ==
    ASSUME ClaimsInv, NEW i \in Move, NEW q, Goto(i, q), 
           \/ move[i].pc \in Engaged /\ (Done(move[i].s) \/ DoneFails(move[i].s))
           \/ move[i].pc = "unlock" /\ from' = from /\ q = "over",
           lock' = lock \/ Unlock(i),
           config' = config, manager' = manager, router' = router,
           \/ q = "cleanup" /\ lock' = lock /\ lock[move[i].c] = i
           \/ q = "over"
    PROVE  ClaimsInv'
<1>. DEFINE m == move[i]
            r == [move[i] EXCEPT !.pc = q]
<1>1. Becomes(i, r) /\ m.pc # "idle"
  BY ZenonT(30) DEF Goto, Becomes, Engaged, Closing, Marked, Asking, Deciding, Leaving
<1>2. /\ DOMAIN m = MoveFields /\ m.s \in Shard /\ m.t \in Shard /\ m.c \in Coll
      /\ MoveOK(i, m, config[m.c], lock[m.c], from[m.s].active, manager[m.s][m.c])
  BY ZenonT(30), <1>1 DEF ClaimsInv, MovesInv, Good
<1>3. /\ DOMAIN r = MoveFields /\ r.s = m.s /\ r.t = m.t /\ r.c = m.c /\ r.pc = q
      /\ r.maxVersion = m.maxVersion /\ r.startingVersion = m.startingVersion
  BY ZenonT(30), <1>2 DEF MoveFields
<1>. HIDE DEF r
<1>4. (ConfigInv /\ ManagerInv /\ RoutersInv /\ ClaimsAreTrue)'
  BY ZenonT(30), QuietState
<1>5. /\ DOMAIN from' = Shard /\ from'[m.s].active \in BOOLEAN /\ DOMAIN from'[m.s] = FromFields
      /\ \A u \in Shard : u # m.s => from'[u] = from[u]
  <2>1. FromInv
    BY ZenonT(30) DEF ClaimsInv, StateInv
  <2>2. CASE from' = from
    BY ZenonT(30), <1>2, <2>1, <2>2 DEF FromInv
  <2>3. CASE from' = [from EXCEPT ![m.s].active = FALSE, ![m.s].snapshot = FALSE,
                                  ![m.s].critical = FALSE, ![m.s].nextId = 0,
                                  ![m.s].clearFailed = FALSE]
    BY ZenonT(30), <1>2, <2>1, <2>3 DEF FromInv, FromFields
  <2>4. CASE DoneFails(m.s)
    BY ZenonT(30), <1>2, <2>1, <2>4, ClearFailsSame DEF DoneFails, SameFlags, FromInv
  <2>. QED
    BY ZenonT(30), <2>2, <2>3, <2>4 DEF Done
<1>6. /\ DOMAIN lock' = Coll
      /\ \A d \in Coll : lock'[d] = lock[d] \/ (lock[d] = i /\ lock'[d] = 0)
  <2>1. LockInv
    BY ZenonT(30) DEF ClaimsInv, StateInv
  <2>2. CASE lock' = lock
    BY ZenonT(30), <2>1, <2>2 DEF LockInv
  <2>3. CASE lock[m.c] = i /\ lock' = [lock EXCEPT ![m.c] = 0]
    BY ZenonT(30), <1>2, <2>1, <2>3 DEF LockInv
  <2>. QED
    BY ZenonT(30), <2>2, <2>3 DEF Unlock
<1>7. StateInv'
  <2>1. LockInv'
    BY ZenonT(30), <1>6 DEF ClaimsInv, StateInv, LockInv
  <2>2. FromInv'
    BY ZenonT(30), <1>5 DEF ClaimsInv, StateInv, FromInv
  <2>. QED
    BY ZenonT(30), <1>4, <2>1, <2>2 DEF StateInv
<1>8. After(i, r)
  <2>1. MoveOK(i, r, config[m.c], lock'[m.c], from'[m.s].active, manager[m.s][m.c])
    BY ZenonT(30), <1>2, <1>3
       DEF MoveOK, Before, Starting, Asking, Deciding, Leaving, Closing, Marked
  <2>. QED
    BY ZenonT(30), <1>2, <1>3, <2>1 DEF After
<1>9. ASSUME NEW j \in Move, j # i, move[j].pc # "idle" PROVE After(j, move[j])
  <2>. DEFINE o == move[j]
  <2>1. /\ o.s \in Shard /\ o.t \in Shard /\ o.c \in Coll
        /\ MoveOK(j, o, config[o.c], lock[o.c], from[o.s].active, manager[o.s][o.c])
    BY ZenonT(30), <1>9 DEF ClaimsInv, MovesInv, Good
  <2>2. (from[o.s].active => from'[o.s].active) \/ o.pc \notin Engaged
    <3>1. CASE o.s = m.s
      BY ZenonT(30), <1>9, <3>1 DEF ClaimsInv, ExclusiveInv
    <3>2. CASE o.s # m.s
      BY ZenonT(30), <1>5, <2>1, <3>2
    <3>. QED
      BY ZenonT(30), <3>1, <3>2
  <2>3. MoveOK(j, o, config[o.c], lock[o.c], from'[o.s].active, manager[o.s][o.c])
    BY ZenonT(30), <2>1, <2>2, FlagChanged
  <2>4. lock[o.c] = j => lock'[o.c] = j \/ o.pc \in {"over", "unlock"}
    BY ZenonT(30), <1>6, <1>9, <2>1
  <2>5. MoveOK(j, o, config[o.c], lock'[o.c], from'[o.s].active, manager[o.s][o.c])
    BY ZenonT(30), <2>3, <2>4, LockGone
  <2>. QED
    BY ZenonT(30), <2>1, <2>5 DEF After
<1>10. Apart(i, r)
  BY ZenonT(30), <1>3 DEF Apart, ClaimsInv, ExclusiveInv, Engaged, Closing, Marked, Asking, Deciding, Leaving
<1>11. OthersFit(i)
  BY ZenonT(30), <1>9 DEF OthersFit
<1>12. ClaimsAreTrue' /\ RoutersInv' /\ DOMAIN r = MoveFields
  BY ZenonT(30), <1>3, <1>4
<1>. QED
  BY ZenonT(30), <1>1, <1>7, <1>8, <1>10, <1>11, <1>12, OneMove

\* The end of a move that committed, and the destructors.
LEMMA DoneOrReturnStep ==
    ASSUME ClaimsInv, NEW i \in Move, MoveDone(i) \/ MoveReturn(i) \/ MoveReturnFails(i)
    PROVE  ClaimsInv'
<1>1. config' = config /\ manager' = manager /\ router' = router
  BY ZenonT(30) DEF MoveDone, MoveReturn, MoveReturnFails
<1>2. CASE MoveDone(i)
  <2>1. Goto(i, "cleanup") /\ Done(move[i].s) /\ lock' = lock /\ move[i].pc = "done"
    BY ZenonT(30), <1>2 DEF MoveDone, At
  <2>2. move[i].pc \in Engaged /\ lock[move[i].c] = i
    BY ZenonT(30), <2>1 DEF ClaimsInv, MovesInv, Good, MoveOK, Engaged, Marked, Leaving
  <2>. QED
    BY ZenonT(30), <1>1, <2>1, <2>2, EndStep
<1>3. CASE MoveReturn(i)
  <2>1. /\ Goto(i, "over") /\ Unlock(i)
        /\ \/ move[i].pc \in Closing /\ Done(move[i].s)
           \/ move[i].pc = "unlock" /\ from' = from
    BY ZenonT(30), <1>3 DEF MoveReturn, At, Closing
  <2>2. \/ move[i].pc \in Engaged /\ Done(move[i].s)
        \/ move[i].pc = "unlock" /\ from' = from
    BY ZenonT(30), <2>1 DEF Engaged
  <2>. QED
    BY ZenonT(30), <1>1, <2>1, <2>2, EndStep
<1>4. CASE MoveReturnFails(i)
  <2>1. Goto(i, "over") /\ Unlock(i) /\ DoneFails(move[i].s) /\ move[i].pc \in Engaged
    BY ZenonT(30), <1>4 DEF MoveReturnFails, At, Engaged, Closing
  <2>. QED
    BY ZenonT(30), <1>1, <2>1, EndStep
<1>. QED
  BY ZenonT(30), <1>2, <1>3, <1>4

-----------------------------------------------------------------------------
(* The recipients and the routers.                                         *)

\* Moves fit as before when what they look at is the same.
LEMMA MovesStay ==
    ASSUME ClaimsInv, config' = config, lock' = lock, manager' = manager, move' = move,
           SameFlags, RoutersInv'
    PROVE  ClaimsInv'
<1>1. StateInv' /\ ClaimsAreTrue'
  BY ZenonT(30) DEF ClaimsInv, StateInv, ConfigInv, LockInv, ManagerInv, ClaimsAreTrue, SameFlags
<1>2. ASSUME NEW j \in Move, move[j].pc # "idle" PROVE After(j, move[j])
  <2>1. Good(j, move[j])
    BY ZenonT(30), <1>2 DEF ClaimsInv, MovesInv
  <2>. QED
    BY ZenonT(30), <2>1 DEF Good, After, SameFlags
<1>. QED
  BY ZenonT(30), <1>1, <1>2, NoMove

\* The thread of a recipient and the commands for it.
Resting == UNCHANGED <<config, lock, manager, move, router>>

LEMMA RecipientStep ==
    ASSUME ClaimsInv,
           \/ \E i \in Move : RecvCommit(i) \/ RecvCommitSees(i) \/ RecvCommitTimesOut(i)
           \/ \E t \in Shard : RecvStep(t) \/ RecvFail(t) \/ RecvAbort(t)
    PROVE  ClaimsInv'
<1>1. Resting /\ (from' = from \/ \E d : from' = [from EXCEPT ![d].snapshot = TRUE])
  <2>1. ASSUME NEW i \in Move, RecvCommit(i) \/ RecvCommitSees(i) \/ RecvCommitTimesOut(i)
        PROVE  Resting /\ from' = from
    BY ZenonT(30), <2>1 DEF RecvCommit, RecvCommitSees, RecvCommitTimesOut, shardVars, Resting
  <2>2. ASSUME NEW t \in Shard, RecvFail(t) \/ RecvAbort(t)
        PROVE  Resting /\ from' = from
    BY ZenonT(30), <2>2 DEF RecvFail, RecvAbort, Resting
  <2>3. ASSUME NEW t \in Shard, RecvDelete(t) \/ RecvCatchup(t) \/ RecvCaughtUp(t) \/ RecvTop(t)
        PROVE  Resting /\ from' = from
    BY ZenonT(30), <2>3 DEF RecvDelete, RecvCatchup, RecvCaughtUp, RecvTop, Transfer, Resting
  <2>4. ASSUME NEW t \in Shard, RecvTransfer(t) \/ RecvCheck(t) \/ RecvFinish(t)
        PROVE  Resting /\ from' = from
    BY ZenonT(30), <2>4 DEF RecvTransfer, RecvCheck, RecvFinish, Transfer, Resting
  <2>5. ASSUME NEW t \in Shard, RecvClone(t)
        PROVE  Resting /\ (from' = from \/ from' = [from EXCEPT ![to[t].donor].snapshot = TRUE])
    BY ZenonT(30), <2>5 DEF RecvClone, Resting
  <2>. QED
    BY ZenonT(30), <2>1, <2>2, <2>3, <2>4, <2>5 DEF RecvStep
<1>2. SameFlags
  <2>1. FromInv
    BY ZenonT(30) DEF ClaimsInv, StateInv
  <2>2. CASE from' = from
    BY ZenonT(30), <2>1, <2>2 DEF FromInv, SameFlags
  <2>3. ASSUME NEW d, from' = [from EXCEPT ![d].snapshot = TRUE] PROVE SameFlags
    BY ZenonT(30), <2>1, <2>3 DEF FromInv, FromFields, SameFlags
  <2>. QED
    BY ZenonT(30), <1>1, <2>2, <2>3
<1>3. RoutersInv'
  BY ZenonT(30), <1>1 DEF ClaimsInv, RoutersInv, Resting
<1>. QED
  BY ZenonT(30), <1>1, <1>2, <1>3, MovesStay DEF Resting

\* A router becomes q.
Rerouted(w, q) == router' = [router EXCEPT ![w] = q]

LEMMA RouterStep ==
    ASSUME ClaimsInv, NEW w \in Mongos, NEW q, RouterOK(q), Rerouted(w, q),
           config' = config, lock' = lock, manager' = manager, move' = move, SameFlags,
           q.op.stage = "loaded"
              => Pending(q.op.s, q.op.p, config[q.op.c], manager[q.op.s][q.op.c])
    PROVE  ClaimsInv'
<1>1. /\ DOMAIN router' = Mongos /\ router'[w] = q
      /\ \A x \in Mongos : x # w => router'[x] = router[x]
  BY ZenonT(30) DEF ClaimsInv, RoutersInv, Rerouted
<1>2. \A x \in Mongos : RouterOK(router'[x])
  BY ZenonT(30), <1>1 DEF ClaimsInv, RoutersInv
<1>3. ASSUME NEW x \in Mongos, router'[x].op.stage = "loaded"
      PROVE  LET o == router'[x].op IN Pending(o.s, o.p, config'[o.c], manager'[o.s][o.c])
  <2>1. CASE x = w
    BY ZenonT(30), <1>1, <1>3, <2>1
  <2>2. CASE x # w
    BY ZenonT(30), <1>1, <1>3, <2>2 DEF ClaimsInv, RoutersInv
  <2>. QED
    BY ZenonT(30), <2>1, <2>2
<1>4. RoutersInv'
  BY ZenonT(30), <1>1, <1>2, <1>3 DEF RoutersInv
<1>. QED
  BY ZenonT(30), <1>4, MovesStay

LEMMA SameFrom ==
    ASSUME ClaimsInv, from' = from
    PROVE  SameFlags
  BY ZenonT(30) DEF ClaimsInv, StateInv, FromInv, SameFlags

\* An operation that a router has under way or not, without a manager.
LEMMA OperationStep ==
    ASSUME ClaimsInv, NEW w \in Mongos, NEW q, Rerouted(w, q),
           DOMAIN q = {"cache", "op", "version"}, q.cache = router[w].cache,
           DOMAIN q.op = OpFields, q.op.stage \notin Answering,
           config' = config, lock' = lock, manager' = manager, move' = move, SameFlags
    PROVE  ClaimsInv'
<1>1. RouterOK(router[w])
  BY ZenonT(30) DEF ClaimsInv, RoutersInv
<1>2. RouterOK(q) /\ q.op.stage # "loaded"
  BY ZenonT(30), <1>1 DEF RouterOK, Answering
<1>. QED
  BY ZenonT(30), <1>2, RouterStep

\* The steps of a router that is idle, and of a write.
LEMMA ReloadStep ==
    ASSUME ClaimsInv, NEW w \in Mongos, NEW c \in Coll, Reload(w, c)
    PROVE  ClaimsInv'
<1>. DEFINE q == [router[w] EXCEPT !.cache[c] = config[c]]
<1>1. /\ Rerouted(w, q) /\ router[w].op.stage = "none"
      /\ config' = config /\ lock' = lock /\ manager' = manager /\ from' = from /\ move' = move
  BY ZenonT(30) DEF Reload, Rerouted, Idle, shardVars
<1>2. RouterOK(router[w]) /\ config[c].owner \in Shard
  BY ZenonT(30) DEF ClaimsInv, RoutersInv, StateInv, ConfigInv, ChunksOK
<1>3. /\ DOMAIN q = {"cache", "op", "version"} /\ q.op = router[w].op
      /\ DOMAIN q.cache = Coll /\ q.cache[c] = config[c]
      /\ \A d \in Coll : d # c => q.cache[d] = router[w].cache[d]
  BY ZenonT(30), <1>2 DEF RouterOK
<1>. HIDE DEF q
<1>4. RouterOK(q) /\ q.op.stage # "loaded"
  BY ZenonT(30), <1>1, <1>2, <1>3 DEF RouterOK, Answering
<1>5. SameFlags
  BY ZenonT(30), <1>1, SameFrom
<1>. QED
  BY ZenonT(30), <1>1, <1>4, <1>5, RouterStep

LEMMA SetShardVersionStep ==
    ASSUME ClaimsInv, NEW w \in Mongos, NEW c \in Coll, SetShardVersion(w, c)
    PROVE  ClaimsInv'
<1>. DEFINE q == [router[w] EXCEPT !.version[Target(w, c)][c] = Wanted(w, c)]
<1>1. /\ Rerouted(w, q) /\ router[w].op.stage = "none"
      /\ config' = config /\ lock' = lock /\ manager' = manager /\ from' = from /\ move' = move
  BY ZenonT(30) DEF SetShardVersion, Rerouted, Idle, shardVars
<1>2. RouterOK(router[w])
  BY ZenonT(30) DEF ClaimsInv, RoutersInv
<1>3. /\ DOMAIN q = {"cache", "op", "version"} /\ q.op = router[w].op
      /\ q.cache = router[w].cache
  BY ZenonT(30), <1>2 DEF RouterOK
<1>. HIDE DEF q
<1>4. DOMAIN q.op = OpFields /\ q.op.stage \notin Answering
  BY ZenonT(30), <1>1, <1>2, <1>3 DEF RouterOK, Answering
<1>5. SameFlags
  BY ZenonT(30), <1>1, SameFrom
<1>. QED
  BY ZenonT(30), <1>1, <1>3, <1>4, <1>5, OperationStep

LEMMA SlowShardVersionStep ==
    ASSUME ClaimsInv, NEW w \in Mongos, NEW c \in Coll, SlowShardVersion(w, c)
    PROVE  ClaimsInv'
<1>. DEFINE s == Target(w, c)
            asked == [NoOp EXCEPT !.stage = "asked", !.s = s, !.c = c]
            old == router[w].version[s][c]
            v == IF manager[s][c].version = 0 THEN 0 ELSE old
            op == IF \/ Wanted(w, c) < Known(w, c)
                     \/ Wanted(w, c) < manager[s][c].version THEN NoOp ELSE asked
            q == [router[w] EXCEPT !.version[s][c] = v, !.op = op]
<1>1. /\ Rerouted(w, q)
      /\ config' = config /\ lock' = lock /\ manager' = manager /\ from' = from /\ move' = move
  BY ZenonT(30) DEF SlowShardVersion, Rerouted, shardVars
<1>2. RouterOK(router[w])
  BY ZenonT(30) DEF ClaimsInv, RoutersInv
<1>3. s \in Shard
  BY ZenonT(30), <1>2 DEF RouterOK, Target
<1>9. op = NoOp \/ op = asked
  BY ZenonT(30)
<1>. HIDE DEF s, v, op
<1>4. /\ DOMAIN NoOp = OpFields /\ NoOp.stage = "none"
      /\ DOMAIN asked = OpFields /\ asked.stage = "asked" /\ asked.s = s /\ asked.c = c
  BY ZenonT(30) DEF NoOp, OpFields
<1>. HIDE DEF asked
<1>5. DOMAIN q = {"cache", "op", "version"} /\ q.op = op /\ q.cache = router[w].cache
  BY ZenonT(30), <1>2 DEF RouterOK
<1>. HIDE DEF q
<1>6. RouterOK(q) /\ q.op.stage # "loaded"
  BY ZenonT(30), <1>2, <1>3, <1>4, <1>5, <1>9 DEF RouterOK, Answering
<1>8. SameFlags
  BY ZenonT(30), <1>1, SameFrom
<1>. QED
  BY ZenonT(30), <1>1, <1>6, <1>8, RouterStep

LEMMA LoadVersionStep ==
    ASSUME ClaimsInv, NEW w \in Mongos, LoadVersion(w)
    PROVE  ClaimsInv'
<1>. DEFINE op == router[w].op
            there == manager[op.s][op.c].version = Wanted(w, op.c)
            q == [router[w] EXCEPT !.op = NoOp, !.version[op.s][op.c] = Wanted(w, op.c)]
            l == [router[w] EXCEPT !.op.stage = "loaded", !.op.p = Load(op.s, op.c)]
<1>1. /\ op.stage = "asked"
      /\ config' = config /\ lock' = lock /\ manager' = manager /\ from' = from /\ move' = move
  BY ZenonT(30) DEF LoadVersion, shardVars
<1>2. RouterOK(router[w]) /\ op.s \in Shard /\ op.c \in Coll
  BY ZenonT(30), <1>1 DEF ClaimsInv, RoutersInv, RouterOK, Answering
<1>3. SameFlags
  BY ZenonT(30), <1>1, SameFrom
<1>4. CASE there
  <2>1. Rerouted(w, q)
    BY ZenonT(30), <1>4 DEF LoadVersion, Rerouted
  <2>2. DOMAIN q = {"cache", "op", "version"} /\ q.op = NoOp /\ q.cache = router[w].cache
    BY ZenonT(30), <1>2 DEF RouterOK
  <2>. HIDE DEF q
  <2>3. DOMAIN NoOp = OpFields /\ NoOp.stage \notin Answering
    BY ZenonT(30) DEF NoOp, OpFields, Answering
  <2>4. DOMAIN q.op = OpFields /\ q.op.stage \notin Answering
    BY ZenonT(30), <2>2, <2>3
  <2>. QED
    BY ZenonT(30), <1>1, <1>3, <2>1, <2>2, <2>4, OperationStep
<1>5. CASE ~ there
  <2>1. Rerouted(w, l)
    BY ZenonT(30), <1>5 DEF LoadVersion, Rerouted
  <2>2. /\ DOMAIN l = {"cache", "op", "version"} /\ l.cache = router[w].cache
        /\ DOMAIN l.op = OpFields /\ l.op.s = op.s /\ l.op.c = op.c /\ l.op.p = Load(op.s, op.c)
    BY ZenonT(30), <1>2 DEF RouterOK, OpFields
  <2>. HIDE DEF l
  <2>3. RouterOK(l)
    BY ZenonT(30), <1>2, <2>2 DEF RouterOK
  <2>4. Pending(op.s, Load(op.s, op.c), config[op.c], manager[op.s][op.c])
    BY ZenonT(30), <1>2, LoadOK DEF ClaimsInv, StateInv
  <2>. QED
    BY ZenonT(30), <1>1, <1>3, <2>1, <2>2, <2>3, <2>4, RouterStep
<1>. QED
  BY ZenonT(30), <1>4, <1>5

LEMMA BeginWriteStep ==
    ASSUME ClaimsInv, NEW w \in Mongos, NEW c \in Coll, NEW k \in Key, BeginWrite(w, c, k)
    PROVE  ClaimsInv'
<1>. DEFINE s == Target(w, c)
            op == [NoOp EXCEPT
                      !.stage = "writing", !.s = s, !.c = c, !.key = k, !.val = writes',
                      !.logged = from[s].active /\ from[s].ns = c /\ from[s].snapshot]
            q == [router[w] EXCEPT !.op = op]
<1>1. /\ Rerouted(w, q)
      /\ config' = config /\ lock' = lock /\ manager' = manager /\ from' = from /\ move' = move
  BY ZenonT(30) DEF BeginWrite, Rerouted, shardVars
<1>2. RouterOK(router[w])
  BY ZenonT(30) DEF ClaimsInv, RoutersInv
<1>4. DOMAIN op = OpFields /\ op.stage = "writing"
  BY ZenonT(30) DEF NoOp, OpFields
<1>. HIDE DEF op
<1>5. /\ DOMAIN q = {"cache", "op", "version"} /\ q.op = op /\ q.cache = router[w].cache
  BY ZenonT(30), <1>2 DEF RouterOK
<1>. HIDE DEF q
<1>6. q.op.stage \notin Answering /\ DOMAIN q.op = OpFields
  BY ZenonT(30), <1>4, <1>5 DEF Answering
<1>8. SameFlags
  BY ZenonT(30), <1>1, SameFrom
<1>. QED
  BY ZenonT(30), <1>1, <1>5, <1>6, <1>8, OperationStep

LEMMA TakeLogIdStep ==
    ASSUME ClaimsInv, NEW w \in Mongos, TakeLogId(w)
    PROVE  ClaimsInv'
<1>. DEFINE q == [router[w] EXCEPT !.op.stage = "numbered",
                                   !.op.id = from[router[w].op.s].nextId]
            d == router[w].op.s
<1>1. /\ Rerouted(w, q) /\ from' = [from EXCEPT ![d].nextId = @ + 1]
      /\ config' = config /\ lock' = lock /\ manager' = manager /\ move' = move
  BY ZenonT(30) DEF TakeLogId, Rerouted
<1>2. RouterOK(router[w])
  BY ZenonT(30) DEF ClaimsInv, RoutersInv
<1>3. /\ DOMAIN q = {"cache", "op", "version"} /\ q.cache = router[w].cache
      /\ DOMAIN q.op = OpFields /\ q.op.stage \notin Answering
  BY ZenonT(30), <1>2 DEF RouterOK, OpFields, Answering
<1>. HIDE DEF q, d
<1>4. SameFlags
  BY ZenonT(30), <1>1 DEF ClaimsInv, StateInv, FromInv, FromFields, SameFlags
<1>. QED
  BY ZenonT(30), <1>1, <1>3, <1>4, OperationStep

LEMMA CommitWriteStep ==
    ASSUME ClaimsInv, NEW w \in Mongos, CommitWrite(w)
    PROVE  ClaimsInv'
<1>. DEFINE q == [router[w] EXCEPT !.op = NoOp]
<1>1. /\ Rerouted(w, q)
      /\ config' = config /\ lock' = lock /\ manager' = manager /\ from' = from /\ move' = move
  BY ZenonT(30) DEF CommitWrite, Rerouted
<1>2. RouterOK(router[w])
  BY ZenonT(30) DEF ClaimsInv, RoutersInv
<1>3. DOMAIN q = {"cache", "op", "version"} /\ q.cache = router[w].cache /\ q.op = NoOp
  BY ZenonT(30), <1>2 DEF RouterOK
<1>4. DOMAIN NoOp = OpFields /\ NoOp.stage \notin Answering
  BY ZenonT(30) DEF NoOp, OpFields, Answering
<1>. HIDE DEF q
<1>5. DOMAIN q.op = OpFields /\ q.op.stage \notin Answering
  BY ZenonT(30), <1>3, <1>4
<1>6. SameFlags
  BY ZenonT(30), <1>1, SameFrom
<1>. QED
  BY ZenonT(30), <1>1, <1>3, <1>5, <1>6, OperationStep
-----------------------------------------------------------------------------
(* A shard dies: what the others have goes on, with the chunks of config'. *)

ClaimsElsewhere(s) == \A u \in Shard, d \in Coll :
    u # s /\ manager[u][d].has => config'[d].owner = u

PendingsElsewhere(s) == \A u \in Shard, d \in Coll : \A p :
    u # s /\ Pending(u, p, config[d], manager[u][d]) => Pending(u, p, config'[d], manager[u][d])

MovesElsewhere(s) == \A j \in Move :
    move[j].pc # "idle" /\ move[j].s # s => LET m == move[j] IN
        MoveOK(j, m, config'[m.c], lock[m.c], from[m.s].active, manager[m.s][m.c])

NoneAhead == \A j \in Move :
    move[j].pc # "idle" => move[j].maxVersion <= CollVersion(config'[move[j].c])

\* What the shard had in memory is gone.
LEMMA DieState ==
    ASSUME ClaimsInv, NEW s \in Shard, Die(s), ConfigInv', ClaimsElsewhere(s)
    PROVE  /\ StateInv' /\ ClaimsAreTrue'
           /\ lock' = lock
           /\ \A u \in Shard : u # s => from'[u] = from[u] /\ manager'[u] = manager[u]
<1>1. /\ DOMAIN from' = Shard /\ from'[s] = NotMigrating
      /\ \A u \in Shard : u # s => from'[u] = from[u]
  BY ZenonT(30) DEF Die, ClaimsInv, StateInv, FromInv
<1>2. /\ DOMAIN manager' = Shard /\ manager'[s] = [c \in Coll |-> NoManager]
      /\ \A u \in Shard : u # s => manager'[u] = manager[u]
  BY ZenonT(30) DEF Die, ClaimsInv, StateInv, ManagerInv
<1>3. DOMAIN NotMigrating = FromFields /\ NotMigrating.active = FALSE
  BY ZenonT(30) DEF NotMigrating, FromFields
<1>4. FromInv'
  BY ZenonT(30), <1>1, <1>3 DEF ClaimsInv, StateInv, FromInv
<1>5. ManagerOK(NoManager) /\ ~ NoManager.has
  BY DEF ManagerOK, NoManager
<1>6. \A c \in Coll : manager'[s][c] = NoManager
  BY ZenonT(30), <1>2
<1>7. ManagerInv'
  BY ZenonT(30), <1>2, <1>5, <1>6 DEF ClaimsInv, StateInv, ManagerInv
<1>8. lock' = lock
  BY ZenonT(30) DEF Die
<1>9. LockInv'
  BY ZenonT(30), <1>8 DEF ClaimsInv, StateInv, LockInv
<1>10. ClaimsAreTrue'
  BY <1>2, <1>5, <1>6 DEF ClaimsAreTrue, ClaimsElsewhere
<1>. QED
  BY ZenonT(30), <1>1, <1>2, <1>4, <1>7, <1>8, <1>9, <1>10 DEF StateInv

\* Its moves are over; the others go on.
LEMMA DieMoves ==
    ASSUME ClaimsInv, NEW s \in Shard, Die(s), ConfigInv', ClaimsElsewhere(s),
           MovesElsewhere(s), NoneAhead
    PROVE  (MovesInv /\ ExclusiveInv)'
<1>1. /\ lock' = lock
      /\ \A u \in Shard : u # s => from'[u] = from[u] /\ manager'[u] = manager[u]
  BY ZenonT(30), DieState
<1>2. /\ DOMAIN move' = Move
      /\ \A j \in Move : \/ /\ move[j].s = s /\ move[j].pc # "idle"
                            /\ move'[j] = [move[j] EXCEPT !.pc = "over"]
                         \/ /\ move[j].s # s \/ move[j].pc = "idle"
                            /\ move'[j] = move[j]
  BY ZenonT(30) DEF Die, At
<1>3. ASSUME NEW j \in Move
      PROVE  /\ DOMAIN move'[j] = MoveFields
             /\ move'[j].s = move[j].s /\ move'[j].pc \in {move[j].pc, "over"}
             /\ move'[j].pc # "idle" => Good(j, move[j])'
  <2>. DEFINE m == move[j]
              r == [move[j] EXCEPT !.pc = "over"]
  <2>1. DOMAIN m = MoveFields /\ (m.pc # "idle" => Good(j, m))
    BY ZenonT(30) DEF ClaimsInv, MovesInv
  <2>2. CASE m.s = s /\ m.pc # "idle" /\ move'[j] = r
    <3>1. /\ m.s \in Shard /\ m.t \in Shard /\ m.c \in Coll
          /\ m.maxVersion \in Nat /\ m.startingVersion \in Nat
      BY ZenonT(30), <2>1, <2>2 DEF Good, MoveOK
    <3>2. /\ DOMAIN r = MoveFields /\ r.pc = "over" /\ r.s = m.s /\ r.t = m.t /\ r.c = m.c
          /\ r.maxVersion = m.maxVersion /\ r.startingVersion = m.startingVersion
      BY ZenonT(30), <2>1 DEF MoveFields
    <3>3. m.maxVersion <= CollVersion(config'[m.c])
      BY ZenonT(30), <2>2 DEF NoneAhead
    <3>. HIDE DEF r
    <3>4. MoveOK(j, r, config'[r.c], lock'[r.c], from'[r.s].active, manager'[r.s][r.c])
      BY ZenonT(30), <3>1, <3>2, <3>3 DEF MoveOK, Before, Starting, Asking, Deciding, Leaving, Closing, Marked
    <3>5. Good(j, move[j])'
      BY ZenonT(30), <2>2, <3>1, <3>2, <3>4 DEF Good
    <3>. QED
      BY ZenonT(30), <2>2, <3>2, <3>5
  <2>3. CASE m.s # s /\ m.pc # "idle" /\ move'[j] = m
    <3>1. m.s \in Shard /\ m.t \in Shard /\ m.c \in Coll
      BY ZenonT(30), <2>1, <2>3 DEF Good
    <3>2. MoveOK(j, m, config'[m.c], lock[m.c], from[m.s].active, manager[m.s][m.c])
      BY ZenonT(30), <2>3 DEF MovesElsewhere
    <3>3. from'[m.s] = from[m.s] /\ manager'[m.s] = manager[m.s]
      BY ZenonT(30), <1>1, <2>3, <3>1
    <3>4. Good(j, move[j])'
      BY ZenonT(30), <1>1, <2>3, <3>1, <3>2, <3>3 DEF Good
    <3>. QED
      BY ZenonT(30), <2>1, <2>3, <3>4
  <2>4. CASE m.pc = "idle" /\ move'[j] = m
    BY ZenonT(30), <2>1, <2>4
  <2>. QED
    BY ZenonT(30), <1>2, <2>2, <2>3, <2>4
<1>4. MovesInv'
  BY ZenonT(30), <1>2, <1>3 DEF MovesInv
<1>5. "over" \notin Engaged
  BY ZenonT(30) DEF Engaged, Closing, Marked, Asking, Deciding, Leaving
<1>6. ExclusiveInv'
  BY ZenonT(30), <1>3, <1>5 DEF ClaimsInv, ExclusiveInv
<1>. QED
  BY ZenonT(30), <1>4, <1>6

\* So are the operations it had under way.
LEMMA DieRouters ==
    ASSUME ClaimsInv, NEW s \in Shard, Die(s), ConfigInv', ClaimsElsewhere(s),
           PendingsElsewhere(s)
    PROVE  RoutersInv'
<1>1. \A u \in Shard : u # s => manager'[u] = manager[u]
  BY ZenonT(30), DieState
<1>2. DOMAIN NoOp = OpFields /\ NoOp.stage = "none"
  BY ZenonT(30) DEF NoOp, OpFields
<1>3. DOMAIN router' = Mongos
  BY ZenonT(30) DEF Die
<1>4. ASSUME NEW w \in Mongos
      PROVE  /\ RouterOK(router'[w])
             /\ router'[w].op.stage = "loaded"
                   => LET o == router'[w].op IN Pending(o.s, o.p, config'[o.c], manager'[o.s][o.c])
  <2>. DEFINE op == router[w].op
              q == [router[w] EXCEPT !.version[s] = [c \in Coll |-> 0],
                                     !.op = IF @.s = s THEN NoOp ELSE @]
  <2>1. router'[w] = q
    BY ZenonT(30) DEF Die
  <2>2. RouterOK(router[w])
    BY ZenonT(30) DEF ClaimsInv, RoutersInv
  <2>3. /\ DOMAIN q = {"cache", "op", "version"} /\ q.cache = router[w].cache
        /\ q.op = IF op.s = s THEN NoOp ELSE op
    BY ZenonT(30), <2>2 DEF RouterOK
  <2>. HIDE DEF q
  <2>4. q.op = NoOp \/ (q.op = op /\ op.s # s)
    BY ZenonT(30), <2>3
  <2>5. RouterOK(q)
    BY ZenonT(30), <1>2, <2>2, <2>3, <2>4 DEF RouterOK, Answering
  <2>6. ASSUME q.op.stage = "loaded"
        PROVE  Pending(q.op.s, q.op.p, config'[q.op.c], manager'[q.op.s][q.op.c])
    <3>1. q.op = op /\ op.s # s /\ op.stage = "loaded"
      BY ZenonT(30), <1>2, <2>4, <2>6
    <3>2. /\ op.s \in Shard /\ op.c \in Coll
          /\ Pending(op.s, op.p, config[op.c], manager[op.s][op.c])
      BY ZenonT(30), <3>1 DEF ClaimsInv, RoutersInv, RouterOK, Answering
    <3>3. Pending(op.s, op.p, config'[op.c], manager[op.s][op.c])
      BY ZenonT(30), <3>1, <3>2 DEF PendingsElsewhere
    <3>. QED
      BY ZenonT(30), <1>1, <3>1, <3>2, <3>3
  <2>. QED
    BY ZenonT(30), <2>1, <2>5, <2>6
<1>. QED
  BY ZenonT(30), <1>3, <1>4 DEF RoutersInv

LEMMA DieStep ==
    ASSUME ClaimsInv, NEW s \in Shard, Die(s), ConfigInv', ClaimsElsewhere(s),
           PendingsElsewhere(s), MovesElsewhere(s), NoneAhead
    PROVE  ClaimsInv'
  BY ZenonT(30), DieState, DieMoves, DieRouters DEF ClaimsInv

\* The chunks stay.
LEMMA DieAlone ==
    ASSUME ClaimsInv, NEW s \in Shard, Die(s), config' = config
    PROVE  ClaimsInv'
<1>1. ConfigInv'
  BY ZenonT(30) DEF ClaimsInv, StateInv, ConfigInv
<1>2. ClaimsElsewhere(s)
  BY ZenonT(30) DEF ClaimsInv, ClaimsAreTrue, ClaimsElsewhere
<1>3. PendingsElsewhere(s)
  BY ZenonT(30) DEF PendingsElsewhere
<1>4. MovesElsewhere(s)
  BY ZenonT(30) DEF ClaimsInv, MovesInv, Good, MovesElsewhere
<1>5. NoneAhead
  BY ZenonT(30) DEF ClaimsInv, MovesInv, Good, MoveOK, NoneAhead
<1>. QED
  BY ZenonT(30), <1>1, <1>2, <1>3, <1>4, <1>5, DieStep

\* terminate in the middle of the commit, whether it was done or not.
LEMMA TerminateStep ==
    ASSUME OneCollection, ClaimsInv, NEW i \in Move, MoveTerminate(i)
    PROVE  ClaimsInv'
<1>. DEFINE m == move[i]
            s == move[i].s
<1>1. m.pc = "config" /\ Die(s) /\ (config' = config \/ (Unchanged(i) /\ config' = Committed(i)))
  BY ZenonT(30) DEF MoveTerminate, At
<1>2. s \in Shard /\ m.c \in Coll
  BY ZenonT(30), <1>1 DEF ClaimsInv, MovesInv, Good
<1>3. CASE config' = config
  BY ZenonT(30), <1>1, <1>2, <1>3, DieAlone
<1>4. CASE Unchanged(i) /\ config' = Committed(i)
  <2>1. /\ ConfigInv'
        /\ \A u \in Shard, d \in Coll : ~ manager[u][d].has
        /\ \A u \in Shard, d \in Coll : \A p : Pending(u, p, config[d], manager[u][d])
              => Pending(u, p, config'[d], manager[u][d])
        /\ \A j \in Move : j # i /\ move[j].pc # "idle" => LET o == move[j] IN
              MoveOK(j, o, config'[o.c], lock[o.c], from[o.s].active, manager[o.s][o.c])
        /\ \A d \in Coll : m.maxVersion <= CollVersion(config'[d])
    BY ZenonT(30), <1>1, <1>4, Committing
  <2>2. ClaimsElsewhere(s)
    BY ZenonT(30), <2>1 DEF ClaimsElsewhere
  <2>3. PendingsElsewhere(s)
    BY ZenonT(30), <2>1 DEF PendingsElsewhere
  <2>4. MovesElsewhere(s)
    BY ZenonT(30), <2>1 DEF MovesElsewhere
  <2>5. NoneAhead
    <3>1. ASSUME NEW j \in Move, move[j].pc # "idle"
          PROVE  move[j].maxVersion <= CollVersion(config'[move[j].c])
      <4>1. CASE j = i
        BY ZenonT(30), <1>2, <2>1, <4>1
      <4>2. CASE j # i
        BY ZenonT(30), <2>1, <3>1, <4>2 DEF MoveOK
      <4>. QED
        BY ZenonT(30), <4>1, <4>2
    <3>. QED
      BY ZenonT(30), <3>1 DEF NoneAhead
  <2>6. ConfigInv'
    BY ZenonT(30), <2>1
  <2>. QED
    BY ZenonT(30), <1>1, <1>2, <2>2, <2>3, <2>4, <2>5, <2>6, DieStep
<1>. QED
  BY ZenonT(30), <1>1, <1>3, <1>4

-----------------------------------------------------------------------------
(* The theorem.                                                            *)

LEMMA InitClaims ==
    ASSUME OneCollection, Init
    PROVE  ClaimsInv
<1>. DEFINE first == [c \in Coll |->
                         [owner |-> FirstOwner[c], moving |-> 2, pin |-> FirstPin]]
<1>1. \A c \in Coll : ChunksOK(first[c])
  BY ZenonT(30), MigrationAssumption DEF OneCollection, ChunksOK
<1>2. ConfigInv
  <2>1. config = first
    BY ZenonT(30) DEF Init
  <2>. HIDE DEF first
  <2>2. DOMAIN first = Coll
    BY ZenonT(30) DEF first
  <2>. QED
    BY ZenonT(30), <1>1, <2>1, <2>2 DEF ConfigInv
<1>3. LockInv
  BY ZenonT(30) DEF Init, LockInv
<1>4. ManagerOK(NoManager) /\ ~ NoManager.has
  BY DEF ManagerOK, NoManager
<1>5. manager = [s \in Shard |-> [c \in Coll |-> NoManager]]
  BY ZenonT(30) DEF Init
<1>6. ManagerInv /\ ClaimsAreTrue
  BY ZenonT(30), <1>4, <1>5 DEF ManagerInv, ClaimsAreTrue
<1>7. FromInv
  <2>1. DOMAIN NotMigrating = FromFields /\ NotMigrating.active = FALSE
    BY ZenonT(30) DEF NotMigrating, FromFields
  <2>2. from = [s \in Shard |-> NotMigrating]
    BY ZenonT(30) DEF Init
  <2>. QED
    BY ZenonT(30), <2>1, <2>2 DEF FromInv
<1>8. MovesInv /\ ExclusiveInv
  <2>1. DOMAIN NotMoved = MoveFields /\ NotMoved.pc = "idle"
    BY ZenonT(30) DEF NotMoved, MoveFields
  <2>2. move = [i \in Move |-> NotMoved]
    BY ZenonT(30) DEF Init
  <2>3. "idle" \notin Engaged
    BY ZenonT(30) DEF Engaged, Closing, Marked, Asking, Deciding, Leaving
  <2>. QED
    BY ZenonT(30), <2>1, <2>2, <2>3 DEF MovesInv, ExclusiveInv
<1>9. RoutersInv
  <2>. DEFINE q == [cache |-> first, op |-> NoOp,
                    version |-> [s \in Shard |-> [c \in Coll |-> 0]]]
  <2>1. router = [w \in Mongos |-> q]
    BY ZenonT(30) DEF Init
  <2>2. DOMAIN NoOp = OpFields /\ NoOp.stage = "none"
    BY ZenonT(30) DEF NoOp, OpFields
  <2>3. DOMAIN first = Coll /\ \A c \in Coll : first[c].owner \in Shard
    BY ZenonT(30), MigrationAssumption
  <2>. HIDE DEF first
  <2>4. DOMAIN q = {"cache", "op", "version"} /\ q.cache = first /\ q.op = NoOp
    BY ZenonT(30)
  <2>. HIDE DEF q
  <2>5. RouterOK(q) /\ q.op.stage # "loaded"
    BY ZenonT(30), <2>2, <2>3, <2>4 DEF RouterOK, Answering
  <2>. QED
    BY ZenonT(30), <2>1, <2>5 DEF RoutersInv
<1>. QED
  BY ZenonT(30), <1>2, <1>3, <1>6, <1>7, <1>8, <1>9 DEF ClaimsInv, StateInv

LEMMA StutterClaims ==
    ASSUME ClaimsInv, UNCHANGED vars
    PROVE  ClaimsInv'
<1>1. /\ config' = config /\ lock' = lock /\ manager' = manager /\ from' = from
      /\ move' = move /\ router' = router
  BY ZenonT(30) DEF vars, shardVars
<1>2. SameFlags
  BY ZenonT(30), <1>1, SameFrom
<1>3. RoutersInv'
  BY ZenonT(30), <1>1 DEF ClaimsInv, RoutersInv
<1>. QED
  BY ZenonT(30), <1>1, <1>2, <1>3, MovesStay

LEMMA MoveClaims ==
    ASSUME OneCollection, ClaimsInv, NEW i \in Move,
           \/ \E c \in Coll, s, t \in Shard : MoveStart(i, c, s, t)
           \/ MoveStep(i) \/ MoveNoContact(i) \/ MoveBackOut(i)
           \/ MoveBeginFails(i) \/ MoveDoneFails(i) \/ MoveReturnFails(i) \/ MoveAborts(i)
    PROVE  ClaimsInv'
<1>1. CASE \E c \in Coll, s, t \in Shard : MoveStart(i, c, s, t)
  BY ZenonT(30), <1>1, StartStep
<1>2. CASE MoveLoad(i)
  BY ZenonT(30), <1>2, LoadStep
<1>3. CASE MoveInstall(i)
  BY ZenonT(30), <1>3, InstallStep
<1>4. CASE MoveBegin(i)
  <2>1. CASE from[move[i].s].active
    BY ZenonT(30), <1>4, <2>1, GoingOn
  <2>2. CASE ~ from[move[i].s].active
    BY ZenonT(30), <1>4, <2>2, BeginStep
  <2>. QED
    BY ZenonT(30), <2>1, <2>2
<1>5. CASE \/ MoveEngage(i) \/ MovePoll(i) \/ MovePollsExhausted(i) \/ MoveNoContact(i)
           \/ MoveCheckLock(i) \/ MoveAnswer(i) \/ MoveBackOut(i) \/ MoveLeave(i)
           \/ MoveCleanup(i) \/ MoveBeginFails(i) \/ MoveDoneFails(i)
  BY ZenonT(30), <1>5, GoingOn
<1>6. CASE MoveDonate(i)
  BY ZenonT(30), <1>6, DonateStep
<1>7. CASE MoveUndo(i)
  BY ZenonT(30), <1>7, UndoStep
<1>8. CASE MoveCommit(i)
  BY ZenonT(30), <1>8, CommitStep
<1>9. CASE MoveTerminate(i)
  BY ZenonT(30), <1>9, TerminateStep
<1>10. CASE MoveDone(i) \/ MoveReturn(i) \/ MoveReturnFails(i)
  BY ZenonT(30), <1>10, DoneOrReturnStep
<1>11. CASE RecvCommit(i) \/ RecvCommitSees(i) \/ RecvCommitTimesOut(i)
  BY ZenonT(30), <1>11, RecipientStep
<1>12. CASE MoveAborts(i)
  <2>1. move[i].s \in Shard /\ Die(move[i].s) /\ config' = config
    BY ZenonT(30), <1>12 DEF MoveAborts, At, ClaimsInv, MovesInv, Good
  <2>. QED
    BY ZenonT(30), <2>1, DieAlone
<1>. QED
  BY ZenonT(30), <1>1, <1>2, <1>3, <1>4, <1>5, <1>6, <1>7, <1>8, <1>9, <1>10, <1>11,
     <1>12 DEF MoveStep

LEMMA ShardClaims ==
    ASSUME ClaimsInv, NEW t \in Shard, RecvStep(t) \/ RecvFail(t) \/ RecvAbort(t) \/ Crash(t)
    PROVE  ClaimsInv'
<1>1. CASE RecvStep(t) \/ RecvFail(t) \/ RecvAbort(t)
  BY ZenonT(30), <1>1, RecipientStep
<1>2. CASE Crash(t)
  BY ZenonT(30), <1>2, DieAlone DEF Crash
<1>. QED
  BY ZenonT(30), <1>1, <1>2

LEMMA NextClaims ==
    ASSUME OneCollection, ClaimsInv, [Next]_vars
    PROVE  ClaimsInv'
<1>1. ASSUME NEW i \in Move,
             \/ \E c \in Coll, s, t \in Shard : MoveStart(i, c, s, t)
             \/ MoveStep(i) \/ MoveNoContact(i) \/ MoveBackOut(i)
             \/ MoveBeginFails(i) \/ MoveDoneFails(i) \/ MoveReturnFails(i) \/ MoveAborts(i)
      PROVE  ClaimsInv'
  BY ZenonT(30), <1>1, MoveClaims
<1>2. ASSUME NEW t \in Shard, RecvStep(t) \/ RecvFail(t) \/ RecvAbort(t) \/ Crash(t)
      PROVE  ClaimsInv'
  BY ZenonT(30), <1>2, ShardClaims
<1>3. ASSUME NEW w \in Mongos, NEW c \in Coll,
             Reload(w, c) \/ SetShardVersion(w, c) \/ SlowShardVersion(w, c)
      PROVE  ClaimsInv'
  BY ZenonT(30), <1>3, ReloadStep, SetShardVersionStep, SlowShardVersionStep
<1>4. ASSUME NEW w \in Mongos, NEW c \in Coll, NEW k \in Key, BeginWrite(w, c, k)
      PROVE  ClaimsInv'
  BY ZenonT(30), <1>4, BeginWriteStep
<1>5. ASSUME NEW w \in Mongos, WriteStep(w) \/ LoadVersion(w) \/ InstallVersion(w)
      PROVE  ClaimsInv'
  BY ZenonT(30), <1>5, TakeLogIdStep, CommitWriteStep, LoadVersionStep, VersionStep DEF WriteStep
<1>6. ASSUME NEW c \in Coll, TakeOver(c) PROVE ClaimsInv'
  BY ZenonT(30), <1>6, TakeOverStep
<1>7. ASSUME NEW c \in Coll, NEW s \in Shard, OtherMove(c, s) PROVE ClaimsInv'
  BY ZenonT(30), <1>7, OtherMoveStep
<1>8. CASE UNCHANGED vars
  BY ZenonT(30), <1>8, StutterClaims
<1>. QED
  BY ZenonT(30), <1>1, <1>2, <1>3, <1>4, <1>5, <1>6, <1>7, <1>8 DEF Next

\* Whatever crashes, gets lost or is backed out, however many moves, shards,
\* routers and writes there are: a shard whose chunk manager has the chunk is
\* the one the config server names.
THEOREM ClaimsStayTrue ==
    ASSUME OneCollection
    PROVE  Spec => []ClaimsAreTrue
<1>1. Init => ClaimsInv
  BY ZenonT(30), InitClaims
<1>2. ClaimsInv /\ [Next]_vars => ClaimsInv'
  BY ZenonT(30), NextClaims
<1>3. ClaimsInv => ClaimsAreTrue
  BY ZenonT(30) DEF ClaimsInv
<1>. QED
  BY <1>1, <1>2, <1>3, PTL DEF Spec

=============================================================================
